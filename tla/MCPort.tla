------------------------------- MODULE MCPort -------------------------------
EXTENDS Port
=============================================================================
