---------------------------- MODULE MCSonoffApp ----------------------------
EXTENDS SonoffApp
=============================================================================
