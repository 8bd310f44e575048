---------------------------- MODULE MCServiceIpc ----------------------------
EXTENDS ServiceIpc
=============================================================================
