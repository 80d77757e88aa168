---------------------------- MODULE MCRevisionSync ----------------------------
EXTENDS RevisionSync
=============================================================================
