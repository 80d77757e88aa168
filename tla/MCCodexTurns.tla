----------------------------- MODULE MCCodexTurns -----------------------------
EXTENDS CodexTurns
=============================================================================
