--------------------------- MODULE MCPairedState ---------------------------
EXTENDS PairedState
=============================================================================
