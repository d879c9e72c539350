--------------------------- MODULE MCRendererLink ---------------------------
EXTENDS RendererLink
=============================================================================
