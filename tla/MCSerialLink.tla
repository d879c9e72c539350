---------------------------- MODULE MCSerialLink ----------------------------
EXTENDS SerialLink
=============================================================================
