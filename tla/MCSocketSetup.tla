--------------------------- MODULE MCSocketSetup ----------------------------
EXTENDS SocketSetup
=============================================================================
