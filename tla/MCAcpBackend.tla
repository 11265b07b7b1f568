---------------------------- MODULE MCAcpBackend ----------------------------
EXTENDS AcpBackend
=============================================================================
