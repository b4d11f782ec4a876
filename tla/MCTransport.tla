---------------------------- MODULE MCTransport ----------------------------
(* A TCP transport with three connections, one replacing the other.          *)
EXTENDS MTTcpTransport
=============================================================================
