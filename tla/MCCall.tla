------------------------------- MODULE MCCall -------------------------------
(* One relay, with its TCP variant, and one address of the peer.              *)
EXTENDS VoIPController
=============================================================================
