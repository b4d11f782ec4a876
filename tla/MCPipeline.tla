----------------------------- MODULE MCPipeline -----------------------------
(* The tick, receive and audio threads on a pool of two buffers.              *)
EXTENDS VoIPPipeline
=============================================================================
