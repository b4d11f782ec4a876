---------------------- MODULE MCRequestMessageService ----------------------
(* The request service against an arbitrary environment: two requests, the   *)
(* second depending on the first.                                            *)
EXTENDS MTRequestMessageService, TLC

CONSTANTS r1, r2

MCDependsOn == (r1 :> {}) @@ (r2 :> {r1})
=============================================================================
