---------------------------- MODULE MCAckWindow -----------------------------
(* One side sends a reliable packet, the other acknowledges; a window of      *)
(* three numbers, so that packets arrive a window ahead or a window late.     *)
EXTENDS VoIPAckWindow, TLC

CONSTANTS caller, callee, mute

MCOther == (caller :> callee) @@ (callee :> caller)
MCOwner == (mute :> caller)
MCMaxSeq == (caller :> 4) @@ (callee :> 2)
MCMaxSeqShort == (caller :> 3) @@ (callee :> 2)
=============================================================================
