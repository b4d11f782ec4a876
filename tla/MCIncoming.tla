----------------------------- MODULE MCIncoming -----------------------------
(* Incoming messages on small instances: an answer, a message about it and    *)
(* the notices that disturb it.                                               *)
EXTENDS MTProtoIncoming, TLC

CONSTANTS answer, update, detailed, state, bad, reset, created

KindOf == (answer :> "answer") @@ (update :> "answer") @@
          (detailed :> "detailedInfo") @@ (state :> "stateInfo") @@
          (bad :> "badMsg") @@ (reset :> "badSeqNo") @@ (created :> "newSession")

MCKind == [m \in Messages |-> KindOf[m]]
MCRefers == [m \in Messages |-> IF answer \in Messages THEN answer ELSE m]
=============================================================================
