---------------------------- MODULE RpcContract ----------------------------
(***************************************************************************)
(* What the request queue of MTProtoKit promises its clients, without       *)
(* sessions, connections or transactions: a request is pending from the     *)
(* moment it is added until it is answered or cancelled, and an answer can  *)
(* only be the answer to a message that was sent for this request and for   *)
(* no other.                                                                *)
(***************************************************************************)
EXTENDS Naturals

CONSTANTS Requests, Ids

VARIABLES
  status,   \* request |-> "new", "pending", "answered" or "cancelled"
  sentAs    \* request |-> ids of the messages that were sent for it

contractVars == <<status, sentAs>>

ContractInit ==
  /\ status = [r \in Requests |-> "new"]
  /\ sentAs = [r \in Requests |-> {}]

Submit(r) ==
  /\ status[r] = "new"
  /\ status' = [status EXCEPT ![r] = "pending"]
  /\ UNCHANGED sentAs

\* Messages are sent for pending requests, each with ids of its own.
SendMessages ==
  /\ UNCHANGED status
  /\ \A r \in Requests : /\ sentAs[r] \subseteq sentAs'[r]
                         /\ sentAs'[r] # sentAs[r] => status[r] = "pending"
  /\ sentAs' \in [Requests -> SUBSET Ids]
  /\ \A r, q \in Requests : r # q => sentAs'[r] \cap sentAs'[q] = {}

Answer(r) ==
  /\ status[r] = "pending"
  /\ sentAs[r] # {}
  /\ status' = [status EXCEPT ![r] = "answered"]
  /\ UNCHANGED sentAs

Cancel(r) ==
  /\ status[r] = "pending"
  /\ status' = [status EXCEPT ![r] = "cancelled"]
  /\ UNCHANGED sentAs

ContractNext ==
  \/ SendMessages
  \/ \E r \in Requests : Submit(r) \/ Answer(r) \/ Cancel(r)

ContractSpec == ContractInit /\ [][ContractNext]_contractVars
=============================================================================
