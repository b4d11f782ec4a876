--------------------------- MODULE MTProtoIncoming ---------------------------
(***************************************************************************)
(* What MTProto does with incoming messages: sessions (MTSessionInfo), the  *)
(* ids already processed, the confirmations (msgs_ack) that are scheduled,  *)
(* written and forgotten, and the messages asked for again                  *)
(* (MTResendMessageService).                                                *)
(*                                                                          *)
(* Three queues run concurrently.  The manager queue runs one block at a    *)
(* time; the blocks that handle a packet are split into one step per        *)
(* message (`inbox'), and no other manager-queue step runs between them.    *)
(* The transport and TCP queues open and close connections and write what   *)
(* the manager queue handed them at any moment, also while a packet is      *)
(* being handled and also for a transport that was already replaced.        *)
(*                                                                          *)
(* The server is external: it sends messages of a session, alone or in a    *)
(* container,   sends them again until they are acknowledged, and may send  *)
(* packets that cannot be read.  A packet lost with its connection is a     *)
(* packet not sent.                                                         *)
(***************************************************************************)
EXTENDS Naturals, Sequences, FiniteSets

CONSTANTS
  Messages,       \* messages the server may send
  Kind,           \* message |-> its kind
  Refers,         \* message |-> the message it is about (msg_detailed_info, ...)
  LargeMessages,  \* messages larger than MTMaxUnacknowledgedMessageSize
  MaxUnacknowledgedMessageCount,
  HighPriorityTraffic, \* other services send messages with hasHighPriority
  BadPackets,     \* the server may send packets that cannot be read
  MaxSession,     \* bound: sessions
  MaxTransport,   \* bound: transports
  MaxConnection,  \* bound: connections; the last one stays open
  MaxContainer,   \* bound: messages in a packet
  MaxQueue,       \* bound: packets waiting on the manager queue
  MaxOutgoing     \* bound: messages transports may have before another transaction

Kinds == {"answer", "detailedInfo", "stateInfo", "badMsg", "badSeqNo", "newSession"}

ASSUME IncomingAssumption ==
  /\ Kind \in [Messages -> Kinds]
  /\ Refers \in [Messages -> Messages]
  /\ LargeMessages \subseteq Messages
  /\ MaxUnacknowledgedMessageCount \in Nat
  /\ HighPriorityTraffic \in BOOLEAN /\ BadPackets \in BOOLEAN
  /\ MaxSession \in Nat \ {0} /\ MaxTransport \in Nat \ {0}
  /\ MaxContainer \in Nat \ {0}
  /\ MaxConnection \in Nat /\ MaxQueue \in Nat /\ MaxOutgoing \in Nat

\* What the server promises (external): the responseMessageId of a
\* msg_detailed_info is the id of an answer, never of another notice.
ASSUME ResponsesAreAnswers ==
  \A m \in Messages : Kind[m] = "detailedInfo" => Kind[Refers[m]] = "answer"

VARIABLES
  session,        \* number of the session _sessionInfo stands for
  processed,      \* its _processedMessageIdsSet
  confirmations,  \* its _scheduledMessageConfirmations: message |-> transactionIds
  resend,         \* the MTResendMessageServices: message |-> the request for it
  transport,      \* number of the transport in _transport
  connectionOf,   \* transport |-> internalId of its connection, 0 for none
  opened,         \* how many connections were opened so far
  pingDue,        \* the transport will ask for a transaction with its ping
  transactionRequested, \* requestTransportTransaction was called, not served
  managerQueue,   \* packets waiting on the manager queue
  inbox,          \* messages of the packet being handled
  failures,       \* closed connections MTProto has not been told about
  outgoing,       \* msgs_ack and msg_resend_req handed to transports
  wire,           \* acknowledgements written to a connection, not yet at the server
  sentIn,         \* message |-> session the server sent it in, 0: not sent
  acknowledged,   \* messages the server got a msgs_ack for
  written,        \* messages a msgs_ack was ever written for (history)
  declined,       \* messages MTProto confirmed instead of requesting (history)
  handled         \* message |-> sessions in which it was handled, not as a
                  \* duplicate (history)

sessionVars == <<session, processed, confirmations, resend>>
transportVars == <<transport, connectionOf, opened, pingDue>>
serverVars == <<sentIn, acknowledged>>
historyVars == <<written, declined, handled>>
incomingVars == <<session, processed, confirmations, resend, transport,
                  connectionOf, opened, pingDue, transactionRequested,
                  managerQueue, inbox, failures, outgoing, wire, sentIn,
                  acknowledged, written, declined, handled>>

-----------------------------------------------------------------------------
(* Data *)

None == 0

Sessions == 1 .. MaxSession
Transports == 1 .. MaxTransport
Connections == 1 .. MaxConnection

\* seqNo % 2 # 0: the server wants these acknowledged and repeats them.
ContentRelated(m) == Kind[m] \in {"answer", "newSession"}

\* The request a MTResendMessageService made: _currentRequestMessageId # 0, and
\* _currentRequestTransactionId.
ResendRequest == [asked : BOOLEAN, transactionId : Connections \cup {None}]

\* A message of the transaction MTProto built for a transport.
Outgoing == [type : {"ack", "resend"}, ids : SUBSET Messages, session : Sessions,
             transport : Transports, state : {"ready", "written", "failed"},
             transactionId : Connections \cup {None}]

Packet == [transport : Transports, connection : Connections,
           type : {"messages", "unparsable", "rejected"}, session : Sessions,
           messages : Seq(Messages)]

NoConfirmations == [m \in {} |-> {}]
NoResend == [m \in {} |-> None]

Idle == inbox = <<>>              \* the manager queue is between two blocks

Connection == connectionOf[transport]

\* scheduledMessageConfirmationsExceedSize:orCount:
Exceed(S) == Cardinality(S) > MaxUnacknowledgedMessageCount \/ S \cap LargeMessages # {}

\* scheduleMessageConfirmation: a message already in the list stays as it is.
Scheduled(S) == [m \in DOMAIN confirmations \cup S |->
                   IF m \in DOMAIN confirmations THEN confirmations[m] ELSE {}]

\* assignTransactionId:toScheduledMessageConfirmationsWithIds:
Assigned(ids, c) == [m \in DOMAIN confirmations |->
                       IF m \in ids THEN confirmations[m] \cup {c} ELSE confirmations[m]]

\* Mutant of WithoutTransaction: unmarked confirmations are removed too.
WithoutAnyTransaction(c) == NoConfirmations

\* removeScheduledMessageConfirmationsWithTransactionIds:
WithoutTransaction(c) ==
  [m \in {k \in DOMAIN confirmations : c \notin confirmations[k]} |-> confirmations[m]]

\* requestMessageWithId: nobody asks for x yet, and it was not processed.
Wanted(x) == x \notin DOMAIN resend /\ x \notin processed'

\* The resend services without those for the messages in S.
WithoutResend(S) == [m \in DOMAIN resend \ S |-> resend[m]]

\* The completion blocks of a removed service have nobody to report to.
WithoutResendsOf(S) == {o \in outgoing : ~(o.type = "resend" /\ o.ids \subseteq S)}

TypeOK ==
  /\ session \in Sessions
  /\ processed \subseteq Messages
  /\ DOMAIN confirmations \subseteq Messages
  /\ confirmations \in [DOMAIN confirmations -> SUBSET Connections]
  /\ DOMAIN resend \subseteq Messages
  /\ resend \in [DOMAIN resend -> ResendRequest]
  /\ transport \in Transports
  /\ connectionOf \in [Transports -> Connections \cup {None}]
  /\ opened \in 0 .. MaxConnection
  /\ pingDue \in BOOLEAN
  /\ transactionRequested \in BOOLEAN
  /\ managerQueue \in Seq(Packet)
  /\ inbox \in Seq(Messages)
  /\ failures \subseteq Connections
  /\ outgoing \subseteq Outgoing
  /\ wire \subseteq [connection : Connections, id : Messages]
  /\ sentIn \in [Messages -> Sessions \cup {0}]
  /\ acknowledged \subseteq Messages
  /\ written \subseteq Messages
  /\ declined \subseteq Messages
  /\ handled \in [Messages -> SUBSET Sessions]

Init ==
  /\ session = 1
  /\ processed = {}
  /\ confirmations = NoConfirmations
  /\ resend = NoResend
  /\ transport = 1
  /\ connectionOf = [t \in Transports |-> None]
  /\ opened = 0
  /\ pingDue = FALSE
  /\ transactionRequested = TRUE
  /\ managerQueue = <<>>
  /\ inbox = <<>>
  /\ failures = {}
  /\ outgoing = {}
  /\ wire = {}
  /\ sentIn = [m \in Messages |-> 0]
  /\ acknowledged = {}
  /\ written = {}
  /\ declined = {}
  /\ handled = [m \in Messages |-> {}]

-----------------------------------------------------------------------------
(* Effects shared by several steps *)

\* requestTransportTransaction when cond holds.
RequestTransactionIf(cond) ==
  transactionRequested' = (transactionRequested \/ cond)

\* Confirmations for S are scheduled; too many of them, or cond, ask for a
\* transaction.
Confirm(S, cond) ==
  /\ confirmations' = Scheduled(S)
  /\ RequestTransactionIf(cond \/ (S # {} /\ Exceed(DOMAIN confirmations \cup S)))

\* The services' reaction to transactionsMayHaveFailed(C).
Unsent(C) ==
  [m \in DOMAIN resend |->
     IF resend[m].transactionId \in C
     THEN [resend[m] EXCEPT !.transactionId = None] ELSE resend[m]]

\* Mutant of MayHaveFailed: nobody asks for a transaction.
MayHaveFailedUnasked(C) == resend' = Unsent(C) /\ UNCHANGED transactionRequested

MayHaveFailed(C) ==
  /\ resend' = Unsent(C)
  /\ RequestTransactionIf(\E m \in DOMAIN resend : resend[m].transactionId \in C)

\* resetSessionInfo: a new MTSessionInfo, mtProtoDidChangeSession (every resend
\* service gives up), a new transport and a request for a transaction.
ResetSessionInfo ==
  /\ session < MaxSession /\ transport < MaxTransport
  /\ session' = session + 1
  /\ processed' = {}
  /\ confirmations' = NoConfirmations
  /\ resend' = NoResend
  /\ outgoing' = WithoutResendsOf(Messages)
  /\ transport' = transport + 1
  /\ pingDue' = FALSE
  /\ transactionRequested' = TRUE
  /\ UNCHANGED <<connectionOf, opened>>

\* The connection of transport t is closed; MTProto hears of it unless the
\* transport was replaced (its delegate is nil then).
Close(t) ==
  /\ connectionOf' = [connectionOf EXCEPT ![t] = None]
  /\ wire' = {w \in wire : w.connection # connectionOf[t]}
  /\ failures' = IF t = transport THEN failures \cup {connectionOf[t]} ELSE failures
  /\ pingDue' = (pingDue /\ t # transport)
  /\ UNCHANGED <<transport, opened>>

-----------------------------------------------------------------------------
(* The server (external) *)

\* One message, or a container of several.
PacketContents == UNION {[1 .. n -> Messages] : n \in 1 .. MaxContainer}

\* A packet that resets the session is only sent while there is room for another
\* session and another transport.
Enqueue(type, s, messages, resets) ==
  /\ Connection # None
  /\ resets => session < MaxSession /\ transport < MaxTransport
  /\ Len(managerQueue) < MaxQueue
  /\ managerQueue' = Append(managerQueue,
       [transport |-> transport, connection |-> Connection, type |-> type,
        session |-> s, messages |-> messages])

\* The server sends messages of one session, new ones or content-related ones it
\* has no msgs_ack for.  Replies to a msg_resend_req follow the request.
ServerSends(messages, s) ==
  LET sent == {messages[i] : i \in DOMAIN messages}
  IN  /\ Cardinality(sent) = Len(messages)
      /\ s = session \/ BadPackets
      /\ \A m \in sent :
           /\ sentIn[m] = 0 \/ (sentIn[m] = s /\ ContentRelated(m))
           /\ m \notin acknowledged
           /\ Kind[m] \in {"stateInfo", "badMsg"} =>
                Refers[m] \in DOMAIN resend /\ resend[Refers[m]].asked
      /\ sentIn' = [m \in Messages |-> IF m \in sent THEN s ELSE sentIn[m]]
      /\ Enqueue("messages", s, messages,
                 s # session \/ \E m \in sent : Kind[m] = "badSeqNo")
      /\ UNCHANGED <<sessionVars, transportVars, transactionRequested, inbox,
                     failures, outgoing, wire, acknowledged, historyVars>>

\* A packet that cannot be parsed, or not even decrypted.
ServerSendsBadPacket(type) ==
  /\ BadPackets
  /\ Enqueue(type, session, <<>>, type = "unparsable")
  /\ UNCHANGED <<sessionVars, transportVars, transactionRequested, inbox,
                 failures, outgoing, wire, serverVars, historyVars>>

AckArrives(w) ==
  /\ wire' = wire \ {w}
  /\ acknowledged' = acknowledged \cup {w.id}
  /\ UNCHANGED <<sessionVars, transportVars, transactionRequested, managerQueue,
                 inbox, failures, outgoing, sentIn, historyVars>>

-----------------------------------------------------------------------------
(* transportHasIncomingData *)

TakePacket(p) ==
  /\ Idle
  /\ managerQueue # <<>> /\ p = Head(managerQueue)
  /\ managerQueue' = Tail(managerQueue)

\* The transport was replaced in the meantime.
IgnorePacket(p) ==
  /\ TakePacket(p)
  /\ p.transport # transport
  /\ UNCHANGED <<sessionVars, transportVars, transactionRequested, inbox,
                 failures, outgoing, wire, serverVars, historyVars>>

\* Mutant of RejectPacket: a connection that is gone already is reported again.
RejectPacketClosesAlways(p) ==
  /\ TakePacket(p)
  /\ p.transport = transport /\ p.type = "rejected"
  /\ MayHaveFailed({p.connection})
  /\ Close(transport)
  /\ UNCHANGED <<session, processed, confirmations, inbox, outgoing, serverVars,
                 historyVars>>

\* Not decrypted, or a protocol error code: the connection is reset.
RejectPacket(p) ==
  /\ TakePacket(p)
  /\ p.transport = transport /\ p.type = "rejected"
  /\ MayHaveFailed({p.connection})
  /\ IF Connection # None THEN Close(transport)
     ELSE UNCHANGED <<transportVars, wire, failures>>
  /\ UNCHANGED <<session, processed, confirmations, inbox, outgoing, serverVars,
                 historyVars>>

\* Mutant of OfThisSession: the session id in the packet is not compared.
OfAnySession(p) == TRUE

\* The session id in the packet's header is that of _sessionInfo.
OfThisSession(p) == p.session = session

\* Not parsed, or of another session.
UnparsablePacket(p) ==
  /\ TakePacket(p)
  /\ p.transport = transport
  /\ p.type = "unparsable" \/ (p.type = "messages" /\ ~OfThisSession(p))
  /\ ResetSessionInfo
  /\ UNCHANGED <<inbox, failures, wire, serverVars, historyVars>>

\* Data on a connection takes the msgs_ack written to it for received
\* (transportTransactionsSucceeded); then the messages are handled.
AcceptPacket(p) ==
  /\ TakePacket(p)
  /\ p.transport = transport /\ p.type = "messages" /\ OfThisSession(p)
  /\ confirmations' = WithoutTransaction(p.connection)
  /\ inbox' = p.messages
  /\ UNCHANGED <<session, processed, resend, transportVars, transactionRequested,
                 failures, outgoing, wire, serverVars, historyVars>>

-----------------------------------------------------------------------------
(* _processIncomingMessage *)

NextMessage(m) ==
  /\ inbox # <<>> /\ m = Head(inbox)
  /\ inbox' = Tail(inbox)
  /\ UNCHANGED <<managerQueue, failures, wire, serverVars, written>>

\* A message that was not processed yet.
NewMessage(m) ==
  /\ NextMessage(m)
  /\ m \notin processed
  /\ handled' = [handled EXCEPT ![m] = @ \cup {session}]

\* Mutant of ProcessDuplicate: a duplicate is only dropped.
ProcessDuplicateDropped(m) ==
  /\ NextMessage(m)
  /\ m \in processed
  /\ UNCHANGED <<sessionVars, transportVars, transactionRequested, outgoing,
                 declined, handled>>

\* It was processed: the server did not get the confirmation, so send another.
ProcessDuplicate(m) ==
  /\ NextMessage(m)
  /\ m \in processed
  /\ Confirm({m}, FALSE)
  /\ UNCHANGED <<session, processed, resend, transportVars, outgoing, declined, handled>>

\* Mutant of ProcessAnswer: the resend service stays.
ProcessAnswerKeepsResend(m) ==
  /\ NewMessage(m)
  /\ Kind[m] = "answer"
  /\ processed' = processed \cup {m}
  /\ Confirm({m}, FALSE)
  /\ UNCHANGED <<session, resend, outgoing, transportVars, declined>>

\* A message the services are given: the resend service for it is done.
ProcessAnswer(m) ==
  /\ NewMessage(m)
  /\ Kind[m] = "answer"
  /\ processed' = processed \cup {m}
  /\ Confirm({m}, FALSE)
  /\ resend' = WithoutResend({m})
  /\ outgoing' = WithoutResendsOf({m})
  /\ UNCHANGED <<session, transportVars, declined>>

\* msgs_state_info in reply to msg_resend_req: the service gives up.
ProcessStateInfo(m) ==
  LET done == {x \in DOMAIN resend : x = Refers[m] /\ resend[x].asked}
  IN  /\ NewMessage(m)
      /\ Kind[m] = "stateInfo"
      /\ processed' = processed \cup {m}
      /\ resend' = WithoutResend(done)
      /\ outgoing' = WithoutResendsOf(done)
      /\ UNCHANGED <<session, confirmations, transportVars, transactionRequested, declined>>

\* bad_msg_notification for the msg_resend_req: it is sent again.
ProcessBadMsg(m) ==
  /\ NewMessage(m)
  /\ Kind[m] = "badMsg"
  /\ processed' = processed \cup {m}
  /\ resend' = [x \in DOMAIN resend |->
                  IF x = Refers[m] /\ resend[x].asked
                  THEN [asked |-> FALSE, transactionId |-> None] ELSE resend[x]]
  /\ RequestTransactionIf(TRUE)
  /\ UNCHANGED <<session, confirmations, transportVars, outgoing, declined>>

\* bad_msg_notification 32 or 33 (msg_seqno): the session starts over, and what
\* is left of the packet is handled in the new one.
ProcessBadSeqNo(m) ==
  /\ NewMessage(m)
  /\ Kind[m] = "badSeqNo"
  /\ ResetSessionInfo
  /\ UNCHANGED declined

\* Mutant of RequestAnswer: the answer is confirmed as soon as it is asked for.
RequestAnswerConfirmed(x) ==
  /\ resend' = [k \in DOMAIN resend \cup {y \in {x} : Wanted(y)} |->
                  IF k \in DOMAIN resend THEN resend[k]
                  ELSE [asked |-> FALSE, transactionId |-> None]]
  /\ Confirm({x}, Wanted(x))
  /\ UNCHANGED declined

\* A MTResendMessageService for x is added, if x is wanted.
RequestAnswer(x) ==
  /\ resend' = [k \in DOMAIN resend \cup {y \in {x} : Wanted(y)} |->
                  IF k \in DOMAIN resend THEN resend[k]
                  ELSE [asked |-> FALSE, transactionId |-> None]]
  /\ RequestTransactionIf(Wanted(x))
  /\ UNCHANGED <<confirmations, declined>>

\* msg_detailed_info: the answer is requested when some service wants it, and
\* otherwise confirmed unseen.
ProcessDetailedInfo(m, shouldRequest) ==
  /\ NewMessage(m)
  /\ Kind[m] = "detailedInfo"
  /\ processed' = processed \cup {m}
  /\ IF shouldRequest THEN RequestAnswer(Refers[m])
     ELSE /\ Confirm({Refers[m]}, TRUE)
          /\ declined' = declined \cup {Refers[m]}
          /\ UNCHANGED resend
  /\ UNCHANGED <<session, transportVars, outgoing>>

\* new_session_created: services whose msg_resend_req the server lost give up.
ProcessNewSession(m, lost) ==
  /\ NewMessage(m)
  /\ Kind[m] = "newSession"
  /\ lost \subseteq {x \in DOMAIN resend : resend[x].asked}
  /\ processed' = processed \cup {m}
  /\ Confirm({m}, FALSE)
  /\ resend' = WithoutResend(lost)
  /\ outgoing' = WithoutResendsOf(lost)
  /\ UNCHANGED <<session, transportVars, declined>>

-----------------------------------------------------------------------------
(* Transactions *)

\* Another service asks for a transaction.
ClientTraffic ==
  /\ Idle
  /\ RequestTransactionIf(TRUE)
  /\ UNCHANGED <<sessionVars, transportVars, managerQueue, inbox, failures,
                 outgoing, wire, serverVars, historyVars>>

\* transportReadyForTransaction: scheduled confirmations go along unless other
\* messages have high priority; the transport's first transaction on a
\* connection, which carries its ping, forces them.
ReadyForTransaction(highPriority) ==
  LET acks == IF pingDue \/ ~highPriority \/ Exceed(DOMAIN confirmations)
              THEN DOMAIN confirmations ELSE {}
      item(type, ids) == [type |-> type, ids |-> ids, session |-> session,
                          transport |-> transport, state |-> "ready",
                          transactionId |-> None]
      new == {item("ack", acks) : a \in IF acks = {} THEN {} ELSE {acks}} \cup
             {item("resend", {m}) : m \in {x \in DOMAIN resend :
                                             resend[x].transactionId = None}}
  IN  /\ Idle
      /\ Connection # None
      /\ pingDue \/ transactionRequested
      /\ Cardinality(outgoing) < MaxOutgoing
      /\ outgoing' = outgoing \cup new
      /\ pingDue' = FALSE
      /\ transactionRequested' = FALSE
      /\ UNCHANGED <<sessionVars, transport, connectionOf, opened, managerQueue,
                     inbox, failures, wire, serverVars, historyVars>>

\* The transport writes the message to its connection, if it has one.
WriteOutgoing(o) ==
  LET c == connectionOf[o.transport]
  IN  /\ o.state = "ready"
      /\ outgoing' = (outgoing \ {o}) \cup
           {[o EXCEPT !.state = IF c = None THEN "failed" ELSE "written",
                      !.transactionId = c]}
      /\ IF c # None /\ o.type = "ack"
         THEN /\ wire' = wire \cup {[connection |-> c, id |-> m] : m \in o.ids}
              /\ written' = written \cup o.ids
         ELSE UNCHANGED <<wire, written>>
      /\ UNCHANGED <<sessionVars, transportVars, transactionRequested,
                     managerQueue, inbox, failures, serverVars, declined, handled>>

\* The completion blocks.  The one of a msgs_ack captured its MTSessionInfo.
CompleteOutgoing(o) ==
  /\ Idle
  /\ o.state # "ready"
  /\ outgoing' = outgoing \ {o}
  /\ confirmations' =
       IF o.type = "ack" /\ o.state = "written" /\ o.session = session
       THEN Assigned(o.ids, o.transactionId) ELSE confirmations
  /\ resend' =
       IF o.type = "resend" /\ o.state = "written"
       THEN [m \in DOMAIN resend |->
               IF m \in o.ids THEN [asked |-> TRUE, transactionId |-> o.transactionId]
               ELSE resend[m]]
       ELSE resend
  /\ UNCHANGED <<session, processed, transportVars, transactionRequested,
                 managerQueue, inbox, failures, wire, serverVars, historyVars>>

-----------------------------------------------------------------------------
(* Connections and transports *)

\* tcpConnectionOpened: the first thing the transport does is ask for a
\* transaction with a ping.
ConnectionOpened ==
  /\ Connection = None
  /\ opened < MaxConnection
  /\ opened' = opened + 1
  /\ connectionOf' = [connectionOf EXCEPT ![transport] = opened + 1]
  /\ pingDue' = TRUE
  /\ UNCHANGED <<sessionVars, transport, transactionRequested, managerQueue,
                 inbox, failures, outgoing, wire, serverVars, historyVars>>

\* tcpConnectionClosed, or the delayed stop of a replaced transport.
ConnectionClosed(t) ==
  /\ connectionOf[t] # None
  /\ t = transport => opened < MaxConnection
  /\ Close(t)
  /\ UNCHANGED <<sessionVars, transactionRequested, managerQueue, inbox,
                 outgoing, serverVars, historyVars>>

\* transportTransactionsMayHaveFailed, behind the completions of everything that
\* was written to the connection (both come from the TCP queue, in this order).
NotifyFailure(c) ==
  /\ Idle
  /\ c \in failures
  /\ \A o \in outgoing : o.state = "written" => o.transactionId # c
  /\ failures' = failures \ {c}
  /\ MayHaveFailed({c})
  /\ UNCHANGED <<session, processed, confirmations, transportVars, managerQueue,
                 inbox, outgoing, wire, serverVars, historyVars>>

\* resetTransport within a session (another address, resume, ...): services are
\* told that everything may have failed; the old connection closes later.
ResetTransport ==
  /\ Idle
  /\ transport < MaxTransport
  /\ transport' = transport + 1
  /\ pingDue' = FALSE
  /\ resend' = Unsent(Connections)
  /\ RequestTransactionIf(TRUE)
  /\ UNCHANGED <<session, processed, confirmations, connectionOf, opened,
                 managerQueue, inbox, failures, outgoing, wire, serverVars,
                 historyVars>>

-----------------------------------------------------------------------------
ServerStep ==
  \/ \E messages \in PacketContents, s \in 1 .. session : ServerSends(messages, s)
  \/ \E type \in {"unparsable", "rejected"} : ServerSendsBadPacket(type)
  \/ \E w \in wire : AckArrives(w)

PacketStep ==
  \E i \in DOMAIN managerQueue :
    \/ IgnorePacket(managerQueue[i])
    \/ RejectPacket(managerQueue[i])
    \/ UnparsablePacket(managerQueue[i])
    \/ AcceptPacket(managerQueue[i])

MessageStep ==
  \E m \in Messages :
    \/ ProcessDuplicate(m)
    \/ ProcessAnswer(m)
    \/ ProcessStateInfo(m)
    \/ ProcessBadMsg(m)
    \/ ProcessBadSeqNo(m)
    \/ \E b \in BOOLEAN : ProcessDetailedInfo(m, b)
    \/ \E lost \in SUBSET DOMAIN resend : ProcessNewSession(m, lost)

OutgoingStep ==
  \/ ClientTraffic
  \/ \E h \in {FALSE, HighPriorityTraffic} : ReadyForTransaction(h)
  \/ \E o \in outgoing : WriteOutgoing(o) \/ CompleteOutgoing(o)

ConnectionStep ==
  \/ ConnectionOpened
  \/ \E t \in Transports : ConnectionClosed(t)
  \/ \E c \in failures : NotifyFailure(c)
  \/ ResetTransport

Next == ServerStep \/ PacketStep \/ MessageStep \/ OutgoingStep \/ ConnectionStep

Spec == Init /\ [][Next]_incomingVars

-----------------------------------------------------------------------------
(* Properties *)

\* A confirmation the server waits for is not forgotten: until msgs_ack was
\* written for a message, the message stays scheduled.  removal by connection id
\* (removeScheduledMessageConfirmationsWithTransactionIds) must therefore never
\* meet the id of a connection the msgs_ack did not reach.
NotForgotten ==
  \A m \in processed : ContentRelated(m) => m \in DOMAIN confirmations \/ m \in written

\* Only what was handled, or declined on a msg_detailed_info, is confirmed: the
\* server deletes a message once it is.
ConfirmedWereHandled ==
  \A m \in DOMAIN confirmations \cup written : handled[m] # {} \/ m \in declined

\* A message is handled in the session it was sent in.  The one exception is the
\* rest of a container whose bad_msg_notification reset the session (several
\* notices in one container reset it several times).
HandledInOwnSession ==
  \A m \in Messages : \A s \in handled[m] :
    \/ s = sentIn[m]
    \/ /\ s > sentIn[m]
       /\ \E b \in Messages : /\ Kind[b] = "badSeqNo" /\ sentIn[b] = sentIn[m]
                              /\ sentIn[b] \in handled[b]

\* A resend service only asks for messages that are still missing.
ResendsAreMissing == DOMAIN resend \cap processed = {}

\* No msg_resend_req is forgotten: it was sent, is being sent, or a transaction
\* that will carry it is certain to come, whichever of write, close, failure
\* notice and completion came first.
NoForgottenResend ==
  \A m \in DOMAIN resend :
    \/ resend[m].transactionId # None
    \/ transactionRequested \/ pingDue \/ Connection = None
    \/ \E o \in outgoing : o.type = "resend" /\ m \in o.ids

\* What the code's scheduling guarantees: the three queues are serial and first
\* in, first out, so a block that was dispatched runs, whatever else is
\* dispatched (strong fairness where the manager queue may be busy); closed
\* connections are opened again; what was written to a connection that stays
\* open arrives.  What it relies on: the server repeats unacknowledged messages,
\* and the client goes on making requests, not all of them with high priority.
Fairness ==
  /\ WF_incomingVars(PacketStep)
  /\ WF_incomingVars(MessageStep)
  /\ WF_incomingVars(\E o \in outgoing : WriteOutgoing(o))
  /\ SF_incomingVars(\E o \in outgoing : CompleteOutgoing(o))
  /\ WF_incomingVars(\E w \in wire : AckArrives(w))
  /\ WF_incomingVars(ConnectionOpened)
  /\ SF_incomingVars(ClientTraffic)
  /\ SF_incomingVars(ReadyForTransaction(FALSE))
  /\ \A m \in Messages : ContentRelated(m) =>
       SF_incomingVars(sentIn[m] # 0 /\ ServerSends(<<m>>, sentIn[m]))

FairSpec == Spec /\ Fairness

\* Every message that wants a confirmation gets one, however often connections
\* close between the write of a msgs_ack and its arrival.
EventuallyConfirmed ==
  \A m \in Messages : ContentRelated(m) =>
    ((sentIn[m] = session) ~> (m \in acknowledged \/ sentIn[m] # session))
=============================================================================
