------------------------ MODULE MTProtoIncomingProofs ------------------------
(***************************************************************************)
(* What MTProtoIncoming keeps, for any messages, sessions, transports and   *)
(* connections: its types, that no confirmation is forgotten and none is    *)
(* sent for a message nobody handled, that messages are handled in their    *)
(* own session, and that resend services ask for what is missing and are    *)
(* not forgotten.                                                           *)
(***************************************************************************)
EXTENDS MTProtoIncoming, TLAPS

-----------------------------------------------------------------------------
(* Types *)

\* TypeOK in parts, with what makes it inductive: a written message has the id
\* of the connection it was written to.
SessionTyped ==
  /\ session \in Sessions
  /\ processed \subseteq Messages
  /\ DOMAIN confirmations \subseteq Messages
  /\ confirmations \in [DOMAIN confirmations -> SUBSET Connections]
  /\ DOMAIN resend \subseteq Messages
  /\ resend \in [DOMAIN resend -> ResendRequest]

TransportTyped ==
  /\ transport \in Transports
  /\ connectionOf \in [Transports -> Connections \cup {None}]
  /\ opened \in 0 .. MaxConnection
  /\ pingDue \in BOOLEAN
  /\ transactionRequested \in BOOLEAN

QueuesTyped ==
  /\ managerQueue \in Seq(Packet)
  /\ inbox \in Seq(Messages)
  /\ failures \subseteq Connections
  /\ outgoing \subseteq Outgoing
  /\ \A o \in outgoing : o.state = "written" => o.transactionId # None
  /\ wire \subseteq [connection : Connections, id : Messages]

ServerTyped ==
  /\ sentIn \in [Messages -> Sessions \cup {0}]
  /\ acknowledged \subseteq Messages

HistoryTyped ==
  /\ written \subseteq Messages
  /\ declined \subseteq Messages
  /\ handled \in [Messages -> SUBSET Sessions]

Typed == SessionTyped /\ TransportTyped /\ QueuesTyped /\ ServerTyped /\ HistoryTyped

\* What the parts say together is TypeOK.
LEMMA TypedIsTypeOK == Typed => TypeOK
  BY DEF Typed, SessionTyped, TransportTyped, QueuesTyped, ServerTyped, HistoryTyped, TypeOK

\* The numbers that sessions, transports and connections are made of.
LEMMA Numbering ==
  /\ 1 \in Sessions /\ 1 \in Transports
  /\ Sessions \subseteq Nat \ {0} /\ Transports \subseteq Nat \ {0}
  /\ Connections \subseteq Nat \ {0} /\ None \notin Connections
  BY IncomingAssumption DEF Sessions, Transports, Connections, None

\* A session that was just created has no confirmations and no resend services.
LEMMA Empty ==
  /\ DOMAIN NoConfirmations = {} /\ NoConfirmations \in [{} -> SUBSET Connections]
  /\ DOMAIN NoResend = {} /\ NoResend \in [{} -> ResendRequest]
  BY DEF NoConfirmations, NoResend

\* Init has the right types.
LEMMA InitTyped == Init => Typed
<1> SUFFICES ASSUME Init PROVE Typed
  OBVIOUS
<1>1. SessionTyped
  BY Numbering, Empty DEF Init, SessionTyped
<1>2. TransportTyped
  <2>1. pingDue \in BOOLEAN /\ transactionRequested \in BOOLEAN
    BY DEF Init
  <2>2. transport \in Transports /\ opened \in 0 .. MaxConnection
    BY Numbering, IncomingAssumption DEF Init
  <2>3. connectionOf \in [Transports -> Connections \cup {None}]
    BY DEF Init
  <2> QED BY <2>1, <2>2, <2>3 DEF TransportTyped
<1>3. QueuesTyped
  BY DEF Init, QueuesTyped
<1>4. ServerTyped /\ HistoryTyped
  BY DEF Init, ServerTyped, HistoryTyped
<1> QED BY <1>1, <1>2, <1>3, <1>4 DEF Typed

\* scheduleMessageConfirmation adds entries without transactionIds.
LEMMA ScheduledTyped ==
  ASSUME SessionTyped, NEW S \in SUBSET Messages
  PROVE  /\ DOMAIN Scheduled(S) = DOMAIN confirmations \cup S
         /\ DOMAIN Scheduled(S) \subseteq Messages
         /\ Scheduled(S) \in [DOMAIN Scheduled(S) -> SUBSET Connections]
  BY DEF SessionTyped, Scheduled

\* transactionsMayHaveFailed forgets transaction ids.
LEMMA UnsentTyped ==
  ASSUME SessionTyped, NEW C
  PROVE  /\ DOMAIN Unsent(C) = DOMAIN resend
         /\ Unsent(C) \in [DOMAIN Unsent(C) -> ResendRequest]
  BY DEF SessionTyped, Unsent, ResendRequest

\* Removing resend services leaves the others.
LEMMA WithoutResendTyped ==
  ASSUME SessionTyped, NEW S
  PROVE  /\ DOMAIN WithoutResend(S) = DOMAIN resend \ S
         /\ WithoutResend(S) \in [DOMAIN WithoutResend(S) -> ResendRequest]
  BY DEF SessionTyped, WithoutResend

\* requestTransportTransaction sets a flag.
LEMMA RequestTyped ==
  ASSUME TransportTyped, NEW cond \in BOOLEAN, RequestTransactionIf(cond)
  PROVE  /\ transactionRequested' \in BOOLEAN
         /\ transactionRequested => transactionRequested'
         /\ cond => transactionRequested'
  BY Zenon DEF TransportTyped, RequestTransactionIf

\* A confirmation for messages of the server keeps the types.
LEMMA ConfirmTyped ==
  ASSUME Typed, NEW S \in SUBSET Messages, NEW cond \in BOOLEAN, Confirm(S, cond)
  PROVE  /\ DOMAIN confirmations' \subseteq Messages
         /\ confirmations' \in [DOMAIN confirmations' -> SUBSET Connections]
         /\ transactionRequested' \in BOOLEAN
<1>1. confirmations' = Scheduled(S)
  BY DEF Confirm
<1>2. transactionRequested' \in BOOLEAN
  BY Zenon DEF Confirm, Typed, TransportTyped, RequestTransactionIf
<1> QED BY <1>1, <1>2, ScheduledTyped DEF Typed

\* A new session keeps the types.
LEMMA ResetTyped ==
  ASSUME Typed, ResetSessionInfo
  PROVE  /\ SessionTyped' /\ TransportTyped'
         /\ outgoing' \subseteq outgoing
<1>1. session' \in Sessions /\ transport' \in Transports
  BY IncomingAssumption DEF Typed, SessionTyped, TransportTyped, ResetSessionInfo, Sessions, Transports
<1>2. SessionTyped'
  BY <1>1, Empty DEF ResetSessionInfo, SessionTyped
<1>3. TransportTyped'
  BY <1>1 DEF Typed, TransportTyped, ResetSessionInfo
<1> QED BY <1>2, <1>3 DEF ResetSessionInfo, WithoutResendsOf

\* A closed connection keeps the types.
LEMMA CloseTyped ==
  ASSUME Typed, NEW t \in Transports, connectionOf[t] # None, Close(t)
  PROVE  /\ transport' \in Transports /\ connectionOf' \in [Transports -> Connections \cup {None}]
         /\ opened' \in 0 .. MaxConnection /\ pingDue' \in BOOLEAN
         /\ failures' \subseteq Connections /\ wire' \subseteq wire
<1>1. connectionOf[t] \in Connections
  BY DEF Typed, TransportTyped
<1>2. pingDue' \in BOOLEAN
  BY Zenon DEF Close, Typed, TransportTyped
<1>3. transport' \in Transports /\ opened' \in 0 .. MaxConnection
  BY DEF Close, Typed, TransportTyped
<1>4. connectionOf' \in [Transports -> Connections \cup {None}]
  BY DEF Close, Typed, TransportTyped
<1>5. failures' \subseteq Connections
  BY <1>1 DEF Close, Typed, QueuesTyped
<1> QED BY <1>2, <1>3, <1>4, <1>5 DEF Close

\* A packet holds a sequence of messages.
LEMMA ContentsAreMessages == PacketContents \subseteq Seq(Messages)
<1> SUFFICES ASSUME NEW n \in 1 .. MaxContainer, NEW c \in [1 .. n -> Messages]
             PROVE  c \in Seq(Messages)
  BY DEF PacketContents
<1>1. n \in Nat
  BY IncomingAssumption
<1> QED BY <1>1

\* The steps of the server keep the types.
LEMMA ServerStepTyped == Typed /\ ServerStep => Typed'
<1> SUFFICES ASSUME Typed, ServerStep PROVE Typed'
  OBVIOUS
<1> USE DEF Typed
<1>1. ASSUME NEW type \in {"messages", "unparsable", "rejected"}, NEW s \in Sessions,
             NEW messages \in Seq(Messages), NEW resets, Enqueue(type, s, messages, resets)
      PROVE  managerQueue' \in Seq(Packet)
  <2>1. Connection \in Connections /\ transport \in Transports
    BY <1>1 DEF Enqueue, Connection, TransportTyped
  <2> DEFINE p == [transport |-> transport, connection |-> Connection, type |-> type,
                   session |-> s, messages |-> messages]
  <2>2. p \in Packet
    BY <2>1 DEF Packet
  <2>3. managerQueue' = Append(managerQueue, p)
    BY <1>1 DEF Enqueue
  <2> QED BY <2>2, <2>3 DEF QueuesTyped
<1>2. ASSUME NEW messages \in PacketContents, NEW s \in 1 .. session, ServerSends(messages, s)
      PROVE  Typed'
  <2>1. messages \in Seq(Messages)
    BY ContentsAreMessages
  <2>2. s \in Sessions
    BY IncomingAssumption DEF SessionTyped, Sessions
  <2>3. managerQueue' \in Seq(Packet)
    BY <1>1, <1>2, <2>1, <2>2 DEF ServerSends
  <2>4. sentIn' \in [Messages -> Sessions \cup {0}]
    BY <1>2, <2>2 DEF ServerSends, ServerTyped
  <2>5. ServerTyped'
    BY <1>2, <2>4 DEF ServerSends, ServerTyped
  <2>6. QueuesTyped'
    BY <1>2, <2>3 DEF ServerSends, QueuesTyped
  <2>7. SessionTyped' /\ TransportTyped' /\ HistoryTyped'
    BY <1>2 DEF ServerSends, sessionVars, transportVars, historyVars, SessionTyped,
       TransportTyped, HistoryTyped
  <2> QED BY <2>5, <2>6, <2>7
<1>3. ASSUME NEW type \in {"unparsable", "rejected"}, ServerSendsBadPacket(type)
      PROVE  Typed'
  <2>1. managerQueue' \in Seq(Packet)
    <3>1. Enqueue(type, session, <<>>, type = "unparsable")
      BY <1>3 DEF ServerSendsBadPacket
    <3>2. session \in Sessions /\ <<>> \in Seq(Messages)
      BY DEF SessionTyped
    <3> QED BY <1>1, <3>1, <3>2
  <2>2. QueuesTyped'
    BY <1>3, <2>1 DEF ServerSendsBadPacket, QueuesTyped
  <2>3. SessionTyped' /\ TransportTyped' /\ ServerTyped' /\ HistoryTyped'
    BY <1>3 DEF ServerSendsBadPacket, sessionVars, transportVars, historyVars, serverVars,
       SessionTyped, TransportTyped, HistoryTyped, ServerTyped
  <2> QED BY <2>2, <2>3
<1>4. ASSUME NEW w \in wire, AckArrives(w)
      PROVE  Typed'
  <2>1. w.id \in Messages
    BY DEF QueuesTyped
  <2>2. QueuesTyped' /\ ServerTyped'
    BY <1>4, <2>1 DEF AckArrives, QueuesTyped, ServerTyped
  <2>3. SessionTyped' /\ TransportTyped' /\ HistoryTyped'
    BY <1>4 DEF AckArrives, sessionVars, transportVars, historyVars, SessionTyped,
       TransportTyped, HistoryTyped
  <2> QED BY <2>2, <2>3
<1> QED BY <1>2, <1>3, <1>4 DEF ServerStep

\* The packet at the head of the manager queue.
LEMMA TakenPacket ==
  ASSUME QueuesTyped, NEW p, TakePacket(p)
  PROVE  p \in Packet /\ managerQueue' \in Seq(Packet) /\ p \in {managerQueue[i] : i \in DOMAIN managerQueue}
  BY DEF QueuesTyped, TakePacket

\* The steps that take a packet keep the types.
LEMMA PacketStepTyped == Typed /\ PacketStep => Typed'
<1> SUFFICES ASSUME Typed, NEW p,
                    IgnorePacket(p) \/ RejectPacket(p) \/ UnparsablePacket(p) \/ AcceptPacket(p)
             PROVE  Typed'
  BY DEF PacketStep
<1> USE DEF Typed
<1>0. p \in Packet /\ managerQueue' \in Seq(Packet)
  BY TakenPacket DEF IgnorePacket, RejectPacket, UnparsablePacket, AcceptPacket
<1>1. CASE IgnorePacket(p)
  <2>1. QueuesTyped'
    BY <1>0, <1>1 DEF IgnorePacket, QueuesTyped
  <2>2. SessionTyped' /\ TransportTyped' /\ ServerTyped' /\ HistoryTyped'
    BY <1>1 DEF IgnorePacket, sessionVars, transportVars, serverVars, historyVars,
       SessionTyped, TransportTyped, ServerTyped, HistoryTyped
  <2> QED BY <2>1, <2>2
<1>2. CASE RejectPacket(p)
  <2>1. SessionTyped'
    <3>1. resend' = Unsent({p.connection})
      BY <1>2 DEF RejectPacket, MayHaveFailed
    <3> QED BY <1>2, <3>1, UnsentTyped DEF RejectPacket, SessionTyped
  <2>2. transactionRequested' \in BOOLEAN
    BY <1>2, Zenon DEF RejectPacket, MayHaveFailed, RequestTransactionIf, TransportTyped
  <2>3. /\ transport' \in Transports /\ connectionOf' \in [Transports -> Connections \cup {None}]
        /\ opened' \in 0 .. MaxConnection /\ pingDue' \in BOOLEAN
        /\ failures' \subseteq Connections /\ wire' \subseteq wire
    <3>1. CASE Connection # None
      BY <1>2, <3>1, CloseTyped DEF RejectPacket, Connection, TransportTyped
    <3>2. CASE Connection = None
      BY <1>2, <3>2 DEF RejectPacket, transportVars, TransportTyped, QueuesTyped
    <3> QED BY <3>1, <3>2
  <2>4. TransportTyped'
    BY <2>2, <2>3 DEF TransportTyped
  <2>5. QueuesTyped'
    BY <1>0, <1>2, <2>3 DEF RejectPacket, QueuesTyped
  <2>6. ServerTyped' /\ HistoryTyped'
    BY <1>2 DEF RejectPacket, serverVars, historyVars, ServerTyped, HistoryTyped
  <2> QED BY <2>1, <2>4, <2>5, <2>6
<1>3. CASE UnparsablePacket(p)
  <2>1. SessionTyped' /\ TransportTyped' /\ outgoing' \subseteq outgoing
    BY <1>3, ResetTyped DEF UnparsablePacket
  <2>2. QueuesTyped'
    BY <1>0, <1>3, <2>1 DEF UnparsablePacket, QueuesTyped
  <2>3. ServerTyped' /\ HistoryTyped'
    BY <1>3 DEF UnparsablePacket, serverVars, historyVars, ServerTyped, HistoryTyped
  <2> QED BY <2>1, <2>2, <2>3
<1>4. CASE AcceptPacket(p)
  <2>1. SessionTyped'
    BY <1>4 DEF AcceptPacket, WithoutTransaction, SessionTyped
  <2>2. QueuesTyped'
    BY <1>0, <1>4 DEF AcceptPacket, QueuesTyped, Packet
  <2>3. TransportTyped' /\ ServerTyped' /\ HistoryTyped'
    BY <1>4 DEF AcceptPacket, transportVars, serverVars, historyVars, TransportTyped,
       ServerTyped, HistoryTyped
  <2> QED BY <2>1, <2>2, <2>3
<1> QED BY <1>1, <1>2, <1>3, <1>4

\* The message that is handled next.
LEMMA NextMessageTyped ==
  ASSUME Typed, NEW m \in Messages, NextMessage(m)
  PROVE  /\ inbox' \in Seq(Messages) /\ managerQueue' \in Seq(Packet)
         /\ failures' \subseteq Connections /\ wire' = wire
         /\ ServerTyped' /\ written' = written
  BY DEF Typed, NextMessage, QueuesTyped, ServerTyped, serverVars

\* A message that was not processed before is noted as handled in this session.
LEMMA NewMessageTyped ==
  ASSUME Typed, NEW m \in Messages, NewMessage(m)
  PROVE  /\ NextMessage(m)
         /\ handled' \in [Messages -> SUBSET Sessions]
         /\ session \in handled'[m]
         /\ \A n \in Messages : handled[n] \subseteq handled'[n]
  BY DEF Typed, NewMessage, HistoryTyped, SessionTyped

\* The steps that handle a message keep the types.
LEMMA MessageStepTyped == Typed /\ MessageStep => Typed'
<1> SUFFICES ASSUME Typed, NEW m \in Messages, MessageStep, NextMessage(m),
                    \/ ProcessDuplicate(m)
                    \/ ProcessAnswer(m)
                    \/ ProcessStateInfo(m)
                    \/ ProcessBadMsg(m)
                    \/ ProcessBadSeqNo(m)
                    \/ \E b \in BOOLEAN : ProcessDetailedInfo(m, b)
                    \/ \E lost \in SUBSET DOMAIN resend : ProcessNewSession(m, lost)
             PROVE  Typed'
  BY DEF MessageStep, ProcessDuplicate, ProcessAnswer, ProcessStateInfo, ProcessBadMsg,
     ProcessBadSeqNo, ProcessDetailedInfo, ProcessNewSession, NewMessage
<1> USE DEF Typed
<1>0. /\ inbox' \in Seq(Messages) /\ managerQueue' \in Seq(Packet)
      /\ failures' \subseteq Connections /\ wire' = wire
      /\ ServerTyped' /\ written' = written
  BY NextMessageTyped
<1>a. outgoing' \subseteq outgoing => QueuesTyped'
  BY <1>0 DEF QueuesTyped
<1>b. NewMessage(m) /\ declined' \subseteq Messages => HistoryTyped'
  BY <1>0, NewMessageTyped DEF HistoryTyped
<1>c. \A S : WithoutResendsOf(S) \subseteq outgoing
  BY DEF WithoutResendsOf
<1>d. ASSUME NEW S \in SUBSET Messages, NEW cond \in BOOLEAN, Confirm(S, cond)
      PROVE  /\ DOMAIN confirmations' \subseteq Messages
             /\ confirmations' \in [DOMAIN confirmations' -> SUBSET Connections]
             /\ transactionRequested' \in BOOLEAN
  BY <1>d, ConfirmTyped
<1>1. CASE ProcessDuplicate(m)
  <2>1. Confirm({m}, FALSE)
    BY <1>1 DEF ProcessDuplicate
  <2>2. /\ DOMAIN confirmations' \subseteq Messages
        /\ confirmations' \in [DOMAIN confirmations' -> SUBSET Connections]
        /\ transactionRequested' \in BOOLEAN
    BY <1>d, <2>1
  <2>3. SessionTyped'
    BY <1>1, <2>2 DEF ProcessDuplicate, SessionTyped
  <2>4. TransportTyped'
    BY <1>1, <2>2 DEF ProcessDuplicate, transportVars, TransportTyped
  <2>5. QueuesTyped' /\ HistoryTyped'
    BY <1>0, <1>1, <1>a DEF ProcessDuplicate, HistoryTyped
  <2> QED BY <1>0, <2>3, <2>4, <2>5
<1>2. CASE ProcessAnswer(m)
  <2>1. Confirm({m}, FALSE)
    BY <1>2 DEF ProcessAnswer
  <2>2. /\ DOMAIN confirmations' \subseteq Messages
        /\ confirmations' \in [DOMAIN confirmations' -> SUBSET Connections]
        /\ transactionRequested' \in BOOLEAN
    BY <1>d, <2>1
  <2>3. SessionTyped'
    <3>1. resend' = WithoutResend({m})
      BY <1>2 DEF ProcessAnswer
    <3>2. /\ DOMAIN WithoutResend({m}) = DOMAIN resend \ {m}
          /\ WithoutResend({m}) \in [DOMAIN WithoutResend({m}) -> ResendRequest]
      BY WithoutResendTyped
    <3>3. DOMAIN resend' \subseteq Messages /\ resend' \in [DOMAIN resend' -> ResendRequest]
      BY <3>1, <3>2 DEF SessionTyped
    <3> QED BY <1>2, <2>2, <3>3 DEF ProcessAnswer, SessionTyped
  <2>4. TransportTyped'
    BY <1>2, <2>2 DEF ProcessAnswer, transportVars, TransportTyped
  <2>5. QueuesTyped' /\ HistoryTyped'
    BY <1>2, <1>a, <1>b, <1>c DEF ProcessAnswer, HistoryTyped
  <2> QED BY <1>0, <2>3, <2>4, <2>5
<1>3. CASE ProcessStateInfo(m)
  <2> DEFINE done == {x \in DOMAIN resend : x = Refers[m] /\ resend[x].asked}
  <2>1. resend' = WithoutResend(done) /\ outgoing' = WithoutResendsOf(done)
    BY <1>3 DEF ProcessStateInfo
  <2> HIDE DEF done
  <2>2. SessionTyped'
    BY <1>3, <2>1, WithoutResendTyped DEF ProcessStateInfo, SessionTyped
  <2>3. TransportTyped'
    BY <1>3 DEF ProcessStateInfo, transportVars, TransportTyped
  <2>4. QueuesTyped' /\ HistoryTyped'
    BY <1>3, <1>a, <1>b, <1>c, <2>1 DEF ProcessStateInfo, HistoryTyped
  <2> QED BY <1>0, <2>2, <2>3, <2>4
<1>4. CASE ProcessBadMsg(m)
  <2>1. transactionRequested' \in BOOLEAN
    BY <1>4, Zenon DEF ProcessBadMsg, RequestTransactionIf, TransportTyped
  <2>2. SessionTyped'
    BY <1>4 DEF ProcessBadMsg, SessionTyped, ResendRequest
  <2>3. TransportTyped'
    BY <1>4, <2>1 DEF ProcessBadMsg, transportVars, TransportTyped
  <2>4. QueuesTyped' /\ HistoryTyped'
    BY <1>4, <1>a, <1>b DEF ProcessBadMsg, HistoryTyped
  <2> QED BY <1>0, <2>2, <2>3, <2>4
<1>5. CASE ProcessBadSeqNo(m)
  <2>1. SessionTyped' /\ TransportTyped' /\ outgoing' \subseteq outgoing
    BY <1>5, ResetTyped DEF ProcessBadSeqNo
  <2>2. QueuesTyped' /\ HistoryTyped'
    BY <1>5, <1>a, <1>b, <2>1 DEF ProcessBadSeqNo, HistoryTyped
  <2> QED BY <1>0, <2>1, <2>2
<1>6. ASSUME NEW b \in BOOLEAN, ProcessDetailedInfo(m, b)
      PROVE  Typed'
  <2>0. Refers[m] \in Messages
    BY IncomingAssumption
  <2>1. /\ DOMAIN confirmations' \subseteq Messages
        /\ confirmations' \in [DOMAIN confirmations' -> SUBSET Connections]
        /\ transactionRequested' \in BOOLEAN
        /\ DOMAIN resend' \subseteq Messages
        /\ resend' \in [DOMAIN resend' -> ResendRequest]
        /\ declined' \subseteq Messages
    <3>1. CASE b
      <4>1. RequestAnswer(Refers[m])
        BY <1>6, <3>1 DEF ProcessDetailedInfo
      <4>2. transactionRequested' \in BOOLEAN
        BY <4>1, Zenon DEF RequestAnswer, RequestTransactionIf, TransportTyped
      <4>3. confirmations' = confirmations /\ declined' = declined
        BY <4>1 DEF RequestAnswer
      <4>4. DOMAIN resend' \subseteq Messages /\ resend' \in [DOMAIN resend' -> ResendRequest]
        BY <2>0, <4>1 DEF RequestAnswer, SessionTyped, ResendRequest
      <4> QED BY <4>2, <4>3, <4>4 DEF SessionTyped, HistoryTyped
    <3>2. CASE ~b
      <4>1. /\ Confirm({Refers[m]}, TRUE)
            /\ declined' = declined \cup {Refers[m]}
            /\ resend' = resend
        BY <1>6, <3>2 DEF ProcessDetailedInfo
      <4> QED BY <1>d, <2>0, <4>1 DEF SessionTyped, HistoryTyped
    <3> QED BY <3>1, <3>2
  <2>2. SessionTyped'
    BY <1>6, <2>1 DEF ProcessDetailedInfo, SessionTyped
  <2>3. TransportTyped'
    BY <1>6, <2>1 DEF ProcessDetailedInfo, transportVars, TransportTyped
  <2>4. QueuesTyped' /\ HistoryTyped'
    BY <1>6, <1>a, <1>b, <2>1 DEF ProcessDetailedInfo
  <2> QED BY <1>0, <2>2, <2>3, <2>4
<1>7. ASSUME NEW lost \in SUBSET DOMAIN resend, ProcessNewSession(m, lost)
      PROVE  Typed'
  <2>1. Confirm({m}, FALSE)
    BY <1>7 DEF ProcessNewSession
  <2>2. /\ DOMAIN confirmations' \subseteq Messages
        /\ confirmations' \in [DOMAIN confirmations' -> SUBSET Connections]
        /\ transactionRequested' \in BOOLEAN
    BY <1>d, <2>1
  <2>3. SessionTyped'
    <3>1. resend' = WithoutResend(lost)
      BY <1>7 DEF ProcessNewSession
    <3>2. /\ DOMAIN WithoutResend(lost) = DOMAIN resend \ lost
          /\ WithoutResend(lost) \in [DOMAIN WithoutResend(lost) -> ResendRequest]
      BY WithoutResendTyped
    <3>3. DOMAIN resend' \subseteq Messages /\ resend' \in [DOMAIN resend' -> ResendRequest]
      BY <3>1, <3>2 DEF SessionTyped
    <3> QED BY <1>7, <2>2, <3>3 DEF ProcessNewSession, SessionTyped
  <2>4. TransportTyped'
    BY <1>7, <2>2 DEF ProcessNewSession, transportVars, TransportTyped
  <2>5. QueuesTyped' /\ HistoryTyped'
    BY <1>7, <1>a, <1>b, <1>c DEF ProcessNewSession, HistoryTyped
  <2> QED BY <1>0, <2>3, <2>4, <2>5
<1> QED BY <1>1, <1>2, <1>3, <1>4, <1>5, <1>6, <1>7

\* What transportReadyForTransaction hands to the transport: some or all of the
\* scheduled confirmations, and a request for every service without one on its way.
HandedOver(new) ==
  /\ \A o \in new :
       /\ o \in Outgoing /\ o.state = "ready" /\ o.transport = transport
       /\ o.type = "ack" => o.ids \subseteq DOMAIN confirmations
  /\ \A m \in DOMAIN resend : resend[m].transactionId = None =>
       \E o \in new : o.type = "resend" /\ m \in o.ids

\* What is added to outgoing is what was to be handed over.
LEMMA ReadyHandsOver ==
  ASSUME Typed, NEW h \in BOOLEAN, ReadyForTransaction(h)
  PROVE  \E new : HandedOver(new) /\ outgoing' = outgoing \cup new
<1> DEFINE acks == IF pingDue \/ ~h \/ Exceed(DOMAIN confirmations)
                   THEN DOMAIN confirmations ELSE {}
           item(type, ids) == [type |-> type, ids |-> ids, session |-> session,
                               transport |-> transport, state |-> "ready",
                               transactionId |-> None]
           asks == {x \in DOMAIN resend : resend[x].transactionId = None}
           new == {item("ack", acks) : a \in IF acks = {} THEN {} ELSE {acks}} \cup
                  {item("resend", {m}) : m \in asks}
<1>1. outgoing' = outgoing \cup new
  BY Zenon DEF ReadyForTransaction
<1>2. acks \subseteq DOMAIN confirmations
  OBVIOUS
<1> HIDE DEF acks
<1>3. /\ session \in Sessions /\ transport \in Transports
      /\ DOMAIN confirmations \subseteq Messages /\ asks \subseteq Messages
  BY DEF Typed, SessionTyped, TransportTyped
<1>4. ASSUME NEW type \in {"ack", "resend"}, NEW ids \in SUBSET Messages
      PROVE  /\ item(type, ids) \in Outgoing
             /\ item(type, ids).state = "ready" /\ item(type, ids).transport = transport
             /\ item(type, ids).type = type /\ item(type, ids).ids = ids
  BY <1>3 DEF Outgoing
<1> HIDE DEF item
<1>5. ASSUME NEW o \in new
      PROVE  /\ o \in Outgoing /\ o.state = "ready" /\ o.transport = transport
             /\ o.type = "ack" => o.ids \subseteq DOMAIN confirmations
  <2>1. CASE o = item("ack", acks)
    BY <1>2, <1>3, <1>4, <2>1
  <2>2. CASE \E m \in asks : o = item("resend", {m})
    <3> PICK m \in asks : o = item("resend", {m})
      BY <2>2
    <3> DEFINE one == {m}
    <3>1. one \in SUBSET Messages
      BY <1>3
    <3> HIDE DEF one, asks
    <3>2. o.state = "ready" /\ o.transport = transport /\ o \in Outgoing /\ o.type = "resend"
      BY <1>4, <3>1 DEF one
    <3> QED BY <3>2
  <2> QED BY <2>1, <2>2
<1>6. ASSUME NEW m \in DOMAIN resend, resend[m].transactionId = None
      PROVE  \E o \in new : o.type = "resend" /\ m \in o.ids
  <2> DEFINE one == {m}
  <2>1. m \in asks /\ one \in SUBSET Messages /\ m \in one
    BY <1>3, <1>6
  <2>2. item("resend", {m}) \in new
    BY <2>1
  <2> HIDE DEF asks, new, one
  <2>3. item("resend", one).type = "resend" /\ item("resend", one).ids = one
    BY <1>4, <2>1
  <2> QED BY <2>1, <2>2, <2>3 DEF one
<1> HIDE DEF new
<1>7. HandedOver(new)
  BY <1>5, <1>6 DEF HandedOver
<1> QED BY <1>1, <1>7

\* What writing does to a message: it was not written before, and now it is, or
\* it failed for want of a connection.
LEMMA WrittenItem ==
  ASSUME Typed, NEW o \in outgoing, WriteOutgoing(o)
  PROVE  \E n \in Outgoing :
           /\ outgoing' = (outgoing \ {o}) \cup {n}
           /\ n.type = o.type /\ n.ids = o.ids /\ n.transport = o.transport
           /\ n.transactionId = connectionOf[o.transport]
           /\ n.state = IF connectionOf[o.transport] = None THEN "failed" ELSE "written"
<1> DEFINE c == connectionOf[o.transport]
           st == IF c = None THEN "failed" ELSE "written"
           n == [o EXCEPT !.state = st, !.transactionId = c]
<1>1. outgoing' = (outgoing \ {o}) \cup {n}
  BY Zenon DEF WriteOutgoing
<1>2. o \in Outgoing /\ o.transport \in Transports
  BY DEF Typed, QueuesTyped, Outgoing
<1>3. c \in Connections \cup {None} /\ st \in {"ready", "written", "failed"}
  BY <1>2 DEF Typed, TransportTyped
<1> HIDE DEF c, st
<1>4. n \in Outgoing /\ n.type = o.type /\ n.ids = o.ids /\ n.transport = o.transport
      /\ n.transactionId = c /\ n.state = st
  BY <1>2, <1>3 DEF Outgoing
<1> QED BY <1>1, <1>4 DEF c, st

\* The steps that build, write and complete transactions keep the types.
LEMMA OutgoingStepTyped == Typed /\ OutgoingStep => Typed'
<1> SUFFICES ASSUME Typed, OutgoingStep PROVE Typed'
  OBVIOUS
<1> USE DEF Typed
<1>1. CASE ClientTraffic
  <2>1. transactionRequested' \in BOOLEAN
    BY <1>1, Zenon DEF ClientTraffic, RequestTransactionIf, TransportTyped
  <2>2. TransportTyped'
    BY <1>1, <2>1 DEF ClientTraffic, transportVars, TransportTyped
  <2>3. SessionTyped' /\ QueuesTyped' /\ ServerTyped' /\ HistoryTyped'
    BY <1>1 DEF ClientTraffic, sessionVars, serverVars, historyVars, SessionTyped,
       QueuesTyped, ServerTyped, HistoryTyped
  <2> QED BY <2>2, <2>3
<1>2. ASSUME NEW h \in {FALSE, HighPriorityTraffic}, ReadyForTransaction(h)
      PROVE  Typed'
  <2>0. h \in BOOLEAN
    BY IncomingAssumption
  <2>1. PICK new : HandedOver(new) /\ outgoing' = outgoing \cup new
    BY <1>2, <2>0, ReadyHandsOver
  <2>2. QueuesTyped'
    BY <1>2, <2>1 DEF ReadyForTransaction, HandedOver, QueuesTyped
  <2>3. pingDue' \in BOOLEAN /\ transactionRequested' \in BOOLEAN
    BY <1>2, Zenon DEF ReadyForTransaction
  <2>4. TransportTyped'
    BY <1>2, <2>3 DEF ReadyForTransaction, TransportTyped
  <2>5. SessionTyped' /\ ServerTyped' /\ HistoryTyped'
    BY <1>2 DEF ReadyForTransaction, sessionVars, serverVars, historyVars, SessionTyped,
       ServerTyped, HistoryTyped
  <2> QED BY <2>2, <2>4, <2>5
<1>3. ASSUME NEW o \in outgoing, WriteOutgoing(o)
      PROVE  Typed'
  <2>1. PICK n \in Outgoing :
           /\ outgoing' = (outgoing \ {o}) \cup {n}
           /\ n.transactionId = connectionOf[o.transport]
           /\ n.state = IF connectionOf[o.transport] = None THEN "failed" ELSE "written"
    BY <1>3, WrittenItem
  <2>2. o.ids \subseteq Messages /\ connectionOf[o.transport] \in Connections \cup {None}
    BY DEF QueuesTyped, Outgoing, TransportTyped
  <2>3. /\ wire' \subseteq [connection : Connections, id : Messages]
        /\ written' \subseteq Messages
    BY <1>3, <2>2 DEF WriteOutgoing, QueuesTyped, HistoryTyped
  <2>4. QueuesTyped'
    BY <1>3, <2>1, <2>3 DEF WriteOutgoing, QueuesTyped
  <2>5. HistoryTyped'
    BY <1>3, <2>3 DEF WriteOutgoing, HistoryTyped
  <2>6. SessionTyped' /\ TransportTyped' /\ ServerTyped'
    BY <1>3 DEF WriteOutgoing, sessionVars, transportVars, serverVars, SessionTyped,
       TransportTyped, ServerTyped
  <2> QED BY <2>4, <2>5, <2>6
<1>4. ASSUME NEW o \in outgoing, CompleteOutgoing(o)
      PROVE  Typed'
  <2>1. o.state = "written" => o.transactionId \in Connections
    BY DEF QueuesTyped, Outgoing
  <2>2. /\ DOMAIN confirmations' \subseteq Messages
        /\ confirmations' \in [DOMAIN confirmations' -> SUBSET Connections]
    BY <1>4, <2>1 DEF CompleteOutgoing, Assigned, SessionTyped
  <2>3. DOMAIN resend' \subseteq Messages /\ resend' \in [DOMAIN resend' -> ResendRequest]
    BY <1>4, <2>1 DEF CompleteOutgoing, SessionTyped, ResendRequest
  <2>4. SessionTyped'
    BY <1>4, <2>2, <2>3 DEF CompleteOutgoing, SessionTyped
  <2>5. QueuesTyped'
    BY <1>4 DEF CompleteOutgoing, QueuesTyped
  <2>6. TransportTyped' /\ ServerTyped' /\ HistoryTyped'
    BY <1>4 DEF CompleteOutgoing, transportVars, serverVars, historyVars, TransportTyped,
       ServerTyped, HistoryTyped
  <2> QED BY <2>4, <2>5, <2>6
<1> QED BY <1>1, <1>2, <1>3, <1>4 DEF OutgoingStep

\* The steps of connections and transports keep the types.
LEMMA ConnectionStepTyped == Typed /\ ConnectionStep => Typed'
<1> SUFFICES ASSUME Typed, ConnectionStep PROVE Typed'
  OBVIOUS
<1> USE DEF Typed
<1>1. CASE ConnectionOpened
  <2>1. opened + 1 \in Connections /\ opened + 1 \in 0 .. MaxConnection
    BY <1>1, IncomingAssumption DEF ConnectionOpened, TransportTyped, Connections
  <2>2. connectionOf' \in [Transports -> Connections \cup {None}]
    BY <1>1, <2>1 DEF ConnectionOpened, TransportTyped
  <2>3. pingDue' \in BOOLEAN
    BY <1>1 DEF ConnectionOpened
  <2>4. TransportTyped'
    BY <1>1, <2>1, <2>2, <2>3 DEF ConnectionOpened, TransportTyped
  <2>5. SessionTyped' /\ QueuesTyped' /\ ServerTyped' /\ HistoryTyped'
    BY <1>1 DEF ConnectionOpened, sessionVars, serverVars, historyVars, SessionTyped,
       QueuesTyped, ServerTyped, HistoryTyped
  <2> QED BY <2>4, <2>5
<1>2. ASSUME NEW t \in Transports, ConnectionClosed(t)
      PROVE  Typed'
  <2>1. /\ transport' \in Transports /\ connectionOf' \in [Transports -> Connections \cup {None}]
        /\ opened' \in 0 .. MaxConnection /\ pingDue' \in BOOLEAN
        /\ failures' \subseteq Connections /\ wire' \subseteq wire
    BY <1>2, CloseTyped DEF ConnectionClosed
  <2>2. TransportTyped'
    BY <1>2, <2>1 DEF ConnectionClosed, TransportTyped
  <2>3. QueuesTyped'
    BY <1>2, <2>1 DEF ConnectionClosed, QueuesTyped
  <2>4. SessionTyped' /\ ServerTyped' /\ HistoryTyped'
    BY <1>2 DEF ConnectionClosed, sessionVars, serverVars, historyVars, SessionTyped,
       ServerTyped, HistoryTyped
  <2> QED BY <2>2, <2>3, <2>4
<1>3. ASSUME NEW c \in failures, NotifyFailure(c)
      PROVE  Typed'
  <2>1. resend' = Unsent({c})
    BY <1>3 DEF NotifyFailure, MayHaveFailed
  <2>2. SessionTyped'
    BY <1>3, <2>1, UnsentTyped DEF NotifyFailure, SessionTyped
  <2>3. transactionRequested' \in BOOLEAN
    BY <1>3, Zenon DEF NotifyFailure, MayHaveFailed, RequestTransactionIf, TransportTyped
  <2>4. TransportTyped'
    BY <1>3, <2>3 DEF NotifyFailure, transportVars, TransportTyped
  <2>5. QueuesTyped' /\ ServerTyped' /\ HistoryTyped'
    BY <1>3 DEF NotifyFailure, serverVars, historyVars, QueuesTyped, ServerTyped, HistoryTyped
  <2> QED BY <2>2, <2>4, <2>5
<1>4. CASE ResetTransport
  <2>1. transport' \in Transports
    BY <1>4, IncomingAssumption DEF ResetTransport, TransportTyped, Transports
  <2>2. pingDue' \in BOOLEAN /\ transactionRequested' \in BOOLEAN
    BY <1>4, Zenon DEF ResetTransport, RequestTransactionIf, TransportTyped
  <2>3. TransportTyped'
    BY <1>4, <2>1, <2>2 DEF ResetTransport, TransportTyped
  <2>4. SessionTyped'
    BY <1>4, UnsentTyped DEF ResetTransport, SessionTyped
  <2>5. QueuesTyped' /\ ServerTyped' /\ HistoryTyped'
    BY <1>4 DEF ResetTransport, serverVars, historyVars, QueuesTyped, ServerTyped, HistoryTyped
  <2> QED BY <2>3, <2>4, <2>5
<1> QED BY <1>1, <1>2, <1>3, <1>4 DEF ConnectionStep

\* Every step keeps the types.
LEMMA NextTyped == Typed /\ [Next]_incomingVars => Typed'
<1> SUFFICES ASSUME Typed, UNCHANGED incomingVars PROVE Typed'
  BY ServerStepTyped, PacketStepTyped, MessageStepTyped, OutgoingStepTyped,
     ConnectionStepTyped DEF Next
<1> QED BY DEF incomingVars, Typed, SessionTyped, TransportTyped, QueuesTyped, ServerTyped,
           HistoryTyped

\* The types hold in every behaviour, with what makes them inductive.
LEMMA AlwaysTyped == Spec => []Typed
  BY InitTyped, NextTyped, PTL DEF Spec

\* MTProto's state has its types: only connections that exist mark a
\* confirmation, and a packet is only ever about sessions and messages there are.
THEOREM IncomingIsTyped == Spec => []TypeOK
  BY AlwaysTyped, TypedIsTypeOK, PTL

-----------------------------------------------------------------------------
(* Confirmations *)

\* Something was done about m: its content was handled, or no service wanted it.
Vouched(m) == handled[m] # {} \/ m \in declined

\* A confirmation only gets a transactionId once a msgs_ack with it was written:
\* that is what makes it safe to drop when the connection proves alive.
MarkedWereWritten ==
  \A m \in DOMAIN confirmations : confirmations[m] # {} => m \in written

AcksAreVouchedFor ==
  \A o \in outgoing : o.type = "ack" =>
    /\ \A m \in o.ids : Vouched(m)
    /\ o.state = "written" => o.ids \subseteq written

ProcessedWereHandled == \A m \in processed : handled[m] # {}

AckInv == /\ NotForgotten /\ ConfirmedWereHandled
          /\ MarkedWereWritten /\ AcksAreVouchedFor /\ ProcessedWereHandled

\* The variables AckInv is about.
ackVars == <<processed, confirmations, outgoing, written, declined, handled>>

\* A step that leaves them alone keeps it.
LEMMA AckStutter == AckInv /\ UNCHANGED ackVars => AckInv'
  BY DEF AckInv, NotForgotten, ConfirmedWereHandled, MarkedWereWritten, AcksAreVouchedFor,
     ProcessedWereHandled, Vouched, ackVars, ContentRelated

\* A step that handles a message: the message is processed and, when the server
\* waits for its confirmation, scheduled; S is what is scheduled beside it.
LEMMA HandlingKeepsAcks ==
  ASSUME Typed, AckInv, NEW m \in Messages, NEW S \in SUBSET Messages,
         handled' \in [Messages -> SUBSET Sessions],
         \A n \in Messages : handled[n] \subseteq handled'[n],
         handled'[m] # {} \/ m \in processed,
         \/ /\ processed' \subseteq processed \cup {m}
            /\ confirmations' = Scheduled(S)
         \/ /\ processed' = {} /\ confirmations' = NoConfirmations,
         ContentRelated(m) => m \in S \/ m \notin processed',
         \A n \in S : n = m \/ n \in declined',
         declined \subseteq declined', written' = written, outgoing' \subseteq outgoing
  PROVE  AckInv'
<1>1. /\ processed \subseteq Messages /\ DOMAIN confirmations \subseteq Messages
      /\ written \subseteq Messages
      /\ \A o \in outgoing : o.ids \subseteq Messages
  BY DEF Typed, SessionTyped, HistoryTyped, QueuesTyped, Outgoing
<1>2. \A n \in Messages : Vouched(n) => Vouched(n)'
  BY DEF Vouched
<1>3. handled'[m] # {}
  BY DEF AckInv, ProcessedWereHandled
<1>4. \A n \in S : Vouched(n)'
  BY <1>3 DEF Vouched
<1>5. \/ DOMAIN confirmations' = DOMAIN confirmations \cup S
      \/ DOMAIN confirmations' = {}
  BY ScheduledTyped, Empty DEF Typed
<1>6. ProcessedWereHandled'
  BY <1>1, <1>3 DEF AckInv, ProcessedWereHandled
<1>7. ConfirmedWereHandled'
  BY <1>1, <1>2, <1>4, <1>5 DEF AckInv, ConfirmedWereHandled, Vouched
<1>8. AcksAreVouchedFor'
  BY <1>1, <1>2 DEF AckInv, AcksAreVouchedFor
<1>9. MarkedWereWritten'
  BY Empty DEF AckInv, MarkedWereWritten, Scheduled
<1>10. NotForgotten'
  <2>1. CASE processed' = {}
    BY <2>1 DEF NotForgotten
  <2>2. CASE processed' \subseteq processed \cup {m} /\ DOMAIN confirmations' = DOMAIN confirmations \cup S
    BY <2>2 DEF NotForgotten, AckInv, ContentRelated
  <2> QED BY <2>1, <2>2, ScheduledTyped DEF Typed
<1> QED BY <1>6, <1>7, <1>8, <1>9, <1>10 DEF AckInv

\* Every step that handles a message keeps the confirmations in order.
LEMMA MessageStepKeepsAcks == Typed /\ AckInv /\ MessageStep => AckInv'
<1> SUFFICES ASSUME Typed, AckInv, NEW m \in Messages, MessageStep, NextMessage(m),
                    \/ ProcessDuplicate(m)
                    \/ ProcessAnswer(m)
                    \/ ProcessStateInfo(m)
                    \/ ProcessBadMsg(m)
                    \/ ProcessBadSeqNo(m)
                    \/ \E b \in BOOLEAN : ProcessDetailedInfo(m, b)
                    \/ \E lost \in SUBSET DOMAIN resend : ProcessNewSession(m, lost)
             PROVE  AckInv'
  BY DEF MessageStep, ProcessDuplicate, ProcessAnswer, ProcessStateInfo, ProcessBadMsg,
     ProcessBadSeqNo, ProcessDetailedInfo, ProcessNewSession, NewMessage
<1>0. written' = written /\ handled \in [Messages -> SUBSET Sessions] /\ Refers[m] \in Messages
  BY IncomingAssumption DEF NextMessage, Typed, HistoryTyped
<1>a. NewMessage(m) => /\ handled' \in [Messages -> SUBSET Sessions] /\ handled'[m] # {}
                       /\ \A n \in Messages : handled[n] \subseteq handled'[n]
  BY NewMessageTyped
<1>b. Scheduled({}) = confirmations
  BY DEF Scheduled, Typed, SessionTyped
<1>c. \A S : WithoutResendsOf(S) \subseteq outgoing
  BY DEF WithoutResendsOf
<1>1. CASE ProcessDuplicate(m)
  <2>1. /\ processed' = processed /\ confirmations' = Scheduled({m}) /\ m \in processed
        /\ outgoing' = outgoing /\ declined' = declined /\ handled' = handled
    BY <1>1 DEF ProcessDuplicate, Confirm
  <2> QED BY <1>0, <2>1, HandlingKeepsAcks
<1>2. CASE ProcessAnswer(m)
  <2>1. /\ processed' = processed \cup {m} /\ confirmations' = Scheduled({m})
        /\ outgoing' \subseteq outgoing /\ declined' = declined /\ NewMessage(m)
    BY <1>2, <1>c DEF ProcessAnswer, Confirm
  <2> QED BY <1>0, <1>a, <2>1, HandlingKeepsAcks
<1>3. CASE ProcessStateInfo(m)
  <2>1. /\ processed' = processed \cup {m} /\ confirmations' = Scheduled({})
        /\ outgoing' \subseteq outgoing /\ declined' = declined /\ NewMessage(m)
        /\ ~ContentRelated(m)
    BY <1>3, <1>b, <1>c DEF ProcessStateInfo, ContentRelated
  <2> QED BY <1>0, <1>a, <2>1, HandlingKeepsAcks
<1>4. CASE ProcessBadMsg(m)
  <2>1. /\ processed' = processed \cup {m} /\ confirmations' = Scheduled({})
        /\ outgoing' = outgoing /\ declined' = declined /\ NewMessage(m)
        /\ ~ContentRelated(m)
    BY <1>4, <1>b DEF ProcessBadMsg, ContentRelated
  <2> QED BY <1>0, <1>a, <2>1, HandlingKeepsAcks
<1>5. CASE ProcessBadSeqNo(m)
  <2>1. /\ processed' = {} /\ confirmations' = NoConfirmations
        /\ outgoing' \subseteq outgoing /\ declined' = declined /\ NewMessage(m)
    BY <1>5, <1>c DEF ProcessBadSeqNo, ResetSessionInfo
  <2> QED BY <1>0, <1>a, <2>1, HandlingKeepsAcks
<1>6. ASSUME NEW b \in BOOLEAN, ProcessDetailedInfo(m, b)
      PROVE  AckInv'
  <2>1. /\ processed' = processed \cup {m} /\ outgoing' = outgoing /\ NewMessage(m)
        /\ ~ContentRelated(m)
    BY <1>6 DEF ProcessDetailedInfo, ContentRelated
  <2>2. CASE b
    <3>1. confirmations' = Scheduled({}) /\ declined' = declined
      BY <1>6, <1>b, <2>2 DEF ProcessDetailedInfo, RequestAnswer
    <3> QED BY <1>0, <1>a, <2>1, <3>1, HandlingKeepsAcks
  <2>3. CASE ~b
    <3>1. confirmations' = Scheduled({Refers[m]}) /\ declined' = declined \cup {Refers[m]}
      BY <1>6, <2>3 DEF ProcessDetailedInfo, Confirm
    <3> QED BY <1>0, <1>a, <2>1, <3>1, HandlingKeepsAcks
  <2> QED BY <2>2, <2>3
<1>7. ASSUME NEW lost \in SUBSET DOMAIN resend, ProcessNewSession(m, lost)
      PROVE  AckInv'
  <2>1. /\ processed' = processed \cup {m} /\ confirmations' = Scheduled({m})
        /\ outgoing' \subseteq outgoing /\ declined' = declined /\ NewMessage(m)
    BY <1>7, <1>c DEF ProcessNewSession, Confirm
  <2> QED BY <1>0, <1>a, <2>1, HandlingKeepsAcks
<1> QED BY <1>1, <1>2, <1>3, <1>4, <1>5, <1>6, <1>7

\* A packet resets the session, or takes the confirmations written to its
\* connection for received.
LEMMA PacketStepKeepsAcks == Typed /\ AckInv /\ PacketStep => AckInv'
<1> SUFFICES ASSUME Typed, AckInv, NEW p,
                    IgnorePacket(p) \/ RejectPacket(p) \/ UnparsablePacket(p) \/ AcceptPacket(p)
             PROVE  AckInv'
  BY DEF PacketStep
<1>1. CASE IgnorePacket(p) \/ RejectPacket(p)
  <2>1. UNCHANGED ackVars
    BY <1>1 DEF IgnorePacket, RejectPacket, sessionVars, historyVars, ackVars
  <2> QED BY <2>1, AckStutter
<1>2. CASE UnparsablePacket(p)
  <2>1. /\ processed' = {} /\ confirmations' = NoConfirmations /\ outgoing' \subseteq outgoing
        /\ written' = written /\ declined' = declined /\ handled' = handled
    BY <1>2 DEF UnparsablePacket, ResetSessionInfo, WithoutResendsOf, historyVars
  <2> QED BY <2>1, Empty DEF AckInv, NotForgotten, ConfirmedWereHandled, MarkedWereWritten,
             AcksAreVouchedFor, ProcessedWereHandled, Vouched
<1>3. CASE AcceptPacket(p)
  <2>1. /\ processed' = processed /\ confirmations' = WithoutTransaction(p.connection)
        /\ outgoing' = outgoing /\ written' = written /\ declined' = declined
        /\ handled' = handled
    BY <1>3 DEF AcceptPacket, historyVars
  <2>2. /\ DOMAIN confirmations' = {k \in DOMAIN confirmations : p.connection \notin confirmations[k]}
        /\ \A k \in DOMAIN confirmations' : confirmations'[k] = confirmations[k]
    BY <2>1 DEF WithoutTransaction
  <2>3. NotForgotten'
    BY <2>1, <2>2 DEF AckInv, NotForgotten, MarkedWereWritten, ContentRelated
  <2>4. ConfirmedWereHandled' /\ MarkedWereWritten'
    BY <2>1, <2>2 DEF AckInv, ConfirmedWereHandled, MarkedWereWritten
  <2>5. AcksAreVouchedFor' /\ ProcessedWereHandled'
    BY <2>1 DEF AckInv, AcksAreVouchedFor, ProcessedWereHandled, Vouched
  <2> QED BY <2>3, <2>4, <2>5 DEF AckInv
<1> QED BY <1>1, <1>2, <1>3

\* Building, writing and completing a msgs_ack.
LEMMA OutgoingStepKeepsAcks == Typed /\ AckInv /\ OutgoingStep => AckInv'
<1> SUFFICES ASSUME Typed, AckInv, OutgoingStep PROVE AckInv'
  OBVIOUS
<1>1. CASE ClientTraffic
  <2>1. UNCHANGED ackVars
    BY <1>1 DEF ClientTraffic, sessionVars, historyVars, ackVars
  <2> QED BY <2>1, AckStutter
<1>2. ASSUME NEW h \in {FALSE, HighPriorityTraffic}, ReadyForTransaction(h)
      PROVE  AckInv'
  <2>0. h \in BOOLEAN
    BY IncomingAssumption
  <2>1. PICK new : HandedOver(new) /\ outgoing' = outgoing \cup new
    BY <1>2, <2>0, ReadyHandsOver
  <2>2. UNCHANGED <<processed, confirmations, written, declined, handled>>
    BY <1>2 DEF ReadyForTransaction, sessionVars, historyVars
  <2>3. AcksAreVouchedFor'
    BY <2>1, <2>2 DEF AckInv, AcksAreVouchedFor, HandedOver, ConfirmedWereHandled, Vouched
  <2>4. NotForgotten' /\ ConfirmedWereHandled' /\ MarkedWereWritten' /\ ProcessedWereHandled'
    BY <2>2 DEF AckInv, NotForgotten, ConfirmedWereHandled, MarkedWereWritten,
       ProcessedWereHandled, ContentRelated
  <2> QED BY <2>3, <2>4 DEF AckInv
<1>3. ASSUME NEW o \in outgoing, WriteOutgoing(o)
      PROVE  AckInv'
  <2>1. PICK n \in Outgoing :
           /\ outgoing' = (outgoing \ {o}) \cup {n}
           /\ n.type = o.type /\ n.ids = o.ids
           /\ n.state = IF connectionOf[o.transport] = None THEN "failed" ELSE "written"
    BY <1>3, WrittenItem
  <2>2. UNCHANGED <<processed, confirmations, declined, handled>>
    BY <1>3 DEF WriteOutgoing, sessionVars
  <2>3. /\ written \subseteq written'
        /\ o.type = "ack" => written' \subseteq written \cup o.ids
        /\ o.type # "ack" => written' = written
        /\ o.type = "ack" /\ n.state = "written" => o.ids \subseteq written'
    BY <1>3, <2>1 DEF WriteOutgoing
  <2>4. AcksAreVouchedFor'
    BY <2>1, <2>2, <2>3 DEF AckInv, AcksAreVouchedFor, Vouched
  <2>5. ConfirmedWereHandled'
    BY <2>2, <2>3 DEF AckInv, AcksAreVouchedFor, ConfirmedWereHandled, Vouched
  <2>6. NotForgotten' /\ MarkedWereWritten' /\ ProcessedWereHandled'
    BY <2>2, <2>3 DEF AckInv, NotForgotten, MarkedWereWritten, ProcessedWereHandled,
       ContentRelated
  <2> QED BY <2>4, <2>5, <2>6 DEF AckInv
<1>4. ASSUME NEW o \in outgoing, CompleteOutgoing(o)
      PROVE  AckInv'
  <2>1. /\ outgoing' \subseteq outgoing
        /\ UNCHANGED <<processed, written, declined, handled>>
    BY <1>4 DEF CompleteOutgoing, historyVars
  <2>2. /\ DOMAIN confirmations' = DOMAIN confirmations
        /\ \A m \in DOMAIN confirmations : confirmations'[m] # confirmations[m] =>
             o.type = "ack" /\ o.state = "written" /\ m \in o.ids
    BY <1>4 DEF CompleteOutgoing, Assigned
  <2>3. MarkedWereWritten'
    BY <2>1, <2>2 DEF AckInv, MarkedWereWritten, AcksAreVouchedFor
  <2>4. NotForgotten' /\ ConfirmedWereHandled' /\ ProcessedWereHandled'
    BY <2>1, <2>2 DEF AckInv, NotForgotten, ConfirmedWereHandled, ProcessedWereHandled,
       ContentRelated
  <2>5. AcksAreVouchedFor'
    BY <2>1 DEF AckInv, AcksAreVouchedFor, Vouched
  <2> QED BY <2>3, <2>4, <2>5 DEF AckInv
<1> QED BY <1>1, <1>2, <1>3, <1>4 DEF OutgoingStep

\* The confirmations are in order from the start and stay so.
LEMMA AcksHold == Spec => []AckInv
<1>1. Init => AckInv
  BY Empty DEF Init, AckInv, NotForgotten, ConfirmedWereHandled, MarkedWereWritten,
     AcksAreVouchedFor, ProcessedWereHandled
<1>2. Typed /\ AckInv /\ [Next]_incomingVars => AckInv'
  <2>1. ServerStep \/ ConnectionStep \/ UNCHANGED incomingVars => UNCHANGED ackVars
    BY DEF ServerStep, ServerSends, ServerSendsBadPacket, AckArrives, ConnectionStep,
       ConnectionOpened, ConnectionClosed, NotifyFailure, ResetTransport, incomingVars,
       sessionVars, historyVars, ackVars
  <2> QED BY <2>1, AckStutter, PacketStepKeepsAcks, MessageStepKeepsAcks,
             OutgoingStepKeepsAcks DEF Next
<1> QED BY <1>1, <1>2, AlwaysTyped, PTL DEF Spec

\* No confirmation is forgotten: a processed message the server waits to hear
\* about is scheduled until a msgs_ack with it was written, whatever order the
\* writes, the completions, the packets and the changes of transport come in.
THEOREM NoneIsForgotten == Spec => []NotForgotten
  BY AcksHold, PTL DEF AckInv

\* No message is confirmed that was neither handled nor declined, also by a
\* duplicate or by a msgs_ack of a session that is over.
THEOREM OnlyHandledAreConfirmed == Spec => []ConfirmedWereHandled
  BY AcksHold, PTL DEF AckInv

-----------------------------------------------------------------------------
(* Resend services *)

\* Services exist for answers that were not processed.
ResendInv == ResendsAreMissing /\ \A x \in DOMAIN resend : Kind[x] = "answer"

\* A step that ends services, forgets their requests, or processes a notice or an
\* answer nobody asks for any more.
LEMMA FewerResends ==
  ASSUME ResendInv, NEW m \in Messages, DOMAIN resend' \subseteq DOMAIN resend,
         processed' \subseteq processed \cup {m},
         Kind[m] # "answer" \/ m \notin DOMAIN resend' \/ m \in processed
  PROVE  ResendInv'
  BY DEF ResendInv, ResendsAreMissing

\* Every step keeps ResendInv.
LEMMA NextKeepsResends == Typed /\ ResendInv /\ [Next]_incomingVars => ResendInv'
<1> SUFFICES ASSUME Typed, ResendInv, [Next]_incomingVars PROVE ResendInv'
  OBVIOUS
<1>a. /\ \A C : DOMAIN Unsent(C) = DOMAIN resend
      /\ \A S : DOMAIN WithoutResend(S) = DOMAIN resend \ S
  BY DEF Unsent, WithoutResend
<1>b. processed' \subseteq processed /\ DOMAIN resend' \subseteq DOMAIN resend => ResendInv'
  BY DEF ResendInv, ResendsAreMissing
<1>c. ResetSessionInfo => ResendInv'
  BY Empty DEF ResetSessionInfo, ResendInv, ResendsAreMissing
<1>1. CASE ServerStep \/ ConnectionStep \/ UNCHANGED incomingVars
  BY <1>1, <1>a, <1>b DEF ServerStep, ServerSends, ServerSendsBadPacket, AckArrives, ConnectionStep,
     ConnectionOpened, ConnectionClosed, NotifyFailure, MayHaveFailed, ResetTransport,
     incomingVars, sessionVars
<1>2. CASE OutgoingStep
  <2>1. processed' = processed /\ DOMAIN resend' = DOMAIN resend
    BY <1>2 DEF OutgoingStep, ClientTraffic, ReadyForTransaction, WriteOutgoing,
       CompleteOutgoing, sessionVars
  <2> QED BY <1>b, <2>1
<1>3. CASE PacketStep
  <2>1. \/ processed' = processed /\ DOMAIN resend' = DOMAIN resend
        \/ ResetSessionInfo
    BY <1>3, <1>a DEF PacketStep, IgnorePacket, RejectPacket, MayHaveFailed, UnparsablePacket,
       AcceptPacket, sessionVars
  <2> QED BY <1>b, <1>c, <2>1
<1>4. CASE MessageStep
  <2> SUFFICES ASSUME NEW m \in Messages,
                      \/ ProcessDuplicate(m)
                      \/ ProcessAnswer(m)
                      \/ ProcessStateInfo(m)
                      \/ ProcessBadMsg(m)
                      \/ ProcessBadSeqNo(m)
                      \/ \E b \in BOOLEAN : ProcessDetailedInfo(m, b)
                      \/ \E lost \in SUBSET DOMAIN resend : ProcessNewSession(m, lost)
               PROVE  ResendInv'
    BY <1>4 DEF MessageStep
  <2>1. CASE ProcessDuplicate(m)
    BY <1>b, <2>1 DEF ProcessDuplicate
  <2>2. CASE ProcessAnswer(m)
    BY <1>a, <2>2, FewerResends DEF ProcessAnswer
  <2>3. CASE ProcessStateInfo(m)
    <3>1. DOMAIN resend' \subseteq DOMAIN resend
      BY <1>a, <2>3 DEF ProcessStateInfo
    <3> QED BY <2>3, <3>1, FewerResends DEF ProcessStateInfo
  <2>4. CASE ProcessBadMsg(m)
    <3>1. DOMAIN resend' = DOMAIN resend
      BY <2>4 DEF ProcessBadMsg
    <3> QED BY <2>4, <3>1, FewerResends DEF ProcessBadMsg
  <2>5. CASE ProcessBadSeqNo(m)
    BY <1>c, <2>5 DEF ProcessBadSeqNo
  <2>6. ASSUME NEW b \in BOOLEAN, ProcessDetailedInfo(m, b)
        PROVE  ResendInv'
    <3>1. Kind[m] = "detailedInfo" /\ processed' = processed \cup {m}
      BY <2>6 DEF ProcessDetailedInfo
    <3>2. CASE b
      <4>1. RequestAnswer(Refers[m])
        BY <2>6, <3>2 DEF ProcessDetailedInfo
      <4>2. DOMAIN resend' = DOMAIN resend \cup {y \in {Refers[m]} : Wanted(y)}
        BY <4>1 DEF RequestAnswer
      <4>3. Kind[Refers[m]] = "answer"
        BY <3>1, ResponsesAreAnswers
      <4> QED BY <3>1, <4>2, <4>3 DEF Wanted, ResendInv, ResendsAreMissing
    <3>3. CASE ~b
      BY <2>6, <3>1, <3>3, FewerResends DEF ProcessDetailedInfo
    <3> QED BY <3>2, <3>3
  <2>7. ASSUME NEW lost \in SUBSET DOMAIN resend, ProcessNewSession(m, lost)
        PROVE  ResendInv'
    BY <1>a, <2>7, FewerResends DEF ProcessNewSession
  <2> QED BY <2>1, <2>2, <2>3, <2>4, <2>5, <2>6, <2>7
<1> QED BY <1>1, <1>2, <1>3, <1>4 DEF Next

\* A MTResendMessageService only asks for an answer that is still missing: it
\* ends when the answer is processed, wherever the answer came from.
THEOREM OnlyMissingAreAskedFor == Spec => []ResendsAreMissing
<1>1. Init => ResendInv
  BY Empty DEF Init, ResendInv, ResendsAreMissing
<1> QED BY <1>1, NextKeepsResends, AlwaysTyped, PTL DEF Spec, ResendInv

-----------------------------------------------------------------------------
(* No forgotten msg_resend_req *)

\* o will reach its service's completion as written, unless its connection closes
\* first: it was written, or the transport in use still has it.
Carries(o, m) ==
  /\ o.type = "resend" /\ m \in o.ids
  /\ o.state = "written" \/ (o.state = "ready" /\ o.transport = transport)

\* A transaction that will carry every request still to be sent is certain.
Certain == transactionRequested \/ pingDue \/ Connection = None

DeliveryInv ==
  \A m \in DOMAIN resend :
    resend[m].transactionId # None \/ Certain \/ \E o \in outgoing : Carries(o, m)

\* The variables a delivery depends on beside the services and transactionRequested.
linkVars == <<transport, connectionOf, pingDue>>

\* Services S end, the others keep their requests.
LEMMA DeliveryKept ==
  ASSUME DeliveryInv, NEW S, UNCHANGED linkVars, transactionRequested => transactionRequested',
         DOMAIN resend' = DOMAIN resend \ S,
         \A m \in DOMAIN resend' : resend'[m] = resend[m],
         \A o \in outgoing : o \in outgoing' \/ o.ids \subseteq S
  PROVE  DeliveryInv'
<1> SUFFICES ASSUME NEW m \in DOMAIN resend', resend'[m].transactionId = None, ~Certain'
             PROVE  \E o \in outgoing' : Carries(o, m)'
  BY DEF DeliveryInv
<1>1. m \in DOMAIN resend /\ m \notin S /\ resend[m].transactionId = None
  OBVIOUS
<1>2. ~Certain
  BY DEF Certain, linkVars, Connection
<1>3. PICK o \in outgoing : Carries(o, m)
  BY <1>1, <1>2 DEF DeliveryInv
<1>4. o \in outgoing' /\ Carries(o, m)'
  BY <1>1, <1>3 DEF Carries, linkVars
<1> QED BY <1>4

\* A step that leaves services and messages alone.
LEMMA DeliveryStutter ==
  ASSUME Typed, DeliveryInv, UNCHANGED <<resend, outgoing, linkVars>>,
         transactionRequested => transactionRequested'
  PROVE  DeliveryInv'
  BY DEF DeliveryInv, Certain, Connection, Carries, linkVars

\* transactionsMayHaveFailed: whoever lost a request asks for a transaction.
LEMMA FailureIsFollowedUp ==
  ASSUME Typed, DeliveryInv, NEW C, MayHaveFailed(C), UNCHANGED <<outgoing, linkVars>>
  PROVE  DeliveryInv'
<1> SUFFICES ASSUME NEW m \in DOMAIN resend', resend'[m].transactionId = None, ~Certain'
             PROVE  \E o \in outgoing' : Carries(o, m)'
  BY DEF DeliveryInv
<1>1. resend' = Unsent(C) /\ m \in DOMAIN resend
  BY DEF MayHaveFailed, Unsent
<1>2. /\ transactionRequested => transactionRequested'
      /\ resend[m].transactionId \in C => transactionRequested'
  BY <1>1 DEF MayHaveFailed, RequestTransactionIf
<1>3. resend[m].transactionId \notin C /\ ~Certain
  BY <1>2 DEF Certain, linkVars, Connection
<1>4. resend[m].transactionId = None
  BY <1>1, <1>3 DEF Unsent
<1>5. PICK o \in outgoing : Carries(o, m)
  BY <1>1, <1>3, <1>4 DEF DeliveryInv
<1>6. o \in outgoing' /\ Carries(o, m)'
  BY <1>5 DEF Carries, linkVars
<1> QED BY <1>6

\* A new session has no resend services.
LEMMA ResetKeepsDelivery == ResetSessionInfo => DeliveryInv'
  BY Empty DEF ResetSessionInfo, DeliveryInv

\* The steps that take a packet.
LEMMA PacketStepDelivers == Typed /\ DeliveryInv /\ PacketStep => DeliveryInv'
<1> SUFFICES ASSUME Typed, DeliveryInv, NEW p,
                    IgnorePacket(p) \/ RejectPacket(p) \/ UnparsablePacket(p) \/ AcceptPacket(p)
             PROVE  DeliveryInv'
  BY DEF PacketStep
<1>1. CASE IgnorePacket(p) \/ AcceptPacket(p)
  <2>1. UNCHANGED <<resend, outgoing, linkVars, transactionRequested>>
    BY <1>1 DEF IgnorePacket, AcceptPacket, sessionVars, transportVars, linkVars
  <2> QED BY <2>1, DeliveryStutter
<1>2. CASE RejectPacket(p)
  <2>1. MayHaveFailed({p.connection}) /\ outgoing' = outgoing
    BY <1>2 DEF RejectPacket
  <2>2. CASE Connection # None
    <3>1. connectionOf'[transport'] = None
      BY <1>2, <2>2 DEF RejectPacket, Close, Typed, TransportTyped
    <3> QED BY <3>1 DEF DeliveryInv, Certain, Connection
  <2>3. CASE Connection = None
    <3>1. UNCHANGED <<outgoing, linkVars>>
      BY <1>2, <2>3 DEF RejectPacket, transportVars, linkVars
    <3> QED BY <2>1, <3>1, FailureIsFollowedUp
  <2> QED BY <2>2, <2>3
<1>3. CASE UnparsablePacket(p)
  BY <1>3, ResetKeepsDelivery DEF UnparsablePacket
<1> QED BY <1>1, <1>2, <1>3

\* The steps that handle a message.
LEMMA MessageStepDelivers == Typed /\ DeliveryInv /\ MessageStep => DeliveryInv'
<1> SUFFICES ASSUME Typed, DeliveryInv, NEW m \in Messages,
                    \/ ProcessDuplicate(m)
                    \/ ProcessAnswer(m)
                    \/ ProcessStateInfo(m)
                    \/ ProcessBadMsg(m)
                    \/ ProcessBadSeqNo(m)
                    \/ \E b \in BOOLEAN : ProcessDetailedInfo(m, b)
                    \/ \E lost \in SUBSET DOMAIN resend : ProcessNewSession(m, lost)
             PROVE  DeliveryInv'
  BY DEF MessageStep
<1>a. ASSUME NEW S, NEW cond, Confirm(S, cond)
      PROVE  transactionRequested => transactionRequested'
  BY <1>a DEF Confirm, RequestTransactionIf
<1>b. ASSUME NEW S, resend' = WithoutResend(S), outgoing' = WithoutResendsOf(S),
             UNCHANGED linkVars, transactionRequested => transactionRequested'
      PROVE  DeliveryInv'
  <2>1. DOMAIN resend' = DOMAIN resend \ S /\ \A x \in DOMAIN resend' : resend'[x] = resend[x]
    BY <1>b DEF WithoutResend
  <2>2. \A o \in outgoing : o \in outgoing' \/ o.ids \subseteq S
    BY <1>b DEF WithoutResendsOf
  <2> QED BY <1>b, <2>1, <2>2, DeliveryKept
<1>1. CASE ProcessDuplicate(m)
  <2>1. UNCHANGED <<resend, outgoing, linkVars>> /\ Confirm({m}, FALSE)
    BY <1>1 DEF ProcessDuplicate, transportVars, linkVars
  <2> QED BY <1>a, <2>1, DeliveryStutter
<1>2. CASE ProcessAnswer(m)
  <2>1. /\ resend' = WithoutResend({m}) /\ outgoing' = WithoutResendsOf({m})
        /\ UNCHANGED linkVars /\ Confirm({m}, FALSE)
    BY <1>2 DEF ProcessAnswer, transportVars, linkVars
  <2> QED BY <1>a, <1>b, <2>1
<1>3. CASE ProcessStateInfo(m)
  <2> DEFINE done == {x \in DOMAIN resend : x = Refers[m] /\ resend[x].asked}
  <2>1. /\ resend' = WithoutResend(done) /\ outgoing' = WithoutResendsOf(done)
        /\ UNCHANGED <<linkVars, transactionRequested>>
    BY <1>3 DEF ProcessStateInfo, transportVars, linkVars
  <2> HIDE DEF done
  <2> QED BY <1>b, <2>1
<1>4. CASE ProcessBadMsg(m)
  <2>1. transactionRequested'
    BY <1>4 DEF ProcessBadMsg, RequestTransactionIf
  <2> QED BY <2>1 DEF DeliveryInv, Certain
<1>5. CASE ProcessBadSeqNo(m)
  BY <1>5, ResetKeepsDelivery DEF ProcessBadSeqNo
<1>6. ASSUME NEW b \in BOOLEAN, ProcessDetailedInfo(m, b)
      PROVE  DeliveryInv'
  <2>1. UNCHANGED <<outgoing, linkVars>>
    BY <1>6 DEF ProcessDetailedInfo, transportVars, linkVars
  <2>2. CASE b
    <3>1. RequestAnswer(Refers[m])
      BY <1>6, <2>2 DEF ProcessDetailedInfo
    <3>2. CASE Wanted(Refers[m])
      <4>1. transactionRequested'
        BY <3>1, <3>2 DEF RequestAnswer, RequestTransactionIf
      <4> QED BY <4>1 DEF DeliveryInv, Certain
    <3>3. CASE ~Wanted(Refers[m])
      <4>1. transactionRequested => transactionRequested'
        BY <3>1 DEF RequestAnswer, RequestTransactionIf
      <4>2. DOMAIN resend' = DOMAIN resend \ {} /\ \A x \in DOMAIN resend' : resend'[x] = resend[x]
        BY <3>1, <3>3 DEF RequestAnswer
      <4> QED BY <2>1, <4>1, <4>2, DeliveryKept
    <3> QED BY <3>2, <3>3
  <2>3. CASE ~b
    <3>1. resend' = resend /\ Confirm({Refers[m]}, TRUE)
      BY <1>6, <2>3 DEF ProcessDetailedInfo
    <3> QED BY <1>a, <2>1, <3>1, DeliveryStutter
  <2> QED BY <2>2, <2>3
<1>7. ASSUME NEW lost \in SUBSET DOMAIN resend, ProcessNewSession(m, lost)
      PROVE  DeliveryInv'
  <2>1. /\ resend' = WithoutResend(lost) /\ outgoing' = WithoutResendsOf(lost)
        /\ UNCHANGED linkVars /\ Confirm({m}, FALSE)
    BY <1>7 DEF ProcessNewSession, transportVars, linkVars
  <2> QED BY <1>a, <1>b, <2>1
<1> QED BY <1>1, <1>2, <1>3, <1>4, <1>5, <1>6, <1>7

\* The steps that build, write and complete transactions.
LEMMA OutgoingStepDelivers == Typed /\ DeliveryInv /\ OutgoingStep => DeliveryInv'
<1> SUFFICES ASSUME Typed, DeliveryInv, OutgoingStep PROVE DeliveryInv'
  OBVIOUS
<1>1. CASE ClientTraffic
  BY <1>1 DEF ClientTraffic, RequestTransactionIf, DeliveryInv, Certain
<1>2. ASSUME NEW h \in {FALSE, HighPriorityTraffic}, ReadyForTransaction(h)
      PROVE  DeliveryInv'
  <2>0. h \in BOOLEAN
    BY IncomingAssumption
  <2>1. PICK new : HandedOver(new) /\ outgoing' = outgoing \cup new
    BY <1>2, <2>0, ReadyHandsOver
  <2>2. resend' = resend /\ transport' = transport
    BY <1>2 DEF ReadyForTransaction, sessionVars
  <2> QED BY <2>1, <2>2 DEF HandedOver, DeliveryInv, Carries
<1>3. ASSUME NEW o \in outgoing, WriteOutgoing(o)
      PROVE  DeliveryInv'
  <2>1. PICK n \in Outgoing :
           /\ outgoing' = (outgoing \ {o}) \cup {n}
           /\ n.type = o.type /\ n.ids = o.ids
           /\ n.state = IF connectionOf[o.transport] = None THEN "failed" ELSE "written"
    BY <1>3, WrittenItem
  <2>2. UNCHANGED <<resend, linkVars, transactionRequested>> /\ o.state = "ready"
    BY <1>3 DEF WriteOutgoing, sessionVars, transportVars, linkVars
  <2>3. Certain' <=> Certain
    BY <2>2 DEF Certain, linkVars, Connection
  <2>4. ASSUME NEW m, Carries(o, m), ~Certain
        PROVE  Carries(n, m)'
    <3>1. o.transport = transport
      BY <2>2, <2>4 DEF Carries
    <3>2. connectionOf[o.transport] # None
      BY <2>4, <3>1 DEF Certain, Connection
    <3> QED BY <2>1, <2>4, <3>2 DEF Carries
  <2>5. \A m : \A k \in outgoing : k # o /\ Carries(k, m) => k \in outgoing' /\ Carries(k, m)'
    BY <2>1, <2>2 DEF Carries, linkVars
  <2>6. n \in outgoing'
    BY <2>1
  <2> QED BY <2>2, <2>3, <2>4, <2>5, <2>6 DEF DeliveryInv
<1>4. ASSUME NEW o \in outgoing, CompleteOutgoing(o)
      PROVE  DeliveryInv'
  <2> SUFFICES ASSUME NEW m \in DOMAIN resend', resend'[m].transactionId = None, ~Certain'
               PROVE  \E k \in outgoing' : Carries(k, m)'
    BY DEF DeliveryInv
  <2>1. /\ outgoing' = outgoing \ {o} /\ o.state # "ready"
        /\ UNCHANGED <<linkVars, transactionRequested>>
    BY <1>4 DEF CompleteOutgoing, transportVars, linkVars
  <2>2. ~Certain
    BY <2>1 DEF Certain, linkVars, Connection
  <2>3. o.state = "written" => o.transactionId # None
    BY DEF Typed, QueuesTyped
  <2>4. m \in DOMAIN resend /\ resend[m].transactionId = None
        /\ ~(o.type = "resend" /\ o.state = "written" /\ m \in o.ids)
    BY <1>4, <2>3 DEF CompleteOutgoing
  <2>5. PICK k \in outgoing : Carries(k, m)
    BY <2>2, <2>4 DEF DeliveryInv
  <2>6. k # o
    BY <2>1, <2>4, <2>5 DEF Carries
  <2>7. k \in outgoing' /\ Carries(k, m)'
    BY <2>1, <2>5, <2>6 DEF Carries, linkVars
  <2> QED BY <2>7
<1> QED BY <1>1, <1>2, <1>3, <1>4 DEF OutgoingStep

\* The steps of connections and transports.
LEMMA ConnectionStepDelivers == Typed /\ DeliveryInv /\ ConnectionStep => DeliveryInv'
<1> SUFFICES ASSUME Typed, DeliveryInv, ConnectionStep PROVE DeliveryInv'
  OBVIOUS
<1>1. CASE ConnectionOpened
  BY <1>1 DEF ConnectionOpened, DeliveryInv, Certain
<1>2. ASSUME NEW t \in Transports, ConnectionClosed(t)
      PROVE  DeliveryInv'
  <2>1. CASE t = transport
    <3>1. connectionOf'[transport'] = None
      BY <1>2, <2>1 DEF ConnectionClosed, Close, Typed, TransportTyped
    <3> QED BY <3>1 DEF DeliveryInv, Certain, Connection
  <2>2. CASE t # transport
    <3>1. /\ UNCHANGED <<resend, outgoing, transport, transactionRequested>>
          /\ pingDue' <=> pingDue
          /\ connectionOf'[transport] = connectionOf[transport]
      BY <1>2, <2>2 DEF ConnectionClosed, Close, sessionVars, Typed, TransportTyped
    <3>2. Certain' <=> Certain
      BY <3>1 DEF Certain, Connection
    <3> QED BY <3>1, <3>2 DEF DeliveryInv, Carries
  <2> QED BY <2>1, <2>2
<1>3. ASSUME NEW c \in failures, NotifyFailure(c)
      PROVE  DeliveryInv'
  <2>1. MayHaveFailed({c}) /\ UNCHANGED <<outgoing, linkVars>>
    BY <1>3 DEF NotifyFailure, transportVars, linkVars
  <2> QED BY <2>1, FailureIsFollowedUp
<1>4. CASE ResetTransport
  BY <1>4 DEF ResetTransport, RequestTransactionIf, DeliveryInv, Certain
<1> QED BY <1>1, <1>2, <1>3, <1>4 DEF ConnectionStep

\* No msg_resend_req is forgotten, whichever of write, close, failure notice and
\* completion comes first, for any number of transports and connections.
THEOREM NoResendIsForgotten == Spec => []NoForgottenResend
<1>1. Init => DeliveryInv
  BY Empty DEF Init, DeliveryInv
<1>2. Typed /\ DeliveryInv /\ [Next]_incomingVars => DeliveryInv'
  <2>1. ServerStep \/ UNCHANGED incomingVars =>
          UNCHANGED <<resend, outgoing, linkVars, transactionRequested>>
    BY DEF ServerStep, ServerSends, ServerSendsBadPacket, AckArrives, incomingVars,
       sessionVars, transportVars, linkVars
  <2> QED BY <2>1, DeliveryStutter, PacketStepDelivers, MessageStepDelivers,
             OutgoingStepDelivers, ConnectionStepDelivers DEF Next
<1>3. DeliveryInv => NoForgottenResend
  BY DEF DeliveryInv, Certain, Carries, NoForgottenResend
<1> QED BY <1>1, <1>2, <1>3, AlwaysTyped, PTL DEF Spec

-----------------------------------------------------------------------------
(* Sessions *)

\* A bad_msg_notification of session s was handled in s, which ended it.
EndedByNotice(s, sent, done) ==
  \E b \in Messages : Kind[b] = "badSeqNo" /\ sent[b] = s /\ s \in done[b]

\* Handling m in session s is what HandledInOwnSession allows.
InPlace(m, s, sent, done) ==
  s = sent[m] \/ (s > sent[m] /\ EndedByNotice(sent[m], sent, done))

\* The messages of a packet were sent in the session its header names.
QueuedInv ==
  \A i \in 1 .. Len(managerQueue) : managerQueue[i].type = "messages" =>
    \A j \in 1 .. Len(managerQueue[i].messages) :
      sentIn[managerQueue[i].messages[j]] = managerQueue[i].session

\* The messages about to be handled were all sent in one session: this one, or
\* one that another message of their container ended.
InboxInv ==
  /\ \A i, j \in 1 .. Len(inbox) : sentIn[inbox[i]] = sentIn[inbox[j]]
  /\ \A j \in 1 .. Len(inbox) : InPlace(inbox[j], session, sentIn, handled)

\* HandledInOwnSession in these terms.
LEMMA OwnSession ==
  HandledInOwnSession <=> \A m \in Messages : \A s \in handled[m] : InPlace(m, s, sentIn, handled)
  BY DEF HandledInOwnSession, InPlace, EndedByNotice

\* The same after a step.
LEMMA OwnSessionNext ==
  HandledInOwnSession' <=>
    \A m \in Messages : \A s \in handled'[m] : InPlace(m, s, sentIn', handled')
  BY DEF HandledInOwnSession, InPlace, EndedByNotice

SessionInv == QueuedInv /\ InboxInv /\ HandledInOwnSession

\* A message that was handled was sent before.
LEMMA HandledWereSent ==
  ASSUME Typed, HandledInOwnSession, NEW m \in Messages, handled[m] # {}
  PROVE  sentIn[m] # 0
<1>1. PICK s \in handled[m] : s \in Sessions
  BY DEF Typed, HistoryTyped
<1>2. s # 0
  BY <1>1, Numbering
<1>3. CASE s = sentIn[m]
  BY <1>2, <1>3
<1>4. CASE \E b \in Messages : sentIn[b] = sentIn[m] /\ sentIn[b] \in handled[b]
  BY <1>4, Numbering DEF Typed, HistoryTyped
<1> QED BY <1>1, <1>3, <1>4 DEF HandledInOwnSession

\* The server sends: what was sent before stays sent in its session.
LEMMA SendingKeepsSessions ==
  ASSUME Typed, SessionInv, NEW messages \in PacketContents, NEW s \in 1 .. session,
         ServerSends(messages, s)
  PROVE  SessionInv'
<1>0. s \in Sessions /\ messages \in Seq(Messages)
      /\ \A j \in 1 .. Len(messages) : messages[j] \in Messages
  <2>1. s \in Sessions
    BY IncomingAssumption DEF Typed, SessionTyped, Sessions
  <2>2. messages \in Seq(Messages)
    BY ContentsAreMessages
  <2> QED BY <2>1, <2>2
<1> DEFINE sent == {messages[i] : i \in DOMAIN messages}
<1>1. /\ \A m \in sent : sentIn[m] = 0 \/ sentIn[m] = s
      /\ sentIn' = [m \in Messages |-> IF m \in sent THEN s ELSE sentIn[m]]
      /\ UNCHANGED <<inbox, session, handled>>
  BY DEF ServerSends, sessionVars, historyVars
<1>2. \A m \in Messages : sentIn[m] # 0 => sentIn'[m] = sentIn[m]
  BY <1>1
<1>3. \A j \in 1 .. Len(messages) : sentIn'[messages[j]] = s
  BY <1>0, <1>1
<1> HIDE DEF sent
<1> DEFINE p == [transport |-> transport, connection |-> Connection, type |-> "messages",
                 session |-> s, messages |-> messages]
<1>4. managerQueue' = Append(managerQueue, p)
  BY DEF ServerSends, Enqueue
<1>5. p.type = "messages" /\ p.session = s /\ p.messages = messages
  OBVIOUS
<1> HIDE DEF p
<1>6. /\ managerQueue \in Seq(Packet) /\ Len(managerQueue) \in Nat
      /\ inbox \in Seq(Messages) /\ session \in Sessions
      /\ handled \in [Messages -> SUBSET Sessions]
  BY DEF Typed, QueuesTyped, SessionTyped, HistoryTyped
<1>7. QueuedInv'
  <2> SUFFICES ASSUME NEW i \in 1 .. Len(managerQueue'), managerQueue'[i].type = "messages"
               PROVE  \A j \in 1 .. Len(managerQueue'[i].messages) :
                        sentIn'[managerQueue'[i].messages[j]] = managerQueue'[i].session
    BY DEF QueuedInv
  <2>1. CASE i = Len(managerQueue) + 1
    <3>1. managerQueue'[i] = p
      BY <1>4, <1>6, <2>1
    <3> QED BY <1>0, <1>3, <1>5, <3>1
  <2>2. CASE i # Len(managerQueue) + 1
    <3> DEFINE q == managerQueue[i]
    <3>1. i \in 1 .. Len(managerQueue) /\ managerQueue'[i] = q
      BY <1>4, <1>6, <2>2
    <3>2. q \in Packet
      BY <1>6, <3>1
    <3>3. \A j \in 1 .. Len(q.messages) : sentIn[q.messages[j]] = q.session
      BY <3>1 DEF SessionInv, QueuedInv
    <3> HIDE DEF q
    <3>4. q.messages \in Seq(Messages) /\ q.session # 0
      BY <3>2, Numbering DEF Packet
    <3>5. \A j \in 1 .. Len(q.messages) : sentIn'[q.messages[j]] = q.session
      BY <1>2, <3>3, <3>4
    <3> QED BY <3>1, <3>5
  <2> QED BY <2>1, <2>2
<1>8. \A n : EndedByNotice(n, sentIn, handled) => EndedByNotice(n, sentIn', handled') /\ n # 0
  BY <1>1, <1>2, <1>6, Numbering DEF EndedByNotice
<1>9. InboxInv'
  <2>1. ASSUME NEW j \in 1 .. Len(inbox)
        PROVE  sentIn'[inbox[j]] = sentIn[inbox[j]] /\ InPlace(inbox[j], session', sentIn', handled')
    <3>1. inbox[j] \in Messages
      BY <1>6
    <3>2. InPlace(inbox[j], session, sentIn, handled)
      BY DEF SessionInv, InboxInv
    <3>3. sentIn[inbox[j]] # 0
      BY <1>6, <1>8, <3>2, Numbering DEF InPlace
    <3>4. sentIn'[inbox[j]] = sentIn[inbox[j]]
      BY <1>2, <3>1, <3>3
    <3> QED BY <1>1, <1>8, <3>2, <3>4 DEF InPlace
  <2> QED BY <1>1, <2>1 DEF SessionInv, InboxInv
<1>10. HandledInOwnSession'
  <2> SUFFICES ASSUME NEW m \in Messages, NEW n \in handled[m]
               PROVE  InPlace(m, n, sentIn', handled')
    BY <1>1, OwnSessionNext
  <2>1. sentIn'[m] = sentIn[m]
    BY <1>2, HandledWereSent DEF SessionInv
  <2>2. InPlace(m, n, sentIn, handled)
    BY OwnSession DEF SessionInv
  <2> QED BY <1>8, <2>1, <2>2 DEF InPlace
<1> QED BY <1>7, <1>9, <1>10 DEF SessionInv

\* A packet leaves the queue, and its messages become the inbox or nothing.
LEMMA PacketStepKeepsSessions == Typed /\ SessionInv /\ PacketStep => SessionInv'
<1> SUFFICES ASSUME Typed, SessionInv, NEW p,
                    IgnorePacket(p) \/ RejectPacket(p) \/ UnparsablePacket(p) \/ AcceptPacket(p)
             PROVE  SessionInv'
  BY DEF PacketStep
<1>0. TakePacket(p) /\ inbox = <<>>
  BY DEF IgnorePacket, RejectPacket, UnparsablePacket, AcceptPacket, TakePacket, Idle
<1>1. /\ managerQueue \in Seq(Packet) /\ managerQueue # <<>>
      /\ p = managerQueue[1] /\ managerQueue' = Tail(managerQueue) /\ 1 \in 1 .. Len(managerQueue)
  BY <1>0 DEF TakePacket, Typed, QueuesTyped
<1>2. sentIn' = sentIn /\ handled' = handled
  BY DEF IgnorePacket, RejectPacket, UnparsablePacket, AcceptPacket, serverVars, historyVars
<1>3. QueuedInv'
  <2>1. /\ Len(managerQueue') = Len(managerQueue) - 1
        /\ \A i \in 1 .. Len(managerQueue') :
             i + 1 \in 1 .. Len(managerQueue) /\ managerQueue'[i] = managerQueue[i + 1]
    BY <1>1
  <2> QED BY <1>2, <2>1 DEF SessionInv, QueuedInv
<1>4. HandledInOwnSession'
  BY <1>2 DEF SessionInv, HandledInOwnSession
<1>5. InboxInv'
  <2>1. CASE AcceptPacket(p)
    <3>1. inbox' = p.messages /\ p.type = "messages" /\ p.session = session /\ session' = session
      BY <2>1 DEF AcceptPacket, OfThisSession
    <3>2. \A j \in 1 .. Len(p.messages) : sentIn[p.messages[j]] = p.session
      BY <1>1, <3>1 DEF SessionInv, QueuedInv
    <3> QED BY <1>2, <3>1, <3>2 DEF InboxInv, InPlace
  <2>2. CASE IgnorePacket(p) \/ RejectPacket(p) \/ UnparsablePacket(p)
    <3>1. inbox' = <<>>
      BY <1>0, <2>2 DEF IgnorePacket, RejectPacket, UnparsablePacket
    <3> QED BY <3>1 DEF InboxInv
  <2> QED BY <2>1, <2>2
<1> QED BY <1>3, <1>4, <1>5 DEF SessionInv

\* A message is handled: in its session, or in the one its container's first
\* message started.
LEMMA MessageStepKeepsSessions == Typed /\ SessionInv /\ MessageStep => SessionInv'
<1> SUFFICES ASSUME Typed, SessionInv, NEW m \in Messages, NextMessage(m),
                    \/ handled' = handled /\ session' = session
                    \/ NewMessage(m) /\ session' = session
                    \/ NewMessage(m) /\ Kind[m] = "badSeqNo" /\ session' = session + 1
             PROVE  SessionInv'
  BY DEF MessageStep, ProcessDuplicate, ProcessAnswer, ProcessStateInfo, ProcessBadMsg,
     ProcessBadSeqNo, ProcessDetailedInfo, ProcessNewSession, NewMessage, ResetSessionInfo
<1>1. /\ inbox \in Seq(Messages) /\ inbox # <<>> /\ m = inbox[1] /\ inbox' = Tail(inbox)
      /\ 1 \in 1 .. Len(inbox)
      /\ managerQueue' = managerQueue /\ sentIn' = sentIn
  <2>1. inbox \in Seq(Messages)
    BY DEF Typed, QueuesTyped
  <2>2. /\ inbox # <<>> /\ m = Head(inbox) /\ inbox' = Tail(inbox)
        /\ managerQueue' = managerQueue /\ sentIn' = sentIn
    BY DEF NextMessage, serverVars
  <2>3. Len(inbox) \in Nat /\ Len(inbox) # 0
    BY <2>1, <2>2
  <2>4. 1 \in 1 .. Len(inbox)
    BY <2>3
  <2>5. m = inbox[1]
    BY <2>1, <2>2
  <2> QED BY <2>1, <2>2, <2>4, <2>5
<1>2. /\ session \in Sessions /\ session \in Nat /\ sentIn \in [Messages -> Sessions \cup {0}]
      /\ handled \in [Messages -> SUBSET Sessions]
  BY Numbering DEF Typed, SessionTyped, ServerTyped, HistoryTyped
<1>3. /\ \A n \in Messages : handled[n] \subseteq handled'[n]
      /\ \A n \in Messages : n # m => handled'[n] = handled[n]
      /\ handled'[m] \subseteq handled[m] \cup {session}
      /\ NewMessage(m) => session \in handled'[m]
  BY <1>2 DEF NewMessage
<1>4. \A n : EndedByNotice(n, sentIn, handled) => EndedByNotice(n, sentIn', handled')
  BY <1>1, <1>3 DEF EndedByNotice
<1>5. InPlace(m, session, sentIn, handled)
  BY <1>1 DEF SessionInv, InboxInv
<1>6. QueuedInv'
  BY <1>1 DEF SessionInv, QueuedInv
<1>7. HandledInOwnSession'
  <2> SUFFICES ASSUME NEW n \in Messages, NEW s \in handled'[n]
               PROVE  InPlace(n, s, sentIn', handled')
    BY OwnSessionNext
  <2>1. CASE s \in handled[n]
    <3>1. InPlace(n, s, sentIn, handled)
      BY <2>1, OwnSession DEF SessionInv
    <3> QED BY <1>1, <1>4, <3>1 DEF InPlace
  <2>2. CASE n = m /\ s = session
    BY <1>1, <1>4, <1>5, <2>2 DEF InPlace
  <2> QED BY <1>3, <2>1, <2>2
<1>8. InboxInv'
  <2>1. /\ Len(inbox') = Len(inbox) - 1
        /\ \A i \in 1 .. Len(inbox') : i + 1 \in 1 .. Len(inbox) /\ inbox'[i] = inbox[i + 1]
    BY <1>1
  <2>2. ASSUME NEW i \in 1 .. Len(inbox')
        PROVE  /\ sentIn'[inbox'[i]] = sentIn[m]
               /\ InPlace(inbox'[i], session', sentIn', handled')
    <3>0. PICK n : n = inbox'[i]
      OBVIOUS
    <3>1. /\ sentIn[n] = sentIn[m] /\ sentIn'[n] = sentIn[m]
          /\ InPlace(n, session, sentIn, handled)
      BY <1>1, <2>1, <3>0 DEF SessionInv, InboxInv
    <3>2. sentIn[m] \in Nat
      BY <1>2, IncomingAssumption DEF Sessions
    <3>3. ASSUME session' = session
          PROVE  InPlace(n, session', sentIn', handled')
      BY <1>4, <3>1, <3>3 DEF InPlace
    <3>4. ASSUME NewMessage(m), Kind[m] = "badSeqNo", session' = session + 1
          PROVE  InPlace(n, session', sentIn', handled')
      <4>1. EndedByNotice(sentIn[m], sentIn', handled')
        <5>1. CASE session = sentIn[m]
          BY <1>1, <1>3, <3>4, <5>1 DEF EndedByNotice
        <5>2. CASE session # sentIn[m]
          BY <1>4, <1>5, <5>2 DEF InPlace
        <5> QED BY <5>1, <5>2
      <4>2. session' > sentIn[m]
        BY <1>2, <1>5, <3>2, <3>4 DEF InPlace
      <4> QED BY <3>1, <4>1, <4>2 DEF InPlace
    <3> QED BY <3>0, <3>1, <3>3, <3>4
  <2> QED BY <2>2 DEF InboxInv
<1> QED BY <1>6, <1>7, <1>8 DEF SessionInv

\* Every message is handled in the session it was sent in, or in the next one as
\* the rest of a container whose bad_msg_notification reset the session.
THEOREM HandledWhereSent == Spec => []HandledInOwnSession
<1>1. Init => SessionInv
  BY DEF Init, SessionInv, QueuedInv, InboxInv, HandledInOwnSession
<1>2. Typed /\ SessionInv /\ [Next]_incomingVars => SessionInv'
  <2> SUFFICES ASSUME Typed, SessionInv, [Next]_incomingVars PROVE SessionInv'
    OBVIOUS
  <2>1. CASE UNCHANGED <<managerQueue, inbox, session, sentIn, handled>>
    BY <2>1 DEF SessionInv, QueuedInv, InboxInv, InPlace, EndedByNotice,
       HandledInOwnSession
  <2>2. ASSUME NEW type \in {"unparsable", "rejected"}, ServerSendsBadPacket(type)
        PROVE  SessionInv'
    <3> DEFINE p == [transport |-> transport, connection |-> Connection, type |-> type,
                     session |-> session, messages |-> <<>>]
    <3>1. managerQueue' = Append(managerQueue, p) /\ UNCHANGED <<inbox, session, sentIn, handled>>
      BY <2>2 DEF ServerSendsBadPacket, Enqueue, sessionVars, serverVars, historyVars
    <3>2. p.type # "messages"
      OBVIOUS
    <3> HIDE DEF p
    <3>3. managerQueue \in Seq(Packet)
      BY DEF Typed, QueuesTyped
    <3>4. \A i \in 1 .. Len(managerQueue') : managerQueue'[i].type = "messages" =>
            i \in 1 .. Len(managerQueue) /\ managerQueue'[i] = managerQueue[i]
      BY <3>1, <3>2, <3>3
    <3>5. QueuedInv'
      BY <3>1, <3>4 DEF SessionInv, QueuedInv
    <3> QED BY <3>1, <3>5 DEF SessionInv, InboxInv, InPlace, EndedByNotice,
               HandledInOwnSession
  <2>3. CASE OutgoingStep \/ ConnectionStep \/ UNCHANGED incomingVars
    BY <2>1, <2>3 DEF OutgoingStep, ClientTraffic, ReadyForTransaction, WriteOutgoing,
       CompleteOutgoing, ConnectionStep, ConnectionOpened, ConnectionClosed, NotifyFailure,
       ResetTransport, incomingVars, sessionVars, serverVars, historyVars
  <2>4. CASE ServerStep
    <3>1. ASSUME NEW w \in wire, AckArrives(w)
          PROVE  SessionInv'
      BY <2>1, <3>1 DEF AckArrives, sessionVars, historyVars
    <3> QED BY <2>2, <2>4, <3>1, SendingKeepsSessions DEF ServerStep
  <2> QED BY <2>3, <2>4, PacketStepKeepsSessions, MessageStepKeepsSessions DEF Next
<1> QED BY <1>1, <1>2, AlwaysTyped, PTL DEF Spec, SessionInv

=============================================================================
