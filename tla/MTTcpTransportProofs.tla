------------------------ MODULE MTTcpTransportProofs ------------------------
(***************************************************************************)
(* Proofs about the TCP transport, for any number of faults, calls and      *)
(* pings.                                                                   *)
(*                                                                          *)
(* ReconnectsAfterClose is not inductive: a callback that names no          *)
(* connection would be taken for one of the connection the transport does   *)
(* not have, and connectionIsValid: would then stop the backoff timer.  So  *)
(* the blocks on the way have to be known to name a connection, through the *)
(* detour of incoming data over the manager queue (QueuesAreTyped).         *)
(***************************************************************************)
EXTENDS MTTcpTransport, TLAPS

Callbacks == {"opened", "closed", "data", "valid"}

\* The methods that the blocks of the three queues run.
Methods ==
  Callbacks \cup
    {"needsTransaction", "nextPass", "transactionReady", "nothingReady",
     "pingSent", "pingDone", "didChangeSession", "reset", "networkBack",
     "stop", "ready", "readyForPing", "accepted", "notAccepted", "start",
     "send"}

\* Blocks, of which the callbacks of a connection name it.
Blocks == [op : Methods, connection : Nat, ping : Nat]
NamedBlocks == {b \in Blocks : b.op \in Callbacks => b.connection # 0}

\* Blocks of the TCP queue, which are methods of a connection.
TcpBlocks == {b \in Blocks : b.connection # 0}

QueuesAreTyped ==
  /\ transportQueue \in Seq(NamedBlocks)
  /\ managerQueue \in Seq(NamedBlocks)
  /\ tcpQueue \in Seq(TcpBlocks)
  /\ connection \in Nat /\ lastConnection \in Nat /\ pings \in Nat

TransportInv == QueuesAreTyped /\ ReconnectsAfterClose /\ LockIsOwed

-----------------------------------------------------------------------------
(* Queues of blocks *)

\* Blocks are what Block makes of a method, a connection and a ping.
LEMMA BlockType ==
  ASSUME NEW op \in Methods, NEW c \in Nat, NEW p \in Nat
  PROVE  /\ Block(op, c, p) \in Blocks
         /\ Block(op, c, p).op = op
         /\ (op \in Callbacks => c # 0) => Block(op, c, p) \in NamedBlocks
  BY DEF Block, Blocks, NamedBlocks

\* Calls of MTProto name no connection and are no callbacks.
LEMMA CallType ==
  ASSUME NEW op \in Methods \ Callbacks
  PROVE  Call(op) \in NamedBlocks /\ Call(op).op = op
  BY BlockType DEF Call, NoPing

\* What the first block of a queue is, and what the rest of the queue is.
LEMMA RunBlock ==
  ASSUME NEW S, NEW q \in Seq(S), NEW op, IsNext(q, op)
  PROVE  /\ Head(q) \in S /\ Head(q).op = op
         /\ Tail(q) \in Seq(S)
         /\ BlocksIn(q) \subseteq {op} \cup BlocksIn(Tail(q))
         /\ BlocksIn(Tail(q)) \subseteq BlocksIn(q)
<1>1. q # <<>> /\ Head(q).op = op
  BY DEF IsNext
<1>2. /\ Head(q) \in S /\ Tail(q) \in Seq(S) /\ Len(Tail(q)) = Len(q) - 1
      /\ Head(q) = q[1] /\ Len(q) \in Nat
      /\ \A i \in 1 .. Len(q) - 1 : Tail(q)[i] = q[i + 1]
  BY <1>1
<1>3. BlocksIn(q) \subseteq {op} \cup BlocksIn(Tail(q))
  <2> SUFFICES ASSUME NEW i \in 1 .. Len(q), q[i].op # op
               PROVE  q[i].op \in BlocksIn(Tail(q))
    BY DEF BlocksIn
  <2>1. i # 1
    BY <1>1, <1>2
  <2>2. i - 1 \in 1 .. Len(Tail(q)) /\ Tail(q)[i - 1] = q[i]
    BY <1>2, <2>1
  <2> QED BY <2>2 DEF BlocksIn
<1>4. BlocksIn(Tail(q)) \subseteq BlocksIn(q)
  <2> SUFFICES ASSUME NEW i \in 1 .. Len(q) - 1
               PROVE  Tail(q)[i].op \in BlocksIn(q)
    BY <1>2 DEF BlocksIn
  <2>1. i + 1 \in 1 .. Len(q) /\ Tail(q)[i] = q[i + 1]
    BY <1>2
  <2> QED BY <2>1 DEF BlocksIn
<1> QED BY <1>1, <1>2, <1>3, <1>4

\* A dispatched block waits behind those already there.
LEMMA AppendBlock ==
  ASSUME NEW S, NEW q \in Seq(S), NEW b \in S
  PROVE  /\ Append(q, b) \in Seq(S)
         /\ BlocksIn(Append(q, b)) = BlocksIn(q) \cup {b.op}
<1>1. /\ Append(q, b) \in Seq(S) /\ Len(Append(q, b)) = Len(q) + 1 /\ Len(q) \in Nat
      /\ \A i \in 1 .. Len(q) : Append(q, b)[i] = q[i]
      /\ Append(q, b)[Len(q) + 1] = b
  OBVIOUS
<1>2. BlocksIn(q) \cup {b.op} \subseteq BlocksIn(Append(q, b))
  BY <1>1 DEF BlocksIn
<1>3. BlocksIn(Append(q, b)) \subseteq BlocksIn(q) \cup {b.op}
  <2> SUFFICES ASSUME NEW i \in 1 .. Len(q) + 1
               PROVE  Append(q, b)[i].op \in BlocksIn(q) \cup {b.op}
    BY <1>1 DEF BlocksIn
  <2>1. CASE i = Len(q) + 1
    BY <1>1, <2>1
  <2>2. CASE i # Len(q) + 1
    <3>1. i \in 1 .. Len(q) /\ Append(q, b)[i] = q[i]
      BY <1>1, <2>2
    <3> QED BY <3>1 DEF BlocksIn
  <2> QED BY <2>1, <2>2
<1> QED BY <1>1, <1>2, <1>3

\* Several blocks at once.
LEMMA ConcatBlocks ==
  ASSUME NEW S, NEW q \in Seq(S), NEW r \in Seq(S)
  PROVE  /\ q \o r \in Seq(S)
         /\ BlocksIn(q \o r) = BlocksIn(q) \cup BlocksIn(r)
<1>1. /\ q \o r \in Seq(S) /\ Len(q \o r) = Len(q) + Len(r)
      /\ Len(q) \in Nat /\ Len(r) \in Nat
      /\ \A i \in 1 .. Len(q) : (q \o r)[i] = q[i]
      /\ \A i \in 1 .. Len(r) : (q \o r)[Len(q) + i] = r[i]
  OBVIOUS
<1>2. BlocksIn(q) \subseteq BlocksIn(q \o r)
  BY <1>1 DEF BlocksIn
<1>3. BlocksIn(r) \subseteq BlocksIn(q \o r)
  <2> SUFFICES ASSUME NEW i \in 1 .. Len(r) PROVE r[i].op \in BlocksIn(q \o r)
    BY DEF BlocksIn
  <2>1. Len(q) + i \in 1 .. Len(q \o r) /\ (q \o r)[Len(q) + i] = r[i]
    BY <1>1
  <2> QED BY <2>1 DEF BlocksIn
<1>4. BlocksIn(q \o r) \subseteq BlocksIn(q) \cup BlocksIn(r)
  <2> SUFFICES ASSUME NEW i \in 1 .. Len(q) + Len(r)
               PROVE  (q \o r)[i].op \in BlocksIn(q) \cup BlocksIn(r)
    BY <1>1 DEF BlocksIn
  <2>1. CASE i <= Len(q)
    <3>1. i \in 1 .. Len(q) /\ (q \o r)[i] = q[i]
      BY <1>1, <2>1
    <3> QED BY <3>1 DEF BlocksIn
  <2>2. CASE ~(i <= Len(q))
    <3>1. i - Len(q) \in 1 .. Len(r)
      BY <1>1, <2>2
    <3>2. (q \o r)[i] = r[i - Len(q)]
      BY <1>1, <3>1
    <3> QED BY <3>1, <3>2 DEF BlocksIn
  <2> QED BY <2>1, <2>2
<1> QED BY <1>1, <1>2, <1>3, <1>4

-----------------------------------------------------------------------------
(* What the blocks call *)

\* The transport queue runs a block.
LEMMA TransportBlockRuns ==
  ASSUME QueuesAreTyped, NEW op, NEW added \in Seq(NamedBlocks),
         RunTransportBlock(op, added)
  PROVE  /\ Head(transportQueue) \in NamedBlocks
         /\ Head(transportQueue).op = op
         /\ transportQueue' \in Seq(NamedBlocks)
         /\ BlocksIn(transportQueue) \subseteq {op} \cup BlocksIn(transportQueue')
<1>1. transportQueue \in Seq(NamedBlocks) /\ IsNext(transportQueue, op)
      /\ transportQueue' = Tail(transportQueue) \o added
  BY DEF RunTransportBlock, QueuesAreTyped
<1>2. /\ Head(transportQueue) \in NamedBlocks /\ Head(transportQueue).op = op
      /\ Tail(transportQueue) \in Seq(NamedBlocks)
      /\ BlocksIn(transportQueue) \subseteq {op} \cup BlocksIn(Tail(transportQueue))
  BY <1>1, RunBlock
<1>3. /\ Tail(transportQueue) \o added \in Seq(NamedBlocks)
      /\ BlocksIn(Tail(transportQueue) \o added)
           = BlocksIn(Tail(transportQueue)) \cup BlocksIn(added)
  BY <1>2, ConcatBlocks, Zenon
<1> QED BY <1>1, <1>2, <1>3, Zenon

\* The manager queue runs a block.
LEMMA ManagerBlockRuns ==
  ASSUME QueuesAreTyped, NEW op, RunManagerBlock(op)
  PROVE  /\ Head(managerQueue) \in NamedBlocks
         /\ Head(managerQueue).op = op
         /\ managerQueue' \in Seq(NamedBlocks)
         /\ BlocksIn(managerQueue) \subseteq {op} \cup BlocksIn(managerQueue')
  BY RunBlock DEF RunManagerBlock, QueuesAreTyped

\* The TCP queue runs a block.
LEMMA TcpBlockRuns ==
  ASSUME QueuesAreTyped, NEW op, RunTcpBlock(op)
  PROVE  Head(tcpQueue) \in TcpBlocks /\ tcpQueue' \in Seq(TcpBlocks)
  BY RunBlock DEF RunTcpBlock, QueuesAreTyped

\* A request takes the lock only together with the block that asks MTProto.
LEMMA RequestOwes ==
  ASSUME QueuesAreTyped, NEW pingSent, RequestTransactionFromDelegate(pingSent)
  PROVE  /\ managerQueue' \in Seq(NamedBlocks)
         /\ BlocksIn(managerQueue) \subseteq BlocksIn(managerQueue')
         /\ lock' => lock \/ BlocksIn(managerQueue') \cap {"ready", "readyForPing"} # {}
<1>1. CASE lock /\ UNCHANGED <<lock, managerQueue>>
  BY <1>1 DEF QueuesAreTyped
<1>2. CASE /\ lock' = attached
           /\ managerQueue' =
                IF ~attached THEN managerQueue
                ELSE Append(managerQueue,
                            Call(IF pingSent THEN "ready" ELSE "readyForPing"))
  <2> DEFINE b == Call(IF pingSent THEN "ready" ELSE "readyForPing")
  <2>1. b \in NamedBlocks /\ b.op \in {"ready", "readyForPing"}
    BY DEF Callbacks, Methods, Call, Block, Blocks, NamedBlocks, NoPing
  <2> HIDE DEF b
  <2>2. /\ Append(managerQueue, b) \in Seq(NamedBlocks)
        /\ BlocksIn(Append(managerQueue, b)) = BlocksIn(managerQueue) \cup {b.op}
    BY <2>1, AppendBlock, Zenon DEF QueuesAreTyped
  <2>3. managerQueue' = IF ~attached THEN managerQueue ELSE Append(managerQueue, b)
    BY <1>2 DEF b
  <2> QED BY <1>2, <2>1, <2>2, <2>3 DEF QueuesAreTyped
<1> QED BY <1>1, <1>2 DEF RequestTransactionFromDelegate

\* timerEvent leaves the transport without a connection only if it is stopped.
LEMMA TimerEventConnects ==
  ASSUME QueuesAreTyped, NEW current \in Nat, TimerEvent(current)
  PROVE  /\ connection' \in Nat /\ lastConnection' \in Nat
         /\ tcpQueue' \in Seq(TcpBlocks)
         /\ connection' = 0 => stopped /\ current = 0
<1>1. CASE Starts(current)
  <2>1. /\ lastConnection' = lastConnection + 1 /\ connection' = lastConnection + 1
        /\ tcpQueue' = Append(tcpQueue, Block("start", connection', NoPing))
    BY <1>1 DEF TimerEvent
  <2>2. connection' \in Nat \ {0} /\ lastConnection' \in Nat
    BY <2>1 DEF QueuesAreTyped
  <2>3. Block("start", connection', NoPing) \in TcpBlocks
    BY <2>2 DEF NoPing, Block, Blocks, TcpBlocks, Methods
  <2>4. tcpQueue' \in Seq(TcpBlocks)
    BY <2>1, <2>3, AppendBlock, Zenon DEF QueuesAreTyped
  <2> QED BY <2>2, <2>4
<1>2. CASE ~Starts(current)
  BY <1>2 DEF TimerEvent, QueuesAreTyped, Starts
<1> QED BY <1>1, <1>2

\* A connection is stopped by a block of the TCP queue.
LEMMA StopConnectionType ==
  ASSUME QueuesAreTyped, StopConnection
  PROVE  tcpQueue' \in Seq(TcpBlocks)
<1>1. connection # 0 => Block("stop", connection, NoPing) \in TcpBlocks
  BY DEF QueuesAreTyped, NoPing, Block, Blocks, TcpBlocks, Methods
<1> QED BY <1>1, AppendBlock, Zenon DEF StopConnection, QueuesAreTyped

\* A dispatch to the transport queue.
LEMMA Dispatched ==
  ASSUME QueuesAreTyped, NEW b \in NamedBlocks, Dispatch(b)
  PROVE  /\ transportQueue' \in Seq(NamedBlocks)
         /\ BlocksIn(transportQueue') = BlocksIn(transportQueue) \cup {b.op}
  BY AppendBlock DEF Dispatch, QueuesAreTyped

\* A callback names its connection.
LEMMA Notified ==
  ASSUME QueuesAreTyped, NEW c \in Nat \ {0}, NEW op \in Methods, NEW p \in Nat,
         Notify(c, op, p)
  PROVE  /\ transportQueue' \in Seq(NamedBlocks)
         /\ BlocksIn(transportQueue) \subseteq BlocksIn(transportQueue')
<1>1. Block(op, c, p) \in NamedBlocks
  BY BlockType
<1> QED BY <1>1, AppendBlock DEF Notify, QueuesAreTyped

-----------------------------------------------------------------------------
(* The parts of the invariant that a step does not disturb *)

\* Queues and connections that stay are typed.
LEMMA TypedIfSame ==
  ASSUME QueuesAreTyped,
         transportQueue' \in Seq(NamedBlocks), managerQueue' \in Seq(NamedBlocks),
         tcpQueue' \in Seq(TcpBlocks),
         UNCHANGED <<connection, lastConnection, pings>>
  PROVE  QueuesAreTyped'
  BY DEF QueuesAreTyped

\* The lock stays owed if no answer and no question is taken from a queue.
LEMMA LockKept ==
  ASSUME LockIsOwed, lock' => lock,
         BlocksIn(managerQueue) \cap {"ready", "readyForPing"}
           \subseteq BlocksIn(managerQueue'),
         BlocksIn(transportQueue) \cap {"transactionReady", "nothingReady"}
           \subseteq BlocksIn(transportQueue')
  PROVE  LockIsOwed'
  BY DEF LockIsOwed

\* The timer runs on if neither it nor the connection is touched.
LEMMA TimerKept ==
  ASSUME ReconnectsAfterClose,
         UNCHANGED <<connection, lastConnection, stopped, backoffTimer>>
  PROVE  ReconnectsAfterClose'
  BY DEF ReconnectsAfterClose

\* A queue of one block.
LEMMA OneBlock ==
  ASSUME NEW S, NEW b \in S
  PROVE  <<b>> \in Seq(S) /\ BlocksIn(<<b>>) = {b.op}
<1>1. <<b>> \in Seq(S) /\ Len(<<b>>) = 1 /\ <<b>>[1] = b
  OBVIOUS
<1> QED BY <1>1 DEF BlocksIn

\* The calls the transport and MTProto make of each other.
LEMMA CallsAreNamed ==
  \A op \in {"needsTransaction", "nextPass", "transactionReady", "nothingReady",
             "didChangeSession", "reset", "networkBack", "stop", "ready",
             "readyForPing", "notAccepted"} :
     Call(op) \in NamedBlocks /\ Call(op).op = op
  BY DEF Call, Block, Blocks, NamedBlocks, Methods, Callbacks, NoPing

\* The blocks that carry the number of a ping.
LEMMA PingBlocksAreNamed ==
  ASSUME NEW p \in Nat
  PROVE  /\ Block("transactionReady", 0, p) \in NamedBlocks
         /\ Block("pingSent", 0, p) \in NamedBlocks
         /\ Block("pingDone", 0, p) \in NamedBlocks
         /\ Block("accepted", 0, p) \in NamedBlocks
         /\ Block("transactionReady", 0, p).op = "transactionReady"
  BY DEF Block, Blocks, NamedBlocks, Methods, Callbacks

\* The fields of a block.
LEMMA FieldsOfBlocks ==
  ASSUME NEW b \in NamedBlocks
  PROVE  /\ b.connection \in Nat /\ b.ping \in Nat
         /\ b.op \in Callbacks => b.connection # 0
  BY DEF NamedBlocks, Blocks

-----------------------------------------------------------------------------
(* The blocks of the transport queue and its timers *)

\* setDelegateNeedsTransaction.
LEMMA NeedsTransactionKeeps ==
  ASSUME TransportInv, NeedsTransaction
  PROVE  TransportInv'
<1> DEFINE added == IF willRequest THEN <<>> ELSE <<Call("nextPass")>>
<1>1. added \in Seq(NamedBlocks)
  BY CallsAreNamed, OneBlock
<1>2. RunTransportBlock("needsTransaction", added) /\ QueuesAreTyped
  BY DEF NeedsTransaction, TransportInv
<1> HIDE DEF added
<1>3. /\ transportQueue' \in Seq(NamedBlocks)
      /\ BlocksIn(transportQueue)
           \subseteq {"needsTransaction"} \cup BlocksIn(transportQueue')
  BY <1>1, <1>2, TransportBlockRuns
<1>4. UNCHANGED <<managerQueue, tcpQueue, lock, connection, lastConnection,
                  backoffTimer, stopped, pings>>
  BY DEF NeedsTransaction, lockVars, connectionVars, behaviour, environment
<1> QED BY <1>3, <1>4 DEF TransportInv, QueuesAreTyped, ReconnectsAfterClose, LockIsOwed

\* A block of the transport queue that dispatches nothing to its own queue.
LEMMA PlainBlockRuns ==
  ASSUME QueuesAreTyped, NEW op, RunTransportBlock(op, <<>>)
  PROVE  /\ Head(transportQueue) \in NamedBlocks
         /\ Head(transportQueue).op = op
         /\ transportQueue' \in Seq(NamedBlocks)
         /\ BlocksIn(transportQueue) \subseteq {op} \cup BlocksIn(transportQueue')
<1>1. <<>> \in Seq(NamedBlocks)
  OBVIOUS
<1> QED BY <1>1, TransportBlockRuns

\* The next pass of the queue.
LEMMA NextPassKeeps ==
  ASSUME TransportInv, NextPass
  PROVE  TransportInv'
<1>1. QueuesAreTyped /\ RunTransportBlock("nextPass", <<>>)
  BY DEF TransportInv, NextPass
<1>2. /\ transportQueue' \in Seq(NamedBlocks)
      /\ BlocksIn(transportQueue) \subseteq {"nextPass"} \cup BlocksIn(transportQueue')
  BY <1>1, PlainBlockRuns
<1>3. /\ connection' \in Nat /\ lastConnection' \in Nat /\ tcpQueue' \in Seq(TcpBlocks)
      /\ ReconnectsAfterClose'
  <2>1. stopped' = stopped
    BY DEF NextPass
  <2>2. CASE connection = 0 /\ ~backoffTimer
    <3>1. TimerEvent(connection) /\ connection \in Nat
      BY <2>2, <1>1 DEF NextPass, QueuesAreTyped
    <3> QED BY <3>1, <1>1, <2>1, TimerEventConnects DEF ReconnectsAfterClose
  <2>3. CASE ~(connection = 0 /\ ~backoffTimer)
    BY <2>3, <2>1, <1>1 DEF NextPass, QueuesAreTyped, TransportInv, ReconnectsAfterClose
  <2> QED BY <2>2, <2>3
<1>4. /\ managerQueue' \in Seq(NamedBlocks)
      /\ BlocksIn(managerQueue) \subseteq BlocksIn(managerQueue')
      /\ lock' => lock \/ BlocksIn(managerQueue') \cap {"ready", "readyForPing"} # {}
  <2>1. CASE RequestTransactionFromDelegate(didSendPing)
    BY <2>1, <1>1, RequestOwes
  <2>2. CASE NoRequest
    BY <2>2, <1>1 DEF NoRequest, lockVars, QueuesAreTyped
  <2> QED BY <2>1, <2>2 DEF NextPass
<1>5. pings' = pings /\ pings \in Nat
  BY <1>1 DEF NextPass, environment, QueuesAreTyped
<1>6. LockIsOwed'
  BY <1>2, <1>4 DEF TransportInv, LockIsOwed
<1> QED BY <1>2, <1>3, <1>4, <1>5, <1>6 DEF TransportInv, QueuesAreTyped

\* The transactionReady block releases the lock, or keeps it and asks again.
LEMMA TransactionReadyKeeps ==
  ASSUME TransportInv, TransactionReady
  PROVE  TransportInv'
<1> PICK op \in {"transactionReady", "nothingReady"} :
      LET refused == op = "transactionReady" /\ connection = 0
          notAccepted == IF refused THEN <<Call("notAccepted")>> ELSE <<>>
          ask == IF requestAnother /\ attached
                 THEN <<Call(IF didSendPing THEN "ready" ELSE "readyForPing")>>
                 ELSE <<>>
      IN  /\ RunTransportBlock(op, <<>>)
          /\ tcpQueue' =
               IF op = "transactionReady" /\ ~refused
               THEN Append(tcpQueue,
                           Block("send", connection, Head(transportQueue).ping))
               ELSE tcpQueue
          /\ managerQueue' = managerQueue \o notAccepted \o ask
          /\ lock' = (ask # <<>>)
          /\ UNCHANGED <<connectionVars, environment, stopped>>
  BY DEF TransactionReady
<1> DEFINE refused == op = "transactionReady" /\ connection = 0
           notAccepted == IF refused THEN <<Call("notAccepted")>> ELSE <<>>
           ask == IF requestAnother /\ attached
                  THEN <<Call(IF didSendPing THEN "ready" ELSE "readyForPing")>>
                  ELSE <<>>
           send == Block("send", connection, Head(transportQueue).ping)
<1>1. QueuesAreTyped /\ RunTransportBlock(op, <<>>)
  BY DEF TransportInv
<1>2. Head(transportQueue) \in NamedBlocks /\ transportQueue' \in Seq(NamedBlocks)
  BY <1>1, PlainBlockRuns
<1>3. notAccepted \in Seq(NamedBlocks)
  BY CallsAreNamed, OneBlock
<1>4. /\ ask \in Seq(NamedBlocks)
      /\ ask # <<>> => BlocksIn(ask) \cap {"ready", "readyForPing"} # {}
  <2>1. CASE requestAnother /\ attached
    <3> DEFINE op2 == IF didSendPing THEN "ready" ELSE "readyForPing"
    <3>1. Call(op2) \in NamedBlocks /\ Call(op2).op \in {"ready", "readyForPing"}
      BY CallsAreNamed
    <3>2. ask = <<Call(op2)>>
      BY <2>1
    <3> HIDE DEF op2
    <3>3. ask \in Seq(NamedBlocks) /\ BlocksIn(ask) = {Call(op2).op}
      BY <3>1, <3>2, OneBlock
    <3> QED BY <3>1, <3>3
  <2>2. CASE ~(requestAnother /\ attached)
    BY <2>2
  <2> QED BY <2>1, <2>2
<1>5. ~(op = "transactionReady" /\ ~refused) \/ send \in TcpBlocks
  <2>1. Head(transportQueue).ping \in Nat /\ connection \in Nat
    BY <1>1, <1>2, FieldsOfBlocks DEF QueuesAreTyped
  <2> QED BY <2>1 DEF Block, Blocks, TcpBlocks, Methods
<1>6. tcpQueue' = IF op = "transactionReady" /\ ~refused
                  THEN Append(tcpQueue, send) ELSE tcpQueue
  OBVIOUS
<1>7. managerQueue' = (managerQueue \o notAccepted) \o ask /\ lock' = (ask # <<>>)
  OBVIOUS
<1>8. UNCHANGED <<connection, lastConnection, backoffTimer, stopped, pings>>
  BY DEF connectionVars, behaviour, environment
<1> HIDE DEF notAccepted, ask, send
<1>9. tcpQueue' \in Seq(TcpBlocks)
  <2>1. tcpQueue \in Seq(TcpBlocks)
    BY <1>1 DEF QueuesAreTyped
  <2>2. send \in TcpBlocks => Append(tcpQueue, send) \in Seq(TcpBlocks)
    BY <2>1, AppendBlock, Zenon
  <2> QED BY <1>5, <1>6, <2>1, <2>2
<1>10. /\ managerQueue \o notAccepted \in Seq(NamedBlocks)
       /\ managerQueue' \in Seq(NamedBlocks)
       /\ BlocksIn(managerQueue') = BlocksIn(managerQueue \o notAccepted) \cup BlocksIn(ask)
  <2>1. managerQueue \o notAccepted \in Seq(NamedBlocks)
    BY <1>1, <1>3, ConcatBlocks, Zenon DEF QueuesAreTyped
  <2> DEFINE q == managerQueue \o notAccepted
  <2> HIDE DEF q
  <2>2. q \o ask \in Seq(NamedBlocks) /\ BlocksIn(q \o ask) = BlocksIn(q) \cup BlocksIn(ask)
    BY <2>1, <1>4, ConcatBlocks, Zenon DEF q
  <2> QED BY <2>1, <2>2, <1>7 DEF q
<1>11. LockIsOwed'
  <2>1. lock' => BlocksIn(ask) \cap {"ready", "readyForPing"} # {}
    BY <1>4, <1>7
  <2>2. BlocksIn(ask) \subseteq BlocksIn(managerQueue')
    BY <1>10
  <2>3. lock' => BlocksIn(managerQueue') \cap {"ready", "readyForPing"} # {}
    BY <2>1, <2>2
  <2> QED BY <2>3 DEF LockIsOwed
<1>12. ReconnectsAfterClose'
  BY <1>8, TimerKept DEF TransportInv
<1> QED BY <1>1, <1>2, <1>8, <1>9, <1>10, <1>11, <1>12 DEF TransportInv, QueuesAreTyped

\* Blocks of the transport queue that touch neither a connection nor the lock.
LEMMA PlainStepsKeep ==
  ASSUME TransportInv, PingSent \/ PingDone \/ DidChangeSession
  PROVE  TransportInv'
<1>1. PICK op \in {"pingSent", "pingDone", "didChangeSession"} :
        QueuesAreTyped /\ RunTransportBlock(op, <<>>)
  BY DEF TransportInv, PingSent, PingDone, DidChangeSession
<1>2. /\ transportQueue' \in Seq(NamedBlocks)
      /\ BlocksIn(transportQueue) \subseteq {op} \cup BlocksIn(transportQueue')
  BY <1>1, PlainBlockRuns
<1>3. UNCHANGED <<managerQueue, tcpQueue, lock, connection, lastConnection,
                  backoffTimer, stopped, pings>>
  BY DEF PingSent, PingDone, DidChangeSession, lockVars, connectionVars, behaviour,
         environment
<1> QED BY <1>2, <1>3 DEF TransportInv, QueuesAreTyped, ReconnectsAfterClose, LockIsOwed

\* reset and stop.
LEMMA ResetAndStopKeep ==
  ASSUME TransportInv, Reset \/ Stop
  PROVE  TransportInv'
<1>1. PICK op \in {"reset", "networkBack", "stop"} :
        QueuesAreTyped /\ RunTransportBlock(op, <<>>)
  BY DEF TransportInv, Reset, Stop
<1>2. /\ transportQueue' \in Seq(NamedBlocks)
      /\ BlocksIn(transportQueue) \subseteq {op} \cup BlocksIn(transportQueue')
  BY <1>1, PlainBlockRuns
<1>3. StopConnection /\ UNCHANGED <<managerQueue, lock, lastConnection, backoffTimer, pings>>
  BY DEF Reset, Stop, lockVars, behaviour, environment
<1>4. tcpQueue' \in Seq(TcpBlocks)
  BY <1>1, <1>3, StopConnectionType
<1>5. \/ UNCHANGED <<connection, stopped>>
      \/ connection' = 0 /\ stopped' = TRUE
  BY DEF Reset, Stop
<1> QED BY <1>1, <1>2, <1>3, <1>4, <1>5
        DEF TransportInv, QueuesAreTyped, ReconnectsAfterClose, LockIsOwed

\* tcpConnectionOpened: and connectionIsValid:.
LEMMA OpenedAndValidKeep ==
  ASSUME TransportInv, ConnectionOpened \/ ConnectionIsValid
  PROVE  TransportInv'
<1>1. PICK op \in {"opened", "valid"} :
        /\ QueuesAreTyped /\ RunTransportBlock(op, <<>>)
        /\ op = "valid" => ConnectionIsValid
        /\ op = "opened" => ConnectionOpened
  BY DEF TransportInv, ConnectionOpened, ConnectionIsValid
<1>2. /\ Head(transportQueue) \in NamedBlocks /\ Head(transportQueue).op = op
      /\ transportQueue' \in Seq(NamedBlocks)
      /\ BlocksIn(transportQueue) \subseteq {op} \cup BlocksIn(transportQueue')
  BY <1>1, PlainBlockRuns
<1>3. Head(transportQueue).connection # 0
  BY <1>2, FieldsOfBlocks DEF Callbacks
<1>4. UNCHANGED <<tcpQueue, connection, lastConnection, stopped, pings>>
  BY <1>1 DEF ConnectionOpened, ConnectionIsValid, environment
<1>5. ReconnectsAfterClose'
  <2>1. CASE backoffTimer' = backoffTimer
    BY <2>1, <1>4 DEF TransportInv, ReconnectsAfterClose
  <2>2. CASE connection = Head(transportQueue).connection
    BY <2>2, <1>3, <1>4 DEF ReconnectsAfterClose
  <2> QED BY <2>1, <2>2 DEF ConnectionOpened, ConnectionIsValid, behaviour
<1>6. /\ managerQueue' \in Seq(NamedBlocks)
      /\ BlocksIn(managerQueue) \subseteq BlocksIn(managerQueue')
      /\ lock' => lock \/ BlocksIn(managerQueue') \cap {"ready", "readyForPing"} # {}
  <2>1. CASE RequestTransactionFromDelegate(FALSE)
    BY <2>1, <1>1, RequestOwes
  <2>2. CASE UNCHANGED <<lock, managerQueue>>
    BY <2>2, <1>1 DEF QueuesAreTyped
  <2> QED BY <2>1, <2>2 DEF ConnectionOpened, ConnectionIsValid, lockVars, NoRequest
<1>7. LockIsOwed'
  BY <1>1, <1>2, <1>6 DEF TransportInv, LockIsOwed
<1> QED BY <1>1, <1>2, <1>4, <1>5, <1>6, <1>7 DEF TransportInv, QueuesAreTyped

\* tcpConnectionClosed:
LEMMA ConnectionClosedKeeps ==
  ASSUME TransportInv, ConnectionClosed
  PROVE  TransportInv'
<1>1. QueuesAreTyped /\ RunTransportBlock("closed", <<>>)
  BY DEF TransportInv, ConnectionClosed
<1>2. /\ transportQueue' \in Seq(NamedBlocks)
      /\ BlocksIn(transportQueue) \subseteq {"closed"} \cup BlocksIn(transportQueue')
  BY <1>1, PlainBlockRuns
<1>3. UNCHANGED <<managerQueue, lock, stopped, pings>>
  BY DEF ConnectionClosed, environment
<1>4. /\ connection' \in Nat /\ lastConnection' \in Nat /\ tcpQueue' \in Seq(TcpBlocks)
      /\ ReconnectsAfterClose'
  <2>1. CASE TimerEvent(0)
    BY <2>1, <1>1, <1>3, TimerEventConnects DEF ReconnectsAfterClose
  <2>2. CASE backoffTimer' = TRUE /\ connection' = 0 /\ UNCHANGED <<lastConnection, tcpQueue>>
    BY <2>2, <1>1 DEF QueuesAreTyped, ReconnectsAfterClose
  <2>3. CASE UNCHANGED <<connectionVars, tcpQueue>>
    BY <2>3, <1>1, <1>3
       DEF QueuesAreTyped, ReconnectsAfterClose, connectionVars, behaviour, TransportInv
  <2> QED BY <2>1, <2>2, <2>3 DEF ConnectionClosed
<1> QED BY <1>1, <1>2, <1>3, <1>4 DEF TransportInv, QueuesAreTyped, LockIsOwed

\* tcpConnectionReceivedData:
LEMMA ReceivedDataKeeps ==
  ASSUME TransportInv, ReceivedData
  PROVE  TransportInv'
<1>1. QueuesAreTyped /\ RunTransportBlock("data", <<>>)
  BY DEF TransportInv, ReceivedData
<1>2. /\ Head(transportQueue) \in NamedBlocks
      /\ transportQueue' \in Seq(NamedBlocks)
      /\ BlocksIn(transportQueue) \subseteq {"data"} \cup BlocksIn(transportQueue')
  BY <1>1, PlainBlockRuns
<1>3. UNCHANGED <<tcpQueue, lock, connection, lastConnection, backoffTimer, stopped, pings>>
  BY DEF ReceivedData, lockVars, connectionVars, behaviour, environment
<1>4. /\ managerQueue' \in Seq(NamedBlocks)
      /\ BlocksIn(managerQueue) \subseteq BlocksIn(managerQueue')
  <2>1. managerQueue \in Seq(NamedBlocks)
    BY <1>1 DEF QueuesAreTyped
  <2>2. \/ managerQueue' = managerQueue
        \/ managerQueue' = Append(managerQueue, Head(transportQueue))
    BY DEF ReceivedData
  <2> DEFINE b == Head(transportQueue)
  <2> HIDE DEF b
  <2>3. /\ Append(managerQueue, b) \in Seq(NamedBlocks)
        /\ BlocksIn(Append(managerQueue, b)) = BlocksIn(managerQueue) \cup {b.op}
    <3>1. b \in NamedBlocks
      BY <1>2 DEF b
    <3> QED BY <3>1, <2>1, AppendBlock, Zenon
  <2> QED BY <2>1, <2>2, <2>3 DEF b
<1> QED BY <1>1, <1>2, <1>3, <1>4
        DEF TransportInv, QueuesAreTyped, ReconnectsAfterClose, LockIsOwed

\* The backoff timer and the timer of the ping.
LEMMA TimersKeep ==
  ASSUME TransportInv, TimerStep
  PROVE  TransportInv'
<1>1. QueuesAreTyped /\ connection \in Nat
  BY DEF TransportInv, QueuesAreTyped
<1>2. CASE BackoffTimerFires
  <2>1. /\ TimerEvent(connection)
        /\ UNCHANGED <<transportQueue, managerQueue, lock, stopped, pings>>
    BY <1>2 DEF BackoffTimerFires, lockVars, environment
  <2>2. /\ connection' \in Nat /\ lastConnection' \in Nat /\ tcpQueue' \in Seq(TcpBlocks)
        /\ connection' = 0 => stopped
    BY <1>1, <2>1, TimerEventConnects
  <2>3. ReconnectsAfterClose'
    BY <2>1, <2>2 DEF ReconnectsAfterClose
  <2>4. LockIsOwed'
    BY <2>1, LockKept DEF TransportInv
  <2> QED BY <1>1, <2>1, <2>2, <2>3, <2>4 DEF TransportInv, QueuesAreTyped
<1>3. CASE ResendActualizationPing
  <2>1. UNCHANGED <<transportQueue, tcpQueue, connection, lastConnection, backoffTimer,
                    stopped, pings>>
    BY <1>3 DEF ResendActualizationPing, connectionVars, behaviour, environment
  <2>2. /\ managerQueue' \in Seq(NamedBlocks)
        /\ BlocksIn(managerQueue) \subseteq BlocksIn(managerQueue')
        /\ lock' => lock \/ BlocksIn(managerQueue') \cap {"ready", "readyForPing"} # {}
    <3>1. CASE RequestTransactionFromDelegate(FALSE)
      BY <3>1, <1>1, RequestOwes
    <3>2. CASE NoRequest
      BY <3>2, <1>1 DEF QueuesAreTyped, NoRequest, lockVars
    <3> QED BY <1>3, <3>1, <3>2 DEF ResendActualizationPing
  <2> QED BY <1>1, <2>1, <2>2
          DEF TransportInv, QueuesAreTyped, ReconnectsAfterClose, LockIsOwed
<1> QED BY <1>2, <1>3 DEF TimerStep

-----------------------------------------------------------------------------
(* The manager queue, MTProto, the TCP queue and the network *)

\* What remains to be shown of a step that changes neither a connection, nor
\* the backoff timer, nor the lock.
LEMMA OtherQueuesKeep ==
  ASSUME TransportInv,
         UNCHANGED <<connection, lastConnection, backoffTimer, stopped, lock>>,
         transportQueue' \in Seq(NamedBlocks), managerQueue' \in Seq(NamedBlocks),
         tcpQueue' \in Seq(TcpBlocks), pings' \in Nat,
         BlocksIn(transportQueue) \subseteq BlocksIn(transportQueue'),
         \/ BlocksIn(managerQueue) \cap {"ready", "readyForPing"}
              \subseteq BlocksIn(managerQueue')
         \/ BlocksIn(transportQueue') \cap {"transactionReady", "nothingReady"} # {}
  PROVE  TransportInv'
<1>1. QueuesAreTyped'
  BY DEF TransportInv, QueuesAreTyped
<1>2. ReconnectsAfterClose'
  BY TimerKept DEF TransportInv
<1>3. LockIsOwed'
  BY DEF TransportInv, LockIsOwed
<1> QED BY <1>1, <1>2, <1>3 DEF TransportInv

\* transportReadyForTransaction: answers with a transactionReady block.
LEMMA ReadyForTransactionKeeps ==
  ASSUME TransportInv, NEW op \in {"ready", "readyForPing"},
         TransportReadyForTransaction(op)
  PROVE  TransportInv'
<1>1. QueuesAreTyped /\ RunManagerBlock(op) /\ tcpQueue \in Seq(TcpBlocks)
  BY DEF TransportInv, TransportReadyForTransaction, QueuesAreTyped
<1>2. managerQueue' \in Seq(NamedBlocks)
  BY <1>1, ManagerBlockRuns
<1>3. UNCHANGED <<connection, lastConnection, backoffTimer, stopped, lock, tcpQueue>>
  BY DEF TransportReadyForTransaction, lockVars, connectionVars, behaviour
<1>4. PICK b \in NamedBlocks :
        /\ Dispatch(b) /\ b.op \in {"transactionReady", "nothingReady"}
        /\ pings' \in Nat
  <2>1. CASE Dispatch(Call("nothingReady")) /\ UNCHANGED pings
    BY <2>1, <1>1, CallsAreNamed DEF QueuesAreTyped
  <2>2. CASE Dispatch(Call("transactionReady")) /\ UNCHANGED pings
    BY <2>2, <1>1, CallsAreNamed DEF QueuesAreTyped
  <2>3. CASE pings' = pings + 1 /\ Dispatch(Block("transactionReady", 0, pings'))
    <3>1. pings' \in Nat
      BY <2>3, <1>1 DEF QueuesAreTyped
    <3> QED BY <2>3, <3>1, PingBlocksAreNamed
  <2> QED BY <2>1, <2>2, <2>3 DEF TransportReadyForTransaction
<1>5. /\ transportQueue' \in Seq(NamedBlocks)
      /\ BlocksIn(transportQueue') = BlocksIn(transportQueue) \cup {b.op}
  BY <1>1, <1>4, Dispatched
<1>6. /\ BlocksIn(transportQueue) \subseteq BlocksIn(transportQueue')
      /\ BlocksIn(transportQueue') \cap {"transactionReady", "nothingReady"} # {}
  BY <1>4, <1>5
<1>7. tcpQueue' \in Seq(TcpBlocks) /\ pings' \in Nat
  BY <1>1, <1>3, <1>4
<1> QED BY <1>2, <1>3, <1>5, <1>6, <1>7, OtherQueuesKeep

\* The other blocks of the manager queue.
LEMMA ManagerBlocksKeep ==
  ASSUME TransportInv,
         PayloadAccepted \/ PayloadNotAccepted \/ IgnoreData \/ DecodeData \/ RejectData
  PROVE  TransportInv'
<1>1. PICK op \in {"accepted", "notAccepted", "data"} :
        /\ QueuesAreTyped /\ RunManagerBlock(op)
        /\ DecodeData => op = "data"
  BY DEF TransportInv, PayloadAccepted, PayloadNotAccepted, IgnoreData, DecodeData,
         RejectData, RunManagerBlock, IsNext
<1>2. /\ managerQueue' \in Seq(NamedBlocks)
      /\ Head(managerQueue) \in NamedBlocks /\ Head(managerQueue).op = op
      /\ BlocksIn(managerQueue) \subseteq {op} \cup BlocksIn(managerQueue')
  BY <1>1, ManagerBlockRuns
<1>3. UNCHANGED <<connection, lastConnection, backoffTimer, stopped, lock, tcpQueue, pings>>
  BY DEF PayloadAccepted, PayloadNotAccepted, IgnoreData, DecodeData, RejectData,
         lockVars, connectionVars, behaviour, environment
<1>4. /\ transportQueue' \in Seq(NamedBlocks)
      /\ BlocksIn(transportQueue) \subseteq BlocksIn(transportQueue')
  <2>0. transportQueue \in Seq(NamedBlocks)
    BY <1>1 DEF QueuesAreTyped
  <2>1. CASE \E b \in NamedBlocks : Dispatch(b)
    BY <2>1, <1>1, Dispatched
  <2>2. CASE transportQueue' = transportQueue
    BY <2>0, <2>2
  <2>3. CASE DecodeData
    <3> DEFINE block == Head(managerQueue)
               valid == Block("valid", block.connection, NoPing)
               done == Block("pingDone", 0, block.ping)
    <3>1. block.connection \in Nat \ {0} /\ block.ping \in Nat
      BY <1>1, <1>2, <2>3, FieldsOfBlocks DEF Callbacks
    <3>2. valid \in NamedBlocks
      BY <3>1 DEF Block, Blocks, NamedBlocks, Methods, Callbacks, NoPing
    <3>3. done \in NamedBlocks
      BY <3>1, PingBlocksAreNamed
    <3>4. Dispatch(valid) \/ transportQueue' = transportQueue \o <<valid, done>>
      BY <2>3 DEF DecodeData
    <3> HIDE DEF valid, done
    <3>5. CASE Dispatch(valid)
      BY <3>2, <3>5, <1>1, Dispatched
    <3>6. CASE transportQueue' = transportQueue \o <<valid, done>>
      <4>1. <<valid, done>> \in Seq(NamedBlocks)
        BY <3>2, <3>3
      <4> DEFINE added == <<valid, done>>
      <4> HIDE DEF added
      <4>2. /\ transportQueue \o added \in Seq(NamedBlocks)
            /\ BlocksIn(transportQueue \o added) = BlocksIn(transportQueue) \cup BlocksIn(added)
        BY <2>0, <4>1, ConcatBlocks, Zenon DEF added
      <4> QED BY <3>6, <4>2 DEF added
    <3> QED BY <3>4, <3>5, <3>6
  <2>4. CASE PayloadAccepted
    <3>1. Head(managerQueue).ping \in Nat
      BY <1>2, FieldsOfBlocks
    <3>2. Block("pingSent", 0, Head(managerQueue).ping) \in NamedBlocks
      BY <3>1, PingBlocksAreNamed
    <3> QED BY <2>1, <2>4, <3>2 DEF PayloadAccepted
  <2>5. CASE RejectData
    BY <2>1, <2>5, CallsAreNamed DEF RejectData
  <2>6. CASE PayloadNotAccepted \/ IgnoreData
    BY <2>2, <2>6 DEF PayloadNotAccepted, IgnoreData
  <2> QED BY <2>3, <2>4, <2>5, <2>6
<1>5. BlocksIn(managerQueue) \cap {"ready", "readyForPing"} \subseteq BlocksIn(managerQueue')
  BY <1>2
<1>6. tcpQueue' \in Seq(TcpBlocks) /\ pings' \in Nat
  BY <1>1, <1>3 DEF QueuesAreTyped
<1> QED BY <1>2, <1>3, <1>4, <1>5, <1>6, OtherQueuesKeep

\* MTProto asks for transactions, resets the transport or replaces it.
LEMMA EnvironmentKeeps ==
  ASSUME TransportInv, EnvironmentStep
  PROVE  TransportInv'
<1>1. QueuesAreTyped /\ transportQueue \in Seq(NamedBlocks)
  BY DEF TransportInv, QueuesAreTyped
<1>2. UNCHANGED <<connection, lastConnection, backoffTimer, stopped, lock, tcpQueue,
                  managerQueue, pings>>
  BY DEF EnvironmentStep, RequestTransportTransaction, RequestReset, ChangeSession,
         ResetTransport, lockVars, connectionVars, behaviour
<1>3. /\ transportQueue' \in Seq(NamedBlocks)
      /\ BlocksIn(transportQueue) \subseteq BlocksIn(transportQueue')
  <2>1. CASE \E b \in NamedBlocks : Dispatch(b)
    BY <2>1, <1>1, Dispatched
  <2>2. CASE ChangeSession
    <3> DEFINE added == <<Call("didChangeSession"), Call("stop")>>
    <3>1. added \in Seq(NamedBlocks)
      BY CallsAreNamed
    <3>2. transportQueue' = transportQueue \o added
      BY <2>2 DEF ChangeSession
    <3> HIDE DEF added
    <3>3. /\ transportQueue \o added \in Seq(NamedBlocks)
          /\ BlocksIn(transportQueue \o added) = BlocksIn(transportQueue) \cup BlocksIn(added)
      BY <1>1, <3>1, ConcatBlocks, Zenon
    <3> QED BY <3>2, <3>3
  <2>3. CASE RequestTransportTransaction \/ RequestReset \/ ResetTransport
    BY <2>1, <2>3, CallsAreNamed DEF RequestTransportTransaction, RequestReset, ResetTransport
  <2> QED BY <2>2, <2>3 DEF EnvironmentStep
<1>4. tcpQueue' \in Seq(TcpBlocks) /\ pings' \in Nat /\ managerQueue' \in Seq(NamedBlocks)
      /\ BlocksIn(managerQueue) \cap {"ready", "readyForPing"} \subseteq BlocksIn(managerQueue')
  BY <1>1, <1>2 DEF QueuesAreTyped
<1> QED BY <1>2, <1>3, <1>4, OtherQueuesKeep

\* The TCP queue.
LEMMA TcpStepsKeep ==
  ASSUME TransportInv, TcpStep
  PROVE  TransportInv'
<1>1. /\ QueuesAreTyped /\ transportQueue \in Seq(NamedBlocks)
      /\ managerQueue \in Seq(NamedBlocks) /\ pings \in Nat
  BY DEF TransportInv, QueuesAreTyped
<1>2. PICK op \in {"start", "stop", "send"} : RunTcpBlock(op)
  BY DEF TcpStep, TcpStart, TcpStop, TcpSend
<1>3. Head(tcpQueue) \in TcpBlocks /\ tcpQueue' \in Seq(TcpBlocks)
  BY <1>1, <1>2, TcpBlockRuns
<1>4. Head(tcpQueue).connection \in Nat \ {0} /\ Head(tcpQueue).ping \in Nat
  BY <1>3 DEF TcpBlocks, Blocks
<1>5. UNCHANGED <<connection, lastConnection, backoffTimer, stopped, lock, pings>>
  BY DEF TcpStep, TcpStart, TcpStop, TcpSend, lockVars, connectionVars, behaviour,
         environment
<1>6. /\ transportQueue' \in Seq(NamedBlocks)
      /\ BlocksIn(transportQueue) \subseteq BlocksIn(transportQueue')
  <2>1. CASE transportQueue' = transportQueue
    BY <1>1, <2>1
  <2>2. CASE Notify(Head(tcpQueue).connection, "closed", NoPing)
    <3>1. "closed" \in Methods /\ NoPing \in Nat
      BY DEF Methods, Callbacks, NoPing
    <3> QED BY <1>1, <1>4, <2>2, <3>1, Notified
  <2> QED BY <2>1, <2>2 DEF TcpStep, TcpStart, TcpStop, TcpSend
<1>7. /\ managerQueue' \in Seq(NamedBlocks)
      /\ BlocksIn(managerQueue) \subseteq BlocksIn(managerQueue')
  <2>1. PICK b \in NamedBlocks :
          managerQueue' = managerQueue \/ managerQueue' = Append(managerQueue, b)
    <3>1. Call("notAccepted") \in NamedBlocks
      BY CallsAreNamed
    <3>2. Block("accepted", 0, Head(tcpQueue).ping) \in NamedBlocks
      BY <1>4, PingBlocksAreNamed
    <3> QED BY <3>1, <3>2 DEF TcpStep, TcpStart, TcpStop, TcpSend
  <2>2. /\ Append(managerQueue, b) \in Seq(NamedBlocks)
        /\ BlocksIn(Append(managerQueue, b)) = BlocksIn(managerQueue) \cup {b.op}
    BY <1>1, AppendBlock, Zenon
  <2> QED BY <1>1, <2>1, <2>2
<1>8. BlocksIn(managerQueue) \cap {"ready", "readyForPing"} \subseteq BlocksIn(managerQueue')
  BY <1>7
<1>9. pings' \in Nat
  BY <1>1, <1>5
<1> QED BY <1>3, <1>5, <1>6, <1>7, <1>8, <1>9, OtherQueuesKeep

\* The network.
LEMMA NetworkKeeps ==
  ASSUME TransportInv, NetworkStep
  PROVE  TransportInv'
<1>1. /\ QueuesAreTyped /\ managerQueue \in Seq(NamedBlocks)
      /\ tcpQueue \in Seq(TcpBlocks) /\ pings \in Nat
  BY DEF TransportInv, QueuesAreTyped
<1>0. PICK c \in Connections : Connects(c) \/ Disconnects(c) \/ ServerAnswers(c)
  BY DEF NetworkStep
<1>2. UNCHANGED <<connection, lastConnection, backoffTimer, stopped, lock, pings,
                  managerQueue, tcpQueue>>
  BY <1>0 DEF Connects, Disconnects, ServerAnswers, lockVars, connectionVars,
              behaviour, environment
<1>3. PICK op \in {"opened", "closed", "data"}, p \in Nat : Notify(c, op, p)
  <2>1. NoPing \in Nat /\ Pings \subseteq Nat
    BY TransportConstants DEF NoPing, Pings
  <2>2. CASE Connects(c)
    BY <2>1, <2>2 DEF Connects
  <2>3. CASE Disconnects(c)
    BY <2>1, <2>3 DEF Disconnects
  <2>4. CASE ServerAnswers(c)
    BY <2>1, <2>4 DEF ServerAnswers
  <2> QED BY <1>0, <2>2, <2>3, <2>4
<1>4. c \in Nat \ {0} /\ op \in Methods
  BY TransportConstants DEF Connections, Methods, Callbacks
<1>5. /\ transportQueue' \in Seq(NamedBlocks)
      /\ BlocksIn(transportQueue) \subseteq BlocksIn(transportQueue')
  BY <1>1, <1>3, <1>4, Notified
<1>6. BlocksIn(managerQueue) \cap {"ready", "readyForPing"} \subseteq BlocksIn(managerQueue')
  BY <1>2
<1>7. managerQueue' \in Seq(NamedBlocks) /\ tcpQueue' \in Seq(TcpBlocks) /\ pings' \in Nat
  BY <1>1, <1>2
<1> QED BY <1>2, <1>5, <1>6, <1>7, OtherQueuesKeep

-----------------------------------------------------------------------------
(* The transport is correct *)

\* A new transport has no connection, no block and no lock.
LEMMA InitTransport == Init => TransportInv
  BY DEF Init, TransportInv, QueuesAreTyped, ReconnectsAfterClose, LockIsOwed

\* Every block, timer and event keeps the invariant.
LEMMA NextTransport == TransportInv /\ [Next]_transportVars => TransportInv'
<1> SUFFICES ASSUME TransportInv, [Next]_transportVars
             PROVE  TransportInv'
  OBVIOUS
<1>1. CASE TransportStep
  BY <1>1, NeedsTransactionKeeps, NextPassKeeps, TransactionReadyKeeps, PlainStepsKeep,
     ResetAndStopKeep, OpenedAndValidKeep, ConnectionClosedKeeps, ReceivedDataKeeps
     DEF TransportStep
<1>2. CASE TimerStep
  BY <1>2, TimersKeep
<1>3. CASE ManagerStep
  BY <1>3, ReadyForTransactionKeeps, ManagerBlocksKeep DEF ManagerStep
<1>4. CASE EnvironmentStep
  BY <1>4, EnvironmentKeeps
<1>5. CASE TcpStep
  BY <1>5, TcpStepsKeep
<1>6. CASE NetworkStep
  BY <1>6, NetworkKeeps
<1>7. CASE UNCHANGED transportVars
  BY <1>7 DEF transportVars, queues, lockVars, connectionVars, behaviour, environment,
              TransportInv, QueuesAreTyped, ReconnectsAfterClose, LockIsOwed
<1> QED BY <1>1, <1>2, <1>3, <1>4, <1>5, <1>6, <1>7 DEF Next

\* The invariant holds in every state of the transport.
LEMMA TransportInvHolds == Spec => []TransportInv
  BY InitTransport, NextTransport, PTL DEF Spec

\* A transport that lost its connection and was not stopped has its backoff
\* timer running, whatever the order in which late callbacks of the old
\* connection, results of decoding its data, changes of the network and
\* requests of MTProto reach it, and for any number of them.
THEOREM AlwaysReconnects == Spec => []ReconnectsAfterClose
<1>1. TransportInv => ReconnectsAfterClose
  BY DEF TransportInv
<1> QED BY TransportInvHolds, <1>1, PTL

\* The transaction lock is never held without a block on its way that releases
\* it, though the manager and the transport queue pass it to and fro.
THEOREM LockIsAlwaysOwed == Spec => []LockIsOwed
<1>1. TransportInv => LockIsOwed
  BY DEF TransportInv
<1> QED BY TransportInvHolds, <1>1, PTL
=============================================================================
