--------------------------- MODULE MTTcpTransport ---------------------------
(***************************************************************************)
(* One MTTcpTransport with its MTTcpConnectionBehaviour and the connections *)
(* it opens: when MTProto is asked for a transaction, and when a connection *)
(* is opened again.                                                         *)
(*                                                                          *)
(* Three serial queues run concurrently: MTProto's manager queue, the TCP   *)
(* transport queue and the TCP connection queue.  dispatchOnQueue runs a    *)
(* block at once when it is already on the queue and appends it otherwise,  *)
(* so a queue is a sequence of blocks and an action runs the first block of *)
(* one queue to its end.  Timers are blocks whose time is not known: they   *)
(* may run between any two blocks of the transport queue.                   *)
(*                                                                          *)
(* What the blocks of MTProto send is abstracted to whether a payload       *)
(* carries the transport's own ping.  Progress and quick acks only call     *)
(* back and are left out, as are connectionIsValid, which nothing reads,    *)
(* the connection watchdog, which only reports to MTProto (that may replace *)
(* the transport at any time here), and the sleep watchdog, whose code is   *)
(* commented out.  setTransport: with nil, for a pause of MTProto, differs  *)
(* from resetTransport in that the delegate is still asked until stop runs, *)
(* and answers with nothing; it is left out.                                *)
(***************************************************************************)
EXTENDS Naturals, Sequences

CONSTANTS
  MaxFaults,    \* bound: connections that fail or are reset, session changes
  MaxCalls,     \* bound: calls of setDelegateNeedsTransaction by MTProto
  MaxPings      \* bound: pings that are ever given a message id

ASSUME TransportConstants ==
  {MaxFaults, MaxCalls, MaxPings} \subseteq Nat

VARIABLES
  transportQueue,   \* blocks of the TCP transport queue, in their order
  managerQueue,     \* blocks of the manager queue that concern the transport
  tcpQueue,         \* blocks of the TCP connection queue
  attached,         \* MTProto's _transport is this one and its delegate is set
  wanted,           \* MTProto has something to send (history)
  connection,       \* transportContext.connection; 0: nil
  lastConnection,   \* connections created so far
  connectionConnected,
  stopped,          \* and, with it, needsReconnection = false
  willRequest,      \* willRequestTransactionOnNextQueuePass
  lock,             \* isWaitingForTransactionToBecomeReady
  requestAnother,   \* requestAnotherTransactionWhenReady
  didSendPing,      \* didSendActualizationPingAfterConnection
  currentPing,      \* currentActualizationPingMessageId
  pingTimer,        \* actualizationPingResendTimer # nil
  backoffCount,     \* MTTcpConnectionBehaviour
  backoffTimer,     \* MTTcpConnectionBehaviour: _backoffTimer # nil
  socket,           \* connection |-> state of its socket
  unanswered,       \* <<connection, ping>> the server has yet to answer
  pings,            \* pings that have a message id so far
  faults, calls     \* how often the environment acted so far

queues == <<transportQueue, managerQueue, tcpQueue>>
lockVars == <<lock, requestAnother, didSendPing>>
pingVars == <<currentPing, pingTimer>>
behaviour == <<backoffCount, backoffTimer>>
connectionVars == <<connection, lastConnection, connectionConnected,
                    behaviour>>
network == <<socket, unanswered>>
environment == <<attached, wanted, pings, faults, calls>>
transportVars == <<queues, lockVars, pingVars, connectionVars, network,
                   environment, stopped, willRequest>>

-----------------------------------------------------------------------------
(* Blocks *)

Connections == 1 .. MaxFaults + 1
Pings == 1 .. MaxPings
NoPing == 0

\* A block is the method it runs with at most two numbers it captured.
Block(op, c, p) == [op |-> op, connection |-> c, ping |-> p]
Call(op) == Block(op, 0, NoPing)

\* The first block of a queue, about to run, is one of method op.
IsNext(queue, op) == queue # <<>> /\ Head(queue).op = op

Init ==
  /\ transportQueue = <<>> /\ managerQueue = <<>> /\ tcpQueue = <<>>
  /\ attached = TRUE /\ wanted = FALSE /\ stopped = FALSE
  /\ connection = 0 /\ lastConnection = 0
  /\ connectionConnected = FALSE /\ willRequest = FALSE
  /\ lock = FALSE /\ requestAnother = FALSE
  /\ didSendPing = FALSE /\ currentPing = NoPing
  /\ pingTimer = FALSE
  /\ backoffCount = 0 /\ backoffTimer = FALSE
  /\ socket = [c \in Connections |-> "none"] /\ unanswered = {}
  /\ pings = 0 /\ faults = 0 /\ calls = 0

-----------------------------------------------------------------------------
(* What the blocks of the transport queue call *)

\* _requestTransactionFromDelegate, with the ping flag as its caller left it: a
\* lock makes the caller wait for the transactionReady block, unless the ping
\* is still to be sent or the lock is more than a second old.
RequestTransactionFromDelegate(pingSent) ==
  \/ /\ lock /\ pingSent
     /\ requestAnother' = TRUE
     /\ didSendPing' = pingSent
     /\ UNCHANGED <<lock, managerQueue>>
  \/ /\ lock' = attached
     /\ didSendPing' = (attached \/ pingSent)
     /\ managerQueue' =
          IF ~attached THEN managerQueue
          ELSE Append(managerQueue,
                      Call(IF pingSent THEN "ready" ELSE "readyForPing"))
     /\ UNCHANGED requestAnother

NoRequest == UNCHANGED <<lockVars, managerQueue>>

\* Mutant of Starts: a stopped transport is started again.
StartsThoughStopped(current) == current = 0 /\ lastConnection <= MaxFaults

\* tcpConnectionBehaviourRequestsReconnection: and startIfNeeded: a transport
\* that was not stopped starts a connection if it has none.  The faults bound
\* how often that happens.
Starts(current) == ~stopped /\ current = 0

\* timerEvent of the behaviour, for a transport whose connection is `current'.
TimerEvent(current) ==
  /\ backoffTimer' = FALSE
  /\ IF Starts(current)
     THEN /\ lastConnection' = lastConnection + 1
          /\ connection' = lastConnection'
          /\ tcpQueue' = Append(tcpQueue, Block("start", connection', NoPing))
     ELSE /\ connection' = current
          /\ UNCHANGED <<lastConnection, tcpQueue>>

\* [transportContext.connection stop]; nothing happens when it is nil.
StopConnection ==
  tcpQueue' = IF connection = 0 THEN tcpQueue
              ELSE Append(tcpQueue, Block("stop", connection, NoPing))

ForgetPing == pingTimer' = FALSE /\ currentPing' = NoPing

\* The transport queue runs its first block, a call of op; `added' is what the
\* block dispatches to the end of its own queue.
RunTransportBlock(op, added) ==
  /\ IsNext(transportQueue, op)
  /\ transportQueue' = Tail(transportQueue) \o added

-----------------------------------------------------------------------------
(* Blocks of the transport queue: calls of MTProto *)

\* setDelegateNeedsTransaction: requests are collected until the next pass.
NeedsTransaction ==
  /\ RunTransportBlock("needsTransaction",
                       IF willRequest THEN <<>> ELSE <<Call("nextPass")>>)
  /\ willRequest' = TRUE
  /\ UNCHANGED <<managerQueue, tcpQueue, lockVars, pingVars, connectionVars,
                 network, environment, stopped>>

\* The dispatch_async block of setDelegateNeedsTransaction, with
\* requestConnection of the behaviour: a running backoff timer is waited for.
NextPass ==
  /\ RunTransportBlock("nextPass", <<>>)
  /\ willRequest' = FALSE
  /\ IF connection = 0 /\ ~backoffTimer
     THEN TimerEvent(connection)
     ELSE UNCHANGED <<connection, lastConnection, backoffTimer,
                      tcpQueue>>
  /\ IF connection # 0 /\ connectionConnected
     THEN RequestTransactionFromDelegate(didSendPing)
     ELSE NoRequest
  /\ UNCHANGED <<connectionConnected, backoffCount, pingVars, network,
                 environment, stopped>>

\* The transactionReady block: the payload goes to the connection, or is not
\* accepted when there is none; then the lock is released, and requests made
\* in between are served.
TransactionReady ==
  \E op \in {"transactionReady", "nothingReady"} :
    LET refused == op = "transactionReady" /\ connection = 0
        notAccepted == IF refused THEN <<Call("notAccepted")>> ELSE <<>>
        ask == IF requestAnother /\ attached
               THEN <<Call(IF didSendPing THEN "ready" ELSE "readyForPing")>>
               ELSE <<>>
    IN  /\ RunTransportBlock(op, <<>>)
        /\ tcpQueue' =
             IF op = "transactionReady" /\ ~refused
             THEN Append(tcpQueue,
                         Block("send", connection, Head(transportQueue).ping))
             ELSE tcpQueue
        /\ managerQueue' = managerQueue \o notAccepted \o ask
        /\ lock' = (ask # <<>>)
        /\ didSendPing' = (didSendPing \/ ask # <<>>)
        /\ requestAnother' = FALSE
        /\ UNCHANGED <<pingVars, connectionVars, network, environment, stopped,
                       willRequest>>

\* The completion block of the ping: its message id is now known.
PingSent ==
  /\ RunTransportBlock("pingSent", <<>>)
  /\ currentPing' = Head(transportQueue).ping
  /\ UNCHANGED <<managerQueue, tcpQueue, lockVars, pingTimer, connectionVars,
                 network, environment, stopped, willRequest>>

\* mtProto:receivedMessage: (a pong), mtProto:messageDeliveryFailed: and
\* mtProtoServerDidChangeSession: for the message id of the current ping.
PingDone ==
  /\ RunTransportBlock("pingDone", <<>>)
  /\ IF currentPing # NoPing /\ currentPing = Head(transportQueue).ping
     THEN ForgetPing ELSE UNCHANGED pingVars
  /\ UNCHANGED <<managerQueue, tcpQueue, lockVars, connectionVars, network,
                 environment, stopped, willRequest>>

\* mtProtoDidChangeSession:
DidChangeSession ==
  /\ RunTransportBlock("didChangeSession", <<>>)
  /\ ForgetPing
  /\ UNCHANGED <<managerQueue, tcpQueue, lockVars, connectionVars, network,
                 environment, stopped, willRequest>>

\* reset, and _networkAvailabilityChanged:, which does the same when the network
\* is lost and also clears the backoff when it is back.
Reset ==
  \E op \in {"reset", "networkBack"} :
    /\ RunTransportBlock(op, <<>>)
    /\ StopConnection
    /\ backoffCount' = IF op = "networkBack" THEN 0 ELSE backoffCount
    /\ UNCHANGED <<managerQueue, lockVars, pingVars, connection, lastConnection,
                   connectionConnected, backoffTimer, network,
                   environment, stopped, willRequest>>

\* stop.  The backoff timer goes on.
Stop ==
  /\ RunTransportBlock("stop", <<>>)
  /\ stopped' = TRUE
  /\ connection' = 0 /\ connectionConnected' = FALSE
  /\ StopConnection
  /\ pingTimer' = FALSE
  /\ UNCHANGED <<managerQueue, lockVars, currentPing, lastConnection, behaviour,
                 network, environment, willRequest>>

-----------------------------------------------------------------------------
(* Blocks of the transport queue: calls of the connection, and timers *)

\* Mutant of ConnectionOpened: nobody asks for a transaction.
ConnectionOpenedSilently ==
  /\ RunTransportBlock("opened", <<>>)
  /\ IF connection = Head(transportQueue).connection
     THEN /\ connectionConnected' = TRUE
          /\ currentPing' = NoPing
          /\ didSendPing' = FALSE
     ELSE UNCHANGED <<connectionConnected, currentPing, didSendPing>>
  /\ UNCHANGED <<managerQueue, tcpQueue, lock, requestAnother, connection,
                 lastConnection, behaviour, pingTimer, network, environment,
                 stopped, willRequest>>

\* tcpConnectionOpened:, which asks for a transaction with a ping.
ConnectionOpened ==
  /\ RunTransportBlock("opened", <<>>)
  /\ IF connection = Head(transportQueue).connection
     THEN /\ connectionConnected' = TRUE
          /\ currentPing' = NoPing
          /\ RequestTransactionFromDelegate(FALSE)
     ELSE /\ UNCHANGED <<connectionConnected, currentPing>>
          /\ NoRequest
  /\ UNCHANGED <<tcpQueue, connection, lastConnection, behaviour,
                 pingTimer, network, environment, stopped, willRequest>>

\* tcpConnectionClosed: with connectionClosed of the behaviour: the first
\* connection to fail is replaced at once, later ones after a delay.
ConnectionClosed ==
  /\ RunTransportBlock("closed", <<>>)
  /\ IF connection = Head(transportQueue).connection
     THEN /\ connectionConnected' = FALSE
          /\ didSendPing' = FALSE /\ currentPing' = NoPing
          /\ backoffCount' = backoffCount + 1
          /\ IF backoffCount' = 1
             THEN TimerEvent(0)
             ELSE /\ backoffTimer' = TRUE /\ connection' = 0
                  /\ UNCHANGED <<lastConnection, tcpQueue>>
     ELSE UNCHANGED <<connectionVars, didSendPing, currentPing, tcpQueue>>
  /\ UNCHANGED <<managerQueue, lock, requestAnother, pingTimer, network,
                 environment, stopped, willRequest>>

\* tcpConnectionReceivedData:
ReceivedData ==
  /\ RunTransportBlock("data", <<>>)
  /\ IF connection = Head(transportQueue).connection
     THEN /\ pingTimer' = (pingTimer \/ currentPing # NoPing)
          /\ managerQueue' = Append(managerQueue, Head(transportQueue))
     ELSE UNCHANGED <<pingTimer, managerQueue>>
  /\ UNCHANGED <<tcpQueue, lockVars, currentPing, connectionVars, network,
                 environment, stopped, willRequest>>

\* Mutant of ConnectionIsValid: data of any connection ends the backoff.
ConnectionIsValidAny ==
  /\ RunTransportBlock("valid", <<>>)
  /\ backoffCount' = 0 /\ backoffTimer' = FALSE
  /\ UNCHANGED <<managerQueue, tcpQueue, lockVars, pingVars, connection,
                 lastConnection, connectionConnected, network, environment,
                 stopped, willRequest>>

\* connectionIsValid: with connectionValidDataReceived of the behaviour.
ConnectionIsValid ==
  /\ RunTransportBlock("valid", <<>>)
  /\ IF connection = Head(transportQueue).connection
     THEN backoffCount' = 0 /\ backoffTimer' = FALSE
     ELSE UNCHANGED behaviour
  /\ UNCHANGED <<managerQueue, tcpQueue, lockVars, pingVars, connection,
                 lastConnection, connectionConnected, network, environment,
                 stopped, willRequest>>

\* The backoff timer of the behaviour.
BackoffTimerFires ==
  /\ backoffTimer
  /\ TimerEvent(connection)
  /\ UNCHANGED <<transportQueue, managerQueue, lockVars, pingVars, backoffCount,
                 connectionConnected, network, environment, stopped,
                 willRequest>>

\* resendActualizationPing
ResendActualizationPing ==
  /\ pingTimer
  /\ ForgetPing
  /\ IF currentPing # NoPing
     THEN RequestTransactionFromDelegate(FALSE)
     ELSE NoRequest
  /\ UNCHANGED <<transportQueue, tcpQueue, connectionVars, network, environment,
                 stopped, willRequest>>

-----------------------------------------------------------------------------
(* The manager queue *)

RunManagerBlock(op) ==
  /\ IsNext(managerQueue, op)
  /\ managerQueue' = Tail(managerQueue)

Dispatch(block) == transportQueue' = Append(transportQueue, block)

\* requestTransportTransaction
RequestTransportTransaction ==
  /\ attached /\ calls < MaxCalls
  /\ calls' = calls + 1
  /\ wanted' = TRUE
  /\ Dispatch(Call("needsTransaction"))
  /\ UNCHANGED <<managerQueue, tcpQueue, lockVars, pingVars, connectionVars,
                 network, attached, pings, faults, stopped,
                 willRequest>>

\* Mutant of TransportReadyForTransaction: no answer when nothing is sent.
TransportReadyForTransactionSilent(op) ==
  /\ RunManagerBlock(op)
  /\ wanted' = (wanted /\ ~attached)
  /\ \/ UNCHANGED <<transportQueue, pings>>
     \/ attached /\ Dispatch(Call("transactionReady")) /\ UNCHANGED pings
     \/ /\ attached /\ op = "readyForPing" /\ pings < MaxPings
        /\ pings' = pings + 1
        /\ Dispatch(Block("transactionReady", 0, pings'))
  /\ UNCHANGED <<tcpQueue, lockVars, pingVars, connectionVars, network,
                 attached, faults, calls, stopped, willRequest>>

\* transportReadyForTransaction: it answers with nothing, if the transport was
\* replaced, no transaction may be sent now or there is none to send; with a
\* payload; or with one that carries the ping.
TransportReadyForTransaction(op) ==
  /\ RunManagerBlock(op)
  /\ wanted' = (wanted /\ ~attached)
  /\ \/ Dispatch(Call("nothingReady")) /\ UNCHANGED pings
     \/ attached /\ Dispatch(Call("transactionReady")) /\ UNCHANGED pings
     \/ /\ attached /\ op = "readyForPing" /\ pings < MaxPings
        /\ pings' = pings + 1
        /\ Dispatch(Block("transactionReady", 0, pings'))
  /\ UNCHANGED <<tcpQueue, lockVars, pingVars, connectionVars, network,
                 attached, faults, calls, stopped, willRequest>>

\* The completion of a payload the connection accepted, if it held the ping.
PayloadAccepted ==
  /\ RunManagerBlock("accepted")
  /\ Dispatch(Block("pingSent", 0, Head(managerQueue).ping))
  /\ UNCHANGED <<tcpQueue, lockVars, pingVars, connectionVars, network,
                 environment, stopped, willRequest>>

\* The completion of a payload nobody accepted: its messages are to be sent
\* again, but MTProto asks for no other transaction.
PayloadNotAccepted ==
  /\ RunManagerBlock("notAccepted")
  /\ wanted' = TRUE
  /\ UNCHANGED <<transportQueue, tcpQueue, lockVars, pingVars, connectionVars,
                 network, attached, pings, faults, calls, stopped,
                 willRequest>>

\* transportHasIncomingData: on a transport that was replaced.
IgnoreData ==
  /\ RunManagerBlock("data") /\ ~attached
  /\ UNCHANGED <<transportQueue, tcpQueue, lockVars, pingVars, connectionVars,
                 network, environment, stopped, willRequest>>

\* transportHasIncomingData: the data can be decrypted, and the message is the
\* pong, or another one (a pong of an earlier session included).  A ping the
\* server refuses is reported in the same way.
DecodeData ==
  /\ RunManagerBlock("data") /\ attached
  /\ LET block == Head(managerQueue)
         valid == Block("valid", block.connection, NoPing)
     IN  \/ Dispatch(valid)
         \/ /\ block.ping # NoPing
            /\ transportQueue' =
                 transportQueue \o <<valid, Block("pingDone", 0, block.ping)>>
  /\ UNCHANGED <<tcpQueue, lockVars, pingVars, connectionVars, network,
                 environment, stopped, willRequest>>

\* transportHasIncomingData: protocol errors and data that cannot be decrypted
\* lead to requestSecureTransportReset.
RejectData ==
  /\ RunManagerBlock("data") /\ attached
  /\ faults < MaxFaults /\ faults' = faults + 1
  /\ Dispatch(Call("reset"))
  /\ UNCHANGED <<tcpQueue, lockVars, pingVars, connectionVars, network,
                 attached, wanted, pings, calls, stopped,
                 willRequest>>

\* requestSecureTransportReset, and changes of the network's availability; there
\* is nothing to reset before the first connection.
RequestReset ==
  /\ attached /\ lastConnection > 0
  /\ faults < MaxFaults /\ faults' = faults + 1
  /\ \E op \in {"reset", "networkBack"} : Dispatch(Call(op))
  /\ UNCHANGED <<managerQueue, tcpQueue, lockVars, pingVars, connectionVars,
                 network, attached, wanted, pings, calls, stopped,
                 willRequest>>

\* resetSessionInfo, which tells its services and then replaces the transport
\* (resetTransport).
ChangeSession ==
  /\ attached
  /\ attached' = FALSE
  /\ faults < MaxFaults /\ faults' = faults + 1
  /\ transportQueue' =
       transportQueue \o <<Call("didChangeSession"), Call("stop")>>
  /\ UNCHANGED <<managerQueue, tcpQueue, lockVars, pingVars, connectionVars,
                 network, wanted, pings, calls, stopped, willRequest>>

\* resetTransport: MTProto replaces this transport.  It calls stop twice, and
\* the second call finds nothing to do.
ResetTransport ==
  /\ attached
  /\ attached' = FALSE
  /\ Dispatch(Call("stop"))
  /\ UNCHANGED <<managerQueue, tcpQueue, lockVars, pingVars, connectionVars,
                 network, wanted, pings, faults, calls, stopped,
                 willRequest>>

-----------------------------------------------------------------------------
(* The TCP queue and the network *)

IsUp(c) == socket[c] \in {"connecting", "open"}

\* A callback of the delegate.  One that the transport would ignore, because
\* the connection is no longer its own, is left out.
Notify(c, op, p) ==
  transportQueue' = IF connection # c THEN transportQueue
                    ELSE Append(transportQueue, Block(op, c, p))

RunTcpBlock(op) ==
  /\ IsNext(tcpQueue, op)
  /\ tcpQueue' = Tail(tcpQueue)

\* start
TcpStart ==
  /\ RunTcpBlock("start")
  /\ socket' = [socket EXCEPT ![Head(tcpQueue).connection] = "connecting"]
  /\ UNCHANGED <<transportQueue, managerQueue, lockVars, pingVars,
                 connectionVars, unanswered, environment, stopped, willRequest>>

\* stop and closeAndNotify
TcpStop ==
  /\ RunTcpBlock("stop")
  /\ LET c == Head(tcpQueue).connection
     IN  IF IsUp(c)
         THEN /\ socket' = [socket EXCEPT ![c] = "closed"]
              /\ Notify(c, "closed", NoPing)
         ELSE UNCHANGED <<socket, transportQueue>>
  /\ UNCHANGED <<managerQueue, lockVars, pingVars, connectionVars, unanswered,
                 environment, stopped, willRequest>>

\* sendDatas: its completion runs on the manager queue.
TcpSend ==
  /\ RunTcpBlock("send")
  /\ LET block == Head(tcpQueue)
     IN  /\ managerQueue' =
              IF ~IsUp(block.connection)
              THEN Append(managerQueue, Call("notAccepted"))
              ELSE IF block.ping = NoPing THEN managerQueue
              ELSE Append(managerQueue, Block("accepted", 0, block.ping))
         /\ unanswered' =
              IF IsUp(block.connection) /\ block.ping # NoPing
              THEN unanswered \cup {<<block.connection, block.ping>>}
              ELSE unanswered
  /\ UNCHANGED <<transportQueue, lockVars, pingVars, connectionVars, socket,
                 environment, stopped, willRequest>>

\* socket:didConnectToHost:
Connects(c) ==
  /\ socket[c] = "connecting"
  /\ socket' = [socket EXCEPT ![c] = "open"]
  /\ Notify(c, "opened", NoPing)
  /\ UNCHANGED <<managerQueue, tcpQueue, lockVars, pingVars, connectionVars,
                 unanswered, environment, stopped, willRequest>>

\* socketDidDisconnect:, a connection that cannot be made, responseTimeout
Disconnects(c) ==
  /\ IsUp(c)
  /\ faults < MaxFaults /\ faults' = faults + 1
  /\ socket' = [socket EXCEPT ![c] = "closed"]
  /\ Notify(c, "closed", NoPing)
  /\ UNCHANGED <<managerQueue, tcpQueue, lockVars, pingVars, connectionVars,
                 unanswered, attached, wanted, pings, calls, stopped,
                 willRequest>>

\* The server answers the ping it received on a connection: data arrives.
ServerAnswers(c) ==
  \E p \in Pings :
    /\ socket[c] = "open" /\ <<c, p>> \in unanswered
    /\ unanswered' = unanswered \ {<<c, p>>}
    /\ Notify(c, "data", p)
    /\ UNCHANGED <<managerQueue, tcpQueue, lockVars, pingVars, connectionVars,
                   socket, environment, stopped, willRequest>>

-----------------------------------------------------------------------------
(* The specification *)

TransportStep ==
  \/ NeedsTransaction \/ NextPass \/ TransactionReady \/ PingSent \/ PingDone
  \/ DidChangeSession \/ Reset \/ Stop
  \/ ConnectionOpened \/ ConnectionClosed \/ ReceivedData \/ ConnectionIsValid

TimerStep == BackoffTimerFires \/ ResendActualizationPing

ManagerStep ==
  \/ \E op \in {"ready", "readyForPing"} : TransportReadyForTransaction(op)
  \/ PayloadAccepted \/ PayloadNotAccepted
  \/ IgnoreData \/ DecodeData \/ RejectData

EnvironmentStep ==
  \/ RequestTransportTransaction \/ RequestReset \/ ChangeSession
  \/ ResetTransport

TcpStep == TcpStart \/ TcpStop \/ TcpSend

NetworkStep ==
  \E c \in Connections : Connects(c) \/ Disconnects(c) \/ ServerAnswers(c)

Next == TransportStep \/ TimerStep \/ ManagerStep \/ EnvironmentStep
        \/ TcpStep \/ NetworkStep

\* Queues run their blocks, the backoff timer fires, and a connection is made
\* in the end: faults are bounded, so the last connection is not disturbed.
Fairness ==
  /\ WF_transportVars(TransportStep) /\ WF_transportVars(ManagerStep)
  /\ WF_transportVars(TcpStep) /\ WF_transportVars(BackoffTimerFires)
  /\ WF_transportVars(\E c \in Connections : Connects(c))

Spec == Init /\ [][Next]_transportVars /\ Fairness

-----------------------------------------------------------------------------
(* Properties *)

\* Whenever the transport has lost its connection and was not stopped, the
\* backoff timer runs (MTTcpConnectionBehaviour.m:65-87): no late result of
\* decoding data of the old connection, no change of the network and no request
\* for a connection takes the timer away without starting a connection.
ReconnectsAfterClose ==
  (connection = 0 /\ lastConnection > 0 /\ ~stopped) => backoffTimer

BlocksIn(queue) == {queue[i].op : i \in 1 .. Len(queue)}

\* The transaction lock is never held without a transactionReady block on its
\* way that releases it (MTTcpTransport.m:557-678): its one second timeout is
\* only looked at when somebody asks again, so a lock that nobody owes would
\* silence the transport.
LockIsOwed ==
  lock =>
    \/ BlocksIn(managerQueue) \cap {"ready", "readyForPing"} # {}
    \/ BlocksIn(transportQueue) \cap {"transactionReady", "nothingReady"} # {}

\* MTProto is asked for a transaction after it wants to send, unless it
\* replaces the transport (MTTcpTransport.m:173-193): a request made
\* while the lock is held, while a connection is being made or while the
\* backoff timer runs is not forgotten, and the messages of a payload that was
\* refused because the connection was gone are asked for again.
RequestIsServed == wanted ~> (~wanted \/ ~attached)

\* A transport that was replaced leaves no socket behind (MTTcpTransport.m:
\* 222-254), although its backoff timer is not stopped and callbacks of its
\* connection may still be waiting.
StopClosesSockets == stopped ~> (\A c \in Connections : ~IsUp(c))
=============================================================================
