# TLA+ models of MTProtoKit and libtgvoip

This directory specifies two subsystems of the iOS client in TLA+: its
networking core, MTProtoKit (`src/submodules/MtProtoKit/MTProtoKit`), and its
calls, libtgvoip (`src/submodules/libtgvoip`). TLC checks the models on small
instances, and TLAPS proves every safety property the runs check, and the
refinement of the request queue, for every instance.

`PROJECT.json` lists components, runs, mutants, the map from definitions to
source lines, the findings, the hazards and the theorems.

## The system

| Component | State | Operations | Talks to |
|---|---|---|---|
| `MTRequestMessageService` | `_requests` (each with a request and an error context), `_dropReponseContexts`, a retry timer | add and cancel requests; build a transaction and its `prepared`, `failed` and `completion` blocks; answers, acknowledgements, failures, session and token changes; timer | `MTProto` (asks for transactions, is called back), `MTContext` (password, api hash), clients |
| `MTProto` | services, session, transport, auth info, `_mtState` bits, time fix | build transactions from all services; receive packets; reset session or transport; pause, resume, stop | every other component |
| `MTSessionInfo` | session id, last message id, seqNo, processed ids, scheduled confirmations, containers | generate ids; schedule, mark and remove confirmations | `MTProto` |
| `MTResendMessageService` | message wanted, id and connection of the `msg_resend_req` | one per missing message; ends when it arrives or cannot be had | `MTProto` |
| `MTTcpTransport` | connection, transaction lock, ping, watchdogs | ask MTProto for a transaction and write it; reset, stop | `MTProto`, `MTTcpConnection` |
| `MTTcpConnection` | socket, closed flag, timeouts | open, write, read, close | `MTTcpTransport` |
| `MTTcpConnectionBehaviour` | backoff count and timer | decide when to reconnect | `MTTcpTransport` |
| `MTTimeSyncMessageService`, time fix | ping or future_salts in flight | fix clock difference and salts | `MTProto`, `MTContext` |
| `MTContext` | keys, salts, tokens, schemes, password flags, listeners | asynchronous discovery, authorization, transfer | all MTProto instances |
| `MTDatacenterAuthMessageService` | stage of the key exchange | DH handshake | `MTProto`, `MTContext` |
| HTTP transport | workers | same interface as TCP | `MTProto` |
| `MTSignal`, buffers, parser, crypto | none or local | libraries | all |
| Application (`Telegraph`), database, extensions | their own | clients of the network, storage, UI | `MTRequestMessageService` |
| libtgvoip `VoIPController` | call state, endpoints, current endpoint and preferred relay; sequence numbers, receive window, acknowledgements, reliable packets | connect; receive, send and tick threads; network changes | its queues, `CongestionControl`, `JitterBuffer`, sockets |
| libtgvoip `BufferPool`, `BlockingQueue` | used buffers, queue, semaphore | get, reuse, put, get blocking | send thread, encoder, echo canceller |
| libtgvoip `CongestionControl` | packets in flight, history of sizes, losses | sent, acknowledged, tick, bandwidth action | `VoIPController` |
| libtgvoip `JitterBuffer`, `OpusDecoder` | slots with timestamps, next timestamp, delay, losses | input, output, reset, tick | receive, decoder and tick threads |
| libtgvoip sockets, codecs, audio devices | their own | I/O and signal processing | `VoIPController` |

In MTProtoKit three serial queues run concurrently: the manager queue (MTProto,
its services, `MTSessionInfo`), the TCP transport queue and the TCP connection
queue. A method
runs to its end on its queue (`dispatchOnQueue` is synchronous when it is already
there), so within a queue methods are atomic; between queues everything
interleaves. What makes the code hard:

* **Blocks that outlive their reason.** A transaction is collected and given
  message ids in one pass over the manager queue; the blocks that record which
  connection took it run later, once per payload, after any number of answers,
  cancellations, failures and session changes.
* **Routing by id.** An answer finds its request through the message id of the
  request's current context, and nothing else.
* **Lost and repeated messages.** Connections close between write and arrival;
  the server repeats what was not acknowledged, announces answers without
  sending them (`msg_detailed_info`), or forgets its session.
* **Session changes in the middle of a packet**, and packets of old sessions and
  old transports.
* **Wake-ups.** Nothing polls: whoever makes something sendable has to ask for a
  transaction, and the transport turns requests away while one is being built,
  while it connects and while its backoff timer runs.

A call has a receive, a send, a tick and a decoder thread, the threads of the
audio devices and the application's. They share fields with a mutex (pools, queues,
the jitter buffer, the list of endpoints), with one that some callers leave out
(`JitterBuffer::Reset`) and with none at all (`seq`, `recvPacketTimes`,
`currentEndpoint`, `state`); the network loses, repeats and reorders packets.

What makes a component correct: every answer reaches the request that asked, once,
or the request is cancelled or sent again; nothing waits for an event that will
not come; what was processed is acknowledged in the end and nothing else is; no
message of one session is taken for one of another; a request for a missing
message is not forgotten; a transport that lost its connection gets another, and
one that was replaced leaves none. In a call: buffers are neither leaked nor
overwritten, threads can be joined, a packet is handled once, what counts as
acknowledged was received, frames are decoded in order, and a call whose peer is
gone ends.

## Modules

| Module | Contents |
|---|---|
| `MTRequestMessageService` | the request queue against an arbitrary MTProto, transport and server |
| `RpcContract` | what the queue promises its clients, with no sessions or transactions |
| `MTProtoIncoming` | sessions, processed ids, confirmations, resend services, packets, connections and transports |
| `MTTcpTransport` | the transport's queues, transaction lock, ping, backoff and sockets |
| `VoIPPipeline` | pool, queue and thread, as the send thread, the encoder and the echo canceller use them |
| `VoIPAckWindow` | packet numbers, receive window, acknowledgements and reliable packets of two peers |
| `CongestionControl` | packets in flight and the bandwidth action |
| `JitterBuffer` | the jitter buffer between receive, decoder and tick threads |
| `VoIPController` | state of a call and choice of its endpoint |
| `MTRequestMessageServiceProofs`, `MTProtoIncomingProofs`, `MTTcpTransportProofs`, `VoIPPipelineProofs`, `VoIPAckWindowProofs`, `CongestionControlProofs`, `JitterBufferProofs`, `VoIPControllerProofs` | the theorems about each module |
| `MCRequestMessageService`, `MCIncoming`, `MCTransport`, `MCPipeline`, `MCAckWindow`, `MCCongestion`, `MCJitter`, `MCCall` | the instances TLC checks |

The modules are not composed with each other. `MTRequestMessageService` and
`MTProtoIncoming` let the transport do whatever `MTTcpTransport` could do and
more; the modules of a call meet only through the packets that are sent.

### MTRequestMessageService

One action per method or block. `_requests` is `position` (0: not in the array),
`MTRequestContext` is a record, nil being the record without message id;
`errorContext.minimalExecuteTime` is abstracted to *nil*, *due* and *ahead*, and
time passes with `DeadlinePasses`. `MessageTransaction` is
`mtProtoMessageTransaction:` and the `prepared` block MTProto calls in the same
pass: it takes every sendable request and every drop context, gives ids to those
that have none, and resolves `invokeAfterMsg`. The blocks it created wait in
`transactions`; `CompletePayload` runs them for one payload, accepted on some
connection or not. MTProto runs the blocks of every service for every payload
(`MTProto.m:1084-1107`), so a payload may hold none of the service's messages and
still ends the waiting of its requests. `receivedMessage:` is one action per outcome, each ending
with `UpdateRequestsTimer` as the method does. The environment is as free as the
code allows: answers may be late, repeated or unwanted, a completion may name a
dead connection, and acknowledgements and failures come in any order. An answer
is only possible for a message that was written. `messages`, `completed` and
`cancelled` are history variables. The response id of `msg_detailed_info` is
abstracted to the id of the message it answers; `hasHighPriority`, quick acks,
download progress and wrapping in `invokeWithoutUpdates` change nothing the
properties see. Ids are fresh and increasing: that is what `MTSessionInfo`
generates as long as it reports no violation of monotonicity (when it does,
MTProto resets the session, here `MtProtoDidChangeSession`).

### MTProtoIncoming

The handling of a packet is one block on the manager queue; it is split into
taking the packet and one step per message (`inbox`), between which no other
manager-queue step runs (`Idle`), while the transport and TCP queues go on.
`confirmations` maps a scheduled message to the connections its `msgs_ack` was
written to; any data on such a connection removes it. `resend` maps a message to
its resend service. A transaction handed to a transport is an item of
`outgoing`: it is written (or not, if the connection is gone), and its completion
block runs later, possibly after the session was replaced. `ResetSessionInfo`
and `ResetTransport` replace session and transport at once; the connection of a
replaced transport closes later and nobody hears of it. `failures` holds closed
connections MTProto has yet to be told about.

The server is external: it sends messages alone or in containers, repeats
content-related ones until they are acknowledged, answers `msg_resend_req`, and
sends (`BadPackets`) packets that cannot be decrypted, cannot be parsed or belong
to an earlier session. A message of a session is identified with its id, so a
repetition is the same element of `Messages`. What a `msg_detailed_info` announces
is an answer (`ResponsesAreAnswers`): the code calls its field `responseMessageId`,
and only messages handed to the services end the resend service that waits for
them (`MTProto.m:2169-2177`), so a server that announced a notice would be asked for
it for ever.

### MTTcpTransport

A queue is a sequence of blocks, a block the method it will run with what it
captured; an action runs the first block of one queue to its end, appending to
the others. So the order of blocks is the code's, and only timers, the network
and MTProto's own decisions are free. `RequestTransactionFromDelegate` is
`_requestTransactionFromDelegate` with its lock; its second disjunct is taken
without lock, for a new connection's ping, or when the lock is over a second
old. `TransportReadyForTransaction` is MTProto's answer, reduced to whether there
is a payload and whether it carries the ping. `wanted` is a history variable: set
when MTProto asks, and when a payload is refused; cleared when MTProto is asked.
A session change replaces the transport as `resetSessionInfo` does.

### The modules of a call

`VoIPPipeline` is the pattern used by `RunSendThread`, `OpusEncoder` and
`EchoCanceller`: `Put`, `Get` and `Reuse` are atomic under their mutexes, and
`GetBlocking` is two steps. `VoIPAckWindow` runs the same code on both sides; the
network is the set of packets ever sent, so loss, repetition and reordering need
no action. `SendQueuedRacing` and `ReceiveWhileSending` are the outcomes of the
two data races (an unlocked `seq++`, a header written while the window moves).
`CongestionControl` keeps slots and integer time. `JitterBuffer` splits
`GetInternal` into its search and what follows, since `Reset` of the receive
thread may run in between; uninitialised fields start with any value of
`Garbage`; `decoded`, `fresh`, `evictions` and `missed` are history variables. In `VoIPController` an endpoint is an object with an identity,
so that a deleted one can be told from its replacement; the model ends where the
code would follow a pointer to a deleted endpoint (`Intact`), which
`SetNetworkType` makes possible (`VoIPController.cpp:1842`). An INIT_ACK may arrive
while the state is still WAIT_INIT, since `SendInit` queues the packet before it sets
the state.

The mutated operators (each with a comment `Mutant of ...` or `Mutant: ...`) are plausible bugs
in the definition that follows them; they are used by nothing else.

## Runs

| Run | Instance | What it shows |
|---|---|---|
| `request_service` | 2 requests, the second depending on the first, the first on the password; 2 message ids, 2 transactions, 2 connections, auth token required; 435,227 states | `ContextsAreOwn`, `WaitingIsOwed`, `DropsOnlyCancelled`, `CompletedOnce`, `NoLostWakeUp`, `DependenciesNamed`; the queue implements `RpcContract` |
| `sessions` | an answer, three notices about it and a bad seqNo; 3 sessions, 3 transports, 2 connections, containers; 1,386,049 states | `NotForgotten`, `ConfirmedWereHandled`, `HandledInOwnSession`, `ResendsAreMissing`, `NoForgottenResend` |
| `confirmed` | two messages to acknowledge, 2 connections, high-priority traffic, fair; 65,979 states | `EventuallyConfirmed` |
| `transport` | 2 faults (3 connections), 2 requests, 1 ping, fair; 1,018,576 states | `ReconnectsAfterClose`, `LockIsOwed`, `RequestIsServed`, `StopClosesSockets` |
| `pipeline` | 3 producers, 2 buffers, a queue of 3, 5 packets, fair; 30,741 states | `NeverAborts`, `PacketsIntact`, `NoBufferLeak`, `StopReturns`, `QueuedIsProcessed` |
| `ack_window` | 2 peers, 1 reliable packet, window 3, 1 race; 872,833 states | `WindowExact`, `ProcessedOnce`, `AckedOrNextReceived` |
| `ack_lost` | the same with fewer packets | violates `AckedWasReceived` (finding) |
| `congestion` | 2 slots, 2 sizes, 4 packets, time 6; 1,155,539 states | `InflightExact`, `EachPacketAccounted` |
| `jitter` | 3 slots of which 2 may be used, 3 frames, 2 ticks, 1 reset, fair; 361,320 states | `PoolExact`, `DecodedInOrder`, `LossesWereMissed`, `BufferedIsFetched` |
| `late_packet` | 5 frames, no ticks and no resets | violates `RecoveredIsLate` (finding) |
| `jitter_reset` | as `jitter` | violates `ReuseIsValid` (finding) |
| `call` | 1 relay, 1 address of each kind of the peer, 5 packets, 1 call of the application, fair; 1,143,405 states | `EstablishedAfterInitAck`, `RelayToFallBackOn`, `SilentCallFails` |

**Bounds.** Two requests are enough for a dependency, for two requests in one
transaction, and for one being cancelled while the other is answered. Two ids
and two transactions let a request lose its context, be sent again, and receive
the completion of the first attempt late; what more ids could add is covered by
the theorems, which hold for any number. The run starts with the hash of an earlier
`initConnection` missing; the theorems hold for either. Three sessions are the least
for which a packet of an earlier session can arrive and cause another reset; two
connections are enough for a late completion or failure notice of the first to meet the
second. `MaxQueue` is 1: packets on the manager queue only delay each other, and
the transport may be replaced while one waits. A
transaction is made only while the transports have fewer than `MaxOutgoing`
messages, here none: the code's transaction lock allows one at a time on each
transport. A message of a replaced transport that is still on its way when the next
one makes a transaction is left to the theorems, which hold for any `MaxOutgoing`. The last connection stays open, or the bounded model
would end with nobody connected.

Two faults give the transport three connections: the first failure is followed by
an immediate attempt, the second by the timer. Two buffers and three producers
exhaust the pool with a producer left over, and the null element then meets a
full queue. A window of 3 with more packets lets one be lost, be repeated
inside and outside the window, and arrive a whole window ahead; `SeqMod` 16 keeps
all numbers of an instance within half the range, as 2^32 does in a call, so
wrap-around itself is not reached. Two slots overflow with three packets.
Three frames are enough for one to be missing, recovered or evicted between the
others; two evictions in one pass of the decoder take five, which is what
`late_packet` has. `DecodedInOrder` names the frame recovered then as an exception,
which `jitter` does not reach; for any number of frames it is proved. Five packets bring a call from INIT to a peer endpoint in use, with one
left for a race.

**Fairness.** In `confirmed`, blocks dispatched on a serial queue run, also
when the queue is busy whenever one looks, hence strong fairness for manager-queue
steps. A transport without a connection opens another one
(`MTTcpConnectionBehaviour`). What is written to a connection that stays open
arrives. Two assumptions are about the environment: the server repeats what was
not acknowledged, and the client goes on making requests that are not all of high
priority. The second is needed: a lone small message schedules a confirmation
without asking for a transaction (`MTProto.m:2000-2006`), so in a silent client
the confirmation waits for other traffic, and if all traffic has high priority,
it waits until the limits are exceeded (`MTProto.m:805`).

In `transport` each queue runs its blocks, the backoff timer fires, and a
connection attempt succeeds unless it fails, which happens a bounded number of
times; the one second timeout of the lock and the ping timer are not assumed to
help. In `pipeline` threads run and nobody has to stop; in `jitter` the audio device
keeps asking the decoder, and a reset that began ends; in `call` the tick runs and
time passes, while the peer and the application may fall silent.

**Behaviours the models confirm** that a reader may not expect:

* the rest of a container is handled in the new session when a
  `bad_msg_notification` in it resets the session; `HandledInOwnSession` says
  this is the only way to handle a message outside its own session;
* data on a connection removes the confirmations written to it although the
  `msgs_ack` may still be lost; `EventuallyConfirmed` holds because the server
  repeats the message and `_processIncomingMessage` confirms duplicates again;
* `requestAnotherTransactionWhenReady` is not needed for requests MTProto makes
  itself: MTProto asks on the manager queue after the change, so a transaction it
  is building at that time has not been collected yet or was collected before,
  and every path of `transportReadyForTransaction` releases the lock;
* a packet that arrives a whole window ahead clears the window without marking
  itself (`VoIPController.cpp:934-942`), so its repetition is accepted once more:
  `ProcessedOnce` and `WindowExact` name this exception;
* one eviction between `HandleOutput(0)` and `HandleOutput(-2)` of one pass of the
  decoder cannot bring a newer frame before an older one, two can (`late_packet`);
  the proof of `DecodedInOrder` brought this to light. Every frame that is decoded
  is recorded in `decoded`, with the evictions before it and whether a resync came
  between its fetch and its turn; `InTurn` names the two exceptions;
* a failed call may be established again by a pending `setEstablishedAt` or by
  stream data; `SilentCallFails` says it still ends.

**Findings.**

* `ack_lost`: `WritePacketHeader` puts the receipt of `ackId-i` into bit `31-i`,
  and `RunRecvThread` reads that bit as the receipt of `ackId-(i+1)`
  (`VoIPController.cpp:976-983`). A lost reliable packet whose successor arrived is
  removed as acknowledged and not repeated. `AckedOrNextReceived` shows that the
  error is never more than one place.
* `late_packet`: each eviction moves the play position, so after two of them between
  the two calls of one pass of `RunThread` the packet two steps back, "Decoding late
  packet" in the log, is newer than the one in `nextBuffer`, which is decoded after
  it (`OpusDecoder.cpp:183-197`).
* `jitter_reset`: `JitterBuffer::Reset` takes no mutex when the peer changes the
  state of its stream; in the middle of `GetInternal` it leaves a null pointer for
  `BufferPool::Reuse`, which aborts.

## Proofs

Each theorem holds for all values of the constants its module's named assumption
allows: any number of requests, messages, sessions, connections, transports,
producers, buffers, slots, frames, packets, and any value of the bounds, so the
bounds of TLC's instances are not part of the results. The assumptions say what
kind of thing a constant is, with these exceptions, which the code or its
environment justifies:

* `VoIPPipeline`: `BufferCount < Capacity` (every user makes its queue one larger
  than its pool) and at most 64 buffers (the pool's bit mask);
* `VoIPAckWindow`: fewer packets than half of the number space, and the peer's peer
  is oneself;
* `VoIPController`: the server names at least one relay;
* `MTProtoIncoming`: `ResponsesAreAnswers`, used by `OnlyMissingAreAskedFor` only.

| Theorem | States | Inductive invariant |
|---|---|---|
| `TypeCorrect`, `AnswersReachTheirRequest`, `NobodyWaitsInVain`, `DropsAreSafe`, `CompletionIsUnique`, `WakeUpsAreKept` | `TypeOK`, `ContextsAreOwn`, `WaitingIsOwed`, `DropsOnlyCancelled`, `CompletedOnce`, `NoLostWakeUp` | `IndInv` (`IndInvHolds`) |
| `PrefixesAreNamed` | `DependenciesNamed` (action property) | `IndInv`, `NumbersAreUsed` |
| `ContractIsImplemented` | `ImplementsContract` (refinement of `RpcContract`) | `IndInv` |
| `IncomingIsTyped` | `TypeOK` | `Typed` |
| `NoneIsForgotten`, `OnlyHandledAreConfirmed` | `NotForgotten`, `ConfirmedWereHandled` | `AckInv` |
| `OnlyMissingAreAskedFor` | `ResendsAreMissing` | `ResendInv` |
| `NoResendIsForgotten` | `NoForgottenResend` | `DeliveryInv` |
| `HandledWhereSent` | `HandledInOwnSession` | `SessionInv` |
| `AlwaysReconnects`, `LockIsAlwaysOwed` | `ReconnectsAfterClose`, `LockIsOwed` | `TransportInv` |
| `PipelineTyped`, `PipelineNeverAborts`, `PipelineKeepsPackets`, `PipelineLeaksNothing` | `TypeOK`, `NeverAborts`, `PacketsIntact`, `NoBufferLeak` | `PipelineInv` |
| `WindowIsTyped`, `WindowIsExact`, `NoneIsProcessedTwice`, `RemovedWereNearlyReceived` | `TypeOK`, `WindowExact`, `ProcessedOnce`, `AckedOrNextReceived` | `WindowInv` |
| `PacketsAreAccounted`, `InflightIsExact` | `EachPacketAccounted`, `InflightExact` | `AccountInv`, `SizeExact` |
| `PoolIsExact` | `PoolExact` | `PoolInv` |
| `FramesAreInOrder` | `DecodedInOrder` | `OrderInv` |
| `OnlyMissedAreReported` | `LossesWereMissed` | `LossInv` |
| `NeverEstablishedUnanswered`, `AlwaysARelay` | `EstablishedAfterInitAck`, `RelayToFallBackOn` | `CallInv` (`CallInvHolds`) |

Why the invariants are needed:

* **Request queue.** A completion block installs a context from ids captured long
  before, so `IndInv` has to speak of what transactions hold (`TransactionsAreOwn`);
  drop messages must be told from request messages (`DropIdsAreDrops`); the ids of
  one transaction are distinct only because the requests in the queue are at
  different places (`PositionsDiffer`); and contexts exist only for requests in the
  queue (`ContextsAreQueued`). There is one lemma per method; callbacks that only
  clear or narrow contexts share `NarrowingStep`, the outcomes of an answer share
  `AnswerStep`. `CompletePayloadIndInv` and `MessageTransactionIndInv` carry the
  weight. For the refinement, every method is a step of `RpcContract` or a stutter:
  that an answer finds a message sent for its request is `ContextsAreOwn`.
* **Incoming messages.** Dropping confirmations by connection is safe because only
  a `msgs_ack` that was written marks them (`MarkedWereWritten`), also through a
  completion that comes late (`AcksAreVouchedFor`); confirming duplicates is safe
  because what is processed was handled. `NoForgottenResend` is too weak to be
  inductive: a message that failed, or that an old transport still has, will not
  reach the server, so `DeliveryInv` only counts messages that were written or
  that the transport in use has. The messages left of a packet all belong to one
  session, this one or one that a message of their container ended (`InboxInv`); in
  a container with several notices the session may end several times.
* **Transport.** A callback that names no connection would be taken for one of the
  connection the transport does not have, and would stop the backoff timer; so
  the blocks on the way have to name one, through the detour of incoming data over
  the manager queue.
* **Pipeline.** That `Put` never aborts is a matter of counting: every element of
  the queue but the null holds a buffer of its own (`OneOwner`, `QueueDistinct`),
  there is one null at most, and the semaphore counts the queue (`PermitsCount`).
* **Acknowledgements.** `WindowOf` relates a window to how often each number was
  processed; `Claims` and `AcksOf` carry that through a header and into the other
  side's mask, where it is one place off. Below half of the number space the code's
  comparison with wrap-around is that of integers (`NoWrap`).
* **Congestion control.** Numbers rise, so packets in flight have different ones and
  none was acknowledged (`Numbered`).
* **Jitter buffer.** `OrderInv` places the next fetch, the frame fetched ahead and
  the last frame decoded in its turn relative to each other, depending on the
  evictions since the fetch; after two of them nothing can be said of a recovered
  frame, and `InTurn` leaves it out.
* **Call.** The tick thread establishes the call when `setEstablishedAt` has come,
  whatever the state is by then, so that timer has to come from an INIT_ACK; and
  `SetNetworkType` returns to the first relay, so no deletion may touch that one.

Sums (`inflightDataSize`) and the length of a queue without repetitions are
induction over data. The library's induction theorems cannot be used (they take an
operator as parameter), but its minimum of a well-founded relation can: the lemmas
take the least counterexample (`LeastExists`) and refute it.

Only model-checked: liveness (`EventuallyConfirmed`, `RequestIsServed`,
`StopClosesSockets`, `StopReturns`, `QueuedIsProcessed`, `BufferedIsFetched`,
`SilentCallFails`), since fairness and ENABLED are out of the prover's reach, and of
course the three violations.

## Not modelled, and the plan

Not modelled: byte formats, encryption and the key exchange (data and
cryptography), the HTTP transport, the application, the database and the
extensions; of calls, bitrates and statistics (floating point), codecs, echo
cancellation, sockets, proxies and audio devices. The clock arithmetic of
`MTSessionInfo`, MTProto's `_mtState` bits and `MTContext` are still open. See
`PROJECT.json` for each; hazards without a property are listed there with a note.

In order:

1. `MTSessionIds`: `generateClientMessageId:`, `takeSeqNo:` and the container map of
   `MTSessionInfo`, with a clock that repeats and steps back; ids increase or the
   session is reset.
2. `MTProtoState`: the `_mtState` bits with pause, resume, stop, scheme,
   authorization, token and time-fix waits, against `MTContext`; an instance that
   is not stopped or paused gets a transport in the end.
3. Proofs: acknowledgements across the wrap-around of sequence numbers; the
   theorems of the two new modules.
