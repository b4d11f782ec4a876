---------------------------- MODULE VoIPPipeline ----------------------------
(* The bounded pipeline libtgvoip uses three times: a BufferPool of           *)
(* BufferCount buffers, a BlockingQueue of Capacity elements, threads that    *)
(* fill a buffer and Put it, and one thread that takes the buffers out and    *)
(* gives them back.                                                           *)
(*                                                                            *)
(*   outgoing packets   VoIPController  pool 20, queue 21, RunSendThread      *)
(*   microphone         OpusEncoder     pool 10, queue 11, RunThread          *)
(*   far end of the AEC EchoCanceller   pool 10, queue 11,                    *)
(*                                      RunBufferFarendThread                 *)
(*                                                                            *)
(* All three are stopped in the same way: the flag of the loop is cleared, a  *)
(* NULL is Put behind whatever is queued, and the thread is joined.           *)
(* Put, BufferPool::Get and BufferPool::Reuse hold their mutex throughout and *)
(* block on nothing else, so each is one step. GetBlocking is two: the        *)
(* semaphore is acquired before the mutex.                                    *)
EXTENDS Naturals, Sequences, FiniteSets

CONSTANTS
    Producers,      \* threads that Put packets
    BufferCount,    \* number of buffers of the pool
    Capacity,       \* capacity of the queue
    MaxPackets      \* bound: packets that are produced

ASSUME PipelineAssumption ==
    /\ BufferCount \in 1 .. 64
    /\ Capacity \in Nat
    /\ BufferCount < Capacity
    /\ MaxPackets \in Nat

Buffers == 1 .. BufferCount
NoBuffer == 0               \* the null pointer
NoPacket == 0

VARIABLES
    usedBuffers,    \* buffers of the pool that are handed out
    content,        \* packet last written into each buffer
    queue,          \* queued elements, oldest first: the buffer and its packet
    permits,        \* value of the queue's semaphore
    made,           \* packets produced so far
    holding,        \* element each producer is about to Put
    running,        \* the flag of the consumer's loop
    consumer,       \* where the consumer thread stands
    taken,          \* the element the consumer works on
    processed,      \* packets the consumer has handled, in order
    stopping,       \* where the thread that stops the pipeline stands
    aborted         \* abort() was called or front() was used on an empty list

vars == <<usedBuffers, content, queue, permits, made, holding, running,
          consumer, taken, processed, stopping, aborted>>

Element(b, p) == [buffer |-> b, packet |-> p]
Nothing == Element(NoBuffer, NoPacket)
Elements == {Nothing} \cup [buffer : Buffers, packet : 1 .. MaxPackets]

TypeOK ==
    /\ usedBuffers \subseteq Buffers
    /\ content \in [Buffers -> 0 .. MaxPackets]
    /\ queue \in Seq(Elements)
    /\ permits \in Nat
    /\ made \in 0 .. MaxPackets
    /\ holding \in [Producers -> Elements]
    /\ running \in BOOLEAN
    /\ consumer \in {"test", "acquire", "lock", "process", "reuse", "exited"}
    /\ taken \in Elements
    /\ processed \in Seq(1 .. MaxPackets)
    /\ stopping \in {"no", "put", "join", "joined"}
    /\ aborted \in BOOLEAN

Init ==
    /\ usedBuffers = {}
    /\ content = [b \in Buffers |-> NoPacket]
    /\ queue = <<>>
    /\ permits = 0
    /\ made = 0
    /\ holding = [p \in Producers |-> Nothing]
    /\ running = TRUE
    /\ consumer = "test"
    /\ taken = Nothing
    /\ processed = <<>>
    /\ stopping = "no"
    /\ aborted = FALSE

-----------------------------------------------------------------------------
(* BufferPool and BlockingQueue *)

FirstFree == CHOOSE b \in Buffers \ usedBuffers :
                 \A c \in Buffers \ usedBuffers : b <= c

\* Mutant: the comparison is off by one.
PutOffByOne(e) ==
    /\ queue' = Append(queue, e)
    /\ IF Len(queue) + 1 < Capacity
       THEN permits' = permits + 1 /\ UNCHANGED aborted
       ELSE aborted' = TRUE /\ UNCHANGED permits

\* Mutant: the semaphore is released only when the queue was empty.
PutWakesOnce(e) ==
    /\ queue' = Append(queue, e)
    /\ permits' = IF queue = <<>> THEN permits + 1 ELSE permits
    /\ UNCHANGED aborted

Put(e) ==
    /\ queue' = Append(queue, e)
    /\ IF Len(queue) < Capacity
       THEN permits' = permits + 1 /\ UNCHANGED aborted
       ELSE aborted' = TRUE /\ UNCHANGED permits

Reuse(b) == usedBuffers' = usedBuffers \ {b}

-----------------------------------------------------------------------------
(* Producers: HandleAudioInput, SendInit, the receive and tick threads,       *)
(* OpusEncoder::Callback, EchoCanceller::SpeakerOutCallback                   *)

\* Mutant: a full pool makes the producer write into the buffer of another
\* packet.
ProduceIntoUsed(p) ==
    /\ holding[p] = Nothing
    /\ made < MaxPackets
    /\ stopping # "joined"
    /\ made' = made + 1
    /\ LET b == IF usedBuffers = Buffers THEN 1 ELSE FirstFree IN
       /\ usedBuffers' = usedBuffers \cup {b}
       /\ content' = [content EXCEPT ![b] = made + 1]
       /\ holding' = [holding EXCEPT ![p] = Element(b, made + 1)]
    /\ UNCHANGED <<queue, permits, running, consumer, taken, processed,
                   stopping, aborted>>

\* A buffer is taken and filled; without one the packet is dropped.
Produce(p) ==
    /\ holding[p] = Nothing
    /\ made < MaxPackets
    /\ stopping # "joined"
    /\ made' = made + 1
    /\ \/ /\ usedBuffers # Buffers
          /\ usedBuffers' = usedBuffers \cup {FirstFree}
          /\ content' = [content EXCEPT ![FirstFree] = made + 1]
          /\ holding' = [holding EXCEPT ![p] = Element(FirstFree, made + 1)]
       \/ /\ usedBuffers = Buffers
          /\ UNCHANGED <<usedBuffers, content, holding>>
    /\ UNCHANGED <<queue, permits, running, consumer, taken, processed,
                   stopping, aborted>>

ProducerPut(p) ==
    /\ holding[p] # Nothing
    /\ Put(holding[p])
    /\ holding' = [holding EXCEPT ![p] = Nothing]
    /\ UNCHANGED <<usedBuffers, content, made, running, consumer, taken,
                   processed, stopping>>

-----------------------------------------------------------------------------
(* The consumer's loop *)

TestRunning ==
    /\ consumer = "test"
    /\ consumer' = IF running THEN "acquire" ELSE "exited"
    /\ UNCHANGED <<usedBuffers, content, queue, permits, made, holding,
                   running, taken, processed, stopping, aborted>>

\* Mutant: the semaphore is not waited for.
AcquireWithoutWaiting ==
    /\ consumer = "acquire"
    /\ permits' = permits - 1
    /\ consumer' = "lock"
    /\ UNCHANGED <<usedBuffers, content, queue, made, holding, running, taken,
                   processed, stopping, aborted>>

\* GetBlocking: semaphore.Acquire().
Acquire ==
    /\ consumer = "acquire"
    /\ permits > 0
    /\ permits' = permits - 1
    /\ consumer' = "lock"
    /\ UNCHANGED <<usedBuffers, content, queue, made, holding, running, taken,
                   processed, stopping, aborted>>

\* GetBlocking: GetInternal under the mutex.
GetInternal ==
    /\ consumer = "lock"
    /\ IF queue # <<>>
       THEN taken' = Head(queue) /\ queue' = Tail(queue) /\ UNCHANGED aborted
       ELSE aborted' = TRUE /\ UNCHANGED <<taken, queue>>
    /\ consumer' = "process"
    /\ UNCHANGED <<usedBuffers, content, permits, made, holding, running,
                   processed, stopping>>

\* The packet is sent, encoded or buffered; a NULL is skipped.
Process ==
    /\ consumer = "process"
    /\ IF taken = Nothing
       THEN consumer' = "test" /\ UNCHANGED processed
       ELSE /\ processed' = Append(processed, content[taken.buffer])
            /\ consumer' = "reuse"
    /\ UNCHANGED <<usedBuffers, content, queue, permits, made, holding,
                   running, taken, stopping, aborted>>

\* Mutant: a packet handled after Stop keeps its buffer.
ReuseWhileRunning ==
    /\ consumer = "reuse"
    /\ usedBuffers' = IF running THEN usedBuffers \ {taken.buffer} ELSE usedBuffers
    /\ taken' = Nothing
    /\ consumer' = "test"
    /\ UNCHANGED <<content, queue, permits, made, holding, running, processed,
                   stopping, aborted>>

ReuseTaken ==
    /\ consumer = "reuse"
    /\ Reuse(taken.buffer)
    /\ taken' = Nothing
    /\ consumer' = "test"
    /\ UNCHANGED <<content, queue, permits, made, holding, running, processed,
                   stopping, aborted>>

-----------------------------------------------------------------------------
(* Stopping: ~VoIPController, OpusEncoder::Stop, ~EchoCanceller *)

StopRunning ==
    /\ stopping = "no"
    /\ running' = FALSE
    /\ stopping' = "put"
    /\ UNCHANGED <<usedBuffers, content, queue, permits, made, holding,
                   consumer, taken, processed, aborted>>

\* Mutant: the thread is joined without a last element to wake it.
PutNullForgotten ==
    /\ stopping = "put"
    /\ stopping' = "join"
    /\ UNCHANGED <<usedBuffers, content, queue, permits, made, holding,
                   running, consumer, taken, processed, aborted>>

PutNull ==
    /\ stopping = "put"
    /\ Put(Nothing)
    /\ stopping' = "join"
    /\ UNCHANGED <<usedBuffers, content, made, holding, running, consumer,
                   taken, processed>>

Join ==
    /\ stopping = "join"
    /\ consumer = "exited"
    /\ stopping' = "joined"
    /\ UNCHANGED <<usedBuffers, content, queue, permits, made, holding,
                   running, consumer, taken, processed, aborted>>

-----------------------------------------------------------------------------
Consume == TestRunning \/ Acquire \/ GetInternal \/ Process \/ ReuseTaken

Next ==
    \/ \E p \in Producers : Produce(p) \/ ProducerPut(p)
    \/ Consume
    \/ StopRunning \/ PutNull \/ Join

(* A producer inside Put leaves it, the consumer's thread is scheduled, and   *)
(* Stop is a straight line of code. Nobody has to call Stop.                  *)
Fairness ==
    /\ \A p \in Producers : WF_vars(ProducerPut(p))
    /\ WF_vars(Consume)
    /\ WF_vars(PutNull)
    /\ WF_vars(Join)

Spec == Init /\ [][Next]_vars /\ Fairness

-----------------------------------------------------------------------------
(* Properties *)

(* The queue never exceeds its capacity, for which Put would abort(), and     *)
(* GetInternal never meets an empty list, although the NULL of Stop is Put    *)
(* behind a pool that may be used up: the queue is one larger than the pool.  *)
NeverAborts == ~aborted

(* A packet that waits in the queue, or is being handled, still stands in its *)
(* buffer: the pool gives no buffer to a second packet before Reuse.          *)
PacketsIntact ==
    /\ \A i \in 1 .. Len(queue) :
           queue[i] # Nothing => content[queue[i].buffer] = queue[i].packet
    /\ taken # Nothing => content[taken.buffer] = taken.packet

(* Buffers are not leaked: a buffer marked as used is in the hands of a       *)
(* producer, in the queue, or in the hands of the consumer.                   *)
NoBufferLeak ==
    usedBuffers = ( {holding[p].buffer : p \in Producers}
                    \cup {queue[i].buffer : i \in 1 .. Len(queue)}
                    \cup {taken.buffer} ) \ {NoBuffer}

(* Stop returns: the join of the destructor does not wait forever, whatever   *)
(* is queued when the flag is cleared and wherever the consumer stands.       *)
StopReturns == (stopping # "no") ~> (stopping = "joined")

(* A queued packet is handled unless the pipeline is stopped.                 *)
QueuedIsProcessed ==
    \A n \in 1 .. MaxPackets :
        (\E i \in 1 .. Len(queue) : queue[i].packet = n)
            ~> (~running \/ \E i \in 1 .. Len(processed) : processed[i] = n)
=============================================================================
