-------------------------- MODULE VoIPPipelineProofs -------------------------
(* Proofs about the bounded pipeline, for any number of producers, packets    *)
(* and buffers.                                                               *)
(*                                                                            *)
(* That Put never aborts is a matter of counting: every element of the queue  *)
(* but the NULL holds a buffer of its own, so a queue of a full pool has room *)
(* for one more. The inductive invariant therefore says who owns a buffer     *)
(* (nobody twice), that the semaphore counts the queue, and that there is at  *)
(* most one NULL.                                                             *)
EXTENDS VoIPPipeline, FiniteSetTheorems, WellFoundedInduction, TLAPS

BuffersIn(q) == {q[i].buffer : i \in 1 .. Len(q)}

\* No two elements of the queue have the same buffer, and the NULL is there
\* at most once.
QueueDistinct ==
    \A i, j \in 1 .. Len(queue) : queue[i].buffer = queue[j].buffer => i = j

\* Nobody owns a buffer that another one has, in his hands or in the queue.
OneOwner ==
    /\ \A p \in Producers :
           holding[p] # Nothing => /\ holding[p].buffer \notin BuffersIn(queue)
                                   /\ holding[p].buffer # taken.buffer
    /\ \A p, q \in Producers :
           holding[p] # Nothing /\ holding[p].buffer = holding[q].buffer => p = q
    /\ taken # Nothing => taken.buffer \notin BuffersIn(queue)

\* A packet that is about to be Put stands in its buffer.
HeldIntact ==
    \A p \in Producers :
        holding[p] # Nothing => content[holding[p].buffer] = holding[p].packet

\* The semaphore counts the queue; an acquired permit is still to be used.
PermitsCount == Len(queue) = permits + (IF consumer = "lock" THEN 1 ELSE 0)

\* The NULL is queued by Stop only.
NullFromStop == NoBuffer \in BuffersIn(queue) => stopping \in {"join", "joined"}

\* The consumer has an element in its hands only while it works on it.
TakenInHand ==
    /\ consumer \in {"test", "acquire", "lock", "exited"} => taken = Nothing
    /\ consumer = "reuse" => taken # Nothing

PipelineInv ==
    /\ TypeOK
    /\ NeverAborts
    /\ PacketsIntact
    /\ NoBufferLeak
    /\ QueueDistinct
    /\ OneOwner
    /\ HeldIntact
    /\ PermitsCount
    /\ NullFromStop
    /\ TakenInHand

-----------------------------------------------------------------------------
(* Elements, queues and the pool *)

\* An element is the NULL, or has a buffer of the pool and a packet.
LEMMA ElementFacts ==
    ASSUME NEW e \in Elements
    PROVE  /\ e.buffer \in 0 .. BufferCount
           /\ e # Nothing <=> e.buffer # NoBuffer
           /\ e # Nothing => e.buffer \in Buffers /\ e.packet \in 1 .. MaxPackets
    BY PipelineAssumption DEF Elements, Nothing, Element, NoBuffer, NoPacket, Buffers

\* The NULL is an element without a buffer.
LEMMA NothingFacts == Nothing \in Elements /\ Nothing.buffer = NoBuffer
    BY DEF Elements, Nothing, Element

\* Put adds the buffer of its element.
LEMMA AppendBuffers ==
    ASSUME NEW S, NEW q \in Seq(S), NEW e \in S
    PROVE  /\ Append(q, e) \in Seq(S) /\ Len(Append(q, e)) = Len(q) + 1
           /\ \A i \in 1 .. Len(q) : Append(q, e)[i] = q[i]
           /\ Append(q, e)[Len(q) + 1] = e
           /\ BuffersIn(Append(q, e)) = BuffersIn(q) \cup {e.buffer}
<1>1. /\ Append(q, e) \in Seq(S) /\ Len(Append(q, e)) = Len(q) + 1 /\ Len(q) \in Nat
      /\ \A i \in 1 .. Len(q) : Append(q, e)[i] = q[i]
      /\ Append(q, e)[Len(q) + 1] = e
  OBVIOUS
<1>2. BuffersIn(q) \cup {e.buffer} \subseteq BuffersIn(Append(q, e))
  BY <1>1 DEF BuffersIn
<1>3. BuffersIn(Append(q, e)) \subseteq BuffersIn(q) \cup {e.buffer}
  <2> SUFFICES ASSUME NEW i \in 1 .. Len(q) + 1
               PROVE  Append(q, e)[i].buffer \in BuffersIn(q) \cup {e.buffer}
    BY <1>1 DEF BuffersIn
  <2>1. CASE i = Len(q) + 1
    BY <1>1, <2>1
  <2>2. CASE i # Len(q) + 1
    <3>1. i \in 1 .. Len(q) /\ Append(q, e)[i] = q[i]
      BY <1>1, <2>2
    <3> QED BY <3>1 DEF BuffersIn
  <2> QED BY <2>1, <2>2
<1> QED BY <1>1, <1>2, <1>3

\* Taking the first element of a queue takes its buffer out.
LEMMA TailBuffers ==
    ASSUME NEW S, NEW q \in Seq(S), q # <<>>
    PROVE  /\ Head(q) \in S /\ Head(q) = q[1] /\ Tail(q) \in Seq(S)
           /\ Len(q) \in Nat \ {0} /\ Len(Tail(q)) = Len(q) - 1
           /\ \A i \in 1 .. Len(q) - 1 : Tail(q)[i] = q[i + 1]
           /\ BuffersIn(q) = {Head(q).buffer} \cup BuffersIn(Tail(q))
<1>1. /\ Head(q) \in S /\ Head(q) = q[1] /\ Tail(q) \in Seq(S)
      /\ Len(q) \in Nat \ {0} /\ Len(Tail(q)) = Len(q) - 1
      /\ \A i \in 1 .. Len(q) - 1 : Tail(q)[i] = q[i + 1]
  OBVIOUS
<1>2. BuffersIn(q) \subseteq {Head(q).buffer} \cup BuffersIn(Tail(q))
  <2> SUFFICES ASSUME NEW i \in 1 .. Len(q), i # 1
               PROVE  q[i].buffer \in BuffersIn(Tail(q))
    BY <1>1 DEF BuffersIn
  <2>1. i - 1 \in 1 .. Len(Tail(q)) /\ Tail(q)[i - 1] = q[i]
    BY <1>1
  <2> QED BY <2>1 DEF BuffersIn
<1>3. BuffersIn(Tail(q)) \subseteq BuffersIn(q)
  <2> SUFFICES ASSUME NEW i \in 1 .. Len(q) - 1
               PROVE  Tail(q)[i].buffer \in BuffersIn(q)
    BY <1>1 DEF BuffersIn
  <2>1. i + 1 \in 1 .. Len(q) /\ Tail(q)[i] = q[i + 1]
    BY <1>1
  <2> QED BY <2>1 DEF BuffersIn
<1>4. Head(q).buffer \in BuffersIn(q)
  <2>1. 1 \in 1 .. Len(q) /\ Head(q) = q[1]
    BY <1>1
  <2> QED BY <2>1 DEF BuffersIn
<1> QED BY <1>1, <1>2, <1>3, <1>4

\* The numbers from 1 to n.
LEMMA IntervalCardinality ==
    ASSUME NEW n \in Nat
    PROVE  IsFiniteSet(1 .. n) /\ Cardinality(1 .. n) = n
<1>1. IsFiniteSet(1 .. n) /\ Cardinality(1 .. n) = IF 1 > n THEN 0 ELSE n - 1 + 1
  BY FS_Interval
<1> QED BY <1>1

\* A queue of distinct buffers that lacks one of them, or the NULL, is no
\* longer than the pool is large.
LEMMA QueueFits ==
    ASSUME NEW q \in Seq(Elements),
           \A i, j \in 1 .. Len(q) : q[i].buffer = q[j].buffer => i = j,
           NEW b \in 0 .. BufferCount, b \notin BuffersIn(q)
    PROVE  Len(q) <= BufferCount
<1> DEFINE S == 1 .. Len(q)
           T == (0 .. BufferCount) \ {b}
           f == [i \in S |-> q[i].buffer]
<1>1. BufferCount \in Nat /\ Len(q) \in Nat
  BY PipelineAssumption
<1>2. f \in [S -> T]
  <2> SUFFICES ASSUME NEW i \in S PROVE q[i].buffer \in T
    OBVIOUS
  <2>1. q[i] \in Elements
    OBVIOUS
  <2>2. q[i].buffer \in 0 .. BufferCount
    BY <2>1, ElementFacts
  <2>3. q[i].buffer \in BuffersIn(q)
    BY DEF BuffersIn
  <2> QED BY <2>2, <2>3
<1>3. IsFiniteSet(S) /\ Cardinality(S) = Len(q)
  BY <1>1, IntervalCardinality, Zenon
<1>4. IsFiniteSet(T) /\ Cardinality(T) = BufferCount
  <2>1. IsFiniteSet(0 .. BufferCount) /\ Cardinality(0 .. BufferCount) = BufferCount + 1
    <3>1. Cardinality(0 .. BufferCount)
            = IF 0 > BufferCount THEN 0 ELSE BufferCount - 0 + 1
      BY <1>1, FS_Interval
    <3> QED BY <1>1, <3>1, FS_Interval
  <2>2. /\ IsFiniteSet(T)
        /\ Cardinality(T) = IF b \in 0 .. BufferCount THEN Cardinality(0 .. BufferCount) - 1
                            ELSE Cardinality(0 .. BufferCount)
    BY <2>1, FS_RemoveElement
  <2> QED BY <1>1, <2>1, <2>2
<1>5. CASE Len(q) > BufferCount
  <2>0. Cardinality(T) < Cardinality(S)
    BY <1>1, <1>3, <1>4, <1>5
  <2> HIDE DEF S, T, f
  <2>1. PICK x \in S, y \in S : x # y /\ f[x] = f[y]
    BY <2>0, <1>2, <1>3, <1>4, FS_PigeonHole
  <2> QED BY <2>1 DEF f, S
<1> QED BY <1>1, <1>5

\* A set of naturals has a least element.
LEMMA LeastExists ==
    ASSUME NEW S \in SUBSET Nat, S # {}
    PROVE  \E x \in S : \A y \in S : x <= y
<1> DEFINE R == {ss \in Nat \X Nat : ss[1] < ss[2]}
<1>1. OpToRel(<, Nat) = R
  BY DEF OpToRel
<1>2. IsWellFoundedOn(R, Nat)
  BY <1>1, NatLessThanWellFounded
<1>3. PICK x \in S : \A y \in S : ~(<<y, x>> \in R)
  <2> HIDE DEF R
  <2> QED BY <1>2, WFMin, Zenon
<1>4. ASSUME NEW y \in S, ~(x <= y) PROVE FALSE
  <2>1. x \in Nat /\ y \in Nat /\ y < x
    BY <1>4
  <2>2. <<y, x>> \in R
    BY <2>1
  <2> HIDE DEF R
  <2> QED BY <2>2, <1>3
<1> QED BY <1>4

\* BufferPool::Get finds a free buffer, if there is one.
LEMMA FirstFreeIsFree ==
    ASSUME usedBuffers \subseteq Buffers, usedBuffers # Buffers
    PROVE  FirstFree \in Buffers \ usedBuffers
<1> DEFINE S == Buffers \ usedBuffers
<1>1. S \in SUBSET Nat /\ S # {}
  <2>1. Buffers \subseteq Nat
    BY PipelineAssumption DEF Buffers
  <2>2. S # {}
    OBVIOUS
  <2> QED BY <2>1, <2>2
<1> HIDE DEF S
<1>2. \E b \in S : \A c \in S : b <= c
  BY <1>1, LeastExists
<1>3. (CHOOSE b \in S : \A c \in S : b <= c) \in S
  BY <1>2
<1> QED BY <1>3 DEF FirstFree, S

-----------------------------------------------------------------------------
(* The steps *)

\* Put finds room in the queue.
LEMMA PutHasRoom ==
    ASSUME TypeOK, PermitsCount, QueueDistinct, NEW e \in Elements,
           e.buffer \notin BuffersIn(queue), Put(e)
    PROVE  /\ queue' = Append(queue, e) /\ permits' = permits + 1
           /\ aborted' = aborted
<1>1. queue \in Seq(Elements) /\ e.buffer \in 0 .. BufferCount
  BY ElementFacts DEF TypeOK
<1>2. Len(queue) <= BufferCount
  BY <1>1, QueueFits DEF QueueDistinct
<1>3. Len(queue) < Capacity
  BY <1>1, <1>2, PipelineAssumption
<1> QED BY <1>3 DEF Put

\* A queue that gets another buffer is still without duplicates.
LEMMA PutDistinct ==
    ASSUME TypeOK, QueueDistinct, NEW e \in Elements,
           e.buffer \notin BuffersIn(queue), queue' = Append(queue, e)
    PROVE  /\ QueueDistinct'
           /\ queue' \in Seq(Elements) /\ Len(queue') = Len(queue) + 1
           /\ BuffersIn(queue') = BuffersIn(queue) \cup {e.buffer}
           /\ \A i \in 1 .. Len(queue') :
                  (i \in 1 .. Len(queue) /\ queue'[i] = queue[i]) \/ queue'[i] = e
<1>1. queue \in Seq(Elements)
  BY DEF TypeOK
<1>2. /\ Append(queue, e) \in Seq(Elements) /\ Len(Append(queue, e)) = Len(queue) + 1
      /\ \A i \in 1 .. Len(queue) : Append(queue, e)[i] = queue[i]
      /\ Append(queue, e)[Len(queue) + 1] = e
      /\ BuffersIn(Append(queue, e)) = BuffersIn(queue) \cup {e.buffer}
  BY <1>1, AppendBuffers
<1>3. Len(queue) \in Nat
  BY <1>1
<1>4. ASSUME NEW i \in 1 .. Len(queue'), NEW j \in 1 .. Len(queue'),
             queue'[i].buffer = queue'[j].buffer, i # j
      PROVE  FALSE
  <2>1. \A k \in 1 .. Len(queue) : queue'[k] = queue[k] /\ queue[k].buffer \in BuffersIn(queue)
    BY <1>2 DEF BuffersIn
  <2>2. \A k \in 1 .. Len(queue') : k \in 1 .. Len(queue) \/ k = Len(queue) + 1
    BY <1>2, <1>3
  <2>3. queue'[Len(queue) + 1] = e
    BY <1>2
  <2>4. CASE i \in 1 .. Len(queue) /\ j \in 1 .. Len(queue)
    BY <1>4, <2>1, <2>4 DEF QueueDistinct
  <2>5. CASE i = Len(queue) + 1 /\ j \in 1 .. Len(queue)
    BY <1>4, <2>1, <2>3, <2>5
  <2>6. CASE j = Len(queue) + 1 /\ i \in 1 .. Len(queue)
    BY <1>4, <2>1, <2>3, <2>6
  <2> QED BY <1>4, <2>2, <2>4, <2>5, <2>6
<1>5. ASSUME NEW i \in 1 .. Len(queue')
      PROVE  (i \in 1 .. Len(queue) /\ queue'[i] = queue[i]) \/ queue'[i] = e
  BY <1>2, <1>3
<1> QED BY <1>2, <1>4, <1>5 DEF QueueDistinct

\* A producer takes a buffer that nobody has, fills it and holds it.
LEMMA ProduceKeeps ==
    ASSUME PipelineInv, NEW p \in Producers, Produce(p)
    PROVE  PipelineInv'
<1>1. UNCHANGED <<queue, permits, running, consumer, taken, processed, stopping, aborted>>
  BY DEF Produce
<1>2. made' \in 0 .. MaxPackets /\ made + 1 \in 1 .. MaxPackets
  BY PipelineAssumption DEF Produce, PipelineInv, TypeOK
<1>3. NeverAborts' /\ QueueDistinct' /\ PermitsCount' /\ NullFromStop' /\ TakenInHand'
  BY <1>1 DEF PipelineInv, NeverAborts, QueueDistinct, PermitsCount, NullFromStop,
              TakenInHand, BuffersIn
<1>4. CASE UNCHANGED <<usedBuffers, content, holding>>
  BY <1>1, <1>2, <1>3, <1>4 DEF PipelineInv, TypeOK, PacketsIntact, NoBufferLeak, OneOwner,
              HeldIntact, BuffersIn
<1>5. CASE usedBuffers # Buffers
  <2> DEFINE b == FirstFree
             e == Element(b, made + 1)
  <2>1. b \in Buffers \ usedBuffers
    BY <1>5, FirstFreeIsFree DEF PipelineInv, TypeOK
  <2>2. /\ usedBuffers' = usedBuffers \cup {b}
        /\ content' = [content EXCEPT ![b] = made + 1]
        /\ holding' = [holding EXCEPT ![p] = e]
        /\ holding[p] = Nothing
    BY <1>5 DEF Produce
  <2>3. e \in Elements /\ e # Nothing /\ e.buffer = b /\ e.packet = made + 1
    BY <1>2, <2>1, PipelineAssumption
       DEF Element, Elements, Nothing, NoBuffer, Buffers
  <2> HIDE DEF b, e
  <2>4. /\ TypeOK /\ holding \in [Producers -> Elements] /\ taken \in Elements
        /\ queue \in Seq(Elements) /\ content \in [Buffers -> 0 .. MaxPackets]
    BY DEF PipelineInv, TypeOK
  <2>5. /\ \A q \in Producers : holding[q].buffer # b
        /\ b \notin BuffersIn(queue) /\ taken.buffer # b
    <3>1. b # NoBuffer
      BY <2>1, PipelineAssumption DEF Buffers, NoBuffer
    <3> QED BY <2>1, <3>1 DEF PipelineInv, NoBufferLeak, BuffersIn
  <2>6. /\ holding' \in [Producers -> Elements] /\ holding'[p] = e
        /\ \A q \in Producers : q # p => holding'[q] = holding[q]
    BY <2>2, <2>3, <2>4
  <2>7. TypeOK'
    BY <1>1, <1>2, <2>1, <2>2, <2>4, <2>6, PipelineAssumption DEF TypeOK
  <2>8. \A c \in Buffers : c # b => content'[c] = content[c]
    BY <2>1, <2>2, <2>4
  <2>9. content'[b] = made + 1
    BY <2>1, <2>2, <2>4
  <2>10. PacketsIntact'
    <3>1. ASSUME NEW i \in 1 .. Len(queue), queue[i] # Nothing
          PROVE  content'[queue[i].buffer] = queue[i].packet
      <4>1. queue[i] \in Elements /\ queue[i].buffer \in BuffersIn(queue)
        BY <2>4 DEF BuffersIn
      <4>2. queue[i].buffer \in Buffers /\ queue[i].buffer # b
        BY <3>1, <4>1, <2>5, ElementFacts
      <4> QED BY <3>1, <4>2, <2>8 DEF PipelineInv, PacketsIntact
    <3>2. ASSUME taken # Nothing PROVE content'[taken.buffer] = taken.packet
      <4>1. taken.buffer \in Buffers /\ taken.buffer # b
        BY <3>2, <2>4, <2>5, ElementFacts
      <4> QED BY <3>2, <4>1, <2>8 DEF PipelineInv, PacketsIntact
    <3> QED BY <3>1, <3>2, <1>1 DEF PacketsIntact
  <2>11. HeldIntact'
    <3> SUFFICES ASSUME NEW q \in Producers, holding'[q] # Nothing
                 PROVE  content'[holding'[q].buffer] = holding'[q].packet
      BY DEF HeldIntact
    <3>1. CASE q = p
      BY <3>1, <2>3, <2>6, <2>9
    <3>2. CASE q # p
      <4>1. holding'[q] = holding[q] /\ holding[q] \in Elements
        BY <3>2, <2>4, <2>6
      <4>2. holding[q].buffer \in Buffers /\ holding[q].buffer # b
        BY <4>1, <2>5, ElementFacts
      <4> QED BY <4>1, <4>2, <2>8 DEF PipelineInv, HeldIntact
    <3> QED BY <3>1, <3>2
  <2>12. OneOwner'
    <3>1. \A q \in Producers :
             holding'[q] # Nothing => /\ holding'[q].buffer \notin BuffersIn(queue)
                                      /\ holding'[q].buffer # taken.buffer
      BY <2>3, <2>5, <2>6 DEF PipelineInv, OneOwner
    <3>2. \A q, r \in Producers :
             holding'[q] # Nothing /\ holding'[q].buffer = holding'[r].buffer => q = r
      BY <2>3, <2>5, <2>6 DEF PipelineInv, OneOwner
    <3>3. UNCHANGED <<queue, taken, BuffersIn(queue)>>
      BY <1>1 DEF BuffersIn
    <3> QED BY <3>1, <3>2, <3>3 DEF PipelineInv, OneOwner
  <2>13. NoBufferLeak'
    <3> DEFINE H == {holding[q].buffer : q \in Producers}
               H2 == {holding'[q].buffer : q \in Producers}
    <3>1. H2 \ {NoBuffer} = (H \ {NoBuffer}) \cup {b}
      <4>1. b # NoBuffer /\ Nothing.buffer = NoBuffer
        BY <2>1, PipelineAssumption, NothingFacts DEF Buffers, NoBuffer
      <4> QED BY <4>1, <2>2, <2>3, <2>6
    <3>2. usedBuffers = (H \cup BuffersIn(queue) \cup {taken.buffer}) \ {NoBuffer}
      BY DEF PipelineInv, NoBufferLeak, BuffersIn
    <3>3. NoBufferLeak' <=>
             usedBuffers' = (H2 \cup BuffersIn(queue) \cup {taken.buffer}) \ {NoBuffer}
      BY <1>1 DEF NoBufferLeak, BuffersIn
    <3> HIDE DEF H, H2
    <3> QED BY <2>2, <3>1, <3>2, <3>3, <2>1, PipelineAssumption DEF Buffers, NoBuffer
  <2> QED BY <1>3, <2>7, <2>10, <2>11, <2>12, <2>13 DEF PipelineInv
<1> QED BY <1>4, <1>5 DEF Produce

\* A producer Puts what it holds.
LEMMA ProducerPutKeeps ==
    ASSUME PipelineInv, NEW p \in Producers, ProducerPut(p)
    PROVE  PipelineInv'
<1> DEFINE e == holding[p]
<1>1. /\ TypeOK /\ queue \in Seq(Elements) /\ e \in Elements /\ e # Nothing
      /\ holding \in [Producers -> Elements]
  BY DEF PipelineInv, TypeOK, ProducerPut
<1>2. e.buffer \notin BuffersIn(queue) /\ e.buffer # taken.buffer /\ e.buffer # NoBuffer
  BY <1>1, ElementFacts DEF PipelineInv, OneOwner
<1>3. Put(e) /\ holding' = [holding EXCEPT ![p] = Nothing]
  BY DEF ProducerPut
<1> HIDE DEF e
<1>4. queue' = Append(queue, e) /\ permits' = permits + 1 /\ aborted' = aborted
  BY <1>1, <1>2, <1>3, PutHasRoom DEF PipelineInv
<1>5. /\ QueueDistinct'
      /\ queue' \in Seq(Elements) /\ Len(queue') = Len(queue) + 1
      /\ BuffersIn(queue') = BuffersIn(queue) \cup {e.buffer}
      /\ \A i \in 1 .. Len(queue') :
             (i \in 1 .. Len(queue) /\ queue'[i] = queue[i]) \/ queue'[i] = e
  BY <1>1, <1>2, <1>4, PutDistinct DEF PipelineInv
<1>6. UNCHANGED <<usedBuffers, content, made, running, consumer, taken, processed, stopping>>
  BY DEF ProducerPut
<1>7. /\ holding' \in [Producers -> Elements] /\ holding'[p] = Nothing
      /\ \A q \in Producers : q # p => holding'[q] = holding[q]
  BY <1>1, <1>3, NothingFacts
<1>8. TypeOK' /\ NeverAborts'
  <2>1. permits \in Nat /\ permits' \in Nat
    BY <1>4 DEF PipelineInv, TypeOK
  <2> QED BY <1>4, <1>5, <1>6, <1>7, <2>1 DEF PipelineInv, TypeOK, NeverAborts
<1>9. PermitsCount'
  BY <1>1, <1>4, <1>5, <1>6 DEF PipelineInv, PermitsCount, TypeOK
<1>10. NullFromStop' /\ TakenInHand'
  BY <1>2, <1>5, <1>6 DEF PipelineInv, NullFromStop, TakenInHand
<1>11. PacketsIntact'
  <2>1. content[e.buffer] = e.packet
    BY <1>1 DEF PipelineInv, HeldIntact, e
  <2> QED BY <1>5, <1>6, <2>1 DEF PipelineInv, PacketsIntact
<1>12. HeldIntact'
  BY <1>6, <1>7 DEF PipelineInv, HeldIntact
<1>13. OneOwner'
  <2>1. \A q \in Producers :
           holding'[q] # Nothing => /\ holding'[q].buffer \notin BuffersIn(queue')
                                    /\ holding'[q].buffer # taken'.buffer
    <3> SUFFICES ASSUME NEW q \in Producers, holding'[q] # Nothing
                 PROVE  /\ holding'[q].buffer \notin BuffersIn(queue')
                        /\ holding'[q].buffer # taken'.buffer
      OBVIOUS
    <3>1. q # p /\ holding'[q] = holding[q]
      BY <1>7
    <3>2. holding[q].buffer # e.buffer
      BY <3>1 DEF PipelineInv, OneOwner, e
    <3> QED BY <1>5, <1>6, <3>1, <3>2 DEF PipelineInv, OneOwner
  <2>2. \A q, r \in Producers :
           holding'[q] # Nothing /\ holding'[q].buffer = holding'[r].buffer => q = r
    <3> SUFFICES ASSUME NEW q \in Producers, NEW r \in Producers, holding'[q] # Nothing,
                        holding'[q].buffer = holding'[r].buffer
                 PROVE  q = r
      OBVIOUS
    <3>1. holding'[q] = holding[q] /\ holding[q] \in Elements /\ holding[q].buffer # NoBuffer
      BY <1>1, <1>7, ElementFacts
    <3>2. r # p
      BY <3>1, <1>7, NothingFacts
    <3> QED BY <3>1, <3>2, <1>7 DEF PipelineInv, OneOwner
  <2>3. taken' # Nothing => taken'.buffer \notin BuffersIn(queue')
    BY <1>2, <1>5, <1>6 DEF PipelineInv, OneOwner
  <2> QED BY <2>1, <2>2, <2>3 DEF OneOwner
<1>14. NoBufferLeak'
  <2> DEFINE H == {holding[q].buffer : q \in Producers}
             H2 == {holding'[q].buffer : q \in Producers}
  <2>1. H \ {NoBuffer} = (H2 \ {NoBuffer}) \cup {e.buffer}
    BY <1>2, <1>7, NothingFacts DEF e
  <2>2. usedBuffers = (H \cup BuffersIn(queue) \cup {taken.buffer}) \ {NoBuffer}
    BY DEF PipelineInv, NoBufferLeak, BuffersIn
  <2>3. NoBufferLeak' <=>
           usedBuffers' = (H2 \cup BuffersIn(queue') \cup {taken'.buffer}) \ {NoBuffer}
    BY DEF NoBufferLeak, BuffersIn
  <2> HIDE DEF H, H2
  <2> QED BY <1>2, <1>5, <1>6, <2>1, <2>2, <2>3
<1> QED BY <1>5, <1>8, <1>9, <1>10, <1>11, <1>12, <1>13, <1>14 DEF PipelineInv

\* Stop Puts the NULL.
LEMMA PutNullKeeps ==
    ASSUME PipelineInv, PutNull
    PROVE  PipelineInv'
<1>1. /\ TypeOK /\ queue \in Seq(Elements) /\ Nothing \in Elements
      /\ Nothing.buffer = NoBuffer /\ Put(Nothing)
  BY NothingFacts DEF PipelineInv, TypeOK, PutNull
<1>2. Nothing.buffer \notin BuffersIn(queue)
  BY <1>1 DEF PipelineInv, NullFromStop, PutNull
<1>4. queue' = Append(queue, Nothing) /\ permits' = permits + 1 /\ aborted' = aborted
  BY <1>1, <1>2, PutHasRoom DEF PipelineInv
<1>5. /\ QueueDistinct'
      /\ queue' \in Seq(Elements) /\ Len(queue') = Len(queue) + 1
      /\ BuffersIn(queue') = BuffersIn(queue) \cup {NoBuffer}
      /\ \A i \in 1 .. Len(queue') :
             (i \in 1 .. Len(queue) /\ queue'[i] = queue[i]) \/ queue'[i] = Nothing
  BY <1>1, <1>2, <1>4, PutDistinct DEF PipelineInv
<1>6. /\ UNCHANGED <<usedBuffers, content, made, holding, running, consumer, taken, processed>>
      /\ stopping' = "join"
  BY DEF PutNull
<1>8. TypeOK' /\ NeverAborts'
  <2>1. permits \in Nat /\ permits' \in Nat
    BY <1>4 DEF PipelineInv, TypeOK
  <2> QED BY <1>4, <1>5, <1>6, <2>1 DEF PipelineInv, TypeOK, NeverAborts
<1>9. PermitsCount'
  BY <1>1, <1>4, <1>5, <1>6 DEF PipelineInv, PermitsCount, TypeOK
<1>10. NullFromStop' /\ TakenInHand' /\ HeldIntact'
  BY <1>6 DEF PipelineInv, NullFromStop, TakenInHand, HeldIntact
<1>11. PacketsIntact'
  BY <1>5, <1>6 DEF PipelineInv, PacketsIntact
<1>13. OneOwner'
  <2>1. \A q \in Producers : holding[q] # Nothing => holding[q].buffer # NoBuffer
    BY ElementFacts DEF PipelineInv, TypeOK
  <2>2. taken # Nothing => taken.buffer # NoBuffer
    BY ElementFacts DEF PipelineInv, TypeOK
  <2> QED BY <1>5, <1>6, <2>1, <2>2 DEF PipelineInv, OneOwner
<1>14. NoBufferLeak'
  <2> DEFINE H == {holding[q].buffer : q \in Producers}
  <2>2. usedBuffers = (H \cup BuffersIn(queue) \cup {taken.buffer}) \ {NoBuffer}
    BY DEF PipelineInv, NoBufferLeak, BuffersIn
  <2>3. NoBufferLeak' <=>
           usedBuffers = (H \cup BuffersIn(queue') \cup {taken.buffer}) \ {NoBuffer}
    BY <1>6 DEF NoBufferLeak, BuffersIn
  <2> HIDE DEF H
  <2> QED BY <1>5, <2>2, <2>3
<1> QED BY <1>5, <1>8, <1>9, <1>10, <1>11, <1>13, <1>14 DEF PipelineInv

\* GetBlocking takes the first element, which is there.
LEMMA GetInternalKeeps ==
    ASSUME PipelineInv, GetInternal
    PROVE  PipelineInv'
<1>1. /\ TypeOK /\ queue \in Seq(Elements) /\ consumer = "lock" /\ permits \in Nat
      /\ taken = Nothing /\ Len(queue) = permits + 1
  BY DEF PipelineInv, TypeOK, GetInternal, TakenInHand, PermitsCount
<1>2. queue # <<>>
  BY <1>1
<1>3. /\ taken' = Head(queue) /\ queue' = Tail(queue) /\ consumer' = "process"
      /\ UNCHANGED <<usedBuffers, content, permits, made, holding, running, processed,
                     stopping, aborted>>
  BY <1>2 DEF GetInternal
<1>4. /\ Head(queue) \in Elements /\ Head(queue) = queue[1] /\ Tail(queue) \in Seq(Elements)
      /\ Len(queue) \in Nat \ {0} /\ Len(Tail(queue)) = Len(queue) - 1
      /\ \A i \in 1 .. Len(queue) - 1 : Tail(queue)[i] = queue[i + 1]
      /\ BuffersIn(queue) = {Head(queue).buffer} \cup BuffersIn(Tail(queue))
  BY <1>1, <1>2, TailBuffers
<1>5. \A i \in 1 .. Len(queue') : /\ i + 1 \in 1 .. Len(queue)
                                  /\ queue'[i] = queue[i + 1]
  BY <1>3, <1>4
<1>6. taken'.buffer \notin BuffersIn(queue')
  <2> SUFFICES ASSUME NEW i \in 1 .. Len(queue'), queue'[i].buffer = taken'.buffer
               PROVE  FALSE
    BY DEF BuffersIn
  <2>1. i + 1 \in 1 .. Len(queue) /\ 1 \in 1 .. Len(queue) /\ i + 1 # 1
    BY <1>4, <1>5
  <2>2. queue[i + 1].buffer = queue[1].buffer
    BY <1>3, <1>4, <1>5
  <2> QED BY <2>1, <2>2 DEF PipelineInv, QueueDistinct
<1>7. TypeOK' /\ NeverAborts'
  BY <1>1, <1>3, <1>4 DEF PipelineInv, TypeOK, NeverAborts
<1>8. PermitsCount'
  BY <1>1, <1>3, <1>4 DEF PermitsCount
<1>9. QueueDistinct'
  <2> SUFFICES ASSUME NEW i \in 1 .. Len(queue'), NEW j \in 1 .. Len(queue'),
                      queue'[i].buffer = queue'[j].buffer
               PROVE  i = j
    BY DEF QueueDistinct
  <2>1. /\ i + 1 \in 1 .. Len(queue) /\ j + 1 \in 1 .. Len(queue)
        /\ queue[i + 1].buffer = queue[j + 1].buffer
    BY <1>5
  <2>2. i + 1 = j + 1
    BY <2>1 DEF PipelineInv, QueueDistinct
  <2> QED BY <2>2
<1>10. NullFromStop' /\ TakenInHand' /\ HeldIntact'
  BY <1>3, <1>4 DEF PipelineInv, NullFromStop, TakenInHand, HeldIntact
<1>11. PacketsIntact'
  <2>1. \A i \in 1 .. Len(queue') :
           queue'[i] # Nothing => content[queue'[i].buffer] = queue'[i].packet
    BY <1>5 DEF PipelineInv, PacketsIntact
  <2>2. taken' # Nothing => content[taken'.buffer] = taken'.packet
    <3>1. 1 \in 1 .. Len(queue) /\ taken' = queue[1]
      BY <1>3, <1>4
    <3> QED BY <3>1 DEF PipelineInv, PacketsIntact
  <2> QED BY <1>3, <2>1, <2>2 DEF PacketsIntact
<1>12. OneOwner'
  <2>1. \A p \in Producers :
           holding[p] # Nothing => /\ holding[p].buffer \notin BuffersIn(queue')
                                   /\ holding[p].buffer # taken'.buffer
    BY <1>3, <1>4 DEF PipelineInv, OneOwner
  <2> QED BY <1>3, <1>6, <2>1 DEF PipelineInv, OneOwner
<1>13. NoBufferLeak'
  <2> DEFINE H == {holding[q].buffer : q \in Producers}
  <2>2. usedBuffers = (H \cup BuffersIn(queue) \cup {NoBuffer}) \ {NoBuffer}
    BY <1>1, NothingFacts DEF PipelineInv, NoBufferLeak, BuffersIn
  <2>3. NoBufferLeak' <=>
           usedBuffers = (H \cup BuffersIn(queue') \cup {taken'.buffer}) \ {NoBuffer}
    BY <1>3 DEF NoBufferLeak, BuffersIn
  <2> HIDE DEF H
  <2> QED BY <1>3, <1>4, <2>2, <2>3
<1> QED BY <1>7, <1>8, <1>9, <1>10, <1>11, <1>12, <1>13 DEF PipelineInv

\* The consumer handles the packet that stands in its buffer.
LEMMA ProcessKeeps ==
    ASSUME PipelineInv, Process
    PROVE  PipelineInv'
<1>1. UNCHANGED <<usedBuffers, content, queue, permits, made, holding, running, taken,
                  stopping, aborted>>
  BY DEF Process
<1>2. /\ taken \in Elements /\ processed \in Seq(1 .. MaxPackets) /\ consumer = "process"
      /\ consumer' \in {"test", "reuse"} /\ (consumer' = "test" <=> taken = Nothing)
  BY DEF Process, PipelineInv, TypeOK
<1>3. processed' \in Seq(1 .. MaxPackets)
  <2>1. CASE taken = Nothing
    BY <2>1, <1>2 DEF Process
  <2>2. CASE taken # Nothing
    <3>1. content[taken.buffer] \in 1 .. MaxPackets
      BY <2>2, <1>2, ElementFacts DEF PipelineInv, PacketsIntact
    <3>2. processed' = Append(processed, content[taken.buffer])
      BY <2>2 DEF Process
    <3> QED BY <1>2, <3>1, <3>2
  <2> QED BY <2>1, <2>2
<1> QED BY <1>1, <1>2, <1>3
        DEF PipelineInv, TypeOK, NeverAborts, PacketsIntact, NoBufferLeak, QueueDistinct,
            OneOwner, HeldIntact, PermitsCount, NullFromStop, TakenInHand, BuffersIn

\* The consumer gives its buffer back, which nobody else has.
LEMMA ReuseKeeps ==
    ASSUME PipelineInv, ReuseTaken
    PROVE  PipelineInv'
<1>1. /\ usedBuffers' = usedBuffers \ {taken.buffer} /\ taken' = Nothing
      /\ consumer = "reuse" /\ consumer' = "test"
      /\ UNCHANGED <<content, queue, permits, made, holding, running, processed, stopping,
                     aborted>>
  BY DEF ReuseTaken, Reuse
<1>2. /\ taken \in Elements /\ taken # Nothing /\ taken.buffer # NoBuffer
      /\ holding \in [Producers -> Elements]
  BY <1>1, ElementFacts DEF PipelineInv, TypeOK, TakenInHand
<1>3. TypeOK' /\ NeverAborts' /\ QueueDistinct' /\ PermitsCount' /\ NullFromStop'
      /\ TakenInHand' /\ HeldIntact' /\ PacketsIntact'
  BY <1>1, NothingFacts
     DEF PipelineInv, TypeOK, NeverAborts, QueueDistinct, PermitsCount, NullFromStop,
         TakenInHand, HeldIntact, PacketsIntact, BuffersIn
<1>4. OneOwner'
  <2>1. \A p \in Producers : holding[p] # Nothing => holding[p].buffer # NoBuffer
    BY <1>2, ElementFacts
  <2> QED BY <1>1, <2>1, NothingFacts DEF PipelineInv, OneOwner, BuffersIn
<1>5. NoBufferLeak'
  <2> DEFINE H == {holding[q].buffer : q \in Producers}
  <2>1. taken.buffer \notin H
    <3> SUFFICES ASSUME NEW q \in Producers, holding[q].buffer = taken.buffer PROVE FALSE
      OBVIOUS
    <3>1. holding[q] # Nothing
      BY <1>2, NothingFacts
    <3> QED BY <3>1 DEF PipelineInv, OneOwner
  <2>2. taken.buffer \notin BuffersIn(queue)
    BY <1>2 DEF PipelineInv, OneOwner
  <2>3. usedBuffers = (H \cup BuffersIn(queue) \cup {taken.buffer}) \ {NoBuffer}
    BY DEF PipelineInv, NoBufferLeak, BuffersIn
  <2>4. NoBufferLeak' <=>
           usedBuffers' = (H \cup BuffersIn(queue) \cup {NoBuffer}) \ {NoBuffer}
    BY <1>1, NothingFacts DEF NoBufferLeak, BuffersIn
  <2> HIDE DEF H
  <2> QED BY <1>1, <2>1, <2>2, <2>3, <2>4
<1> QED BY <1>3, <1>4, <1>5 DEF PipelineInv

\* Steps that leave the buffers and the queue alone.
LEMMA ControlStepsKeep ==
    ASSUME PipelineInv, TestRunning \/ Acquire \/ StopRunning \/ Join \/ UNCHANGED vars
    PROVE  PipelineInv'
<1>1. UNCHANGED <<usedBuffers, content, queue, made, holding, taken, processed, aborted>>
  BY DEF TestRunning, Acquire, StopRunning, Join, vars
<1>2. /\ NeverAborts' /\ QueueDistinct' /\ HeldIntact' /\ PacketsIntact' /\ OneOwner'
      /\ NoBufferLeak'
  BY <1>1 DEF PipelineInv, NeverAborts, QueueDistinct, HeldIntact, PacketsIntact, OneOwner,
              NoBufferLeak, BuffersIn
<1>3. TypeOK'
  <2>1. permits' \in Nat
    BY DEF PipelineInv, TypeOK, TestRunning, Acquire, StopRunning, Join, vars
  <2>2. running' \in BOOLEAN
    BY Zenon DEF PipelineInv, TypeOK, TestRunning, Acquire, StopRunning, Join, vars
  <2>3. consumer' \in {"test", "acquire", "lock", "process", "reuse", "exited"}
    BY DEF PipelineInv, TypeOK, TestRunning, Acquire, StopRunning, Join, vars
  <2>4. stopping' \in {"no", "put", "join", "joined"}
    BY DEF PipelineInv, TypeOK, TestRunning, Acquire, StopRunning, Join, vars
  <2> QED BY <1>1, <2>1, <2>2, <2>3, <2>4 DEF PipelineInv, TypeOK
<1>4. PermitsCount'
  BY <1>1 DEF PipelineInv, TypeOK, PermitsCount, TestRunning, Acquire, StopRunning, Join, vars
<1>5. NullFromStop'
  BY <1>1 DEF PipelineInv, NullFromStop, BuffersIn, TestRunning, Acquire, StopRunning, Join,
              vars
<1>6. TakenInHand'
  BY <1>1 DEF PipelineInv, TakenInHand, TestRunning, Acquire, StopRunning, Join, vars
<1> QED BY <1>2, <1>3, <1>4, <1>5, <1>6 DEF PipelineInv

-----------------------------------------------------------------------------
(* The pipeline is correct *)

\* An empty pipeline satisfies the invariant.
LEMMA InitPipeline == Init => PipelineInv
<1> SUFFICES ASSUME Init PROVE PipelineInv
  OBVIOUS
<1> USE NothingFacts, PipelineAssumption DEF Init
<1>1. TypeOK
  <2>1. NoPacket \in 0 .. MaxPackets
    BY DEF NoPacket
  <2>2. content \in [Buffers -> 0 .. MaxPackets]
    BY <2>1
  <2>3. holding \in [Producers -> Elements] /\ taken \in Elements
    OBVIOUS
  <2>4. queue \in Seq(Elements) /\ processed \in Seq(1 .. MaxPackets)
    OBVIOUS
  <2>5. permits \in Nat /\ made \in 0 .. MaxPackets /\ usedBuffers \subseteq Buffers
    BY DEF NoPacket
  <2> QED BY <2>2, <2>3, <2>4, <2>5 DEF TypeOK
<1>2. queue = <<>> /\ BuffersIn(queue) = {} /\ Len(queue) = 0
  BY DEF BuffersIn
<1>3. NoBufferLeak
  <2>1. \A p \in Producers : holding[p].buffer = NoBuffer
    OBVIOUS
  <2> QED BY <2>1, <1>2 DEF NoBufferLeak
<1> QED BY <1>1, <1>2, <1>3
        DEF PipelineInv, NeverAborts, PacketsIntact, QueueDistinct, OneOwner, HeldIntact,
            PermitsCount, NullFromStop, TakenInHand

\* Every step keeps it.
LEMMA NextPipeline == PipelineInv /\ [Next]_vars => PipelineInv'
  BY ProduceKeeps, ProducerPutKeeps, PutNullKeeps, GetInternalKeeps, ProcessKeeps,
     ReuseKeeps, ControlStepsKeep
     DEF Next, Consume

\* The inductive invariant holds in every state, for any number of producers,
\* buffers and packets and any queue that is larger than the pool.
LEMMA PipelineInvHolds == Spec => []PipelineInv
  BY InitPipeline, NextPipeline, PTL DEF Spec

\* Every variable of the pipeline keeps its type.
THEOREM PipelineTyped == Spec => []TypeOK
<1>1. PipelineInv => TypeOK
  BY DEF PipelineInv
<1> QED BY PipelineInvHolds, <1>1, PTL

\* BlockingQueue::Put never meets a full queue and GetInternal never an empty
\* one, although producers, the consumer and Stop interleave freely: a queue
\* that is one larger than the pool has room for all its buffers and the NULL.
THEOREM PipelineNeverAborts == Spec => []NeverAborts
<1>1. PipelineInv => NeverAborts
  BY DEF PipelineInv
<1> QED BY PipelineInvHolds, <1>1, PTL

\* A packet that is queued or being handled still stands in its buffer.
THEOREM PipelineKeepsPackets == Spec => []PacketsIntact
<1>1. PipelineInv => PacketsIntact
  BY DEF PipelineInv
<1> QED BY PipelineInvHolds, <1>1, PTL

\* The used buffers of the pool are those in somebody's hands or in the queue.
THEOREM PipelineLeaksNothing == Spec => []NoBufferLeak
<1>1. PipelineInv => NoBufferLeak
  BY DEF PipelineInv
<1> QED BY PipelineInvHolds, <1>1, PTL
=============================================================================
