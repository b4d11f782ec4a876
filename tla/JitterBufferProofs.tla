-------------------------- MODULE JitterBufferProofs -------------------------
(* Proofs about the jitter buffer, for any number of slots, frames, ticks and *)
(* resets and any delays.                                                     *)
EXTENDS JitterBuffer, FiniteSetTheorems, WellFoundedInduction, TLAPS

-----------------------------------------------------------------------------
(* Losses *)

\* What was reported and what is to be reported are losses that happened. The
\* count that is to be reported may be negative: a late frame is subtracted,
\* whether its loss was counted or not.
LossInv ==
    /\ recvLossCount \in Nat /\ missed \in Nat /\ lostPackets \in Int
    /\ recvLossCount <= missed
    /\ recvLossCount + lostPackets <= missed

\* Steps that count no loss keep the invariant.
LEMMA LossesKept ==
    ASSUME LossInv, UNCHANGED <<recvLossCount, missed>>, NEW n \in {0, 1},
           lostPackets' = lostPackets - n
    PROVE  LossInv'
    BY DEF LossInv

\* Every step keeps the loss counts within what was missed.
LEMMA NextLosses == LossInv /\ [Next]_vars => LossInv'
<1> SUFFICES ASSUME LossInv, [Next]_vars PROVE LossInv'
  OBVIOUS
<1>0. lostPackets \in Int
  BY DEF LossInv
<1>8. ASSUME UNCHANGED <<recvLossCount, missed, lostPackets>> PROVE LossInv'
  BY <1>8 DEF LossInv
<1>1. CASE SetMinPacketCount \/ ResetFlags \/ ResetSlots
  BY <1>1, <1>8 DEF SetMinPacketCount, ResetFlags, ResetSlots, lossVars
<1>2. ASSUME NEW timestamp \in Frames, HandleInput(timestamp) PROVE LossInv'
  <2>1. UNCHANGED <<recvLossCount, missed>>
    BY <1>2 DEF HandleInput
  <2>2. PICK n \in {0, 1} : lostPackets' = lostPackets - n
    BY <1>2 DEF HandleInput
  <2> QED BY <1>0, <2>1, <2>2, LossesKept
<1>3. CASE GetFinds \/ GetTakes
  BY <1>3, <1>8 DEF GetFinds, GetTakes, lossVars
<1>4. CASE GetMisses
  <2>1. \E n \in {0, 1} : missed' = missed + n /\ lostPackets' = lostPackets + n
    BY <1>4 DEF GetMisses
  <2>2. recvLossCount' = recvLossCount
    BY <1>4 DEF GetMisses
  <2> QED BY <2>1, <2>2 DEF LossInv
<1>5. CASE CollectLosses
  <2>1. /\ lostPackets' = 0 /\ missed' = missed
        /\ recvLossCount' = IF lostPackets > 0 \/ recvLossCount > -lostPackets
                            THEN recvLossCount + lostPackets ELSE recvLossCount
    BY <1>5 DEF CollectLosses
  <2> QED BY <2>1 DEF LossInv
<1>6. CASE Tick
  BY <1>6, <1>8 DEF Tick, lossVars
<1>7. CASE UNCHANGED vars
  BY <1>7 DEF vars, lossVars, LossInv
<1> QED BY <1>1, <1>2, <1>3, <1>4, <1>5, <1>6, <1>7 DEF Next, Receive, Decode

\* The loss count that every header reports to the peer is never negative and
\* never exceeds the positions that had no frame, in whatever order frames come
\* late, are collected and subtracted.
THEOREM OnlyMissedAreReported == Spec => []LossesWereMissed
<1>1. Init => LossInv
  BY DEF Init, LossInv
<1>2. LossInv => LossesWereMissed
  BY DEF LossInv, LossesWereMissed
<1> QED BY <1>1, <1>2, NextLosses, PTL DEF Spec

-----------------------------------------------------------------------------
(* Buffers *)

SlotType == [buffer : 0 .. SlotCount, timestamp : Nat]

\* u is exactly the buffers that the slots s hold, each of them once.
Exact(s, u) ==
    /\ s \in [Slots -> SlotType]
    /\ u = Buffered(s, Used(s))
    /\ \A i, j \in Used(s) : s[i].buffer = s[j].buffer => i = j

PoolInv ==
    /\ Exact(slots, used)
    /\ Cardinality(Used(slots)) <= MaxUsedSlots
    /\ slot \in 0 .. SlotCount

\* A free slot is an element of the slots' type.
LEMMA FreeIsFree == Free \in SlotType /\ Free.buffer = NoBuffer
    BY JitterAssumption DEF Free, SlotType, NoBuffer, NoFrame

\* The used slots are finitely many.
LEMMA UsedIsFinite ==
    ASSUME NEW s
    PROVE  /\ Used(s) \subseteq Slots /\ IsFiniteSet(Slots) /\ IsFiniteSet(Used(s))
           /\ Cardinality(Used(s)) \in Nat
<1>1. Used(s) \subseteq Slots
  BY DEF Used
<1>2. IsFiniteSet(Slots)
  BY JitterAssumption, FS_Interval DEF Slots
<1>3. IsFiniteSet(Used(s))
  BY <1>1, <1>2, FS_Subset
<1> QED BY <1>1, <1>2, <1>3, FS_CardinalityType

\* The buffers of the used slots are no null pointers.
LEMMA BuffersAreNotNull ==
    ASSUME NEW s, NEW u, Exact(s, u)
    PROVE  NoBuffer \notin u
    BY DEF Exact, Buffered, Used

\* Slots that are released return their buffers, and no others.
LEMMA ReleaseIsExact ==
    ASSUME NEW s, NEW u, Exact(s, u), NEW S \in SUBSET Slots
    PROVE  /\ Exact(Released(s, S), u \ Buffered(s, S))
           /\ Used(Released(s, S)) = Used(s) \ S
           /\ \A i \in Slots \ S : Released(s, S)[i] = s[i]
<1> DEFINE r == Released(s, S)
<1>1. /\ r \in [Slots -> SlotType]
      /\ \A i \in Slots : r[i] = IF i \in S THEN Free ELSE s[i]
  BY FreeIsFree DEF Released, Exact
<1> HIDE DEF r
<1>2. Used(r) = Used(s) \ S
  BY <1>1, FreeIsFree DEF Used
<1>3. u \ Buffered(s, S) = Buffered(r, Used(r))
  <2>1. ASSUME NEW b \in u \ Buffered(s, S) PROVE b \in Buffered(r, Used(r))
    <3>1. PICK i \in Used(s) : s[i].buffer = b
      BY DEF Exact, Buffered
    <3>2. i \notin S
      BY <3>1 DEF Buffered
    <3>3. i \in Used(r) /\ r[i] = s[i]
      BY <1>1, <1>2, <3>2 DEF Used
    <3> QED BY <3>1, <3>3 DEF Buffered
  <2>2. ASSUME NEW b \in Buffered(r, Used(r)) PROVE b \in u \ Buffered(s, S)
    <3>1. PICK i \in Used(r) : r[i].buffer = b
      BY DEF Buffered
    <3>2. i \in Used(s) /\ i \notin S /\ s[i].buffer = b /\ b # NoBuffer
      BY <1>1, <1>2, <3>1 DEF Used
    <3>3. b \in u
      BY <3>2 DEF Exact, Buffered
    <3>4. ASSUME NEW j \in S, s[j].buffer = b PROVE FALSE
      <4>1. j \in Used(s)
        BY <3>2, <3>4 DEF Used
      <4> QED BY <3>2, <3>4, <4>1 DEF Exact
    <3> QED BY <3>3, <3>4 DEF Buffered
  <2> QED BY <2>1, <2>2
<1>4. \A i, j \in Used(r) : r[i].buffer = r[j].buffer => i = j
  <2> SUFFICES ASSUME NEW i \in Used(r), NEW j \in Used(r), r[i].buffer = r[j].buffer
               PROVE  i = j
    OBVIOUS
  <2>1. i \in Used(s) /\ j \in Used(s) /\ r[i] = s[i] /\ r[j] = s[j]
    BY <1>1, <1>2 DEF Used
  <2> QED BY <2>1 DEF Exact
<1>5. Exact(r, u \ Buffered(s, S))
  BY <1>1, <1>3, <1>4 DEF Exact
<1> QED BY <1>1, <1>2, <1>5 DEF r

\* A buffer that is not in use, or none, is put into a slot that is not used.
LEMMA StoreIsExact ==
    ASSUME NEW s, NEW u, Exact(s, u), NEW i \in Slots \ Used(s),
           NEW b \in 0 .. SlotCount, b \notin u, NEW t \in Nat
    PROVE  LET r == [s EXCEPT ![i] = [buffer |-> b, timestamp |-> t]]
           IN  /\ Exact(r, u \cup ({b} \ {NoBuffer}))
               /\ Used(r) \subseteq Used(s) \cup {i}
<1> DEFINE e == [buffer |-> b, timestamp |-> t]
           r == [s EXCEPT ![i] = e]
<1>1. e \in SlotType /\ e.buffer = b
  BY DEF SlotType
<1> HIDE DEF e
<1>2. /\ r \in [Slots -> SlotType] /\ r[i] = e
      /\ \A j \in Slots : j # i => r[j] = s[j]
  BY <1>1 DEF Exact
<1> HIDE DEF r
<1>3. Used(r) = Used(s) \cup (IF b = NoBuffer THEN {} ELSE {i})
  BY <1>1, <1>2 DEF Used
<1>4. \A j \in Used(s) : r[j] = s[j] /\ s[j].buffer \in u /\ s[j].buffer # b
  BY <1>2 DEF Used, Exact, Buffered
<1>5. u \cup ({b} \ {NoBuffer}) = Buffered(r, Used(r))
  <2>1. ASSUME NEW c \in u PROVE c \in Buffered(r, Used(r))
    <3>1. PICK j \in Used(s) : s[j].buffer = c
      BY DEF Exact, Buffered
    <3> QED BY <3>1, <1>3, <1>4 DEF Buffered
  <2>2. b # NoBuffer => b \in Buffered(r, Used(r))
    BY <1>1, <1>2, <1>3 DEF Buffered
  <2>3. ASSUME NEW j \in Used(r) PROVE r[j].buffer \in u \cup ({b} \ {NoBuffer})
    BY <1>1, <1>2, <1>3, <1>4
  <2> QED BY <2>1, <2>2, <2>3 DEF Buffered
<1>6. \A j, k \in Used(r) : r[j].buffer = r[k].buffer => j = k
  <2> SUFFICES ASSUME NEW j \in Used(r), NEW k \in Used(r), r[j].buffer = r[k].buffer
               PROVE  j = k
    OBVIOUS
  <2>1. CASE j \in Used(s) /\ k \in Used(s)
    BY <1>4, <2>1 DEF Exact
  <2>2. CASE j = i \/ k = i
    BY <1>1, <1>2, <1>3, <1>4, <2>2
  <2> QED BY <1>3, <2>1, <2>2
<1>7. Exact(r, u \cup ({b} \ {NoBuffer}))
  BY <1>2, <1>5, <1>6 DEF Exact
<1> QED BY <1>3, <1>7 DEF r, e

\* A set of naturals has a least element.
LEMMA LeastExists ==
    ASSUME NEW S \in SUBSET Nat, S # {}
    PROVE  \E x \in S : \A y \in S : x <= y
<1> DEFINE R == {ss \in Nat \X Nat : ss[1] < ss[2]}
<1>1. OpToRel(<, Nat) = R
  BY DEF OpToRel
<1>2. IsWellFoundedOn(R, Nat)
  BY <1>1, NatLessThanWellFounded
<1>3. PICK x \in S : \A y \in S : ~(<<y, x>> \in R)
  <2> HIDE DEF R
  <2> QED BY <1>2, WFMin, Zenon
<1>4. ASSUME NEW y \in S, ~(x <= y) PROVE FALSE
  <2>1. x \in Nat /\ y \in Nat /\ y < x
    BY <1>4
  <2>2. <<y, x>> \in R
    BY <2>1
  <2> HIDE DEF R
  <2> QED BY <2>2, <1>3
<1> QED BY <1>4

\* Min finds the least element.
LEMMA MinIsLeast ==
    ASSUME NEW S \in SUBSET Nat, S # {}
    PROVE  Min(S) \in S
<1>1. \E x \in S : \A y \in S : x <= y
  BY LeastExists
<1> QED BY <1>1 DEF Min

\* BufferPool::Get returns a buffer that is not used, or none.
LEMMA GetIsUnused ==
    ASSUME NEW u, NoBuffer \notin u
    PROVE  Get(u) \in 0 .. SlotCount /\ Get(u) \notin u
<1>1. CASE Buffers \subseteq u
  BY <1>1, JitterAssumption DEF Get, NoBuffer
<1>2. CASE ~(Buffers \subseteq u)
  <2>1. Buffers \ u \in SUBSET Nat /\ Buffers \ u # {}
    <3>1. Buffers \subseteq Nat
      BY JitterAssumption DEF Buffers
    <3> QED BY <1>2, <3>1
  <2>2. Min(Buffers \ u) \in Buffers \ u
    BY <2>1, MinIsLeast
  <2> QED BY <1>2, <2>2, JitterAssumption DEF Get, Buffers
<1> QED BY <1>1, <1>2

\* Timestamps are multiples of the step.
LEMMA FramesAreNat == Frames \subseteq Nat \ {0}
<1>1. \A i \in 1 .. MaxFrames : Step * i \in Nat \ {0}
  BY JitterAssumption
<1> QED BY <1>1 DEF Frames

\* The slot with the oldest frame is found.
LEMMA OldestExists ==
    ASSUME NEW s \in [Slots -> SlotType], NEW U \in SUBSET Slots, U # {}
    PROVE  (CHOOSE j \in U : \A k \in U : s[j].timestamp <= s[k].timestamp) \in U
<1> DEFINE T == {s[j].timestamp : j \in U}
<1>1. T \in SUBSET Nat /\ T # {}
  BY DEF SlotType
<1>2. PICK x \in T : \A y \in T : x <= y
  <2> HIDE DEF T
  <2> QED BY <1>1, LeastExists
<1>3. \E j \in U : \A k \in U : s[j].timestamp <= s[k].timestamp
  BY <1>2
<1> QED BY <1>3

\* PutInternal keeps the pool exact: stale slots are released, the oldest frame
\* is evicted from a full buffer, and the new frame gets a free slot.
LEMMA HandleInputPool ==
    ASSUME PoolInv, NEW timestamp \in Frames, HandleInput(timestamp)
    PROVE  PoolInv'
<1> DEFINE start == IF wasReset THEN timestamp - Step * minDelay ELSE nextTimestamp
           old == {i \in Used(slots) : slots[i].timestamp < start - 1}
           kept == Released(slots, old)
           evicts == Used(kept) = Slots \/ GetCurrentDelay(kept) >= MaxUsedSlots
           i == IF evicts
                THEN CHOOSE j \in Used(kept) : \A k \in Used(kept) :
                         kept[j].timestamp <= kept[k].timestamp
                ELSE Min(Slots \ Used(kept))
           reused == Buffered(slots, old)
                         \cup (IF evicts THEN {kept[i].buffer} ELSE {})
           buffer == Get(used \ reused)
<1>1. /\ slots' = [kept EXCEPT ![i] = [buffer |-> buffer, timestamp |-> timestamp]]
      /\ used' = (used \ reused) \cup ({buffer} \ {NoBuffer})
      /\ slot' = slot
  BY DEF HandleInput, decoderVars
<1>2. old \in SUBSET Slots
  BY DEF Used
<1> HIDE DEF old, start
<1>3. /\ Exact(kept, used \ Buffered(slots, old))
      /\ Used(kept) = Used(slots) \ old
  BY <1>2, ReleaseIsExact DEF PoolInv
<1> HIDE DEF kept
<1>4. /\ Used(kept) \subseteq Slots /\ IsFiniteSet(Used(kept)) /\ IsFiniteSet(Used(slots))
      /\ Cardinality(Used(kept)) \in Nat /\ Cardinality(Used(slots)) \in Nat
  BY UsedIsFinite
<1>5. Cardinality(Used(kept)) <= MaxUsedSlots
  <2>1. Cardinality(Used(kept)) <= Cardinality(Used(slots))
    BY <1>3, <1>4, FS_Subset
  <2> QED BY <1>4, <2>1, JitterAssumption DEF PoolInv
<1>6. timestamp \in Nat
  BY FramesAreNat
<1>7. kept \in [Slots -> SlotType]
  BY <1>3 DEF Exact
\* The slots once the evicted frame is gone, and the buffers they use.
<1> DEFINE s == IF evicts THEN Released(kept, {i}) ELSE kept
<1>8. /\ i \in Slots /\ i \notin Used(s) /\ Exact(s, used \ reused)
      /\ Cardinality(Used(s)) + 1 <= MaxUsedSlots
      /\ Used(s) \subseteq Used(kept)
      /\ slots' = [s EXCEPT ![i] = [buffer |-> buffer, timestamp |-> timestamp]]
  <2>1. CASE evicts
    <3>1. Used(kept) # {}
      <4>1. Slots # {}
        BY JitterAssumption DEF Slots
      <4>2. Used(kept) = {} => Cardinality(Used(kept)) = 0
        BY FS_EmptySet
      <4>3. MaxUsedSlots \in Nat /\ MaxUsedSlots > 0
        BY JitterAssumption
      <4>4. CASE Used(kept) = Slots
        BY <4>1, <4>4
      <4>5. CASE GetCurrentDelay(kept) >= MaxUsedSlots
        BY <4>2, <4>3, <4>5 DEF GetCurrentDelay
      <4>6. Used(kept) = Slots \/ GetCurrentDelay(kept) >= MaxUsedSlots
        BY <2>1
      <4> HIDE DEF evicts
      <4> QED BY <4>4, <4>5, <4>6, Zenon
    <3>2. i \in Used(kept)
      BY <2>1, <3>1, <1>4, <1>7, OldestExists
    <3> HIDE DEF i
    <3>3. i \in Slots /\ {i} \in SUBSET Slots
      BY <3>2, <1>4
    <3>4. /\ Exact(s, (used \ Buffered(slots, old)) \ Buffered(kept, {i}))
          /\ Used(s) = Used(kept) \ {i}
      BY <2>1, <3>3, <1>3, ReleaseIsExact
    <3>5. (used \ Buffered(slots, old)) \ Buffered(kept, {i}) = used \ reused
      BY <2>1 DEF Buffered
    <3>6. Cardinality(Used(s)) + 1 <= MaxUsedSlots
      <4>1. Cardinality(Used(kept) \ {i}) = Cardinality(Used(kept)) - 1
        BY <3>2, <1>4, FS_RemoveElement
      <4>2. Cardinality(Used(s)) = Cardinality(Used(kept)) - 1
        BY <3>4, <4>1
      <4> HIDE DEF s, evicts
      <4> QED BY <4>2, <1>4, <1>5, JitterAssumption
    <3>7. slots' = [s EXCEPT ![i] = [buffer |-> buffer, timestamp |-> timestamp]]
      <4> DEFINE e == [buffer |-> buffer, timestamp |-> timestamp]
      <4> HIDE DEF e, buffer
      <4>1. s = [j \in Slots |-> IF j \in {i} THEN Free ELSE kept[j]]
        BY <2>1 DEF Released
      <4>2. slots' = [kept EXCEPT ![i] = e]
        BY <1>1 DEF e
      <4>3. [s EXCEPT ![i] = e] = [kept EXCEPT ![i] = e]
        BY <4>1, <1>7, <3>3
      <4> QED BY <4>2, <4>3 DEF e
    <3> QED BY <3>3, <3>4, <3>5, <3>6, <3>7
  <2>2. CASE ~evicts
    <3>1. s = kept /\ reused = Buffered(slots, old)
      BY <2>2
    <3>2. Slots \ Used(kept) \in SUBSET Nat /\ Slots \ Used(kept) # {}
      <4>1. Slots \subseteq Nat
        BY JitterAssumption DEF Slots
      <4> QED BY <2>2, <4>1, <1>4
    <3>3. i \in Slots \ Used(kept)
      BY <2>2, <3>2, MinIsLeast
    <3>4. Cardinality(Used(kept)) + 1 <= MaxUsedSlots
      BY <2>2, <1>4, JitterAssumption DEF GetCurrentDelay
    <3> HIDE DEF i, buffer
    <3> QED BY <1>1, <1>3, <3>1, <3>3, <3>4
  <2> QED BY <2>1, <2>2
<1> HIDE DEF s, i, reused, evicts
<1>9. buffer \in 0 .. SlotCount /\ buffer \notin used \ reused
  <2>1. NoBuffer \notin used \ reused
    BY <1>8, BuffersAreNotNull
  <2> QED BY <2>1, GetIsUnused
<1> HIDE DEF buffer
<1> DEFINE r == [s EXCEPT ![i] = [buffer |-> buffer, timestamp |-> timestamp]]
           u == used \ reused
<1>10. /\ Exact(slots', used') /\ Used(slots') \subseteq Used(s) \cup {i}
  <2>1. Exact(s, u) /\ i \in Slots \ Used(s) /\ buffer \notin u
    BY <1>8, <1>9
  <2>2. slots' = r /\ used' = u \cup ({buffer} \ {NoBuffer})
    BY <1>1, <1>8
  <2> HIDE DEF u
  <2>3. /\ Exact(r, u \cup ({buffer} \ {NoBuffer}))
        /\ Used(r) \subseteq Used(s) \cup {i}
    BY <2>1, <1>6, <1>9, StoreIsExact
  <2> QED BY <2>2, <2>3
<1>11. Cardinality(Used(slots')) <= MaxUsedSlots
  <2>1. IsFiniteSet(Used(s)) /\ Cardinality(Used(s)) \in Nat
    BY UsedIsFinite
  <2>2. IsFiniteSet(Used(s) \cup {i}) /\ Cardinality(Used(s) \cup {i}) = Cardinality(Used(s)) + 1
    BY <2>1, <1>8, FS_AddElement
  <2>3. Cardinality(Used(slots')) <= Cardinality(Used(s)) + 1
    BY <2>2, <1>10, FS_Subset
  <2>4. Cardinality(Used(slots')) \in Nat
    BY UsedIsFinite
  <2> QED BY <1>8, <2>1, <2>3, <2>4, JitterAssumption
<1> QED BY <1>1, <1>10, <1>11 DEF PoolInv, Used

\* GetInternal and Reset release slots.
LEMMA ReleasePool ==
    ASSUME PoolInv, NEW S \in SUBSET Slots, slots' = Released(slots, S),
           used' = used \ Buffered(slots, S), slot' \in 0 .. SlotCount
    PROVE  PoolInv'
<1>1. Exact(slots', used') /\ Used(slots') = Used(slots) \ S
  BY ReleaseIsExact DEF PoolInv
<1>2. /\ IsFiniteSet(Used(slots)) /\ Cardinality(Used(slots)) \in Nat
      /\ Cardinality(Used(slots')) \in Nat
  BY UsedIsFinite
<1>3. Cardinality(Used(slots')) <= Cardinality(Used(slots))
  BY <1>1, <1>2, FS_Subset
<1>4. Cardinality(Used(slots')) <= MaxUsedSlots
  BY <1>2, <1>3, JitterAssumption DEF PoolInv
<1> QED BY <1>1, <1>4 DEF PoolInv, Used

\* The decoder takes a frame, or finds that its slot was released.
LEMMA GetTakesPool ==
    ASSUME PoolInv, GetTakes
    PROVE  PoolInv'
<1>1. slot' = 0 /\ 0 \in 0 .. SlotCount /\ slot # 0
  BY JitterAssumption DEF GetTakes, MutexFree
<1>2. slot \in Slots
  BY <1>1, JitterAssumption DEF PoolInv, Slots
<1>3. CASE slots[slot].buffer = NoBuffer
  <2>1. UNCHANGED <<slots, used>>
    BY <1>3 DEF GetTakes, bufferVars
  <2> QED BY <1>1, <2>1 DEF PoolInv, Exact, Used, Buffered
<1>4. CASE slots[slot].buffer # NoBuffer
  <2>1. used' = used \ {slots[slot].buffer} /\ slots' = [slots EXCEPT ![slot] = Free]
    BY <1>4 DEF GetTakes
  <2>2. used' = used \ Buffered(slots, {slot})
    BY <2>1 DEF Buffered
  <2>3. slots \in [Slots -> SlotType]
    BY DEF PoolInv, Exact
  <2>4. slots' = Released(slots, {slot})
    BY <1>2, <2>1, <2>3 DEF Released
  <2> QED BY <1>1, <1>2, <2>2, <2>4, ReleasePool
<1> QED BY <1>3, <1>4

\* The decoder finds no frame, and resets the buffer after too many losses.
LEMMA GetMissesPool ==
    ASSUME PoolInv, GetMisses
    PROVE  PoolInv'
<1>1. slot' = slot /\ slot \in 0 .. SlotCount
  BY DEF GetMisses, PoolInv
<1>2. \/ slots' = Released(slots, Slots) /\ used' = used \ Buffered(slots, Slots)
      \/ UNCHANGED <<slots, used>>
  BY DEF GetMisses
<1>3. CASE slots' = Released(slots, Slots) /\ used' = used \ Buffered(slots, Slots)
  BY <1>1, <1>3, ReleasePool
<1>4. CASE UNCHANGED <<slots, used>>
  BY <1>1, <1>4 DEF PoolInv, Exact, Used, Buffered
<1> QED BY <1>2, <1>3, <1>4

\* Every step keeps the pool exact.
LEMMA NextPool == PoolInv /\ [Next]_vars => PoolInv'
<1> SUFFICES ASSUME PoolInv, [Next]_vars PROVE PoolInv'
  OBVIOUS
<1>1. ASSUME UNCHANGED <<slots, used, slot>> PROVE PoolInv'
  BY <1>1 DEF PoolInv, Exact, Used, Buffered
<1>2. CASE SetMinPacketCount \/ ResetFlags \/ CollectLosses \/ Tick \/ UNCHANGED vars
  BY <1>1, <1>2 DEF SetMinPacketCount, ResetFlags, CollectLosses, Tick, vars, bufferVars,
                    decoderVars
<1>3. CASE \E timestamp \in Frames : HandleInput(timestamp)
  BY <1>3, HandleInputPool
<1>4. CASE ResetSlots
  <2>1. /\ slots' = Released(slots, Slots) /\ used' = used \ Buffered(slots, Slots)
        /\ slot' \in 0 .. SlotCount
    BY <1>4 DEF ResetSlots, decoderVars, PoolInv
  <2> QED BY <2>1, ReleasePool
<1>5. CASE GetFinds
  <2>1. UNCHANGED <<slots, used>> /\ slot' \in Slots
    BY <1>5 DEF GetFinds, bufferVars, Used
  <2>2. slot' \in 0 .. SlotCount
    BY <2>1, JitterAssumption DEF Slots
  <2> QED BY <2>1, <2>2 DEF PoolInv, Exact, Used, Buffered
<1>6. CASE GetTakes
  BY <1>6, GetTakesPool
<1>7. CASE GetMisses
  BY <1>7, GetMissesPool
<1> QED BY <1>2, <1>3, <1>4, <1>5, <1>6, <1>7 DEF Next, Receive, Decode

\* An empty buffer uses nothing.
LEMMA InitPool == Init => PoolInv
<1> SUFFICES ASSUME Init PROVE PoolInv
  OBVIOUS
<1>1. slots \in [Slots -> SlotType] /\ \A i \in Slots : slots[i].buffer = NoBuffer
  BY FreeIsFree DEF Init
<1>2. Used(slots) = {}
  BY <1>1 DEF Used
<1>3. Cardinality(Used(slots)) <= MaxUsedSlots /\ slot \in 0 .. SlotCount
  <2>1. Cardinality(Used(slots)) = 0
    BY <1>2, FS_EmptySet, Zenon
  <2>2. slot = 0
    BY DEF Init
  <2> QED BY <2>1, <2>2, JitterAssumption
<1>4. Exact(slots, used)
  BY <1>1, <1>2 DEF Exact, Buffered, Init
<1> QED BY <1>3, <1>4 DEF PoolInv

\* As many buffers are in use as slots hold one.
LEMMA PoolCounted == PoolInv => PoolExact
<1> SUFFICES ASSUME PoolInv PROVE PoolExact
  OBVIOUS
<1> DEFINE f == [i \in Used(slots) |-> slots[i].buffer]
<1>1. used = Buffered(slots, Used(slots))
  BY DEF PoolInv, Exact
<1>2. f \in [Used(slots) -> used] /\ \A b \in used : \E i \in Used(slots) : f[i] = b
  BY <1>1 DEF Buffered
<1>3. \A i, j \in Used(slots) : f[i] = f[j] => i = j
  BY DEF PoolInv, Exact
<1> HIDE DEF f
<1>4. f \in Bijection(Used(slots), used)
  BY <1>2, <1>3 DEF Bijection, Injection, Surjection, IsInjective
<1>5. ExistsBijection(Used(slots), used)
  BY <1>4 DEF ExistsBijection
<1>6. Cardinality(used) = Cardinality(Used(slots))
  BY <1>5, UsedIsFinite, FS_Bijection
<1> QED BY <1>1, <1>6 DEF PoolExact, GetCurrentDelay, PoolInv

\* The pool and the slots agree: no eviction, late packet, reset or output leaks
\* a buffer or gives it to two packets, and the buffer never holds more than
\* maxUsedSlots frames. It holds although Reset runs without the mutex.
THEOREM PoolIsExact == Spec => []PoolExact
  BY InitPool, NextPool, PoolCounted, PTL DEF Spec

-----------------------------------------------------------------------------
(* Order *)

\* Of a sequence of decoded frames, those that were decoded in their turn are in
\* order, or come before a position.
Decodings == [timestamp : Frames, evictions : 0 .. 2, resynced : BOOLEAN]
Sorted(d) ==
    \A i, j \in 1 .. Len(d) :
        i < j /\ InTurn(d[i]) /\ InTurn(d[j]) => d[i].timestamp < d[j].timestamp
Before(d, t) == \A i \in 1 .. Len(d) : InTurn(d[i]) => d[i].timestamp < t

OrderTypes ==
    /\ decoded \in Seq(Decodings)
    /\ nextBuffer \in Frames \cup {NoFrame}
    /\ arrived \subseteq Frames
    /\ minDelay \in Nat
    /\ nextTimestamp \in Int
    /\ evictions \in 0 .. 2
    /\ decoder \in {"fetch", "recover"}
    /\ fresh \in BOOLEAN

\* A frame arrives once, and is in one slot or in the decoder's hand.
OnePlace ==
    /\ \A i \in Used(slots) : slots[i].timestamp \in arrived
    /\ \A i, j \in Used(slots) : slots[i].timestamp = slots[j].timestamp => i = j
    /\ nextBuffer # NoFrame =>
           nextBuffer \in arrived /\ \A i \in Used(slots) : slots[i].timestamp # nextBuffer

\* The slot that a search found still holds what was searched, unless Reset
\* released it.
Found ==
    slot # 0 /\ slot \in Used(slots) =>
        slots[slot].timestamp = nextTimestamp + Offset * Step

\* No frame is left, and the next one will set the position anew.
Flushed == wasReset /\ Used(slots) = {}

\* The position is after all that was decoded, by a step when the fetch found
\* nothing, by two when it is to be recovered; and it is after the frame in
\* hand, by no more than the steps that were made since it was fetched.
Placed ==
    /\ nextTimestamp <= Beyond
    /\ Before(decoded, nextTimestamp)
    /\ decoder = "fetch" /\ nextBuffer = NoFrame => Before(decoded, nextTimestamp - Step)
    /\ decoder = "recover" => Before(decoded, nextTimestamp - 2 * Step)
    /\ fresh /\ nextBuffer # NoFrame =>
           /\ nextBuffer < nextTimestamp
           /\ evictions = 0 => nextTimestamp <= nextBuffer + Step
           /\ evictions = 1 => nextTimestamp <= nextBuffer + 2 * Step

OrderInv ==
    /\ OrderTypes /\ OnePlace /\ Found
    /\ Sorted(decoded)
    /\ fresh /\ nextBuffer # NoFrame => Before(decoded, nextBuffer)
    /\ ~Flushed => Placed

\* Frames lie three steps before the end of the positions.
LEMMA FrameBounds ==
    /\ Step \in Nat \ {0} /\ Beyond \in Nat
    /\ \A t \in Frames : t \in Nat /\ t > 0 /\ t + 3 * Step <= Beyond
<1>1. Step \in Nat \ {0} /\ MaxFrames \in Nat
  BY JitterAssumption
<1>2. Beyond \in Nat /\ Beyond = Step * MaxFrames + 3 * Step
  BY <1>1 DEF Beyond
<1>3. ASSUME NEW i \in 1 .. MaxFrames
      PROVE  Step * i \in Nat /\ Step * i > 0 /\ Step * i <= Step * MaxFrames
  <2>1. PICK k \in Nat : MaxFrames = i + k
    BY <1>1
  <2>2. Step * MaxFrames = Step * i + Step * k /\ Step * k \in Nat
    BY <1>1, <2>1
  <2> QED BY <1>1, <2>2
<1>4. Step * MaxFrames \in Nat
  BY <1>1
<1>5. ASSUME NEW t \in Frames PROVE t \in Nat /\ t > 0 /\ t + 3 * Step <= Beyond
  <2>1. PICK i \in 1 .. MaxFrames : t = Step * i
    BY DEF Frames
  <2> QED BY <1>1, <1>2, <1>3, <1>4, <2>1
<1> QED BY <1>1, <1>2, <1>5

\* A position within the bound moves forward by at most a step, and by less only
\* to the end of the positions.
LEMMA AdvanceIsForward ==
    ASSUME NEW n \in Int, n <= Beyond
    PROVE  /\ Advance(n) \in Int /\ Advance(n) <= Beyond
           /\ n <= Advance(n) /\ Advance(n) <= n + Step
           /\ Advance(n) = n + Step \/ Advance(n) = Beyond
    BY FrameBounds DEF Advance

\* What comes before a position comes before a later one, and every frame comes
\* before the last positions.
LEMMA BeforeLater ==
    ASSUME NEW d \in Seq(Decodings)
    PROVE  /\ \A a, b \in Int : a <= b /\ Before(d, a) => Before(d, b)
           /\ Before(d, Beyond - 2 * Step) /\ Before(d, Beyond - Step) /\ Before(d, Beyond)
<1>1. \A i \in 1 .. Len(d) : d[i] \in Decodings
  OBVIOUS
<1>2. \A i \in 1 .. Len(d) : d[i].timestamp \in Nat /\ d[i].timestamp + 3 * Step <= Beyond
  <2>1. \A i \in 1 .. Len(d) : d[i].timestamp \in Frames
    BY <1>1 DEF Decodings
  <2> QED BY <2>1, FrameBounds
<1>3. ASSUME NEW a \in Int, NEW b \in Int, a <= b, Before(d, a) PROVE Before(d, b)
  BY <1>2, <1>3 DEF Before
<1>4. Before(d, Beyond - 2 * Step) /\ Before(d, Beyond - Step) /\ Before(d, Beyond)
  BY <1>2, FrameBounds DEF Before
<1> QED BY <1>3, <1>4

\* A frame is appended that is after all others, or not in its turn.
LEMMA AppendIsSorted ==
    ASSUME NEW d \in Seq(Decodings), Sorted(d), NEW e \in Decodings,
           InTurn(e) => Before(d, e.timestamp)
    PROVE  /\ Append(d, e) \in Seq(Decodings) /\ Sorted(Append(d, e))
           /\ \A u \in Int : Before(d, u) /\ (InTurn(e) => e.timestamp < u)
                                => Before(Append(d, e), u)
<1> DEFINE a == Append(d, e)
<1>1. /\ a \in Seq(Decodings) /\ Len(a) = Len(d) + 1 /\ Len(d) \in Nat
      /\ a[Len(d) + 1] = e /\ \A i \in 1 .. Len(d) : a[i] = d[i]
  OBVIOUS
<1> HIDE DEF a
<1>2. Sorted(a)
  <2> SUFFICES ASSUME NEW i \in 1 .. Len(a), NEW j \in 1 .. Len(a), i < j,
                      InTurn(a[i]), InTurn(a[j])
               PROVE  a[i].timestamp < a[j].timestamp
    BY DEF Sorted
  <2>1. i \in 1 .. Len(d) /\ a[i] = d[i]
    BY <1>1
  <2>2. CASE j = Len(d) + 1
    <3>1. a[j] = e
      BY <1>1, <2>2
    <3> QED BY <2>1, <3>1 DEF Before
  <2>3. CASE j \in 1 .. Len(d)
    <3>1. a[j] = d[j]
      BY <1>1, <2>3
    <3> QED BY <2>1, <2>3, <3>1 DEF Sorted
  <2> QED BY <1>1, <2>2, <2>3
<1>3. ASSUME NEW u \in Int, Before(d, u), InTurn(e) => e.timestamp < u
      PROVE  Before(a, u)
  <2> SUFFICES ASSUME NEW i \in 1 .. Len(a), InTurn(a[i]) PROVE a[i].timestamp < u
    BY DEF Before
  <2>1. CASE i = Len(d) + 1
    <3>1. a[i] = e
      BY <1>1, <2>1
    <3> QED BY <1>3, <3>1
  <2>2. CASE i \in 1 .. Len(d)
    <3>1. a[i] = d[i]
      BY <1>1, <2>2
    <3> QED BY <1>3, <2>2, <3>1 DEF Before
  <2> QED BY <1>1, <2>1, <2>2
<1> QED BY <1>1, <1>2, <1>3 DEF a

\* What is recorded of a frame that was decoded.
LEMMA DecodingIsTyped ==
    ASSUME NEW t \in Frames, NEW n \in 0 .. 2, NEW resync \in BOOLEAN
    PROVE  /\ Decoding(t, n, resync) \in Decodings /\ Decoding(t, n, resync).timestamp = t
           /\ InTurn(Decoding(t, n, resync)) <=> ~resync /\ n < 2
  BY DEF Decoding, Decodings, InTurn

\* A fetch: the frame in hand is decoded, the one at the position, if there is
\* one, is taken into hand, and the position moves on.
LEMMA FetchIsOrdered ==
    ASSUME OrderTypes, Sorted(decoded), ~Flushed => Placed,
           fresh /\ nextBuffer # NoFrame => Before(decoded, nextBuffer),
           decoder = "fetch", NEW t \in Frames \cup {NoFrame}, AfterFetch(t),
           t # NoFrame => t = nextTimestamp /\ ~Flushed,
           \/ Flushed'
           \/ ~Flushed /\ nextTimestamp' = Advance(nextTimestamp)
    PROVE  /\ decoded' \in Seq(Decodings) /\ Sorted(decoded')
           /\ fresh' /\ nextBuffer' # NoFrame => Before(decoded', nextBuffer')
           /\ ~Flushed' => Placed'
<1>1. /\ nextBuffer' = t /\ fresh' = TRUE /\ evictions' = 0
      /\ decoded' = IF nextBuffer # NoFrame
                    THEN Append(decoded, Decoding(nextBuffer, 0, ~fresh)) ELSE decoded
      /\ decoder' = IF first \/ nextBuffer # NoFrame THEN "fetch" ELSE "recover"
  BY DEF AfterFetch
<1>2. decoded \in Seq(Decodings) /\ nextTimestamp \in Int /\ fresh \in BOOLEAN
  BY DEF OrderTypes
<1> DEFINE e == Decoding(nextBuffer, 0, ~fresh)
<1>3. ASSUME nextBuffer # NoFrame
      PROVE  /\ e \in Decodings /\ (InTurn(e) <=> fresh) /\ e.timestamp = nextBuffer
             /\ decoded' \in Seq(Decodings) /\ Sorted(decoded')
             /\ \A u \in Int : Before(decoded, u) /\ (fresh => nextBuffer < u)
                                  => Before(decoded', u)
  <2>1. nextBuffer \in Frames
    BY <1>3 DEF OrderTypes
  <2>2. 0 \in 0 .. 2 /\ (~fresh) \in BOOLEAN
    OBVIOUS
  <2>3. /\ e \in Decodings /\ e.timestamp = nextBuffer
        /\ InTurn(e) <=> ~~fresh /\ 0 < 2
    BY <2>1, <2>2, DecodingIsTyped, Zenon
  <2> HIDE DEF e
  <2>4. InTurn(e) <=> fresh
    BY <2>3
  <2>5. decoded' = Append(decoded, e)
    BY <1>1, <1>3 DEF e
  <2>6. InTurn(e) => Before(decoded, e.timestamp)
    BY <1>3, <2>3, <2>4
  <2>7. /\ Append(decoded, e) \in Seq(Decodings) /\ Sorted(Append(decoded, e))
        /\ \A u \in Int : Before(decoded, u) /\ (InTurn(e) => e.timestamp < u)
                             => Before(Append(decoded, e), u)
    BY <1>2, <2>3, <2>6, AppendIsSorted, Zenon
  <2> QED BY <2>3, <2>4, <2>5, <2>7
<1> HIDE DEF e
<1>13. decoded' \in Seq(Decodings) /\ Sorted(decoded')
  BY <1>1, <1>2, <1>3
<1>4. ASSUME ~Flushed PROVE Before(decoded', nextTimestamp)
  <2>1. Placed
    BY <1>4
  <2>2. CASE nextBuffer # NoFrame
    <3>1. Before(decoded, nextTimestamp) /\ (fresh => nextBuffer < nextTimestamp)
      BY <2>1, <2>2 DEF Placed
    <3> QED BY <1>2, <1>3, <2>2, <3>1
  <2>3. CASE nextBuffer = NoFrame
    BY <1>1, <2>1, <2>3 DEF Placed
  <2> QED BY <2>2, <2>3
<1>5. fresh' /\ nextBuffer' # NoFrame => Before(decoded', nextBuffer')
  BY <1>1, <1>4
<1>6. ASSUME ~Flushed' PROVE Placed'
  <2>1. /\ ~Flushed /\ Placed /\ nextTimestamp' = Advance(nextTimestamp)
        /\ nextTimestamp <= Beyond
    BY <1>6 DEF Placed
  <2> DEFINE n == nextTimestamp
             m == nextTimestamp'
  <2>2. /\ m \in Int /\ n \in Int /\ m <= Beyond /\ n <= m /\ m <= n + Step
        /\ m = n + Step \/ m = Beyond
    BY <2>1, <1>2, AdvanceIsForward
  <2>3. Before(decoded', n)
    BY <1>4, <2>1
  <2> HIDE DEF n, m
  <2>4. Before(decoded', m)
    BY <1>13, <2>2, <2>3, BeforeLater
  <2>5. Step \in Nat \ {0} /\ Beyond \in Nat
    BY FrameBounds
  <2>6. Before(decoded', m - Step)
    <3>1. CASE m = n + Step
      <4>1. m - Step = n
        BY <2>2, <2>5, <3>1
      <4> QED BY <2>3, <4>1
    <3>2. CASE m = Beyond
      BY <1>13, <3>2, BeforeLater
    <3> QED BY <2>2, <3>1, <3>2
  <2>7. ASSUME decoder' = "recover" PROVE Before(decoded', m - 2 * Step)
    <3>1. nextBuffer = NoFrame /\ decoded' = decoded
      BY <1>1, <2>7
    <3>2. CASE m = n + Step
      <4>1. m - 2 * Step = n - Step
        BY <2>2, <2>5, <3>2
      <4>2. Before(decoded, n - Step)
        BY <2>1, <3>1 DEF Placed, n
      <4> QED BY <3>1, <4>1, <4>2
    <3>3. CASE m = Beyond
      BY <1>13, <3>3, BeforeLater
    <3> QED BY <2>2, <3>2, <3>3
  <2>8. ASSUME nextBuffer' # NoFrame
        PROVE  nextBuffer' < m /\ m <= nextBuffer' + Step
    <3>1. t = n /\ t \in Frames /\ nextBuffer' = t
      BY <1>1, <2>8 DEF n
    <3>2. t \in Nat /\ t + 3 * Step <= Beyond
      BY <3>1, FrameBounds
    <3> QED BY <2>2, <2>5, <3>1, <3>2
  <2>9. evictions' = 0
    BY <1>1
  <2> QED BY <2>2, <2>4, <2>6, <2>7, <2>8, <2>9 DEF Placed, m
<1> QED BY <1>13, <1>5, <1>6

\* A recovery: a frame two positions back is decoded after all that was, and
\* before the frame in hand.
LEMMA RecoverIsOrdered ==
    ASSUME OrderTypes, Sorted(decoded), ~Flushed => Placed,
           fresh /\ nextBuffer # NoFrame => Before(decoded, nextBuffer),
           decoder = "recover", NEW t \in Frames \cup {NoFrame}, AfterRecover(t),
           t # NoFrame => t = nextTimestamp - 2 * Step /\ ~Flushed /\ t # nextBuffer,
           \/ Flushed'
           \/ ~Flushed /\ nextTimestamp' = nextTimestamp
    PROVE  /\ decoded' \in Seq(Decodings) /\ Sorted(decoded')
           /\ fresh' /\ nextBuffer' # NoFrame => Before(decoded', nextBuffer')
           /\ ~Flushed' => Placed'
<1>1. /\ nextBuffer' = nextBuffer /\ fresh' = fresh /\ evictions' = evictions
      /\ decoder' = "fetch"
      /\ decoded' = IF t # NoFrame
                    THEN Append(decoded, Decoding(t, evictions, FALSE)) ELSE decoded
  BY DEF AfterRecover
<1>2. decoded \in Seq(Decodings) /\ nextTimestamp \in Int /\ Step \in Nat \ {0}
  BY FrameBounds DEF OrderTypes
<1>3. CASE t # NoFrame
  <2> DEFINE e == Decoding(t, evictions, FALSE)
  <2>1. /\ t = nextTimestamp - 2 * Step /\ t \in Frames /\ t # nextBuffer /\ Placed
        /\ decoded' = Append(decoded, e)
    BY <1>1, <1>3
  <2>2. Before(decoded, t)
    BY <2>1 DEF Placed
  <2>3. evictions \in 0 .. 2 /\ FALSE \in BOOLEAN
    BY DEF OrderTypes
  <2>4. /\ e \in Decodings /\ e.timestamp = t
        /\ InTurn(e) <=> ~FALSE /\ evictions < 2
    BY <2>1, <2>3, DecodingIsTyped, Zenon
  <2> HIDE DEF e
  <2>5. InTurn(e) => Before(decoded, e.timestamp)
    BY <2>2, <2>4
  <2>6. /\ Append(decoded, e) \in Seq(Decodings) /\ Sorted(Append(decoded, e))
        /\ \A u \in Int : Before(decoded, u) /\ (InTurn(e) => e.timestamp < u)
                             => Before(Append(decoded, e), u)
    BY <1>2, <2>4, <2>5, AppendIsSorted, Zenon
  <2>7. /\ decoded' \in Seq(Decodings) /\ Sorted(decoded')
        /\ \A u \in Int : Before(decoded, u) /\ (evictions < 2 => t < u)
                             => Before(decoded', u)
    BY <2>1, <2>4, <2>6
  <2>8. t < nextTimestamp /\ t < nextTimestamp - Step /\ nextTimestamp - Step \in Int /\ t \in Int
    BY <1>2, <2>1
  <2>9. Before(decoded', nextTimestamp) /\ Before(decoded', nextTimestamp - Step)
    <3>1. Before(decoded, nextTimestamp) /\ Before(decoded, nextTimestamp - Step)
      BY <1>2, <2>2, <2>8, BeforeLater
    <3> QED BY <1>2, <2>7, <2>8, <3>1
  <2>10. ASSUME fresh, nextBuffer # NoFrame PROVE Before(decoded', nextBuffer)
    <3>1. /\ nextBuffer \in Nat
          /\ evictions = 0 => nextTimestamp <= nextBuffer + Step
          /\ evictions = 1 => nextTimestamp <= nextBuffer + 2 * Step
      BY <2>1, <2>10, FrameBounds DEF Placed, OrderTypes
    <3>2. evictions < 2 => t < nextBuffer
      BY <1>2, <2>1, <2>3, <3>1
    <3> QED BY <2>7, <2>10, <3>1, <3>2
  <2>11. ASSUME ~Flushed' PROVE Placed'
    <3>1. nextTimestamp' = nextTimestamp
      BY <2>11
    <3> QED BY <1>1, <2>1, <2>9, <3>1 DEF Placed
  <2> QED BY <1>1, <2>7, <2>10, <2>11
<1>4. CASE t = NoFrame
  <2>1. decoded' = decoded
    BY <1>1, <1>4
  <2>2. ASSUME ~Flushed' PROVE Placed'
    <3>1. nextTimestamp' = nextTimestamp /\ Placed
      BY <2>2
    <3>2. Before(decoded, nextTimestamp - 2 * Step)
      BY <3>1 DEF Placed
    <3>3. nextTimestamp - 2 * Step <= nextTimestamp - Step
      BY <1>2
    <3>4. Before(decoded, nextTimestamp - Step)
      BY <1>2, <3>2, <3>3, BeforeLater
    <3> QED BY <1>1, <2>1, <3>1, <3>4 DEF Placed
  <2> QED BY <1>1, <1>2, <2>1, <2>2
<1> QED BY <1>3, <1>4

\* A new frame is stored, in a place of its own.
LEMMA InputHasOnePlace ==
    ASSUME OnePlace, OrderTypes, NEW timestamp \in Frames, HandleInput(timestamp)
    PROVE  OnePlace' /\ Found' /\ OrderTypes'
<1> DEFINE start == IF wasReset THEN timestamp - Step * minDelay ELSE nextTimestamp
           old == {i \in Used(slots) : slots[i].timestamp < start - 1}
           kept == Released(slots, old)
           evicts == Used(kept) = Slots \/ GetCurrentDelay(kept) >= MaxUsedSlots
           i == IF evicts
                THEN CHOOSE j \in Used(kept) : \A k \in Used(kept) :
                         kept[j].timestamp <= kept[k].timestamp
                ELSE Min(Slots \ Used(kept))
           reused == Buffered(slots, old)
                         \cup (IF evicts THEN {kept[i].buffer} ELSE {})
           buffer == Get(used \ reused)
           e == [buffer |-> buffer, timestamp |-> timestamp]
<1>1. /\ slots' = [kept EXCEPT ![i] = e]
      /\ nextTimestamp' = IF evicts THEN Advance(start) ELSE start
      /\ evictions' = IF evicts THEN Min({evictions + 1, 2}) ELSE evictions
      /\ timestamp \notin arrived /\ arrived' = arrived \cup {timestamp}
      /\ fresh' = (fresh /\ ~wasReset)
      /\ decoded' = IF wasReset THEN <<>> ELSE decoded
      /\ slot = 0 /\ UNCHANGED <<minDelay, decoder, slot, nextBuffer>>
  BY DEF HandleInput, decoderVars, MutexFree
<1>2. e.timestamp = timestamp
  OBVIOUS
<1>3. start \in Int
  BY JitterAssumption, FrameBounds DEF OrderTypes
<1> HIDE DEF start
<1>4. evictions' \in 0 .. 2
  <2>1. ASSUME NEW n \in 0 .. 2 PROVE Min({n + 1, 2}) \in 0 .. 2
    <3>1. {n + 1, 2} \in SUBSET Nat /\ {n + 1, 2} # {}
      OBVIOUS
    <3>2. Min({n + 1, 2}) \in {n + 1, 2}
      BY <3>1, MinIsLeast
    <3>3. CASE Min({n + 1, 2}) = 2
      BY <3>3
    <3>4. CASE Min({n + 1, 2}) = n + 1
      <4>1. \E x \in {n + 1, 2} : \A y \in {n + 1, 2} : x <= y
        BY <3>1, LeastExists
      <4>2. Min({n + 1, 2}) <= 2
        BY <4>1 DEF Min
      <4> QED BY <3>4, <4>2
    <3> QED BY <3>2, <3>3, <3>4
  <2>2. evictions \in 0 .. 2
    BY DEF OrderTypes
  <2> HIDE DEF evicts
  <2> QED BY <1>1, <2>1, <2>2
<1>5. nextTimestamp' \in Int
  <2>1. Advance(start) \in Int
    BY <1>3, FrameBounds DEF Advance
  <2> HIDE DEF evicts
  <2> QED BY <1>1, <1>3, <2>1
<1>6. /\ \A j \in Slots : kept[j] = IF j \in old THEN Free ELSE slots[j]
      /\ DOMAIN kept = Slots
  BY DEF Released
<1> HIDE DEF e, i, kept, old, evicts
<1>7. \A j \in Slots : j # i => slots'[j] = kept[j]
  BY <1>1, <1>6
<1>8. \A j \in Slots : j = i => slots'[j] = e
  BY <1>1, <1>6
<1>9. ASSUME NEW j \in Used(slots') PROVE
        /\ j \in Slots
        /\ j = i => slots'[j].timestamp = timestamp
        /\ j # i => j \in Used(slots) /\ slots'[j].timestamp = slots[j].timestamp
  <2>1. j \in Slots /\ slots'[j].buffer # NoBuffer
    BY DEF Used
  <2>2. j = i => slots'[j].timestamp = timestamp
    BY <2>1, <1>2, <1>8
  <2>3. j # i => slots'[j] = slots[j]
    BY <2>1, <1>6, <1>7, FreeIsFree
  <2> QED BY <2>1, <2>2, <2>3 DEF Used
<1>10. \A j \in Used(slots') : slots'[j].timestamp \in arrived'
  BY <1>1, <1>9 DEF OnePlace
<1>18. timestamp \notin arrived /\ \A j \in Used(slots) : slots[j].timestamp \in arrived
  BY <1>1 DEF OnePlace
<1>11. \A j, k \in Used(slots') : slots'[j].timestamp = slots'[k].timestamp => j = k
  <2> SUFFICES ASSUME NEW j \in Used(slots'), NEW k \in Used(slots'),
                      slots'[j].timestamp = slots'[k].timestamp
               PROVE  j = k
    OBVIOUS
  <2>1. CASE j # i /\ k # i
    BY <1>9, <2>1 DEF OnePlace
  <2>2. CASE j # i /\ k = i
    BY <1>9, <1>18, <2>2
  <2>3. CASE j = i /\ k # i
    BY <1>9, <1>18, <2>3
  <2> QED BY <2>1, <2>2, <2>3
<1>12. ASSUME nextBuffer' # NoFrame
       PROVE  /\ nextBuffer' \in arrived'
              /\ \A j \in Used(slots') : slots'[j].timestamp # nextBuffer'
  <2>1. nextBuffer' = nextBuffer /\ nextBuffer \in arrived
    BY <1>1, <1>12 DEF OnePlace
  <2>2. \A j \in Used(slots) : slots[j].timestamp # nextBuffer
    BY <1>1, <1>12 DEF OnePlace
  <2> QED BY <1>1, <1>9, <2>1, <2>2
<1>13. OnePlace'
  BY <1>10, <1>11, <1>12 DEF OnePlace, Used
<1>14. Found'
  BY <1>1 DEF Found
<1>15. fresh' \in BOOLEAN
  BY <1>1
<1>16. decoded' \in Seq(Decodings)
  BY <1>1 DEF OrderTypes
<1>17. OrderTypes'
  BY <1>1, <1>4, <1>5, <1>15, <1>16 DEF OrderTypes
<1> QED BY <1>13, <1>14, <1>17

\* A new frame moves the position by an eviction only, or sets it anew and starts
\* a new order.
LEMMA InputIsOrdered ==
    ASSUME OrderInv, NEW timestamp \in Frames, HandleInput(timestamp)
    PROVE  OrderInv'
<1>1. OnePlace' /\ Found' /\ OrderTypes'
  BY InputHasOnePlace DEF OrderInv
<1>2. Step \in Nat \ {0} /\ Beyond \in Nat /\ nextTimestamp \in Int /\ minDelay \in Nat
  BY FrameBounds DEF OrderInv, OrderTypes
<1>3. UNCHANGED <<decoder, nextBuffer>> /\ evictions \in 0 .. 2
  BY DEF HandleInput, decoderVars, OrderInv, OrderTypes
<1>4. CASE wasReset
  <2>1. decoded' = <<>> /\ fresh' = FALSE
    BY <1>4 DEF HandleInput
  <2>2. Sorted(decoded') /\ \A u : Before(decoded', u)
    BY <2>1 DEF Sorted, Before
  <2> DEFINE start == timestamp - Step * minDelay
  <2>3. start \in Int /\ start <= Beyond
    <3>1. timestamp \in Nat /\ timestamp + 3 * Step <= Beyond
      BY FrameBounds
    <3>2. Step * minDelay \in Nat
      BY <1>2
    <3> QED BY <1>2, <3>1, <3>2
  <2>4. nextTimestamp' = Advance(start) \/ nextTimestamp' = start
    BY <1>4 DEF HandleInput
  <2> HIDE DEF start
  <2>5. nextTimestamp' <= Beyond
    BY <2>3, <2>4, AdvanceIsForward
  <2> QED BY <1>1, <2>1, <2>2, <2>5 DEF OrderInv, Placed
<1>5. CASE ~wasReset
  <2>1. decoded' = decoded /\ (fresh' <=> fresh) /\ decoded \in Seq(Decodings)
    BY <1>5 DEF HandleInput, OrderInv, OrderTypes
  <2>2. Placed
    BY <1>5 DEF Flushed, OrderInv
  <2>3. \/ nextTimestamp' = nextTimestamp /\ evictions' = evictions
        \/ nextTimestamp' = Advance(nextTimestamp) /\ evictions' = Min({evictions + 1, 2})
    BY <1>5 DEF HandleInput
  <2> DEFINE n == nextTimestamp
             m == nextTimestamp'
  <2>4. n \in Int /\ n <= Beyond
    BY <1>2, <2>2 DEF Placed
  <2>5. /\ m \in Int /\ m <= Beyond /\ n <= m /\ m <= n + Step
    BY <1>2, <2>3, <2>4, AdvanceIsForward
  <2>6. m = n \/ evictions' = Min({evictions + 1, 2})
    BY <2>3
  <2>7. \/ m = n /\ evictions' = evictions
        \/ evictions = 0 /\ evictions' = 1
        \/ evictions' = 2
    <3>1. ASSUME evictions' = Min({evictions + 1, 2})
          PROVE  (evictions = 0 /\ evictions' = 1) \/ evictions' = 2
      <4>1. {evictions + 1, 2} \in SUBSET Nat /\ {evictions + 1, 2} # {}
        BY <1>3
      <4>2. Min({evictions + 1, 2}) \in {evictions + 1, 2}
        BY <4>1, MinIsLeast
      <4>3. evictions' \in 0 .. 2
        BY <1>1 DEF OrderTypes
      <4> QED BY <1>3, <3>1, <4>2, <4>3
    <3> QED BY <2>3, <3>1
  <2>8. \A k \in Int : Before(decoded, n - k) => Before(decoded', m - k)
    <3> SUFFICES ASSUME NEW k \in Int, Before(decoded, n - k) PROVE Before(decoded', m - k)
      OBVIOUS
    <3>1. n - k \in Int /\ m - k \in Int /\ n - k <= m - k
      <4> HIDE DEF n, m
      <4> QED BY <2>4, <2>5
    <3> QED BY <2>1, <3>1, BeforeLater
  <2>9. Before(decoded', m)
    BY <2>1, <2>2, <2>4, <2>5, BeforeLater DEF Placed
  <2>10. Step \in Int /\ 2 * Step \in Int
    BY <1>2
  <2>11. decoder' = "fetch" /\ nextBuffer' = NoFrame => Before(decoded', m - Step)
    BY <1>3, <2>2, <2>8, <2>10 DEF Placed
  <2>12. decoder' = "recover" => Before(decoded', m - 2 * Step)
    BY <1>3, <2>2, <2>8, <2>10 DEF Placed
  <2>13. ASSUME fresh', nextBuffer' # NoFrame
         PROVE  /\ nextBuffer' < m
                /\ evictions' = 0 => m <= nextBuffer' + Step
                /\ evictions' = 1 => m <= nextBuffer' + 2 * Step
    <3> DEFINE b == nextBuffer
    <3>1. /\ b < n
          /\ evictions = 0 => n <= b + Step
          /\ evictions = 1 => n <= b + 2 * Step
          /\ b \in Nat
      BY <1>3, <2>1, <2>2, <2>13, FrameBounds DEF Placed, OrderInv, OrderTypes
    <3>2. nextBuffer' = b
      BY <1>3
    <3> HIDE DEF b, n, m
    <3> QED BY <1>2, <1>3, <2>4, <2>5, <2>7, <3>1, <3>2
  <2>14. Placed'
    BY <2>5, <2>9, <2>11, <2>12, <2>13 DEF Placed
  <2> QED BY <1>1, <1>3, <2>1, <2>14 DEF OrderInv
<1> QED BY <1>4, <1>5

\* The decoder takes the frame that its search found.
LEMMA TakeIsOrdered ==
    ASSUME PoolInv, OrderInv, GetTakes
    PROVE  OrderInv'
<1>1. /\ slot # 0 /\ slot' = 0 /\ UNCHANGED <<minDelay, arrived, wasReset>>
  BY DEF GetTakes, MutexFree, boundVars
<1>2. /\ OrderTypes /\ OnePlace /\ Found /\ Sorted(decoded)
      /\ fresh /\ nextBuffer # NoFrame => Before(decoded, nextBuffer)
      /\ ~Flushed => Placed
  BY DEF OrderInv
<1>3. CASE slots[slot].buffer = NoBuffer
  <2>1. UNCHANGED <<slots, nextTimestamp, decoder, nextBuffer, decoded, fresh, evictions>>
    BY <1>3 DEF GetTakes, bufferVars, history
  <2>2. OrderTypes' /\ OnePlace' /\ Found'
    BY <1>1, <1>2, <2>1 DEF OrderTypes, OnePlace, Found, Used
  <2> QED BY <1>1, <1>2, <2>1, <2>2 DEF OrderInv, Flushed, Placed, Used, Sorted, Before
<1>4. CASE slots[slot].buffer # NoBuffer
  <2> DEFINE t == slots[slot].timestamp
  <2>1. /\ slots' = [slots EXCEPT ![slot] = Free]
        /\ nextTimestamp' = IF Offset = 0 THEN Advance(nextTimestamp) ELSE nextTimestamp
        /\ AfterOutput(t)
    BY <1>4 DEF GetTakes
  <2>2. slot \in Slots /\ slot \in Used(slots)
    BY <1>1, <1>4, JitterAssumption DEF PoolInv, Used, Slots
  <2>3. t \in arrived /\ t \in Frames /\ t # NoFrame
    BY <1>2, <2>2, FrameBounds DEF OnePlace, OrderTypes, NoFrame
  <2>4. t = nextTimestamp + Offset * Step
    BY <1>1, <1>2, <2>2 DEF Found
  <2>5. ~Flushed /\ Placed
    BY <1>2, <2>2 DEF Flushed
  <2>6. \A j \in Used(slots) : slots[j].timestamp = t => j = slot
    BY <1>2, <2>2 DEF OnePlace
  <2>7. nextBuffer # t
    BY <1>2, <2>2, <2>3 DEF OnePlace
  <2>8. /\ Used(slots') \subseteq Used(slots) /\ slot \notin Used(slots')
        /\ \A j \in Used(slots') : slots'[j] = slots[j]
    <3>1. slots \in [Slots -> SlotType]
      BY DEF PoolInv, Exact
    <3>2. \A j \in Slots : slots'[j] = IF j = slot THEN Free ELSE slots[j]
      BY <2>1, <3>1
    <3> QED BY <3>2, FreeIsFree DEF Used
  <2> HIDE DEF t
  <2>9. Step \in Nat \ {0} /\ nextTimestamp \in Int
    BY <1>2, FrameBounds DEF OrderTypes
  <2>10. /\ decoded' \in Seq(Decodings) /\ Sorted(decoded')
         /\ fresh' /\ nextBuffer' # NoFrame => Before(decoded', nextBuffer')
         /\ ~Flushed' => Placed'
         /\ nextBuffer' \in {nextBuffer, t} /\ evictions' \in 0 .. 2 /\ fresh' \in BOOLEAN
         /\ decoder' \in {"fetch", "recover"} /\ nextTimestamp' \in Int
    <3>1. CASE decoder = "fetch"
      <4>1. AfterFetch(t) /\ Offset = 0
        BY <2>1, <3>1 DEF AfterOutput, Offset
      <4>2. nextTimestamp' = Advance(nextTimestamp) /\ t = nextTimestamp
        BY <2>1, <2>4, <2>9, <4>1
      <4>3. /\ decoded' \in Seq(Decodings) /\ Sorted(decoded')
            /\ fresh' /\ nextBuffer' # NoFrame => Before(decoded', nextBuffer')
            /\ ~Flushed' => Placed'
        BY <1>2, <2>3, <2>5, <3>1, <4>1, <4>2, FetchIsOrdered
      <4>4. /\ nextBuffer' \in {nextBuffer, t} /\ evictions' \in 0 .. 2 /\ fresh' \in BOOLEAN
            /\ decoder' \in {"fetch", "recover"}
        BY <4>1 DEF AfterFetch
      <4>5. nextTimestamp' \in Int
        BY <2>9, <4>2, FrameBounds DEF Advance
      <4> QED BY <4>3, <4>4, <4>5
    <3>2. CASE decoder = "recover"
      <4>1. AfterRecover(t) /\ Offset = -2
        BY <2>1, <3>2 DEF AfterOutput, Offset
      <4>2. nextTimestamp' = nextTimestamp /\ t = nextTimestamp - 2 * Step
        BY <2>1, <2>4, <2>9, <4>1
      <4>3. /\ decoded' \in Seq(Decodings) /\ Sorted(decoded')
            /\ fresh' /\ nextBuffer' # NoFrame => Before(decoded', nextBuffer')
            /\ ~Flushed' => Placed'
        BY <1>2, <2>3, <2>5, <2>7, <3>2, <4>1, <4>2, RecoverIsOrdered
      <4>4. /\ nextBuffer' \in {nextBuffer, t} /\ decoder' \in {"fetch", "recover"}
            /\ evictions' = evictions /\ fresh' = fresh
        BY <4>1 DEF AfterRecover
      <4>5. evictions' \in 0 .. 2 /\ fresh' \in BOOLEAN /\ nextTimestamp' \in Int
        BY <1>2, <2>9, <4>2, <4>4 DEF OrderTypes
      <4> QED BY <4>3, <4>4, <4>5
    <3> QED BY <1>2, <3>1, <3>2 DEF OrderTypes
  <2>11. OrderTypes'
    BY <1>1, <1>2, <2>3, <2>10 DEF OrderTypes
  <2>12. OnePlace'
    <3>1. \A j \in Used(slots') : slots'[j].timestamp \in arrived'
      BY <1>1, <1>2, <2>8 DEF OnePlace
    <3>2. \A j, k \in Used(slots') : slots'[j].timestamp = slots'[k].timestamp => j = k
      BY <1>2, <2>8 DEF OnePlace
    <3>3. ASSUME nextBuffer' # NoFrame
          PROVE  /\ nextBuffer' \in arrived'
                 /\ \A j \in Used(slots') : slots'[j].timestamp # nextBuffer'
      <4>1. CASE nextBuffer' = t
        BY <1>1, <2>3, <2>6, <2>8, <4>1
      <4>2. CASE nextBuffer' = nextBuffer
        BY <1>1, <1>2, <2>8, <3>3, <4>2 DEF OnePlace
      <4> QED BY <2>10, <4>1, <4>2
    <3> QED BY <3>1, <3>2, <3>3 DEF OnePlace, Used
  <2>13. Found'
    BY <1>1 DEF Found
  <2> QED BY <2>10, <2>11, <2>12, <2>13 DEF OrderInv
<1> QED BY <1>3, <1>4

\* The decoder finds nothing at its position: too many losses empty the buffer,
\* and the position then waits for the next frame.
LEMMA MissIsOrdered ==
    ASSUME PoolInv, OrderInv, GetMisses
    PROVE  OrderInv'
<1>1. slot = 0 /\ slot' = slot /\ UNCHANGED <<minDelay, arrived>> /\ AfterOutput(NoFrame)
  BY DEF GetMisses, MutexFree, boundVars
<1>2. /\ OrderTypes /\ OnePlace /\ Sorted(decoded)
      /\ fresh /\ nextBuffer # NoFrame => Before(decoded, nextBuffer)
      /\ ~Flushed => Placed
  BY DEF OrderInv
<1>3. Step \in Nat \ {0} /\ nextTimestamp \in Int /\ minDelay \in Nat
  BY <1>2, FrameBounds DEF OrderTypes
<1> DEFINE next == IF Offset = 0 THEN Advance(nextTimestamp) ELSE nextTimestamp
           delay == GetCurrentDelay(slots)
<1>4. \/ /\ slots' = Released(slots, Slots) /\ wasReset' = TRUE
         /\ nextTimestamp' = IF delay < minDelay THEN next - (minDelay - delay) ELSE next
      \/ nextTimestamp' = next /\ slots' = slots /\ wasReset' = wasReset
  BY DEF GetMisses, resetVars
<1>5. next \in Int /\ delay \in Nat
  BY <1>3, FrameBounds, UsedIsFinite DEF Advance, GetCurrentDelay
<1> HIDE DEF delay
<1>6. nextTimestamp' \in Int
  <2> HIDE DEF next
  <2> QED BY <1>3, <1>4, <1>5
<1>7. /\ Used(slots') \subseteq Used(slots)
      /\ \A j \in Used(slots') : slots'[j] = slots[j]
      /\ Flushed' \/ (nextTimestamp' = next /\ (Flushed' <=> Flushed))
  <2>1. CASE slots' = Released(slots, Slots) /\ wasReset' = TRUE
    <3>1. Used(slots') = {}
      BY <2>1, FreeIsFree DEF Used, Released
    <3> QED BY <2>1, <3>1 DEF Flushed, Used
  <2>2. CASE nextTimestamp' = next /\ slots' = slots /\ wasReset' = wasReset
    BY <2>2 DEF Flushed, Used
  <2> QED BY <1>4, <2>1, <2>2
<1>8. /\ decoded' \in Seq(Decodings) /\ Sorted(decoded')
      /\ fresh' /\ nextBuffer' # NoFrame => Before(decoded', nextBuffer')
      /\ ~Flushed' => Placed'
      /\ nextBuffer' \in {nextBuffer, NoFrame} /\ evictions' \in 0 .. 2 /\ fresh' \in BOOLEAN
      /\ decoder' \in {"fetch", "recover"}
  <2>1. CASE decoder = "fetch"
    <3>1. AfterFetch(NoFrame) /\ Offset = 0
      BY <1>1, <2>1 DEF AfterOutput, Offset
    <3>2. Flushed' \/ (~Flushed /\ nextTimestamp' = Advance(nextTimestamp))
      BY <1>7, <3>1
    <3>3. /\ decoded' \in Seq(Decodings) /\ Sorted(decoded')
          /\ fresh' /\ nextBuffer' # NoFrame => Before(decoded', nextBuffer')
          /\ ~Flushed' => Placed'
      BY <1>2, <2>1, <3>1, <3>2, FetchIsOrdered
    <3>4. /\ nextBuffer' \in {nextBuffer, NoFrame} /\ evictions' \in 0 .. 2
          /\ fresh' \in BOOLEAN /\ decoder' \in {"fetch", "recover"}
      BY <3>1 DEF AfterFetch
    <3> QED BY <3>3, <3>4
  <2>2. CASE decoder = "recover"
    <3>1. AfterRecover(NoFrame) /\ Offset = -2
      BY <1>1, <2>2 DEF AfterOutput, Offset
    <3>2. Flushed' \/ (~Flushed /\ nextTimestamp' = nextTimestamp)
      BY <1>7, <3>1
    <3>3. /\ decoded' \in Seq(Decodings) /\ Sorted(decoded')
          /\ fresh' /\ nextBuffer' # NoFrame => Before(decoded', nextBuffer')
          /\ ~Flushed' => Placed'
      BY <1>2, <2>2, <3>1, <3>2, RecoverIsOrdered
    <3>4. /\ nextBuffer' \in {nextBuffer, NoFrame} /\ decoder' \in {"fetch", "recover"}
          /\ evictions' = evictions /\ fresh' = fresh
      BY <3>1 DEF AfterRecover
    <3>5. evictions' \in 0 .. 2 /\ fresh' \in BOOLEAN
      BY <1>2, <3>4 DEF OrderTypes
    <3> QED BY <3>3, <3>4, <3>5
  <2> QED BY <1>2, <2>1, <2>2 DEF OrderTypes
<1>9. OrderTypes'
  BY <1>1, <1>2, <1>6, <1>8 DEF OrderTypes
<1>10. OnePlace'
  <2>1. /\ \A j \in Used(slots') : slots'[j].timestamp \in arrived'
        /\ \A j, k \in Used(slots') : slots'[j].timestamp = slots'[k].timestamp => j = k
    BY <1>1, <1>2, <1>7 DEF OnePlace
  <2>2. nextBuffer' # NoFrame => /\ nextBuffer' \in arrived'
                                 /\ \A j \in Used(slots') : slots'[j].timestamp # nextBuffer'
    BY <1>1, <1>2, <1>7, <1>8 DEF OnePlace
  <2> QED BY <2>1, <2>2 DEF OnePlace, Used
<1>11. Found'
  BY <1>1 DEF Found
<1> QED BY <1>8, <1>9, <1>10, <1>11 DEF OrderInv

\* Steps that leave positions and frames alone, or release all slots.
LEMMA OthersAreOrdered ==
    ASSUME OrderInv, slots \in [Slots -> SlotType],
           UNCHANGED <<nextTimestamp, decoder, nextBuffer, decoded, fresh, evictions, arrived>>,
           wasReset => wasReset', minDelay' \in Nat,
           slots' = slots \/ slots' = Released(slots, Slots),
           \/ slot' = slot
           \/ slot' \in Used(slots) /\ slots[slot'].timestamp = nextTimestamp + Offset * Step
    PROVE  OrderInv'
<1>1. /\ OrderTypes /\ OnePlace /\ Found /\ Sorted(decoded)
      /\ fresh /\ nextBuffer # NoFrame => Before(decoded, nextBuffer)
      /\ ~Flushed => Placed
  BY DEF OrderInv
<1>2. /\ Used(slots') \subseteq Used(slots)
      /\ \A j \in Used(slots') : slots'[j] = slots[j]
  BY FreeIsFree DEF Used, Released
<1>3. OrderTypes'
  BY <1>1 DEF OrderTypes
<1>4. OnePlace'
  <2>1. /\ \A j \in Used(slots') : slots'[j].timestamp \in arrived'
        /\ \A j, k \in Used(slots') : slots'[j].timestamp = slots'[k].timestamp => j = k
    BY <1>1, <1>2 DEF OnePlace
  <2>2. nextBuffer' # NoFrame => /\ nextBuffer' \in arrived'
                                 /\ \A j \in Used(slots') : slots'[j].timestamp # nextBuffer'
    BY <1>1, <1>2 DEF OnePlace
  <2> QED BY <2>1, <2>2 DEF OnePlace, Used
<1>5. Found'
  <2> SUFFICES ASSUME slot' # 0, slot' \in Used(slots')
               PROVE  slots'[slot'].timestamp = nextTimestamp' + Offset' * Step
    BY DEF Found, Used
  <2>1. Offset' = Offset
    BY DEF Offset
  <2>2. slots[slot'].timestamp = nextTimestamp + Offset * Step
    BY <1>1, <1>2 DEF Found
  <2> QED BY <1>2, <2>1, <2>2
<1>6. Flushed => Flushed'
  BY <1>2 DEF Flushed, Used
<1>7. ~Flushed' => Placed'
  BY <1>1, <1>6 DEF Placed, Before
<1> QED BY <1>1, <1>3, <1>4, <1>5, <1>7 DEF OrderInv, Sorted, Before

\* Every step keeps the order.
LEMMA NextOrdered == PoolInv /\ OrderInv /\ [Next]_vars => OrderInv'
<1> SUFFICES ASSUME PoolInv, OrderInv, [Next]_vars PROVE OrderInv'
  OBVIOUS
<1>1. slots \in [Slots -> SlotType] /\ minDelay \in Nat
  BY DEF PoolInv, Exact, OrderInv, OrderTypes
<1>2. CASE SetMinPacketCount \/ ResetFlags \/ CollectLosses \/ UNCHANGED vars
  <2>1. /\ UNCHANGED <<nextTimestamp, decoder, nextBuffer, decoded, fresh, evictions, arrived>>
        /\ slots' = slots /\ slot' = slot /\ (wasReset => wasReset')
    BY <1>2 DEF SetMinPacketCount, ResetFlags, CollectLosses, vars, bufferVars, decoderVars,
                boundVars, history, resetVars
  <2>2. minDelay' \in Nat
    BY <1>1, <1>2, JitterAssumption DEF SetMinPacketCount, ResetFlags, CollectLosses, vars
  <2> QED BY <1>1, <2>1, <2>2, OthersAreOrdered
<1>3. CASE ResetSlots
  <2>1. /\ UNCHANGED <<nextTimestamp, decoder, nextBuffer, decoded, fresh, evictions, arrived>>
        /\ slots' = Released(slots, Slots) /\ slot' = slot /\ (wasReset => wasReset')
        /\ minDelay' = minDelay
    BY <1>3 DEF ResetSlots, decoderVars, boundVars, history, resetVars
  <2> QED BY <1>1, <2>1, OthersAreOrdered
<1>4. CASE Tick
  <2>1. /\ UNCHANGED <<nextTimestamp, decoder, nextBuffer, decoded, fresh, evictions, arrived>>
        /\ slots' = slots /\ slot' = slot /\ (wasReset => wasReset')
    BY <1>4 DEF Tick, bufferVars, decoderVars, history
  <2>2. minDelay' \in Nat
    <3>1. PICK d \in MinMinDelay .. MaxMinDelay :
            minDelay' = IF d > minDelay THEN minDelay + 1
                        ELSE IF d < minDelay THEN minDelay - 1 ELSE minDelay
      BY <1>4 DEF Tick
    <3>2. d \in Nat
      BY JitterAssumption
    <3> QED BY <1>1, <3>1, <3>2
  <2> QED BY <1>1, <2>1, <2>2, OthersAreOrdered
<1>5. CASE GetFinds
  <2>1. /\ UNCHANGED <<nextTimestamp, decoder, nextBuffer, decoded, fresh, evictions, arrived>>
        /\ slots' = slots /\ wasReset' = wasReset /\ minDelay' = minDelay
        /\ slot' \in Used(slots) /\ slots[slot'].timestamp = nextTimestamp + Offset * Step
    BY <1>5 DEF GetFinds, bufferVars, boundVars, history, resetVars
  <2> QED BY <1>1, <2>1, OthersAreOrdered
<1>6. CASE \E timestamp \in Frames : HandleInput(timestamp)
  BY <1>6, InputIsOrdered
<1>7. CASE GetTakes
  BY <1>7, TakeIsOrdered
<1>8. CASE GetMisses
  BY <1>8, MissIsOrdered
<1> QED BY <1>2, <1>3, <1>4, <1>5, <1>6, <1>7, <1>8 DEF Next, Receive, Decode

\* Nothing is decoded at the start, and the buffer waits for its first frame.
LEMMA InitOrdered == Init => OrderInv
<1> SUFFICES ASSUME Init PROVE OrderInv
  OBVIOUS
<1>1. slots = [i \in Slots |-> Free]
  BY DEF Init
<1>2. Used(slots) = {}
  BY <1>1, FreeIsFree DEF Used
<1>3. OrderTypes
  BY JitterAssumption DEF Init, OrderTypes
<1>4. OnePlace /\ Found /\ Flushed
  BY <1>2 DEF Init, OnePlace, Found, Flushed
<1>5. Sorted(decoded) /\ nextBuffer = NoFrame
  BY DEF Init, Sorted
<1> QED BY <1>3, <1>4, <1>5 DEF OrderInv

\* Every decoded frame is recorded. Between two resyncs those decoded in their
\* turn are decoded in the order of their timestamps, for any delays, losses, late
\* frames and resets. Out of turn are only the frame in hand when a resync comes,
\* and a frame that RunThread recovers after two or more evictions since the last
\* fetch; one eviction cannot break the order.
THEOREM FramesAreInOrder == Spec => []DecodedInOrder
<1>1. OrderInv => DecodedInOrder
  BY DEF OrderInv, Sorted, DecodedInOrder
<1> QED BY <1>1, InitPool, NextPool, InitOrdered, NextOrdered, PTL DEF Spec
=============================================================================
