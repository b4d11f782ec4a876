-------------------------- MODULE VoIPAckWindowProofs ------------------------
(* Proofs about sequence numbers and acknowledgements, for any window, any    *)
(* number of packets below half of the number space, and any loss,            *)
(* repetition and reordering by the network.                                  *)
EXTENDS VoIPAckWindow, TLAPS

-----------------------------------------------------------------------------
(* Arithmetic: within half of the number space numbers compare as integers.   *)

Positions == 0 .. (SeqMod \div 2) - 1

\* The constants, as far as arithmetic needs them.
LEMMA ConstantsAreSane ==
    /\ Window \in Nat /\ Window > 1 /\ SeqMod \in Nat /\ SeqMod > 4
    /\ 0 \in Positions /\ Positions \subseteq Seqs
    /\ \A p \in Peers : /\ Other[p] \in Peers /\ Other[Other[p]] = p /\ MaxSeq[p] \in Nat
                        /\ Numbers(p) \subseteq Positions /\ 0 .. MaxSeq[p] \subseteq Positions
<1>1. Window \in Nat /\ Window > 1 /\ SeqMod \in Nat /\ SeqMod > 4
  BY AckWindowAssumption
<1>2. 0 \in Positions /\ Positions \subseteq Seqs
  BY <1>1 DEF Positions, Seqs
<1>3. ASSUME NEW p \in Peers
      PROVE  /\ Other[p] \in Peers /\ Other[Other[p]] = p /\ MaxSeq[p] \in Nat
             /\ Numbers(p) \subseteq Positions /\ 0 .. MaxSeq[p] \subseteq Positions
  <2>1. Other[p] \in Peers /\ Other[Other[p]] = p /\ MaxSeq[p] \in Nat
    BY AckWindowAssumption
  <2>2. MaxSeq[p] < SeqMod \div 2
    BY AckWindowAssumption
  <2>3. SeqMod \div 2 \in Nat
    BY <1>1
  <2> QED BY <2>1, <2>2, <2>3 DEF Positions, Numbers
<1> QED BY <1>1, <1>2, <1>3

\* seqgt and the differences of unsigned numbers are those of integers.
LEMMA NoWrap ==
    ASSUME NEW a \in Positions, NEW b \in Positions
    PROVE  /\ a \in Nat /\ b \in Nat
           /\ seqgt(a, b) <=> a > b
           /\ a >= b => Minus(a, b) = a - b
           /\ (a + 1) % SeqMod = a + 1
<1>1. SeqMod \in Nat /\ SeqMod > 4 /\ a \in Nat /\ b \in Nat
      /\ a < SeqMod \div 2 /\ b < SeqMod \div 2
  BY ConstantsAreSane DEF Positions
<1>2. a - b <= (SeqMod - 1) \div 2 /\ b - a <= (SeqMod - 1) \div 2
  BY <1>1
<1>3. seqgt(a, b) <=> a > b
  BY <1>1, <1>2 DEF seqgt
<1>4. ASSUME a >= b PROVE Minus(a, b) = a - b
  <2>1. a - b \in 0 .. SeqMod - 1
    BY <1>1, <1>4
  <2> QED BY <1>1, <2>1 DEF Minus
<1>5. (a + 1) % SeqMod = a + 1
  <2>1. a + 1 \in 0 .. SeqMod - 1
    BY <1>1
  <2> QED BY <1>1, <2>1
<1> QED BY <1>1, <1>3, <1>4, <1>5

\* Advance keeps the places of the numbers that stay in the window.
LEMMA AdvanceShifts ==
    ASSUME NEW w \in [Slots -> BOOLEAN], NEW d \in Nat, d > 0
    PROVE  /\ Advance(w, d) \in [Slots -> BOOLEAN]
           /\ d > Window - 1 => \A i \in Slots : ~Advance(w, d)[i]
           /\ d <= Window - 1 => \A i \in Slots :
                  /\ i < d => (Advance(w, d)[i] <=> i = 0)
                  /\ i >= d => i - d \in Slots /\ (Advance(w, d)[i] <=> w[i - d])
<1>1. Window \in Nat /\ Window > 1
  BY ConstantsAreSane
<1>2. CASE d > Window - 1
  BY <1>1, <1>2 DEF Advance, None
<1>3. CASE d <= Window - 1
  <2>1. Advance(w, d) = [i \in Slots |-> IF i < d THEN i = 0 ELSE w[i - d]]
    BY <1>1, <1>3 DEF Advance
  <2>2. \A i \in Slots : i >= d => i - d \in Slots
    BY <1>1 DEF Slots
  <2>3. \A i \in Slots : ~(i < d) => i >= d
    BY <1>1 DEF Slots
  <2>4. \A i \in Slots : (IF i < d THEN i = 0 ELSE w[i - d]) \in BOOLEAN
    BY <2>2, <2>3
  <2>5. Advance(w, d) \in [Slots -> BOOLEAN]
    BY <2>1, <2>4
  <2>6. \A i \in Slots : i >= d => ~(i < d)
    BY <1>1 DEF Slots
  <2>7. \A i \in Slots : /\ i < d => (Advance(w, d)[i] <=> i = 0)
                         /\ i >= d => i - d \in Slots /\ (Advance(w, d)[i] <=> w[i - d])
    BY <2>1, <2>2, <2>6
  <2> QED BY <1>1, <1>3, <2>5, <2>7
<1> QED BY <1>1, <1>2, <1>3

-----------------------------------------------------------------------------
(* The receiver's window *)

\* A window w below last, over how often each of the numbers up to max was
\* processed: it marks what was processed, except what arrived a window ahead,
\* and what it does not mark was processed at most once.
WindowOf(last, w, done, jumps, max) ==
    /\ \A n \in 1 .. max : n > last => done[n] = 0
    /\ last > 0 => done[last] > 0
    /\ \A n \in 1 .. max : done[n] <= (IF n \in jumps THEN 2 ELSE 1)
    /\ \A i \in Slots : last - i > 0 =>
           /\ w[i] => done[last - i] > 0
           /\ ~w[i] => done[last - i] <= 1
           /\ done[last - i] > 0 => w[i] \/ last - i \in jumps

\* A newer number moves the window.
LEMMA NewerKeepsWindow ==
    ASSUME NEW max \in Nat, NEW last \in 0 .. max, NEW w \in [Slots -> BOOLEAN],
           NEW done \in [1 .. max -> 0 .. 2], NEW jumps, WindowOf(last, w, done, jumps, max),
           NEW s \in 1 .. max, s > last,
           NEW jumps1, jumps1 = IF s - last > Window - 1 THEN jumps \cup {s} ELSE jumps
    PROVE  WindowOf(s, Advance(w, s - last), [done EXCEPT ![s] = @ + 1], jumps1, max)
<1> DEFINE d == s - last
           w1 == Advance(w, d)
           done1 == [done EXCEPT ![s] = @ + 1]
<1>1. Window \in Nat /\ Window > 1 /\ d \in Nat /\ d > 0 /\ s \in Nat /\ last \in Nat
  BY ConstantsAreSane
<1>2. done[s] = 0
  BY DEF WindowOf
<1>3. /\ \A n \in 1 .. max : done[n] \in 0 .. 2
      /\ done1[s] = 1 /\ \A n \in 1 .. max : n # s => done1[n] = done[n]
  BY <1>2
<1>4. /\ w1 \in [Slots -> BOOLEAN]
      /\ d > Window - 1 => \A i \in Slots : ~w1[i]
      /\ d <= Window - 1 => \A i \in Slots :
                  /\ i < d => (w1[i] <=> i = 0)
                  /\ i >= d => i - d \in Slots /\ (w1[i] <=> w[i - d])
  <2> HIDE DEF d
  <2> QED BY <1>1, AdvanceShifts
<1> HIDE DEF done1, w1
<1>5. \A n \in 1 .. max : n > s => done1[n] = 0
  BY <1>1, <1>3 DEF WindowOf
<1>6. \A n \in 1 .. max : done1[n] <= (IF n \in jumps1 THEN 2 ELSE 1)
  <2> SUFFICES ASSUME NEW n \in 1 .. max PROVE done1[n] <= (IF n \in jumps1 THEN 2 ELSE 1)
    OBVIOUS
  <2>1. CASE n = s
    BY <1>3, <2>1
  <2>2. CASE n # s
    <3>1. done1[n] = done[n] /\ done[n] <= (IF n \in jumps THEN 2 ELSE 1) /\ done[n] \in 0 .. 2
      BY <1>3, <2>2 DEF WindowOf
    <3>2. n \in jumps => n \in jumps1
      OBVIOUS
    <3> QED BY <3>1, <3>2
  <2> QED BY <2>1, <2>2
<1>7. ASSUME NEW i \in Slots, s - i > 0
      PROVE  /\ w1[i] => done1[s - i] > 0
             /\ ~w1[i] => done1[s - i] <= 1
             /\ done1[s - i] > 0 => w1[i] \/ s - i \in jumps1
  <2> DEFINE n == s - i
  <2>1. i \in Nat /\ i < Window /\ n \in 1 .. max /\ n \in Nat /\ n <= s
    BY <1>1, <1>7 DEF Slots
  <2>2. CASE i = 0
    <3>1. n = s /\ done1[n] = 1
      BY <1>1, <1>3, <2>2
    <3>2. CASE d > Window - 1
      BY <1>1, <1>4, <3>1, <3>2
    <3>3. CASE d <= Window - 1
      BY <1>1, <1>4, <2>2, <3>1, <3>3
    <3> QED BY <1>1, <3>2, <3>3
  <2>3. CASE i # 0 /\ i < d
    <3>1. n > last /\ n # s
      BY <1>1, <2>1, <2>3
    <3>2. done1[n] = 0
      BY <1>3, <2>1, <3>1 DEF WindowOf
    <3>3. ~w1[i]
      BY <1>1, <1>4, <2>1, <2>3
    <3> QED BY <3>2, <3>3
  <2>4. CASE i >= d
    <3>1. d <= Window - 1 /\ i - d \in Slots /\ (w1[i] <=> w[i - d])
      BY <1>1, <1>4, <2>1, <2>4
    <3>2. n = last - (i - d) /\ n # s /\ last - (i - d) > 0
      BY <1>1, <1>7, <2>1, <2>4
    <3>3. done1[n] = done[n]
      BY <1>3, <2>1, <3>2
    <3> DEFINE j == i - d
    <3>4. /\ w[j] => done[last - j] > 0
          /\ ~w[j] => done[last - j] <= 1
          /\ done[last - j] > 0 => w[j] \/ last - j \in jumps
      BY <3>1, <3>2 DEF WindowOf
    <3>5. jumps \subseteq jumps1
      OBVIOUS
    <3> HIDE DEF n, j
    <3>6. n = last - j
      BY <3>2 DEF j
    <3>7. w1[i] <=> w[j]
      BY <3>1 DEF j
    <3>8. /\ w1[i] => done1[n] > 0
          /\ ~w1[i] => done1[n] <= 1
          /\ done1[n] > 0 => w1[i] \/ n \in jumps1
      BY <3>3, <3>4, <3>5, <3>6, <3>7
    <3> QED BY <3>8 DEF n
  <2> QED BY <1>1, <2>1, <2>2, <2>3, <2>4
<1>8. s > 0 => done1[s] > 0
  BY <1>3
<1> QED BY <1>5, <1>6, <1>7, <1>8 DEF WindowOf, w1, done1, d

\* An older number that is not marked fills its place.
LEMMA OlderKeepsWindow ==
    ASSUME NEW max \in Nat, NEW last \in 0 .. max, NEW w \in [Slots -> BOOLEAN],
           NEW done \in [1 .. max -> 0 .. 2], NEW jumps, WindowOf(last, w, done, jumps, max),
           NEW s \in 1 .. max, s <= last, last - s \in Slots, ~w[last - s]
    PROVE  /\ done[s] <= 1
           /\ WindowOf(last, [w EXCEPT ![last - s] = TRUE], [done EXCEPT ![s] = @ + 1], jumps, max)
<1> DEFINE k == last - s
           w1 == [w EXCEPT ![k] = TRUE]
           done1 == [done EXCEPT ![s] = @ + 1]
<1>1. k \in Slots /\ s = last - k /\ last \in Nat /\ s \in Nat /\ s > 0
  OBVIOUS
<1>2. done[s] <= 1 /\ (done[s] > 0 => s \in jumps) /\ done[s] \in 0 .. 2
  BY <1>1 DEF WindowOf
<1>3. /\ \A n \in 1 .. max : done[n] \in 0 .. 2
      /\ done1[s] = done[s] + 1 /\ \A n \in 1 .. max : n # s => done1[n] = done[n]
  OBVIOUS
<1>4. w1[k] = TRUE /\ \A i \in Slots : i # k => w1[i] = w[i]
  BY <1>1
<1> HIDE DEF k, w1, done1
<1>5. \A n \in 1 .. max : n > last => done1[n] = 0
  BY <1>1, <1>3 DEF WindowOf
<1>6. last > 0 => done1[last] > 0
  BY <1>1, <1>2, <1>3 DEF WindowOf
<1>7. \A n \in 1 .. max : done1[n] <= (IF n \in jumps THEN 2 ELSE 1)
  <2> SUFFICES ASSUME NEW n \in 1 .. max PROVE done1[n] <= (IF n \in jumps THEN 2 ELSE 1)
    OBVIOUS
  <2>1. CASE n = s
    BY <1>2, <1>3, <2>1
  <2>2. CASE n # s
    BY <1>3, <2>2 DEF WindowOf
  <2> QED BY <2>1, <2>2
<1>8. ASSUME NEW i \in Slots, last - i > 0
      PROVE  /\ w1[i] => done1[last - i] > 0
             /\ ~w1[i] => done1[last - i] <= 1
             /\ done1[last - i] > 0 => w1[i] \/ last - i \in jumps
  <2>1. CASE i = k
    BY <1>1, <1>2, <1>3, <1>4, <2>1
  <2>2. CASE i # k
    <3>1. i \in Nat /\ k \in Nat
      BY <1>1, ConstantsAreSane DEF Slots
    <3>2. last - i \in 1 .. max /\ last - i # s
      BY <1>1, <1>8, <2>2, <3>1
    <3>3. done1[last - i] = done[last - i] /\ w1[i] = w[i]
      BY <1>3, <1>4, <2>2, <3>2
    <3> QED BY <1>8, <3>3 DEF WindowOf
  <2> QED BY <2>1, <2>2
<1> QED BY <1>2, <1>5, <1>6, <1>7, <1>8 DEF WindowOf, w1, done1, k

-----------------------------------------------------------------------------
(* The sender's window of acknowledgements *)

\* What a header claims: the numbers whose bits are set were processed.
Claims(ackId, acks, done) ==
    /\ ackId > 0 => done[ackId] > 0
    /\ \A i \in Slots : ackId - i > 0 /\ acks[i] => done[ackId - i] > 0

\* What the sender makes of it: a number that is marked, or the one after it,
\* was processed.
AcksOf(last, w, done) ==
    \A i \in Slots : last - i > 0 /\ w[i] =>
        done[last - i] > 0 \/ (i > 0 /\ done[last - i + 1] > 0)

\* A header that claims more keeps the marks right, one place off.
LEMMA MarksAreClaimed ==
    ASSUME NEW last \in Nat, NEW w \in [Slots -> BOOLEAN], NEW done, AcksOf(last, w, done),
           NEW ackId \in Nat, ackId > last, NEW acks \in [Slots -> BOOLEAN],
           Claims(ackId, acks, done)
    PROVE  AcksOf(ackId, Marked(Advance(w, ackId - last), acks), done)
<1> DEFINE d == ackId - last
           v == Advance(w, d)
           m == Marked(v, acks)
<1>1. Window \in Nat /\ Window > 1 /\ d \in Nat /\ d > 0
  BY ConstantsAreSane
<1>2. /\ v \in [Slots -> BOOLEAN]
      /\ d > Window - 1 => \A i \in Slots : ~v[i]
      /\ d <= Window - 1 => \A i \in Slots :
                  /\ i < d => (v[i] <=> i = 0)
                  /\ i >= d => i - d \in Slots /\ (v[i] <=> w[i - d])
  <2> HIDE DEF d
  <2> QED BY <1>1, AdvanceShifts
<1> HIDE DEF v
<1>3. \A i \in Slots : m[i] <=> (v[i] \/ (i > 0 /\ acks[i - 1]))
  BY DEF Marked
<1> HIDE DEF m
<1>4. ASSUME NEW i \in Slots, ackId - i > 0, m[i]
      PROVE  done[ackId - i] > 0 \/ (i > 0 /\ done[ackId - i + 1] > 0)
  <2>1. i \in Nat /\ i < Window
    BY <1>1 DEF Slots
  <2>2. CASE i > 0 /\ acks[i - 1]
    <3>1. i - 1 \in Slots /\ ackId - (i - 1) > 0 /\ ackId - (i - 1) = ackId - i + 1
      BY <1>1, <1>4, <2>1, <2>2 DEF Slots
    <3>2. done[ackId - (i - 1)] > 0
      BY <2>2, <3>1 DEF Claims
    <3> QED BY <2>2, <3>1, <3>2
  <2>3. CASE v[i] /\ i < d
    <3>1. d <= Window - 1
      BY <1>1, <1>2, <2>3
    <3>2. i = 0
      BY <1>2, <2>3, <3>1
    <3>3. ackId - i = ackId
      BY <3>2
    <3>4. ackId > 0
      BY <1>4, <3>3
    <3> QED BY <3>3, <3>4 DEF Claims
  <2>4. CASE v[i] /\ i >= d
    <3>1. d <= Window - 1
      BY <1>1, <1>2, <2>4
    <3>2. i - d \in Slots /\ w[i - d]
      BY <1>2, <2>4, <3>1
    <3>3. ackId - i = last - (i - d) /\ last - (i - d) > 0 /\ i > 0
      BY <1>1, <1>4, <2>1, <2>4
    <3> DEFINE j == i - d
    <3>4. done[last - j] > 0 \/ (j > 0 /\ done[last - j + 1] > 0)
      BY <3>2, <3>3 DEF AcksOf
    <3> QED BY <3>3, <3>4
  <2> QED BY <1>1, <1>3, <1>4, <2>1, <2>2, <2>3, <2>4
<1> QED BY <1>4 DEF AcksOf, m, v, d

\* Claims and marks outlast whatever else is processed.
LEMMA ClaimsLast ==
    ASSUME NEW max \in Nat, NEW last \in 0 .. max, NEW w, NEW done, NEW done1,
           \A n \in 1 .. max : done[n] > 0 => done1[n] > 0
    PROVE  /\ Claims(last, w, done) => Claims(last, w, done1)
           /\ AcksOf(last, w, done) => AcksOf(last, w, done1)
<1>1. \A i \in Slots : i \in Nat
  BY ConstantsAreSane DEF Slots
<1>2. Claims(last, w, done) => Claims(last, w, done1)
  BY <1>1 DEF Claims
<1>3. ASSUME AcksOf(last, w, done), NEW i \in Slots, last - i > 0, w[i]
      PROVE  done1[last - i] > 0 \/ (i > 0 /\ done1[last - i + 1] > 0)
  <2>1. i \in Nat /\ last - i \in 1 .. max /\ (i > 0 => last - i + 1 \in 1 .. max)
    BY <1>1, <1>3
  <2>2. done[last - i] > 0 \/ (i > 0 /\ done[last - i + 1] > 0)
    BY <1>3 DEF AcksOf
  <2> QED BY <2>1, <2>2
<1> QED BY <1>2, <1>3 DEF AcksOf

-----------------------------------------------------------------------------
(* The inductive invariant *)

\* Numbers that were drawn, and the headers that carry them.
SendInv ==
    /\ seq \in [Peers -> Seqs] /\ \A p \in Peers : seq[p] > 0
    /\ submitted \subseteq Messages
    /\ races \in 0 .. MaxRaces
    /\ pending \in [Peers -> Seq(Seqs)]
    /\ \A p \in Peers : \A j \in 1 .. Len(pending[p]) : pending[p][j] \in Numbers(p)
    /\ network \subseteq Header
    /\ \A k \in network : k.seq \in Numbers(k.from) /\ k.ackId \in 0 .. MaxSeq[Other[k.from]]

\* Reliable packets belong to the side that repeats them.
QueueInv ==
    /\ DOMAIN queuedPackets = Peers
    /\ \A p \in Peers : \A q \in queuedPackets[p] :
           /\ q \in Queued /\ Owner[q.message] = p
           /\ \A j \in 1 .. Len(q.seqs) : q.seqs[j] \in Numbers(p)

RecvInv ==
    /\ lastRemoteSeq \in [Peers -> Seqs]
    /\ recvPacketTimes \in [Peers -> [Slots -> BOOLEAN]]
    /\ jumped \in [Peers -> SUBSET Seqs]
    /\ DOMAIN processed = Peers
    /\ \A p \in Peers :
           /\ processed[p] \in [Numbers(Other[p]) -> 0 .. 2]
           /\ lastRemoteSeq[p] \in 0 .. MaxSeq[Other[p]]
           /\ WindowOf(lastRemoteSeq[p], recvPacketTimes[p], processed[p], jumped[p],
                       MaxSeq[Other[p]])

\* Headers that no race tore claim only what was processed.
HeaderInv == \A k \in network : k.torn \/ Claims(k.ackId, k.acks, processed[k.from])

AckInv ==
    /\ lastRemoteAckSeq \in [Peers -> Seqs]
    /\ remoteAcks \in [Peers -> [Slots -> BOOLEAN]]
    /\ misled \subseteq Peers
    /\ \A p \in Peers : lastRemoteAckSeq[p] \in 0 .. MaxSeq[p]
    /\ \A p \in Peers :
           p \in misled \/ AcksOf(lastRemoteAckSeq[p], remoteAcks[p], processed[Other[p]])

\* The attempt a removal took for acknowledged, or the next packet, was
\* processed.
Justified(m, s) ==
    \/ Owner[m] \in misled
    \/ processed[Other[Owner[m]]][s] > 0
    \/ s + 1 \in Numbers(Owner[m]) /\ processed[Other[Owner[m]]][s + 1] > 0

RemovedInv ==
    /\ acked \subseteq Messages \X Seqs
    /\ \A a \in acked : a[2] \in Numbers(Owner[a[1]]) /\ Justified(a[1], a[2])

WindowInv == SendInv /\ QueueInv /\ RecvInv /\ HeaderInv /\ AckInv /\ RemovedInv

sendVars == <<seq, submitted, pending, network, races>>
recvVars == <<lastRemoteSeq, recvPacketTimes, processed, jumped>>
ackVars == <<lastRemoteAckSeq, remoteAcks, misled, acked>>

-----------------------------------------------------------------------------
(* Sending *)

\* A number is drawn and its packet put into the send queue, once or, after a
\* race, twice.
LEMMA NumbersAreDrawn ==
    ASSUME SendInv, NEW p \in Peers, seq[p] <= MaxSeq[p],
           seq' = [seq EXCEPT ![p] = (@ + 1) % SeqMod],
           \/ pending' = [pending EXCEPT ![p] = Append(@, seq[p])]
           \/ pending' = [pending EXCEPT ![p] = @ \o <<seq[p], seq[p]>>],
           races' \in 0 .. MaxRaces, UNCHANGED <<submitted, network>>
    PROVE  SendInv' /\ seq[p] \in Numbers(p) /\ seq[p] \in Seqs
<1>1. seq[p] \in Numbers(p) /\ seq[p] \in Seqs
  BY ConstantsAreSane DEF SendInv, Numbers, Seqs
<1>2. (seq[p] + 1) % SeqMod = seq[p] + 1 /\ seq[p] + 1 \in Seqs /\ seq[p] + 1 > 0
  <2>1. seq[p] \in Positions /\ SeqMod \in Nat /\ SeqMod > 4
    BY <1>1, ConstantsAreSane
  <2>2. (seq[p] + 1) % SeqMod = seq[p] + 1
    BY <2>1, NoWrap
  <2>3. seq[p] + 1 \in 0 .. SeqMod - 1
    BY <2>1 DEF Positions
  <2> QED BY <2>1, <2>2, <2>3 DEF Seqs, Positions
<1>3. seq' \in [Peers -> Seqs] /\ \A o \in Peers : seq'[o] > 0
  BY <1>2 DEF SendInv
<1>4. PICK new \in Seq(Seqs) :
         /\ pending' = [pending EXCEPT ![p] = new]
         /\ \A j \in 1 .. Len(new) : new[j] \in Numbers(p)
  <2> DEFINE s == pending[p]
             a == seq[p]
  <2>1. s \in Seq(Seqs) /\ \A j \in 1 .. Len(s) : s[j] \in Numbers(p)
    BY DEF SendInv
  <2>2. a \in Seqs /\ a \in Numbers(p)
    BY <1>1
  <2>3. CASE pending' = [pending EXCEPT ![p] = Append(@, seq[p])]
    <3>1. pending' = [pending EXCEPT ![p] = Append(s, a)]
      BY <2>3
    <3> HIDE DEF s, a
    <3>2. Append(s, a) \in Seq(Seqs) /\ \A j \in 1 .. Len(Append(s, a)) : Append(s, a)[j] \in Numbers(p)
      BY <2>1, <2>2
    <3> QED BY <3>1, <3>2
  <2>4. CASE pending' = [pending EXCEPT ![p] = @ \o <<seq[p], seq[p]>>]
    <3> DEFINE t == s \o <<a, a>>
    <3>1. pending' = [pending EXCEPT ![p] = t]
      BY <2>4
    <3> HIDE DEF s, a
    <3>2. t \in Seq(Seqs) /\ Len(t) = Len(s) + 2
          /\ \A j \in 1 .. Len(t) : t[j] = IF j > Len(s) THEN a ELSE s[j]
      BY <2>1, <2>2
    <3> HIDE DEF t
    <3>3. ASSUME NEW j \in 1 .. Len(t) PROVE t[j] \in Numbers(p)
      <4>1. CASE j > Len(s)
        BY <2>2, <3>2, <4>1
      <4>2. CASE ~(j > Len(s))
        <5>1. j \in 1 .. Len(s)
          BY <2>1, <4>2
        <5> QED BY <2>1, <3>2, <4>2, <5>1
      <4> QED BY <4>1, <4>2
    <3> QED BY <3>1, <3>2, <3>3
  <2> QED BY <2>3, <2>4
<1>5. /\ pending' \in [Peers -> Seq(Seqs)]
      /\ \A o \in Peers : \A j \in 1 .. Len(pending'[o]) : pending'[o][j] \in Numbers(o)
  BY <1>4 DEF SendInv
<1> QED BY <1>1, <1>3, <1>5 DEF SendInv

\* The number of an attempt is remembered.
LEMMA AttemptIsRemembered ==
    ASSUME QueueInv, NEW p \in Peers, NEW q \in queuedPackets[p], Remember(p, q),
           seq[p] \in Numbers(p), seq[p] \in Seqs
    PROVE  QueueInv'
<1> DEFINE n == IF Len(q.seqs) < KeepSeqs THEN Len(q.seqs) ELSE KeepSeqs - 1
           kept == SubSeq(q.seqs, 1, n)
           a == seq[p]
           r == [q EXCEPT !.seqs = <<a>> \o kept]
<1>1. queuedPackets' = [queuedPackets EXCEPT ![p] = (@ \ {q}) \cup {r}]
  BY DEF Remember
<1>2. /\ q \in Queued /\ Owner[q.message] = p
      /\ \A j \in 1 .. Len(q.seqs) : q.seqs[j] \in Numbers(p)
  BY DEF QueueInv
<1>3. q.seqs \in Seq(Seqs) /\ n \in Nat /\ n <= Len(q.seqs)
  BY <1>2, AckWindowAssumption DEF Queued
<1>4. a \in Seqs /\ a \in Numbers(p)
  OBVIOUS
<1> HIDE DEF n, a
<1>5. kept \in Seq(Seqs) /\ \A j \in 1 .. Len(kept) : kept[j] \in Numbers(p)
  <2>1. kept \in Seq(Seqs) /\ Len(kept) = n /\ \A j \in 1 .. n : kept[j] = q.seqs[j]
    BY <1>3
  <2> HIDE DEF kept
  <2> QED BY <1>2, <1>3, <2>1
<1> HIDE DEF kept
<1> DEFINE t == <<a>> \o kept
<1>6. t \in Seq(Seqs) /\ \A j \in 1 .. Len(t) : t[j] \in Numbers(p)
  <2>1. t \in Seq(Seqs) /\ Len(t) = Len(kept) + 1
        /\ \A j \in 1 .. Len(t) : t[j] = IF j = 1 THEN a ELSE kept[j - 1]
    BY <1>4, <1>5
  <2> HIDE DEF t
  <2>2. ASSUME NEW j \in 1 .. Len(t) PROVE t[j] \in Numbers(p)
    <3>1. CASE j = 1
      BY <1>4, <2>1, <3>1
    <3>2. CASE j # 1
      <4>1. j - 1 \in 1 .. Len(kept)
        BY <1>5, <2>1, <3>2
      <4> QED BY <1>5, <2>1, <3>2, <4>1
    <3> QED BY <3>1, <3>2
  <2> QED BY <2>1, <2>2
<1> HIDE DEF t
<1>7. r = [q EXCEPT !.seqs = t]
  BY DEF t
<1>8. r \in Queued /\ Owner[r.message] = p /\ r.seqs = t
  BY <1>2, <1>6, <1>7 DEF Queued
<1> HIDE DEF r
<1>9. \A x \in queuedPackets'[p] : x \in queuedPackets[p] \/ x = r
  BY <1>1 DEF QueueInv
<1>10. /\ DOMAIN queuedPackets' = Peers
       /\ \A o \in Peers : o # p => queuedPackets'[o] = queuedPackets[o]
  BY <1>1 DEF QueueInv
<1>11. ASSUME NEW o \in Peers, NEW x \in queuedPackets'[o]
       PROVE  /\ x \in Queued /\ Owner[x.message] = o
              /\ \A j \in 1 .. Len(x.seqs) : x.seqs[j] \in Numbers(o)
  <2>1. CASE o = p /\ x = r
    BY <1>6, <1>8, <2>1
  <2>2. CASE x \in queuedPackets[o]
    BY <2>2 DEF QueueInv
  <2> QED BY <1>9, <1>10, <1>11, <2>1, <2>2
<1> QED BY <1>10, <1>11 DEF QueueInv

\* Steps that take packets from the queue, or add one that was not sent yet.
LEMMA QueueShrinks ==
    ASSUME QueueInv, NEW p \in Peers, NEW S,
           queuedPackets' = [queuedPackets EXCEPT ![p] = S],
           \A q \in S : q \in queuedPackets[p]
                            \/ (\E m \in Messages : Owner[m] = p /\ q = [message |-> m, seqs |-> <<>>])
    PROVE  QueueInv'
<1>1. /\ DOMAIN queuedPackets' = Peers /\ queuedPackets'[p] = S
      /\ \A o \in Peers : o # p => queuedPackets'[o] = queuedPackets[o]
  BY DEF QueueInv
<1>2. ASSUME NEW o \in Peers, NEW x \in queuedPackets'[o]
      PROVE  /\ x \in Queued /\ Owner[x.message] = o
             /\ \A j \in 1 .. Len(x.seqs) : x.seqs[j] \in Numbers(o)
  <2>1. CASE x \in queuedPackets[o]
    BY <2>1 DEF QueueInv
  <2>2. ASSUME o = p, NEW m \in Messages, Owner[m] = p, x = [message |-> m, seqs |-> <<>>]
        PROVE  /\ x \in Queued /\ Owner[x.message] = o
               /\ \A j \in 1 .. Len(x.seqs) : x.seqs[j] \in Numbers(o)
    BY <2>2 DEF Queued
  <2> QED BY <1>1, <1>2, <2>1, <2>2
<1> QED BY <1>1, <1>2 DEF QueueInv

\* A header is written; a torn one claims nothing.
LEMMA HeaderIsSent ==
    ASSUME SendInv, HeaderInv, NEW p \in Peers, NEW ackId \in 0 .. MaxSeq[Other[p]],
           NEW acks \in [Slots -> BOOLEAN], NEW torn \in BOOLEAN, Send(p, ackId, acks, torn),
           races' \in 0 .. MaxRaces, UNCHANGED <<seq, submitted>>
    PROVE  /\ SendInv'
           /\ \A k \in network' : \/ k \in network
                                  \/ /\ k.from = p /\ k.ackId = ackId /\ k.acks = acks
                                     /\ k.torn = torn
<1> DEFINE h == [from |-> p, seq |-> Head(pending[p]), ackId |-> ackId, acks |-> acks,
                 torn |-> torn]
<1>1. /\ pending[p] # <<>> /\ pending' = [pending EXCEPT ![p] = Tail(pending[p])]
      /\ network' = network \cup {h}
  BY DEF Send
<1>2. pending[p] \in Seq(Seqs) /\ \A j \in 1 .. Len(pending[p]) : pending[p][j] \in Numbers(p)
  BY DEF SendInv
<1>3. Head(pending[p]) \in Seqs /\ Head(pending[p]) \in Numbers(p)
  BY <1>1, <1>2
<1>4. /\ Tail(pending[p]) \in Seq(Seqs)
      /\ \A j \in 1 .. Len(Tail(pending[p])) : Tail(pending[p])[j] \in Numbers(p)
  BY <1>1, <1>2
<1>5. ackId \in Seqs
  BY ConstantsAreSane
<1>6. h \in Header /\ h.from = p /\ h.ackId = ackId /\ h.acks = acks /\ h.torn = torn
      /\ h.seq \in Numbers(p)
  BY <1>3, <1>5 DEF Header
<1> HIDE DEF h
<1>7. /\ pending' \in [Peers -> Seq(Seqs)]
      /\ \A o \in Peers : \A j \in 1 .. Len(pending'[o]) : pending'[o][j] \in Numbers(o)
  BY <1>1, <1>4 DEF SendInv
<1>8. /\ network' \subseteq Header
      /\ \A k \in network' : k.seq \in Numbers(k.from) /\ k.ackId \in 0 .. MaxSeq[Other[k.from]]
  BY <1>1, <1>6 DEF SendInv
<1>9. SendInv'
  BY <1>7, <1>8 DEF SendInv
<1> QED BY <1>1, <1>6, <1>9

-----------------------------------------------------------------------------
(* Receiving *)

\* What is processed stays processed.
Grows == \A p \in Peers : \A n \in Numbers(Other[p]) :
             processed[p][n] > 0 => processed'[p][n] > 0

\* A packet that is neither a duplicate nor too late is noted.
LEMMA PacketIsNoted ==
    ASSUME RecvInv, NEW p \in Peers, NEW k, k.seq \in Numbers(Other[p]), ~Duplicate(p, k),
           ~TooLate(p, k), NoteReceived(p, k),
           processed' = [processed EXCEPT ![p][k.seq] = @ + 1]
    PROVE  RecvInv' /\ Grows
<1> DEFINE s == k.seq
           last == lastRemoteSeq[p]
           max == MaxSeq[Other[p]]
           w == recvPacketTimes[p]
           done == processed[p]
           jumps == jumped[p]
<1>1. /\ max \in Nat /\ last \in 0 .. max /\ s \in 1 .. max /\ w \in [Slots -> BOOLEAN]
      /\ done \in [1 .. max -> 0 .. 2] /\ WindowOf(last, w, done, jumps, max)
      /\ last \in Positions /\ s \in Positions /\ last \in Nat /\ s \in Nat /\ s \in Seqs
  BY ConstantsAreSane DEF RecvInv, Numbers
<1>2. /\ Newer(p, k) <=> s > last
      /\ s >= last => Minus(s, last) = s - last
      /\ last >= s => Minus(last, s) = last - s
  BY <1>1, NoWrap DEF Newer
<1> DEFINE done1 == [done EXCEPT ![s] = @ + 1]
<1>3. processed' = [processed EXCEPT ![p] = done1]
  BY DEF RecvInv
<1>4. ASSUME NEW last1 \in 0 .. max, NEW w1 \in [Slots -> BOOLEAN], NEW jumps1 \in SUBSET Seqs,
             lastRemoteSeq' = [lastRemoteSeq EXCEPT ![p] = last1],
             recvPacketTimes' = [recvPacketTimes EXCEPT ![p] = w1],
             jumped' = [jumped EXCEPT ![p] = jumps1],
             WindowOf(last1, w1, done1, jumps1, max), done[s] <= 1
      PROVE  RecvInv' /\ Grows
  <2>1. done1 \in [1 .. max -> 0 .. 2] /\ \A n \in 1 .. max : done[n] > 0 => done1[n] > 0
    <3>1. done \in [1 .. max -> 0 .. 2] /\ s \in 1 .. max /\ max \in Nat
      BY <1>1
    <3>2. done[s] <= 1
      BY <1>4
    <3> HIDE DEF done, s, max
    <3>3. done[s] \in 0 .. 2
      BY <3>1
    <3>4. done[s] + 1 \in 0 .. 2
      BY <3>2, <3>3
    <3> QED BY <3>1, <3>4
  <2>2. last1 \in Seqs
    BY <1>4, ConstantsAreSane
  <2> HIDE DEF done1, done, w, jumps, last
  <2>3. /\ lastRemoteSeq' \in [Peers -> Seqs] /\ recvPacketTimes' \in [Peers -> [Slots -> BOOLEAN]]
        /\ jumped' \in [Peers -> SUBSET Seqs] /\ DOMAIN processed' = Peers
    BY <1>3, <1>4, <2>2 DEF RecvInv
  <2>4. /\ lastRemoteSeq'[p] = last1 /\ recvPacketTimes'[p] = w1 /\ jumped'[p] = jumps1
        /\ processed'[p] = done1
    BY <1>3, <1>4 DEF RecvInv
  <2>5. \A o \in Peers : o # p =>
           /\ lastRemoteSeq'[o] = lastRemoteSeq[o] /\ recvPacketTimes'[o] = recvPacketTimes[o]
           /\ jumped'[o] = jumped[o] /\ processed'[o] = processed[o]
    BY <1>3, <1>4 DEF RecvInv
  <2>6. ASSUME NEW o \in Peers
        PROVE  /\ processed'[o] \in [Numbers(Other[o]) -> 0 .. 2]
               /\ lastRemoteSeq'[o] \in 0 .. MaxSeq[Other[o]]
               /\ WindowOf(lastRemoteSeq'[o], recvPacketTimes'[o], processed'[o], jumped'[o],
                           MaxSeq[Other[o]])
    <3>1. CASE o = p
      BY <1>4, <2>1, <2>4, <3>1 DEF Numbers
    <3>2. CASE o # p
      BY <2>5, <3>2 DEF RecvInv
    <3> QED BY <3>1, <3>2
  <2>7. Grows
    <3> SUFFICES ASSUME NEW o \in Peers, NEW n \in Numbers(Other[o]), processed[o][n] > 0
                 PROVE  processed'[o][n] > 0
      BY DEF Grows
    <3>1. CASE o = p
      BY <2>1, <2>4, <3>1 DEF Numbers, done
    <3>2. CASE o # p
      BY <2>5, <3>2
    <3> QED BY <3>1, <3>2
  <2>8. RecvInv'
    BY <2>3, <2>6 DEF RecvInv
  <2> QED BY <2>7, <2>8
<1>5. CASE s > last
  <2> DEFINE d == s - last
             w1 == Advance(w, d)
             jumps1 == IF d > Window - 1 THEN jumps \cup {s} ELSE jumps
  <2>1. d \in Nat /\ d > 0 /\ Minus(k.seq, lastRemoteSeq[p]) = d
    BY <1>1, <1>2, <1>5
  <2>2. /\ lastRemoteSeq' = [lastRemoteSeq EXCEPT ![p] = s]
        /\ recvPacketTimes' = [recvPacketTimes EXCEPT ![p] = Advance(@, Minus(k.seq, lastRemoteSeq[p]))]
        /\ jumped' = IF Minus(k.seq, lastRemoteSeq[p]) > Window - 1
                     THEN [jumped EXCEPT ![p] = @ \cup {k.seq}] ELSE jumped
    BY <1>2, <1>5 DEF NoteReceived
  <2>3. recvPacketTimes' = [recvPacketTimes EXCEPT ![p] = w1]
    BY <2>1, <2>2
  <2>4. jumped' = [jumped EXCEPT ![p] = jumps1]
    BY <2>1, <2>2 DEF RecvInv
  <2>5. jumps1 \in SUBSET Seqs
    BY <1>1 DEF RecvInv
  <2>6. WindowOf(s, w1, done1, jumps1, max)
    <3> DEFINE j1 == jumps1
    <3>1. j1 = IF s - last > Window - 1 THEN jumps \cup {s} ELSE jumps
      OBVIOUS
    <3> HIDE DEF j1, s, last, max, w, done, jumps
    <3>2. WindowOf(s, Advance(w, s - last), [done EXCEPT ![s] = @ + 1], j1, max)
      BY <1>1, <1>5, <3>1, NewerKeepsWindow
    <3> QED BY <3>2 DEF j1
  <2>7. done[s] = 0
    BY <1>1, <1>5 DEF WindowOf
  <2>8. w1 \in [Slots -> BOOLEAN]
    <3> HIDE DEF w, d
    <3> QED BY <1>1, <2>1, AdvanceShifts
  <2>9. s \in 0 .. max /\ done[s] <= 1
    BY <1>1, <2>7
  <2> HIDE DEF w1, jumps1, done1, max, done
  <2> QED BY <1>4, <2>2, <2>3, <2>4, <2>5, <2>6, <2>8, <2>9
<1>6. CASE ~(s > last)
  <2> DEFINE i == last - s
             w1 == [w EXCEPT ![i] = TRUE]
  <2>1. s <= last /\ Behind(p, k) = i /\ i \in Nat
    BY <1>1, <1>2, <1>6 DEF Behind
  <2>2. i \in Slots
    BY <1>2, <1>6, <2>1, ConstantsAreSane DEF TooLate, Slots
  <2>3. ~w[i]
    BY <1>2, <1>6, <2>1, <2>2, ConstantsAreSane DEF Duplicate, Slots
  <2>4. /\ recvPacketTimes' = [recvPacketTimes EXCEPT ![p][Behind(p, k)] = TRUE]
        /\ UNCHANGED <<lastRemoteSeq, jumped>>
    BY <1>2, <1>6 DEF NoteReceived
  <2>5. recvPacketTimes' = [recvPacketTimes EXCEPT ![p] = w1]
    BY <2>1, <2>4 DEF RecvInv
  <2>6. /\ lastRemoteSeq' = [lastRemoteSeq EXCEPT ![p] = last]
        /\ jumped' = [jumped EXCEPT ![p] = jumps] /\ jumps \in SUBSET Seqs
    BY <2>4 DEF RecvInv
  <2>7. w1 \in [Slots -> BOOLEAN]
    BY <1>1, <2>2
  <2>8. done[s] <= 1 /\ WindowOf(last, w1, done1, jumps, max)
    <3> HIDE DEF s, last, max, w, done, jumps
    <3>1. /\ done[s] <= 1
          /\ WindowOf(last, [w EXCEPT ![last - s] = TRUE], [done EXCEPT ![s] = @ + 1], jumps, max)
      BY <1>1, <2>1, <2>2, <2>3, OlderKeepsWindow
    <3> QED BY <3>1
  <2> HIDE DEF w1, jumps, done1, max, done, last
  <2> QED BY <1>1, <1>4, <2>5, <2>6, <2>7, <2>8
<1> QED BY <1>5, <1>6

\* Headers and removals stay justified while packets are processed.
LEMMA HeadersStay ==
    ASSUME SendInv, HeaderInv, Grows, \A k \in network' : k \in network \/ k.torn
    PROVE  HeaderInv'
<1> SUFFICES ASSUME NEW k \in network' PROVE k.torn \/ Claims(k.ackId, k.acks, processed'[k.from])
  BY DEF HeaderInv
<1>1. CASE k \in network /\ ~k.torn
  <2> DEFINE p == k.from
             max == MaxSeq[Other[p]]
             done == processed[p]
             done1 == processed'[p]
             id == k.ackId
             acks == k.acks
  <2>1. Claims(id, acks, done)
    BY <1>1 DEF HeaderInv
  <2>2. p \in Peers /\ max \in Nat /\ id \in 0 .. max
    BY <1>1, ConstantsAreSane DEF SendInv, Header
  <2>3. \A n \in 1 .. max : done[n] > 0 => done1[n] > 0
    BY <2>2 DEF Grows, Numbers
  <2> HIDE DEF max, done, done1, id, acks
  <2>4. Claims(id, acks, done1)
    BY <2>1, <2>2, <2>3, ClaimsLast
  <2> QED BY <2>4 DEF id, acks, done1
<1>2. CASE k.torn
  BY <1>2
<1> QED BY <1>1, <1>2

\* A removal stays justified.
LEMMA RemovalsStay ==
    ASSUME RemovedInv, Grows, misled \subseteq misled'
    PROVE  \A a \in acked : a[2] \in Numbers(Owner[a[1]]) /\ Justified(a[1], a[2])'
<1> SUFFICES ASSUME NEW a \in acked
             PROVE  a[2] \in Numbers(Owner[a[1]]) /\ Justified(a[1], a[2])'
  OBVIOUS
<1> DEFINE m == a[1]
           s == a[2]
           o == Owner[m]
           p == Other[o]
<1>1. m \in Messages /\ s \in Numbers(o) /\ Justified(m, s)
  BY DEF RemovedInv
<1>2. o \in Peers /\ p \in Peers /\ Other[p] = o
  BY <1>1, AckWindowAssumption, ConstantsAreSane
<1>3. \A n \in Numbers(o) : processed[p][n] > 0 => processed'[p][n] > 0
  BY <1>2 DEF Grows
<1>4. \/ o \in misled' \/ processed'[p][s] > 0
      \/ s + 1 \in Numbers(o) /\ processed'[p][s + 1] > 0
  BY <1>1, <1>3 DEF Justified
<1> QED BY <1>1, <1>4 DEF Justified

\* The marks of acknowledgements stay right while packets are processed.
LEMMA MarksStay ==
    ASSUME AckInv, Grows, NEW p \in Peers, p \notin misled
    PROVE  AcksOf(lastRemoteAckSeq[p], remoteAcks[p], processed'[Other[p]])
<1> DEFINE max == MaxSeq[p]
           last == lastRemoteAckSeq[p]
           w == remoteAcks[p]
           done == processed[Other[p]]
           done1 == processed'[Other[p]]
<1>1. AcksOf(last, w, done) /\ max \in Nat /\ last \in 0 .. max
  BY ConstantsAreSane DEF AckInv
<1>2. \A n \in 1 .. max : done[n] > 0 => done1[n] > 0
  BY ConstantsAreSane DEF Grows, Numbers
<1> HIDE DEF max, last, w, done, done1
<1>3. AcksOf(last, w, done1)
  BY <1>1, <1>2, ClaimsLast
<1> QED BY <1>3 DEF last, w, done1

\* A number that is taken as acknowledged, or the one after it, was processed.
LEMMA AckIsJustified ==
    ASSUME NEW p \in Peers, NEW q, Owner[q.message] = p,
           \A j \in 1 .. Len(q.seqs) : q.seqs[j] \in Numbers(p),
           NEW ackId \in 0 .. MaxSeq[p], NEW w, NEW s \in AckedSeqs(q, ackId, w),
           p \in misled' \/ AcksOf(ackId, w, processed'[Other[p]])
    PROVE  s \in Numbers(p) /\ Justified(q.message, s)'
<1>1. PICK j \in 1 .. Len(q.seqs) :
         /\ s = q.seqs[j] /\ seqgt(ackId, s) /\ Minus(ackId, s) < Window /\ w[Minus(ackId, s)]
  BY DEF AckedSeqs
<1>2. s \in Numbers(p) /\ s \in Positions /\ ackId \in Positions /\ s \in Nat /\ s > 0
      /\ MaxSeq[p] \in Nat /\ ackId \in Nat /\ Window \in Nat
  BY <1>1, ConstantsAreSane DEF Numbers
<1> DEFINE i == ackId - s
<1>3. ackId > s /\ Minus(ackId, s) = i /\ i \in Nat /\ i > 0 /\ ackId - i = s
  BY <1>1, <1>2, NoWrap
<1>4. i \in Slots /\ w[i]
  BY <1>1, <1>2, <1>3 DEF Slots
<1> HIDE DEF i
<1> DEFINE done == processed'[Other[p]]
<1>5. p \in misled' \/ done[s] > 0 \/ done[s + 1] > 0
  <2>1. ASSUME AcksOf(ackId, w, done) PROVE done[s] > 0 \/ done[s + 1] > 0
    <3>1. ackId - i > 0
      BY <1>2, <1>3
    <3>2. done[ackId - i] > 0 \/ (i > 0 /\ done[ackId - i + 1] > 0)
      BY <1>4, <2>1, <3>1 DEF AcksOf
    <3> QED BY <1>3, <3>2
  <2> QED BY <2>1
<1>6. s + 1 \in Numbers(p)
  BY <1>2, <1>3 DEF Numbers
<1> QED BY <1>2, <1>5, <1>6 DEF Justified

\* Acknowledgements are noted: the window of marks moves, and reliable packets
\* leave the queue.
LEMMA AcksAreNoted ==
    ASSUME SendInv, QueueInv, AckInv, RemovedInv, HeaderInv, Grows, NEW p \in Peers,
           NEW k \in network, k.from = Other[p], NoteAcks(p, k),
           k.torn \/ Claims(k.ackId, k.acks, processed'[k.from])
    PROVE  QueueInv' /\ AckInv' /\ RemovedInv'
<1> DEFINE id == k.ackId
           last == lastRemoteAckSeq[p]
           done == processed'[Other[p]]
<1>1. /\ id \in 0 .. MaxSeq[p] /\ last \in 0 .. MaxSeq[p] /\ MaxSeq[p] \in Nat
      /\ id \in Positions /\ last \in Positions /\ id \in Nat /\ last \in Nat /\ id \in Seqs
      /\ k.acks \in [Slots -> BOOLEAN] /\ remoteAcks[p] \in [Slots -> BOOLEAN]
  BY ConstantsAreSane DEF SendInv, Header, AckInv
<1>2. /\ seqgt(id, last) <=> id > last
      /\ id >= last => Minus(id, last) = id - last
  BY <1>1, NoWrap
<1>3. CASE ~(id > last)
  <2>1. UNCHANGED <<lastRemoteAckSeq, remoteAcks, queuedPackets, acked, misled>>
    BY <1>2, <1>3 DEF NoteAcks
  <2>2. AckInv'
    BY <2>1, MarksStay DEF AckInv
  <2>3. RemovedInv'
    BY <2>1, RemovalsStay DEF RemovedInv
  <2>4. QueueInv'
    BY <2>1 DEF QueueInv
  <2> QED BY <2>2, <2>3, <2>4
<1>4. CASE id > last
  <2> DEFINE w == Marked(Advance(remoteAcks[p], id - last), k.acks)
             gone == {q \in queuedPackets[p] : AckedSeqs(q, id, w) # {}}
  <2>1. /\ lastRemoteAckSeq' = [lastRemoteAckSeq EXCEPT ![p] = id]
        /\ remoteAcks' = [remoteAcks EXCEPT ![p] = w]
        /\ queuedPackets' = [queuedPackets EXCEPT ![p] = @ \ gone]
        /\ acked' = acked \cup UNION {{q.message} \X AckedSeqs(q, id, w) : q \in gone}
        /\ misled' = IF k.torn THEN misled \cup {p} ELSE misled
    BY <1>1, <1>2, <1>4 DEF NoteAcks
  <2>2. w \in [Slots -> BOOLEAN]
    BY DEF Marked
  <2>3. p \in misled' \/ AcksOf(id, w, done)
    <3>1. CASE k.torn \/ p \in misled
      BY <2>1, <3>1
    <3>2. CASE ~k.torn /\ p \notin misled
      <4> DEFINE l == lastRemoteAckSeq[p]
                 v == remoteAcks[p]
                 acks == k.acks
      <4>1. AcksOf(l, v, done)
        BY <3>2, MarksStay
      <4>2. Claims(id, acks, done)
        BY <3>2
      <4>3. l \in Nat /\ id \in Nat /\ id > l /\ v \in [Slots -> BOOLEAN] /\ acks \in [Slots -> BOOLEAN]
        BY <1>1, <1>4
      <4> HIDE DEF l, v, acks, id, done
      <4>4. AcksOf(id, Marked(Advance(v, id - l), acks), done)
        BY <4>1, <4>2, <4>3, MarksAreClaimed
      <4> QED BY <4>4 DEF l, v, acks
    <3> QED BY <3>1, <3>2
  <2> HIDE DEF w, gone
  <2>4. misled' \subseteq Peers /\ misled \subseteq misled' /\ (\A o \in misled' : o = p \/ o \in misled)
    BY <2>1 DEF AckInv
  <2>5. AckInv'
    <3>1. /\ lastRemoteAckSeq' \in [Peers -> Seqs] /\ remoteAcks' \in [Peers -> [Slots -> BOOLEAN]]
          /\ \A o \in Peers : lastRemoteAckSeq'[o] \in 0 .. MaxSeq[o]
      BY <1>1, <2>1, <2>2 DEF AckInv
    <3>2. ASSUME NEW o \in Peers
          PROVE  o \in misled' \/ AcksOf(lastRemoteAckSeq'[o], remoteAcks'[o], processed'[Other[o]])
      <4>1. CASE o = p
        <5>1. lastRemoteAckSeq'[o] = id /\ remoteAcks'[o] = w
          BY <2>1, <4>1 DEF AckInv
        <5> QED BY <2>3, <4>1, <5>1
      <4>2. CASE o # p
        <5>1. lastRemoteAckSeq'[o] = lastRemoteAckSeq[o] /\ remoteAcks'[o] = remoteAcks[o]
          BY <2>1, <4>2 DEF AckInv
        <5> QED BY <2>4, <5>1, MarksStay
      <4> QED BY <4>1, <4>2
    <3> QED BY <2>4, <3>1, <3>2 DEF AckInv
  <2>6. QueueInv'
    <3> DEFINE S == queuedPackets[p] \ gone
    <3>1. queuedPackets' = [queuedPackets EXCEPT ![p] = S] /\ \A q \in S : q \in queuedPackets[p]
      BY <2>1
    <3> HIDE DEF S
    <3> QED BY <3>1, QueueShrinks
  <2>7. ASSUME NEW q \in gone, NEW s \in AckedSeqs(q, id, w)
        PROVE  /\ q.message \in Messages /\ Owner[q.message] = p
               /\ s \in Numbers(p) /\ Justified(q.message, s)' /\ s \in Seqs
    <3>1. /\ q \in Queued /\ Owner[q.message] = p
          /\ \A j \in 1 .. Len(q.seqs) : q.seqs[j] \in Numbers(p)
      BY DEF QueueInv, gone
    <3> HIDE DEF id
    <3>2. s \in Numbers(p) /\ Justified(q.message, s)'
      BY <1>1, <2>3, <3>1, AckIsJustified
    <3>3. s \in Seqs
      BY <3>2, ConstantsAreSane
    <3> QED BY <3>1, <3>2, <3>3 DEF Queued
  <2>8. RemovedInv'
    <3>1. ASSUME NEW a \in acked'
          PROVE  a \in Messages \X Seqs /\ a[2] \in Numbers(Owner[a[1]]) /\ Justified(a[1], a[2])'
      <4>1. CASE a \in acked
        BY <2>4, <4>1, RemovalsStay DEF RemovedInv
      <4>2. CASE a \notin acked
        <5>1. PICK q \in gone : a \in {q.message} \X AckedSeqs(q, id, w)
          BY <2>1, <3>1, <4>2
        <5>2. a[1] = q.message /\ a[2] \in AckedSeqs(q, id, w) /\ a = <<a[1], a[2]>>
          BY <5>1
        <5>3. /\ q.message \in Messages /\ Owner[q.message] = p
              /\ a[2] \in Numbers(p) /\ Justified(q.message, a[2])' /\ a[2] \in Seqs
          BY <2>7, <5>2
        <5> QED BY <5>2, <5>3
      <4> QED BY <4>1, <4>2
    <3> QED BY <3>1 DEF RemovedInv
  <2> QED BY <2>5, <2>6, <2>8
<1> QED BY <1>3, <1>4

\* A packet is received: its number is noted, then what it acknowledges.
LEMMA PacketIsAccepted ==
    ASSUME WindowInv, NEW p \in Peers, NEW k \in network, Accept(p, k)
    PROVE  RecvInv' /\ QueueInv' /\ AckInv' /\ RemovedInv' /\ Grows
<1>1. /\ SendInv /\ QueueInv /\ RecvInv /\ HeaderInv /\ AckInv /\ RemovedInv
  BY DEF WindowInv
<1>2. /\ k.from = Other[p] /\ ~Duplicate(p, k) /\ ~TooLate(p, k)
      /\ NoteReceived(p, k) /\ NoteAcks(p, k)
      /\ processed' = [processed EXCEPT ![p][k.seq] = @ + 1]
  BY DEF Accept
<1>3. k.seq \in Numbers(Other[p])
  BY <1>1, <1>2 DEF SendInv
<1>4. RecvInv' /\ Grows
  BY <1>1, <1>2, <1>3, PacketIsNoted
<1>5. k.torn \/ Claims(k.ackId, k.acks, processed'[k.from])
  <2> DEFINE o == k.from
             max == MaxSeq[Other[o]]
             done == processed[o]
             done1 == processed'[o]
             id == k.ackId
             acks == k.acks
  <2>1. k.torn \/ Claims(id, acks, done)
    BY <1>1 DEF HeaderInv
  <2>2. o \in Peers /\ max \in Nat /\ id \in 0 .. max
    BY <1>1, ConstantsAreSane DEF SendInv, Header
  <2>3. \A n \in 1 .. max : done[n] > 0 => done1[n] > 0
    BY <1>4, <2>2 DEF Grows, Numbers
  <2> HIDE DEF max, done, done1, id, acks
  <2>4. Claims(id, acks, done) => Claims(id, acks, done1)
    BY <2>2, <2>3, ClaimsLast
  <2> QED BY <2>1, <2>4 DEF id, acks, done1
<1>6. QueueInv' /\ AckInv' /\ RemovedInv'
  BY <1>1, <1>2, <1>4, <1>5, AcksAreNoted
<1> QED BY <1>4, <1>6

\* Nothing that was received or acknowledged changes.
LEMMA ReceivedStays ==
    ASSUME WindowInv, UNCHANGED <<recvVars, ackVars>>
    PROVE  RecvInv' /\ AckInv' /\ RemovedInv'
<1>1. RecvInv'
  BY DEF WindowInv, RecvInv, recvVars
<1>2. AckInv'
  BY DEF WindowInv, AckInv, recvVars, ackVars
<1>3. RemovedInv'
  BY DEF WindowInv, RemovedInv, Justified, recvVars, ackVars
<1> QED BY <1>1, <1>2, <1>3

\* Every step keeps the invariant.
LEMMA NextKeepsWindow == WindowInv /\ [Next]_vars => WindowInv'
<1> SUFFICES ASSUME WindowInv, [Next]_vars PROVE WindowInv'
  OBVIOUS
<1>0. SendInv /\ QueueInv /\ RecvInv /\ HeaderInv /\ AckInv /\ RemovedInv
  BY DEF WindowInv
<1>a. ASSUME UNCHANGED <<network, processed>> PROVE HeaderInv'
  BY <1>0, <1>a DEF HeaderInv
<1>1. ASSUME NEW m \in Messages, SendPacketReliably(m) PROVE WindowInv'
  <2>1. /\ submitted' = submitted \cup {m}
        /\ queuedPackets' = [queuedPackets EXCEPT ![Owner[m]] = @ \cup {[message |-> m, seqs |-> <<>>]}]
        /\ UNCHANGED <<seq, pending, network, races, recvVars, ackVars>>
    BY <1>1 DEF SendPacketReliably, recvVars, ackVars
  <2>2. SendInv'
    BY <1>0, <2>1 DEF SendInv
  <2> DEFINE p == Owner[m]
             S == queuedPackets[p] \cup {[message |-> m, seqs |-> <<>>]}
  <2>3. p \in Peers
    BY AckWindowAssumption
  <2>4. /\ queuedPackets' = [queuedPackets EXCEPT ![p] = S]
        /\ \A q \in S : q \in queuedPackets[p] \/
             (\E n \in Messages : Owner[n] = p /\ q = [message |-> n, seqs |-> <<>>])
    BY <2>1
  <2> HIDE DEF S
  <2>5. QueueInv'
    <3> HIDE DEF p
    <3> QED BY <1>0, <2>3, <2>4, QueueShrinks
  <2>6. RecvInv' /\ AckInv' /\ RemovedInv'
    BY <2>1, ReceivedStays
  <2>7. HeaderInv'
    BY <1>a, <2>1 DEF recvVars
  <2> QED BY <2>2, <2>5, <2>6, <2>7 DEF WindowInv
<1>2. ASSUME NEW p \in Peers, SendData(p) PROVE WindowInv'
  <2>1. /\ seq[p] <= MaxSeq[p] /\ seq' = [seq EXCEPT ![p] = (@ + 1) % SeqMod]
        /\ pending' = [pending EXCEPT ![p] = Append(@, seq[p])]
        /\ UNCHANGED <<submitted, network, races, queuedPackets, recvVars, ackVars>>
    BY <1>2 DEF SendData, Enqueue, recvVars, ackVars
  <2>2. races' \in 0 .. MaxRaces
    BY <1>0, <2>1 DEF SendInv
  <2>3. SendInv'
    BY <1>0, <2>1, <2>2, NumbersAreDrawn
  <2>4. QueueInv'
    BY <1>0, <2>1 DEF QueueInv
  <2>5. RecvInv' /\ AckInv' /\ RemovedInv'
    BY <2>1, ReceivedStays
  <2>6. HeaderInv'
    BY <1>a, <2>1 DEF recvVars
  <2> QED BY <2>3, <2>4, <2>5, <2>6 DEF WindowInv
<1>3. ASSUME NEW p \in Peers, NEW q \in queuedPackets[p], SendQueued(p, q) \/ SendQueuedRacing(p, q)
      PROVE  WindowInv'
  <2>1. /\ seq[p] <= MaxSeq[p] /\ seq' = [seq EXCEPT ![p] = (@ + 1) % SeqMod]
        /\ \/ pending' = [pending EXCEPT ![p] = Append(@, seq[p])]
           \/ pending' = [pending EXCEPT ![p] = @ \o <<seq[p], seq[p]>>]
        /\ Remember(p, q)
        /\ UNCHANGED <<submitted, network, recvVars, ackVars>>
    BY <1>3 DEF SendQueued, SendQueuedRacing, Enqueue, recvVars, ackVars
  <2>2. races' \in 0 .. MaxRaces
    <3>1. races' = races \/ (races < MaxRaces /\ races' = races + 1)
      BY <1>3 DEF SendQueued, SendQueuedRacing, Race
    <3> QED BY <1>0, <3>1, AckWindowAssumption DEF SendInv
  <2>3. SendInv' /\ seq[p] \in Numbers(p) /\ seq[p] \in Seqs
    BY <1>0, <2>1, <2>2, NumbersAreDrawn
  <2>4. QueueInv'
    BY <1>0, <2>1, <2>3, AttemptIsRemembered
  <2>5. RecvInv' /\ AckInv' /\ RemovedInv'
    BY <2>1, ReceivedStays
  <2>6. HeaderInv'
    BY <1>a, <2>1 DEF recvVars
  <2> QED BY <2>3, <2>4, <2>5, <2>6 DEF WindowInv
<1>4. ASSUME NEW p \in Peers, NEW q \in queuedPackets[p], DropQueued(p, q) PROVE WindowInv'
  <2> DEFINE S == queuedPackets[p] \ {q}
  <2>1. /\ queuedPackets' = [queuedPackets EXCEPT ![p] = S]
        /\ \A x \in S : x \in queuedPackets[p]
        /\ UNCHANGED <<seq, submitted, pending, network, races, recvVars, ackVars>>
    BY <1>4 DEF DropQueued, recvVars, ackVars
  <2> HIDE DEF S
  <2>2. QueueInv'
    BY <1>0, <2>1, QueueShrinks
  <2>3. SendInv'
    BY <1>0, <2>1 DEF SendInv
  <2>4. RecvInv' /\ AckInv' /\ RemovedInv'
    BY <2>1, ReceivedStays
  <2>5. HeaderInv'
    BY <1>a, <2>1 DEF recvVars
  <2> QED BY <2>2, <2>3, <2>4, <2>5 DEF WindowInv
<1>5. ASSUME NEW p \in Peers, WritePacketHeader(p) PROVE WindowInv'
  <2> DEFINE id == lastRemoteSeq[p]
             acks == recvPacketTimes[p]
  <2>1. /\ Send(p, id, acks, FALSE)
        /\ UNCHANGED <<seq, submitted, races, queuedPackets, recvVars, ackVars>>
    BY <1>5 DEF WritePacketHeader, recvVars, ackVars
  <2>2. id \in 0 .. MaxSeq[Other[p]] /\ acks \in [Slots -> BOOLEAN] /\ races' \in 0 .. MaxRaces
    BY <1>0, <2>1 DEF RecvInv, SendInv
  <2>3. Claims(id, acks, processed[p])
    BY <1>0 DEF RecvInv, WindowOf, Claims
  <2> HIDE DEF id, acks
  <2>4. /\ SendInv'
        /\ \A k \in network' : \/ k \in network
                               \/ /\ k.from = p /\ k.ackId = id /\ k.acks = acks
                                  /\ k.torn = FALSE
    BY <1>0, <2>1, <2>2, HeaderIsSent
  <2>5. HeaderInv'
    BY <1>0, <2>1, <2>3, <2>4 DEF HeaderInv, recvVars
  <2>6. QueueInv'
    BY <1>0, <2>1 DEF QueueInv
  <2>7. RecvInv' /\ AckInv' /\ RemovedInv'
    BY <2>1, ReceivedStays
  <2> QED BY <2>4, <2>5, <2>6, <2>7 DEF WindowInv
<1>6. ASSUME NEW p \in Peers, NEW k \in network, Receive(p, k) PROVE WindowInv'
  <2>1. Accept(p, k) /\ UNCHANGED <<seq, submitted, pending, network, races>>
    BY <1>6 DEF Receive
  <2>2. RecvInv' /\ QueueInv' /\ AckInv' /\ RemovedInv' /\ Grows
    BY <2>1, PacketIsAccepted
  <2>3. SendInv'
    BY <1>0, <2>1 DEF SendInv
  <2>4. HeaderInv'
    BY <1>0, <2>1, <2>2, HeadersStay
  <2> QED BY <2>2, <2>3, <2>4 DEF WindowInv
<1>7. ASSUME NEW p \in Peers, NEW k \in network, ReceiveWhileSending(p, k) PROVE WindowInv'
  <2>1. /\ Accept(p, k) /\ UNCHANGED <<seq, submitted>>
        /\ races < MaxRaces /\ races' = races + 1
        /\ \/ Send(p, lastRemoteSeq'[p], recvPacketTimes[p], TRUE)
           \/ Send(p, lastRemoteSeq[p], recvPacketTimes'[p], TRUE)
    BY <1>7 DEF ReceiveWhileSending, Race
  <2>2. RecvInv' /\ QueueInv' /\ AckInv' /\ RemovedInv' /\ Grows
    BY <2>1, PacketIsAccepted
  <2>3. PICK id \in 0 .. MaxSeq[Other[p]], acks \in [Slots -> BOOLEAN] : Send(p, id, acks, TRUE)
    <3>1. /\ lastRemoteSeq[p] \in 0 .. MaxSeq[Other[p]] /\ recvPacketTimes[p] \in [Slots -> BOOLEAN]
      BY <1>0 DEF RecvInv
    <3>2. /\ lastRemoteSeq'[p] \in 0 .. MaxSeq[Other[p]] /\ recvPacketTimes'[p] \in [Slots -> BOOLEAN]
      BY <2>2 DEF RecvInv
    <3> QED BY <2>1, <3>1, <3>2
  <2>4. races' \in 0 .. MaxRaces
    BY <1>0, <2>1, AckWindowAssumption DEF SendInv
  <2>5. /\ SendInv'
        /\ \A h \in network' : \/ h \in network
                               \/ /\ h.from = p /\ h.ackId = id /\ h.acks = acks
                                  /\ h.torn = TRUE
    BY <1>0, <2>1, <2>3, <2>4, HeaderIsSent
  <2>6. HeaderInv'
    BY <1>0, <2>2, <2>5, HeadersStay
  <2> QED BY <2>2, <2>5, <2>6 DEF WindowInv
<1>8. CASE UNCHANGED vars
  <2>1. SendInv' /\ QueueInv'
    BY <1>0, <1>8 DEF vars, SendInv, QueueInv
  <2>2. RecvInv' /\ AckInv' /\ RemovedInv'
    BY <1>8, ReceivedStays DEF vars, recvVars, ackVars
  <2>3. HeaderInv'
    BY <1>a, <1>8 DEF vars
  <2> QED BY <2>1, <2>2, <2>3 DEF WindowInv
<1> QED BY <1>1, <1>2, <1>3, <1>4, <1>5, <1>6, <1>7, <1>8 DEF Next

\* At the start nothing was sent or received.
LEMMA InitKeepsWindow == Init => WindowInv
<1> SUFFICES ASSUME Init PROVE WindowInv
  OBVIOUS
<1>1. 0 \in Seqs /\ 1 \in Seqs /\ None \in [Slots -> BOOLEAN] /\ \A i \in Slots : ~None[i]
  BY ConstantsAreSane DEF Seqs, None
<1>2. SendInv
  <2>1. seq \in [Peers -> Seqs] /\ \A p \in Peers : seq[p] > 0
    BY <1>1 DEF Init
  <2>2. pending \in [Peers -> Seq(Seqs)] /\ \A p \in Peers : Len(pending[p]) = 0
    BY DEF Init
  <2>3. submitted = {} /\ network = {} /\ races \in 0 .. MaxRaces
    BY AckWindowAssumption DEF Init
  <2> QED BY <2>1, <2>2, <2>3 DEF SendInv
<1>3. QueueInv
  BY DEF Init, QueueInv
<1>4. RecvInv
  <2>1. /\ lastRemoteSeq \in [Peers -> Seqs] /\ recvPacketTimes \in [Peers -> [Slots -> BOOLEAN]]
        /\ jumped \in [Peers -> SUBSET Seqs] /\ DOMAIN processed = Peers
    BY <1>1 DEF Init
  <2>2. ASSUME NEW p \in Peers
        PROVE  /\ processed[p] \in [Numbers(Other[p]) -> 0 .. 2]
               /\ lastRemoteSeq[p] \in 0 .. MaxSeq[Other[p]]
               /\ WindowOf(lastRemoteSeq[p], recvPacketTimes[p], processed[p], jumped[p],
                           MaxSeq[Other[p]])
    <3> DEFINE max == MaxSeq[Other[p]]
    <3>1. max \in Nat
      BY ConstantsAreSane
    <3>2. /\ lastRemoteSeq[p] = 0 /\ recvPacketTimes[p] = None /\ jumped[p] = {}
          /\ processed[p] = [n \in Numbers(Other[p]) |-> 0]
      BY DEF Init
    <3>3. \A n \in 1 .. max : processed[p][n] = 0
      BY <3>2 DEF Numbers
    <3>4. \A i \in Slots : ~(0 - i > 0)
      BY ConstantsAreSane DEF Slots
    <3>5. WindowOf(0, None, processed[p], {}, max)
      BY <3>3, <3>4 DEF WindowOf
    <3> QED BY <3>1, <3>2, <3>5
  <2> QED BY <2>1, <2>2 DEF RecvInv
<1>5. HeaderInv
  BY DEF Init, HeaderInv
<1>6. AckInv
  <2>1. /\ lastRemoteAckSeq \in [Peers -> Seqs] /\ remoteAcks \in [Peers -> [Slots -> BOOLEAN]]
        /\ misled = {} /\ \A p \in Peers : lastRemoteAckSeq[p] = 0 /\ remoteAcks[p] = None
    BY <1>1 DEF Init
  <2>2. \A p \in Peers : 0 \in 0 .. MaxSeq[p]
    BY ConstantsAreSane
  <2> QED BY <1>1, <2>1, <2>2 DEF AckInv, AcksOf
<1>7. RemovedInv
  BY DEF Init, RemovedInv
<1> QED BY <1>2, <1>3, <1>4, <1>5, <1>6, <1>7 DEF WindowInv

-----------------------------------------------------------------------------
(* Theorems *)

\* The invariant, from which the properties follow.
LEMMA WindowInvHolds == Spec => []WindowInv
  BY InitKeepsWindow, NextKeepsWindow, PTL DEF Spec

\* Every variable has its type; in particular no number is processed a third
\* time and none leaves the number space.
THEOREM WindowIsTyped == Spec => []TypeOK
<1>1. WindowInv => TypeOK
  BY DEF WindowInv, SendInv, QueueInv, RecvInv, AckInv, RemovedInv, TypeOK
<1> QED BY <1>1, WindowInvHolds, PTL

\* The window that every header carries marks exactly the numbers that were
\* processed, except packets that arrived a window ahead, whatever the network
\* loses, repeats or reorders and whatever races there are.
THEOREM WindowIsExact == Spec => []WindowExact
<1>1. WindowInv => WindowExact
  <2> SUFFICES ASSUME WindowInv, NEW p \in Peers, NEW i \in Slots, lastRemoteSeq[p] - i > 0
               PROVE  LET n == lastRemoteSeq[p] - i
                      IN  /\ recvPacketTimes[p][i] => processed[p][n] > 0
                          /\ processed[p][n] > 0 => recvPacketTimes[p][i] \/ n \in jumped[p]
    BY DEF WindowExact
  <2>1. WindowOf(lastRemoteSeq[p], recvPacketTimes[p], processed[p], jumped[p], MaxSeq[Other[p]])
    BY DEF WindowInv, RecvInv
  <2> QED BY <2>1 DEF WindowOf
<1> QED BY <1>1, WindowInvHolds, PTL

\* RunRecvThread processes no packet twice; one that arrived a whole window
\* ahead may be processed once more.
THEOREM NoneIsProcessedTwice == Spec => []ProcessedOnce
<1>1. WindowInv => ProcessedOnce
  BY DEF WindowInv, RecvInv, WindowOf, ProcessedOnce, Numbers
<1> QED BY <1>1, WindowInvHolds, PTL

\* A reliable packet leaves queuedPackets only when the other side has the
\* attempt that counts as acknowledged or the packet right after it, unless a
\* header torn by a race was used.
THEOREM RemovedWereNearlyReceived == Spec => []AckedOrNextReceived
<1>1. WindowInv => AckedOrNextReceived
  <2> SUFFICES ASSUME WindowInv, NEW a \in acked
               PROVE  LET p == Other[Owner[a[1]]] IN
                      \/ Owner[a[1]] \in misled
                      \/ processed[p][a[2]] > 0
                      \/ a[2] + 1 \in Numbers(Other[p]) /\ processed[p][a[2] + 1] > 0
    BY DEF AckedOrNextReceived
  <2>1. Justified(a[1], a[2]) /\ a[1] \in Messages
    BY DEF WindowInv, RemovedInv
  <2>2. Other[Other[Owner[a[1]]]] = Owner[a[1]]
    BY <2>1, AckWindowAssumption
  <2> QED BY <2>1, <2>2 DEF Justified
<1> QED BY <1>1, WindowInvHolds, PTL
=============================================================================
