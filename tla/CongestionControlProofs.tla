----------------------- MODULE CongestionControlProofs ----------------------
(* Proofs about the packets in flight, for any number of slots and packets.   *)
EXTENDS CongestionControl, FiniteSetTheorems, WellFoundedInduction, TLAPS

PacketType == [seq : Nat, sendTime : Nat, size : Nat]

Types ==
    /\ now \in Nat /\ now > 0 /\ lastSentSeq \in Nat /\ lossCount \in Nat
    /\ lastActionTime \in Nat
    /\ inflightPackets \in [Slots -> PacketType]

\* Numbers rise, so that the packets in flight have different ones; none of
\* them was acknowledged.
Numbered ==
    /\ sent \subseteq 1 .. lastSentSeq
    /\ acknowledged \subseteq sent
    /\ \A i \in InFlight : inflightPackets[i].seq \in sent \ acknowledged
    /\ \A i, j \in InFlight : inflightPackets[i].seq = inflightPackets[j].seq => i = j

AccountInv == Types /\ Numbered /\ EachPacketAccounted

-----------------------------------------------------------------------------
(* Sets *)

\* A set of naturals has a least element.
LEMMA LeastExists ==
    ASSUME NEW S \in SUBSET Nat, S # {}
    PROVE  \E x \in S : \A y \in S : x <= y
<1> DEFINE R == {ss \in Nat \X Nat : ss[1] < ss[2]}
<1>1. OpToRel(<, Nat) = R
  BY DEF OpToRel
<1>2. IsWellFoundedOn(R, Nat)
  BY <1>1, NatLessThanWellFounded
<1>3. PICK x \in S : \A y \in S : ~(<<y, x>> \in R)
  <2> HIDE DEF R
  <2> QED BY <1>2, WFMin, Zenon
<1>4. ASSUME NEW y \in S, ~(x <= y) PROVE FALSE
  <2>1. x \in Nat /\ y \in Nat /\ y < x
    BY <1>4
  <2>2. <<y, x>> \in R
    BY <2>1
  <2> HIDE DEF R
  <2> QED BY <2>2, <1>3
<1> QED BY <1>4

\* The slots, the packets in flight and the numbers are finite sets.
LEMMA AccountsAreFinite ==
    ASSUME Types, Numbered
    PROVE  /\ InFlight \subseteq Slots
           /\ IsFiniteSet(InFlight) /\ Cardinality(InFlight) \in Nat
           /\ IsFiniteSet(sent) /\ Cardinality(sent) \in Nat
           /\ IsFiniteSet(acknowledged) /\ Cardinality(acknowledged) \in Nat
<1>1. InFlight \subseteq Slots
  BY DEF InFlight
<1>2. IsFiniteSet(Slots)
  BY CongestionAssumption, FS_Interval DEF Slots
<1>3. IsFiniteSet(InFlight)
  BY <1>1, <1>2, FS_Subset
<1>4. IsFiniteSet(1 .. lastSentSeq)
  BY FS_Interval DEF Types
<1>5. IsFiniteSet(sent)
  BY <1>4, FS_Subset DEF Numbered
<1>6. IsFiniteSet(acknowledged)
  BY <1>5, FS_Subset DEF Numbered
<1> QED BY <1>1, <1>3, <1>5, <1>6, FS_CardinalityType

\* PacketSent finds a slot: the first free one, or the one filled first.
LEMMA SlotIsChosen ==
    ASSUME Types
    PROVE  ChosenSlot \in Slots
<1>1. Slots \subseteq Nat /\ Slots # {} /\ InFlight \subseteq Slots
  BY CongestionAssumption DEF Slots, InFlight
<1>2. CASE InFlight # Slots
  <2>1. Slots \ InFlight \in SUBSET Nat /\ Slots \ InFlight # {}
    BY <1>1, <1>2
  <2>2. \E x \in Slots \ InFlight : \A y \in Slots \ InFlight : x <= y
    BY <2>1, LeastExists
  <2>3. Min(Slots \ InFlight) \in Slots \ InFlight
    BY <2>2 DEF Min
  <2> QED BY <1>2, <2>3 DEF ChosenSlot
<1>3. CASE InFlight = Slots
  <2> DEFINE T == {inflightPackets[i].sendTime : i \in Slots}
  <2>1. T \in SUBSET Nat /\ T # {}
    BY <1>1 DEF Types, PacketType
  <2>2. PICK t \in T : \A u \in T : t <= u
    <3> HIDE DEF T
    <3> QED BY <2>1, LeastExists
  <2> DEFINE F == {i \in Slots : inflightPackets[i].sendTime = t}
  <2>3. F \in SUBSET Nat /\ F # {}
    BY <1>1, <2>2
  <2>4. PICK i \in F : \A j \in F : i <= j
    <3> HIDE DEF F
    <3> QED BY <2>3, LeastExists
  <2>5. \A j \in Slots : inflightPackets[j].sendTime \in Nat
    BY DEF Types, PacketType
  <2>6. i \in Slots /\ inflightPackets[i].sendTime = t
    BY <2>4
  <2>7. ASSUME NEW j \in Slots
        PROVE  \/ inflightPackets[i].sendTime < inflightPackets[j].sendTime
               \/ /\ inflightPackets[i].sendTime = inflightPackets[j].sendTime
                  /\ i <= j
    <3>1. t <= inflightPackets[j].sendTime
      BY <2>2
    <3>2. CASE inflightPackets[j].sendTime = t
      BY <2>4, <2>6, <3>2
    <3>3. CASE inflightPackets[j].sendTime # t
      BY <2>5, <2>6, <3>1, <3>3
    <3> QED BY <3>2, <3>3
  <2>8. \E k \in Slots : \A j \in Slots :
            \/ inflightPackets[k].sendTime < inflightPackets[j].sendTime
            \/ /\ inflightPackets[k].sendTime = inflightPackets[j].sendTime
               /\ k <= j
    BY <2>6, <2>7
  <2> QED BY <1>3, <2>8 DEF ChosenSlot
<1> QED BY <1>2, <1>3

-----------------------------------------------------------------------------
(* The steps *)

\* A packet takes a slot; the packet that had it is lost.
LEMMA SentIsAccounted ==
    ASSUME AccountInv, NEW seq \in 1 .. MaxSeq, NEW size \in Sizes, PacketSent(seq, size)
    PROVE  AccountInv'
<1> DEFINE i == ChosenSlot
           new == [seq |-> seq, sendTime |-> now, size |-> size]
<1>1. /\ seq > lastSentSeq /\ lastSentSeq' = seq
      /\ lossCount' = lossCount + Cardinality({i} \cap InFlight)
      /\ inflightPackets' = [inflightPackets EXCEPT ![i] = new]
      /\ sent' = sent \cup {seq} /\ UNCHANGED <<now, lastActionTime, acknowledged>>
  BY DEF PacketSent
<1>2. Types /\ Numbered /\ i \in Slots
  BY SlotIsChosen DEF AccountInv
<1> HIDE DEF i
<1>3. seq \in Nat /\ size \in Nat
  BY CongestionAssumption
<1>4. new \in PacketType /\ new.seq = seq /\ new.sendTime = now
  BY <1>2, <1>3 DEF Types, PacketType
<1> HIDE DEF new
<1>5. /\ inflightPackets' \in [Slots -> PacketType] /\ inflightPackets'[i] = new
      /\ \A j \in Slots : j # i => inflightPackets'[j] = inflightPackets[j]
  BY <1>1, <1>2, <1>4 DEF Types
<1>6. InFlight' = InFlight \cup {i}
  BY <1>2, <1>4, <1>5 DEF InFlight, Types
<1>7. /\ IsFiniteSet(InFlight) /\ Cardinality(InFlight) \in Nat
      /\ IsFiniteSet(sent) /\ Cardinality(sent) \in Nat
      /\ IsFiniteSet(acknowledged) /\ Cardinality(acknowledged) \in Nat
  BY <1>2, AccountsAreFinite
<1>8. seq \notin sent
  BY <1>1, <1>2, <1>3 DEF Numbered, Types
<1>9. /\ Cardinality(InFlight') + Cardinality({i} \cap InFlight) = Cardinality(InFlight) + 1
      /\ Cardinality({i} \cap InFlight) \in Nat
  <2>1. CASE i \in InFlight
    <3>1. InFlight' = InFlight /\ {i} \cap InFlight = {i}
      BY <1>6, <2>1
    <3>2. Cardinality({i} \cap InFlight) = 1
      BY <3>1, FS_Singleton
    <3> QED BY <1>7, <3>1, <3>2
  <2>2. CASE i \notin InFlight
    <3>1. {i} \cap InFlight = {}
      BY <2>2
    <3>2. Cardinality({i} \cap InFlight) = 0
      BY <3>1, FS_EmptySet
    <3>3. Cardinality(InFlight \cup {i}) = Cardinality(InFlight) + 1
      BY <1>7, <2>2, FS_AddElement
    <3> QED BY <1>6, <1>7, <3>2, <3>3
  <2> QED BY <2>1, <2>2
<1>10. Cardinality(sent') = Cardinality(sent) + 1
  BY <1>1, <1>7, <1>8, FS_AddElement
<1>11. Types'
  <2>1. lossCount' \in Nat
    BY <1>1, <1>2, <1>9 DEF Types
  <2> QED BY <1>1, <1>2, <1>3, <1>5, <2>1 DEF Types
<1>12. Numbered'
  <2>1. sent' \subseteq 1 .. lastSentSeq'
    BY <1>1, <1>2, <1>3 DEF Numbered, Types
  <2>2. acknowledged' \subseteq sent'
    BY <1>1, <1>2 DEF Numbered
  <2>3. \A j \in InFlight' : j # i => j \in InFlight /\ inflightPackets'[j] = inflightPackets[j]
    BY <1>5, <1>6 DEF InFlight
  <2>4. \A j \in InFlight' : inflightPackets'[j].seq \in sent' \ acknowledged'
    BY <1>1, <1>2, <1>4, <1>5, <1>8, <2>3 DEF Numbered
  <2>5. \A j, k \in InFlight' : inflightPackets'[j].seq = inflightPackets'[k].seq => j = k
    <3> SUFFICES ASSUME NEW j \in InFlight', NEW k \in InFlight',
                        inflightPackets'[j].seq = inflightPackets'[k].seq
                 PROVE  j = k
      OBVIOUS
    <3>1. \A l \in InFlight : inflightPackets[l].seq # seq
      BY <1>2, <1>8 DEF Numbered
    <3>2. CASE j = i \/ k = i
      BY <1>4, <1>5, <2>3, <3>1, <3>2
    <3>3. CASE j # i /\ k # i
      BY <1>2, <2>3, <3>3 DEF Numbered
    <3> QED BY <3>2, <3>3
  <2> QED BY <2>1, <2>2, <2>4, <2>5 DEF Numbered
<1>13. EachPacketAccounted'
  <2>1. Cardinality(sent) = Cardinality(acknowledged) + lossCount + Cardinality(InFlight)
    BY DEF AccountInv, EachPacketAccounted
  <2>2. lossCount \in Nat
    BY <1>2 DEF Types
  <2>3. Cardinality(InFlight') \in Nat
    <3>1. IsFiniteSet(InFlight \cup {i})
      BY <1>7, FS_AddElement
    <3> QED BY <1>6, <3>1, FS_CardinalityType
  <2>4. Cardinality(sent') = Cardinality(acknowledged') + lossCount' + Cardinality(InFlight')
    BY <1>1, <1>7, <1>9, <1>10, <2>1, <2>2, <2>3
  <2> QED BY <2>4 DEF EachPacketAccounted
<1> QED BY <1>11, <1>12, <1>13 DEF AccountInv

\* Packets leave their slots, because they were acknowledged or are late.
LEMMA LeaversAreGone ==
    ASSUME Types, NEW S \in SUBSET InFlight,
           inflightPackets' = [i \in Slots |->
               IF i \in S THEN [inflightPackets[i] EXCEPT !.sendTime = 0]
               ELSE inflightPackets[i]]
    PROVE  /\ inflightPackets' \in [Slots -> PacketType]
           /\ InFlight' = InFlight \ S
           /\ \A i \in Slots : inflightPackets'[i].seq = inflightPackets[i].seq
<1>1. \A i \in Slots : inflightPackets[i] \in PacketType
  BY DEF Types
<1>2. ASSUME NEW i \in Slots
      PROVE  /\ inflightPackets'[i] \in PacketType
             /\ inflightPackets'[i].seq = inflightPackets[i].seq
             /\ inflightPackets'[i].sendTime = IF i \in S THEN 0 ELSE inflightPackets[i].sendTime
  BY <1>1, <1>2 DEF PacketType
<1>3. inflightPackets' \in [Slots -> PacketType]
  BY <1>2
<1>4. InFlight' = InFlight \ S
  BY <1>2 DEF InFlight
<1> QED BY <1>2, <1>3, <1>4

\* A packet in flight is acknowledged.
LEMMA AcknowledgedIsAccounted ==
    ASSUME AccountInv, NEW seq \in 0 .. MaxSeq, PacketAcknowledged(seq)
    PROVE  AccountInv'
<1>1. PICK i \in InFlight :
         /\ inflightPackets[i].seq = seq
         /\ inflightPackets' = [inflightPackets EXCEPT ![i].sendTime = 0]
  BY DEF PacketAcknowledged
<1>2. /\ acknowledged' = acknowledged \cup {seq}
      /\ UNCHANGED <<now, lastSentSeq, lossCount, lastActionTime, sent>>
  BY DEF PacketAcknowledged
<1>3. Types /\ Numbered /\ i \in Slots
  BY DEF AccountInv, InFlight
<1>4. inflightPackets' = [j \in Slots |->
               IF j \in {i} THEN [inflightPackets[j] EXCEPT !.sendTime = 0]
               ELSE inflightPackets[j]]
  BY <1>1, <1>3 DEF Types
<1>5. /\ inflightPackets' \in [Slots -> PacketType]
      /\ InFlight' = InFlight \ {i}
      /\ \A j \in Slots : inflightPackets'[j].seq = inflightPackets[j].seq
  BY <1>3, <1>4, LeaversAreGone
<1>6. /\ IsFiniteSet(InFlight) /\ Cardinality(InFlight) \in Nat
      /\ IsFiniteSet(acknowledged) /\ Cardinality(acknowledged) \in Nat
  BY <1>3, AccountsAreFinite
<1>7. seq \in sent \ acknowledged
  BY <1>1, <1>3 DEF Numbered
<1>8. Types'
  BY <1>2, <1>3, <1>5 DEF Types
<1>9. Numbered'
  <2>1. \A j \in InFlight' : j \in InFlight /\ j # i /\ j \in Slots
    BY <1>5 DEF InFlight
  <2>2. \A j \in InFlight' : inflightPackets'[j].seq \in sent' \ acknowledged'
    BY <1>1, <1>2, <1>3, <1>5, <2>1 DEF Numbered
  <2>3. \A j, k \in InFlight' : inflightPackets'[j].seq = inflightPackets'[k].seq => j = k
    BY <1>3, <1>5, <2>1 DEF Numbered
  <2> QED BY <1>2, <1>3, <1>7, <2>2, <2>3 DEF Numbered
<1>10. EachPacketAccounted'
  <2>1. Cardinality(acknowledged') = Cardinality(acknowledged) + 1
    BY <1>2, <1>6, <1>7, FS_AddElement
  <2>2. Cardinality(InFlight') = Cardinality(InFlight) - 1
    BY <1>5, <1>6, FS_RemoveElement
  <2>3. /\ Cardinality(sent) = Cardinality(acknowledged) + lossCount + Cardinality(InFlight)
        /\ lossCount \in Nat
    BY <1>3 DEF AccountInv, EachPacketAccounted, Types
  <2>4. Cardinality(sent') = Cardinality(acknowledged') + lossCount' + Cardinality(InFlight')
    BY <1>2, <1>6, <2>1, <2>2, <2>3
  <2> QED BY <2>4 DEF EachPacketAccounted
<1> QED BY <1>8, <1>9, <1>10 DEF AccountInv

\* Late packets are lost.
LEMMA TickIsAccounted ==
    ASSUME AccountInv, NEW established, Tick(established)
    PROVE  AccountInv'
<1> DEFINE late == {i \in InFlight : now - inflightPackets[i].sendTime > Timeout}
<1>1. /\ inflightPackets' = [i \in Slots |->
               IF i \in late THEN [inflightPackets[i] EXCEPT !.sendTime = 0]
               ELSE inflightPackets[i]]
      /\ lossCount' = lossCount + Cardinality(late)
      /\ lastActionTime' \in {lastActionTime, now}
      /\ UNCHANGED <<now, lastSentSeq, sent, acknowledged>>
  BY DEF Tick
<1>2. Types /\ Numbered /\ late \in SUBSET InFlight
  BY DEF AccountInv
<1> HIDE DEF late
<1>3. /\ inflightPackets' \in [Slots -> PacketType]
      /\ InFlight' = InFlight \ late
      /\ \A j \in Slots : inflightPackets'[j].seq = inflightPackets[j].seq
  BY <1>1, <1>2, LeaversAreGone
<1>4. /\ IsFiniteSet(InFlight) /\ Cardinality(InFlight) \in Nat
      /\ Cardinality(acknowledged) \in Nat
  BY <1>2, AccountsAreFinite
<1>5. IsFiniteSet(late) /\ Cardinality(late) \in Nat
  BY <1>2, <1>4, FS_Subset, FS_CardinalityType
<1>6. Types'
  <2>1. lossCount' \in Nat
    BY <1>1, <1>2, <1>5 DEF Types
  <2>2. lastActionTime' \in Nat
    BY <1>1, <1>2 DEF Types
  <2> QED BY <1>1, <1>2, <1>3, <2>1, <2>2 DEF Types
<1>7. Numbered'
  <2>1. \A j \in InFlight' : j \in InFlight /\ j \in Slots
    BY <1>3 DEF InFlight
  <2> QED BY <1>1, <1>2, <1>3, <2>1 DEF Numbered
<1>8. EachPacketAccounted'
  <2>1. Cardinality(InFlight') = Cardinality(InFlight) - Cardinality(late)
    <3>1. InFlight \cap late = late
      BY <1>2
    <3>2. Cardinality(InFlight \ late) = Cardinality(InFlight) - Cardinality(InFlight \cap late)
      BY <1>4, FS_Difference
    <3> QED BY <1>3, <3>1, <3>2
  <2>2. /\ Cardinality(sent) = Cardinality(acknowledged) + lossCount + Cardinality(InFlight)
        /\ lossCount \in Nat
    BY <1>2 DEF AccountInv, EachPacketAccounted, Types
  <2>3. Cardinality(sent') = Cardinality(acknowledged') + lossCount' + Cardinality(InFlight')
    BY <1>1, <1>4, <1>5, <2>1, <2>2
  <2> QED BY <2>3 DEF EachPacketAccounted
<1> QED BY <1>6, <1>7, <1>8 DEF AccountInv

\* Every step keeps the account.
LEMMA NextIsAccounted == AccountInv /\ [Next]_vars => AccountInv'
<1> SUFFICES ASSUME AccountInv, [Next]_vars PROVE AccountInv'
  OBVIOUS
<1>1. CASE \E seq \in 1 .. MaxSeq, size \in Sizes : PacketSent(seq, size)
  BY <1>1, SentIsAccounted
<1>2. CASE \E seq \in 0 .. MaxSeq : PacketAcknowledged(seq)
  BY <1>2, AcknowledgedIsAccounted
<1>3. CASE \E established \in BOOLEAN : Tick(established)
  BY <1>3, TickIsAccounted
<1>4. CASE TimePasses \/ UNCHANGED vars
  <2>1. /\ UNCHANGED <<lastSentSeq, inflightPackets, lossCount, lastActionTime, sent, acknowledged>>
        /\ now' = now \/ now' = now + 1
    BY <1>4 DEF TimePasses, vars
  <2>2. Types'
    BY <2>1 DEF AccountInv, Types
  <2>3. Numbered' /\ EachPacketAccounted'
    BY <2>1 DEF AccountInv, Numbered, EachPacketAccounted, InFlight
  <2> QED BY <2>2, <2>3 DEF AccountInv
<1> QED BY <1>1, <1>2, <1>3, <1>4 DEF Next

\* At the start nothing was sent.
LEMMA InitIsAccounted == Init => AccountInv
<1> SUFFICES ASSUME Init PROVE AccountInv
  OBVIOUS
<1>1. Empty \in PacketType /\ Empty.sendTime = 0
  BY DEF Empty, PacketType
<1>2. Types
  BY <1>1 DEF Init, Types
<1>3. InFlight = {}
  BY <1>1 DEF Init, InFlight
<1>4. sent = {} /\ acknowledged = {} /\ lossCount = 0
  BY DEF Init
<1>5. Numbered
  BY <1>3, <1>4 DEF Numbered
<1>6. EachPacketAccounted
  BY <1>3, <1>4, FS_EmptySet DEF EachPacketAccounted
<1> QED BY <1>2, <1>5, <1>6 DEF AccountInv

-----------------------------------------------------------------------------
(* Sums of sizes. The sum of a finite set of sizes is a fold, whose value is  *)
(* taken from the library's recursive function: it is shown to be the number  *)
(* of bytes, each one a pair of a slot and a position, and sums are then      *)
(* compared by counting.                                                      *)

SizeOf(p, S) == MapThenSumSet(LAMBDA i : p[i].size, S)
Choice(s) == CHOOSE x \in s : TRUE
Summed(p, S, g) ==
    g = [s \in SUBSET S |-> IF s = {} THEN 0
                            ELSE p[Choice(s)].size + g[s \ {Choice(s)}]]

Bytes(p, S) == {b \in S \X Nat : b[2] \in 1 .. p[b[1]].size}

\* The fold is the value of a recursive function.
LEMMA SizeIsSummed ==
    ASSUME NEW p, NEW S
    PROVE  SizeOf(p, S) = (CHOOSE g : Summed(p, S, g))[S]
    BY Zenon DEF SizeOf, MapThenSumSet, MapThenFoldSet, Summed, Choice

\* A finite set of slots holds finitely many bytes.
LEMMA BytesAreFinite ==
    ASSUME NEW p \in [Slots -> PacketType], NEW S \in SUBSET Slots
    PROVE  IsFiniteSet(Bytes(p, S)) /\ Cardinality(Bytes(p, S)) \in Nat
<1> DEFINE f == [i \in S |-> {i} \X (1 .. p[i].size)]
           T == {f[i] : i \in S}
<1>1. IsFiniteSet(S)
  <2>1. IsFiniteSet(Slots)
    BY CongestionAssumption, FS_Interval DEF Slots
  <2> QED BY <2>1, FS_Subset
<1>2. \A i \in S : p[i].size \in Nat
  BY DEF PacketType
<1>3. ASSUME NEW i \in S PROVE IsFiniteSet(f[i])
  <2>1. IsFiniteSet(1 .. p[i].size)
    BY <1>2, FS_Interval
  <2>2. IsFiniteSet({i})
    BY FS_Singleton
  <2>3. IsFiniteSet({i} \X (1 .. p[i].size))
    BY <2>1, <2>2, FS_Product
  <2> QED BY <2>3
<1>4. f \in Surjection(S, T)
  <2>1. f \in [S -> T] /\ \A t \in T : \E i \in S : f[i] = t
    OBVIOUS
  <2> HIDE DEF f, T
  <2> QED BY <2>1 DEF Surjection
<1>5. Bytes(p, S) = UNION T
  <2>1. ASSUME NEW b \in Bytes(p, S) PROVE b \in UNION T
    <3>1. b \in S \X Nat /\ b[2] \in 1 .. p[b[1]].size
      BY DEF Bytes
    <3>2. b[1] \in S /\ b = <<b[1], b[2]>>
      BY <3>1
    <3>3. b \in f[b[1]]
      BY <3>1, <3>2
    <3> QED BY <3>2, <3>3
  <2>2. ASSUME NEW i \in S, NEW b \in f[i] PROVE b \in Bytes(p, S)
    <3>1. b \in {i} \X (1 .. p[i].size)
      BY <2>2
    <3> QED BY <3>1, <1>2 DEF Bytes
  <2> QED BY <2>1, <2>2
<1>6. IsFiniteSet(T)
  <2> HIDE DEF f, T
  <2> QED BY <1>1, <1>4, FS_Surjection
<1>7. \A t \in T : IsFiniteSet(t)
  BY <1>3
<1>8. IsFiniteSet(UNION T)
  <2> HIDE DEF T
  <2> QED BY <1>6, <1>7, FS_UNION
<1> QED BY <1>5, <1>8, FS_CardinalityType

\* A slot adds the bytes of its packet.
LEMMA BytesAdded ==
    ASSUME NEW p \in [Slots -> PacketType], NEW S \in SUBSET Slots, NEW x \in Slots \ S
    PROVE  Cardinality(Bytes(p, S \cup {x})) = p[x].size + Cardinality(Bytes(p, S))
<1> DEFINE A == {x} \X (1 .. p[x].size)
           B == Bytes(p, S)
<1>1. p[x].size \in Nat
  BY DEF PacketType
<1>2. IsFiniteSet(A) /\ Cardinality(A) = p[x].size
  <2>1. IsFiniteSet(1 .. p[x].size) /\ Cardinality(1 .. p[x].size) = p[x].size
    BY <1>1, FS_Interval
  <2>2. IsFiniteSet({x}) /\ Cardinality({x}) = 1
    BY FS_Singleton
  <2>3. IsFiniteSet(A) /\ Cardinality(A) = Cardinality({x}) * Cardinality(1 .. p[x].size)
    BY <2>1, <2>2, FS_Product
  <2> QED BY <1>1, <2>1, <2>2, <2>3
<1>3. IsFiniteSet(B) /\ Cardinality(B) \in Nat
  BY BytesAreFinite
<1>4. Bytes(p, S \cup {x}) = A \cup B /\ A \cap B = {}
  <2>1. ASSUME NEW b \in Bytes(p, S \cup {x}) PROVE b \in A \cup B
    <3>1. b \in (S \cup {x}) \X Nat /\ b[2] \in 1 .. p[b[1]].size
      BY DEF Bytes
    <3>2. CASE b[1] = x
      BY <3>1, <3>2
    <3>3. CASE b[1] \in S
      BY <3>1, <3>3 DEF Bytes
    <3> QED BY <3>1, <3>2, <3>3
  <2>2. ASSUME NEW b \in A PROVE b \in Bytes(p, S \cup {x}) /\ b \notin B
    BY <1>1 DEF Bytes
  <2>3. ASSUME NEW b \in B PROVE b \in Bytes(p, S \cup {x})
    BY DEF Bytes
  <2> QED BY <2>1, <2>2, <2>3
<1> HIDE DEF A, B
<1>5. Cardinality(A \cap B) = 0
  BY <1>4, FS_EmptySet
<1>6. Cardinality(A \cup B) = Cardinality(A) + Cardinality(B) - Cardinality(A \cap B)
  BY <1>2, <1>3, FS_Union
<1>7. Cardinality(A \cup B) = p[x].size + Cardinality(B)
  BY <1>1, <1>2, <1>3, <1>5, <1>6
<1> QED BY <1>4, <1>7 DEF B

\* The recursive function exists, and counts bytes.
LEMMA SizeCountsBytes ==
    ASSUME NEW p \in [Slots -> PacketType], NEW S \in SUBSET Slots
    PROVE  SizeOf(p, S) = Cardinality(Bytes(p, S))
<1> DEFINE c == [s \in SUBSET S |-> Cardinality(Bytes(p, s))]
<1>1. ASSUME NEW s \in SUBSET S, s # {}
      PROVE  /\ Choice(s) \in s
             /\ Cardinality(Bytes(p, s))
                  = p[Choice(s)].size + Cardinality(Bytes(p, s \ {Choice(s)}))
  <2> DEFINE x == Choice(s)
  <2>1. x \in s
    BY <1>1 DEF Choice
  <2> HIDE DEF x
  <2>2. s = (s \ {x}) \cup {x} /\ x \in Slots \ (s \ {x}) /\ s \ {x} \in SUBSET Slots
    BY <2>1
  <2>3. Cardinality(Bytes(p, (s \ {x}) \cup {x})) = p[x].size + Cardinality(Bytes(p, s \ {x}))
    BY <2>2, BytesAdded
  <2> QED BY <2>1, <2>2, <2>3 DEF x
<1>2. Cardinality(Bytes(p, {})) = 0
  <2>1. Bytes(p, {}) = {}
    BY DEF Bytes
  <2> QED BY <2>1, FS_EmptySet
<1>3. Summed(p, S, c)
  <2>1. ASSUME NEW s \in SUBSET S
        PROVE  Cardinality(Bytes(p, s)) = IF s = {} THEN 0
                 ELSE p[Choice(s)].size + c[s \ {Choice(s)}]
    <3>1. CASE s = {}
      BY <1>2, <3>1
    <3>2. CASE s # {}
      <4>1. s \ {Choice(s)} \in SUBSET S
        OBVIOUS
      <4>2. c[s \ {Choice(s)}] = Cardinality(Bytes(p, s \ {Choice(s)}))
        BY <4>1
      <4> QED BY <1>1, <3>2, <4>2
    <3> QED BY <3>1, <3>2
  <2> QED BY <2>1 DEF Summed
<1> DEFINE g == CHOOSE h : Summed(p, S, h)
<1>4. Summed(p, S, g)
  <2> HIDE DEF c
  <2> QED BY <1>3
<1>5. SizeOf(p, S) = g[S]
  BY SizeIsSummed
<1> HIDE DEF g
<1>6. \A s \in SUBSET S : g[s] = IF s = {} THEN 0 ELSE p[Choice(s)].size + g[s \ {Choice(s)}]
  BY <1>4 DEF Summed
<1> DEFINE Wrong == {s \in SUBSET S : g[s] # Cardinality(Bytes(p, s))}
           W == {Cardinality(s) : s \in Wrong}
<1>7. \A s \in SUBSET S : IsFiniteSet(s) /\ Cardinality(s) \in Nat
  <2>1. IsFiniteSet(Slots)
    BY CongestionAssumption, FS_Interval DEF Slots
  <2> QED BY <2>1, FS_Subset, FS_CardinalityType
<1>8. ASSUME Wrong # {} PROVE FALSE
  <2>1. W \in SUBSET Nat /\ W # {}
    BY <1>7, <1>8
  <2>2. PICK n \in W : \A m \in W : n <= m
    <3> HIDE DEF W
    <3> QED BY <2>1, LeastExists
  <2>3. PICK s \in Wrong : Cardinality(s) = n
    BY <2>2
  <2>4. s \in SUBSET S /\ g[s] # Cardinality(Bytes(p, s))
    OBVIOUS
  <2>5. s # {}
    BY <1>2, <1>6, <2>4
  <2> DEFINE x == Choice(s)
             r == s \ {x}
  <2>6. x \in s /\ Cardinality(Bytes(p, s)) = p[x].size + Cardinality(Bytes(p, r))
    BY <1>1, <2>4, <2>5
  <2>7. g[s] = p[x].size + g[r]
    BY <1>6, <2>4, <2>5
  <2> HIDE DEF x
  <2>8. r \in Wrong
    BY <2>4, <2>6, <2>7
  <2>9. Cardinality(r) = Cardinality(s) - 1
    BY <1>7, <2>4, <2>6, FS_RemoveElement
  <2>10. n <= Cardinality(r)
    BY <2>2, <2>8
  <2> QED BY <1>7, <2>3, <2>4, <2>9, <2>10
<1> QED BY <1>5, <1>8

\* What the sums of sizes satisfy: the empty set, a slot more, some slots less,
\* and packets of the same sizes.
LEMMA SizesAdd ==
    ASSUME NEW p \in [Slots -> PacketType], NEW S \in SUBSET Slots
    PROVE  /\ SizeOf(p, S) \in Nat /\ SizeOf(p, {}) = 0
           /\ \A x \in Slots \ S : SizeOf(p, S \cup {x}) = SizeOf(p, S) + p[x].size
           /\ \A T \in SUBSET S : SizeOf(p, S \ T) = SizeOf(p, S) - SizeOf(p, T)
<1>1. \A T \in SUBSET Slots : /\ SizeOf(p, T) = Cardinality(Bytes(p, T))
                              /\ IsFiniteSet(Bytes(p, T)) /\ Cardinality(Bytes(p, T)) \in Nat
  BY SizeCountsBytes, BytesAreFinite
<1>2. SizeOf(p, {}) = 0
  <2>1. Bytes(p, {}) = {}
    BY DEF Bytes
  <2> QED BY <1>1, <2>1, FS_EmptySet
<1>3. ASSUME NEW x \in Slots \ S PROVE SizeOf(p, S \cup {x}) = SizeOf(p, S) + p[x].size
  <2>1. S \cup {x} \in SUBSET Slots /\ p[x].size \in Nat
    BY DEF PacketType
  <2>2. Cardinality(Bytes(p, S \cup {x})) = p[x].size + Cardinality(Bytes(p, S))
    BY BytesAdded
  <2> QED BY <1>1, <2>1, <2>2
<1>4. ASSUME NEW T \in SUBSET S PROVE SizeOf(p, S \ T) = SizeOf(p, S) - SizeOf(p, T)
  <2>1. Bytes(p, S \ T) = Bytes(p, S) \ Bytes(p, T) /\ Bytes(p, S) \cap Bytes(p, T) = Bytes(p, T)
    BY DEF Bytes
  <2>2. Cardinality(Bytes(p, S) \ Bytes(p, T))
          = Cardinality(Bytes(p, S)) - Cardinality(Bytes(p, S) \cap Bytes(p, T))
    BY <1>1, FS_Difference
  <2>3. T \in SUBSET Slots /\ S \ T \in SUBSET Slots
    OBVIOUS
  <2> QED BY <1>1, <2>1, <2>2, <2>3
<1> QED BY <1>1, <1>2, <1>3, <1>4

\* Sums of the same sizes are the same.
LEMMA SizesOnly ==
    ASSUME NEW p \in [Slots -> PacketType], NEW q \in [Slots -> PacketType],
           NEW S \in SUBSET Slots, \A i \in S : p[i].size = q[i].size
    PROVE  SizeOf(p, S) = SizeOf(q, S)
<1>1. Bytes(p, S) = Bytes(q, S)
  BY DEF Bytes
<1> QED BY <1>1, SizeCountsBytes

\* DataSize sums the sizes of the packets in the slots.
LEMMA DataSizeIsSum ==
    ASSUME NEW S
    PROVE  DataSize(S) = SizeOf(inflightPackets, S)
    BY Zenon DEF SizeOf, DataSize

-----------------------------------------------------------------------------
(* The size of the data in flight *)

SizeExact == inflightDataSize = SizeOf(inflightPackets, InFlight)

\* A packet that is sent adds its size, one that is evicted takes it away.
LEMMA SentIsExact ==
    ASSUME Types, SizeExact, NEW seq \in 1 .. MaxSeq, NEW size \in Sizes, PacketSent(seq, size)
    PROVE  SizeExact'
<1> DEFINE i == ChosenSlot
           new == [seq |-> seq, sendTime |-> now, size |-> size]
           p == inflightPackets
           q == inflightPackets'
<1>1. /\ inflightDataSize' = inflightDataSize + size - DataSize({i} \cap InFlight)
      /\ q = [p EXCEPT ![i] = new]
  BY DEF PacketSent
<1>2. i \in Slots /\ p \in [Slots -> PacketType] /\ InFlight \subseteq Slots
  BY SlotIsChosen DEF Types, InFlight
<1> HIDE DEF i
<1>3. size \in Nat /\ seq \in Nat
  BY CongestionAssumption
<1>4. new \in PacketType /\ new.size = size /\ new.sendTime = now
  BY <1>3 DEF Types, PacketType
<1> HIDE DEF new
<1>5. /\ q \in [Slots -> PacketType] /\ q[i] = new
      /\ \A j \in Slots : j # i => q[j] = p[j]
  BY <1>1, <1>2, <1>4
<1>6. InFlight' = InFlight \cup {i}
  BY <1>2, <1>4, <1>5 DEF InFlight, Types
<1> DEFINE F == InFlight
           E == {i} \cap F
           R == F \ E
<1>7. R \in SUBSET Slots /\ F \in SUBSET Slots /\ E \in SUBSET F /\ i \in Slots \ R
      /\ F \cup {i} = R \cup {i}
  BY <1>2
<1>8. \A j \in R : p[j].size = q[j].size
  BY <1>5, <1>7
<1> HIDE DEF F, E, R, p, q
<1>9. SizeOf(q, R \cup {i}) = SizeOf(q, R) + size
  BY <1>4, <1>5, <1>7, SizesAdd
<1>10. SizeOf(q, R) = SizeOf(p, R)
  BY <1>2, <1>5, <1>7, <1>8, SizesOnly
<1>11. SizeOf(p, R) = SizeOf(p, F) - SizeOf(p, E)
  BY <1>2, <1>7, SizesAdd DEF R
<1>12. SizeOf(p, F) \in Nat /\ SizeOf(p, E) \in Nat
  BY <1>2, <1>7, SizesAdd
<1>13. inflightDataSize = SizeOf(p, F)
  BY DEF SizeExact, F, p
<1>14. DataSize(E) = SizeOf(p, E)
  BY DataSizeIsSum DEF p
<1>15. inflightDataSize' = inflightDataSize + size - SizeOf(p, E)
  BY <1>1, <1>14 DEF E, F
<1>16. inflightDataSize' = SizeOf(q, InFlight')
  <2>1. InFlight' = R \cup {i}
    BY <1>6, <1>7 DEF F
  <2>2. inflightDataSize' = SizeOf(q, R \cup {i})
    BY <1>3, <1>9, <1>10, <1>11, <1>12, <1>13, <1>15
  <2> QED BY <2>1, <2>2
<1> QED BY <1>16 DEF SizeExact, q

\* Packets that leave their slots take their sizes away.
LEMMA LeftIsExact ==
    ASSUME Types, SizeExact, NEW S \in SUBSET InFlight,
           inflightPackets' = [i \in Slots |->
               IF i \in S THEN [inflightPackets[i] EXCEPT !.sendTime = 0]
               ELSE inflightPackets[i]],
           inflightDataSize' = inflightDataSize - SizeOf(inflightPackets, S)
    PROVE  SizeExact'
<1> DEFINE p == inflightPackets
           q == inflightPackets'
           F == InFlight
           R == F \ S
<1>1. /\ q \in [Slots -> PacketType] /\ InFlight' = R
      /\ p \in [Slots -> PacketType]
  BY LeaversAreGone DEF Types
<1>2. \A i \in Slots : q[i].size = p[i].size
  BY DEF Types, PacketType
<1>3. F \in SUBSET Slots /\ R \in SUBSET Slots /\ S \in SUBSET F
  BY DEF InFlight
<1>4. inflightDataSize = SizeOf(p, F) /\ inflightDataSize' = inflightDataSize - SizeOf(p, S)
  BY DEF SizeExact
<1> HIDE DEF p, q, F
<1>5. SizeOf(p, R) = SizeOf(p, F) - SizeOf(p, S)
  BY <1>1, <1>3, SizesAdd
<1> HIDE DEF R
<1>6. SizeOf(q, R) = SizeOf(p, R)
  BY <1>1, <1>2, <1>3, SizesOnly
<1>7. inflightDataSize' = SizeOf(q, InFlight')
  BY <1>1, <1>4, <1>5, <1>6
<1> QED BY <1>7 DEF SizeExact, q

\* Every step keeps the size exact.
LEMMA NextIsExact == AccountInv /\ SizeExact /\ [Next]_vars => SizeExact'
<1> SUFFICES ASSUME AccountInv, SizeExact, [Next]_vars PROVE SizeExact'
  OBVIOUS
<1>1. Types
  BY DEF AccountInv
<1>2. CASE \E seq \in 1 .. MaxSeq, size \in Sizes : PacketSent(seq, size)
  BY <1>1, <1>2, SentIsExact
<1>3. ASSUME NEW seq \in 0 .. MaxSeq, PacketAcknowledged(seq) PROVE SizeExact'
  <2>1. PICK i \in InFlight :
           /\ inflightPackets' = [inflightPackets EXCEPT ![i].sendTime = 0]
           /\ inflightDataSize' = inflightDataSize - inflightPackets[i].size
    BY <1>3 DEF PacketAcknowledged
  <2>2. i \in Slots /\ {i} \in SUBSET InFlight
    BY DEF InFlight
  <2>3. inflightPackets' = [j \in Slots |->
               IF j \in {i} THEN [inflightPackets[j] EXCEPT !.sendTime = 0]
               ELSE inflightPackets[j]]
    BY <1>1, <2>1, <2>2 DEF Types
  <2> DEFINE p == inflightPackets
             N == {}
  <2>4. SizeOf(p, {i}) = p[i].size
    <3>1. p \in [Slots -> PacketType] /\ p[i].size \in Nat
      BY <1>1, <2>2 DEF Types, PacketType
    <3>2. N \in SUBSET Slots /\ i \in Slots \ N /\ N \cup {i} = {i}
      BY <2>2
    <3> HIDE DEF p
    <3>3. SizeOf(p, N) = 0
      BY <3>1, <3>2, SizesAdd
    <3> HIDE DEF N
    <3>4. SizeOf(p, N \cup {i}) = SizeOf(p, N) + p[i].size
      BY <3>1, <3>2, SizesAdd
    <3> QED BY <3>1, <3>2, <3>3, <3>4
  <2>5. inflightDataSize' = inflightDataSize - SizeOf(inflightPackets, {i})
    BY <2>1, <2>4
  <2> QED BY <1>1, <2>2, <2>3, <2>5, LeftIsExact
<1>4. ASSUME NEW established \in BOOLEAN, Tick(established) PROVE SizeExact'
  <2> DEFINE late == {i \in InFlight : now - inflightPackets[i].sendTime > Timeout}
  <2>1. /\ inflightPackets' = [i \in Slots |->
               IF i \in late THEN [inflightPackets[i] EXCEPT !.sendTime = 0]
               ELSE inflightPackets[i]]
        /\ inflightDataSize' = inflightDataSize - DataSize(late)
    BY <1>4 DEF Tick
  <2>2. late \in SUBSET InFlight
    OBVIOUS
  <2> HIDE DEF late
  <2>3. DataSize(late) = SizeOf(inflightPackets, late)
    BY DataSizeIsSum
  <2> QED BY <1>1, <2>1, <2>2, <2>3, LeftIsExact
<1>5. CASE TimePasses \/ UNCHANGED vars
  <2>1. UNCHANGED <<inflightPackets, inflightDataSize>>
    BY <1>5 DEF TimePasses, vars
  <2> QED BY <2>1 DEF SizeExact, InFlight
<1> QED BY <1>2, <1>3, <1>4, <1>5 DEF Next

-----------------------------------------------------------------------------
(* Theorems *)

\* Every packet that was taken into a slot is acknowledged, lost or in flight,
\* and only one of them, in whatever order acknowledgements, timeouts and
\* evictions come: the loss count counts no packet twice.
THEOREM PacketsAreAccounted == Spec => []EachPacketAccounted
<1>1. AccountInv => EachPacketAccounted
  BY DEF AccountInv
<1> QED BY <1>1, InitIsAccounted, NextIsAccounted, PTL DEF Spec

\* inflightDataSize, an unsigned number, is the size of the packets that wait for
\* an acknowledgement: no eviction, timeout or acknowledgement subtracts a packet
\* twice or leaves one in the sum.
THEOREM InflightIsExact == Spec => []InflightExact
<1>1. Init => SizeExact
  <2> SUFFICES ASSUME Init PROVE SizeExact
    OBVIOUS
  <2>1. Types
    BY InitIsAccounted DEF AccountInv
  <2>2. InFlight = {}
    BY DEF Init, InFlight, Empty
  <2>3. SizeOf(inflightPackets, {}) = 0
    <3>1. inflightPackets \in [Slots -> PacketType] /\ {} \in SUBSET Slots
      BY <2>1 DEF Types
    <3> QED BY <3>1, SizesAdd
  <2>4. inflightDataSize = 0
    BY DEF Init
  <2> QED BY <2>2, <2>3, <2>4 DEF SizeExact
<1>2. SizeExact => InflightExact
  <2> DEFINE F == InFlight
  <2> HIDE DEF F
  <2>1. DataSize(F) = SizeOf(inflightPackets, F)
    BY DataSizeIsSum
  <2> QED BY <2>1 DEF SizeExact, InflightExact, F
<1> QED BY <1>1, <1>2, InitIsAccounted, NextIsAccounted, NextIsExact, PTL DEF Spec
=============================================================================
