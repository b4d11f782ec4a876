-------------------------- MODULE CongestionControl -------------------------
(* Bookkeeping of the stream packets in flight, from                          *)
(* libtgvoip/CongestionControl.cpp, and the bandwidth action the tick thread  *)
(* derives from it.                                                           *)
(*                                                                            *)
(* Three threads call it: the send thread (PacketSent), the receive thread    *)
(* (PacketAcknowledged, with every number the mask of a header names, sent or *)
(* not) and the tick thread. Each call is one critical section; the check for *)
(* a duplicate before it touches only lastSentSeq, which only the send thread *)
(* uses. Round-trip times are statistics without influence and are left out.  *)
EXTENDS Integers, Sequences, FiniteSets, FiniteSetsExt

CONSTANTS
    SlotCount,      \* 100 in the code
    HistorySize,    \* 30 in the code
    Sizes,          \* sizes of packets
    Cwnd,           \* audio_congestion_window
    Timeout,        \* 2 seconds
    ActionInterval, \* 1 second
    MaxSeq,         \* bound: highest sequence number
    MaxTime         \* bound: clock

ASSUME CongestionAssumption ==
    /\ SlotCount \in Nat \ {0}
    /\ HistorySize \in Nat \ {0}
    /\ Sizes \subseteq Nat
    /\ Cwnd \in Nat
    /\ Timeout \in Nat
    /\ ActionInterval \in Nat
    /\ MaxSeq \in Nat
    /\ MaxTime \in Nat

Slots == 1 .. SlotCount

VARIABLES
    now,                \* GetCurrentTime, never zero
    lastSentSeq,
    inflightPackets,    \* slots; sendTime zero marks a free one
    inflightDataSize,
    inflightHistory,    \* newest first
    lossCount,
    lastActionTime,
    action,             \* the last bandwidth action
    sent,               \* numbers that were taken into a slot
    acknowledged        \* numbers that left their slot acknowledged

vars == <<now, lastSentSeq, inflightPackets, inflightDataSize,
          inflightHistory, lossCount, lastActionTime, action, sent,
          acknowledged>>

Empty == [seq |-> 0, sendTime |-> 0, size |-> 0]

TypeOK ==
    /\ now \in 1 .. MaxTime
    /\ lastSentSeq \in 0 .. MaxSeq
    /\ inflightPackets \in
           [Slots -> [seq : 0 .. MaxSeq, sendTime : 0 .. MaxTime,
                      size : Sizes \cup {0}]]
    /\ inflightDataSize \in Nat
    /\ inflightHistory \in [1 .. HistorySize -> Nat]
    /\ lossCount \in Nat
    /\ lastActionTime \in 0 .. MaxTime
    /\ action \in {"none", "increase", "decrease"}
    /\ sent \subseteq 1 .. MaxSeq
    /\ acknowledged \subseteq sent

Init ==
    /\ now = 1
    /\ lastSentSeq = 0
    /\ inflightPackets = [i \in Slots |-> Empty]
    /\ inflightDataSize = 0
    /\ inflightHistory = [i \in 1 .. HistorySize |-> 0]
    /\ lossCount = 0
    /\ lastActionTime = 0
    /\ action = "none"
    /\ sent = {}
    /\ acknowledged = {}

InFlight == {i \in Slots : inflightPackets[i].sendTime > 0}
DataSize(S) == MapThenSumSet(LAMBDA i : inflightPackets[i].size, S)

-----------------------------------------------------------------------------
\* The first free slot, else the one that was filled longest ago.
ChosenSlot ==
    IF InFlight # Slots
    THEN Min(Slots \ InFlight)
    ELSE CHOOSE i \in Slots : \A j \in Slots :
             \/ inflightPackets[i].sendTime < inflightPackets[j].sendTime
             \/ /\ inflightPackets[i].sendTime = inflightPackets[j].sendTime
                /\ i <= j

\* Mutant: the packet that had the slot is not counted as lost.
PacketSentForgets(seq, size) ==
    /\ seq > lastSentSeq
    /\ lastSentSeq' = seq
    /\ LET i == ChosenSlot IN
       /\ inflightDataSize' =
              inflightDataSize + size - DataSize({i} \cap InFlight)
       /\ inflightPackets' = [inflightPackets EXCEPT ![i] =
                                 [seq |-> seq, sendTime |-> now, size |-> size]]
    /\ sent' = sent \cup {seq}
    /\ UNCHANGED <<now, inflightHistory, lossCount, lastActionTime, action,
                   acknowledged>>

\* A number that is not newer is reported as a duplicate and ignored.
PacketSent(seq, size) ==
    /\ seq > lastSentSeq
    /\ lastSentSeq' = seq
    /\ LET i == ChosenSlot IN
       /\ inflightDataSize' =
              inflightDataSize + size - DataSize({i} \cap InFlight)
       /\ lossCount' = lossCount + Cardinality({i} \cap InFlight)
       /\ inflightPackets' = [inflightPackets EXCEPT ![i] =
                                 [seq |-> seq, sendTime |-> now, size |-> size]]
    /\ sent' = sent \cup {seq}
    /\ UNCHANGED <<now, inflightHistory, lastActionTime, action, acknowledged>>

\* Mutant: a slot that was already given up is found again.
PacketAcknowledgedAgain(seq) ==
    /\ \E i \in Slots :
          /\ inflightPackets[i].seq = seq
          /\ inflightPackets' = [inflightPackets EXCEPT ![i].sendTime = 0]
          /\ inflightDataSize' = inflightDataSize - inflightPackets[i].size
    /\ acknowledged' = acknowledged \cup ({seq} \cap sent)
    /\ UNCHANGED <<now, lastSentSeq, inflightHistory, lossCount,
                   lastActionTime, action, sent>>

\* A number that is in no slot, because it is not of a stream packet, was
\* given up or was acknowledged before, changes nothing.
PacketAcknowledged(seq) ==
    /\ \E i \in InFlight :
          /\ inflightPackets[i].seq = seq
          /\ inflightPackets' = [inflightPackets EXCEPT ![i].sendTime = 0]
          /\ inflightDataSize' = inflightDataSize - inflightPackets[i].size
    /\ acknowledged' = acknowledged \cup {seq}
    /\ UNCHANGED <<now, lastSentSeq, inflightHistory, lossCount,
                   lastActionTime, action, sent>>

Average(h) ==
    MapThenSumSet(LAMBDA i : h[i], 1 .. HistorySize) \div HistorySize

\* At most one action per ActionInterval, against ten percent of the window.
GetBandwidthControlAction(h) ==
    IF now - lastActionTime < ActionInterval THEN "none"
    ELSE IF Average(h) < Cwnd - Cwnd \div 10 THEN "increase"
    ELSE IF Average(h) > Cwnd + Cwnd \div 10 THEN "decrease"
    ELSE "none"

\* The tick thread calls Tick and, in an established call, asks for an action.
Tick(established) ==
    /\ LET late == {i \in InFlight :
                       now - inflightPackets[i].sendTime > Timeout}
           size == inflightDataSize - DataSize(late)
           history == [i \in 1 .. HistorySize |->
                          IF i = 1 THEN size ELSE inflightHistory[i - 1]]
           act == IF established THEN GetBandwidthControlAction(history)
                  ELSE "none"
       IN /\ inflightPackets' = [i \in Slots |->
                 IF i \in late THEN [inflightPackets[i] EXCEPT !.sendTime = 0]
                 ELSE inflightPackets[i]]
          /\ inflightDataSize' = size
          /\ lossCount' = lossCount + Cardinality(late)
          /\ inflightHistory' = history
          /\ action' = act
          /\ lastActionTime' = IF act = "none" THEN lastActionTime ELSE now
    /\ UNCHANGED <<now, lastSentSeq, sent, acknowledged>>

TimePasses ==
    /\ now < MaxTime
    /\ now' = now + 1
    /\ UNCHANGED <<lastSentSeq, inflightPackets, inflightDataSize,
                   inflightHistory, lossCount, lastActionTime, action, sent,
                   acknowledged>>

Next ==
    \/ \E seq \in 1 .. MaxSeq, size \in Sizes : PacketSent(seq, size)
    \/ \E seq \in 0 .. MaxSeq : PacketAcknowledged(seq)
    \/ \E established \in BOOLEAN : Tick(established)
    \/ TimePasses

Spec == Init /\ [][Next]_vars

-----------------------------------------------------------------------------
(* Properties *)

(* inflightDataSize, an unsigned size, is the size of the packets that still  *)
(* wait for an acknowledgement: evictions, timeouts and late or repeated      *)
(* acknowledgements never subtract a packet twice.                            *)
InflightExact == inflightDataSize = DataSize(InFlight)

(* Every packet that was taken into a slot is acknowledged, lost or in        *)
(* flight, and only one of them: the loss count that drives the encoder's     *)
(* error correction counts each packet at most once.                          *)
EachPacketAccounted ==
    Cardinality(sent)
        = Cardinality(acknowledged) + lossCount + Cardinality(InFlight)
=============================================================================
