--------------------------- MODULE VoIPAckWindow ----------------------------
(* Sequence numbers, acknowledgements and reliable packets of a call, from    *)
(* libtgvoip/VoIPController.cpp.                                              *)
(*                                                                            *)
(* Every packet carries its own number, the highest number received from the  *)
(* other side (ackId) and a mask of the Window numbers up to it. The receiver *)
(* drops duplicates and packets that left its window, notes which of its own  *)
(* packets the other side has, and removes the acknowledged ones from         *)
(* queuedPackets, where SendPacketReliably keeps them to be sent again.       *)
(*                                                                            *)
(* Both sides run the same code. The network may lose, repeat and reorder     *)
(* packets: a packet once sent can be received at any later time, any number  *)
(* of times, or never. A number is drawn (GenerateOutSeq) when a packet is    *)
(* put into the send queue, its header is written later by the send thread.   *)
(* Two races of the code are steps of their own: seq++ is not locked, so two  *)
(* threads may draw the same number, and the header is written while the      *)
(* receive thread moves its window, so ackId and mask may not belong          *)
(* together. Only the numbers of packets are told apart, not their content.   *)
EXTENDS Integers, Sequences, FiniteSets

CONSTANTS
    Peers,          \* the two sides
    Other,          \* the other side of each
    Messages,       \* reliable packets: network change, mute state, endpoint
    Owner,          \* who sends each of them
    Window,         \* 32 in the code
    KeepSeqs,       \* numbers kept of the attempts of a reliable packet, 10
    SeqMod,         \* 2^32 in the code
    MaxSeq,         \* bound: packets each side sends
    MaxRaces        \* bound: races that go wrong

ASSUME AckWindowAssumption ==
    /\ Other \in [Peers -> Peers]
    /\ \A p \in Peers : Other[Other[p]] = p
    /\ Owner \in [Messages -> Peers]
    /\ Window \in Nat /\ Window > 1
    /\ KeepSeqs \in Nat /\ KeepSeqs > 0
    /\ SeqMod \in Nat /\ SeqMod > 2 * Window
    /\ MaxSeq \in [Peers -> Nat]
    /\ \A p \in Peers : MaxSeq[p] < SeqMod \div 2
    /\ MaxRaces \in Nat

VARIABLES
    seq,                \* next number of each side
    submitted,          \* reliable packets handed to SendPacketReliably
    queuedPackets,      \* reliable packets each side still repeats
    pending,            \* each side's send queue: numbered packets
    network,            \* packets that were sent
    lastRemoteSeq,      \* highest number received
    recvPacketTimes,    \* window below it: was the packet received?
    lastRemoteAckSeq,   \* highest number acknowledged by the other side
    remoteAcks,         \* window below it: was it acknowledged?
    processed,          \* how often each number was processed
    jumped,             \* numbers that arrived a whole window ahead
    acked,              \* reliable packets removed by an acknowledgement,
                        \* with the number that was taken as acknowledged
    misled,             \* sides that used a header torn by a race
    races               \* races so far

vars == <<seq, submitted, queuedPackets, pending, network, lastRemoteSeq,
          recvPacketTimes, lastRemoteAckSeq, remoteAcks, processed, jumped,
          acked, misled, races>>

Slots == 0 .. Window - 1
Seqs == 0 .. SeqMod - 1
Numbers(p) == 1 .. MaxSeq[p]

Queued == [message : Messages, seqs : Seq(Seqs)]
Header == [from : Peers, seq : Seqs, ackId : Seqs,
           acks : [Slots -> BOOLEAN], torn : BOOLEAN]

TypeOK ==
    /\ seq \in [Peers -> Seqs]
    /\ submitted \subseteq Messages
    /\ \A p \in Peers : queuedPackets[p] \subseteq Queued
    /\ pending \in [Peers -> Seq(Seqs)]
    /\ network \subseteq Header
    /\ lastRemoteSeq \in [Peers -> Seqs]
    /\ recvPacketTimes \in [Peers -> [Slots -> BOOLEAN]]
    /\ lastRemoteAckSeq \in [Peers -> Seqs]
    /\ remoteAcks \in [Peers -> [Slots -> BOOLEAN]]
    /\ \A p \in Peers : processed[p] \in [Numbers(Other[p]) -> 0 .. 2]
    /\ jumped \in [Peers -> SUBSET Seqs]
    /\ acked \subseteq Messages \X Seqs
    /\ misled \subseteq Peers
    /\ races \in 0 .. MaxRaces

None == [i \in Slots |-> FALSE]

Init ==
    /\ seq = [p \in Peers |-> 1]
    /\ submitted = {}
    /\ queuedPackets = [p \in Peers |-> {}]
    /\ pending = [p \in Peers |-> <<>>]
    /\ network = {}
    /\ lastRemoteSeq = [p \in Peers |-> 0]
    /\ recvPacketTimes = [p \in Peers |-> None]
    /\ lastRemoteAckSeq = [p \in Peers |-> 0]
    /\ remoteAcks = [p \in Peers |-> None]
    /\ processed = [p \in Peers |-> [n \in Numbers(Other[p]) |-> 0]]
    /\ jumped = [p \in Peers |-> {}]
    /\ acked = {}
    /\ misled = {}
    /\ races = 0

-----------------------------------------------------------------------------
(* Arithmetic of sequence numbers *)

Minus(a, b) == (a - b) % SeqMod

seqgt(s1, s2) ==
    \/ s1 > s2 /\ s1 - s2 <= (SeqMod - 1) \div 2
    \/ s1 < s2 /\ s2 - s1 > (SeqMod - 1) \div 2

\* Mutant: the window moves by one place too few.
AdvanceShort(w, diff) ==
    IF diff > Window - 1 THEN None
    ELSE [i \in Slots |-> IF i = 0 THEN TRUE
                          ELSE IF i < diff - 1 THEN FALSE ELSE w[i - diff + 1]]

\* recvPacketTimes and remoteAcks are moved up in the same way. When the
\* newest number is more than a window ahead the array is only cleared.
Advance(w, diff) ==
    IF diff > Window - 1 THEN None
    ELSE [i \in Slots |-> IF i < diff THEN i = 0 ELSE w[i - diff]]

-----------------------------------------------------------------------------
(* Sending *)

\* SetMicMute, SetNetworkType, the receive timeout, the LAN endpoint.
SendPacketReliably(m) ==
    /\ m \notin submitted
    /\ submitted' = submitted \cup {m}
    /\ queuedPackets' = [queuedPackets EXCEPT ![Owner[m]] =
                             @ \cup {[message |-> m, seqs |-> <<>>]}]
    /\ UNCHANGED <<seq, pending, network, lastRemoteSeq, recvPacketTimes,
                   lastRemoteAckSeq, remoteAcks, processed, jumped, acked,
                   misled, races>>

Race == races < MaxRaces /\ races' = races + 1

\* GenerateOutSeq and the Put into the send queue.
Enqueue(p) ==
    /\ seq[p] <= MaxSeq[p]
    /\ seq' = [seq EXCEPT ![p] = (@ + 1) % SeqMod]
    /\ pending' = [pending EXCEPT ![p] = Append(@, seq[p])]

\* Stream data, pings and everything else that is sent once.
SendData(p) ==
    /\ Enqueue(p)
    /\ UNCHANGED <<submitted, queuedPackets, network, lastRemoteSeq, recvPacketTimes,
                   lastRemoteAckSeq, remoteAcks, processed, jumped, acked,
                   misled, races>>

\* The numbers of the last KeepSeqs attempts are remembered, newest first.
Remember(p, q) ==
    LET kept == SubSeq(q.seqs, 1, IF Len(q.seqs) < KeepSeqs
                                  THEN Len(q.seqs) ELSE KeepSeqs - 1)
    IN  queuedPackets' = [queuedPackets EXCEPT ![p] =
            (@ \ {q}) \cup {[q EXCEPT !.seqs = <<seq[p]>> \o kept]}]

\* The tick thread: the retry interval of a queued packet has passed.
SendQueued(p, q) ==
    /\ Enqueue(p)
    /\ Remember(p, q)
    /\ UNCHANGED <<submitted, network, lastRemoteSeq, recvPacketTimes,
                   lastRemoteAckSeq, remoteAcks, processed, jumped, acked, misled, races>>

\* The same while the audio thread is inside GenerateOutSeq: both draw the
\* number before either writes the next one.
SendQueuedRacing(p, q) ==
    /\ seq[p] <= MaxSeq[p]
    /\ Race
    /\ seq' = [seq EXCEPT ![p] = (@ + 1) % SeqMod]
    /\ pending' = [pending EXCEPT ![p] = @ \o <<seq[p], seq[p]>>]
    /\ Remember(p, q)
    /\ UNCHANGED <<submitted, network, lastRemoteSeq, recvPacketTimes,
                   lastRemoteAckSeq, remoteAcks, processed, jumped, acked, misled>>

\* The tick thread: the timeout since the first attempt has passed.
DropQueued(p, q) ==
    /\ q.seqs # <<>>
    /\ queuedPackets' = [queuedPackets EXCEPT ![p] = @ \ {q}]
    /\ UNCHANGED <<seq, submitted, pending, network, lastRemoteSeq, recvPacketTimes,
                   lastRemoteAckSeq, remoteAcks, processed, jumped, acked,
                   misled, races>>

\* The send thread writes the header: bit 31 - i of the mask says whether
\* lastRemoteSeq - i was received.
Send(p, ackId, acks, torn) ==
    /\ pending[p] # <<>>
    /\ pending' = [pending EXCEPT ![p] = Tail(@)]
    /\ network' = network \cup
           {[from |-> p, seq |-> Head(pending[p]), ackId |-> ackId,
             acks |-> acks, torn |-> torn]}

WritePacketHeader(p) ==
    /\ Send(p, lastRemoteSeq[p], recvPacketTimes[p], FALSE)
    /\ UNCHANGED <<seq, submitted, queuedPackets, lastRemoteSeq, recvPacketTimes,
                   lastRemoteAckSeq, remoteAcks, processed, jumped, acked,
                   misled, races>>

-----------------------------------------------------------------------------
(* Receiving *)

\* The packet's number against the window of received ones.
Newer(p, k) == seqgt(k.seq, lastRemoteSeq[p])
Behind(p, k) == Minus(lastRemoteSeq[p], k.seq)
Duplicate(p, k) == ~Newer(p, k) /\ Behind(p, k) < Window
                   /\ recvPacketTimes[p][Behind(p, k)]
TooLate(p, k) == ~Newer(p, k) /\ Behind(p, k) >= Window

NoteReceived(p, k) ==
    IF Newer(p, k)
    THEN LET diff == Minus(k.seq, lastRemoteSeq[p]) IN
         /\ lastRemoteSeq' = [lastRemoteSeq EXCEPT ![p] = k.seq]
         /\ recvPacketTimes' = [recvPacketTimes EXCEPT ![p] = Advance(@, diff)]
         /\ jumped' = IF diff > Window - 1
                      THEN [jumped EXCEPT ![p] = @ \cup {k.seq}] ELSE jumped
    ELSE /\ recvPacketTimes' = [recvPacketTimes EXCEPT ![p][Behind(p, k)] = TRUE]
         /\ UNCHANGED <<lastRemoteSeq, jumped>>

\* Mutant: the mask is compared one place higher, so that a packet counts as
\* acknowledged when the one two places after it was received.
MarkedTwoAbove(w, acks) ==
    [i \in Slots |-> w[i] \/ (i > 1 /\ acks[i - 2])]

\* remoteAcks[i + 1] is set from bit 31 - i of the mask, the bit of the packet
\* with number ackId - i.
Marked(w, acks) ==
    [i \in Slots |-> w[i] \/ (i > 0 /\ acks[i - 1])]

\* A number of q that counts as acknowledged.
AckedSeqs(q, ackId, w) ==
    {q.seqs[j] : j \in {j \in 1 .. Len(q.seqs) :
         /\ seqgt(ackId, q.seqs[j])
         /\ Minus(ackId, q.seqs[j]) < Window
         /\ w[Minus(ackId, q.seqs[j])]}}

\* Acknowledgements are looked at only when ackId has moved on.
NoteAcks(p, k) ==
    IF seqgt(k.ackId, lastRemoteAckSeq[p])
    THEN LET w == Marked(Advance(remoteAcks[p],
                                 Minus(k.ackId, lastRemoteAckSeq[p])), k.acks)
             done == {q \in queuedPackets[p] : AckedSeqs(q, k.ackId, w) # {}}
         IN /\ lastRemoteAckSeq' = [lastRemoteAckSeq EXCEPT ![p] = k.ackId]
            /\ remoteAcks' = [remoteAcks EXCEPT ![p] = w]
            /\ queuedPackets' = [queuedPackets EXCEPT ![p] = @ \ done]
            /\ acked' = acked \cup UNION {{q.message} \X AckedSeqs(q, k.ackId, w) :
                                              q \in done}
            /\ misled' = IF k.torn THEN misled \cup {p} ELSE misled
    ELSE UNCHANGED <<lastRemoteAckSeq, remoteAcks, queuedPackets, acked, misled>>

\* Mutant: duplicates are not recognised.
AcceptAgain(p, k) ==
    /\ k.from = Other[p]
    /\ ~TooLate(p, k)
    /\ processed[p][k.seq] < 3
    /\ NoteReceived(p, k)
    /\ NoteAcks(p, k)
    /\ processed' = [processed EXCEPT ![p][k.seq] = @ + 1]

\* RunRecvThread, from the decrypted header to the dispatch on the type. A
\* duplicate or late packet changes nothing.
Accept(p, k) ==
    /\ k.from = Other[p]
    /\ ~Duplicate(p, k)
    /\ ~TooLate(p, k)
    /\ NoteReceived(p, k)
    /\ NoteAcks(p, k)
    /\ processed' = [processed EXCEPT ![p][k.seq] = @ + 1]

Receive(p, k) ==
    /\ Accept(p, k)
    /\ UNCHANGED <<seq, submitted, pending, network, races>>

\* The receive thread moves the window while the send thread copies it.
ReceiveWhileSending(p, k) ==
    /\ Newer(p, k)
    /\ Race
    /\ Accept(p, k)
    /\ \/ Send(p, lastRemoteSeq'[p], recvPacketTimes[p], TRUE)
       \/ Send(p, lastRemoteSeq[p], recvPacketTimes'[p], TRUE)
    /\ UNCHANGED <<seq, submitted>>

-----------------------------------------------------------------------------
Next ==
    \/ \E m \in Messages : SendPacketReliably(m)
    \/ \E p \in Peers :
          \/ SendData(p)
          \/ \E q \in queuedPackets[p] :
                \/ SendQueued(p, q)
                \/ SendQueuedRacing(p, q)
                \/ DropQueued(p, q)
          \/ WritePacketHeader(p)
          \/ \E k \in network :
                \/ Receive(p, k)
                \/ ReceiveWhileSending(p, k)

Spec == Init /\ [][Next]_vars

-----------------------------------------------------------------------------
(* Properties *)

(* The window is what the headers claim: within it a number is marked exactly *)
(* when its packet was processed, whatever the network did; the one exception *)
(* is a packet that arrived a whole window ahead, which is not marked.        *)
WindowExact ==
    \A p \in Peers : \A i \in Slots :
        LET n == lastRemoteSeq[p] - i IN
        n > 0 => /\ recvPacketTimes[p][i] => processed[p][n] > 0
                 /\ processed[p][n] > 0 => recvPacketTimes[p][i] \/ n \in jumped[p]

(* No packet is processed twice, although the network repeats packets and     *)
(* reorders them; only a packet that arrived a whole window ahead is          *)
(* accepted once more, because clearing the window leaves it unmarked.        *)
ProcessedOnce ==
    \A p \in Peers : \A n \in Numbers(Other[p]) :
        processed[p][n] <= (IF n \in jumped[p] THEN 2 ELSE 1)

(* A reliable packet leaves queuedPackets for an acknowledgement only when    *)
(* the other side received the attempt that counts as acknowledged or the     *)
(* packet sent right after it: the mask is read one place off, never more,    *)
(* unless a header torn by the race on the window was used.                   *)
AckedOrNextReceived ==
    \A a \in acked :
        LET p == Other[Owner[a[1]]] IN
        \/ Owner[a[1]] \in misled
        \/ processed[p][a[2]] > 0
        \/ a[2] + 1 \in Numbers(Other[p]) /\ processed[p][a[2] + 1] > 0

(* What the log line of the removal says, "did ack seq %u, removing": the     *)
(* other side received the attempt with that number (torn headers aside).     *)
AckedWasReceived ==
    \A a \in acked : \/ Owner[a[1]] \in misled
                     \/ processed[Other[Owner[a[1]]]][a[2]] > 0
=============================================================================
