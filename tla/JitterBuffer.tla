---------------------------- MODULE JitterBuffer ----------------------------
(* The jitter buffer of an incoming call, libtgvoip/JitterBuffer.cpp, between *)
(* the receive thread (HandleInput, and Reset when the peer changes the state *)
(* of its stream), the decoder thread of OpusDecoder.cpp (HandleOutput, twice *)
(* per frame when a late frame may be recovered) and the tick thread.         *)
(*                                                                            *)
(* HandleInput, HandleOutput, Tick and GetAndResetLostPacketCount take the    *)
(* mutex. Reset called from the receive thread does not: it may run between   *)
(* the search of GetInternal and its release of the slot that it found.       *)
(*                                                                            *)
(* Timestamps are milliseconds, multiples of Step as the encoder produces     *)
(* them. The deviations that choose the delay are arithmetic on clocks: Tick  *)
(* moves minDelay by at most one, either way. Time stretching, and what is   *)
(* only logged, are left out.                                                 *)
EXTENDS Integers, Sequences, FiniteSets, FiniteSetsExt

CONSTANTS
    SlotCount,       \* JITTER_SLOT_COUNT: slots, and buffers of the pool
    MaxUsedSlots,    \* maxUsedSlots
    Step,            \* duration of a frame
    FirstDelay,      \* minDelay of the constructor
    InitialDelay,    \* jitter_initial_delay
    MinMinDelay,
    MaxMinDelay,
    LossesToReset,
    GotPerDelay,     \* 25: packets per unit of delay before losses are weighed
    LateToResync,    \* late packets of the last ticks that cause a resync
    Garbage,         \* what uninitialised counters and timestamps may hold
    MaxFrames,       \* bound: frames the peer sends
    MaxTicks,        \* bound: ticks
    MaxResets        \* bound: stream state changes of the peer

ASSUME JitterAssumption ==
    /\ {SlotCount, MaxUsedSlots, Step, LossesToReset, LateToResync}
           \subseteq Nat \ {0}
    /\ {FirstDelay, InitialDelay, MinMinDelay, MaxMinDelay, GotPerDelay,
        MaxFrames, MaxTicks, MaxResets} \subseteq Nat
    /\ Garbage \subseteq Nat /\ Garbage # {}

Slots == 1 .. SlotCount
Buffers == 1 .. SlotCount
Frames == {Step * i : i \in 1 .. MaxFrames}
NoBuffer == 0
NoFrame == 0
Free == [buffer |-> NoBuffer, timestamp |-> NoFrame]

VARIABLES
    slots, used,      \* the slots; usedBuffers of the pool
    nextTimestamp, minDelay,
    lostCount, lostSinceReset, gotSinceReset, lostPackets,
    wasReset, needBuffering,
    latePacketCount, lateHistory,   \* since the last tick, of that tick
    aborted,          \* Reuse met a pointer that is not of the pool
    recv,             \* receive thread: "starting", "idle", "resetting"
    decoder,          \* decoder thread: where it stands in its loop
    slot,             \* the slot its search found
    first, nextBuffer,   \* its locals
    recvLossCount,    \* the controller's count, sent in every header
    arrived, ticks, resets,
    decoded,          \* history: what was decoded since the last resync
    fresh,            \* history: nextBuffer was filled since then
    evictions,        \* history: evictions since the last fetch, up to two
    missed            \* history: positions that had no frame

bufferVars == <<slots, used, nextTimestamp>>
lossVars == <<lostCount, lostSinceReset, gotSinceReset, lostPackets>>
resetVars == <<wasReset, needBuffering>>
lateVars == <<latePacketCount, lateHistory>>
decoderVars == <<decoder, slot, first, nextBuffer>>
boundVars == <<arrived, ticks, resets>>
history == <<decoded, fresh, evictions>>
vars == <<bufferVars, minDelay, lossVars, resetVars, lateVars, aborted, recv,
          decoderVars, recvLossCount, boundVars, history, missed>>

-----------------------------------------------------------------------------
Used(s) == {i \in Slots : s[i].buffer # NoBuffer}

\* Get returns the first buffer that is not used, NULL when there is none.
Get(u) == IF Buffers \subseteq u THEN NoBuffer ELSE Min(Buffers \ u)

\* Releases the buffers of a set of slots.
Released(s, S) == [i \in Slots |-> IF i \in S THEN Free ELSE s[i]]
Buffered(s, S) == {s[i].buffer : i \in S}

Timestamps == {slots[i].timestamp : i \in Used(slots)}
GetCurrentDelay(s) == Cardinality(Used(s))

\* A position beyond every frame is as good as any other such position.
Beyond == Step * (MaxFrames + 3)
\* Mutant: the position moves over a frame.
AdvanceTooFar(t) == IF t + 2 * Step > Beyond THEN Beyond ELSE t + 2 * Step
Advance(t) == IF t + Step > Beyond THEN Beyond ELSE t + Step

\* The late packets of a window of ticks: 16 in the code, two here.
LateNow == latePacketCount + lateHistory

Init ==
    /\ slots = [i \in Slots |-> Free] /\ used = {}
    /\ nextTimestamp \in Garbage
    /\ latePacketCount \in Garbage
    /\ lateHistory = 0
    /\ minDelay = FirstDelay
    /\ lostCount = 0 /\ lostSinceReset = 0 /\ gotSinceReset = 0
    /\ lostPackets = 0
    /\ wasReset = TRUE /\ needBuffering = TRUE
    /\ aborted = FALSE
    /\ recv = "starting"
    /\ decoder = "fetch" /\ slot = 0 /\ first = TRUE
    /\ nextBuffer = NoFrame
    /\ recvLossCount = 0
    /\ arrived = {} /\ ticks = 0 /\ resets = 0
    /\ decoded = <<>> /\ fresh = TRUE /\ evictions = 0 /\ missed = 0

\* The mutex is held only within the decoder's search-and-release.
MutexFree == slot = 0

-----------------------------------------------------------------------------
(* Receive thread *)

\* SetMinPacketCount, after the decoder thread was started: minDelay changes
\* and Reset runs on a buffer that is still empty.
SetMinPacketCount ==
    /\ recv = "starting" /\ ~aborted
    /\ recv' = "idle"
    /\ minDelay' = InitialDelay
    /\ wasReset' = TRUE /\ needBuffering' = TRUE
    /\ UNCHANGED <<bufferVars, lossVars, lateVars, aborted, decoderVars,
                   recvLossCount, boundVars, history, missed>>

\* PutInternal, under the mutex. The branch for a packet that is too late is
\* shadowed by the one before it: late packets are counted and stored.
HandleInput(timestamp) ==
    /\ recv = "idle" /\ MutexFree /\ ~aborted
    /\ timestamp \notin arrived
    /\ LET start == IF wasReset THEN timestamp - Step * minDelay
                    ELSE nextTimestamp
           old == {i \in Used(slots) : slots[i].timestamp < start - 1}
           kept == Released(slots, old)
           late == timestamp < start
           evicts == Used(kept) = Slots \/ GetCurrentDelay(kept) >= MaxUsedSlots
           i == IF evicts
                THEN CHOOSE j \in Used(kept) : \A k \in Used(kept) :
                         kept[j].timestamp <= kept[k].timestamp
                ELSE Min(Slots \ Used(kept))
           reused == Buffered(slots, old)
                         \cup (IF evicts THEN {kept[i].buffer} ELSE {})
           buffer == Get(used \ reused)
       IN /\ slots' = [kept EXCEPT ![i] =
                          [buffer |-> buffer, timestamp |-> timestamp]]
          /\ used' = (used \ reused) \cup ({buffer} \ {NoBuffer})
          /\ nextTimestamp' = IF evicts THEN Advance(start) ELSE start
          /\ latePacketCount' = latePacketCount + (IF late THEN 1 ELSE 0)
          /\ lostPackets' = lostPackets - (IF late THEN 1 ELSE 0)
          /\ evictions' = IF evicts THEN Min({evictions + 1, 2}) ELSE evictions
    /\ gotSinceReset' = gotSinceReset + 1
    /\ wasReset' = FALSE
    /\ arrived' = arrived \cup {timestamp}
    /\ fresh' = (fresh /\ ~wasReset)
    /\ decoded' = IF wasReset THEN <<>> ELSE decoded
    /\ UNCHANGED <<minDelay, lostCount, lostSinceReset, needBuffering,
                   lateHistory, aborted, recv, decoderVars, recvLossCount,
                   ticks, resets, missed>>

\* UpdateAudioOutputState, for a PKT_STREAM_STATE: Reset without the mutex.
\* First its flags, then its slots and counters.
ResetFlags ==
    /\ recv = "idle" /\ ~aborted
    /\ resets < MaxResets
    /\ recv' = "resetting"
    /\ resets' = resets + 1
    /\ wasReset' = TRUE /\ needBuffering' = TRUE
    /\ UNCHANGED <<slots, used, nextTimestamp, minDelay, lossVars, lateVars,
                   aborted, decoderVars, recvLossCount, arrived, ticks,
                   history, missed>>

\* Mutant: the slots are emptied without returning their buffers.
ResetSlotsLeaking ==
    /\ recv = "resetting" /\ ~aborted
    /\ recv' = "idle"
    /\ slots' = Released(slots, Slots)
    /\ lostSinceReset' = 0 /\ gotSinceReset' = 0
    /\ lateHistory' = 0
    /\ UNCHANGED <<nextTimestamp, used, minDelay, lostCount, lostPackets,
                   resetVars, latePacketCount, aborted, decoderVars,
                   recvLossCount, boundVars, history, missed>>

ResetSlots ==
    /\ recv = "resetting" /\ ~aborted
    /\ recv' = "idle"
    /\ slots' = Released(slots, Slots)
    /\ used' = used \ Buffered(slots, Slots)
    /\ lostSinceReset' = 0 /\ gotSinceReset' = 0
    /\ lateHistory' = 0
    /\ UNCHANGED <<nextTimestamp, minDelay, lostCount,
                   lostPackets, resetVars, latePacketCount, aborted,
                   decoderVars, recvLossCount, boundVars, history,
                   missed>>

-----------------------------------------------------------------------------
(* Decoder thread: RunThread fetches the next frame, and decodes the previous *)
(* one, or the frame of two positions back when there was none.               *)

Offset == IF decoder = "fetch" THEN 0 ELSE -2

\* A frame that was decoded: how many evictions had moved the position since
\* the last fetch when HandleOutput(-2) found it, none for a fetched frame; and
\* whether a resync came between its fetch and its turn.
Decoding(t, n, resync) == [timestamp |-> t, evictions |-> n, resynced |-> resync]

\* Mutant: the frame just fetched is decoded at once.
AfterFetchAtOnce(t) ==
    /\ nextBuffer' = t
    /\ first' = FALSE
    /\ decoder' = IF first \/ nextBuffer # NoFrame THEN "fetch" ELSE "recover"
    /\ decoded' = IF t # NoFrame THEN Append(decoded, Decoding(t, 0, FALSE))
                  ELSE decoded
    /\ fresh' = TRUE
    /\ evictions' = 0

\* After HandleOutput(0) with result t: the packet fetched before is decoded,
\* a missing one is looked for again.
AfterFetch(t) ==
    /\ nextBuffer' = t
    /\ first' = FALSE
    /\ decoder' = IF first \/ nextBuffer # NoFrame THEN "fetch" ELSE "recover"
    /\ decoded' = IF nextBuffer # NoFrame
                  THEN Append(decoded, Decoding(nextBuffer, 0, ~fresh))
                  ELSE decoded
    /\ fresh' = TRUE
    /\ evictions' = 0

\* After HandleOutput(-2): a frame that came late is decoded, else the loss is
\* concealed. When two evictions moved the position since the fetch, the frame
\* may be newer than the one fetched, which is decoded after it.
AfterRecover(t) ==
    /\ decoder' = "fetch"
    /\ decoded' = IF t # NoFrame
                  THEN Append(decoded, Decoding(t, evictions, FALSE))
                  ELSE decoded
    /\ UNCHANGED <<nextBuffer, first, fresh, evictions>>

AfterOutput(t) == IF decoder = "fetch" THEN AfterFetch(t) ELSE AfterRecover(t)

\* GetInternal takes the mutex and finds a packet for its timestamp.
GetFinds ==
    /\ MutexFree /\ ~aborted
    /\ \E i \in Used(slots) :
          /\ slots[i].timestamp = nextTimestamp + Offset * Step
          /\ slot' = i
    /\ UNCHANGED <<bufferVars, minDelay, lossVars, resetVars, lateVars, aborted,
                   recv, decoder, first, nextBuffer, recvLossCount, boundVars,
                   history, missed>>

\* It releases the packet; a Reset may have released the slot meanwhile.
GetTakes ==
    /\ ~MutexFree /\ ~aborted
    /\ slot' = 0
    /\ IF slots[slot].buffer = NoBuffer
       THEN /\ aborted' = TRUE
            /\ UNCHANGED <<bufferVars, lostCount, needBuffering, decoder, first,
                           nextBuffer, history>>
       ELSE /\ used' = used \ {slots[slot].buffer}
            /\ slots' = [slots EXCEPT ![slot] = Free]
            /\ nextTimestamp' = IF Offset = 0 THEN Advance(nextTimestamp)
                                ELSE nextTimestamp
            /\ lostCount' = 0
            /\ needBuffering' = FALSE
            /\ AfterOutput(slots[slot].timestamp)
            /\ UNCHANGED aborted
    /\ UNCHANGED <<minDelay, lostSinceReset, gotSinceReset, lostPackets,
                   wasReset, lateVars, recv, recvLossCount, boundVars, missed>>

\* It finds none: a loss, unless the buffer is filling; too many losses reset
\* the buffer.
GetMisses ==
    /\ MutexFree /\ ~aborted
    /\ nextTimestamp + Offset * Step \notin Timestamps
    /\ LET atNext == IF Offset = 0 /\ ~needBuffering THEN 1 ELSE 0
           next == IF Offset = 0 THEN Advance(nextTimestamp) ELSE nextTimestamp
           inRow == lostCount + 1
           lost == lostSinceReset + atNext
           delay == GetCurrentDelay(slots)
           resetting == ~needBuffering
                            /\ \/ inRow >= LossesToReset
                               \/ /\ gotSinceReset > minDelay * GotPerDelay
                                  /\ lost > gotSinceReset \div 2
       IN /\ missed' = missed + atNext
          /\ lostPackets' = lostPackets + atNext
          /\ IF resetting
             THEN /\ nextTimestamp' = IF delay < minDelay
                                      THEN next - (minDelay - delay) ELSE next
                  /\ lostCount' = 0
                  /\ slots' = Released(slots, Slots)
                  /\ used' = used \ Buffered(slots, Slots)
                  /\ wasReset' = TRUE /\ needBuffering' = TRUE
                                /\ lostSinceReset' = 0 /\ gotSinceReset' = 0
                  /\ lateHistory' = 0
             ELSE /\ nextTimestamp' = next
                  /\ lostCount' = IF needBuffering THEN lostCount ELSE inRow
                  /\ lostSinceReset' = lost
                  /\ UNCHANGED <<slots, used, resetVars,
                                 gotSinceReset, lateHistory>>
    /\ AfterOutput(NoFrame)
    /\ UNCHANGED <<minDelay, slot, latePacketCount, aborted, recv,
                   recvLossCount, boundVars>>

-----------------------------------------------------------------------------
(* Tick thread *)

\* Mutant: a negative count is subtracted whatever was reported.
CollectLossesUnguarded ==
    /\ MutexFree /\ ~aborted
    /\ lostPackets # 0
    /\ lostPackets' = 0
    /\ recvLossCount' = recvLossCount + lostPackets
    /\ UNCHANGED <<bufferVars, minDelay, lostCount, lostSinceReset,
                   gotSinceReset, resetVars, lateVars, aborted, recv,
                   decoderVars, boundVars, history, missed>>

\* GetAndResetLostPacketCount: late packets may have made the count negative.
CollectLosses ==
    /\ MutexFree /\ ~aborted
    /\ lostPackets # 0
    /\ lostPackets' = 0
    /\ recvLossCount' =
           IF lostPackets > 0 \/ recvLossCount > -lostPackets
           THEN recvLossCount + lostPackets ELSE recvLossCount
    /\ UNCHANGED <<bufferVars, minDelay, lostCount, lostSinceReset,
                   gotSinceReset, resetVars, lateVars, aborted, recv,
                   decoderVars, boundVars, history, missed>>

\* Many late packets ask for a resync at the next packet, without releasing
\* the slots; the measured deviation moves minDelay by at most one.
Tick ==
    /\ MutexFree /\ ~aborted
    /\ ticks < MaxTicks
    /\ ticks' = ticks + 1
    /\ lateHistory' = latePacketCount
    /\ latePacketCount' = 0
    /\ wasReset' = (wasReset \/ LateNow >= LateToResync)
    /\ \E stddevDelay \in MinMinDelay .. MaxMinDelay :
          minDelay' = IF stddevDelay > minDelay THEN minDelay + 1
                      ELSE IF stddevDelay < minDelay THEN minDelay - 1
                      ELSE minDelay
    /\ UNCHANGED <<bufferVars, lossVars, needBuffering, aborted, recv,
                   decoderVars, recvLossCount, arrived, resets, history,
                   missed>>

-----------------------------------------------------------------------------
Receive ==
    \/ SetMinPacketCount
    \/ \E timestamp \in Frames : HandleInput(timestamp)
    \/ ResetFlags
    \/ ResetSlots

Decode == GetFinds \/ GetTakes \/ GetMisses

Next == Receive \/ Decode \/ CollectLosses \/ Tick

\* The audio device keeps asking the decoder thread for samples.
Spec == Init /\ [][Next]_vars /\ WF_vars(Decode) /\ WF_vars(ResetSlots)

-----------------------------------------------------------------------------
(* Properties *)

(* A buffer is marked used exactly while one slot holds it: eviction, late    *)
(* packets, resets and outputs neither leak a buffer, after which packets     *)
(* would be stored without data, nor give one to two packets.                 *)
PoolExact ==
    /\ used = Buffered(slots, Used(slots))
    /\ Cardinality(used) = GetCurrentDelay(slots)
    /\ GetCurrentDelay(slots) <= MaxUsedSlots

\* Decoded in its turn: fetched since the last resync, or recovered before two
\* evictions moved the position.
InTurn(d) == ~d.resynced /\ d.evictions < 2

(* Between two resyncs frames are decoded in the order of their timestamps,   *)
(* although the decoder fetches one frame ahead, recovers a late frame after  *)
(* its successor was fetched, and an eviction may move the position between   *)
(* the two calls. The exceptions are the frame in hand when a resync comes,   *)
(* and a frame recovered after two evictions, see RecoveredIsLate.            *)
DecodedInOrder ==
    \A i, j \in 1 .. Len(decoded) :
        i < j /\ InTurn(decoded[i]) /\ InTurn(decoded[j])
            => decoded[i].timestamp < decoded[j].timestamp

(* What RunThread logs as "Decoding late packet" is late: it comes before the *)
(* frame in nextBuffer, which is decoded next.                                *)
RecoveredIsLate ==
    [][decoder = "recover" /\ Len(decoded') > Len(decoded) /\ nextBuffer # NoFrame
           => decoded'[Len(decoded')].timestamp < nextBuffer]_vars

(* The loss count sent to the peer, an unsigned number, never exceeds the     *)
(* positions that really had no frame, although late frames are subtracted    *)
(* after their loss was collected and some were never counted as lost.        *)
LossesWereMissed == 0 <= recvLossCount /\ recvLossCount <= missed

(* A frame that is buffered at or after the play position does not stay: it   *)
(* is fetched, evicted or dropped by a reset; misaligned positions and resets *)
(* cannot make the decoder step over it for good.                             *)
BufferedIsFetched ==
    \A t \in Frames :
        (t >= nextTimestamp /\ t \in Timestamps)
            ~> (aborted \/ t \notin Timestamps)

(* Reuse of BufferPool.cpp aborts the program on a pointer that is not of its *)
(* pool: nobody releases a slot that somebody else is releasing.              *)
ReuseIsValid == ~aborted
=============================================================================
