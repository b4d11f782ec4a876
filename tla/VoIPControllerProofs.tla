------------------------ MODULE VoIPControllerProofs ------------------------
(* Proofs about the state of a call and its relays, for any set of relays and *)
(* any number of packets, peer addresses and calls of the application.        *)
(*                                                                            *)
(* EstablishedAfterInitAck is not inductive: the tick thread establishes the  *)
(* call when setEstablishedAt has come, whatever the state is by then, so     *)
(* that timer has to be known to come from an INIT_ACK. RelayToFallBackOn is  *)
(* not inductive either: SetNetworkType returns to the first relay of the     *)
(* list, so no deletion may ever touch that one.                              *)
EXTENDS VoIPController, TLAPS

\* setEstablishedAt is only set by an INIT_ACK.
TimerAfterInitAck == setEstablishedAt => receivedInitAck

\* The first relay the server named is never deleted.
FirstRelayStays == FirstRelay \in endpoints

CallInv ==
    /\ EstablishedAfterInitAck
    /\ TimerAfterInitAck
    /\ RelayToFallBackOn
    /\ FirstRelayStays

-----------------------------------------------------------------------------
(* States *)

\* A step that leaves the state, the timer and the INIT_ACK alone, or fails the
\* call, or waits for the INIT_ACK again, keeps the call honest.
LEMMA QuietState ==
    ASSUME EstablishedAfterInitAck, TimerAfterInitAck,
           UNCHANGED setEstablishedAt,
           receivedInitAck => receivedInitAck',
           state' \in {state, "FAILED", "WAIT_INIT_ACK"}
    PROVE  EstablishedAfterInitAck' /\ TimerAfterInitAck'
  BY DEF EstablishedAfterInitAck, TimerAfterInitAck, InCall

\* The tests at the end of the tick establish a call only when its timer is set.
LEMMA TickStateHonest ==
    ASSUME EstablishedAfterInitAck, TimerAfterInitAck, NEW current,
           NEW due \in BOOLEAN, TickState(current, due),
           UNCHANGED receivedInitAck
    PROVE  EstablishedAfterInitAck' /\ TimerAfterInitAck'
  BY DEF TickState, EstablishedAfterInitAck, TimerAfterInitAck, InCall

-----------------------------------------------------------------------------
(* Relays *)

\* What keeps the list's relays and prefers one of them keeps a way back.
LEMMA KeptRelays ==
    ASSUME RelayToFallBackOn, FirstRelayStays,
           \A e \in endpoints : IsRelay(e) => e \in endpoints',
           \/ preferredRelay' = preferredRelay
           \/ preferredRelay' \in endpoints /\ IsRelay(preferredRelay')
    PROVE  RelayToFallBackOn' /\ FirstRelayStays'
<1>1. IsRelay(FirstRelay)
  BY DEF IsRelay, FirstRelay, RelayTypes
<1> QED BY <1>1 DEF RelayToFallBackOn, FirstRelayStays, IsRelay

\* Addresses of the peer are not relays: forgetting them keeps the relays.
LEMMA LearnKeepsRelays ==
    ASSUME NEW type, NEW forgotten \in SUBSET PeerTypes, NEW current,
           Learn(type, forgotten, current)
    PROVE  \A e \in endpoints : IsRelay(e) => e \in endpoints'
  BY DEF Learn, IsRelay, RelayTypes, PeerTypes

-----------------------------------------------------------------------------
(* The threads *)

\* The receive thread: every handler, and a packet that ends the call.
LEMMA ReceiveCallInv ==
    ASSUME CallInv, Receive
    PROVE  CallInv'
<1> USE DEF CallInv
<1>1. ASSUME NEW src \in endpoints, NEW type \in PacketTypes, LookUp(src, type)
      PROVE  CallInv'
  BY <1>1, QuietState, KeptRelays DEF LookUp, stateVars, listVars
<1>2. ASSUME NEW src \in endpoints, NEW lagging \in BOOLEAN,
             NEW compatible \in BOOLEAN, HandleInit(src, lagging, compatible)
      PROVE  CallInv'
  <2>1. state' \in {state, "FAILED", "WAIT_INIT_ACK"}
    BY <1>2 DEF HandleInit
  <2>2. preferredRelay' = preferredRelay \/ (preferredRelay' = src /\ IsRelay(src))
    BY <1>2 DEF HandleInit
  <2>3. UNCHANGED <<receivedInitAck, setEstablishedAt, endpoints>>
    BY <1>2 DEF HandleInit
  <2> QED BY <2>1, <2>2, <2>3, QuietState, KeptRelays
<1>3. ASSUME NEW src \in endpoints, NEW lagging \in BOOLEAN,
             NEW outcome \in {"started", "streamless", "failed"},
             HandleInitAck(src, lagging, outcome)
      PROVE  CallInv'
  <2>1. receivedInitAck' = TRUE
    BY <1>3 DEF HandleInitAck
  <2>2. UNCHANGED <<endpoints, preferredRelay>>
    BY <1>3 DEF HandleInitAck
  <2> QED BY <2>1, <2>2, KeptRelays DEF EstablishedAfterInitAck, TimerAfterInitAck
<1>4. ASSUME NEW src \in endpoints, NEW lagging \in BOOLEAN,
             HandleStreamData(src, lagging)
      PROVE  CallInv'
  <2>1. state' = IF receivedInitAck THEN "ESTABLISHED" ELSE state
    BY <1>4 DEF HandleStreamData
  <2>2. UNCHANGED <<receivedInitAck, setEstablishedAt, endpoints, preferredRelay>>
    BY <1>4 DEF HandleStreamData
  <2>3. EstablishedAfterInitAck' /\ TimerAfterInitAck'
    BY <2>1, <2>2 DEF EstablishedAfterInitAck, TimerAfterInitAck, InCall
  <2> QED BY <2>2, <2>3, KeptRelays
<1>5. ASSUME NEW src \in endpoints, NEW lagging \in BOOLEAN,
             HandlePong(src, lagging) \/ HandleNetworkChanged(src, lagging)
      PROVE  CallInv'
  BY <1>5, QuietState, KeptRelays DEF HandlePong, HandleNetworkChanged, stateVars
<1>6. ASSUME NEW src \in endpoints, NEW lagging \in BOOLEAN,
             HandleLanEndpoint(src, lagging)
      PROVE  CallInv'
  <2>1. \A e \in endpoints : IsRelay(e) => e \in endpoints'
    BY <1>6, LearnKeepsRelays DEF HandleLanEndpoint, PeerTypes
  <2> QED BY <1>6, <2>1, QuietState, KeptRelays DEF HandleLanEndpoint, stateVars
<1>7. ASSUME NEW src \in endpoints, HandleSelfInfo(src)
      PROVE  CallInv'
  BY <1>7, QuietState, KeptRelays DEF HandleSelfInfo, stateVars, listVars
<1>8. ASSUME NEW src \in endpoints, HandlePeerInfo(src)
      PROVE  CallInv'
  <2>1. \A e \in endpoints : IsRelay(e) => e \in endpoints'
    BY <1>8, LearnKeepsRelays DEF HandlePeerInfo
  <2> QED BY <1>8, <2>1, QuietState, KeptRelays DEF HandlePeerInfo, stateVars
<1>9. CASE ReceiveFails
  BY <1>9, QuietState, KeptRelays DEF ReceiveFails, listVars
<1> QED BY <1>1, <1>2, <1>3, <1>4, <1>5, <1>6, <1>7, <1>8, <1>9 DEF Receive

\* The tick thread: SendInit, and the loop with its selection of an endpoint.
LEMMA TickCallInv ==
    ASSUME CallInv, Tick
    PROVE  CallInv'
<1> USE DEF CallInv
<1>1. CASE TickTestInit
  BY <1>1, QuietState, KeptRelays DEF TickTestInit, stateVars, listVars
<1>2. CASE TickSendInit
  BY <1>2, QuietState, KeptRelays DEF TickSendInit, listVars
<1>3. CASE TickLoop
  <2>1. PICK choice \in Selected, due \in BOOLEAN :
          preferredRelay' = choice[1] /\ TickState(choice[2], due)
    BY <1>3 DEF TickLoop
  <2>2. EstablishedAfterInitAck' /\ TimerAfterInitAck'
    BY <1>3, <2>1, TickStateHonest DEF TickLoop
  <2>3. \/ choice[1] = preferredRelay
        \/ choice[1] \in endpoints /\ IsRelay(choice[1])
    BY DEF Selected, Candidates
  <2>4. \A e \in endpoints : e \in endpoints'
    BY <1>3 DEF TickLoop
  <2> QED BY <2>1, <2>2, <2>3, <2>4, KeptRelays
<1> QED BY <1>1, <1>2, <1>3 DEF Tick

\* The application: SetNetworkType is the step that deletes an endpoint.
LEMMA ApplicationCallInv ==
    ASSUME CallInv, Application
    PROVE  CallInv'
<1> USE DEF CallInv
<1>1. CASE Connect \/ ConnectSendInit \/ AudioFails
  BY <1>1, QuietState, KeptRelays DEF Connect, ConnectSendInit, AudioFails, listVars
<1>2. CASE SetNetworkType
  BY <1>2, QuietState, KeptRelays DEF SetNetworkType, stateVars
<1>3. CASE SetNetworkTypeLocked
  <2>1. \A e \in endpoints : IsRelay(e) => e \in endpoints'
    BY <1>3 DEF SetNetworkTypeLocked, IsRelay, RelayTypes
  <2>2. preferredRelay' = preferredRelay \/ preferredRelay' = FirstRelay
    BY <1>3 DEF SetNetworkTypeLocked
  <2>3. FirstRelay \in endpoints /\ IsRelay(FirstRelay)
    BY DEF FirstRelayStays, IsRelay, FirstRelay, RelayTypes
  <2> QED BY <1>3, <2>1, <2>2, <2>3, QuietState, KeptRelays
          DEF SetNetworkTypeLocked, stateVars
<1>4. ASSUME NEW param \in BOOLEAN, DebugCtl(param)
      PROVE  CallInv'
  BY <1>4, QuietState, KeptRelays DEF DebugCtl, stateVars
<1> QED BY <1>1, <1>2, <1>3, <1>4 DEF Application

-----------------------------------------------------------------------------
(* The theorems *)

\* A controller that was given its relays satisfies the invariant.
LEMMA InitCallInv == Init => CallInv
  BY CallAssumption DEF Init, CallInv, EstablishedAfterInitAck, TimerAfterInitAck,
     RelayToFallBackOn, FirstRelayStays, InCall, IsRelay, RelayTypes, FirstRelay

\* Every step of every thread, and of the clock, keeps it.
LEMMA StepCallInv == CallInv /\ [Next]_vars => CallInv'
<1> SUFFICES ASSUME CallInv, [Next]_vars PROVE CallInv'
  OBVIOUS
<1>1. CASE UNCHANGED vars
  BY <1>1, QuietState, KeptRelays DEF vars, stateVars, listVars, CallInv
<1>2. CASE SilencePasses \/ InitTimePasses
  BY <1>2, QuietState, KeptRelays DEF SilencePasses, InitTimePasses, stateVars, listVars,
     CallInv
<1> QED BY <1>1, <1>2, ReceiveCallInv, TickCallInv, ApplicationCallInv DEF Next

\* The invariant the theorems below rest on.
THEOREM CallInvHolds == Spec => []CallInv
  BY InitCallInv, StepCallInv, PTL DEF Spec

\* The application hears of an established or reconnecting call only after the
\* peer's INIT_ACK, in whatever order SendInit, late stream data, the timer and
\* the answer itself write the unprotected state.
THEOREM NeverEstablishedUnanswered == Spec => []EstablishedAfterInitAck
<1>1. CallInv => EstablishedAfterInitAck
  BY DEF CallInv
<1> QED BY <1>1, CallInvHolds, PTL

\* The relay a call falls back on is in the list, whatever was deleted from it.
THEOREM AlwaysARelay == Spec => []RelayToFallBackOn
<1>1. CallInv => RelayToFallBackOn
  BY DEF CallInv
<1> QED BY <1>1, CallInvHolds, PTL
=============================================================================
