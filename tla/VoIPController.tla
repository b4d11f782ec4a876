--------------------------- MODULE VoIPController ---------------------------
(* The state of a call and its choice of an endpoint, VoIPController.cpp of   *)
(* libtgvoip: the receive thread, the tick thread, the send thread and the    *)
(* application write the same fields. endpointsMutex protects the list of     *)
(* endpoints in most places, state and currentEndpoint nowhere.               *)
(*                                                                            *)
(* Steps are the stretches between two points where another thread can see    *)
(* or change what was read: the receive thread looks the sender up under the  *)
(* mutex and handles the packet afterwards; SendInit writes the state after   *)
(* the caller has tested it; SetNetworkType leaves currentEndpoint before it  *)
(* takes the mutex. An endpoint is an object: a deleted one and the one       *)
(* created in its place have the same type and differ in gen. Of an average   *)
(* round-trip time only whether it was measured is kept, and any outcome of   *)
(* comparing two measured ones. The clock is two facts: how long the peer is  *)
(* silent and whether init_timeout is over; setEstablishedAt may come at any  *)
(* tick. No proxy: useUDP stays true. Pings, and what else is only queued to  *)
(* be sent, are left to VoIPPipeline.                                         *)
EXTENDS Integers, FiniteSets

CONSTANTS
    Relays,        \* relays the server named, numbered from 1
    MaxPeers,      \* bound: addresses of the peer learned
    MaxPackets,    \* bound: packets received
    MaxCalls       \* bound: calls of the application after Connect

ASSUME CallAssumption ==
    /\ Relays \subseteq Nat \ {0} /\ 1 \in Relays
    /\ {MaxPeers, MaxPackets, MaxCalls} \subseteq Nat

RelayTypes == {"UDP_RELAY", "TCP_RELAY"}
PeerTypes == {"P2P_INET", "P2P_LAN"}
Endpoints == [type : RelayTypes, gen : Relays]
                 \cup [type : PeerTypes, gen : 1 .. MaxPeers]
OfType(S, type) == {e \in S : e.type = type}
IsRelay(e) == e.type \in RelayTypes

FirstRelay == [type |-> "UDP_RELAY", gen |-> 1]
Selecting == [type |-> "NONE", src |-> FirstRelay]
Exited == [type |-> "EXITED", src |-> FirstRelay]

Silent == 2         \* recv_timeout without a packet
Quiet == 1          \* reconnecting_state_timeout without a packet

VARIABLES
    state, connected, receivedInit, receivedInitAck,
    setEstablishedAt,   \* whether it is set
    endpoints, currentEndpoint, preferredRelay,
    measured,   \* endpoints whose averageRTT is not zero
    useTCP, didAddTcpRelays, allowP2p, waitingForRelayPeerInfo,
    udpConnectivityState,
    silence, initExpired,      \* the clock
    recv,       \* receive thread: the packet in hand, Selecting or Exited
    tick,       \* tick thread: "loop", "init" within SendInit, "rest" after it
    user,       \* application thread: the call it is in
    packets, calls, peers

stateVars == <<state, connected, receivedInit, receivedInitAck,
               setEstablishedAt>>
listVars == <<endpoints, measured, currentEndpoint, preferredRelay, peers>>
modeVars == <<useTCP, didAddTcpRelays, allowP2p, waitingForRelayPeerInfo>>
clockVars == <<silence, initExpired>>
vars == <<stateVars, listVars, modeVars, udpConnectivityState, clockVars, recv,
          tick, user, packets, calls>>

States == {"WAIT_INIT", "WAIT_INIT_ACK", "ESTABLISHED", "FAILED",
           "RECONNECTING"}
InCall == state \in {"ESTABLISHED", "RECONNECTING"}

\* SetRemoteEndpoints with the relays of the server.
Init ==
    /\ state = "WAIT_INIT" /\ connected = FALSE
    /\ receivedInit = FALSE /\ receivedInitAck = FALSE
    /\ setEstablishedAt = FALSE
    /\ endpoints = [type : {"UDP_RELAY"}, gen : Relays]
    /\ measured = {}
    /\ currentEndpoint = FirstRelay
    /\ preferredRelay = currentEndpoint
    /\ useTCP = FALSE /\ didAddTcpRelays = FALSE
    /\ allowP2p \in BOOLEAN /\ waitingForRelayPeerInfo = FALSE
    /\ udpConnectivityState = "UNKNOWN"
    /\ silence = Silent /\ initExpired = FALSE
    /\ recv = Selecting /\ tick = "loop" /\ user = "idle"
    /\ packets = 0 /\ calls = 0 /\ peers = [t \in PeerTypes |-> 0]

\* No pointer to a deleted endpoint is in use. Beyond that the program has no
\* defined behaviour, and no step.
Intact ==
    /\ currentEndpoint \in endpoints
    /\ recv.src \in endpoints

SendPublicEndpointsRequest(wanted) ==
    waitingForRelayPeerInfo' = (waitingForRelayPeerInfo \/ wanted)

-----------------------------------------------------------------------------
(* Receive thread *)

PacketTypes == {"INIT", "INIT_ACK", "STREAM_DATA", "PONG", "LAN_ENDPOINT",
                "NETWORK_CHANGED", "SELF_INFO", "PEER_INFO"}

\* Sockets to TCP relays are open while useTCP. A relay answers requests; the
\* peer answers what it got, our INIT possibly before SendInit has written the
\* state, and uses the call after it has our INIT_ACK.
MayArrive(src, type) ==
    /\ recv = Selecting
    /\ packets < MaxPackets
    /\ src.type = "TCP_RELAY" => useTCP
    /\ type \in {"SELF_INFO", "PEER_INFO"} => IsRelay(src)
    /\ type = "INIT_ACK" => connected
    /\ type = "PONG" => receivedInitAck
    /\ ~IsRelay(src) \/ type \in {"STREAM_DATA", "LAN_ENDPOINT"} => receivedInit
    /\ type = "LAN_ENDPOINT" => peers["P2P_LAN"] < MaxPeers
    /\ type = "PEER_INFO" /\ waitingForRelayPeerInfo => peers["P2P_INET"] < MaxPeers

\* Select returns, and the sender is looked up under the mutex; it may be
\* deleted before the packet is handled.
LookUp(src, type) ==
    /\ ~IsRelay(src) /\ MayArrive(src, type)
    /\ recv' = [src |-> src, type |-> type]
    /\ packets' = packets + 1
    /\ UNCHANGED <<stateVars, listVars, modeVars, udpConnectivityState,
                   clockVars, tick, user, calls>>

\* The packet a handler has in hand. Relays are never deleted: for their
\* packets the look-up is part of the handler.
Taken(src, type) ==
    \/ recv = [src |-> src, type |-> type] /\ UNCHANGED packets
    \/ IsRelay(src) /\ MayArrive(src, type) /\ packets' = packets + 1

\* A packet of a relay when the endpoint in use is not a proven relay, and
\* the acknowledgements lag: the peer's address probably changed.
Moves(src, lagging) ==
    /\ lagging
    /\ src # currentEndpoint /\ IsRelay(src)
    /\ ~IsRelay(currentEndpoint) \/ currentEndpoint \notin measured
EndpointAfter(src, lagging) ==
    IF Moves(src, lagging) THEN src ELSE currentEndpoint

HandleInit(src, lagging, compatible) ==
    /\ Taken(src, "INIT")
    /\ silence' = 0
    /\ receivedInit' = TRUE
    /\ currentEndpoint' = IF receivedInit THEN EndpointAfter(src, lagging)
                          ELSE src
    /\ preferredRelay' = IF /\ ~receivedInit /\ IsRelay(src)
                            /\ src.type = "TCP_RELAY" => useTCP
                         THEN src ELSE preferredRelay
    /\ SendPublicEndpointsRequest(allowP2p /\ Moves(src, lagging))
    /\ IF compatible
       THEN recv' = Selecting /\ UNCHANGED state
       ELSE recv' = Exited /\ state' = "FAILED"
    /\ UNCHANGED <<connected, receivedInitAck, setEstablishedAt, endpoints,
                   measured, useTCP, didAddTcpRelays, allowP2p,
                   udpConnectivityState, initExpired, tick, user, calls,
                   peers>>

\* Only the first one counts. It may name no stream, be of an incompatible
\* version, or the audio devices may fail to start.
HandleInitAck(src, lagging, outcome) ==
    /\ Taken(src, "INIT_ACK")
    /\ silence' = 0
    /\ receivedInitAck' = TRUE
    /\ currentEndpoint' = EndpointAfter(src, lagging)
    /\ LET started == ~receivedInitAck /\ outcome = "started"
           failed == ~receivedInitAck /\ outcome = "failed"
       IN /\ state' = IF failed THEN "FAILED" ELSE state
          /\ recv' = IF failed THEN Exited ELSE Selecting
          /\ setEstablishedAt' = (started \/ setEstablishedAt)
          /\ SendPublicEndpointsRequest(
                 allowP2p /\ (started \/ Moves(src, lagging)))
    /\ UNCHANGED <<connected, receivedInit, endpoints, measured,
                   preferredRelay, useTCP, didAddTcpRelays, allowP2p,
                   udpConnectivityState, initExpired, tick, user, calls,
                   peers>>

\* Mutant: stream data establishes a call that was not answered.
HandleStreamDataEarly(src, lagging) ==
    /\ Taken(src, "STREAM_DATA")
    /\ recv' = Selecting
    /\ silence' = 0
    /\ currentEndpoint' = EndpointAfter(src, lagging)
    /\ SendPublicEndpointsRequest(allowP2p /\ Moves(src, lagging))
    /\ state' = "ESTABLISHED"
    /\ UNCHANGED <<connected, receivedInit, receivedInitAck, setEstablishedAt,
                   endpoints, measured, preferredRelay, useTCP,
                   didAddTcpRelays, allowP2p, udpConnectivityState,
                   initExpired, tick, user, calls, peers>>

HandleStreamData(src, lagging) ==
    /\ Taken(src, "STREAM_DATA")
    /\ recv' = Selecting
    /\ silence' = 0
    /\ currentEndpoint' = EndpointAfter(src, lagging)
    /\ SendPublicEndpointsRequest(allowP2p /\ Moves(src, lagging))
    /\ state' = IF receivedInitAck THEN "ESTABLISHED" ELSE state
    /\ UNCHANGED <<connected, receivedInit, receivedInitAck, setEstablishedAt,
                   endpoints, measured, preferredRelay, useTCP,
                   didAddTcpRelays, allowP2p, udpConnectivityState,
                   initExpired, tick, user, calls, peers>>

\* The answer to a ping yields a new average.
HandlePong(src, lagging) ==
    /\ Taken(src, "PONG")
    /\ recv' = Selecting
    /\ silence' = 0
    /\ currentEndpoint' = EndpointAfter(src, lagging)
    /\ SendPublicEndpointsRequest(allowP2p /\ Moves(src, lagging))
    /\ measured' = measured \cup {src}
    /\ UNCHANGED <<stateVars, endpoints, preferredRelay, useTCP,
                   didAddTcpRelays, allowP2p, udpConnectivityState,
                   initExpired, tick, user, calls, peers>>

\* Forgets the endpoints of some types and adds one for the peer's address;
\* a forgotten endpoint that is in use gives way to the preferred relay.
Learn(type, forgotten, current) ==
    /\ peers' = [peers EXCEPT ![type] = @ + 1]
    /\ LET new == [type |-> type, gen |-> peers[type] + 1] IN
       endpoints' = {e \in endpoints : e.type \notin forgotten} \cup {new}
    /\ currentEndpoint' = IF current.type \in forgotten THEN preferredRelay
                          ELSE current

HandleLanEndpoint(src, lagging) ==
    /\ Taken(src, "LAN_ENDPOINT")
    /\ recv' = Selecting
    /\ silence' = 0
    /\ Learn("P2P_LAN", {"P2P_LAN"}, EndpointAfter(src, lagging))
    /\ SendPublicEndpointsRequest(allowP2p /\ Moves(src, lagging))
    /\ UNCHANGED <<stateVars, measured, preferredRelay, useTCP,
                   didAddTcpRelays, allowP2p, udpConnectivityState,
                   initExpired, tick, user, calls>>

HandleNetworkChanged(src, lagging) ==
    /\ Taken(src, "NETWORK_CHANGED")
    /\ recv' = Selecting
    /\ silence' = 0
    /\ LET current == EndpointAfter(src, lagging) IN
       /\ currentEndpoint' = IF IsRelay(current) THEN current ELSE preferredRelay
       /\ SendPublicEndpointsRequest(
              allowP2p /\ (~IsRelay(current) \/ Moves(src, lagging)))
    /\ UNCHANGED <<stateVars, endpoints, measured, preferredRelay, useTCP,
                   didAddTcpRelays, allowP2p, udpConnectivityState,
                   initExpired, tick, user, calls, peers>>

\* Answers of a reflector; they do not count as packets of the peer.
HandleSelfInfo(src) ==
    /\ Taken(src, "SELF_INFO")
    /\ recv' = Selecting
    /\ udpConnectivityState' =
           IF src.type = "UDP_RELAY" /\ udpConnectivityState = "PING_SENT"
           THEN "AVAILABLE" ELSE udpConnectivityState
    /\ UNCHANGED <<stateVars, listVars, modeVars, clockVars, tick,
                   user, calls>>

HandlePeerInfo(src) ==
    /\ Taken(src, "PEER_INFO")
    /\ recv' = Selecting
    /\ IF waitingForRelayPeerInfo
       THEN Learn("P2P_INET", PeerTypes, currentEndpoint)
       ELSE UNCHANGED <<endpoints, currentEndpoint, peers>>
    /\ waitingForRelayPeerInfo' = FALSE
    /\ UNCHANGED <<stateVars, measured, preferredRelay, useTCP,
                   didAddTcpRelays, allowP2p, udpConnectivityState, clockVars,
                   tick, user, calls>>

\* An error of the UDP socket, or a packet of another call or protocol.
ReceiveFails ==
    /\ recv = Selecting
    /\ packets < MaxPackets
    /\ packets' = packets + 1
    /\ recv' = Exited
    /\ state' = "FAILED"
    /\ UNCHANGED <<connected, receivedInit, receivedInitAck, setEstablishedAt,
                   listVars, modeVars, udpConnectivityState, clockVars, tick,
                   user, calls>>

Receive ==
    \/ \E src \in endpoints :
          \/ \E type \in PacketTypes : LookUp(src, type)
          \/ \E lagging \in BOOLEAN :
                \/ \E compatible \in BOOLEAN :
                      HandleInit(src, lagging, compatible)
                \/ \E outcome \in {"started", "streamless", "failed"} :
                      HandleInitAck(src, lagging, outcome)
                \/ HandleStreamData(src, lagging)
                \/ HandlePong(src, lagging)
                \/ HandleLanEndpoint(src, lagging)
                \/ HandleNetworkChanged(src, lagging)
          \/ HandleSelfInfo(src)
          \/ HandlePeerInfo(src)
    \/ ReceiveFails

-----------------------------------------------------------------------------
(* Tick thread *)

\* An INIT that is not answered is sent again: the test, then SendInit, which
\* sets the state after it has queued its packets.
TickTestInit ==
    /\ tick = "loop" /\ connected
    /\ state = "WAIT_INIT_ACK"
    /\ tick' = "init"
    /\ UNCHANGED <<stateVars, listVars, modeVars, udpConnectivityState,
                   clockVars, recv, user, packets, calls>>

TickSendInit ==
    /\ tick = "init"
    /\ tick' = "rest"
    /\ state' = "WAIT_INIT_ACK"
    /\ UNCHANGED <<connected, receivedInit, receivedInitAck, setEstablishedAt,
                   listVars, modeVars, udpConnectivityState, clockVars, recv,
                   user, packets, calls>>

\* Relays that may turn out closer than the preferred one: nothing is closer
\* than an average of zero.
Candidates ==
    {e \in endpoints \cap measured :
        /\ preferredRelay \in measured
        /\ IsRelay(e) /\ (e.type = "TCP_RELAY" => useTCP)}

\* What the selection may settle on, with the relay it prefers: from a UDP
\* relay a measured direct path, from any other endpoint that relay.
Settled(current, relay) ==
    {current} \cup
        IF relay \notin measured THEN {}
        ELSE IF current.type # "UDP_RELAY"
        THEN IF current \in measured THEN {relay} ELSE {}
        ELSE IF OfType(endpoints, "P2P_INET") = {} THEN {}
        ELSE {e \in endpoints \cap measured : ~IsRelay(e)}

\* The selection under endpointsMutex, of a call that is up: the preferred
\* relay and the endpoint.
Selected ==
    IF ~InCall THEN {<<preferredRelay, currentEndpoint>>}
    ELSE UNION {
        LET current == IF relay # preferredRelay /\ IsRelay(currentEndpoint)
                       THEN relay ELSE currentEndpoint
        IN {relay} \X Settled(current, relay) :
        relay \in {preferredRelay} \cup Candidates}

\* UDP pings are repeated until one is answered or all are lost.
UdpPing ==
    /\ udpConnectivityState' \in
           CASE udpConnectivityState = "UNKNOWN" -> {"PING_SENT"}
             [] udpConnectivityState = "PING_SENT" ->
                    {"PING_SENT", "NOT_AVAILABLE"}
             [] OTHER -> {udpConnectivityState}
    /\ useTCP' = \/ useTCP
                 \/ /\ udpConnectivityState = "PING_SENT"
                    /\ udpConnectivityState' = "NOT_AVAILABLE"

\* The peer is silent for recv_timeout: from a direct path back to the relay,
\* from a relay to the end of the call.
FallsBack(current) == InCall /\ silence = Silent /\ ~IsRelay(current)
\* Mutant: a call that is never answered does not time out.
TimesOutInCall(current) == InCall /\ silence = Silent /\ IsRelay(current)

TimesOut(current) ==
    \/ InCall /\ silence = Silent /\ IsRelay(current)
    \/ state \in {"WAIT_INIT", "WAIT_INIT_ACK"} /\ initExpired

\* The state after the tests that end the loop, in their order; due tells
\* whether setEstablishedAt has come.
TickState(current, due) ==
    LET failed == IF TimesOut(current) THEN "FAILED" ELSE state
        quiet == IF failed = "ESTABLISHED" /\ silence' >= Quiet
                 THEN "RECONNECTING" ELSE failed
        establish == quiet # "ESTABLISHED" /\ setEstablishedAt /\ due
    IN /\ state' = IF establish THEN "ESTABLISHED" ELSE quiet
       /\ setEstablishedAt' = (setEstablishedAt /\ ~establish)

\* The loop: TCP relays are added once they are wanted, an endpoint is
\* selected, UDP is probed and timeouts are looked at.
TickLoop ==
    /\ tick \in {"loop", "rest"} /\ connected
    /\ tick' = "loop"
    /\ endpoints' = IF useTCP /\ ~didAddTcpRelays
                    THEN endpoints \cup [type : {"TCP_RELAY"}, gen : Relays]
                    ELSE endpoints
    /\ didAddTcpRelays' = (didAddTcpRelays \/ useTCP)
    /\ UdpPing
    /\ \E choice \in Selected, due \in BOOLEAN :
          LET back == FallsBack(choice[2]) IN
          /\ preferredRelay' = choice[1]
          /\ currentEndpoint' = IF back THEN choice[1] ELSE choice[2]
          /\ measured' = IF back THEN {e \in measured : IsRelay(e)} ELSE measured
          /\ silence' = IF back THEN 0 ELSE silence
          /\ SendPublicEndpointsRequest(back /\ allowP2p)
          /\ TickState(choice[2], due)
    /\ UNCHANGED <<connected, receivedInit, receivedInitAck, peers, allowP2p,
                   initExpired, recv, user, packets, calls>>

Tick == TickTestInit \/ TickSendInit \/ TickLoop

-----------------------------------------------------------------------------
(* Application *)

\* Connect sets connectionInitTime, which starts the ticks, and sends INIT.
Connect ==
    /\ user = "idle" /\ ~connected
    /\ user' = "init"
    /\ connected' = TRUE
    /\ UNCHANGED <<state, receivedInit, receivedInitAck, setEstablishedAt,
                   listVars, modeVars, udpConnectivityState, clockVars, recv,
                   tick, packets, calls>>

ConnectSendInit ==
    /\ user = "init"
    /\ user' = "idle"
    /\ state' = "WAIT_INIT_ACK"
    /\ UNCHANGED <<connected, receivedInit, receivedInitAck, setEstablishedAt,
                   listVars, modeVars, udpConnectivityState, clockVars, recv,
                   tick, packets, calls>>

\* SetNetworkType with a new interface, up to the mutex and, when a UDP relay
\* is in use, to its end.
SetNetworkType ==
    /\ user = "idle" /\ connected
    /\ calls < MaxCalls
    /\ calls' = calls + 1
    /\ IF currentEndpoint.type # "UDP_RELAY"
       THEN /\ user' = "network"
            /\ currentEndpoint' = IF preferredRelay.type = "UDP_RELAY"
                                  THEN preferredRelay ELSE currentEndpoint
            /\ UNCHANGED <<udpConnectivityState, waitingForRelayPeerInfo>>
       ELSE /\ udpConnectivityState' = "UNKNOWN"
            /\ SendPublicEndpointsRequest(allowP2p)
            /\ UNCHANGED <<user, currentEndpoint>>
    /\ UNCHANGED <<stateVars, endpoints, measured, preferredRelay, useTCP,
                   didAddTcpRelays, allowP2p, clockVars, recv, tick,
                   packets, peers>>

\* Mutant: the TCP relays are deleted although one may be preferred.
SetNetworkTypeForgets ==
    /\ user = "network"
    /\ user' = "idle"
    /\ useTCP' = FALSE
    /\ endpoints' = {e \in endpoints : e.type = "UDP_RELAY"}
    /\ measured' = {}
    /\ udpConnectivityState' = "UNKNOWN"
    /\ SendPublicEndpointsRequest(allowP2p)
    /\ UNCHANGED <<stateVars, preferredRelay, currentEndpoint, didAddTcpRelays,
                   allowP2p, clockVars, recv, tick, packets, calls, peers>>

\* Its part under the mutex: back to UDP, averages reset, the LAN endpoint
\* deleted without a look at currentEndpoint.
SetNetworkTypeLocked ==
    /\ user = "network"
    /\ user' = "idle"
    /\ LET back == useTCP /\ preferredRelay.type = "TCP_RELAY" IN
       /\ preferredRelay' = IF back THEN FirstRelay ELSE preferredRelay
       /\ currentEndpoint' = IF back THEN FirstRelay ELSE currentEndpoint
    /\ useTCP' = FALSE
    /\ endpoints' = {e \in endpoints : e.type # "P2P_LAN"}
    /\ measured' = {}
    /\ udpConnectivityState' = "UNKNOWN"
    /\ SendPublicEndpointsRequest(allowP2p)
    /\ UNCHANGED <<stateVars, didAddTcpRelays, allowP2p, clockVars, recv, tick,
                   packets, calls, peers>>

\* DebugCtl(3, param): force enable or disable direct paths.
DebugCtl(param) ==
    /\ user = "idle"
    /\ calls < MaxCalls
    /\ calls' = calls + 1
    /\ allowP2p' = param
    /\ currentEndpoint' = IF ~param /\ currentEndpoint.type # "UDP_RELAY"
                          THEN preferredRelay ELSE currentEndpoint
    /\ SendPublicEndpointsRequest(param)
    /\ UNCHANGED <<stateVars, endpoints, measured, preferredRelay, useTCP,
                   didAddTcpRelays, udpConnectivityState, clockVars, recv,
                   tick, user, packets, peers>>

\* SetMicMute, or the tick thread, finds that an audio device failed.
AudioFails ==
    /\ user = "idle" /\ receivedInitAck
    /\ calls < MaxCalls
    /\ calls' = calls + 1
    /\ state' = "FAILED"
    /\ UNCHANGED <<connected, receivedInit, receivedInitAck, setEstablishedAt,
                   listVars, modeVars, udpConnectivityState, clockVars, recv,
                   tick, user, packets>>

Application ==
    \/ Connect \/ ConnectSendInit
    \/ SetNetworkType \/ SetNetworkTypeLocked
    \/ \E param \in BOOLEAN : DebugCtl(param)
    \/ AudioFails

-----------------------------------------------------------------------------
(* Clock *)

SilencePasses ==
    /\ silence < Silent
    /\ silence' = silence + 1
    /\ UNCHANGED <<stateVars, listVars, modeVars, udpConnectivityState,
                   initExpired, recv, tick, user, packets, calls>>

InitTimePasses ==
    /\ connected /\ ~initExpired
    /\ initExpired' = TRUE
    /\ UNCHANGED <<stateVars, listVars, modeVars, udpConnectivityState,
                   silence, recv, tick, user, packets, calls>>

-----------------------------------------------------------------------------
Next ==
    /\ Intact
    /\ \/ Receive \/ Tick \/ Application
       \/ SilencePasses \/ InitTimePasses

\* The threads run and time passes. The peer and the application may stop.
Fairness ==
    /\ WF_vars(Intact /\ TickLoop)
    /\ WF_vars(Intact /\ TickSendInit)
    /\ WF_vars(Intact /\ ConnectSendInit)
    /\ WF_vars(Intact /\ SetNetworkTypeLocked)
    /\ WF_vars(Intact /\ SilencePasses)
    /\ WF_vars(Intact /\ InitTimePasses)

Spec == Init /\ [][Next]_vars /\ Fairness

-----------------------------------------------------------------------------
(* Properties *)

(* The application is told that a call is established, or reconnecting, only  *)
(* after the peer's INIT_ACK: late stream data, the timer and a SendInit that *)
(* races the answer never get there without it.                               *)
EstablishedAfterInitAck == InCall => receivedInitAck

(* Falling back always leads to a relay of the list: every deletion and every *)
(* switch between UDP and TCP leaves preferredRelay on one.                   *)
RelayToFallBackOn == preferredRelay \in endpoints /\ IsRelay(preferredRelay)

(* A call whose peer has become silent for good is given up for good. A fall- *)
(* back restarts the clock, a pending setEstablishedAt revives a failed call  *)
(* and SendInit may overwrite any state: none of them keeps it alive.         *)
SilentCallFails == <>[](connected /\ Intact => state = "FAILED")
=============================================================================
