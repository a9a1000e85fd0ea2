------------------------------ MODULE MCWebRtc ------------------------------
(* Two nodes that connect to each other, and the sending over connections.  The *)
(* two machines share no state; a behaviour is one of either.                   *)
EXTENDS WebRtcEndpoint, WebRtcConnection

VARIABLE machine

Init == EndpointInit /\ ConnectionInit /\ machine \in {"endpoint", "connection"}

Next ==
  \/ machine = "endpoint" /\ EndpointNext /\ UNCHANGED <<connectionVars, machine>>
  \/ machine = "connection" /\ ConnectionNext /\ UNCHANGED <<endpointVars, machine>>

\* What is fair in one machine is disabled in the initial state of the other.
Spec ==
  /\ Init /\ [][Next]_<<endpointVars, connectionVars, machine>>
  /\ EndpointFairness /\ ConnectionFairness

\* The promises of connect and of send settle.
PromisesSettle == ConnectSettles /\ MessagesSettle
=============================================================================
