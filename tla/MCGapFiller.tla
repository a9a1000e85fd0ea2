----------------------------- MODULE MCGapFiller -----------------------------
(* What a subscription does with messages: the order it brings them into,  *)
(* filling gaps, on a short chain on which up to two gaps can be open one  *)
(* after the other (the fourth message has no reference, and the last one  *)
(* names a predecessor that nobody ever sees); and the way of one message  *)
(* from its publisher through another node to its readers.  A behaviour is *)
(* one of the two.                                                         *)
EXTENDS GapFiller, StreamMessages

VARIABLE machine

MCMessage ==
  {[number |-> 1, prev |-> NoRef], [number |-> 2, prev |-> 1], [number |-> 3, prev |-> 2],
   [number |-> 4, prev |-> NoRef], [number |-> 5, prev |-> 4], [number |-> 7, prev |-> 6]}

MCInit ==
  /\ Init /\ JourneyInit
  /\ \/ machine = "gaps" /\ original = Original("open", "none")
     \/ machine = "journey" /\ full

\* Only a message that announces a key is read by two subscriptions, all are read only
\* after the last hop, and the client is not destroyed in the behaviours where somebody
\* changes the stream.
JourneyStep ==
  /\ JourneyNext
  /\ receivers' # receivers \/ changes' > 0 => hops = MaxHops
  /\ original.newKey = NoNewKey => \A r, q \in Receiver : r = q \/ Waiting \in {receivers'[r], receivers'[q]}
  /\ ~(over' /\ changes' > 0)

MCNext ==
  /\ \/ machine = "gaps" /\ Next /\ UNCHANGED journeyVars
     \/ machine = "journey" /\ JourneyStep /\ UNCHANGED vars
  /\ UNCHANGED machine

MCSpec == MCInit /\ [][MCNext]_<<vars, journeyVars, machine>> /\ Fairness
=============================================================================
