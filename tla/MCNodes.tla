------------------------------- MODULE MCNodes --------------------------------
(* Two nodes with their tracker, a node's handling of instructions with every *)
(* order of its microtasks, and what a tracker reports of its nodes.  The     *)
(* machines share no state; a behaviour is one of them.  Reports are of three *)
(* nodes, two of them with round-trip times, one with a location and a second *)
(* stream part, or, while time goes on, of two in one stream part.            *)
EXTENDS TrackerNodes, InstructionHandling, TrackerReports

CONSTANTS a, b, c, x, y, p1, p2

VARIABLE machine

MCOffers == {<<a, b>>}

\* An instruction, one that replaces it, and one from a tracker of other
\* stream parts.
MCInstruction ==
  {[counter |-> 1, nodes |-> {p1}, expected |-> TRUE],
   [counter |-> 2, nodes |-> {p2}, expected |-> TRUE],
   [counter |-> 3, nodes |-> {p2}, expected |-> FALSE]}

MCPart == {<<x, 0>>, <<y, 0>>}
MCStreamOf == [p \in MCPart |-> p[1]]
MCWithin == {<<x, x>>, <<y, y>>, <<x, y>>}

\* With its sockets connected, no node has anything to do yet.
BothInit ==
  /\ self = a /\ HandlingInit /\ ReportsInit
  /\ \/ machine = "nodes" /\ NodesInit
     \/ machine \in {"handling", "pages", "data"} /\ NothingHappened /\ up = [n \in Node |-> <<>>]

BothNext ==
  /\ machine = "nodes" \/ UNCHANGED allVars
  /\ machine = "handling" \/ UNCHANGED handlingVars
  /\ machine \in {"pages", "data"} \/ UNCHANGED reportsVars
  /\ UNCHANGED machine
  /\ \/ machine = "nodes" /\ NodesNext
     \/ machine = "handling" /\ HandlingNext
     \/ machine = "pages" /\ ReportsNext /\ c \notin online'
        /\ rtts' = Empty /\ located' = Empty /\ overlays'[<<y, 0>>] = Empty
     \/ machine = "data" /\ ReportsNext /\ clock' = 0 /\ page' = Unknown
        /\ DOMAIN rtts' \subseteq {a, b} /\ DOMAIN located' \subseteq {a}
        /\ DOMAIN overlays'[<<y, 0>>] \subseteq {a}

\* The fair actions of the one machine are disabled in the first states of the others.
BothSpec ==
  /\ BothInit /\ [][BothNext]_<<allVars, handlingVars, reportsVars, machine>>
  /\ NodesFairness /\ HandlingFairness

\* The nodes and their tracker alone.
OnlyNodes == machine = "nodes" /\ BothSpec

-----------------------------------------------------------------------------
\* The nodes' neighbours are connected, and the steps of a node handle its instructions
\* one at a time, the newest at last.
NodesInv == NodesTypeOK /\ NeighborsAreConnected /\ HandlingInv
=============================================================================
