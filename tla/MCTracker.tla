------------------------------ MODULE MCTracker ------------------------------
(* The tracker with a few interchangeable nodes, which report neighbours   *)
(* that take part (others are left out by update) and a counter that is    *)
(* outdated as soon as there was an instruction, or never.                 *)
EXTENDS Tracker, TLC

Symmetry == Permutations(Node)

MCNext ==
  \/ \E n \in Node, reported \in SUBSET DOMAIN nodes :
       n \notin reported /\ \E counter \in {0, MaxCounter} : Status(n, reported, counter)
  \/ \E n \in Node : Gone(n)
  \/ \E n \in Node : Call(n)
  \/ Form
  \/ Return
  \/ Send

MCSpec == TrackerInit /\ [][MCNext]_trackerVars
=============================================================================
