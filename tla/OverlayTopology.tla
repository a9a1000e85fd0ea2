--------------------------- MODULE OverlayTopology ---------------------------
(***************************************************************************)
(* The tracker's overlay graph of one stream part                          *)
(* (network-tracker/src/logic/OverlayTopology.ts): the neighbours of every *)
(* known node, and the cached set of nodes that have room for more.        *)
(*                                                                         *)
(* update and leave are single steps.  formInstructions runs to its end    *)
(* without yielding in the code; here it is a sequence of steps under the  *)
(* control of pc, during which no other operation starts.  A random pick   *)
(* or shuffle is a choice of any outcome.                                  *)
(***************************************************************************)
EXTENDS Integers, FiniteSets

CONSTANTS
  Node,         \* the nodes that may take part
  MaxNeighbors  \* maxNeighborsPerNode

ASSUME NodeAssumption == IsFiniteSet(Node)

ASSUME MaxNeighborsAssumption == MaxNeighbors \in Nat

VARIABLES
  nodes,    \* the neighbours of each known node
  open,     \* nodesWithOpenSlots
  pc,       \* where formInstructions is, "idle" when it does not run
  self,     \* the node formInstructions runs for
  targets,  \* its disconnectionTargets
  updated   \* its updatedNodes, the nodes that get an instruction

vars == <<nodes, open, pc, self, targets, updated>>

-----------------------------------------------------------------------------
Missing(n) == MaxNeighbors - Cardinality(nodes[n])

\* checkOpenSlots for the nodes in checked, when the graph becomes new.
CheckedOpenSlots(new, checked) ==
  {m \in DOMAIN new : IF m \in checked
                      THEN Cardinality(new[m]) < MaxNeighbors
                      ELSE m \in open}

\* The neighbours that n loses when its list becomes new.
Removed(n, new) == IF n \in DOMAIN nodes THEN nodes[n] \ new ELSE {}

\* update(n, reported): unknown nodes and n itself are left out of the list,
\* and the other ends of the added and removed links follow.
Update(n, reported) ==
  LET new     == (reported \cap DOMAIN nodes) \ {n}
      removed == Removed(n, new)
  IN  /\ nodes' = [m \in DOMAIN nodes \cup {n} |->
                     IF m = n THEN new
                     ELSE IF m \in new THEN nodes[m] \cup {n}
                     ELSE IF m \in removed THEN nodes[m] \ {n}
                     ELSE nodes[m]]
      /\ open' = CheckedOpenSlots(nodes', {n} \cup new \cup removed)

\* leave(n) of a known node.
Leave(n) ==
  /\ nodes' = [m \in DOMAIN nodes \ {n} |->
                 IF m \in nodes[n] THEN nodes[m] \ {n} ELSE nodes[m]]
  /\ open' = CheckedOpenSlots(nodes', nodes[n])

-----------------------------------------------------------------------------
(* formInstructions.                                                       *)

\* The call for a known node; a forced call instructs the node in any case.
Begin(n, forceGenerate) ==
  /\ pc = "idle"
  /\ n \in DOMAIN nodes
  /\ pc' = "trim"
  /\ self' = n
  /\ targets' = {}
  /\ updated' = IF forceGenerate THEN {n} ELSE {}
  /\ UNCHANGED <<nodes, open>>

\* Excess neighbours are dropped at random.
Trim ==
  /\ pc = "trim"
  /\ IF Missing(self) < 0
     THEN /\ \E reduced \in SUBSET nodes[self] :
               /\ Cardinality(reduced) = MaxNeighbors
               /\ Update(self, reduced)
          /\ updated' = updated \cup {self}
     ELSE UNCHANGED <<nodes, open, updated>>
  /\ pc' = "fill"
  /\ UNCHANGED <<self, targets>>

\* Mutant: the nodes at the other end of the new links are not instructed.
Fill_InstructsSelfOnly ==
  LET candidates == {m \in open : self \notin nodes[m]} \ {self}
  IN  /\ pc = "fill"
      /\ \/ /\ Missing(self) > 0 /\ candidates # {}
            /\ \E added \in SUBSET candidates :
                 /\ \/ Cardinality(added) = Missing(self)
                    \/ added = candidates /\ Cardinality(added) < Missing(self)
                 /\ Update(self, nodes[self] \cup added)
                 /\ updated' = updated \cup {self}
         \/ /\ Missing(self) <= 0 \/ candidates = {}
            /\ UNCHANGED <<nodes, open, updated>>
      /\ pc' = "choose"
      /\ UNCHANGED <<self, targets>>

\* Mutant: one slot is left open.
Fill_OneLess ==
  LET candidates == {m \in open : self \notin nodes[m]} \ {self}
  IN  /\ pc = "fill"
      /\ \/ /\ Missing(self) > 0 /\ candidates # {}
            /\ \E added \in SUBSET candidates :
                 /\ \/ Cardinality(added) = Missing(self) - 1
                    \/ added = candidates /\ Cardinality(added) < Missing(self)
                 /\ Update(self, nodes[self] \cup added)
                 /\ updated' = updated \cup {self} \cup added
         \/ /\ Missing(self) <= 0 \/ candidates = {}
            /\ UNCHANGED <<nodes, open, updated>>
      /\ pc' = "choose"
      /\ UNCHANGED <<self, targets>>

\* Open slots are filled with nodes that have one too.
Fill ==
  LET candidates == {m \in open : self \notin nodes[m]} \ {self}
  IN  /\ pc = "fill"
      /\ \/ /\ Missing(self) > 0 /\ candidates # {}
            /\ \E added \in SUBSET candidates :
                 /\ \/ Cardinality(added) = Missing(self)
                    \/ added = candidates /\ Cardinality(added) < Missing(self)
                 /\ Update(self, nodes[self] \cup added)
                 /\ updated' = updated \cup {self} \cup added
         \/ /\ Missing(self) <= 0 \/ candidates = {}
            /\ UNCHANGED <<nodes, open, updated>>
      /\ pc' = "choose"
      /\ UNCHANGED <<self, targets>>

\* With two or more slots left, full nodes become disconnection targets.
ChooseTargets ==
  /\ pc = "choose"
  /\ IF Missing(self) > 1
     THEN /\ pc' = "relink"
          /\ targets' = {m \in DOMAIN nodes \ {self} :
                           Missing(m) <= 0 /\ self \notin nodes[m]}
     ELSE /\ pc' = "finish"
          /\ UNCHANGED targets
  /\ UNCHANGED <<nodes, open, self, updated>>

\* The link of n1 and n2 is replaced by links of both to self.
Relinked(n1, n2) ==
  [nodes EXCEPT ![n1]   = (@ \ {n2}) \cup {self},
                ![n2]   = (@ \ {n1}) \cup {self},
                ![self] = @ \cup {n1, n2}]

\* The targets that remain once n1 was taken and linked with n2.
RemainingTargets(n1, n2) == targets \ {n1, n2}

\* Mutant: one open slot is enough to take a target.
Relink_OneSlot(n1) ==
  LET n2candidates == {n \in nodes[n1] : self \notin nodes[n]}
  IN  /\ pc = "relink"
      /\ Missing(self) > 0
      /\ n1 \in targets
      /\ \/ /\ n2candidates = {}
            /\ targets' = targets \ {n1}
            /\ UNCHANGED <<nodes, updated>>
         \/ \E n2 \in n2candidates :
              /\ targets' = RemainingTargets(n1, n2)
              /\ nodes' = Relinked(n1, n2)
              /\ updated' = updated \cup {self, n1, n2}
      /\ UNCHANGED <<open, pc, self>>

\* An iteration of the loop takes the target n1.
Relink(n1) ==
  LET n2candidates == {n \in nodes[n1] : self \notin nodes[n]}
  IN  /\ pc = "relink"
      /\ Missing(self) > 1
      /\ n1 \in targets
      /\ \/ /\ n2candidates = {}
            /\ targets' = targets \ {n1}
            /\ UNCHANGED <<nodes, updated>>
         \/ \E n2 \in n2candidates :
              /\ targets' = RemainingTargets(n1, n2)
              /\ nodes' = Relinked(n1, n2)
              /\ updated' = updated \cup {self, n1, n2}
      /\ UNCHANGED <<open, pc, self>>

RelinkDone ==
  /\ pc = "relink"
  /\ Missing(self) <= 1 \/ targets = {}
  /\ pc' = "finish"
  /\ UNCHANGED <<nodes, open, self, targets, updated>>

\* The result at the end of the call: the neighbours of every node in updated.
Instructions == [n \in updated |-> nodes[n]]

Finish ==
  /\ pc = "finish"
  /\ open' = CheckedOpenSlots(nodes, {self})
  /\ pc' = "idle"
  /\ targets' = {}
  /\ updated' = {}
  /\ UNCHANGED <<nodes, self>>

FormStep ==
  \/ Trim
  \/ Fill
  \/ ChooseTargets
  \/ \E n1 \in targets : Relink(n1)
  \/ RelinkDone

-----------------------------------------------------------------------------
Init ==
  /\ nodes = [n \in {} |-> {}]
  /\ open = {}
  /\ pc = "idle"
  /\ self \in Node
  /\ targets = {}
  /\ updated = {}

Idle == pc = "idle" /\ UNCHANGED <<pc, self, targets, updated>>

Next ==
  \/ \E n \in Node, reported \in SUBSET Node : Idle /\ Update(n, reported)
  \/ \E n \in DOMAIN nodes : Idle /\ Leave(n)
  \/ \E n \in Node, forceGenerate \in BOOLEAN : Begin(n, forceGenerate)
  \/ FormStep
  \/ Finish

Spec == Init /\ [][Next]_vars

-----------------------------------------------------------------------------
(* Properties.                                                             *)

TypeOK ==
  /\ DOMAIN nodes \subseteq Node
  /\ nodes \in [DOMAIN nodes -> SUBSET Node]
  /\ open \subseteq DOMAIN nodes
  /\ pc \in {"idle", "trim", "fill", "choose", "relink", "finish"}
  /\ self \in Node
  /\ pc # "idle" => self \in DOMAIN nodes
  /\ targets \subseteq IF pc = "idle" THEN {} ELSE DOMAIN nodes
  /\ pc # "idle" => updated \subseteq DOMAIN nodes

\* Neighbour lists are commutative (tracker-algorithm.md) and name known nodes
\* only, between any two assignments of formInstructions as well.
Symmetric ==
  \A n \in DOMAIN nodes : \A m \in nodes[n] :
    m \in DOMAIN nodes /\ n \in nodes[m]

\* The invariant formInstructions checks: no node is a neighbour of itself.
NoSelfNeighbor == \A n \in DOMAIN nodes : n \notin nodes[n]

\* The cached nodesWithOpenSlots is exact, except for the node whose call of
\* formInstructions has not reached its final checkOpenSlots.
OpenSlotsExact ==
  \A n \in DOMAIN nodes : (pc = "idle" \/ n # self) =>
    (n \in open <=> Cardinality(nodes[n]) < MaxNeighbors)

\* The comment before the loop: when slots are left after filling, every node
\* that is not yet a neighbour is full.
OthersAreFull ==
  (pc \in {"choose", "relink"} /\ Missing(self) > 0) =>
    \A n \in DOMAIN nodes \ {self} : self \in nodes[n] \/ Missing(n) <= 0

\* The graph and the cache of open slots agree at every step of every operation.
OverlayInv == TypeOK /\ Symmetric /\ OpenSlotsExact /\ OthersAreFull

\* A disconnection target is never self nor already linked to self, however the
\* earlier iterations went.
TargetsUnlinked == pc = "relink" => self \notin targets /\ targets \cap nodes[self] = {}

\* formInstructions leaves its node within the limit, and with at most one
\* open slot unless no two linked nodes are both strangers to it.
WellConnected ==
  pc = "finish" =>
    /\ Missing(self) >= 0
    /\ Missing(self) > 1 =>
         ~\E n1 \in DOMAIN nodes \ {self} : \E n2 \in nodes[n1] :
             n2 # self /\ self \notin nodes[n1] /\ self \notin nodes[n2]

\* No step of formInstructions takes a node above the limit, or further above
\* it: a node that is split apart ends with as many neighbours as it had.
FormKeepsLimit ==
  [][pc # "idle" =>
       \A n \in DOMAIN nodes :
         \/ Cardinality(nodes'[n]) <= MaxNeighbors
         \/ Cardinality(nodes'[n]) <= Cardinality(nodes[n])]_vars

\* Both ends of every link that formInstructions adds get an instruction.
LinkedAreInstructed ==
  [][pc # "idle" =>
       \A n \in DOMAIN nodes : ~(nodes'[n] \subseteq nodes[n]) => n \in updated']_vars
=============================================================================
