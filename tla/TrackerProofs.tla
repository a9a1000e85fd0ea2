----------------------------- MODULE TrackerProofs -----------------------------
(***************************************************************************)
(* Proofs about the tracker of one stream part, the overlay graph it       *)
(* keeps, the nodes around it, a node's handling of its instructions, and  *)
(* the reports of a tracker, for every finite set of nodes, every maximum  *)
(* number of neighbours and any statuses.                                  *)
(*                                                                         *)
(* Symmetry, the absence of self-links and the separation of disconnection *)
(* targets from self depend on each other: the loop of formInstructions    *)
(* splits n1 and n2 apart soundly only because both differ from self.      *)
(*                                                                         *)
(* The tracker calls the overlay as the overlay's own specification says   *)
(* (TrackerRunsOverlay), so that what is proved of the overlay holds of    *)
(* the tracker's.  Who is owed an answer gets one because a forced call    *)
(* instructs its node, and a call for a node without neighbours finds it   *)
(* alone, fills one of its slots, or takes a full stranger apart.          *)
(*                                                                         *)
(* Whole nodes leave the tracker to its own steps (NodesRunTracker), so    *)
(* that all of this holds with them, whatever their sockets do.            *)
(***************************************************************************)
EXTENDS MCNodes, FiniteSetTheorems, SequenceTheorems, TLAPS

-----------------------------------------------------------------------------
(* The overlay.                                                            *)

\* The graph part of the invariant, which formInstructions relies on.
GraphInv ==
  /\ TypeOK
  /\ Symmetric
  /\ NoSelfNeighbor
  /\ TargetsUnlinked

\* The overlay starts empty.
THEOREM InitGraph == Init => GraphInv
BY DEF Init, GraphInv, TypeOK, Symmetric, NoSelfNeighbor, TargetsUnlinked

\* update keeps the graph symmetric, over known nodes and without self-links.
LEMMA UpdateGraph ==
  ASSUME TypeOK, Symmetric, NoSelfNeighbor,
         NEW n \in Node, NEW reported \in SUBSET Node, Update(n, reported)
  PROVE  /\ DOMAIN nodes' = DOMAIN nodes \cup {n}
         /\ nodes' \in [DOMAIN nodes' -> SUBSET Node]
         /\ open' \subseteq DOMAIN nodes'
         /\ Symmetric' /\ NoSelfNeighbor'
<1> DEFINE new == (reported \cap DOMAIN nodes) \ {n}
           removed == Removed(n, new)
<1>1. nodes' = [m \in DOMAIN nodes \cup {n} |->
                  IF m = n THEN new
                  ELSE IF m \in new THEN nodes[m] \cup {n}
                  ELSE IF m \in removed THEN nodes[m] \ {n}
                  ELSE nodes[m]]
  BY DEF Update
<1>2. open' \subseteq DOMAIN nodes'
  BY DEF Update, CheckedOpenSlots
<1>3. new \subseteq DOMAIN nodes \ {n} /\ new \subseteq Node
  BY DEF TypeOK
<1>4. \A m \in DOMAIN nodes \ {n} : m \notin new => (m \in removed <=> n \in nodes[m])
  BY DEF Removed, Symmetric, TypeOK
<1> HIDE DEF new, removed
<1>5. /\ DOMAIN nodes' = DOMAIN nodes \cup {n}
      /\ nodes'[n] = new
      /\ \A m \in DOMAIN nodes \ {n} :
           nodes'[m] = IF m \in new THEN nodes[m] \cup {n} ELSE nodes[m] \ {n}
  <2>1. ASSUME NEW m \in DOMAIN nodes \ {n}
        PROVE  nodes'[m] = IF m \in new THEN nodes[m] \cup {n} ELSE nodes[m] \ {n}
    BY <1>1, <1>4
  <2> QED
    BY <1>1, <2>1
<1>6. nodes' \in [DOMAIN nodes' -> SUBSET Node]
  <2>1. \A m \in DOMAIN nodes' : nodes'[m] \in SUBSET Node
    BY <1>3, <1>5 DEF TypeOK
  <2> QED
    BY <1>1, <2>1
<1>7. Symmetric'
  <2> SUFFICES ASSUME NEW m \in DOMAIN nodes', NEW k \in nodes'[m]
               PROVE  k \in DOMAIN nodes' /\ m \in nodes'[k]
    BY DEF Symmetric
  <2>1. CASE m = n
    BY <2>1, <1>3, <1>5
  <2>2. CASE m # n /\ k = n
    BY <2>2, <1>5
  <2>3. CASE m # n /\ k # n
    <3>1. m \in DOMAIN nodes \ {n} /\ k \in nodes[m]
      BY <2>3, <1>5
    <3>2. k \in DOMAIN nodes \ {n} /\ m \in nodes[k]
      BY <2>3, <3>1 DEF Symmetric
    <3> QED
      BY <2>3, <3>2, <1>5
  <2> QED
    BY <2>1, <2>2, <2>3
<1>8. NoSelfNeighbor'
  BY <1>3, <1>5 DEF NoSelfNeighbor
<1> QED
  BY <1>2, <1>5, <1>6, <1>7, <1>8

\* So does leave.
LEMMA LeaveGraph ==
  ASSUME TypeOK, Symmetric, NoSelfNeighbor, NEW n \in DOMAIN nodes, Leave(n)
  PROVE  /\ DOMAIN nodes' = DOMAIN nodes \ {n}
         /\ nodes' \in [DOMAIN nodes' -> SUBSET Node]
         /\ open' \subseteq DOMAIN nodes'
         /\ Symmetric' /\ NoSelfNeighbor'
<1>1. /\ DOMAIN nodes' = DOMAIN nodes \ {n}
      /\ \A m \in DOMAIN nodes' :
           nodes'[m] = IF m \in nodes[n] THEN nodes[m] \ {n} ELSE nodes[m]
  BY DEF Leave
<1>2. \A m \in DOMAIN nodes' : nodes'[m] = nodes[m] \ {n}
  BY <1>1 DEF Symmetric
<1>3. nodes' \in [DOMAIN nodes' -> SUBSET Node]
  <2>1. \A m \in DOMAIN nodes' : nodes'[m] \in SUBSET Node
    BY <1>1, <1>2 DEF TypeOK
  <2> QED
    BY <1>1, <2>1 DEF Leave
<1>4. open' \subseteq DOMAIN nodes'
  BY DEF Leave, CheckedOpenSlots
<1>5. Symmetric' /\ NoSelfNeighbor'
  BY <1>1, <1>2 DEF Symmetric, NoSelfNeighbor
<1> QED
  BY <1>1, <1>3, <1>4, <1>5

\* An iteration of the loop splits two linked strangers of self apart.
LEMMA RelinkGraph ==
  ASSUME GraphInv, NEW n1 \in targets, Relink(n1)
  PROVE  GraphInv'
<1>1. /\ pc = "relink" /\ pc' = pc /\ self' = self /\ open' = open
      /\ self \in DOMAIN nodes /\ n1 \in DOMAIN nodes
  BY DEF Relink, GraphInv, TypeOK
<1>2. n1 # self /\ self \notin nodes[n1] /\ n1 \notin nodes[self]
  BY <1>1 DEF GraphInv, TargetsUnlinked, Symmetric
<1>3. CASE UNCHANGED <<nodes, updated>> /\ targets' = targets \ {n1}
  BY <1>1, <1>3 DEF GraphInv, TypeOK, Symmetric, NoSelfNeighbor, TargetsUnlinked
<1>4. ASSUME NEW n2 \in {n \in nodes[n1] : self \notin nodes[n]},
             targets' = targets \ {n1, n2},
             nodes' = Relinked(n1, n2),
             updated' = updated \cup {self, n1, n2}
      PROVE  GraphInv'
  <2>1. /\ n2 \in DOMAIN nodes /\ n1 \in nodes[n2] /\ n2 # n1
        /\ n2 # self /\ self \notin nodes[n2] /\ n2 \notin nodes[self]
    BY <1>1, <1>2 DEF GraphInv, Symmetric, NoSelfNeighbor
  <2>2. /\ DOMAIN nodes' = DOMAIN nodes
        /\ \A m \in DOMAIN nodes :
             nodes'[m] = IF m = self THEN nodes[m] \cup {n1, n2}
                         ELSE IF m = n1 THEN (nodes[m] \ {n2}) \cup {self}
                         ELSE IF m = n2 THEN (nodes[m] \ {n1}) \cup {self}
                         ELSE nodes[m]
    BY <1>1, <1>2, <1>4, <2>1 DEF Relinked, GraphInv, TypeOK
  <2>3. TypeOK'
    <3>1. DOMAIN nodes \subseteq Node /\ self \in Node /\ n1 \in Node /\ n2 \in Node
      BY <1>1, <2>1 DEF GraphInv, TypeOK
    <3>2. \A m \in DOMAIN nodes : nodes'[m] \in SUBSET Node
      BY <2>2, <3>1 DEF GraphInv, TypeOK
    <3>3. nodes' \in [DOMAIN nodes' -> SUBSET Node]
      BY <1>4, <2>2, <3>2 DEF Relinked
    <3> QED
      BY <1>1, <1>4, <2>1, <2>2, <3>1, <3>3 DEF GraphInv, TypeOK
  <2>4. Symmetric'
    <3> SUFFICES ASSUME NEW m \in DOMAIN nodes, NEW k \in nodes'[m]
                 PROVE  k \in DOMAIN nodes /\ m \in nodes'[k]
      BY <2>2 DEF Symmetric
    <3>1. CASE m = self \/ k = self
      BY <3>1, <1>1, <1>2, <2>1, <2>2 DEF GraphInv, Symmetric, NoSelfNeighbor
    <3>2. CASE m # self /\ k # self
      <4>1. k \in nodes[m] /\ {m, k} # {n1, n2}
        BY <3>2, <2>1, <2>2
      <4>2. k \in DOMAIN nodes /\ m \in nodes[k]
        BY <4>1 DEF GraphInv, Symmetric
      <4> QED
        BY <3>2, <4>1, <4>2, <2>2
    <3> QED
      BY <3>1, <3>2
  <2>5. NoSelfNeighbor'
    BY <1>1, <1>2, <2>1, <2>2 DEF GraphInv, NoSelfNeighbor
  <2>6. TargetsUnlinked'
    BY <1>1, <1>4, <2>2 DEF GraphInv, TargetsUnlinked
  <2> QED
    BY <2>3, <2>4, <2>5, <2>6 DEF GraphInv
<1> QED
  BY <1>3, <1>4 DEF Relink, RemainingTargets

\* Every operation keeps the graph part of the invariant.
THEOREM NextGraph == GraphInv /\ [Next]_vars => GraphInv'
<1> SUFFICES ASSUME GraphInv, [Next]_vars PROVE GraphInv'
  OBVIOUS
<1>1. ASSUME NEW n \in Node, NEW reported \in SUBSET Node, Idle, Update(n, reported)
      PROVE  GraphInv'
  <2>1. /\ DOMAIN nodes' = DOMAIN nodes \cup {n}
        /\ nodes' \in [DOMAIN nodes' -> SUBSET Node]
        /\ open' \subseteq DOMAIN nodes'
        /\ Symmetric' /\ NoSelfNeighbor'
    BY <1>1, UpdateGraph DEF GraphInv
  <2> QED
    BY <1>1, <2>1 DEF GraphInv, Idle, TypeOK, TargetsUnlinked
<1>2. ASSUME NEW n \in DOMAIN nodes, Idle, Leave(n)
      PROVE  GraphInv'
  <2>1. /\ DOMAIN nodes' = DOMAIN nodes \ {n}
        /\ nodes' \in [DOMAIN nodes' -> SUBSET Node]
        /\ open' \subseteq DOMAIN nodes'
        /\ Symmetric' /\ NoSelfNeighbor'
    BY <1>2, LeaveGraph DEF GraphInv
  <2> QED
    BY <1>2, <2>1 DEF GraphInv, Idle, TypeOK, TargetsUnlinked
<1>3. ASSUME NEW n \in Node, NEW force \in BOOLEAN, Begin(n, force)
      PROVE  GraphInv'
  BY <1>3 DEF GraphInv, Begin, TypeOK, Symmetric, NoSelfNeighbor, TargetsUnlinked
<1>4. CASE Trim
  <2>1. pc = "trim" /\ pc' = "fill" /\ self' = self /\ targets' = targets
        /\ self \in DOMAIN nodes /\ self \in Node
    BY <1>4 DEF Trim, GraphInv, TypeOK
  <2>2. CASE UNCHANGED <<nodes, open, updated>>
    BY <2>1, <2>2 DEF GraphInv, TypeOK, Symmetric, NoSelfNeighbor, TargetsUnlinked
  <2>3. ASSUME NEW reduced \in SUBSET nodes[self], Update(self, reduced),
               updated' = updated \cup {self}
        PROVE  GraphInv'
    <3>1. /\ DOMAIN nodes' = DOMAIN nodes \cup {self}
          /\ nodes' \in [DOMAIN nodes' -> SUBSET Node]
          /\ open' \subseteq DOMAIN nodes'
          /\ Symmetric' /\ NoSelfNeighbor'
      <4>1. reduced \in SUBSET Node
        BY <2>1 DEF GraphInv, TypeOK
      <4> QED
        BY <2>1, <2>3, <4>1, UpdateGraph DEF GraphInv
    <3> QED
      BY <2>1, <2>3, <3>1 DEF GraphInv, TypeOK, TargetsUnlinked
  <2> QED
    BY <1>4, <2>2, <2>3 DEF Trim
<1>5. CASE Fill
  <2>1. pc = "fill" /\ pc' = "choose" /\ self' = self /\ targets' = targets
        /\ self \in DOMAIN nodes /\ self \in Node
    BY <1>5 DEF Fill, GraphInv, TypeOK
  <2>2. CASE UNCHANGED <<nodes, open, updated>>
    BY <2>1, <2>2 DEF GraphInv, TypeOK, Symmetric, NoSelfNeighbor, TargetsUnlinked
  <2>3. ASSUME NEW added \in SUBSET open, Update(self, nodes[self] \cup added),
               updated' = updated \cup {self} \cup added
        PROVE  GraphInv'
    <3>1. /\ DOMAIN nodes' = DOMAIN nodes \cup {self}
          /\ nodes' \in [DOMAIN nodes' -> SUBSET Node]
          /\ open' \subseteq DOMAIN nodes'
          /\ Symmetric' /\ NoSelfNeighbor'
      <4>1. nodes[self] \cup added \in SUBSET Node
        BY <2>1 DEF GraphInv, TypeOK
      <4> QED
        BY <2>1, <2>3, <4>1, UpdateGraph DEF GraphInv
    <3> QED
      BY <2>1, <2>3, <3>1 DEF GraphInv, TypeOK, TargetsUnlinked
  <2> QED
    BY <1>5, <2>2, <2>3 DEF Fill
<1>6. CASE ChooseTargets
  <2>1. UNCHANGED <<nodes, open, self, updated>> /\ pc' \in {"relink", "finish"}
        /\ pc = "choose"
    BY <1>6 DEF ChooseTargets
  <2>2. targets' \subseteq DOMAIN nodes
    BY <1>6 DEF ChooseTargets, GraphInv, TypeOK
  <2>3. pc' = "relink" => self \notin targets' /\ targets' \cap nodes[self] = {}
    BY <1>6 DEF ChooseTargets, GraphInv, Symmetric, TypeOK
  <2> QED
    BY <2>1, <2>2, <2>3 DEF GraphInv, TypeOK, Symmetric, NoSelfNeighbor, TargetsUnlinked
<1>7. ASSUME NEW n1 \in targets, Relink(n1) PROVE GraphInv'
  BY <1>7, RelinkGraph
<1>8. CASE RelinkDone \/ Finish
  BY <1>8 DEF RelinkDone, Finish, CheckedOpenSlots, GraphInv, TypeOK, Symmetric,
     NoSelfNeighbor, TargetsUnlinked
<1>9. CASE UNCHANGED vars
  BY <1>9 DEF vars, GraphInv, TypeOK, Symmetric, NoSelfNeighbor, TargetsUnlinked
<1> QED
  BY <1>1, <1>2, <1>3, <1>4, <1>5, <1>6, <1>7, <1>8, <1>9 DEF Next, FormStep

\* The overlay is always well-typed.
THEOREM OverlayTypeOK == Spec => []TypeOK
<1>1. GraphInv => TypeOK
  BY DEF GraphInv
<1> QED
  BY <1>1, InitGraph, NextGraph, PTL DEF Spec

\* Neighbour lists are commutative at every point, for any number of nodes.
THEOREM AlwaysSymmetric == Spec => []Symmetric
<1>1. GraphInv => Symmetric
  BY DEF GraphInv
<1> QED
  BY <1>1, InitGraph, NextGraph, PTL DEF Spec

\* The exception at the end of formInstructions is unreachable: no node ever
\* becomes its own neighbour.
THEOREM NeverSelfNeighbor == Spec => []NoSelfNeighbor
<1>1. GraphInv => NoSelfNeighbor
  BY DEF GraphInv
<1> QED
  BY <1>1, InitGraph, NextGraph, PTL DEF Spec

-----------------------------------------------------------------------------
(* The cache of open slots, and what formInstructions concludes from it.   *)

SlotInv ==
  /\ GraphInv
  /\ OpenSlotsExact
  /\ OthersAreFull

\* Neighbour sets are finite.
LEMMA FiniteNeighbors ==
  ASSUME TypeOK, NEW n \in DOMAIN nodes
  PROVE  IsFiniteSet(nodes[n]) /\ Cardinality(nodes[n]) \in Nat
<1>1. nodes[n] \subseteq Node
  BY DEF TypeOK
<1> QED
  BY <1>1, NodeAssumption, FS_Subset, FS_CardinalityType

\* After update(n, ...) the cache is exact for n, and for every other node it
\* was exact for.
LEMMA UpdateSlots ==
  ASSUME NEW n \in Node, NEW reported \in SUBSET Node, Update(n, reported),
         NEW m \in DOMAIN nodes',
         m # n => (m \in open <=> Cardinality(nodes[m]) < MaxNeighbors)
  PROVE  m \in open' <=> Cardinality(nodes'[m]) < MaxNeighbors
<1> DEFINE new == (reported \cap DOMAIN nodes) \ {n}
           removed == Removed(n, new)
<1>1. /\ nodes' = [k \in DOMAIN nodes \cup {n} |->
                     IF k = n THEN new
                     ELSE IF k \in new THEN nodes[k] \cup {n}
                     ELSE IF k \in removed THEN nodes[k] \ {n}
                     ELSE nodes[k]]
      /\ open' = CheckedOpenSlots(nodes', {n} \cup new \cup removed)
  BY DEF Update
<1> HIDE DEF new, removed
<1>2. CASE m \in {n} \cup new \cup removed
  BY <1>1, <1>2 DEF CheckedOpenSlots
<1>3. CASE m \notin {n} \cup new \cup removed
  <2>1. nodes'[m] = nodes[m] /\ m \in DOMAIN nodes'
    BY <1>1, <1>3
  <2>2. m \in open' <=> m \in open
    BY <1>1, <1>3 DEF CheckedOpenSlots
  <2> QED
    BY <2>1, <2>2, <1>3
<1> QED
  BY <1>2, <1>3

\* Swapping one element for another keeps the size of a finite set.
LEMMA SwapCardinality ==
  ASSUME NEW S, IsFiniteSet(S), NEW u \in S, NEW w, w \notin S
  PROVE  Cardinality((S \ {u}) \cup {w}) = Cardinality(S)
<1>1. IsFiniteSet(S \ {u}) /\ Cardinality(S \ {u}) = Cardinality(S) - 1
  BY FS_RemoveElement
<1>2. Cardinality((S \ {u}) \cup {w}) = Cardinality(S \ {u}) + 1
  BY <1>1, FS_AddElement
<1>3. Cardinality(S) \in Nat
  BY FS_CardinalityType
<1> QED
  BY <1>1, <1>2, <1>3

\* A loop iteration leaves the number of neighbours of all but self alone.
LEMMA RelinkSizes ==
  ASSUME GraphInv, NEW n1 \in targets, Relink(n1), NEW m \in DOMAIN nodes \ {self}
  PROVE  /\ Cardinality(nodes'[m]) = Cardinality(nodes[m])
         /\ nodes[m] # nodes'[m] => self \in nodes'[m]
         /\ self \in nodes[m] => self \in nodes'[m]
         /\ DOMAIN nodes' = DOMAIN nodes
<1>1. CASE nodes' = nodes
  BY <1>1
<1>2. ASSUME NEW n2 \in {n \in nodes[n1] : self \notin nodes[n]}, nodes' = Relinked(n1, n2)
      PROVE  /\ Cardinality(nodes'[m]) = Cardinality(nodes[m])
             /\ nodes[m] # nodes'[m] => self \in nodes'[m]
             /\ self \in nodes[m] => self \in nodes'[m]
             /\ DOMAIN nodes' = DOMAIN nodes
  <2>1. pc = "relink" /\ self \in DOMAIN nodes /\ n1 \in DOMAIN nodes /\ n1 # self
    BY DEF Relink, GraphInv, TypeOK, TargetsUnlinked
  <2>2. n2 \in DOMAIN nodes /\ n1 \in nodes[n2] /\ n2 # n1 /\ n2 # self /\ self \notin nodes[n1]
    BY <2>1 DEF GraphInv, Symmetric, NoSelfNeighbor, TargetsUnlinked
  <2>3. nodes'[m] = IF m = n1 THEN (nodes[m] \ {n2}) \cup {self}
                    ELSE IF m = n2 THEN (nodes[m] \ {n1}) \cup {self}
                    ELSE nodes[m]
    BY <1>2, <2>1, <2>2 DEF Relinked, GraphInv, TypeOK
  <2>4. IsFiniteSet(nodes[m])
    BY FiniteNeighbors DEF GraphInv
  <2>5. Cardinality(nodes'[m]) = Cardinality(nodes[m])
    BY <2>2, <2>3, <2>4, SwapCardinality
  <2> QED
    BY <1>2, <2>3, <2>5 DEF Relinked
<1> QED
  BY <1>1, <1>2 DEF Relink

\* An empty overlay has no slots to be wrong about.
THEOREM InitSlots == Init => SlotInv
BY InitGraph DEF Init, SlotInv, OpenSlotsExact, OthersAreFull

\* A node outside the cache is full.
LEMMA NotOpenIsFull ==
  ASSUME GraphInv, OpenSlotsExact, NEW n \in DOMAIN nodes, pc = "idle" \/ n # self,
         n \notin open
  PROVE  Missing(n) <= 0
<1>1. ~(Cardinality(nodes[n]) < MaxNeighbors) /\ Cardinality(nodes[n]) \in Nat
  BY FiniteNeighbors DEF OpenSlotsExact, GraphInv
<1> QED
  BY <1>1, MaxNeighborsAssumption DEF Missing

\* When filling is over, either self is full or no stranger has room.
LEMMA FillSlots ==
  ASSUME SlotInv, Fill
  PROVE  OpenSlotsExact' /\ OthersAreFull'
<1>1. pc = "fill" /\ pc' = "choose" /\ self' = self /\ self \in DOMAIN nodes /\ self \in Node
  BY DEF Fill, SlotInv, GraphInv, TypeOK
<1> DEFINE candidates == {m \in open : self \notin nodes[m]} \ {self}
<1>2. \A n \in DOMAIN nodes \ {self} :
        n \in candidates \/ self \in nodes[n] \/ Missing(n) <= 0
  BY NotOpenIsFull DEF SlotInv
<1>3. CASE /\ Missing(self) <= 0 \/ candidates = {}
           /\ UNCHANGED <<nodes, open>>
  <2>1. OpenSlotsExact'
    BY <1>1, <1>3 DEF SlotInv, OpenSlotsExact
  <2>2. CASE candidates = {}
    BY <1>1, <1>2, <1>3, <2>1, <2>2 DEF OthersAreFull, Missing
  <2>3. CASE Missing(self) <= 0
    <3>1. Missing(self) \in Int
      BY <1>1, FiniteNeighbors, MaxNeighborsAssumption DEF Missing, SlotInv, GraphInv
    <3>2. Missing(self)' = Missing(self)
      BY <1>1, <1>3 DEF Missing
    <3> QED
      BY <1>1, <2>1, <2>3, <3>1, <3>2 DEF OthersAreFull
  <2> QED
    BY <1>3, <2>1, <2>2, <2>3
<1>4. ASSUME NEW added \in SUBSET candidates,
             \/ Cardinality(added) = Missing(self)
             \/ added = candidates,
             Update(self, nodes[self] \cup added)
      PROVE  OpenSlotsExact' /\ OthersAreFull'
  <2>1. nodes[self] \cup added \subseteq DOMAIN nodes \ {self}
    BY <1>1 DEF SlotInv, GraphInv, TypeOK, Symmetric, NoSelfNeighbor
  <2>2. nodes[self] \cup added \in SUBSET Node
    BY <2>1 DEF SlotInv, GraphInv, TypeOK
  <2>3. OpenSlotsExact'
    <3>1. DOMAIN nodes' = DOMAIN nodes \cup {self}
      BY <1>4 DEF Update
    <3> SUFFICES ASSUME NEW m \in DOMAIN nodes'
                 PROVE  m \in open' <=> Cardinality(nodes'[m]) < MaxNeighbors
      BY DEF OpenSlotsExact
    <3>2. m # self => (m \in open <=> Cardinality(nodes[m]) < MaxNeighbors)
      BY <3>1, <1>1 DEF SlotInv, OpenSlotsExact
    <3> QED
      BY <1>1, <1>4, <2>2, <3>2, UpdateSlots
  <2>4. /\ DOMAIN nodes' = DOMAIN nodes
        /\ nodes'[self] = nodes[self] \cup added
        /\ \A n \in DOMAIN nodes \ {self} :
             nodes'[n] = IF n \in nodes[self] \cup added THEN nodes[n] \cup {self}
                         ELSE nodes[n]
    <3>1. ((nodes[self] \cup added) \cap DOMAIN nodes) \ {self} = nodes[self] \cup added
      BY <2>1
    <3>2. Removed(self, nodes[self] \cup added) = {}
      BY DEF Removed
    <3> QED
      BY <1>1, <1>4, <3>1, <3>2 DEF Update
  <2>5. CASE Cardinality(added) = Missing(self)
    <3>1. nodes[self] \cap added = {}
      BY <1>1 DEF SlotInv, GraphInv, Symmetric
    <3>2. IsFiniteSet(nodes[self]) /\ IsFiniteSet(added)
      BY <1>1, <2>2, FiniteNeighbors, NodeAssumption, FS_Subset DEF SlotInv, GraphInv
    <3>3. Cardinality(nodes[self] \cap added) = 0
      BY <3>1, FS_EmptySet
    <3>4. Cardinality(nodes[self] \cup added) = Cardinality(nodes[self]) + Cardinality(added)
      <4>1. Cardinality(nodes[self] \cup added)
              = Cardinality(nodes[self]) + Cardinality(added) - Cardinality(nodes[self] \cap added)
        BY <3>2, FS_Union
      <4>2. Cardinality(nodes[self]) \in Nat /\ Cardinality(added) \in Nat
        BY <3>2, FS_CardinalityType
      <4> QED
        BY <3>3, <4>1, <4>2
    <3>5. Missing(self)' = 0
      <4>1. Cardinality(nodes[self]) \in Nat
        BY <3>2, FS_CardinalityType
      <4> QED
        BY <1>1, <2>4, <2>5, <3>4, <4>1, MaxNeighborsAssumption DEF Missing
    <3> QED
      BY <2>3, <3>5 DEF OthersAreFull
  <2>6. CASE added = candidates
    <3> SUFFICES ASSUME NEW n \in DOMAIN nodes \ {self}
                 PROVE  self \in nodes'[n] \/ Missing(n)' <= 0
      BY <1>1, <2>3, <2>4 DEF OthersAreFull
    <3>1. CASE n \in candidates \/ self \in nodes[n]
      BY <3>1, <2>4, <2>6
    <3>2. CASE n \notin candidates /\ self \notin nodes[n]
      <4>1. n \notin nodes[self] \cup added
        BY <1>1, <2>6, <3>2 DEF SlotInv, GraphInv, Symmetric
      <4>2. nodes'[n] = nodes[n] /\ Missing(n) <= 0
        BY <4>1, <1>2, <2>4, <3>2
      <4> QED
        BY <4>2 DEF Missing
    <3> QED
      BY <3>1, <3>2
  <2> QED
    BY <1>4, <2>5, <2>6
<1> QED
  BY <1>3, <1>4 DEF Fill

\* Every operation keeps the cache exact.
THEOREM NextSlots == SlotInv /\ [Next]_vars => SlotInv'
<1> SUFFICES ASSUME SlotInv, [Next]_vars PROVE SlotInv'
  OBVIOUS
<1>0. GraphInv /\ GraphInv'
  BY NextGraph DEF SlotInv
<1> SUFFICES OpenSlotsExact' /\ OthersAreFull'
  BY <1>0 DEF SlotInv
<1>1. ASSUME NEW n \in Node, NEW reported \in SUBSET Node, Idle, Update(n, reported)
      PROVE  OpenSlotsExact' /\ OthersAreFull'
  <2>1. DOMAIN nodes' = DOMAIN nodes \cup {n} /\ pc = "idle" /\ pc' = "idle"
    BY <1>1 DEF Update, Idle
  <2>2. ASSUME NEW m \in DOMAIN nodes'
        PROVE  m \in open' <=> Cardinality(nodes'[m]) < MaxNeighbors
    <3>1. m # n => (m \in open <=> Cardinality(nodes[m]) < MaxNeighbors)
      BY <2>1 DEF SlotInv, OpenSlotsExact
    <3> QED
      BY <1>1, <3>1, UpdateSlots
  <2> QED
    BY <2>1, <2>2 DEF OpenSlotsExact, OthersAreFull
<1>2. ASSUME NEW n \in DOMAIN nodes, Idle, Leave(n)
      PROVE  OpenSlotsExact' /\ OthersAreFull'
  <2>1. DOMAIN nodes' = DOMAIN nodes \ {n} /\ pc = "idle" /\ pc' = "idle"
    BY <1>2 DEF Leave, Idle
  <2>2. ASSUME NEW m \in DOMAIN nodes'
        PROVE  m \in open' <=> Cardinality(nodes'[m]) < MaxNeighbors
    <3>1. CASE m \in nodes[n]
      BY <1>2, <3>1 DEF Leave, CheckedOpenSlots
    <3>2. CASE m \notin nodes[n]
      <4>1. nodes'[m] = nodes[m] /\ (m \in open' <=> m \in open) /\ m \in DOMAIN nodes
        BY <1>2, <2>1, <3>2 DEF Leave, CheckedOpenSlots
      <4> QED
        BY <2>1, <4>1 DEF SlotInv, OpenSlotsExact
    <3> QED
      BY <3>1, <3>2
  <2> QED
    BY <2>1, <2>2 DEF OpenSlotsExact, OthersAreFull
<1>3. ASSUME NEW n \in Node, NEW force \in BOOLEAN, Begin(n, force)
      PROVE  OpenSlotsExact' /\ OthersAreFull'
  BY <1>3 DEF Begin, SlotInv, OpenSlotsExact, OthersAreFull
<1>4. CASE Trim
  <2>1. pc' = "fill" /\ pc = "trim" /\ self' = self /\ self \in DOMAIN nodes /\ self \in Node
    BY <1>0, <1>4 DEF Trim, GraphInv, TypeOK
  <2>2. CASE UNCHANGED <<nodes, open, updated>>
    BY <2>1, <2>2 DEF SlotInv, OpenSlotsExact, OthersAreFull
  <2>3. ASSUME NEW reduced \in SUBSET nodes[self], Update(self, reduced)
        PROVE  OpenSlotsExact' /\ OthersAreFull'
    <3>1. reduced \in SUBSET Node /\ DOMAIN nodes' = DOMAIN nodes \cup {self}
      BY <1>0, <2>1, <2>3 DEF GraphInv, TypeOK, Update
    <3>2. ASSUME NEW m \in DOMAIN nodes'
          PROVE  m \in open' <=> Cardinality(nodes'[m]) < MaxNeighbors
      <4>1. m # self => (m \in open <=> Cardinality(nodes[m]) < MaxNeighbors)
        BY <3>1 DEF SlotInv, OpenSlotsExact
      <4> QED
        BY <2>1, <2>3, <3>1, <4>1, UpdateSlots
    <3> QED
      BY <2>1, <3>2 DEF OpenSlotsExact, OthersAreFull
  <2> QED
    BY <1>4, <2>2, <2>3 DEF Trim
<1>5. CASE Fill
  BY <1>5, FillSlots
<1>6. CASE ChooseTargets
  BY <1>6 DEF ChooseTargets, SlotInv, OpenSlotsExact, OthersAreFull, Missing
<1>7. ASSUME NEW n1 \in targets, Relink(n1)
      PROVE  OpenSlotsExact' /\ OthersAreFull'
  <2>1. /\ pc = "relink" /\ UNCHANGED <<open, pc, self>>
        /\ Missing(self) > 1 /\ self \in DOMAIN nodes /\ n1 \in DOMAIN nodes
    BY <1>0, <1>7 DEF Relink, GraphInv, TypeOK
  <2>2. /\ DOMAIN nodes' = DOMAIN nodes
        /\ \A m \in DOMAIN nodes \ {self} :
             /\ Cardinality(nodes'[m]) = Cardinality(nodes[m])
             /\ nodes[m] # nodes'[m] => self \in nodes'[m]
             /\ self \in nodes[m] => self \in nodes'[m]
    <3>1. n1 \in DOMAIN nodes \ {self}
      BY <1>0, <2>1 DEF GraphInv, TargetsUnlinked
    <3> QED
      BY <1>0, <1>7, <3>1, RelinkSizes
  <2>3. OpenSlotsExact'
    BY <2>1, <2>2 DEF SlotInv, OpenSlotsExact
  <2>4. Missing(self) > 0
    BY <1>0, <2>1, FiniteNeighbors, MaxNeighborsAssumption DEF Missing, GraphInv
  <2>5. \A m \in DOMAIN nodes \ {self} : self \in nodes[m] \/ Missing(m) <= 0
    BY <2>1, <2>4 DEF SlotInv, OthersAreFull
  <2>6. OthersAreFull'
    BY <2>1, <2>2, <2>5 DEF OthersAreFull, Missing
  <2> QED
    BY <2>3, <2>6
<1>8. CASE RelinkDone
  BY <1>8 DEF RelinkDone, SlotInv, OpenSlotsExact, OthersAreFull
<1>9. CASE Finish
  <2>1. pc' = "idle" /\ UNCHANGED <<nodes, self>> /\ pc = "finish"
        /\ open' = CheckedOpenSlots(nodes, {self})
    BY <1>9 DEF Finish
  <2>2. \A m \in DOMAIN nodes : m \in open' <=> Cardinality(nodes[m]) < MaxNeighbors
    BY <2>1 DEF CheckedOpenSlots, SlotInv, OpenSlotsExact
  <2> QED
    BY <2>1, <2>2 DEF OpenSlotsExact, OthersAreFull
<1>10. CASE UNCHANGED vars
  BY <1>10 DEF vars, SlotInv, OpenSlotsExact, OthersAreFull, Missing
<1> QED
  BY <1>1, <1>2, <1>3, <1>4, <1>5, <1>6, <1>7, <1>8, <1>9, <1>10 DEF Next, FormStep

\* The cache of open slots is exact for every node but the one whose
\* formInstructions has not ended.
THEOREM CacheExact == Spec => []OpenSlotsExact
<1>1. SlotInv => OpenSlotsExact
  BY DEF SlotInv
<1> QED
  BY <1>1, InitSlots, NextSlots, PTL DEF Spec

\* The assumption the loop's comment makes holds whenever the loop starts.
THEOREM StrangersAreFull == Spec => []OthersAreFull
<1>1. SlotInv => OthersAreFull
  BY DEF SlotInv
<1> QED
  BY <1>1, InitSlots, NextSlots, PTL DEF Spec

\* The graph and the cache of open slots agree, between any two assignments of
\* OverlayTopology.ts.
THEOREM GraphAndCacheAgree == Spec => []OverlayInv
<1>1. SlotInv => OverlayInv
  BY DEF SlotInv, GraphInv, OverlayInv
<1> QED
  BY <1>1, InitSlots, NextSlots, PTL DEF Spec

-----------------------------------------------------------------------------
(* What formInstructions leaves behind.                                    *)

\* From filling on, the node that is served is within the limit.
SelfWithinLimit ==
  pc \in {"fill", "choose", "relink", "finish"} => Missing(self) >= 0

\* As long as the loop runs, it still has to take every stranger with a neighbour that
\* is a stranger too: links are exchanged for links to self, and never lost.
StrangersAreTargets ==
  pc = "relink" =>
    \A n1 \in DOMAIN nodes \ {self} : \A n2 \in nodes[n1] :
      n2 # self /\ self \notin nodes[n1] /\ self \notin nodes[n2] => n1 \in targets

FormInv ==
  /\ SlotInv
  /\ SelfWithinLimit
  /\ StrangersAreTargets
  /\ WellConnected

\* Trimming only takes links away, until the limit is kept.
LEMMA TrimShape ==
  ASSUME SlotInv, Trim
  PROVE  /\ self \in DOMAIN nodes /\ self' = self /\ DOMAIN nodes' = DOMAIN nodes
         /\ \A m \in DOMAIN nodes : nodes'[m] \subseteq nodes[m]
         /\ Missing(self)' >= 0
<1>1. self \in DOMAIN nodes /\ self \in Node /\ self' = self
  BY DEF Trim, SlotInv, GraphInv, TypeOK
<1>2. Cardinality(nodes[self]) \in Nat
  BY <1>1, FiniteNeighbors DEF SlotInv, GraphInv
<1>3. CASE ~(Missing(self) < 0) /\ nodes' = nodes
  BY <1>1, <1>2, <1>3, MaxNeighborsAssumption DEF Missing
<1>4. ASSUME NEW reduced \in SUBSET nodes[self], Cardinality(reduced) = MaxNeighbors,
             Update(self, reduced)
      PROVE  /\ DOMAIN nodes' = DOMAIN nodes
             /\ \A m \in DOMAIN nodes : nodes'[m] \subseteq nodes[m]
             /\ Missing(self)' >= 0
  <2>1. (reduced \cap DOMAIN nodes) \ {self} = reduced
    BY <1>1 DEF SlotInv, GraphInv, Symmetric, NoSelfNeighbor
  <2>2. nodes' = [m \in DOMAIN nodes \cup {self} |->
                    IF m = self THEN reduced
                    ELSE IF m \in reduced THEN nodes[m] \cup {self}
                    ELSE IF m \in Removed(self, reduced) THEN nodes[m] \ {self}
                    ELSE nodes[m]]
    BY <1>4, <2>1 DEF Update
  <2>3. \A m \in reduced : self \in nodes[m]
    BY <1>1 DEF SlotInv, GraphInv, Symmetric
  <2>4. Missing(self)' = MaxNeighbors - MaxNeighbors
    BY <1>1, <1>4, <2>2 DEF Missing
  <2> QED
    BY <1>1, <2>2, <2>3, <2>4, MaxNeighborsAssumption
<1> QED
  BY <1>1, <1>3, <1>4 DEF Trim

\* Filling links self with nodes that have an open slot, as many as it has itself.
LEMMA FillShape ==
  ASSUME SlotInv, SelfWithinLimit, Fill
  PROVE  /\ self \in DOMAIN nodes /\ self' = self
         /\ \/ UNCHANGED nodes
            \/ \E added \in SUBSET (open \ {self}) :
                 /\ DOMAIN nodes' = DOMAIN nodes
                 /\ nodes'[self] = nodes[self] \cup added
                 /\ \A n \in DOMAIN nodes \ {self} :
                      nodes'[n] = IF n \in added THEN nodes[n] \cup {self} ELSE nodes[n]
                 /\ updated' = updated \cup {self} \cup added
         /\ Missing(self)' >= 0
<1>1. /\ pc = "fill" /\ self' = self /\ self \in DOMAIN nodes /\ self \in Node
  BY DEF Fill, SlotInv, GraphInv, TypeOK
<1>2. IsFiniteSet(nodes[self]) /\ Cardinality(nodes[self]) \in Nat /\ Missing(self) >= 0
  BY <1>1, FiniteNeighbors DEF SlotInv, GraphInv, SelfWithinLimit
<1> DEFINE candidates == {m \in open : self \notin nodes[m]} \ {self}
<1>3. CASE UNCHANGED nodes
  BY <1>1, <1>2, <1>3 DEF Missing
<1>4. ASSUME NEW added \in SUBSET candidates, Cardinality(added) <= Missing(self),
             Update(self, nodes[self] \cup added),
             updated' = updated \cup {self} \cup added
      PROVE  /\ DOMAIN nodes' = DOMAIN nodes
             /\ nodes'[self] = nodes[self] \cup added
             /\ \A n \in DOMAIN nodes \ {self} :
                  nodes'[n] = IF n \in added THEN nodes[n] \cup {self} ELSE nodes[n]
             /\ Missing(self)' >= 0
  <2>1. ((nodes[self] \cup added) \cap DOMAIN nodes) \ {self} = nodes[self] \cup added
    BY <1>1 DEF SlotInv, GraphInv, TypeOK, Symmetric, NoSelfNeighbor
  <2>2. Removed(self, nodes[self] \cup added) = {}
    BY DEF Removed
  <2>3. \A n \in nodes[self] : nodes[n] \cup {self} = nodes[n]
    BY <1>1 DEF SlotInv, GraphInv, Symmetric
  <2>4. /\ DOMAIN nodes' = DOMAIN nodes
        /\ nodes'[self] = nodes[self] \cup added
        /\ \A n \in DOMAIN nodes \ {self} :
             nodes'[n] = IF n \in nodes[self] \cup added THEN nodes[n] \cup {self}
                         ELSE nodes[n]
    BY <1>1, <1>4, <2>1, <2>2 DEF Update
  <2>5. IsFiniteSet(added)
    BY NodeAssumption, FS_Subset DEF SlotInv, GraphInv, TypeOK
  <2>6. Missing(self)' >= 0
    <3>1. /\ Cardinality(nodes[self] \cup added)
               = Cardinality(nodes[self]) + Cardinality(added) - Cardinality(nodes[self] \cap added)
      BY <1>2, <2>5, FS_Union
    <3>2. IsFiniteSet(nodes[self] \cap added)
      BY <1>2, FS_Intersection
    <3>3. Cardinality(added) \in Nat /\ Cardinality(nodes[self] \cap added) \in Nat
      BY <2>5, <3>2, FS_CardinalityType
    <3>4. Missing(self)' = MaxNeighbors - Cardinality(nodes[self] \cup added)
      BY <1>1, <2>4 DEF Missing
    <3> QED
      BY <1>2, <1>4, <3>1, <3>3, <3>4, MaxNeighborsAssumption DEF Missing
  <2> QED
    BY <2>3, <2>4, <2>6
<1>5. ASSUME NEW added \in SUBSET candidates,
             \/ Cardinality(added) = Missing(self)
             \/ Cardinality(added) < Missing(self)
      PROVE  Cardinality(added) <= Missing(self)
  <2>1. IsFiniteSet(added)
    BY NodeAssumption, FS_Subset DEF SlotInv, GraphInv, TypeOK
  <2> QED
    BY <1>2, <1>5, <2>1, FS_CardinalityType, MaxNeighborsAssumption DEF Missing
<1>6. CASE ~ UNCHANGED nodes
  <2>1. PICK added \in SUBSET candidates :
          /\ \/ Cardinality(added) = Missing(self)
             \/ Cardinality(added) < Missing(self)
          /\ Update(self, nodes[self] \cup added)
          /\ updated' = updated \cup {self} \cup added
    BY <1>6 DEF Fill
  <2>2. added \in SUBSET (open \ {self})
    OBVIOUS
  <2> QED
    BY <1>1, <1>4, <1>5, <2>1, <2>2
<1> QED
  BY <1>1, <1>3, <1>6

\* An iteration of the loop leaves the lists alone, or links self with n1 and n2, which
\* forget each other.
LEMMA RelinkShape ==
  ASSUME SlotInv, NEW n1 \in targets, Relink(n1)
  PROVE  /\ pc = "relink" /\ pc' = pc /\ self' = self
         /\ self \in DOMAIN nodes /\ n1 \in DOMAIN nodes /\ n1 # self
         /\ DOMAIN nodes' = DOMAIN nodes
         /\ \/ /\ {n \in nodes[n1] : self \notin nodes[n]} = {}
               /\ targets' = targets \ {n1} /\ UNCHANGED nodes
            \/ \E n2 \in DOMAIN nodes \ {self, n1} :
                 /\ targets' = targets \ {n1, n2}
                 /\ updated' = updated \cup {self, n1, n2}
                 /\ nodes'[self] = nodes[self] \cup {n1, n2}
                 /\ \A m \in DOMAIN nodes \ {self} :
                      nodes'[m] = IF m = n1 THEN (nodes[m] \ {n2}) \cup {self}
                                  ELSE IF m = n2 THEN (nodes[m] \ {n1}) \cup {self}
                                  ELSE nodes[m]
<1>1. /\ pc = "relink" /\ pc' = pc /\ self' = self
      /\ self \in DOMAIN nodes /\ n1 \in DOMAIN nodes /\ n1 # self
      /\ self \notin nodes[n1]
  BY DEF Relink, SlotInv, GraphInv, TypeOK, TargetsUnlinked, Symmetric
<1>2. ASSUME NEW n2 \in {n \in nodes[n1] : self \notin nodes[n]}, nodes' = Relinked(n1, n2)
      PROVE  /\ n2 \in DOMAIN nodes \ {self, n1}
             /\ DOMAIN nodes' = DOMAIN nodes
             /\ nodes'[self] = nodes[self] \cup {n1, n2}
             /\ \A m \in DOMAIN nodes \ {self} :
                  nodes'[m] = IF m = n1 THEN (nodes[m] \ {n2}) \cup {self}
                              ELSE IF m = n2 THEN (nodes[m] \ {n1}) \cup {self}
                              ELSE nodes[m]
  <2>1. n2 \in DOMAIN nodes \ {self, n1}
    BY <1>1 DEF SlotInv, GraphInv, Symmetric, NoSelfNeighbor
  <2> QED
    BY <1>1, <1>2, <2>1 DEF Relinked, SlotInv, GraphInv, TypeOK
<1>3. CASE /\ {n \in nodes[n1] : self \notin nodes[n]} = {}
           /\ targets' = targets \ {n1} /\ UNCHANGED <<nodes, updated>>
  BY <1>1, <1>3
<1>4. ASSUME NEW n2 \in {n \in nodes[n1] : self \notin nodes[n]},
             targets' = RemainingTargets(n1, n2), nodes' = Relinked(n1, n2),
             updated' = updated \cup {self, n1, n2}
      PROVE  /\ DOMAIN nodes' = DOMAIN nodes
             /\ \E k \in DOMAIN nodes \ {self, n1} :
                  /\ targets' = targets \ {n1, k}
                  /\ updated' = updated \cup {self, n1, k}
                  /\ nodes'[self] = nodes[self] \cup {n1, k}
                  /\ \A m \in DOMAIN nodes \ {self} :
                       nodes'[m] = IF m = n1 THEN (nodes[m] \ {k}) \cup {self}
                                   ELSE IF m = k THEN (nodes[m] \ {n1}) \cup {self}
                                   ELSE nodes[m]
  <2>1. targets' = targets \ {n1, n2}
    BY <1>4 DEF RemainingTargets
  <2> QED
    BY <1>2, <1>4, <2>1
<1> QED
  BY <1>1, <1>3, <1>4 DEF Relink

\* One more element makes a set larger by one at most.
LEMMA OneMore ==
  ASSUME NEW S, IsFiniteSet(S), NEW u
  PROVE  /\ IsFiniteSet(S \cup {u})
         /\ Cardinality(S \cup {u}) \in Nat
         /\ Cardinality(S \cup {u}) <= Cardinality(S) + 1
<1>1. IsFiniteSet(S \cup {u})
  BY FS_AddElement
<1>2. Cardinality(S) \in Nat /\ Cardinality(S \cup {u}) \in Nat
  BY <1>1, FS_CardinalityType
<1>3. Cardinality(S \cup {u}) = IF u \in S THEN Cardinality(S) ELSE Cardinality(S) + 1
  BY FS_AddElement
<1> QED
  BY <1>1, <1>2, <1>3

\* Two new neighbours do not overfill a node with two open slots.
LEMMA RelinkKeepsLimit ==
  ASSUME SlotInv, NEW n1 \in targets, Relink(n1)
  PROVE  Missing(self)' >= 0
<1>1. /\ self' = self /\ self \in DOMAIN nodes /\ Missing(self) > 1
  BY RelinkShape DEF Relink
<1>2. IsFiniteSet(nodes[self]) /\ Cardinality(nodes[self]) \in Nat
  BY <1>1, FiniteNeighbors DEF SlotInv, GraphInv
<1>3. CASE UNCHANGED nodes
  BY <1>1, <1>2, <1>3, MaxNeighborsAssumption DEF Missing
<1>4. ASSUME NEW n2 \in DOMAIN nodes, nodes'[self] = nodes[self] \cup {n1, n2}
      PROVE  Missing(self)' >= 0
  <2>1. /\ IsFiniteSet(nodes[self] \cup {n1})
        /\ Cardinality(nodes[self] \cup {n1}) <= Cardinality(nodes[self]) + 1
        /\ Cardinality(nodes[self] \cup {n1}) \in Nat
    BY <1>2, OneMore
  <2>2. /\ Cardinality((nodes[self] \cup {n1}) \cup {n2}) <= Cardinality(nodes[self] \cup {n1}) + 1
        /\ Cardinality((nodes[self] \cup {n1}) \cup {n2}) \in Nat
    BY <2>1, OneMore
  <2>3. (nodes[self] \cup {n1}) \cup {n2} = nodes'[self']
    BY <1>1, <1>4
  <2>4. Missing(self)' = MaxNeighbors - Cardinality((nodes[self] \cup {n1}) \cup {n2})
    BY <2>3 DEF Missing
  <2> QED
    BY <1>1, <1>2, <2>1, <2>2, <2>4, MaxNeighborsAssumption DEF Missing
<1> QED
  BY <1>3, <1>4, RelinkShape

\* A node that has nobody is within any limit.
THEOREM InitForm == Init => FormInv
BY InitSlots DEF Init, FormInv, SelfWithinLimit, StrangersAreTargets, WellConnected

\* Every step keeps what formInstructions will leave behind.
THEOREM NextForm == FormInv /\ [Next]_vars => FormInv'
<1> SUFFICES ASSUME FormInv, [Next]_vars PROVE FormInv'
  OBVIOUS
<1>0. SlotInv /\ SlotInv'
  BY NextSlots DEF FormInv
<1> SUFFICES SelfWithinLimit' /\ StrangersAreTargets' /\ WellConnected'
  BY <1>0 DEF FormInv
<1>1. CASE pc' \in {"idle", "trim"}
  BY <1>1 DEF SelfWithinLimit, StrangersAreTargets, WellConnected
<1>2. CASE Trim
  BY <1>0, <1>2, TrimShape DEF Trim, SelfWithinLimit, StrangersAreTargets, WellConnected
<1>3. CASE Fill
  BY <1>0, <1>3, FillShape DEF Fill, FormInv, SelfWithinLimit, StrangersAreTargets, WellConnected
<1>4. CASE ChooseTargets
  <2>1. /\ pc = "choose" /\ UNCHANGED <<nodes, self>> /\ self \in DOMAIN nodes
        /\ Missing(self) \in Int /\ Missing(self)' = Missing(self) /\ Missing(self) >= 0
    BY <1>0, <1>4, FiniteNeighbors, MaxNeighborsAssumption
       DEF ChooseTargets, FormInv, SlotInv, GraphInv, TypeOK, Missing, SelfWithinLimit
  <2>2. CASE /\ Missing(self) > 1 /\ pc' = "relink"
             /\ targets' = {m \in DOMAIN nodes \ {self} : Missing(m) <= 0 /\ self \notin nodes[m]}
    <3>1. \A n \in DOMAIN nodes \ {self} : self \in nodes[n] \/ Missing(n) <= 0
      BY <1>0, <2>1, <2>2 DEF SlotInv, OthersAreFull
    <3> QED
      BY <2>1, <2>2, <3>1 DEF SelfWithinLimit, StrangersAreTargets, WellConnected
  <2>3. CASE ~(Missing(self) > 1) /\ pc' = "finish"
    BY <2>1, <2>3 DEF SelfWithinLimit, StrangersAreTargets, WellConnected, Missing
  <2> QED
    BY <1>4, <2>2, <2>3 DEF ChooseTargets
<1>5. ASSUME NEW n1 \in targets, Relink(n1)
      PROVE  SelfWithinLimit' /\ StrangersAreTargets' /\ WellConnected'
  <2>1. pc = "relink" /\ pc' = pc /\ self' = self /\ DOMAIN nodes' = DOMAIN nodes
    BY <1>0, <1>5, RelinkShape
  <2>2. SelfWithinLimit'
    BY <1>0, <1>5, RelinkKeepsLimit DEF SelfWithinLimit
  <2>3. StrangersAreTargets'
    <3> SUFFICES ASSUME NEW k1 \in DOMAIN nodes \ {self}, NEW k2 \in nodes'[k1],
                        k2 # self, self \notin nodes'[k1], self \notin nodes'[k2]
                 PROVE  k1 \in targets'
      BY <2>1 DEF StrangersAreTargets
    <3>1. k2 \in DOMAIN nodes
      BY <1>0, <2>1 DEF SlotInv, GraphInv, Symmetric
    <3>2. k2 \in nodes[k1] /\ self \notin nodes[k1] /\ self \notin nodes[k2]
      BY <1>0, <1>5, <2>1, <3>1, RelinkShape
    <3>3. k1 \in targets
      BY <2>1, <3>2 DEF FormInv, StrangersAreTargets
    <3> QED
      BY <1>0, <1>5, <3>2, <3>3, RelinkShape
  <2> QED
    BY <2>1, <2>2, <2>3 DEF WellConnected
<1>6. CASE RelinkDone
  <2>1. /\ pc = "relink" /\ pc' = "finish" /\ UNCHANGED <<nodes, self>>
        /\ Missing(self)' = Missing(self) /\ Missing(self) >= 0 /\ Missing(self) \in Int
    BY <1>0, <1>6, FiniteNeighbors, MaxNeighborsAssumption
       DEF RelinkDone, FormInv, SlotInv, GraphInv, TypeOK, Missing, SelfWithinLimit
  <2>2. CASE Missing(self) <= 1
    BY <2>1, <2>2 DEF SelfWithinLimit, StrangersAreTargets, WellConnected
  <2>3. CASE targets = {}
    BY <2>1, <2>3 DEF FormInv, SelfWithinLimit, StrangersAreTargets, WellConnected
  <2> QED
    BY <1>6, <2>2, <2>3 DEF RelinkDone
<1>7. CASE UNCHANGED vars
  BY <1>7 DEF vars, FormInv, SelfWithinLimit, StrangersAreTargets, WellConnected, Missing
<1> QED
  BY <1>1, <1>2, <1>3, <1>4, <1>5, <1>6, <1>7
     DEF Next, FormStep, Idle, Begin, Finish

\* formInstructions leaves its node within the limit and, unless no two linked nodes are
\* strangers to it, with at most one open slot; for any overlay and every random choice.
THEOREM AlwaysWellConnected == Spec => []WellConnected
<1>1. FormInv => WellConnected
  BY DEF FormInv
<1> QED
  BY <1>1, InitForm, NextForm, PTL DEF Spec

-----------------------------------------------------------------------------
(* What a step of formInstructions may do to the other nodes.              *)

\* A link that is added by filling leads to a node with an open slot.
LEMMA FillKeepsLimit ==
  ASSUME FormInv, Fill, NEW n \in DOMAIN nodes
  PROVE  \/ Cardinality(nodes'[n]) <= MaxNeighbors
         \/ Cardinality(nodes'[n]) <= Cardinality(nodes[n])
<1>1. /\ pc = "fill" /\ self \in DOMAIN nodes /\ self' = self /\ Missing(self)' >= 0
  BY FillShape DEF FormInv, Fill
<1>2. IsFiniteSet(nodes[n]) /\ Cardinality(nodes[n]) \in Nat
  BY FiniteNeighbors DEF FormInv, SlotInv, GraphInv
<1>3. CASE UNCHANGED nodes
  BY <1>2, <1>3
<1>4. CASE n = self
  <2>1. Cardinality(nodes'[n]) \in Nat
    <3>1. TypeOK' /\ n \in DOMAIN nodes'
      BY <1>1, FillShape, NextSlots DEF FormInv, SlotInv, GraphInv, Next, FormStep
    <3>2. nodes'[n] \subseteq Node
      BY <3>1 DEF TypeOK
    <3> QED
      BY <3>2, NodeAssumption, FS_Subset, FS_CardinalityType
  <2> QED
    BY <1>1, <1>4, <2>1, MaxNeighborsAssumption DEF Missing
<1>5. ASSUME NEW added \in SUBSET (open \ {self}), n # self,
             nodes'[n] = IF n \in added THEN nodes[n] \cup {self} ELSE nodes[n]
      PROVE  \/ Cardinality(nodes'[n]) <= MaxNeighbors
             \/ Cardinality(nodes'[n]) <= Cardinality(nodes[n])
  <2>1. n \in added => Cardinality(nodes[n]) < MaxNeighbors
    BY <1>5 DEF FormInv, SlotInv, OpenSlotsExact
  <2>2. /\ Cardinality(nodes[n] \cup {self}) \in Nat
        /\ Cardinality(nodes[n] \cup {self}) <= Cardinality(nodes[n]) + 1
    BY <1>2, OneMore
  <2> QED
    BY <1>2, <1>5, <2>1, <2>2, MaxNeighborsAssumption
<1> QED
  BY <1>3, <1>4, <1>5, FillShape DEF FormInv

\* Whatever step formInstructions makes, it takes no node above the limit.
THEOREM FormStaysBelowLimit == Spec => FormKeepsLimit
<1> DEFINE Kept(n) == \/ Cardinality(nodes'[n]) <= MaxNeighbors
                      \/ Cardinality(nodes'[n]) <= Cardinality(nodes[n])
<1>1. ASSUME FormInv, [Next]_vars
      PROVE  [pc # "idle" => \A n \in DOMAIN nodes : Kept(n)]_vars
  <2> SUFFICES ASSUME Next, pc # "idle", NEW n \in DOMAIN nodes PROVE Kept(n)
    BY <1>1
  <2>1. IsFiniteSet(nodes[n]) /\ Cardinality(nodes[n]) \in Nat /\ SlotInv /\ SlotInv'
    BY <1>1, FiniteNeighbors, NextSlots DEF FormInv, SlotInv, GraphInv
  <2>2. CASE UNCHANGED nodes
    BY <2>1, <2>2
  <2>3. CASE Trim
    <3>1. nodes'[n] \subseteq nodes[n]
      BY <2>1, <2>3, TrimShape
    <3> QED
      BY <2>1, <3>1, FS_Subset
  <2>4. CASE Fill
    BY <1>1, <2>4, FillKeepsLimit
  <2>5. ASSUME NEW n1 \in targets, Relink(n1)
        PROVE  Kept(n)
    <3>1. CASE n = self
      <4>1. self' = self /\ DOMAIN nodes' = DOMAIN nodes /\ Missing(self)' >= 0
        BY <2>1, <2>5, RelinkShape, RelinkKeepsLimit
      <4>2. nodes'[n] \subseteq Node
        BY <2>1, <4>1 DEF SlotInv, GraphInv, TypeOK
      <4>3. Cardinality(nodes'[n]) \in Nat
        BY <4>2, NodeAssumption, FS_Subset, FS_CardinalityType
      <4> QED
        BY <3>1, <4>1, <4>3, MaxNeighborsAssumption DEF Missing
    <3>2. CASE n # self
      BY <2>1, <2>5, <3>2, RelinkSizes DEF SlotInv
    <3> QED
      BY <3>1, <3>2
  <2> QED
    BY <2>2, <2>3, <2>4, <2>5 DEF Next, FormStep, Idle, Begin, ChooseTargets, RelinkDone, Finish
<1>2. ASSUME [pc # "idle" => \A n \in DOMAIN nodes : Kept(n)]_vars
      PROVE  [pc # "idle" =>
                \A n \in DOMAIN nodes :
                  \/ Cardinality(nodes'[n]) <= MaxNeighbors
                  \/ Cardinality(nodes'[n]) <= Cardinality(nodes[n])]_vars
  BY <1>2
<1> QED
  BY <1>1, <1>2, InitForm, NextForm, PTL DEF Spec, FormKeepsLimit

\* Whoever gets a new neighbour from formInstructions is told so.
THEOREM LinksAreInstructed == Spec => LinkedAreInstructed
<1>1. ASSUME FormInv, [Next]_vars
      PROVE  [pc # "idle" =>
                \A n \in DOMAIN nodes : ~(nodes'[n] \subseteq nodes[n]) => n \in updated']_vars
  <2> SUFFICES ASSUME Next, pc # "idle", NEW n \in DOMAIN nodes, ~(nodes'[n] \subseteq nodes[n])
               PROVE  n \in updated'
    BY <1>1
  <2>1. SlotInv /\ SelfWithinLimit
    BY <1>1 DEF FormInv
  <2>2. ~ UNCHANGED nodes /\ ~ Trim
    BY <2>1, TrimShape
  <2>3. CASE Fill
    BY <2>1, <2>2, <2>3, FillShape
  <2>4. ASSUME NEW n1 \in targets, Relink(n1)
        PROVE  n \in updated'
    BY <2>1, <2>2, <2>4, RelinkShape
  <2> QED
    BY <2>2, <2>3, <2>4 DEF Next, FormStep, Idle, Begin, ChooseTargets, RelinkDone, Finish
<1> QED
  BY <1>1, InitForm, NextForm, PTL DEF Spec, LinkedAreInstructed

-----------------------------------------------------------------------------
(* The tracker.                                                            *)

\* The steps of a tracker that is told statuses with any counter: MaxCounter bounds what is
\* explored, not what is proved.
TrackerStep ==
  \/ \E n \in Node, reported \in SUBSET Node, cnt \in Nat : Status(n, reported, cnt)
  \/ \E n \in Node : Gone(n) \/ Call(n)
  \/ Form
  \/ Return
  \/ Send

AnyTracker == TrackerInit /\ [][TrackerStep]_trackerVars

\* TrackerSpec describes such a tracker.
LEMMA BoundedIsTracker == TrackerSpec => AnyTracker
<1>1. TrackerNext => TrackerStep
  BY TrackerAssumption DEF TrackerNext, TrackerStep
<1> QED
  BY <1>1, PTL DEF TrackerSpec, AnyTracker

\* The tracker's handlers use the overlay one operation after the other.
LEMMA TrackerStepIsOverlayStep == TrackerStep => [Next]_vars
<1>1. ASSUME NEW n \in Node, NEW reported \in SUBSET Node, NEW cnt \in Nat,
             Status(n, reported, cnt)
      PROVE  Next
  BY <1>1 DEF Status, Ready, NoHandler, Idle, Next
<1>2. ASSUME NEW n \in Node, Gone(n)
      PROVE  Next
  BY <1>2 DEF Gone, NoHandler, Idle, Next
<1>3. ASSUME NEW n \in Node, Call(n)
      PROVE  Next
  <2>1. (n \in forced) \in BOOLEAN /\ Begin(n, n \in forced)
    BY <1>3 DEF Call
  <2>2. \E force \in BOOLEAN : Begin(n, force)
    BY <2>1
  <2> QED
    BY <2>2 DEF Next
<1>4. Form => Next
  BY DEF Form, Next
<1>5. Return => Next
  BY DEF Return, Next
<1>6. Send => UNCHANGED vars
  BY DEF Send
<1> QED
  BY <1>1, <1>2, <1>3, <1>4, <1>5, <1>6, TrackerAssumption DEF TrackerStep

\* Tracker.ts on top of OverlayTopology.ts implements the overlay's specification.
LEMMA AnyRunsOverlay == AnyTracker => Spec
<1>1. TrackerInit => Init
  BY DEF TrackerInit
<1>2. [TrackerStep]_trackerVars => [Next]_vars
  BY TrackerStepIsOverlayStep DEF trackerVars
<1> QED
  BY <1>1, <1>2, PTL DEF AnyTracker, Spec

\* So does the tracker with bounded counters.
THEOREM TrackerRunsOverlay == TrackerSpec => Spec
BY BoundedIsTracker, AnyRunsOverlay

-----------------------------------------------------------------------------
(* Members, counters and buffer.                                           *)

\* A handler in progress, and what the overlay has proved of itself.
HandlerInv ==
  /\ FormInv
  /\ TrackerInv
  /\ pc = "idle" => updated = {}
  /\ source # NoNode => forced = {}
  /\ pc # "idle" /\ source # NoNode => self = source

\* The tracker starts without members.
LEMMA InitHandler == TrackerInit => HandlerInv
<1> SUFFICES ASSUME TrackerInit PROVE HandlerInv
  OBVIOUS
<1>1. FormInv /\ TypeOK
  BY InitForm DEF TrackerInit, FormInv, SlotInv, GraphInv
<1> QED
  BY <1>1 DEF TrackerInit, Init, HandlerInv, TrackerInv, TrackerTypeOK, CountersOfMembers,
              NewestIsBuffered

\* A status adds its node to the overlay and, with counter 0, to the counters.
LEMMA StatusKeeps ==
  ASSUME HandlerInv, FormInv', NEW n \in Node, NEW reported \in SUBSET Node, NEW cnt \in Nat,
         Status(n, reported, cnt)
  PROVE  HandlerInv'
<1>1. /\ pc = "idle" /\ pc' = pc /\ forced = {} /\ forced' = forced /\ source' = n
      /\ updated' = updated /\ buffer' = buffer
  BY DEF Status, Ready, NoHandler
<1>2. DOMAIN nodes' = DOMAIN nodes \cup {n}
  BY DEF Status, Update
<1>3. /\ DOMAIN counters' = DOMAIN counters \cup {n}
      /\ \A m \in DOMAIN counters : counters'[m] = counters[m]
      /\ n \notin DOMAIN counters => counters'[n] = 0
      /\ counters' \in [DOMAIN counters' -> Nat]
  BY DEF Status, HandlerInv, TrackerInv, TrackerTypeOK
<1>4. owed' \subseteq Node
  BY DEF Status
<1>5. TypeOK'
  BY DEF FormInv, SlotInv, GraphInv
<1>6. TrackerTypeOK'
  BY <1>1, <1>2, <1>3, <1>4, <1>5 DEF HandlerInv, TrackerInv, TrackerTypeOK
<1>7. CountersOfMembers'
  BY <1>2, <1>3 DEF HandlerInv, TrackerInv, CountersOfMembers
<1>8. NewestIsBuffered'
  <2> SUFFICES ASSUME NEW m \in DOMAIN buffer, m \in DOMAIN nodes', buffer[m] # Ack
               PROVE  buffer[m] >= counters'[m]
    BY <1>1 DEF NewestIsBuffered
  <2>1. buffer[m] \in Nat
    BY DEF HandlerInv, TrackerInv, TrackerTypeOK, Entry
  <2>2. CASE m \in DOMAIN nodes
    BY <1>3, <2>2 DEF HandlerInv, TrackerInv, NewestIsBuffered, CountersOfMembers
  <2>3. CASE m \notin DOMAIN nodes
    BY <1>2, <1>3, <2>1, <2>3 DEF HandlerInv, TrackerInv, CountersOfMembers
  <2> QED
    BY <2>2, <2>3
<1> QED
  BY <1>1, <1>6, <1>7, <1>8 DEF HandlerInv, TrackerInv

\* A node that goes takes its counter along; its neighbours are members.
LEMMA GoneKeeps ==
  ASSUME HandlerInv, FormInv', NEW n \in Node, Gone(n)
  PROVE  HandlerInv'
<1>1. /\ pc = "idle" /\ pc' = pc /\ source = NoNode /\ source' = source /\ buffer' = buffer
      /\ updated' = updated /\ n \in DOMAIN nodes /\ forced' = nodes[n] /\ owed' = nodes[n]
  BY DEF Gone, NoHandler
<1>2. DOMAIN nodes' = DOMAIN nodes \ {n}
  BY DEF Gone, Leave
<1>3. nodes[n] \subseteq DOMAIN nodes \ {n}
  BY <1>1 DEF HandlerInv, FormInv, SlotInv, GraphInv, Symmetric, NoSelfNeighbor
<1>4. /\ DOMAIN counters' = DOMAIN nodes \ {n}
      /\ \A m \in DOMAIN nodes \ {n} : counters'[m] = counters[m]
      /\ counters' \in [DOMAIN counters' -> Nat]
  BY DEF Gone, CountersWithout, HandlerInv, TrackerInv, TrackerTypeOK, CountersOfMembers
<1>5. TypeOK'
  BY DEF FormInv, SlotInv, GraphInv
<1>6. TrackerTypeOK'
  BY <1>1, <1>2, <1>3, <1>4, <1>5 DEF HandlerInv, TrackerInv, TrackerTypeOK, TypeOK
<1>7. CountersOfMembers' /\ NewestIsBuffered'
  BY <1>1, <1>2, <1>4 DEF HandlerInv, TrackerInv, CountersOfMembers, NewestIsBuffered
<1> QED
  BY <1>1, <1>6, <1>7 DEF HandlerInv, TrackerInv

\* formInstructions adds no members and leaves the tracker's tables alone.
LEMMA FormKeepsMembers ==
  ASSUME HandlerInv, FormStep
  PROVE  /\ DOMAIN nodes' = DOMAIN nodes /\ self' = self /\ pc # "idle" /\ pc' # "idle"
         /\ updated \subseteq updated'
<1>1. SlotInv /\ SelfWithinLimit
  BY DEF HandlerInv, FormInv
<1>2. CASE Trim
  BY <1>1, <1>2, TrimShape DEF Trim
<1>3. CASE Fill
  BY <1>1, <1>3, FillShape DEF Fill
<1>4. ASSUME NEW n1 \in targets, Relink(n1)
      PROVE  /\ DOMAIN nodes' = DOMAIN nodes /\ self' = self /\ pc # "idle" /\ pc' # "idle"
             /\ updated \subseteq updated'
  BY <1>1, <1>4, RelinkShape DEF Relink
<1>5. CASE ChooseTargets \/ RelinkDone
  BY <1>5 DEF ChooseTargets, RelinkDone
<1> QED
  BY <1>2, <1>3, <1>4, <1>5 DEF FormStep

\* Numbering the instructions keeps the counters those of the members, and what is
\* buffered the newest.
LEMMA ReturnKeeps ==
  ASSUME HandlerInv, FormInv', Return
  PROVE  HandlerInv'
<1>1. /\ pc = "finish" /\ pc' = "idle" /\ updated' = {} /\ nodes' = nodes /\ self' = self
      /\ forced' = forced /\ owed' = owed
      /\ source' = IF source = self THEN NoNode ELSE source
      /\ updated \subseteq DOMAIN nodes /\ self \in DOMAIN nodes
      /\ DOMAIN counters = DOMAIN nodes
  BY DEF Return, Finish, HandlerInv, TrackerInv, TrackerTypeOK, TypeOK, CountersOfMembers
<1>2. TypeOK'
  BY DEF FormInv, SlotInv, GraphInv
<1>3. CASE counters' = Incremented(updated) /\ buffer' = Buffered([n \in updated |-> counters'[n]])
  <2>1. /\ DOMAIN counters' = DOMAIN counters
        /\ counters' \in [DOMAIN counters' -> Nat]
        /\ \A n \in DOMAIN counters \ updated : counters'[n] = counters[n]
        /\ \A n \in updated : counters'[n] \in Nat \ {0}
    BY <1>1, <1>3 DEF Incremented, HandlerInv, TrackerInv, TrackerTypeOK
  <2>2. /\ DOMAIN buffer' = DOMAIN buffer \cup updated
        /\ \A n \in updated : buffer'[n] = counters'[n]
        /\ \A n \in DOMAIN buffer \ updated : buffer'[n] = buffer[n]
        /\ buffer' = [n \in DOMAIN buffer' |-> buffer'[n]]
    BY <1>3 DEF Buffered
  <2>3. DOMAIN buffer' \subseteq Node /\ buffer' \in [DOMAIN buffer' -> Entry]
    BY <1>1, <2>1, <2>2 DEF HandlerInv, TrackerInv, TrackerTypeOK, TypeOK, Entry
  <2>4. TrackerTypeOK' /\ CountersOfMembers'
    BY <1>1, <1>2, <2>1, <2>3 DEF HandlerInv, TrackerInv, TrackerTypeOK, CountersOfMembers
  <2>5. NewestIsBuffered'
    BY <1>1, <2>1, <2>2 DEF HandlerInv, TrackerInv, NewestIsBuffered
  <2> QED
    BY <1>1, <2>4, <2>5 DEF HandlerInv, TrackerInv
<1>4. CASE counters' = counters /\ buffer' = Buffered([n \in {self} |-> Ack])
  <2>1. /\ DOMAIN buffer' = DOMAIN buffer \cup {self} /\ buffer'[self] = Ack
        /\ \A n \in DOMAIN buffer \ {self} : buffer'[n] = buffer[n]
        /\ buffer' = [n \in DOMAIN buffer' |-> buffer'[n]]
    BY <1>4 DEF Buffered
  <2>2. DOMAIN buffer' \subseteq Node /\ buffer' \in [DOMAIN buffer' -> Entry]
    BY <1>1, <2>1 DEF HandlerInv, TrackerInv, TrackerTypeOK, TypeOK, Entry
  <2>3. TrackerTypeOK' /\ CountersOfMembers'
    BY <1>1, <1>2, <1>4, <2>2 DEF HandlerInv, TrackerInv, TrackerTypeOK, CountersOfMembers
  <2>4. NewestIsBuffered'
    BY <1>1, <1>4, <2>1 DEF HandlerInv, TrackerInv, NewestIsBuffered
  <2> QED
    BY <1>1, <2>3, <2>4 DEF HandlerInv, TrackerInv
<1> QED
  BY <1>3, <1>4 DEF Return

\* Every step of a handler keeps the tracker's tables consistent.
THEOREM NextHandler == HandlerInv /\ [TrackerStep]_trackerVars => HandlerInv'
<1> SUFFICES ASSUME HandlerInv, [TrackerStep]_trackerVars PROVE HandlerInv'
  OBVIOUS
<1>0. FormInv'
  <2>1. [Next]_vars
    BY TrackerStepIsOverlayStep DEF trackerVars
  <2> QED
    BY <2>1, NextForm DEF HandlerInv
<1>1. ASSUME NEW n \in Node, NEW reported \in SUBSET Node, NEW cnt \in Nat,
             Status(n, reported, cnt)
      PROVE  HandlerInv'
  BY <1>0, <1>1, StatusKeeps
<1>2. ASSUME NEW n \in Node, Gone(n)
      PROVE  HandlerInv'
  BY <1>0, <1>2, GoneKeeps
<1>3. ASSUME NEW n \in Node, Call(n)
      PROVE  HandlerInv'
  <2>1. /\ UNCHANGED <<nodes, counters, buffer, source, owed>> /\ forced' = forced \ {n}
        /\ pc' = "trim" /\ self' = n /\ (n \in forced \/ n = source)
    BY <1>3 DEF Call, Begin
  <2>2. TypeOK'
    BY <1>0 DEF FormInv, SlotInv, GraphInv
  <2> QED
    BY <1>0, <2>1, <2>2 DEF HandlerInv, TrackerInv, TrackerTypeOK, CountersOfMembers, NewestIsBuffered
<1>4. CASE Form
  <2>1. /\ UNCHANGED <<counters, buffer, forced, source, owed>> /\ DOMAIN nodes' = DOMAIN nodes
        /\ self' = self /\ pc # "idle" /\ pc' # "idle"
    BY <1>4, FormKeepsMembers DEF Form
  <2>2. TypeOK'
    BY <1>0 DEF FormInv, SlotInv, GraphInv
  <2> QED
    BY <1>0, <2>1, <2>2 DEF HandlerInv, TrackerInv, TrackerTypeOK, CountersOfMembers, NewestIsBuffered
<1>5. CASE Return
  BY <1>0, <1>5, ReturnKeeps
<1>6. CASE Send
  <2>1. UNCHANGED <<vars, counters, forced, source>> /\ owed' = {} /\ DOMAIN buffer' = {}
        /\ buffer' \in [DOMAIN buffer' -> Entry]
    BY <1>6 DEF Send
  <2>2. TypeOK'
    BY <1>0 DEF FormInv, SlotInv, GraphInv
  <2> QED
    BY <1>0, <2>1, <2>2
       DEF vars, HandlerInv, TrackerInv, TrackerTypeOK, CountersOfMembers, NewestIsBuffered
<1>7. CASE UNCHANGED trackerVars
  <2>1. TypeOK'
    BY <1>0 DEF FormInv, SlotInv, GraphInv
  <2> QED
    BY <1>0, <1>7, <2>1
       DEF trackerVars, vars, HandlerInv, TrackerInv, TrackerTypeOK, CountersOfMembers, NewestIsBuffered
<1> QED
  BY <1>1, <1>2, <1>3, <1>4, <1>5, <1>6, <1>7, TrackerAssumption DEF TrackerStep

\* Exactly the members of the overlay have a counter, and what is buffered for a member is
\* its newest instruction, whatever statuses and departures come.
LEMMA AnyTablesAgree == AnyTracker => []TrackerInv
<1>1. HandlerInv => TrackerInv
  BY DEF HandlerInv
<1> QED
  BY <1>1, InitHandler, NextHandler, PTL DEF AnyTracker

\* The same of the specification that the runs check.
THEOREM TablesAgree == TrackerSpec => []TrackerInv
BY BoundedIsTracker, AnyTablesAgree

-----------------------------------------------------------------------------
(* Answers.                                                                *)

\* The node whose status is answered has no neighbours yet, and formInstructions is on its
\* way to link it: in the loop every other member is a full stranger.
Unanswered ==
  /\ nodes[source] = {}
  /\ pc = "relink" => Missing(self) > 1 /\ targets = DOMAIN nodes \ {self}
  /\ pc = "finish" => DOMAIN nodes = {self}

\* Whoever is owed an answer has one buffered, will be instructed at the end of the call
\* that runs, has a forced call ahead, or is the node whose status is answered.
AnswersInv ==
  /\ HandlerInv
  /\ owed \subseteq DOMAIN buffer \cup forced \cup updated \cup {source}
  /\ source \in owed /\ source \notin updated => Unanswered

\* Nobody waits in the beginning.
LEMMA InitAnswers == TrackerInit => AnswersInv
BY InitHandler DEF TrackerInit, AnswersInv

\* A node that reports no known neighbours has none afterwards.
LEMMA StatusOwes ==
  ASSUME AnswersInv, NEW n \in Node, NEW reported \in SUBSET Node, NEW cnt \in Nat,
         Status(n, reported, cnt), HandlerInv'
  PROVE  AnswersInv'
<1>1. pc = "idle" /\ pc' = "idle" /\ updated' = {} /\ source' = n /\ owed' \subseteq {n}
  BY DEF Status, Ready, NoHandler, AnswersInv, HandlerInv
<1>2. n \in owed' => nodes'[n] = {}
  BY DEF Status, Update
<1> QED
  BY <1>1, <1>2 DEF AnswersInv, Unanswered

\* Unless it is instructed, a node without neighbours goes through formInstructions as it
\* is, and its loop has a target as long as it is not alone.
LEMMA FormAnswers ==
  ASSUME MaxNeighbors >= 2, AnswersInv, HandlerInv', FormStep, UNCHANGED source,
         source \in owed, source \notin updated'
  PROVE  Unanswered'
<1>1. /\ SlotInv /\ SelfWithinLimit /\ TypeOK /\ Symmetric /\ MaxNeighbors \in Nat
      /\ source \in Node
  BY MaxNeighborsAssumption
     DEF AnswersInv, HandlerInv, FormInv, SlotInv, GraphInv, TrackerInv, TrackerTypeOK
<1>2. /\ pc # "idle" /\ pc' # "idle" /\ self' = self /\ DOMAIN nodes' = DOMAIN nodes
      /\ updated \subseteq updated' /\ self \in DOMAIN nodes
  BY <1>1, FormKeepsMembers DEF AnswersInv, TypeOK
<1>3. source = self /\ Unanswered /\ nodes[self] = {}
  BY <1>1, <1>2, TrackerAssumption DEF AnswersInv, HandlerInv, Unanswered
<1>4. Missing(self) = MaxNeighbors
  BY <1>1, <1>3, FS_EmptySet DEF Missing
<1>5. CASE Trim
  BY <1>1, <1>2, <1>3, <1>4, <1>5 DEF Trim, Unanswered, Missing
<1>6. CASE Fill
  <2>1. UNCHANGED nodes
    BY <1>1, <1>2, <1>3, <1>6, FillShape
  <2> QED
    BY <1>2, <1>3, <1>6, <2>1 DEF Fill, Unanswered
<1>7. CASE ChooseTargets
  <2>0. Missing(self) > 1
    BY <1>1, <1>4
  <2>1. /\ pc = "choose" /\ pc' = "relink" /\ UNCHANGED nodes
        /\ targets' = {m \in DOMAIN nodes \ {self} : Missing(m) <= 0 /\ self \notin nodes[m]}
    BY <2>0, <1>7 DEF ChooseTargets
  <2>2. \A m \in DOMAIN nodes \ {self} : self \notin nodes[m] /\ Missing(m) <= 0
    BY <1>1, <1>2, <1>3, <1>4, <2>1 DEF SlotInv, OthersAreFull, Symmetric
  <2>3. Missing(self)' > 1
    BY <1>1, <1>2, <1>4, <2>1 DEF Missing
  <2> QED
    BY <1>2, <1>3, <2>1, <2>2, <2>3 DEF Unanswered
<1>8. ASSUME NEW n1 \in targets, Relink(n1)
      PROVE  FALSE
  <2>1. n1 \in DOMAIN nodes \ {self} /\ pc = "relink"
    BY <1>1, <1>8, RelinkShape
  <2>2. Missing(n1) <= 0
    BY <1>1, <1>2, <1>3, <1>4, <2>1 DEF SlotInv, OthersAreFull, Symmetric
  <2>3. nodes[n1] # {}
    BY <1>1, <2>2, FS_EmptySet DEF Missing
  <2>4. {n \in nodes[n1] : self \notin nodes[n]} # {}
    BY <1>1, <1>3, <2>1, <2>3 DEF Symmetric
  <2>5. self \in updated'
    BY <1>1, <1>8, <2>4, RelinkShape
  <2> QED
    BY <1>3, <2>5
<1>9. CASE RelinkDone
  <2>1. pc = "relink" /\ pc' = "finish" /\ UNCHANGED nodes /\ (Missing(self) <= 1 \/ targets = {})
    BY <1>9 DEF RelinkDone
  <2>2. DOMAIN nodes = {self}
    BY <1>1, <1>2, <1>3, <1>4, <2>1 DEF Unanswered
  <2> QED
    BY <1>2, <1>3, <2>1, <2>2 DEF Unanswered
<1> QED
  BY <1>5, <1>6, <1>7, <1>8, <1>9 DEF FormStep

\* Whatever a handler does next, nobody who is owed an answer is forgotten.
LEMMA NextAnswers ==
  ASSUME MaxNeighbors >= 2, AnswersInv, [TrackerStep]_trackerVars
  PROVE  AnswersInv'
<1>0. HandlerInv'
  BY NextHandler DEF AnswersInv
<1>1. /\ HandlerInv /\ TypeOK /\ TrackerTypeOK /\ NoNode \notin Node
      /\ DOMAIN nodes \subseteq Node
  BY TrackerAssumption DEF AnswersInv, HandlerInv, TrackerInv, TrackerTypeOK, TypeOK
<1>2. ASSUME NEW n \in Node, NEW reported \in SUBSET Node, NEW cnt \in Nat,
             Status(n, reported, cnt)
      PROVE  AnswersInv'
  BY <1>0, <1>2, StatusOwes
<1>3. ASSUME NEW n \in Node, Gone(n)
      PROVE  AnswersInv'
  <2>1. /\ owed' = nodes[n] /\ forced' = nodes[n] /\ source' = NoNode /\ n \in DOMAIN nodes
    BY <1>3 DEF Gone, NoHandler
  <2>2. NoNode \notin nodes[n]
    BY <1>1, <2>1 DEF TypeOK
  <2> QED
    BY <1>0, <2>1, <2>2 DEF AnswersInv
<1>4. ASSUME NEW n \in Node, Call(n)
      PROVE  AnswersInv'
  <2>1. (n \in forced) \in BOOLEAN
    OBVIOUS
  <2>2. /\ UNCHANGED <<nodes, buffer, source, owed>> /\ forced' = forced \ {n} /\ pc = "idle"
        /\ pc' = "trim" /\ updated' = IF n \in forced THEN {n} ELSE {}
        /\ n \in forced \/ n = source
    BY <1>4, <2>1 DEF Call, Begin
  <2>3. updated = {}
    BY <1>1, <2>2 DEF HandlerInv
  <2>4. owed' \subseteq DOMAIN buffer' \cup forced' \cup updated' \cup {source'}
    BY <2>2, <2>3 DEF AnswersInv
  <2> QED
    BY <1>0, <2>2, <2>3, <2>4 DEF AnswersInv, Unanswered
<1>5. CASE Form
  <2>1. /\ FormStep /\ UNCHANGED <<counters, buffer, forced, source, owed>>
        /\ updated \subseteq updated'
    BY <1>1, <1>5, FormKeepsMembers DEF Form
  <2>2. owed' \subseteq DOMAIN buffer' \cup forced' \cup updated' \cup {source'}
    BY <2>1 DEF AnswersInv
  <2>3. source \in owed /\ source \notin updated' => Unanswered'
    BY <1>0, <2>1, FormAnswers
  <2> QED
    BY <1>0, <2>1, <2>2, <2>3 DEF AnswersInv
<1>6. CASE Return
  <2>1. /\ pc = "finish" /\ pc' = "idle" /\ UNCHANGED <<nodes, forced, owed>> /\ updated' = {}
        /\ source' = IF source = self THEN NoNode ELSE source
    BY <1>6 DEF Return, Finish
  <2>2. self \in DOMAIN nodes /\ owed \subseteq Node
    BY <1>1, <2>1 DEF TypeOK, TrackerTypeOK
  <2>3. DOMAIN buffer \cup updated \subseteq DOMAIN buffer'
    BY <1>6 DEF Return, Buffered
  <2>4. source = self /\ self \in owed => self \in DOMAIN buffer'
    <3>1. CASE self \in updated
      BY <2>3, <3>1
    <3>2. CASE self \notin updated
      <4> SUFFICES ASSUME source = self, self \in owed PROVE self \in DOMAIN buffer'
        OBVIOUS
      <4>1. DOMAIN nodes = {self}
        BY <2>1, <3>2 DEF AnswersInv, Unanswered
      <4>2. CASE updated = {}
        BY <1>6, <4>1, <4>2 DEF Return, Buffered
      <4>3. CASE updated # {}
        BY <1>1, <2>1, <4>1, <4>3, <3>2 DEF TypeOK
      <4> QED
        BY <4>2, <4>3
    <3> QED
      BY <3>1, <3>2
  <2>5. owed' \subseteq DOMAIN buffer' \cup forced' \cup updated' \cup {source'}
    BY <2>1, <2>3, <2>4 DEF AnswersInv
  <2>6. source' \in owed' => source' = NoNode
    BY <1>1, <2>1 DEF AnswersInv, HandlerInv
  <2> QED
    BY <1>0, <1>1, <2>1, <2>2, <2>5, <2>6 DEF AnswersInv
<1>7. CASE Send
  BY <1>0, <1>7 DEF Send, AnswersInv
<1>8. CASE UNCHANGED trackerVars
  BY <1>0, <1>8 DEF trackerVars, vars, AnswersInv, Unanswered, Missing
<1> QED
  BY <1>2, <1>3, <1>4, <1>5, <1>6, <1>7, <1>8, TrackerAssumption DEF TrackerStep

\* A node that joins, and every neighbour of a node that left, has an instruction or an ack
\* in the buffer when the handler is done, whatever was reported before.
LEMMA AnyOwedGetAnswers ==
  ASSUME MaxNeighbors >= 2
  PROVE  AnyTracker => []OwedAreAnswered
<1>1. AnswersInv => OwedAreAnswered
  <2> SUFFICES ASSUME AnswersInv, NoHandler PROVE owed \subseteq DOMAIN buffer
    BY DEF OwedAreAnswered
  <2>1. updated = {} /\ forced = {} /\ source = NoNode /\ source \notin owed
    BY TrackerAssumption
       DEF AnswersInv, HandlerInv, TrackerInv, TrackerTypeOK, NoHandler
  <2> QED
    BY <2>1 DEF AnswersInv
<1>2. AnswersInv /\ [TrackerStep]_trackerVars => AnswersInv'
  BY NextAnswers
<1> QED
  BY <1>1, <1>2, InitAnswers, PTL DEF AnyTracker

\* The same of the specification that the runs check.
THEOREM OwedGetAnswers ==
  ASSUME MaxNeighbors >= 2
  PROVE  TrackerSpec => []OwedAreAnswered
BY BoundedIsTracker, AnyOwedGetAnswers

-----------------------------------------------------------------------------
(* The tracker among its nodes.                                            *)

\* What a node is sent, and what is left, is of the kind that was put in.
LEMMA TakenFromSeq ==
  ASSUME NEW S, NEW q \in Seq(S), q # <<>>
  PROVE  Head(q) \in S /\ Tail(q) \in Seq(S)
BY HeadTailProperties

\* A list without one of its elements.
LEMMA RemovedFromSeq ==
  ASSUME NEW S, NEW q \in Seq(S), NEW k \in DOMAIN q
  PROVE  RemoveAt(q, k) \in Seq(S)
<1>1. Len(q) \in Nat /\ DOMAIN q = 1 .. Len(q) /\ k \in 1 .. Len(q)
  BY LenProperties
<1>2. SubSeq(q, 1, k - 1) \in Seq(S)
  BY <1>1, SubSeqProperties
<1>3. SubSeq(q, k + 1, Len(q)) \in Seq(S)
  BY <1>1, SubSeqProperties
<1> QED
  BY <1>2, <1>3, ConcatProperties DEF RemoveAt

\* A list with every element replaced.
LEMMA MappedSeq ==
  ASSUME NEW S, NEW q \in Seq(S), NEW f, DOMAIN f = DOMAIN q, f = [k \in DOMAIN f |-> f[k]],
         \A k \in DOMAIN q : f[k] \in S
  PROVE  f \in Seq(S)
<1>1. Len(q) \in Nat /\ DOMAIN q = 1 .. Len(q)
  BY LenProperties
<1>2. f \in [1 .. Len(q) -> S]
  BY <1>1
<1> QED
  BY <1>1, <1>2, SeqDef

\* An element of a list.
LEMMA AtSeq ==
  ASSUME NEW S, NEW q \in Seq(S), NEW k \in DOMAIN q
  PROVE  q[k] \in S
BY ElementOfSeq, LenProperties

\* The state of one node, by its parts.
LEMMA NodeTyped ==
  ASSUME NEW r \in NodeState
  PROVE  /\ r.joined \in BOOLEAN /\ r.nbrs \subseteq Node /\ r.cnt \in Nat
         /\ r.queue \in Instr \cup {Nothing} /\ r.highest \in Nat /\ r.handling \in BOOLEAN
         /\ r.timer \in Instr \cup {Nothing} /\ r.tries \in Nat /\ r.runs \in Seq(NodeRun)
BY DEF NodeState

\* Where the nodes' neighbours are among their connections.
LEMMA NodeAt ==
  ASSUME NodesTypeOK, NEW n \in Node
  PROVE  /\ node[n] \in NodeState /\ view[n] \subseteq Node /\ closing[n] \subseteq Node
         /\ up[n] \in Seq(NodeStatus) \cup {Nothing} /\ down[n] \in Seq(Instr)
         /\ told[n] \subseteq Node
BY DEF NodesTypeOK

\* A status is one.
LEMMA StatusTyped ==
  ASSUME NEW r \in NodeState
  PROVE  StatusOf(r) \in NodeStatus /\ <<StatusOf(r)>> \in Seq(NodeStatus)
<1>1. StatusOf(r) \in NodeStatus
  BY NodeTyped DEF StatusOf, NodeStatus
<1> QED
  BY <1>1

\* What is sent is added to what is under way.
LEMMA SentTyped ==
  ASSUME NodesTypeOK, NEW n \in Node, NEW q \in Seq(NodeStatus), Sent(n, q)
  PROVE  up' \in [Node -> Seq(NodeStatus) \cup {Nothing}]
<1>1. up \in [Node -> Seq(NodeStatus) \cup {Nothing}]
  BY DEF NodesTypeOK
<1>2. CASE up[n] = Nothing
  BY <1>1, <1>2 DEF Sent
<1>3. CASE up[n] # Nothing
  <2>1. up[n] \o q \in Seq(NodeStatus)
    BY <1>1, <1>3, ConcatProperties
  <2>2. up' = [up EXCEPT ![n] = up[n] \o q]
    BY <1>3 DEF Sent
  <2> QED
    BY <1>1, <2>1, <2>2
<1> QED
  BY <1>2, <1>3

\* A run that starts keeps what it was told, and neighbours are connected from the start.
LEMMA StartedTyped ==
  ASSUME NodesTypeOK, NEW n \in Node, NEW r \in NodeState, NEW i \in Instr,
         NEW by \in {"throttler", "retry", "nobody"}, NEW again \in BOOLEAN
  PROVE  /\ Started(n, r, i, by, again) \in NodeState
         /\ r.nbrs \subseteq view[n] => Started(n, r, i, by, again).nbrs \subseteq view[n]
<1>1. view[n] \subseteq Node /\ i.nodes \subseteq Node
  BY NodeAt DEF Instr
<1>2. RunOf(n, r, i, by, again) \in NodeRun
  BY <1>1, NodeTyped DEF RunOf, NodeRun
<1>3. Append(r.runs, RunOf(n, r, i, by, again)) \in Seq(NodeRun)
  BY <1>2, NodeTyped, AppendProperties
<1> DEFINE s == [r EXCEPT !.runs = Append(@, RunOf(n, r, i, by, again))]
<1>4. s \in NodeState /\ s.nbrs = r.nbrs
  BY <1>3 DEF NodeState
<1>5. CASE ~r.joined
  BY <1>4, <1>5 DEF Started
<1>6. CASE r.joined
  <2> DEFINE new == (r.nbrs \cap i.nodes) \cup (i.nodes \cap view[n])
  <2>1. Started(n, r, i, by, again) = [s EXCEPT !.timer = i, !.tries = 0, !.nbrs = new]
    BY <1>4, <1>6 DEF Started, NodeState
  <2>2. new \subseteq Node /\ i \in Instr \cup {Nothing}
    BY <1>1
  <2>3. r.nbrs \subseteq view[n] => new \subseteq view[n]
    OBVIOUS
  <2> DEFINE s1 == [s EXCEPT !.timer = i]
             s2 == [s1 EXCEPT !.tries = 0]
             s3 == [s2 EXCEPT !.nbrs = new]
  <2> HIDE DEF s, new
  <2>5. s1 \in NodeState
    BY <1>4, <2>2 DEF NodeState
  <2>6. s2 \in NodeState
    <3> HIDE DEF s1
    <3> QED
      BY <2>5 DEF NodeState
  <2>7. s3 \in NodeState /\ s3.nbrs = new
    <3> HIDE DEF s1, s2
    <3> QED
      BY <2>6, <2>2 DEF NodeState
  <2>4. /\ Started(n, r, i, by, again) \in NodeState
        /\ Started(n, r, i, by, again).nbrs = new
    <3>1. Started(n, r, i, by, again) = s3
      BY <2>1
    <3> HIDE DEF s3
    <3> QED
      BY <3>1, <2>7
  <2> QED
    BY <2>3, <2>4
<1> QED
  BY <1>5, <1>6

\* Disconnection timers are those of nodes.
LEMMA ClosingTyped ==
  ASSUME NodesTypeOK, NEW n \in Node, NEW r \in NodeState, NEW i \in Instr
  PROVE  ClosingAfter(n, r, i) \in [Node -> SUBSET Node]
<1>1. closing \in [Node -> SUBSET Node] /\ r.nbrs \subseteq Node
  BY NodeTyped DEF NodesTypeOK
<1> QED
  BY <1>1 DEF ClosingAfter

\* The attempts of all runs settle; the rest stays.
LEMMA SettledTyped ==
  ASSUME NEW r \in NodeState, NEW p \in Node, NEW ok \in BOOLEAN
  PROVE  Settled(r, p, ok) \in NodeState /\ Settled(r, p, ok).nbrs = r.nbrs
<1>1. r.runs \in Seq(NodeRun)
  BY NodeTyped
<1>2. ASSUME NEW k \in DOMAIN r.runs
      PROVE  SettledRun(r.runs[k], p, ok) \in NodeRun
  <2>1. r.runs[k] \in NodeRun
    BY <1>1, AtSeq
  <2> QED
    BY <2>1 DEF SettledRun, NodeRun
<1> DEFINE f == [k \in DOMAIN r.runs |-> SettledRun(r.runs[k], p, ok)]
<1>3. f \in Seq(NodeRun)
  <2>1. DOMAIN f = DOMAIN r.runs /\ f = [k \in DOMAIN f |-> f[k]] /\ \A k \in DOMAIN r.runs : f[k] \in NodeRun
    BY <1>2
  <2> HIDE DEF f
  <2> QED
    BY <1>1, <2>1, MappedSeq
<1>4. Settled(r, p, ok) = [r EXCEPT !.runs = f]
  BY DEF Settled
<1> HIDE DEF f
<1> QED
  BY <1>3, <1>4 DEF NodeState

\* So do the runs nobody waits for any more, of a node that starts afresh.
LEMMA AbandonedTyped ==
  ASSUME NEW r \in NodeState
  PROVE  LET fresh == [Fresh EXCEPT !.runs = [k \in DOMAIN r.runs |-> Abandoned(r.runs[k])]]
         IN  fresh \in NodeState /\ fresh.nbrs = {}
<1>1. r.runs \in Seq(NodeRun)
  BY NodeTyped
<1>2. ASSUME NEW k \in DOMAIN r.runs
      PROVE  Abandoned(r.runs[k]) \in NodeRun
  <2>1. r.runs[k] \in NodeRun
    BY <1>1, AtSeq
  <2> QED
    BY <2>1 DEF Abandoned, NodeRun
<1> DEFINE f == [k \in DOMAIN r.runs |-> Abandoned(r.runs[k])]
<1>3. f \in Seq(NodeRun)
  <2>1. DOMAIN f = DOMAIN r.runs /\ f = [k \in DOMAIN f |-> f[k]] /\ \A k \in DOMAIN r.runs : f[k] \in NodeRun
    BY <1>2
  <2> HIDE DEF f
  <2> QED
    BY <1>1, <2>1, MappedSeq
<1> HIDE DEF f
<1>4. [Fresh EXCEPT !.runs = f] \in NodeState /\ [Fresh EXCEPT !.runs = f].nbrs = {}
  BY <1>3 DEF NodeState, Fresh
<1> QED
  BY <1>4 DEF f

\* A step that changes one node, which keeps its neighbours among its connections.
LEMMA OneNode ==
  ASSUME NodesTypeOK, NeighborsAreConnected, NEW n \in Node, NEW r \in NodeState,
         r.nbrs \subseteq view[n], node' = [node EXCEPT ![n] = r], view' = view
  PROVE  node' \in [Node -> NodeState] /\ NeighborsAreConnected'
<1>1. node \in [Node -> NodeState]
  BY DEF NodesTypeOK
<1>2. node' \in [Node -> NodeState] /\ \A m \in Node : node'[m] = IF m = n THEN r ELSE node[m]
  BY <1>1
<1> QED
  BY <1>2 DEF NeighborsAreConnected

\* What the nodes' own steps keep.
NodesKept ==
  /\ node' \in [Node -> NodeState] /\ NeighborsAreConnected'
  /\ up' \in [Node -> Seq(NodeStatus) \cup {Nothing}]
  /\ closing' \in [Node -> SUBSET Node]

\* A run ends, and the next begins.
LEMMA EndRunKeeps ==
  ASSUME NodesTypeOK, NeighborsAreConnected, NEW n \in Node, EndRun(n)
  PROVE  NodesKept
<1>0. PICK k \in DOMAIN node[n].runs :
      LET run  == node[n].runs[k]
          old  == [node[n] EXCEPT !.runs = RemoveAt(@, k)]
          r    == IF run.early \/ ~old.joined THEN old ELSE [old EXCEPT !.cnt = run.instr.counter]
          next == IF run.by = "throttler" THEN r.queue ELSE Nothing
      IN  /\ run.pending = {}
          /\ Sent(n, IF ~run.early /\ (~run.again \/ run.failed) THEN <<StatusOf(r)>> ELSE <<>>)
          /\ closing' = IF next # Nothing THEN ClosingAfter(n, r, next) ELSE closing
          /\ node' = [node EXCEPT ![n] =
               IF next # Nothing
               THEN Started(n, [r EXCEPT !.queue = Nothing], next, "throttler", FALSE)
               ELSE IF run.by = "throttler" THEN [r EXCEPT !.handling = FALSE]
               ELSE IF run.by = "retry" /\ r.timer # Nothing
               THEN [r EXCEPT !.timer = run.instr, !.tries = @ + 1]
               ELSE r]
  BY DEF EndRun
<1> DEFINE run  == node[n].runs[k]
           old  == [node[n] EXCEPT !.runs = RemoveAt(@, k)]
           r    == IF run.early \/ ~old.joined THEN old ELSE [old EXCEPT !.cnt = run.instr.counter]
           next == IF run.by = "throttler" THEN r.queue ELSE Nothing
           timed == [r EXCEPT !.timer = run.instr, !.tries = @ + 1]
           free == [r EXCEPT !.handling = FALSE]
           begun == Started(n, [r EXCEPT !.queue = Nothing], next, "throttler", FALSE)
<1>1. view' = view
  BY DEF EndRun
<1>2. node[n] \in NodeState /\ node[n].runs \in Seq(NodeRun) /\ node[n].nbrs \subseteq view[n]
  BY NodeAt, NodeTyped DEF NeighborsAreConnected
<1>3. run \in NodeRun
  BY <1>2, AtSeq
<1>4. run.instr \in Instr /\ run.instr.counter \in Nat
  BY <1>3 DEF NodeRun, Instr
<1>5. old \in NodeState /\ old.nbrs = node[n].nbrs
  <2>1. RemoveAt(node[n].runs, k) \in Seq(NodeRun)
    BY <1>2, RemovedFromSeq
  <2> QED
    BY <1>2, <2>1 DEF NodeState
<1> HIDE DEF run, old
<1>6. r \in NodeState /\ r.nbrs = node[n].nbrs
  BY <1>4, <1>5 DEF NodeState
<1>7. next # Nothing => next \in Instr
  BY <1>6, NodeTyped
<1> HIDE DEF r
<1>8. up' \in [Node -> Seq(NodeStatus) \cup {Nothing}]
  <2> DEFINE q == IF ~run.early /\ (~run.again \/ run.failed) THEN <<StatusOf(r)>> ELSE <<>>
  <2>1. q \in Seq(NodeStatus)
    BY <1>6, StatusTyped, EmptySeq
  <2>2. Sent(n, q)
    BY <1>0 DEF r, run, old
  <2> HIDE DEF q
  <2> QED
    BY <2>1, <2>2, SentTyped
<1>9. closing' \in [Node -> SUBSET Node]
  <2>1. closing' = IF next # Nothing THEN ClosingAfter(n, r, next) ELSE closing
    BY <1>0 DEF r, run, old
  <2>2. closing \in [Node -> SUBSET Node]
    BY DEF NodesTypeOK
  <2> HIDE DEF next
  <2> QED
    BY <1>6, <1>7, <2>1, <2>2, ClosingTyped
<1>10. node' = [node EXCEPT ![n] = IF next # Nothing THEN begun
               ELSE IF run.by = "throttler" THEN free
               ELSE IF run.by = "retry" /\ r.timer # Nothing THEN timed ELSE r]
  BY <1>0 DEF r, run, old
<1>11. next # Nothing => begun \in NodeState /\ begun.nbrs \subseteq view[n]
  <2> HIDE DEF next
  <2>1. [r EXCEPT !.queue = Nothing] \in NodeState /\ [r EXCEPT !.queue = Nothing].nbrs = r.nbrs
    BY <1>6 DEF NodeState
  <2> QED
    BY <1>2, <1>6, <1>7, <2>1, StartedTyped
<1>12. free \in NodeState /\ free.nbrs = r.nbrs
  BY <1>6 DEF NodeState
<1>13. timed \in NodeState /\ timed.nbrs = r.nbrs
  <2> DEFINE one == [r EXCEPT !.timer = run.instr]
  <2>1. one \in NodeState /\ one.nbrs = r.nbrs /\ one.tries \in Nat
    BY <1>4, <1>6 DEF NodeState
  <2>2. timed = [one EXCEPT !.tries = one.tries + 1]
    BY <1>6 DEF NodeState
  <2> HIDE DEF one
  <2> DEFINE two == [one EXCEPT !.tries = one.tries + 1]
  <2>3. two \in NodeState /\ two.nbrs = r.nbrs
    BY <2>1 DEF NodeState
  <2> HIDE DEF two, timed
  <2>4. timed = two
    BY <2>2 DEF two
  <2> QED
    BY <2>3, <2>4
<1> DEFINE new == IF next # Nothing THEN begun
               ELSE IF run.by = "throttler" THEN free
               ELSE IF run.by = "retry" /\ r.timer # Nothing THEN timed ELSE r
<1>14. new \in NodeState /\ new.nbrs \subseteq view[n]
  <2> HIDE DEF begun, free, timed, next
  <2> QED
    BY <1>2, <1>6, <1>11, <1>12, <1>13
<1>15. node' = [node EXCEPT ![n] = new]
  BY <1>10
<1> HIDE DEF new
<1> QED
  BY <1>1, <1>8, <1>9, <1>14, <1>15, OneNode DEF NodesKept

\* An instruction is taken up, queued or ignored.
LEMMA ReceiveKeeps ==
  ASSUME NodesTypeOK, NeighborsAreConnected, NEW n \in Node, Receive(n)
  PROVE  NodesKept /\ down' \in [Node -> Seq(Instr)]
<1> DEFINE i == Head(down[n])
           r == [node[n] EXCEPT !.highest = i.counter]
           queued == [r EXCEPT !.queue = i]
           held == [r EXCEPT !.handling = TRUE]
           begun == Started(n, held, i, "throttler", FALSE)
<1>1. node[n] \in NodeState /\ node[n].nbrs \subseteq view[n] /\ down[n] \in Seq(Instr)
  BY NodeAt DEF NeighborsAreConnected
<1>2. /\ view' = view /\ up' = up /\ down' = [down EXCEPT ![n] = Tail(down[n])] /\ down[n] # <<>>
      /\ \/ node' = node /\ closing' = closing
         \/ node' = [node EXCEPT ![n] = queued] /\ closing' = closing
         \/ node' = [node EXCEPT ![n] = begun] /\ closing' = ClosingAfter(n, r, i)
  BY DEF Receive
<1>3. i \in Instr /\ i.counter \in Nat /\ Tail(down[n]) \in Seq(Instr)
  <2>1. i \in Instr /\ Tail(down[n]) \in Seq(Instr)
    BY <1>1, <1>2, TakenFromSeq
  <2> QED
    BY <2>1 DEF Instr
<1> HIDE DEF i
<1>4. r \in NodeState /\ r.nbrs = node[n].nbrs
  BY <1>1, <1>3 DEF NodeState
<1> HIDE DEF r
<1>5. queued \in NodeState /\ queued.nbrs = r.nbrs
  BY <1>3, <1>4 DEF NodeState
<1>6. held \in NodeState /\ held.nbrs = r.nbrs
  BY <1>4 DEF NodeState
<1> HIDE DEF queued, held
<1>7. begun \in NodeState /\ begun.nbrs \subseteq view[n]
  BY <1>1, <1>3, <1>4, <1>6, StartedTyped
<1> HIDE DEF begun
<1>8. down' \in [Node -> Seq(Instr)]
  BY <1>2, <1>3 DEF NodesTypeOK
<1>9. up' \in [Node -> Seq(NodeStatus) \cup {Nothing}]
  BY <1>2 DEF NodesTypeOK
<1>10. closing' \in [Node -> SUBSET Node]
  BY <1>2, <1>3, <1>4, ClosingTyped DEF NodesTypeOK
<1>11. CASE node' = node
  BY <1>2, <1>8, <1>9, <1>10, <1>11 DEF NodesKept, NodesTypeOK, NeighborsAreConnected
<1>12. CASE node' = [node EXCEPT ![n] = queued]
  BY <1>1, <1>2, <1>4, <1>5, <1>8, <1>9, <1>10, <1>12, OneNode DEF NodesKept
<1>13. CASE node' = [node EXCEPT ![n] = begun]
  BY <1>2, <1>7, <1>8, <1>9, <1>10, <1>13, OneNode DEF NodesKept
<1> QED
  BY <1>2, <1>11, <1>12, <1>13

\* The last instruction is taken up again.
LEMMA RetryKeeps ==
  ASSUME NodesTypeOK, NeighborsAreConnected, NEW n \in Node, Retry(n)
  PROVE  NodesKept
<1> DEFINE i == node[n].timer
           again == node[n].tries # 0
           begun == Started(n, node[n], i, "retry", again)
<1>1. node[n] \in NodeState /\ node[n].nbrs \subseteq view[n] /\ again \in BOOLEAN
  BY NodeAt DEF NeighborsAreConnected
<1>2. /\ view' = view /\ up' = up /\ i # Nothing
      /\ node' = [node EXCEPT ![n] = begun] /\ closing' = ClosingAfter(n, node[n], i)
  BY DEF Retry, wires
<1>3. i \in Instr
  BY <1>1, <1>2, NodeTyped
<1> HIDE DEF i, again
<1>4. begun \in NodeState /\ begun.nbrs \subseteq view[n]
  BY <1>1, <1>3, StartedTyped
<1>5. closing' \in [Node -> SUBSET Node]
  BY <1>1, <1>2, <1>3, ClosingTyped
<1> HIDE DEF begun
<1>6. up' \in [Node -> Seq(NodeStatus) \cup {Nothing}]
  BY <1>2 DEF NodesTypeOK
<1> QED
  BY <1>2, <1>4, <1>5, <1>6, OneNode DEF NodesKept

\* The application subscribes ...
LEMMA SubscribeKeeps ==
  ASSUME NodesTypeOK, NeighborsAreConnected, NEW n \in Node, Subscribe(n)
  PROVE  NodesKept
<1> DEFINE r == [node[n] EXCEPT !.joined = TRUE, !.nbrs = {}, !.cnt = 0]
<1>1. node[n] \in NodeState /\ node \in [Node -> NodeState]
  BY NodeAt DEF NodesTypeOK
<1>2. r \in NodeState /\ r.nbrs = {}
  BY <1>1 DEF NodeState
<1>3. view' = view /\ closing' = closing /\ node' = [node EXCEPT ![n] = r] /\ Sent(n, <<StatusOf(node'[n])>>)
  BY DEF Subscribe, peers
<1> HIDE DEF r
<1>4. node'[n] = r
  BY <1>1, <1>3
<1>5. up' \in [Node -> Seq(NodeStatus) \cup {Nothing}]
  BY <1>2, <1>3, <1>4, StatusTyped, SentTyped
<1>6. closing' \in [Node -> SUBSET Node]
  BY <1>3 DEF NodesTypeOK
<1> QED
  BY <1>2, <1>3, <1>5, <1>6, OneNode DEF NodesKept

\* ... and unsubscribes.
LEMMA UnsubscribeKeeps ==
  ASSUME NodesTypeOK, NeighborsAreConnected, NEW n \in Node, Unsubscribe(n)
  PROVE  NodesKept
<1> DEFINE r == [Fresh EXCEPT !.runs = [k \in DOMAIN node[n].runs |-> Abandoned(node[n].runs[k])]]
<1>1. node[n] \in NodeState
  BY NodeAt
<1>2. r \in NodeState /\ r.nbrs = {}
  BY <1>1, AbandonedTyped
<1>3. view' = view /\ closing' = closing /\ node' = [node EXCEPT ![n] = r] /\ Sent(n, <<Leaving>>)
  BY DEF Unsubscribe, peers
<1> HIDE DEF r
<1>4. <<Leaving>> \in Seq(NodeStatus)
  <2>1. Leaving \in NodeStatus
    BY DEF NodeStatus
  <2> QED
    BY <2>1
<1>5. up' \in [Node -> Seq(NodeStatus) \cup {Nothing}]
  BY <1>3, <1>4, SentTyped
<1>6. closing' \in [Node -> SUBSET Node]
  BY <1>3 DEF NodesTypeOK
<1> QED
  BY <1>2, <1>3, <1>5, <1>6, OneNode DEF NodesKept

\* A connection opens: it is there before the peer becomes a neighbour.
LEMMA OpenedKeeps ==
  ASSUME NodesTypeOK, NeighborsAreConnected, NEW n \in Node, NEW p \in Node, Opened(n, p)
  PROVE  NodesKept /\ view' \in [Node -> SUBSET Node]
<1> DEFINE good == With(Settled(node[n], p, TRUE), p)
           bad == Settled(node[n], p, FALSE)
<1>1. node[n] \in NodeState /\ node[n].nbrs \subseteq view[n] /\ view \in [Node -> SUBSET Node]
      /\ node \in [Node -> NodeState] /\ closing \in [Node -> SUBSET Node]
  BY NodeAt DEF NeighborsAreConnected, NodesTypeOK
<1>2. /\ view' = [view EXCEPT ![n] = view[n] \cup {p}] /\ up' = up
      /\ \/ node' = node /\ closing' = closing
         \/ /\ node' = [node EXCEPT ![n] = good] \/ node' = [node EXCEPT ![n] = bad]
            /\ closing' = [closing EXCEPT ![n] = closing[n] \ {p}]
  BY DEF Opened, wires
<1>3. view' \in [Node -> SUBSET Node] /\ closing' \in [Node -> SUBSET Node]
  BY <1>1, <1>2
<1>4. \A m \in Node : view'[m] = IF m = n THEN view[n] \cup {p} ELSE view[m]
  BY <1>1, <1>2
<1>5. bad \in NodeState /\ bad.nbrs = node[n].nbrs
  BY <1>1, SettledTyped
<1>6. good \in NodeState /\ good.nbrs = node[n].nbrs \cup {p}
  <2> DEFINE s == Settled(node[n], p, TRUE)
  <2>1. s \in NodeState /\ s.nbrs = node[n].nbrs
    BY <1>1, SettledTyped
  <2>2. s.nbrs \cup {p} \subseteq Node
    BY <2>1, NodeTyped
  <2> HIDE DEF s
  <2>3. With(s, p) \in NodeState /\ With(s, p).nbrs = s.nbrs \cup {p}
    BY <2>1, <2>2 DEF With, NodeState
  <2> QED
    BY <2>1, <2>3 DEF s
<1>7. up' \in [Node -> Seq(NodeStatus) \cup {Nothing}]
  BY <1>2 DEF NodesTypeOK
<1> HIDE DEF good, bad
<1>8. ASSUME NEW r \in NodeState, r.nbrs \subseteq node[n].nbrs \cup {p}, node' = [node EXCEPT ![n] = r]
      PROVE  node' \in [Node -> NodeState] /\ NeighborsAreConnected'
  <2>1. node' \in [Node -> NodeState] /\ \A m \in Node : node'[m] = IF m = n THEN r ELSE node[m]
    BY <1>1, <1>8
  <2> QED
    BY <1>1, <1>4, <1>8, <2>1 DEF NeighborsAreConnected
<1>9. CASE node' = node
  BY <1>1, <1>3, <1>4, <1>7, <1>9 DEF NodesKept, NeighborsAreConnected
<1>10. CASE node' = [node EXCEPT ![n] = good]
  BY <1>3, <1>6, <1>7, <1>8, <1>10 DEF NodesKept
<1>11. CASE node' = [node EXCEPT ![n] = bad]
  BY <1>3, <1>5, <1>7, <1>8, <1>11 DEF NodesKept
<1> QED
  BY <1>2, <1>3, <1>9, <1>10, <1>11

\* An attempt fails.
LEMMA FailsKeeps ==
  ASSUME NodesTypeOK, NeighborsAreConnected, NEW n \in Node, NEW p \in Node, Fails(n, p)
  PROVE  NodesKept
<1> DEFINE r == Settled(node[n], p, FALSE)
<1>1. node[n] \in NodeState /\ node[n].nbrs \subseteq view[n]
  BY NodeAt DEF NeighborsAreConnected
<1>2. r \in NodeState /\ r.nbrs = node[n].nbrs
  BY <1>1, SettledTyped
<1>3. node' = [node EXCEPT ![n] = r] /\ view' = view /\ up' = up /\ closing' = closing
  BY DEF Fails, peers, wires
<1> HIDE DEF r
<1>4. up' \in [Node -> Seq(NodeStatus) \cup {Nothing}] /\ closing' \in [Node -> SUBSET Node]
  BY <1>3 DEF NodesTypeOK
<1> QED
  BY <1>1, <1>2, <1>3, <1>4, OneNode DEF NodesKept

\* A node without one of its neighbours.
LEMMA WithoutTyped ==
  ASSUME NEW r \in NodeState, NEW p
  PROVE  Without(r, p) \in NodeState /\ Without(r, p).nbrs = r.nbrs \ {p}
<1>1. r.nbrs \ {p} \subseteq Node
  BY NodeTyped
<1> QED
  BY <1>1 DEF Without, NodeState

\* A connection is lost, and the neighbour with it.
LEMMA LostKeeps ==
  ASSUME NodesTypeOK, NeighborsAreConnected, NEW n \in Node, NEW p \in Node, Lost(n, p)
  PROVE  NodesKept /\ view' \in [Node -> SUBSET Node]
<1> DEFINE r == Without(node[n], p)
           q == IF p \in node[n].nbrs THEN <<StatusOf(node'[n])>> ELSE <<>>
<1>1. node[n] \in NodeState /\ node[n].nbrs \subseteq view[n] /\ view \in [Node -> SUBSET Node]
      /\ node \in [Node -> NodeState]
  BY NodeAt DEF NeighborsAreConnected, NodesTypeOK
<1>2. r \in NodeState /\ r.nbrs = node[n].nbrs \ {p}
  BY <1>1, WithoutTyped
<1>3. /\ view' = [view EXCEPT ![n] = view[n] \ {p}] /\ closing' = closing
      /\ node' = [node EXCEPT ![n] = r] /\ Sent(n, q)
  BY DEF Lost
<1> HIDE DEF r
<1>4. node' \in [Node -> NodeState] /\ \A m \in Node : node'[m] = IF m = n THEN r ELSE node[m]
  BY <1>1, <1>2, <1>3
<1>5. q \in Seq(NodeStatus)
  BY <1>2, <1>4, StatusTyped, EmptySeq
<1> HIDE DEF q
<1>6. up' \in [Node -> Seq(NodeStatus) \cup {Nothing}] /\ closing' \in [Node -> SUBSET Node]
  BY <1>3, <1>5, SentTyped DEF NodesTypeOK
<1>7. view' \in [Node -> SUBSET Node] /\ \A m \in Node : view'[m] = IF m = n THEN view[n] \ {p} ELSE view[m]
  BY <1>1, <1>3
<1>8. NeighborsAreConnected'
  BY <1>1, <1>2, <1>4, <1>7 DEF NeighborsAreConnected
<1> QED
  BY <1>4, <1>6, <1>7, <1>8 DEF NodesKept

\* Deliveries to a neighbour fail.
LEMMA DeliveriesFailKeeps ==
  ASSUME NodesTypeOK, NeighborsAreConnected, NEW n \in Node, NEW p \in Node, DeliveriesFail(n, p)
  PROVE  NodesKept
<1> DEFINE r == Without(node[n], p)
<1>1. node[n] \in NodeState /\ node[n].nbrs \subseteq view[n] /\ node \in [Node -> NodeState]
  BY NodeAt DEF NeighborsAreConnected, NodesTypeOK
<1>2. r \in NodeState /\ r.nbrs = node[n].nbrs \ {p}
  BY <1>1, WithoutTyped
<1>3. /\ view' = view /\ closing' = closing
      /\ node' = [node EXCEPT ![n] = r] /\ Sent(n, <<StatusOf(node'[n])>>)
  BY DEF DeliveriesFail, peers
<1> HIDE DEF r
<1>4. node'[n] = r
  BY <1>1, <1>3
<1>5. <<StatusOf(node'[n])>> \in Seq(NodeStatus)
  BY <1>2, <1>4, StatusTyped
<1>6. up' \in [Node -> Seq(NodeStatus) \cup {Nothing}] /\ closing' \in [Node -> SUBSET Node]
  BY <1>3, <1>5, SentTyped DEF NodesTypeOK
<1> QED
  BY <1>1, <1>2, <1>3, <1>6, OneNode DEF NodesKept

\* A disconnection timer closes no connection to a neighbour.
LEMMA DisconnectionTimerKeeps ==
  ASSUME NodesTypeOK, NeighborsAreConnected, NEW n \in Node, NEW p \in Node, DisconnectionTimer(n, p)
  PROVE  NodesKept /\ view' \in [Node -> SUBSET Node] /\ links' \subseteq SUBSET Node
<1> DEFINE r == Settled(node[n], p, FALSE)
<1>1. node[n] \in NodeState /\ node[n].nbrs \subseteq view[n] /\ view \in [Node -> SUBSET Node]
      /\ node \in [Node -> NodeState] /\ closing \in [Node -> SUBSET Node] /\ links \subseteq SUBSET Node
  BY NodeAt DEF NeighborsAreConnected, NodesTypeOK
<1>2. r \in NodeState /\ r.nbrs = node[n].nbrs
  BY <1>1, SettledTyped
<1>3. /\ closing' = [closing EXCEPT ![n] = closing[n] \ {p}] /\ up' = up
      /\ \/ UNCHANGED <<links, view, node>>
         \/ /\ p \notin node[n].nbrs /\ links' = links \ {{n, p}}
            /\ view' = [view EXCEPT ![n] = view[n] \ {p}]
            /\ node' = [node EXCEPT ![n] = r]
  BY DEF DisconnectionTimer, wires
<1> HIDE DEF r
<1>4. closing' \in [Node -> SUBSET Node] /\ up' \in [Node -> Seq(NodeStatus) \cup {Nothing}]
  BY <1>1, <1>3 DEF NodesTypeOK
<1>5. CASE UNCHANGED <<links, view, node>>
  BY <1>1, <1>4, <1>5 DEF NodesKept, NeighborsAreConnected
<1>6. CASE /\ p \notin node[n].nbrs /\ links' = links \ {{n, p}}
           /\ view' = [view EXCEPT ![n] = view[n] \ {p}]
           /\ node' = [node EXCEPT ![n] = r]
  <2>1. node' \in [Node -> NodeState] /\ \A m \in Node : node'[m] = IF m = n THEN r ELSE node[m]
    BY <1>1, <1>2, <1>6
  <2>2. view' \in [Node -> SUBSET Node]
        /\ \A m \in Node : view'[m] = IF m = n THEN view[n] \ {p} ELSE view[m]
    BY <1>1, <1>6
  <2>3. NeighborsAreConnected'
    BY <1>1, <1>2, <1>6, <2>1, <2>2 DEF NeighborsAreConnected
  <2> QED
    BY <1>1, <1>4, <1>6, <2>1, <2>2, <2>3 DEF NodesKept
<1> QED
  BY <1>3, <1>5, <1>6

\* The tracker among its nodes, and the nodes' own state.
NodesInd == HandlerInv /\ NodesTypeOK /\ NeighborsAreConnected

\* What reaches the tracker is a status with the neighbours and the counter of a node, its
\* leaving, or the end of its socket: each is handled as Tracker.tla handles it, or ignored.
LEMMA StepOfTracker == NodesTypeOK /\ [NodesNext]_allVars => [TrackerStep]_trackerVars
<1> SUFFICES ASSUME NodesTypeOK, [NodesNext]_allVars PROVE [TrackerStep]_trackerVars
  OBVIOUS
<1>1. ASSUME NEW n \in Node, EndRun(n) \/ Receive(n) \/ SocketOpened(n) \/ Retry(n) \/ Subscribe(n)
                             \/ Unsubscribe(n) \/ SocketLost(n)
      PROVE  UNCHANGED trackerVars
  BY <1>1 DEF EndRun, Receive, SocketOpened, Retry, Subscribe, Unsubscribe, SocketLost, trackerSide
<1>2. ASSUME NEW n \in Node, NEW p \in Others(n),
             PeerEvent(n, p) \/ Fails(n, p) \/ Breaks(n, p) \/ DeliveriesFail(n, p)
      PROVE  UNCHANGED trackerVars
  BY <1>2 DEF PeerEvent, Connects, Opened, Lost, DisconnectionTimer, Fails, Breaks, DeliveriesFail,
              trackerSide
<1>3. ASSUME NEW n \in Node, StatusArrives(n)
      PROVE  TrackerStep \/ UNCHANGED trackerVars
  <2> DEFINE s == Head(up[n])
  <2>1. s \in NodeStatus
    <3>1. up[n] \in Seq(NodeStatus) /\ up[n] # <<>>
      BY <1>3, NodeAt DEF StatusArrives
    <3> QED
      BY <3>1, TakenFromSeq
  <2>2. \/ s # Leaving /\ Status(n, s.nbrs, s.counter)
        \/ UNCHANGED trackerVars
        \/ Gone(n)
    BY <1>3 DEF StatusArrives
  <2> HIDE DEF s
  <2>3. s # Leaving => s.nbrs \in SUBSET Node /\ s.counter \in Nat
    BY <2>1 DEF NodeStatus
  <2> QED
    BY <2>2, <2>3 DEF TrackerStep
<1>4. ASSUME NEW n \in Node, SocketClosed(n)
      PROVE  TrackerStep \/ UNCHANGED trackerVars
  BY <1>4 DEF SocketClosed, TrackerStep
<1>5. CASE Instruct \/ SendBuffer
  BY <1>5 DEF Instruct, SendBuffer, TrackerStep
<1>6. CASE UNCHANGED allVars
  BY <1>6 DEF allVars, trackerSide
<1> QED
  BY <1>1, <1>2, <1>3, <1>4, <1>5, <1>6 DEF NodesNext, NodeEvent

\* A status is taken from what is under way ...
LEMMA StatusArrivesKeeps ==
  ASSUME NodesTypeOK, NeighborsAreConnected, NEW n \in Node, StatusArrives(n)
  PROVE  NodesTypeOK' /\ NeighborsAreConnected'
<1>1. /\ UNCHANGED <<told, node, peers, down, closed, faults>>
      /\ up[n] \notin {<<>>, Nothing} /\ up' = [up EXCEPT ![n] = Tail(up[n])]
  BY DEF StatusArrives
<1>2. Tail(up[n]) \in Seq(NodeStatus)
  BY <1>1, NodeAt, TakenFromSeq
<1>3. up' \in [Node -> Seq(NodeStatus) \cup {Nothing}]
  BY <1>1, <1>2 DEF NodesTypeOK
<1> QED
  BY <1>1, <1>3 DEF NodesTypeOK, NeighborsAreConnected, peers

\* ... and lost with the socket.
LEMMA SocketKeeps ==
  ASSUME NodesTypeOK, NeighborsAreConnected, NEW n \in Node,
         SocketOpened(n) \/ SocketLost(n) \/ SocketClosed(n)
  PROVE  NodesTypeOK' /\ NeighborsAreConnected'
<1>1. CASE SocketOpened(n)
  <2>1. /\ UNCHANGED <<told, node, view, links, closing, down, closed, faults>>
        /\ up' = [up EXCEPT ![n] = <<StatusOf(node[n])>>]
    BY <1>1 DEF SocketOpened, trackerSide, peers
  <2>2. <<StatusOf(node[n])>> \in Seq(NodeStatus)
    BY NodeAt, StatusTyped
  <2>3. up' \in [Node -> Seq(NodeStatus) \cup {Nothing}]
    BY <2>1, <2>2 DEF NodesTypeOK
  <2> QED
    BY <2>1, <2>3 DEF NodesTypeOK, NeighborsAreConnected
<1>2. CASE SocketLost(n)
  <2>1. /\ UNCHANGED <<told, node, view, links, closing>>
        /\ up' = [up EXCEPT ![n] = Nothing] /\ down' = [down EXCEPT ![n] = <<>>]
        /\ closed' = closed \cup {n} /\ (faults' = faults + 1 \/ faults' = faults)
    BY <1>2 DEF SocketLost, trackerSide, peers
  <2>2. up' \in [Node -> Seq(NodeStatus) \cup {Nothing}]
    BY <2>1 DEF NodesTypeOK
  <2>3. <<>> \in Seq(Instr)
    BY EmptySeq
  <2>4. down' \in [Node -> Seq(Instr)]
    BY <2>1, <2>3 DEF NodesTypeOK
  <2>5. faults' \in Nat /\ closed' \subseteq Node
    BY <2>1 DEF NodesTypeOK
  <2> QED
    BY <2>1, <2>2, <2>4, <2>5 DEF NodesTypeOK, NeighborsAreConnected
<1>3. CASE SocketClosed(n)
  BY <1>3 DEF SocketClosed, peers, NodesTypeOK, NeighborsAreConnected
<1> QED
  BY <1>1, <1>2, <1>3

\* The instructions that the tracker numbers name nodes.
LEMMA TrackerSideKeeps ==
  ASSUME NodesInd, Instruct \/ SendBuffer
  PROVE  NodesTypeOK' /\ NeighborsAreConnected'
<1>1. NodesTypeOK /\ NeighborsAreConnected /\ TypeOK /\ TrackerTypeOK
  BY DEF NodesInd, HandlerInv, TrackerInv, TrackerTypeOK
<1>2. CASE Instruct
  <2>1. UNCHANGED <<node, view, links, closing, up, down, closed, faults>>
    BY <1>2 DEF Instruct, peers, wires
  <2>2. told' = told \/ (Return /\ told' = [n \in Node |-> IF n \in updated THEN nodes[n] ELSE told[n]])
    BY <1>2 DEF Instruct
  <2>3. ASSUME Return, told' = [n \in Node |-> IF n \in updated THEN nodes[n] ELSE told[n]]
        PROVE  told' \in [Node -> SUBSET Node]
    <3>1. updated \subseteq DOMAIN nodes /\ \A n \in DOMAIN nodes : nodes[n] \subseteq Node
      BY <1>1, <2>3 DEF Return, Finish, TypeOK
    <3>2. \A n \in Node : (IF n \in updated THEN nodes[n] ELSE told[n]) \in SUBSET Node
      BY <1>1, <3>1 DEF NodesTypeOK
    <3> QED
      BY <2>3, <3>2
  <2>4. told' \in [Node -> SUBSET Node]
    BY <1>1, <2>2, <2>3 DEF NodesTypeOK
  <2> QED
    BY <1>1, <2>1, <2>4 DEF NodesTypeOK, NeighborsAreConnected
<1>3. CASE SendBuffer
  <2> DEFINE q(n) == IF n \in DOMAIN buffer /\ up[n] # Nothing /\ buffer[n] # Ack
                     THEN Append(down[n], [nodes |-> told[n], counter |-> buffer[n]])
                     ELSE down[n]
  <2>1. /\ UNCHANGED <<told, node, view, links, closing, up, closed, faults>>
        /\ down' = [n \in Node |-> q(n)]
    BY <1>3 DEF SendBuffer, peers
  <2>2. ASSUME NEW n \in Node
        PROVE  q(n) \in Seq(Instr)
    <3>1. down[n] \in Seq(Instr) /\ told[n] \subseteq Node
      BY <1>1, NodeAt
    <3>2. CASE n \in DOMAIN buffer /\ buffer[n] # Ack
      <4>1. buffer[n] \in Nat
        BY <1>1, <3>2 DEF TrackerTypeOK, Entry
      <4>2. [nodes |-> told[n], counter |-> buffer[n]] \in Instr
        BY <3>1, <4>1 DEF Instr
      <4> QED
        BY <3>1, <4>2, AppendProperties
    <3> QED
      BY <3>1, <3>2
  <2>3. down' \in [Node -> Seq(Instr)]
    <3> HIDE DEF q
    <3> QED
      BY <2>1, <2>2
  <2> QED
    BY <1>1, <2>1, <2>3 DEF NodesTypeOK, NeighborsAreConnected
<1> QED
  BY <1>2, <1>3

\* The nodes and their tracker, all of a step.
LEMMA NextNodes == NodesInd /\ [NodesNext]_allVars => NodesInd'
<1> SUFFICES ASSUME NodesInd, [NodesNext]_allVars PROVE NodesInd'
  OBVIOUS
<1>1. NodesTypeOK /\ NeighborsAreConnected
  BY DEF NodesInd
<1>2. HandlerInv'
  BY <1>1, StepOfTracker, NextHandler DEF NodesInd
<1>3. SUFFICES NodesTypeOK' /\ NeighborsAreConnected'
  BY <1>2 DEF NodesInd
<1>4. ASSUME NodesKept, UNCHANGED <<told, view, links, closed>>, down' \in [Node -> Seq(Instr)],
             faults' \in Nat
      PROVE  NodesTypeOK' /\ NeighborsAreConnected'
  BY <1>1, <1>4 DEF NodesKept, NodesTypeOK
<1>5. ASSUME NodesKept, UNCHANGED <<told, down, closed>>, view' \in [Node -> SUBSET Node],
             links' \subseteq SUBSET Node, faults' \in Nat
      PROVE  NodesTypeOK' /\ NeighborsAreConnected'
  BY <1>1, <1>5 DEF NodesKept, NodesTypeOK
<1>6. down \in [Node -> Seq(Instr)] /\ faults \in Nat /\ faults + 1 \in Nat /\ links \subseteq SUBSET Node
  BY <1>1 DEF NodesTypeOK
<1>7. ASSUME NEW n \in Node, EndRun(n)
      PROVE  NodesTypeOK' /\ NeighborsAreConnected'
  <2>1. UNCHANGED <<told, view, links, closed, down, faults>>
    BY <1>7 DEF EndRun, trackerSide
  <2> QED
    BY <1>1, <1>4, <1>6, <1>7, <2>1, EndRunKeeps
<1>8. ASSUME NEW n \in Node, Receive(n)
      PROVE  NodesTypeOK' /\ NeighborsAreConnected'
  <2>1. UNCHANGED <<told, view, links, closed, faults>>
    BY <1>8 DEF Receive, trackerSide
  <2> QED
    BY <1>1, <1>4, <1>6, <1>8, <2>1, ReceiveKeeps
<1>9. ASSUME NEW n \in Node, Retry(n)
      PROVE  NodesTypeOK' /\ NeighborsAreConnected'
  <2>1. UNCHANGED <<told, view, links, closed, down, faults>>
    BY <1>9 DEF Retry, trackerSide, wires
  <2> QED
    BY <1>1, <1>4, <1>6, <1>9, <2>1, RetryKeeps
<1>10. ASSUME NEW n \in Node, Subscribe(n) \/ Unsubscribe(n)
      PROVE  NodesTypeOK' /\ NeighborsAreConnected'
  <2>1. UNCHANGED <<told, view, links, closed, down>> /\ faults' \in {faults, faults + 1}
    BY <1>10 DEF Subscribe, Unsubscribe, trackerSide, peers
  <2>2. NodesKept
    BY <1>1, <1>10, SubscribeKeeps, UnsubscribeKeeps
  <2> QED
    BY <1>4, <1>6, <2>1, <2>2
<1>11. ASSUME NEW n \in Node, NEW p \in Node, Fails(n, p) \/ DeliveriesFail(n, p)
      PROVE  NodesTypeOK' /\ NeighborsAreConnected'
  <2>1. UNCHANGED <<told, view, links, closed, down>> /\ faults' \in {faults, faults + 1}
    BY <1>11 DEF Fails, DeliveriesFail, trackerSide, peers, wires
  <2>2. NodesKept
    BY <1>1, <1>11, FailsKeeps, DeliveriesFailKeeps
  <2> QED
    BY <1>4, <1>6, <2>1, <2>2
<1>12. ASSUME NEW n \in Node, NEW p \in Node, Opened(n, p) \/ Lost(n, p)
      PROVE  NodesTypeOK' /\ NeighborsAreConnected'
  <2>1. UNCHANGED <<told, links, closed, down, faults>>
    BY <1>12 DEF Opened, Lost, trackerSide, wires
  <2>2. NodesKept /\ view' \in [Node -> SUBSET Node]
    BY <1>1, <1>12, OpenedKeeps, LostKeeps
  <2> QED
    BY <1>5, <1>6, <2>1, <2>2
<1>13. ASSUME NEW n \in Node, NEW p \in Node, DisconnectionTimer(n, p)
      PROVE  NodesTypeOK' /\ NeighborsAreConnected'
  <2>1. UNCHANGED <<told, closed, down, faults>>
    BY <1>13 DEF DisconnectionTimer, trackerSide, wires
  <2> QED
    BY <1>1, <1>5, <1>6, <1>13, <2>1, DisconnectionTimerKeeps
<1>14. ASSUME NEW n \in Node, NEW p \in Node, Connects(n, p) \/ Breaks(n, p)
      PROVE  NodesTypeOK' /\ NeighborsAreConnected'
  <2>1. /\ UNCHANGED <<told, node, view, closing, up, down, closed>> /\ faults' \in {faults, faults + 1}
        /\ links' \in {links \cup {{n, p}}, links \ {{n, p}}}
    BY <1>14 DEF Connects, Breaks, trackerSide, wires
  <2>2. links' \subseteq SUBSET Node
    <3>1. {n, p} \in SUBSET Node
      OBVIOUS
    <3> QED
      BY <1>6, <2>1, <3>1
  <2> QED
    BY <1>1, <1>6, <2>1, <2>2 DEF NodesTypeOK, NeighborsAreConnected
<1>15. CASE UNCHANGED allVars
  BY <1>1, <1>15 DEF allVars, trackerSide, peers, wires, NodesTypeOK, NeighborsAreConnected
<1>16. \A n \in Node : Others(n) \subseteq Node
  BY DEF Others
<1> QED
  BY <1>1, <1>7, <1>8, <1>9, <1>10, <1>11, <1>12, <1>13, <1>14, <1>15, <1>16,
     StatusArrivesKeeps, SocketKeeps, TrackerSideKeeps
     DEF NodesNext, NodeEvent, PeerEvent

\* Nothing is under way at first.
LEMMA InitNodes == NodesInit => NodesInd
<1> SUFFICES ASSUME NodesInit PROVE NodesInd
  OBVIOUS
<1>1. HandlerInv
  BY InitHandler DEF NodesInit, NothingHappened
<1>2. Fresh \in NodeState /\ Fresh.nbrs = {}
  <2>1. <<>> \in Seq(NodeRun)
    BY EmptySeq
  <2> QED
    BY <2>1 DEF Fresh, NodeState
<1>3. <<>> \in Seq(Instr)
  BY EmptySeq
<1> QED
  BY <1>1, <1>2, <1>3 DEF NodesInit, NothingHappened, NodesInd, NodesTypeOK, NeighborsAreConnected

\* The specification of the nodes with their tracker implies that of the tracker: whatever
\* the nodes, their sockets and their connections do, the tracker goes its own steps.
THEOREM NodesRunTracker == NodesSpec => AnyTracker
<1>1. NodesInit => TrackerInit
  BY DEF NodesInit, NothingHappened
<1>2. NodesInd => NodesTypeOK
  BY DEF NodesInd
<1> QED
  BY <1>1, <1>2, InitNodes, NextNodes, StepOfTracker, PTL DEF NodesSpec, AnyTracker

\* So a neighbour of a node is always a peer that it has a connection to, as far as it knows.
THEOREM NeighborsStayConnected == NodesSpec => []NeighborsAreConnected
<1>1. NodesInd => NeighborsAreConnected
  BY DEF NodesInd
<1> QED
  BY <1>1, InitNodes, NextNodes, PTL DEF NodesSpec

\* Each part of the state of the nodes stays of its kind.
LEMMA NodesWellTyped == NodesSpec => []NodesTypeOK
<1>1. NodesInd => NodesTypeOK
  BY DEF NodesInd
<1> QED
  BY <1>1, InitNodes, NextNodes, PTL DEF NodesSpec

\* What is proved of the tracker holds among its nodes: links go both ways, members,
\* counters and buffer agree, and those who are owed an answer get one.
THEOREM TrackerAmongNodes ==
  /\ NodesSpec => []TrackerInv
  /\ NodesSpec => []OverlayInv
  /\ MaxNeighbors >= 2 => (NodesSpec => []OwedAreAnswered)
BY NodesRunTracker, AnyTablesAgree, AnyRunsOverlay, GraphAndCacheAgree, AnyOwedGetAnswers

-----------------------------------------------------------------------------
(* How a node handles instructions.                                        *)

\* The lock is held by the one run that the throttler waits for, without counting.
OneThrottled ==
  /\ \A s, r \in Of("throttler") : s = r
  /\ lock = "handling" <=> Of("throttler") # {}
  /\ queue # None => lock = "handling"

HandlingInd == HandlingTypeOK /\ OneThrottled /\ NewestIsQueued /\ NoRetryUnlessSetUp

\* The runs by their slots.
LEMMA RunsTyped ==
  ASSUME HandlingTypeOK
  PROVE  /\ runs \in [Slot -> Run \cup {None}]
         /\ \A s \in Slot : runs[s] # None => runs[s] \in Run
BY DEF HandlingTypeOK

\* An instruction, by its parts.
LEMMA InstructionTyped ==
  ASSUME NEW i \in Instruction
  PROVE  i.counter \in Nat \ {0} /\ i.nodes \subseteq Peer /\ i.expected \in BOOLEAN /\ i # None
<1>1. i \in [counter : Nat \ {0}, nodes : SUBSET Peer, expected : BOOLEAN] /\ i # None
  BY InstructionAssumption
<1> QED
  BY <1>1

\* What the beginning of a run does to the rest of the state.
LEMMA StartShape ==
  ASSUME HandlingTypeOK, NEW s \in Slot, NEW i \in Instruction,
         NEW by \in {"throttler", "retry"}, NEW again \in BOOLEAN, Start(s, i, by, again)
  PROVE  /\ runs' \in [Slot -> Run \cup {None}]
         /\ runs'[s] # None /\ runs'[s].by = by /\ runs'[s].instr = i
         /\ \A r \in Slot \ {s} : runs'[r] = runs[r]
         /\ neighbors' \subseteq Peer /\ setUp' = setUp /\ counter' = counter
         /\ timer' \in Instruction \cup {None} /\ latest' \in Instruction \cup {None}
         /\ retryCount' \in 0 .. StatusSendCounterLimit
         /\ timer' # None => setUp \/ timer # None
<1> DEFINE new == NewRun(i, by, again, ~setUp \/ ~i.expected)
<1>1. i.nodes \subseteq Peer /\ setUp \in BOOLEAN /\ i.expected \in BOOLEAN
  BY InstructionTyped DEF HandlingTypeOK
<1>2. (~setUp \/ ~i.expected) \in BOOLEAN
  BY <1>1
<1>3. new \in Run /\ new.by = by /\ new.instr = i
  BY <1>1, <1>2 DEF NewRun, Run
<1>4. new # None
  BY <1>3, InstructionAssumption
<1>5. runs' = [runs EXCEPT ![s] = new]
  BY DEF Start
<1> HIDE DEF new
<1>6. /\ runs' \in [Slot -> Run \cup {None}] /\ runs'[s] = new
      /\ \A r \in Slot \ {s} : runs'[r] = runs[r]
  BY <1>3, <1>5, RunsTyped
<1>7. neighbors' \subseteq Peer /\ setUp' = setUp /\ counter' = counter
  BY DEF Start, HandlingTypeOK
<1>8. 0 \in 0 .. StatusSendCounterLimit
  BY BoundAssumption
<1>9. /\ timer' \in Instruction \cup {None} /\ latest' \in Instruction \cup {None}
      /\ retryCount' \in 0 .. StatusSendCounterLimit
      /\ timer' # None => setUp \/ timer # None
  BY <1>8 DEF Start, retrier, HandlingTypeOK
<1> QED
  BY <1>3, <1>4, <1>6, <1>7, <1>9

\* A step that ends no run of the throttler and begins none, and gives none another
\* instruction.
LEMMA ThrottledKept ==
  ASSUME HandlingInd, UNCHANGED <<queue, highest, lock>>,
         \A s \in Slot : (runs'[s] # None /\ runs'[s].by = "throttler")
                         <=> (runs[s] # None /\ runs[s].by = "throttler"),
         \A s \in Slot : runs'[s] # None /\ runs'[s].by = "throttler" => runs'[s].instr = runs[s].instr
  PROVE  OneThrottled' /\ NewestIsQueued'
<1>1. Of("throttler")' = Of("throttler")
  BY DEF Of
<1> QED
  BY <1>1 DEF HandlingInd, OneThrottled, NewestIsQueued, Of

\* An instruction is handled at once or queued.
LEMMA AddKeeps ==
  ASSUME HandlingInd, NEW i \in Instruction, AddInstruction(i)
  PROVE  HandlingInd'
<1>1. HandlingTypeOK /\ OneThrottled /\ NewestIsQueued /\ NoRetryUnlessSetUp
  BY DEF HandlingInd
<1>2. i.counter \in Nat /\ highest \in Nat /\ highest <= i.counter /\ highest' = i.counter /\ i # None
      /\ silent' = silent
  BY <1>1, InstructionTyped DEF AddInstruction, HandlingTypeOK
<1>3. \A s \in Slot : runs[s] # None => runs[s].instr \in Instruction /\ runs[s].instr.counter \in Nat
  BY <1>1, RunsTyped, InstructionTyped DEF Run
<1>4. CASE lock = "handling"
  <2>1. queue' = i /\ UNCHANGED <<lock, runs, setUp, neighbors, counter, timer, retryCount, latest>>
    BY <1>4 DEF AddInstruction, subscription, retrier
  <2>2. Of("throttler")' = Of("throttler")
    BY <2>1 DEF Of
  <2>3. NewestIsQueued'
    <3>1. \A s \in Of("throttler") : runs[s].instr.counter <= i.counter
      BY <1>1, <1>2, <1>3 DEF NewestIsQueued, Of
    <3> QED
      BY <1>2, <2>1, <2>2, <3>1 DEF NewestIsQueued
  <2>4. HandlingTypeOK'
    BY <1>1, <1>2, <2>1 DEF HandlingTypeOK
  <2> QED
    BY <1>1, <1>4, <2>1, <2>2, <2>3, <2>4 DEF HandlingInd, OneThrottled, NoRetryUnlessSetUp
<1>5. CASE lock # "handling"
  <2>1. PICK s \in Slot : runs[s] = None /\ Start(s, i, "throttler", FALSE)
    BY <1>5 DEF AddInstruction, FreeSlot, FreeSlots
  <2>2. lock' = "handling" /\ queue' = queue
    BY <1>5 DEF AddInstruction
  <2>3. /\ runs' \in [Slot -> Run \cup {None}]
        /\ runs'[s] # None /\ runs'[s].by = "throttler" /\ runs'[s].instr = i
        /\ \A r \in Slot \ {s} : runs'[r] = runs[r]
        /\ neighbors' \subseteq Peer /\ setUp' = setUp /\ counter' = counter
        /\ timer' \in Instruction \cup {None} /\ latest' \in Instruction \cup {None}
        /\ retryCount' \in 0 .. StatusSendCounterLimit
        /\ timer' # None => setUp \/ timer # None
    BY <1>1, <2>1, StartShape
  <2>4. Of("throttler") = {} /\ queue = None
    BY <1>1, <1>5 DEF OneThrottled
  <2>5. Of("throttler")' = {s}
    BY <2>3, <2>4 DEF Of
  <2>6. OneThrottled' /\ NewestIsQueued'
    BY <1>2, <2>2, <2>3, <2>4, <2>5 DEF OneThrottled, NewestIsQueued
  <2>7. HandlingTypeOK'
    BY <1>1, <1>2, <2>2, <2>3 DEF HandlingTypeOK
  <2> QED
    BY <1>1, <2>3, <2>6, <2>7 DEF HandlingInd, NoRetryUnlessSetUp
<1> QED
  BY <1>4, <1>5

\* A run of the throttler is over: the queued instruction is next.
LEMMA ContinueKeeps ==
  ASSUME HandlingInd, NEW s \in Slot, Continue(s)
  PROVE  HandlingInd'
<1>1. HandlingTypeOK /\ OneThrottled /\ NewestIsQueued /\ NoRetryUnlessSetUp
  BY DEF HandlingInd
<1>2. runs[s] # None /\ runs[s].by = "throttler" /\ highest' = highest /\ silent' = silent
  BY DEF Continue
<1>3. Of("throttler") = {s} /\ lock = "handling"
  BY <1>1, <1>2 DEF OneThrottled, Of
<1>4. CASE queue = None
  <2>1. /\ lock' = "free" /\ runs' = [runs EXCEPT ![s] = None]
        /\ UNCHANGED <<queue, setUp, neighbors, counter, timer, retryCount, latest>>
    BY <1>4 DEF Continue, subscription, retrier
  <2>2. /\ runs' \in [Slot -> Run \cup {None}] /\ runs'[s] = None
        /\ \A r \in Slot \ {s} : runs'[r] = runs[r]
    BY <1>1, <2>1, RunsTyped
  <2>3. Of("throttler")' = {}
    BY <1>3, <2>2 DEF Of
  <2>4. HandlingTypeOK'
    BY <1>1, <1>2, <2>1, <2>2 DEF HandlingTypeOK
  <2> QED
    BY <1>1, <1>2, <1>4, <2>1, <2>3, <2>4
       DEF HandlingInd, OneThrottled, NewestIsQueued, NoRetryUnlessSetUp
<1>5. CASE queue # None
  <2>1. queue \in Instruction /\ queue.counter = highest /\ highest \in Nat
    BY <1>1, <1>5 DEF HandlingTypeOK, NewestIsQueued
  <2>2. queue' = None /\ Start(s, queue, "throttler", FALSE) /\ lock' = lock
    BY <1>5 DEF Continue
  <2>3. /\ runs' \in [Slot -> Run \cup {None}]
        /\ runs'[s] # None /\ runs'[s].by = "throttler" /\ runs'[s].instr = queue
        /\ \A r \in Slot \ {s} : runs'[r] = runs[r]
        /\ neighbors' \subseteq Peer /\ setUp' = setUp /\ counter' = counter
        /\ timer' \in Instruction \cup {None} /\ latest' \in Instruction \cup {None}
        /\ retryCount' \in 0 .. StatusSendCounterLimit
        /\ timer' # None => setUp \/ timer # None
    BY <1>1, <2>1, <2>2, StartShape
  <2>5. Of("throttler")' = {s}
    BY <1>3, <2>3 DEF Of
  <2>6. OneThrottled' /\ NewestIsQueued'
    BY <1>2, <1>3, <2>1, <2>2, <2>3, <2>5 DEF OneThrottled, NewestIsQueued
  <2>7. HandlingTypeOK'
    BY <1>1, <1>2, <2>2, <2>3 DEF HandlingTypeOK
  <2> QED
    BY <1>1, <2>3, <2>6, <2>7 DEF HandlingInd, NoRetryUnlessSetUp
<1> QED
  BY <1>4, <1>5

\* An instruction is retried.
LEMMA RetryFunctionKeeps ==
  ASSUME HandlingInd, RetryFunction
  PROVE  HandlingInd'
<1>1. HandlingTypeOK /\ OneThrottled /\ NewestIsQueued /\ NoRetryUnlessSetUp
  BY DEF HandlingInd
<1>2. PICK s \in Slot : runs[s] = None /\ Start(s, timer, "retry", retryCount # 0)
  BY DEF RetryFunction, FreeSlot, FreeSlots
<1>3. timer \in Instruction /\ timer # None /\ (retryCount # 0) \in BOOLEAN
      /\ UNCHANGED <<queue, highest, lock, silent>>
  BY <1>1 DEF RetryFunction, HandlingTypeOK, throttler
<1>4. /\ runs' \in [Slot -> Run \cup {None}]
      /\ runs'[s] # None /\ runs'[s].by = "retry"
      /\ \A r \in Slot \ {s} : runs'[r] = runs[r]
      /\ neighbors' \subseteq Peer /\ setUp' = setUp /\ counter' = counter
      /\ timer' \in Instruction \cup {None} /\ latest' \in Instruction \cup {None}
      /\ retryCount' \in 0 .. StatusSendCounterLimit
      /\ timer' # None => setUp \/ timer # None
  BY <1>1, <1>2, <1>3, StartShape
<1>5. OneThrottled' /\ NewestIsQueued'
  <2>1. \A r \in Slot : (runs'[r] # None /\ runs'[r].by = "throttler")
                        <=> (runs[r] # None /\ runs[r].by = "throttler")
    BY <1>2, <1>4
  <2>2. \A r \in Slot : runs'[r] # None /\ runs'[r].by = "throttler" => runs'[r].instr = runs[r].instr
    BY <1>2, <1>4
  <2> QED
    BY <1>3, <2>1, <2>2, ThrottledKept
<1>6. HandlingTypeOK'
  BY <1>1, <1>3, <1>4 DEF HandlingTypeOK
<1> QED
  BY <1>1, <1>3, <1>4, <1>5, <1>6 DEF HandlingInd, NoRetryUnlessSetUp

\* A run goes on: its instruction and who waits for it stay.
LEMMA GoingOn ==
  ASSUME HandlingInd, NEW s \in Slot, runs[s] # None, NEW new \in Run,
         new.by = runs[s].by, new.instr = runs[s].instr,
         runs' = [runs EXCEPT ![s] = new], UNCHANGED <<queue, highest, lock>>
  PROVE  OneThrottled' /\ NewestIsQueued' /\ runs' \in [Slot -> Run \cup {None}]
<1>1. runs \in [Slot -> Run \cup {None}] /\ new # None
  BY InstructionAssumption, RunsTyped DEF HandlingInd
<1>2. /\ runs' \in [Slot -> Run \cup {None}]
      /\ \A r \in Slot : runs'[r] = IF r = s THEN new ELSE runs[r]
  BY <1>1
<1>3. \A r \in Slot : (runs'[r] # None /\ runs'[r].by = "throttler")
                      <=> (runs[r] # None /\ runs[r].by = "throttler")
  BY <1>1, <1>2
<1>4. \A r \in Slot : runs'[r] # None /\ runs'[r].by = "throttler" => runs'[r].instr = runs[r].instr
  BY <1>2
<1> QED
  BY <1>2, <1>3, <1>4, ThrottledKept

\* A run that nobody waits for, or that was a retry, is over.
LEMMA GoneOver ==
  ASSUME HandlingInd, NEW s \in Slot, runs[s] # None, runs[s].by # "throttler",
         runs' = [runs EXCEPT ![s] = None], UNCHANGED <<queue, highest, lock>>
  PROVE  OneThrottled' /\ NewestIsQueued' /\ runs' \in [Slot -> Run \cup {None}]
<1>1. runs \in [Slot -> Run \cup {None}]
  BY RunsTyped DEF HandlingInd
<1>2. /\ runs' \in [Slot -> Run \cup {None}]
      /\ \A r \in Slot : runs'[r] = IF r = s THEN None ELSE runs[r]
  BY <1>1
<1>3. \A r \in Slot : (runs'[r] # None /\ runs'[r].by = "throttler")
                      <=> (runs[r] # None /\ runs[r].by = "throttler")
  BY <1>2
<1>4. \A r \in Slot : runs'[r] # None /\ runs'[r].by = "throttler" => runs'[r].instr = runs[r].instr
  BY <1>2
<1> QED
  BY <1>2, <1>3, <1>4, ThrottledKept

\* A connection is there, or not.
LEMMA ConnectedKeeps ==
  ASSUME HandlingInd, NEW s \in Slot, NEW p \in Peer, Connected(s, p) \/ ConnectFailed(s, p)
  PROVE  HandlingInd'
<1>1. HandlingTypeOK /\ NoRetryUnlessSetUp
  BY DEF HandlingInd
<1>2. runs[s] # None /\ runs[s] \in Run
  BY <1>1, RunsTyped DEF Connected, ConnectFailed
<1> DEFINE settled(failed) == [runs[s] EXCEPT !.pending = runs[s].pending \ {p}, !.failed = failed]
<1>3. PICK failed \in BOOLEAN : runs' = [runs EXCEPT ![s] = settled(failed)]
  <2>1. CASE Connected(s, p)
    <3>1. runs' = [runs EXCEPT ![s] = settled(runs[s].failed \/ ~setUp)]
      BY <1>1, <1>2, <2>1, RunsTyped DEF Connected
    <3>2. (runs[s].failed \/ ~setUp) \in BOOLEAN
      OBVIOUS
    <3> QED
      BY <3>1, <3>2
  <2>2. CASE ConnectFailed(s, p)
    <3>1. runs' = [runs EXCEPT ![s] = settled(TRUE)]
      BY <1>1, <1>2, <2>2, RunsTyped DEF ConnectFailed
    <3> QED
      BY <3>1
  <2> QED
    BY <2>1, <2>2
<1>4. settled(failed) \in Run /\ settled(failed).by = runs[s].by /\ settled(failed).instr = runs[s].instr
  BY <1>2 DEF Run
<1>5. /\ UNCHANGED <<setUp, counter, queue, highest, lock, timer, retryCount, latest, silent>>
      /\ neighbors' \subseteq Peer
  BY <1>1 DEF Connected, ConnectFailed, subscription, throttler, retrier, HandlingTypeOK
<1>6. OneThrottled' /\ NewestIsQueued' /\ runs' \in [Slot -> Run \cup {None}]
  <2> HIDE DEF settled
  <2> QED
    BY <1>2, <1>3, <1>4, <1>5, GoingOn
<1>7. HandlingTypeOK'
  BY <1>1, <1>5, <1>6 DEF HandlingTypeOK
<1> QED
  BY <1>1, <1>5, <1>6, <1>7 DEF HandlingInd, NoRetryUnlessSetUp

\* A run ends with the counter and a status.
LEMMA EndKeeps ==
  ASSUME HandlingInd, NEW s \in Slot, End(s)
  PROVE  HandlingInd'
<1> DEFINE new == [runs[s] EXCEPT !.over = TRUE]
<1>1. HandlingTypeOK /\ NoRetryUnlessSetUp
  BY DEF HandlingInd
<1>2. runs[s] # None /\ runs[s] \in Run
  BY <1>1, RunsTyped DEF End
<1>3. runs' = [runs EXCEPT ![s] = new]
  BY <1>1, RunsTyped DEF End
<1>4. new \in Run /\ new.by = runs[s].by /\ new.instr = runs[s].instr
  BY <1>2 DEF Run
<1>5. UNCHANGED <<setUp, neighbors, queue, highest, lock, timer, retryCount, latest>>
  BY DEF End, throttler, retrier
<1>6. counter' \in Nat
  <2>1. runs[s].instr.counter \in Nat
    BY <1>2, InstructionTyped DEF Run
  <2> QED
    BY <1>1, <2>1 DEF End, HandlingTypeOK
<1>7. silent' \in 0 .. StatusSendCounterLimit + 1
  BY <1>1, BoundAssumption DEF End, HandlingTypeOK
<1>8. OneThrottled' /\ NewestIsQueued' /\ runs' \in [Slot -> Run \cup {None}]
  <2> HIDE DEF new
  <2> QED
    BY <1>2, <1>3, <1>4, <1>5, GoingOn
<1>9. HandlingTypeOK'
  BY <1>1, <1>5, <1>6, <1>7, <1>8 DEF HandlingTypeOK
<1> QED
  BY <1>1, <1>5, <1>8, <1>9 DEF HandlingInd, NoRetryUnlessSetUp

\* A retry is over and waits for the next.
LEMMA RearmKeeps ==
  ASSUME HandlingInd, NEW s \in Slot, Rearm(s)
  PROVE  HandlingInd'
<1>1. HandlingTypeOK /\ NoRetryUnlessSetUp
  BY DEF HandlingInd
<1>2. runs[s] # None /\ runs[s] \in Run /\ runs[s].by # "throttler" /\ runs' = [runs EXCEPT ![s] = None]
  BY <1>1, RunsTyped DEF Rearm
<1>3. UNCHANGED <<setUp, neighbors, counter, queue, highest, lock, latest, silent>>
  BY DEF Rearm, throttler, subscription
<1>4. OneThrottled' /\ NewestIsQueued' /\ runs' \in [Slot -> Run \cup {None}]
  BY <1>2, <1>3, GoneOver
<1>5. timer' \in Instruction \cup {None} /\ (timer' # None => timer # None)
  <2>1. runs[s].instr \in Instruction
    BY <1>2 DEF Run
  <2> QED
    BY <1>1, <2>1 DEF Rearm, HandlingTypeOK
<1>6. retryCount' \in 0 .. StatusSendCounterLimit
  BY <1>1, BoundAssumption DEF Rearm, HandlingTypeOK
<1>7. HandlingTypeOK'
  BY <1>1, <1>3, <1>4, <1>5, <1>6 DEF HandlingTypeOK
<1> QED
  BY <1>1, <1>3, <1>4, <1>5, <1>7 DEF HandlingInd, NoRetryUnlessSetUp

\* With the stream part, everything about its instructions is forgotten but the runs.
LEMMA RemoveKeeps ==
  ASSUME HandlingInd, RemoveStreamPart
  PROVE  HandlingInd'
<1>1. runs \in [Slot -> Run \cup {None}]
  BY RunsTyped DEF HandlingInd
<1>2. /\ setUp' = FALSE /\ neighbors' = {} /\ counter' = 0
      /\ queue' = None /\ highest' = 0 /\ lock' = "none" /\ runs' = Cancelled
      /\ timer' = None /\ retryCount' = 0 /\ latest' = None /\ silent' = 0
  BY DEF RemoveStreamPart
<1>3. ASSUME NEW s \in Slot
      PROVE  /\ Cancelled[s] \in Run \cup {None}
             /\ Cancelled[s] # None => Cancelled[s].by # "throttler"
  <2>1. Cancelled[s] = IF runs[s] # None /\ runs[s].by = "throttler"
                       THEN [runs[s] EXCEPT !.by = "nobody"] ELSE runs[s]
    BY DEF Cancelled
  <2>2. CASE runs[s] # None /\ runs[s].by = "throttler"
    BY <1>1, <2>1, <2>2 DEF Run
  <2> QED
    BY <1>1, <2>1, <2>2
<1>4. runs' \in [Slot -> Run \cup {None}]
  BY <1>2, <1>3 DEF Cancelled
<1>5. Of("throttler")' = {}
  BY <1>2, <1>3 DEF Of
<1>6. 0 \in 0 .. StatusSendCounterLimit /\ 0 \in 0 .. StatusSendCounterLimit + 1
  BY BoundAssumption
<1>7. HandlingTypeOK'
  BY <1>2, <1>4, <1>6 DEF HandlingTypeOK
<1> QED
  BY <1>2, <1>5, <1>7 DEF HandlingInd, OneThrottled, NewestIsQueued, NoRetryUnlessSetUp

\* Whatever comes next, and in whatever order the microtasks run.
LEMMA NextHandling == HandlingInd /\ [HandlingNext]_handlingVars => HandlingInd'
<1> SUFFICES ASSUME HandlingInd, [HandlingNext]_handlingVars PROVE HandlingInd'
  OBVIOUS
<1>1. ASSUME UNCHANGED <<runs, queue, highest, lock, timer, retryCount, latest, silent, counter>>,
             neighbors' \subseteq Peer, setUp' \in BOOLEAN, setUp => setUp'
      PROVE  HandlingInd'
  <2>1. OneThrottled' /\ NewestIsQueued'
    BY <1>1, ThrottledKept
  <2> QED
    BY <1>1, <2>1 DEF HandlingInd, HandlingTypeOK, NoRetryUnlessSetUp
<1>2. CASE SetUpStreamPart
  <2>1. /\ UNCHANGED <<runs, queue, highest, lock, timer, retryCount, latest, silent, counter, neighbors>>
        /\ setUp' = TRUE
    BY <1>2 DEF SetUpStreamPart, throttler, retrier
  <2> QED
    BY <1>1, <2>1 DEF HandlingInd, HandlingTypeOK
<1>3. ASSUME NEW p \in Peer, PeerLost(p)
      PROVE  HandlingInd'
  <2>1. /\ UNCHANGED <<runs, queue, highest, lock, timer, retryCount, latest, silent, counter, setUp>>
        /\ neighbors' \subseteq neighbors
    BY <1>3 DEF PeerLost, throttler, retrier
  <2> QED
    BY <1>1, <2>1 DEF HandlingInd, HandlingTypeOK
<1>4. ASSUME NEW s \in Slot, Forgotten(s)
      PROVE  HandlingInd'
  <2>1. /\ UNCHANGED <<queue, highest, lock, timer, retryCount, latest, silent, counter, setUp, neighbors>>
        /\ runs[s] # None /\ runs[s].by # "throttler" /\ runs' = [runs EXCEPT ![s] = None]
    BY <1>4 DEF Forgotten, throttler, retrier, subscription
  <2>2. OneThrottled' /\ NewestIsQueued' /\ runs' \in [Slot -> Run \cup {None}]
    BY <2>1, GoneOver
  <2> QED
    BY <2>1, <2>2 DEF HandlingInd, HandlingTypeOK, NoRetryUnlessSetUp
<1>5. CASE UNCHANGED handlingVars
  BY <1>1, <1>5 DEF handlingVars, subscription, throttler, retrier, HandlingInd, HandlingTypeOK
<1> QED
  BY <1>2, <1>3, <1>4, <1>5, AddKeeps, RetryFunctionKeeps, RemoveKeeps, ConnectedKeeps, EndKeeps,
     ContinueKeeps, RearmKeeps
     DEF HandlingNext, RunStep

\* Throttler, retry manager and runs stay in step, through cancellations and new subscriptions.
THEOREM HandlingInStep == HandlingSpec => []HandlingInv
<1>1. HandlingInit => HandlingInd
  <2> SUFFICES ASSUME HandlingInit PROVE HandlingInd
    OBVIOUS
  <2>1. 0 \in 0 .. StatusSendCounterLimit /\ 0 \in 0 .. StatusSendCounterLimit + 1
    BY BoundAssumption
  <2>2. runs \in [Slot -> Run \cup {None}] /\ Of("throttler") = {}
    BY DEF HandlingInit, Of
  <2> QED
    BY <2>1, <2>2 DEF HandlingInit, HandlingInd, HandlingTypeOK, OneThrottled, NewestIsQueued,
                      NoRetryUnlessSetUp
<1>2. HandlingInd => HandlingInv
  <2> SUFFICES ASSUME HandlingInd PROVE LockHeld
    BY DEF HandlingInd, HandlingInv
  <2>1. CASE lock = "handling"
    <3>1. PICK s : s \in Of("throttler")
      BY <2>1 DEF HandlingInd, OneThrottled
    <3>2. Of("throttler") = {s}
      BY <3>1 DEF HandlingInd, OneThrottled
    <3>3. Cardinality({s}) = 1
      BY FS_Singleton
    <3> QED
      BY <2>1, <3>2, <3>3 DEF LockHeld
  <2>2. CASE lock # "handling"
    <3>1. Of("throttler") = {} /\ queue = None
      BY <2>2 DEF HandlingInd, OneThrottled
    <3>2. Cardinality({}) = 0
      BY FS_EmptySet
    <3> QED
      BY <2>2, <3>1, <3>2 DEF LockHeld
  <2> QED
    BY <2>1, <2>2
<1> QED
  BY <1>1, <1>2, NextHandling, PTL DEF HandlingSpec

\* The invariants that the run of the nodes checks.
THEOREM NodesKeepInvariants == NodesSpec /\ HandlingSpec => []NodesInv
<1>1. NodesTypeOK /\ NeighborsAreConnected /\ HandlingInv => NodesInv
  BY DEF NodesInv
<1> QED
  BY <1>1, NodesWellTyped, NeighborsStayConnected, HandlingInStep, PTL

-----------------------------------------------------------------------------
(* What a tracker reports of its nodes.                                    *)

\* A stream part's links: among its nodes, which are connected to the tracker, both ways.
GoodOverlay(overlay, nodesThere) ==
  /\ DOMAIN overlay \subseteq nodesThere
  /\ overlay = [n \in DOMAIN overlay |-> overlay[n]]
  /\ \A n \in DOMAIN overlay : \A m \in overlay[n] : m \in DOMAIN overlay /\ n \in overlay[m]

\* Nothing is kept of a node that is not there.
TablesInv ==
  /\ online \subseteq Peers
  /\ overlays = [p \in Part |-> overlays[p]]
  /\ \A p \in Part : GoodOverlay(overlays[p], online)
  /\ DOMAIN rtts \cup DOMAIN located \cup extras \subseteq online
  /\ reporters \subseteq DOMAIN located
  /\ \A n \in reporters : located[n] = "reported"

\* The cached page is what there is, or there was a change since it was made.
PageInv ==
  /\ clock \in Nat /\ changed \in Nat /\ changed <= clock
  /\ page # Unknown =>
       /\ page.timestamp \in Nat /\ page.timestamp <= clock
       /\ page.json = NodeConnections \/ changed >= page.timestamp
  /\ PageIsRecent

\* A stream part with any of the links that instructions may bring.
LEMMA LinkedIsGood ==
  ASSUME NEW there, NEW members \in SUBSET there, NEW pairs
  PROVE  /\ GoodOverlay(Linked(members, pairs), there)
         /\ DOMAIN Linked(members, pairs) = members
<1>1. \A n, m : {n, m} = {m, n}
  OBVIOUS
<1>2. DOMAIN Linked(members, pairs) = members
  BY DEF Linked
<1>3. \A n \in members : Linked(members, pairs)[n] = {m \in members : {n, m} \in pairs}
  BY DEF Linked
<1>4. Linked(members, pairs) = [n \in DOMAIN Linked(members, pairs) |-> Linked(members, pairs)[n]]
  BY DEF Linked
<1>5. ASSUME NEW n \in members, NEW m \in Linked(members, pairs)[n]
      PROVE  m \in members /\ n \in Linked(members, pairs)[m]
  <2>1. m \in members /\ {n, m} \in pairs
    BY <1>3
  <2>2. {m, n} \in pairs
    BY <1>1, <2>1
  <2> QED
    BY <1>3, <2>1, <2>2
<1> QED
  BY <1>2, <1>4, <1>5 DEF GoodOverlay

\* A node's neighbours are those of one of its stream parts.
LEMMA NeighborsIn ==
  ASSUME NEW n, NEW m
  PROVE  m \in Neighbors(n) <=> \E q \in Part : n \in DOMAIN overlays[q] /\ m \in overlays[q][n]
BY DEF Neighbors, StreamPartsOfNode, Members

\* The list of connections has a row for each connected node.
LEMMA ConnectionsOf ==
  ASSUME TablesInv
  PROVE  /\ DOMAIN NodeConnections = online
         /\ \A n \in online : NodeConnections[n] = Neighbors(n)
<1>1. ASSUME NEW n \in Peers, Neighbors(n) # {}
      PROVE  n \in online
  <2>1. PICK m : m \in Neighbors(n)
    BY <1>1
  <2>2. PICK q \in Part : n \in DOMAIN overlays[q]
    BY <2>1, NeighborsIn
  <2> QED
    BY <2>2 DEF TablesInv, GoodOverlay
<1> QED
  BY <1>1 DEF NodeConnections

\* A request without parameters is answered with every stream part that has nodes.
LEMMA EveryTopology ==
  ASSUME TablesInv
  PROVE  /\ DOMAIN GetTopology(Unknown, Unknown) = {q \in Part : DOMAIN overlays[q] # {}}
         /\ \A q \in DOMAIN GetTopology(Unknown, Unknown) :
              /\ DOMAIN GetTopology(Unknown, Unknown)[q] = DOMAIN overlays[q]
              /\ \A n \in DOMAIN overlays[q] :
                   DOMAIN GetTopology(Unknown, Unknown)[q][n] = overlays[q][n]
<1>1. GetTopology(Unknown, Unknown) = Topology(Unknown, Unknown)
  BY ReportsAssumption DEF GetTopology, IsValid
<1>2. StreamPartsFor(Unknown, Unknown) = {q \in Part : overlays[q] # Empty}
  BY DEF StreamPartsFor
<1>3. ASSUME NEW q \in Part
      PROVE  overlays[q] # Empty <=> DOMAIN overlays[q] # {}
  <2>1. overlays[q] = [n \in DOMAIN overlays[q] |-> overlays[q][n]]
    BY DEF TablesInv, GoodOverlay
  <2>2. DOMAIN Empty = {}
    BY DEF Empty
  <2>3. DOMAIN overlays[q] = {} => overlays[q] = Empty
    BY <2>1 DEF Empty
  <2> QED
    BY <2>2, <2>3
<1>4. DOMAIN Topology(Unknown, Unknown) = {q \in Part : DOMAIN overlays[q] # {}}
  BY <1>2, <1>3 DEF Topology
<1>5. ASSUME NEW q \in DOMAIN Topology(Unknown, Unknown)
      PROVE  /\ DOMAIN Topology(Unknown, Unknown)[q] = DOMAIN overlays[q]
             /\ \A n \in DOMAIN overlays[q] : DOMAIN Topology(Unknown, Unknown)[q][n] = overlays[q][n]
  <2>1. Topology(Unknown, Unknown)[q] =
          [n \in Members(q) |-> ConnectionsWithRtts(n, overlays[q][n])]
    BY <1>5 DEF Topology
  <2> QED
    BY <2>1 DEF Members, ConnectionsWithRtts
<1> QED
  BY <1>1, <1>4, <1>5

\* The tables' links go both ways, so the views agree.
LEMMA TablesAgreeInViews == TablesInv => ViewsAgree
<1> SUFFICES ASSUME TablesInv PROVE ViewsAgree
  OBVIOUS
<1> DEFINE all == GetTopology(Unknown, Unknown)
<1>1. /\ DOMAIN NodeConnections = online
      /\ \A n \in online : NodeConnections[n] = Neighbors(n)
  BY ConnectionsOf
<1>2. /\ DOMAIN all = {q \in Part : DOMAIN overlays[q] # {}}
      /\ \A q \in DOMAIN all :
           /\ DOMAIN all[q] = DOMAIN overlays[q]
           /\ \A n \in DOMAIN overlays[q] : DOMAIN all[q][n] = overlays[q][n]
  BY EveryTopology
<1>3. \A q \in Part : GoodOverlay(overlays[q], online)
  BY DEF TablesInv
<1> HIDE DEF all
<1>4. ASSUME NEW n \in online, NEW m \in online
      PROVE  /\ m \in NodeConnections[n] <=> n \in NodeConnections[m]
             /\ m \in NodeConnections[n] <=>
                  \E q \in DOMAIN all : n \in DOMAIN all[q] /\ m \in DOMAIN all[q][n]
             /\ {n, m} \subseteq DOMAIN rtts =>
                  (ConnectionRtt(n, m) = Unknown <=> ConnectionRtt(m, n) = Unknown)
  <2>1. m \in Neighbors(n) <=> n \in Neighbors(m)
    BY <1>3, NeighborsIn DEF GoodOverlay
  <2>2. m \in Neighbors(n) <=> \E q \in DOMAIN all : n \in DOMAIN all[q] /\ m \in DOMAIN all[q][n]
    BY <1>2, NeighborsIn
  <2>3. n # Unknown /\ m # Unknown
    BY ReportsAssumption DEF TablesInv
  <2>4. {n, m} \subseteq DOMAIN rtts =>
          (ConnectionRtt(n, m) = Unknown <=> ConnectionRtt(m, n) = Unknown)
    BY <2>3 DEF ConnectionRtt
  <2> QED
    BY <1>1, <2>1, <2>2, <2>4
<1>5. UNION {DOMAIN all[q] : q \in DOMAIN all} \subseteq online
  <2>1. ASSUME NEW q \in DOMAIN all
        PROVE  DOMAIN all[q] \subseteq online
    <3>1. q \in Part /\ DOMAIN all[q] = DOMAIN overlays[q]
      BY <1>2
    <3> QED
      BY <1>3, <3>1 DEF GoodOverlay
  <2> QED
    BY <2>1
<1>6. DOMAIN rtts \cup DOMAIN located \cup extras \subseteq online
  BY DEF TablesInv
<1>7. ASSUME NEW q \in DOMAIN all
      PROVE  q \in DOMAIN GetTopology(StreamOf[q], Unknown)
  <2>1. q \in Part /\ overlays[q] # Empty
    BY <1>2 DEF Empty
  <2>2. StreamOf[q] \in Stream /\ <<StreamOf[q], StreamOf[q]>> \in Within
        /\ Malformed \notin {StreamOf[q], Unknown}
    BY <2>1, ReportsAssumption
  <2>3. q \in StreamPartsFor(StreamOf[q], Unknown)
    BY <2>1, <2>2 DEF StreamPartsFor
  <2> QED
    BY <2>2, <2>3 DEF GetTopology, IsValid, Topology
<1>8. ASSUME NEW s, NEW p
      PROVE  GetSizes(s, p) = [q \in DOMAIN GetTopology(s, p) |->
                                 Cardinality({n \in online : q \in StreamPartsOfNode(n)})]
  <2>1. CASE ~IsValid(s, p)
    BY <2>1 DEF GetSizes, GetTopology, Unprocessable
  <2>2. CASE IsValid(s, p)
    <3>1. GetSizes(s, p) = [q \in StreamPartsFor(s, p) |-> Cardinality(Members(q))]
      BY <2>2 DEF GetSizes, Sizes
    <3>2. DOMAIN GetTopology(s, p) = StreamPartsFor(s, p)
      BY <2>2 DEF GetTopology, Topology
    <3>3. ASSUME NEW q \in StreamPartsFor(s, p)
          PROVE  {n \in online : q \in StreamPartsOfNode(n)} = Members(q)
      <4>1. q \in Part
        BY <3>3 DEF StreamPartsFor
      <4>2. Members(q) \subseteq online
        BY <1>3, <4>1 DEF GoodOverlay, Members
      <4> QED
        BY <4>1, <4>2 DEF StreamPartsOfNode
    <3> QED
      BY <3>1, <3>2, <3>3
  <2> QED
    BY <2>1, <2>2
<1> QED
  BY <1>1, <1>4, <1>5, <1>6, <1>7, <1>8 DEF ViewsAgree, all

\* After a handler, the page is what there is or the connections have changed since.
LEMMA HandledKeepsPage ==
  ASSUME PageInv, Handled
  PROVE  PageInv'
<1>1. answer' = Unknown /\ clock' = clock /\ page' = page
      /\ changed' = IF NodeConnections' = NodeConnections THEN changed ELSE clock
  BY DEF Handled
<1> QED
  BY <1>1 DEF PageInv, PageIsRecent

\* A node connects.
LEMMA NodeConnectedKeeps ==
  ASSUME TablesInv, NEW n \in Peers, NodeConnected(n)
  PROVE  TablesInv'
BY DEF TablesInv, NodeConnected, GoodOverlay

\* A status of a connected node.
LEMMA StatusReceivedKeeps ==
  ASSUME TablesInv, NEW n \in Peers, NEW p \in Part, NEW leaves \in BOOLEAN,
         NEW reported \in BOOLEAN, NEW found \in BOOLEAN,
         NEW measured \in SUBSET (Peers \ {n}) \cup {Unknown},
         StatusReceived(n, p, measured, leaves, reported, found)
  PROVE  TablesInv'
<1>1. /\ n \in online /\ online' = online
      /\ rtts' = IF measured = Unknown THEN rtts ELSE Recorded(rtts, n, measured)
      /\ UpdateLocation(n, reported, found)
      /\ extras' = extras \cup {n}
      /\ reporters' = reporters \cup {m \in {n} : reported}
  BY DEF StatusReceived
<1>2. DOMAIN rtts' \subseteq DOMAIN rtts \cup {n}
  BY <1>1 DEF Recorded
<1>3. DOMAIN located \subseteq DOMAIN located' /\ DOMAIN located' \subseteq DOMAIN located \cup {n}
  BY <1>1 DEF UpdateLocation, Recorded
<1>4. /\ reporters' \subseteq DOMAIN located'
      /\ \A m \in reporters' : located'[m] = "reported"
  <2>1. CASE reported
    <3>1. located' = Recorded(located, n, "reported")
      BY <1>1, <2>1 DEF UpdateLocation
    <3>2. DOMAIN located' = DOMAIN located \cup {n}
          /\ \A m \in DOMAIN located \cup {n} : located'[m] = IF m = n THEN "reported" ELSE located[m]
      BY <3>1 DEF Recorded
    <3> QED
      BY <1>1, <3>2 DEF TablesInv
  <2>2. CASE ~reported
    <3>1. reporters' = reporters
      BY <1>1, <2>2
    <3>2. \A m \in reporters : m \in DOMAIN located /\ located[m] = "reported"
      BY DEF TablesInv
    <3>3. \A m \in DOMAIN located : m \in DOMAIN located' /\ located'[m] = located[m]
      <4>1. CASE n \notin DOMAIN located /\ found
        <5>1. located' = Recorded(located, n, "looked up")
          BY <1>1, <2>2, <4>1 DEF UpdateLocation
        <5> QED
          BY <4>1, <5>1 DEF Recorded
      <4>2. CASE ~(n \notin DOMAIN located /\ found)
        BY <1>1, <2>2, <4>2 DEF UpdateLocation
      <4> QED
        BY <4>1, <4>2
    <3> QED
      BY <3>1, <3>2, <3>3
  <2> QED
    BY <2>1, <2>2
<1>5. /\ overlays' = [q \in Part |-> overlays'[q]]
      /\ \A q \in Part : GoodOverlay(overlays'[q], online)
  <2> DEFINE members == IF leaves THEN Members(p) \ {n} ELSE Members(p) \cup {n}
  <2>1. PICK pairs : overlays' = [overlays EXCEPT ![p] = Linked(members, pairs)]
    BY DEF StatusReceived
  <2>2. members \subseteq online
    BY <1>1 DEF TablesInv, GoodOverlay, Members
  <2> HIDE DEF members
  <2>3. GoodOverlay(Linked(members, pairs), online)
    BY <2>2, LinkedIsGood
  <2>4. overlays = [q \in Part |-> overlays[q]] /\ \A q \in Part : GoodOverlay(overlays[q], online)
    BY DEF TablesInv
  <2>5. \A q \in Part : overlays'[q] = IF q = p THEN Linked(members, pairs) ELSE overlays[q]
    BY <2>1, <2>4
  <2> QED
    BY <2>1, <2>3, <2>4, <2>5
<1> QED
  BY <1>1, <1>2, <1>3, <1>4, <1>5 DEF TablesInv

\* A node disconnects, and what is known of it goes.
LEMMA NodeDisconnectedKeeps ==
  ASSUME TablesInv, NEW n \in Peers, NodeDisconnected(n)
  PROVE  TablesInv'
<1>1. /\ n \in online /\ online' = online \ {n} /\ reporters' = reporters \ {n}
      /\ rtts' = [m \in DOMAIN rtts \ {n} |-> rtts[m]]
      /\ located' = [m \in DOMAIN located \ {n} |-> located[m]]
      /\ extras' = extras \ {n}
  BY DEF NodeDisconnected, RemoveNode
<1>2. PICK pairs :
        overlays' = [p \in Part |-> IF n \in Members(p) THEN Linked(Members(p) \ {n}, pairs[p])
                                    ELSE overlays[p]]
  BY DEF NodeDisconnected
<1>3. ASSUME NEW p \in Part
      PROVE  GoodOverlay(overlays'[p], online')
  <2>1. GoodOverlay(overlays[p], online)
    BY DEF TablesInv
  <2>2. CASE n \in Members(p)
    <3>1. overlays'[p] = Linked(Members(p) \ {n}, pairs[p]) /\ Members(p) \ {n} \subseteq online'
      BY <1>1, <1>2, <2>1, <2>2 DEF GoodOverlay, Members
    <3> QED
      BY <3>1, LinkedIsGood
  <2>3. CASE n \notin Members(p)
    <3>1. overlays'[p] = overlays[p] /\ DOMAIN overlays[p] \subseteq online'
      BY <1>1, <1>2, <2>1, <2>3 DEF GoodOverlay, Members
    <3> QED
      BY <2>1, <3>1 DEF GoodOverlay
  <2> QED
    BY <2>2, <2>3
<1>4. overlays' = [p \in Part |-> overlays'[p]]
  BY <1>2
<1> QED
  BY <1>1, <1>3, <1>4 DEF TablesInv

\* The page is made, or is not older than MaxAge: if it is not what there is, something
\* changed since, at most MaxAge ago.
LEMMA GetConnectionsKeeps ==
  ASSUME TablesInv, PageInv, GetConnections
  PROVE  TablesInv' /\ PageInv'
<1>1. /\ page' = IF page = Unknown \/ clock > page.timestamp + MaxAge
                 THEN [json |-> NodeConnections, timestamp |-> clock] ELSE page
      /\ answer' = page'.json
      /\ UNCHANGED <<online, overlays, rtts, located, extras, clock, changed, reporters>>
  BY DEF GetConnections
<1>2. TablesInv'
  BY <1>1 DEF TablesInv
<1>3. NodeConnections' = NodeConnections
  BY <1>1 DEF NodeConnections, Neighbors, StreamPartsOfNode, Members
<1>4. MaxAge \in Nat /\ clock \in Nat /\ changed \in Nat /\ changed <= clock
  BY ReportsAssumption DEF PageInv
<1>5. CASE page = Unknown \/ clock > page.timestamp + MaxAge
  <2>1. page'.json = NodeConnections /\ page'.timestamp = clock
    BY <1>1, <1>5
  <2> QED
    BY <1>1, <1>2, <1>3, <1>4, <2>1 DEF PageInv, PageIsRecent
<1>6. CASE page # Unknown /\ ~(clock > page.timestamp + MaxAge)
  <2>1. /\ page' = page /\ page.timestamp \in Nat /\ clock <= page.timestamp + MaxAge
        /\ page.json = NodeConnections \/ changed >= page.timestamp
    BY <1>1, <1>4, <1>6 DEF PageInv
  <2>2. page.json = NodeConnections \/ clock - changed <= MaxAge
    BY <1>4, <2>1
  <2> QED
    BY <1>1, <1>2, <1>3, <1>4, <2>1, <2>2 DEF PageInv, PageIsRecent
<1> QED
  BY <1>5, <1>6

\* Time goes on.
LEMMA TickKeeps ==
  ASSUME TablesInv, PageInv, ReportsTick
  PROVE  TablesInv' /\ PageInv'
<1>1. /\ clock' = clock + 1 /\ answer' = Unknown
      /\ UNCHANGED <<online, overlays, rtts, located, extras, page, changed, reporters>>
  BY DEF ReportsTick
<1>2. NodeConnections' = NodeConnections
  BY <1>1 DEF NodeConnections, Neighbors, StreamPartsOfNode, Members
<1> QED
  BY <1>1, <1>2 DEF TablesInv, PageInv, PageIsRecent

\* Whatever statuses and disconnections went before, the tracker's views agree, the cached
\* page is recent, and a location that a node reported is told.
THEOREM ReportsAgree == ReportsSpec => []ReportsInv
<1> DEFINE Inv == TablesInv /\ PageInv
<1>1. ReportsInit => Inv
  <2> SUFFICES ASSUME ReportsInit PROVE Inv
    OBVIOUS
  <2>1. TablesInv
    BY DEF ReportsInit, TablesInv, GoodOverlay, Empty
  <2> QED
    BY <2>1 DEF ReportsInit, PageInv, PageIsRecent
<1>2. Inv /\ [ReportsNext]_reportsVars => Inv'
  <2> SUFFICES ASSUME Inv, [ReportsNext]_reportsVars PROVE Inv'
    OBVIOUS
  <2>1. ASSUME NEW n \in Peers, NodeConnected(n) \/ NodeDisconnected(n)
        PROVE  Inv'
    BY <2>1, NodeConnectedKeeps, NodeDisconnectedKeeps, HandledKeepsPage
       DEF NodeConnected, NodeDisconnected
  <2>2. ASSUME NEW n \in Peers, NEW p \in Part, NEW leaves \in BOOLEAN, NEW reported \in BOOLEAN,
               NEW found \in BOOLEAN, NEW measured \in SUBSET (Peers \ {n}) \cup {Unknown},
               StatusReceived(n, p, measured, leaves, reported, found)
        PROVE  Inv'
    <3>1. TablesInv'
      BY <2>2, StatusReceivedKeeps
    <3> QED
      BY <2>2, <3>1, HandledKeepsPage DEF StatusReceived
  <2>3. CASE GetConnections \/ ReportsTick
    BY <2>3, GetConnectionsKeeps, TickKeeps
  <2>4. CASE UNCHANGED reportsVars
    <3>1. NodeConnections' = NodeConnections
      BY <2>4 DEF reportsVars, NodeConnections, Neighbors, StreamPartsOfNode, Members
    <3> QED
      BY <2>4, <3>1 DEF reportsVars, TablesInv, PageInv, PageIsRecent
  <2> QED
    BY <2>1, <2>2, <2>3, <2>4 DEF ReportsNext
<1>3. Inv => ReportsInv
  <2> SUFFICES ASSUME Inv PROVE ReportsInv
    OBVIOUS
  <2>1. ReportedLocationStays
    <3>1. \A n \in reporters : n \in online /\ n \in DOMAIN located /\ located[n] = "reported"
      BY DEF TablesInv
    <3> QED
      BY <3>1 DEF ReportedLocationStays, Locations
  <2> QED
    BY <2>1, TablesAgreeInViews DEF PageInv, ReportsInv
<1> HIDE DEF Inv
<1> QED
  BY <1>1, <1>2, <1>3, PTL DEF ReportsSpec
==============================================================================
