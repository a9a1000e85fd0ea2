------------------------------- MODULE Tracker -------------------------------
(***************************************************************************)
(* The tracker's work on one stream part: network-tracker/src/logic/       *)
(* Tracker.ts with InstructionCounter.ts and the buffer of                 *)
(* InstructionAndStatusAckSender.ts, around the overlay of OverlayTopology.*)
(*                                                                         *)
(* A status or a disconnection is handled without yielding: the handler    *)
(* changes the overlay and then runs formInstructions for the nodes in     *)
(* forced and, answering a status, for its source.  The sending of the     *)
(* buffer and the next handler start only when that is done.               *)
(***************************************************************************)
EXTENDS OverlayTopology

CONSTANTS
  NoNode,     \* no source
  Ack,        \* a status ack
  MaxCounter  \* bound: no status is handled once a counter has reached it

ASSUME TrackerAssumption == NoNode \notin Node /\ MaxCounter \in Nat

VARIABLES
  counters,  \* the instruction counter of each node that has one
  buffer,    \* the buffered entry of each node that has one: the counter of an
             \* instruction, or an ack
  forced,    \* neighbours of a node that left, to be instructed in any case
  source,    \* the node whose status is being answered, or NoNode
  owed       \* history: the nodes to be answered since the buffer was sent

trackerVars == <<vars, counters, buffer, forced, source, owed>>

Entry == (Nat \ {0}) \cup {Ack}

-----------------------------------------------------------------------------
\* setOrIncrement for the nodes in ns.
Incremented(ns) ==
  [n \in DOMAIN counters \cup ns |->
     (IF n \in DOMAIN counters THEN counters[n] ELSE 0) + (IF n \in ns THEN 1 ELSE 0)]

\* Mutant: an entry of the same node is kept.
Buffered_Keeps(entries) ==
  [n \in DOMAIN buffer \cup DOMAIN entries |->
     IF n \in DOMAIN buffer THEN buffer[n] ELSE entries[n]]

\* The buffer with entries added: each overwrites an earlier one of its node.
Buffered(entries) ==
  [n \in DOMAIN buffer \cup DOMAIN entries |->
     IF n \in DOMAIN entries THEN entries[n] ELSE buffer[n]]

\* The counters when n leaves: all are removed with the last node.
CountersWithout(n) ==
  [m \in (IF DOMAIN nodes \subseteq {n} THEN {} ELSE DOMAIN counters \ {n}) |-> counters[m]]

NoHandler == pc = "idle" /\ forced = {} /\ source = NoNode

\* A status may be handled.
Ready == NoHandler /\ \A n \in DOMAIN counters : counters[n] < MaxCounter

\* processNodeStatus of a subscribed node: an outdated status is ignored.  The
\* counter may be above this tracker's: those start over when it restarts or
\* when the node leaves.
Status(n, reported, counter) ==
  /\ Ready
  /\ n \in DOMAIN counters => counter >= counters[n]
  /\ counters' = [m \in DOMAIN counters \cup {n} |-> IF m \in DOMAIN counters THEN counters[m] ELSE 0]
  /\ Update(n, reported)
  /\ source' = n
  /\ owed' = IF reported \cap DOMAIN nodes \subseteq {n} THEN {n} ELSE {}
  /\ UNCHANGED <<buffer, forced, pc, self, targets, updated>>

\* leaveAndCheckEmptyOverlay, for a status with COUNTER_UNSUBSCRIBE or a
\* disconnection of the node n (which change nothing for an unknown node).
Gone(n) ==
  /\ NoHandler
  /\ n \in DOMAIN nodes
  /\ Leave(n)
  /\ counters' = CountersWithout(n)
  /\ owed' = nodes[n]
  /\ forced' = nodes[n]
  /\ UNCHANGED <<buffer, source, pc, self, targets, updated>>

\* The next call of formInstructions; it is forced for the neighbours of a
\* node that left.
Call(n) ==
  /\ n \in forced \/ (forced = {} /\ n = source)
  /\ Begin(n, n \in forced)
  /\ forced' = forced \ {n}
  /\ UNCHANGED <<counters, buffer, source, owed>>

Form ==
  /\ FormStep
  /\ UNCHANGED <<counters, buffer, forced, source, owed>>

\* Mutant: a node that is alone gets no ack.
Return_NoAck ==
  /\ Finish
  /\ counters' = Incremented(updated)
  /\ buffer' = Buffered([n \in updated |-> counters'[n]])
  /\ source' = IF source = self THEN NoNode ELSE source
  /\ UNCHANGED <<forced, owed>>

\* formInstructions returns: its instructions are numbered and buffered; an
\* ack is buffered when it answers a node that is alone.
Return ==
  LET isAloneInTopology == DOMAIN nodes = {self}
  IN  /\ Finish
      /\ IF ~isAloneInTopology \/ source # self \/ updated # {}
         THEN /\ counters' = Incremented(updated)
              /\ buffer' = Buffered([n \in updated |-> counters'[n]])
         ELSE /\ buffer' = Buffered([n \in {self} |-> Ack])
              /\ UNCHANGED counters
      /\ source' = IF source = self THEN NoNode ELSE source
      /\ UNCHANGED <<forced, owed>>

\* The debounced sending of the buffer.
Send ==
  /\ NoHandler
  /\ buffer # [n \in {} |-> {}]
  /\ buffer' = [n \in {} |-> {}]
  /\ owed' = {}
  /\ UNCHANGED <<vars, counters, forced, source>>

TrackerInit ==
  /\ Init
  /\ counters = [n \in {} |-> 0]
  /\ buffer = [n \in {} |-> {}]
  /\ forced = {}
  /\ source = NoNode
  /\ owed = {}

TrackerNext ==
  \/ \E n \in Node, reported \in SUBSET Node :
       \E counter \in 0 .. MaxCounter : Status(n, reported, counter)
  \/ \E n \in Node : Gone(n)
  \/ \E n \in Node : Call(n)
  \/ Form
  \/ Return
  \/ Send

TrackerSpec == TrackerInit /\ [][TrackerNext]_trackerVars

-----------------------------------------------------------------------------
(* Properties.                                                             *)

TrackerTypeOK ==
  /\ TypeOK
  /\ DOMAIN counters \subseteq Node /\ counters \in [DOMAIN counters -> Nat]
  /\ DOMAIN buffer \subseteq Node /\ buffer \in [DOMAIN buffer -> Entry]
  /\ forced \subseteq DOMAIN nodes
  /\ source \in DOMAIN nodes \cup {NoNode}
  /\ owed \subseteq Node

\* Exactly the nodes of the overlay have a counter: none leaks, whichever way
\* its node went, and none is missing when a status is compared with it.
CountersOfMembers == DOMAIN counters = DOMAIN nodes

\* "the previous entry is no longer valid and can be ignored": an instruction
\* in the buffer is never older than the last one numbered for its node.
NewestIsBuffered ==
  \A n \in DOMAIN buffer \cap DOMAIN nodes :
    buffer[n] # Ack => buffer[n] >= counters[n]

\* Members, counters and buffered instructions agree, between any two steps of a handler.
TrackerInv == TrackerTypeOK /\ CountersOfMembers /\ NewestIsBuffered

\* A node that reports no neighbours, as one that joins does, waits for an
\* answer, and the neighbours of a node that left have lost a connection: when
\* the handler is done each has an instruction or an ack in the buffer.
OwedAreAnswered == NoHandler => owed \subseteq DOMAIN buffer
=============================================================================
