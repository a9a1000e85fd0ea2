-------------------------- MODULE StorageAssignments --------------------------
(***************************************************************************)
(* Which stream parts a storage node stores: the broker's StorageConfig.ts *)
(* with SetMembershipSynchronizer.ts, StoragePoller.ts and                 *)
(* StorageEventListener.ts, and what StoragePlugin.ts does with the result.*)
(*                                                                         *)
(* Assignments are made on a chain.  The node hears of them by events, late*)
(* and in any order because the stream of each is looked up first, or not  *)
(* at all, and by polls of an index of the chain, which may be behind and  *)
(* whose pages may be of different blocks.                                 *)
(***************************************************************************)
EXTENDS Integers, Sequences, FiniteSets, FiniteSetsExt

CONSTANTS
  Stream,     \* the streams
  PartsOf,    \* the stream parts of each stream that fall to this node
  MaxBlocks   \* bound: the blocks of the chain

ASSUME AssignmentAssumption ==
  /\ MaxBlocks \in Nat /\ Stream # {} /\ DOMAIN PartsOf = Stream
  /\ \A s, t \in Stream : s # t => PartsOf[s] \cap PartsOf[t] = {}

VARIABLES
  chain,         \* the streams assigned after each block
  often,         \* streams and blocks with two changes in one block
  heard,         \* events whose stream is being looked up
  polling,       \* a poll is under way
  lastSnapshot,  \* lastSnapshotSequenceNo
  state, lastSequenceNo,  \* state and lastSequenceNoByElement, 0 for none
  subscribed,    \* the stream parts the network node is subscribed to
  plugin         \* "running", "closing" while the database closes, "stopped"

assignmentVars ==
  <<chain, often, heard, polling, lastSnapshot, state, lastSequenceNo, subscribed, plugin>>

Element == UNION {PartsOf[s] : s \in Stream}
Parts(S) == UNION {PartsOf[s] : s \in S}
Newest == Len(chain)

AssignmentsInit ==
  /\ chain = <<{}>> /\ often = {} /\ heard = {} /\ polling = FALSE
  /\ lastSnapshot = 0 /\ state = {} /\ lastSequenceNo = [e \in Element |-> 0]
  /\ subscribed = {} /\ plugin = "running"

-----------------------------------------------------------------------------
(* The chain.                                                              *)

Changed(S, s) == IF s \in S THEN S \ {s} ELSE S \cup {s}
Event(s, before) == [stream |-> s, type |-> IF s \in before THEN "removed" ELSE "added",
                     block |-> Newest + 1]

\* A block with one change of each of the streams S, or with two of a stream.  Any
\* of the events are lost, here or because the lookup fails, and the plugin that
\* was destroyed does not listen.
Mine ==
  /\ Newest < MaxBlocks
  /\ LET before == chain[Newest]
     IN  \/ \E S \in SUBSET Stream \ {{}} :
              /\ chain' = Append(chain, (before \ S) \cup (S \ before))
              /\ \E L \in SUBSET S :
                   heard' = IF plugin = "stopped" THEN heard
                            ELSE heard \cup {Event(s, before) : s \in L}
              /\ UNCHANGED often
         \/ \E s \in Stream :
              /\ chain' = Append(chain, before)
              /\ often' = often \cup {<<s, Newest + 1>>}
              /\ \E L \in SUBSET {Event(s, before), Event(s, Changed(before, s))} :
                   heard' = IF plugin = "stopped" THEN heard ELSE heard \cup L
  /\ UNCHANGED <<polling, lastSnapshot, state, lastSequenceNo, subscribed, plugin>>

-----------------------------------------------------------------------------
(* The synchronizer and its listener.                                      *)

\* handleDiff with the plugin's listener: subscribeAndWaitForJoin, unsubscribe.
Deliver(now) ==
  /\ state' = now
  /\ subscribed' = (subscribed \cup (now \ state)) \ (state \ now)

\* Mutant: stale patches are kept, so that they override the snapshot.
IngestSnapshot_KeepsPatches(elements, sequenceNo) ==
  IF sequenceNo <= lastSnapshot
  THEN UNCHANGED <<lastSnapshot, lastSequenceNo, state, subscribed>>
  ELSE LET patched == {e \in Element : lastSequenceNo[e] > 0}
       IN  /\ lastSnapshot' = sequenceNo
           /\ Deliver((elements \ patched) \cup (state \cap patched))
           /\ UNCHANGED lastSequenceNo

\* ingestSnapshot
IngestSnapshot(elements, sequenceNo) ==
  IF sequenceNo <= lastSnapshot
  THEN UNCHANGED <<lastSnapshot, lastSequenceNo, state, subscribed>>
  ELSE LET patched == {e \in Element : lastSequenceNo[e] > sequenceNo}
       IN  /\ lastSnapshot' = sequenceNo
           /\ lastSequenceNo' =
                [e \in Element |-> IF e \in patched THEN lastSequenceNo[e] ELSE 0]
           /\ Deliver((elements \ patched) \cup (state \cap patched))

\* ingestPatch
IngestPatch(elements, type, sequenceNo) ==
  LET fresh == IF sequenceNo <= lastSnapshot THEN {}
               ELSE {e \in elements : sequenceNo > lastSequenceNo[e]}
  IN  /\ lastSequenceNo' =
           [e \in Element |-> IF e \in fresh THEN sequenceNo ELSE lastSequenceNo[e]]
      /\ Deliver(IF type = "added" THEN state \cup fresh ELSE state \ fresh)

-----------------------------------------------------------------------------
(* The two sources, and the plugin.                                        *)

\* handleEvent, with the stream looked up.
HandleEvent(e) ==
  /\ e \in heard
  /\ heard' = heard \ {e}
  /\ IngestPatch(PartsOf[e.stream], e.type, e.block)
  /\ UNCHANGED <<chain, often, polling, lastSnapshot, plugin>>

\* tryPoll, at the start and after each interval until the signal aborts.
Poll ==
  /\ ~polling /\ plugin # "stopped"
  /\ polling' = TRUE
  /\ UNCHANGED <<chain, often, heard, lastSnapshot, state, lastSequenceNo, subscribed, plugin>>

\* Each stream was read at some block; the least block of the pages is reported.
Polled(at) ==
  /\ polling
  /\ polling' = FALSE
  /\ IngestSnapshot(Parts({s \in Stream : s \in chain[at[s]]}), Min({at[s] : s \in Stream}))
  /\ UNCHANGED <<chain, often, heard, plugin>>

\* The poll fails.
PollFails ==
  /\ polling
  /\ polling' = FALSE
  /\ UNCHANGED <<chain, often, heard, lastSnapshot, state, lastSequenceNo, subscribed, plugin>>

\* stop: unsubscribed from all, the database is closed, then the config destroyed.
Stop ==
  /\ plugin = "running"
  /\ plugin' = "closing"
  /\ subscribed' = subscribed \ state
  /\ UNCHANGED <<chain, often, heard, polling, lastSnapshot, state, lastSequenceNo>>

Destroy ==
  /\ plugin = "closing"
  /\ plugin' = "stopped"
  /\ UNCHANGED <<chain, often, heard, polling, lastSnapshot, state, lastSequenceNo, subscribed>>

-----------------------------------------------------------------------------
AssignmentsNext ==
  \/ Mine
  \/ \E e \in heard : HandleEvent(e)
  \/ Poll
  \/ \E at \in [Stream -> 1 .. Newest] : Polled(at)
  \/ PollFails
  \/ Stop
  \/ Destroy

AssignmentsSpec == AssignmentsInit /\ [][AssignmentsNext]_assignmentVars

\* Lookups end, the poller goes on, and again and again the index has caught up
\* with a chain that does not change any more.
AssignmentsFairness ==
  /\ WF_assignmentVars(\E e \in heard : HandleEvent(e))
  /\ WF_assignmentVars(chain # <<{}>> /\ Poll)
  /\ SF_assignmentVars(Polled([s \in Stream |-> Newest]))
  /\ WF_assignmentVars(Destroy)

-----------------------------------------------------------------------------
(* Properties.                                                             *)

\* What is stored never goes back: of every stream part, the state is that after
\* some block, not before the last snapshot and the last event of it that were
\* taken in, unless its stream changed twice in that block.
NeverGoesBack ==
  \A s \in Stream : \A e \in PartsOf[s] :
    LET since == Max({lastSnapshot, lastSequenceNo[e], 1})
    IN  \/ \E b \in since .. Newest : e \in state <=> s \in chain[b]
        \/ <<s, since>> \in often

\* Lost events and stale polls are made up for: in the end the node is subscribed to
\* what is assigned, if the plugin keeps running.
AssignmentsSettle ==
  [](plugin = "running") => <>[](subscribed = Parts(chain[Newest]))
=============================================================================
