----------------------------- MODULE Propagation -----------------------------
(***************************************************************************)
(* How a node passes messages on to its neighbours:                        *)
(* network/src/logic/propagation/Propagation.ts, its PropagationTaskStore  *)
(* with the FifoMapWithTtl inside, and the callers in Node.ts.             *)
(*                                                                         *)
(* A send is a promise: it is in flight until it fulfils or rejects, and   *)
(* neighbours come and go, time passes and other messages arrive meanwhile.*)
(* The map's items, its drop queue and the lookup by stream part are       *)
(* variables of their own, because the code keeps them in step by hand.    *)
(***************************************************************************)
EXTENDS Naturals, FiniteSets

CONSTANTS
  Node,         \* possible neighbours
  Local,        \* the source of a message this node publishes
  Message,      \* messages, each one unseen once
  Part,         \* stream parts
  PartOf,       \* the stream part of each message
  MinTargets,   \* minPropagationTargets
  MaxTasks,     \* maxMessages
  Ttl,          \* time to live of a task, in ticks
  MaxDeliveryFailures,  \* consecutive failures that disconnect a neighbour
  MaxSends      \* bound: sends of a message to one node in flight at once

ASSUME PropagationAssumption ==
  /\ Local \notin Node /\ IsFiniteSet(Node)
  /\ PartOf \in [Message -> Part]
  /\ MinTargets \in Nat
  /\ MaxTasks \in Nat \ {0}
  /\ Ttl \in Nat /\ MaxDeliveryFailures \in Nat \ {0} /\ MaxSends \in Nat \ {0}

VARIABLES
  dropQueue,  \* the messages inserted before each message of the queue that are still in it
  left,       \* items: the time each has left, 0 when it has expired
  lookup,     \* streamPartLookup: the messages of each stream part with any
  source,     \* the source of each message that was fed
  handled,    \* handledNeighbors of each message that was fed
  inFlight,   \* how many sends of a message to a node are in flight
  consecutiveFailures,  \* consecutiveDeliveryFailures
  neighbors,  \* the neighbours in each stream part that is set up
  failed      \* history: nodes to which the last send of a message failed

storeVars == <<dropQueue, left, lookup>>
propagationVars ==
  <<storeVars, source, handled, inFlight, consecutiveFailures, neighbors, failed>>

Fed == DOMAIN handled

\* The function f with the value v at x.
With(f, x, v) == [y \in DOMAIN f \cup {x} |-> IF y = x THEN v ELSE f[y]]

-----------------------------------------------------------------------------
(* The task store.                                                         *)

\* onItemDropped for the messages ms: a stream part without any is dropped.
LookupWithout(l, ms) ==
  [p \in {q \in DOMAIN l : ~(l[q] \subseteq ms)} |-> l[p] \ ms]

\* The lookup with m.
LookupWith(l, m) ==
  With(l, PartOf[m], {m} \cup IF PartOf[m] \in DOMAIN l THEN l[PartOf[m]] ELSE {})

\* dropQueue.removeNode for each of the messages ms.
QueueWithout(ms) == [m \in DOMAIN dropQueue \ ms |-> dropQueue[m] \ ms]

\* Mutant: the newest message is dropped.
Dropped_Newest ==
  {m \in DOMAIN dropQueue : /\ Cardinality(DOMAIN left) = MaxTasks
                            /\ \A x \in DOMAIN dropQueue : m \notin dropQueue[x]}

\* The first of the queue makes room for another message.
Dropped ==
  {m \in DOMAIN dropQueue : Cardinality(DOMAIN left) = MaxTasks /\ dropQueue[m] = {}}

\* delete for each of the messages ms.
Forget(ms) ==
  /\ dropQueue' = QueueWithout(ms)
  /\ left' = [m \in DOMAIN left \ ms |-> left[m]]
  /\ lookup' = LookupWithout(lookup, ms)

\* add of a message that is not in the store.
AddTask(m) ==
  /\ dropQueue' = With(QueueWithout(Dropped), m, DOMAIN dropQueue \ Dropped)
  /\ left' = With([x \in DOMAIN left \ Dropped |-> left[x]], m, Ttl)
  /\ lookup' = LookupWithout(LookupWith(lookup, m), Dropped)

\* What get(p) looks up, and what of it has not expired.
LookedUp(p) == IF p \in DOMAIN lookup THEN lookup[p] ELSE {}

Tasks(p) == {m \in LookedUp(p) : left[m] > 0}

-----------------------------------------------------------------------------
(* Propagation.                                                            *)

\* sendAndAwaitThenMark skips the source and those that have the message.
ToSend(m, ns, src, done) == ns \ ({src} \cup done)

\* Onset of the sends of each message m to the nodes to[m].
Sending(to) ==
  inFlight' = [m \in Message |-> [n \in Node |->
                 inFlight[m][n] + IF m \in DOMAIN to /\ n \in to[m] THEN 1 ELSE 0]]

SubscribeTo(p) ==
  /\ p \notin DOMAIN neighbors
  /\ neighbors' = With(neighbors, p, {})
  /\ UNCHANGED <<storeVars, source, handled, inFlight, consecutiveFailures, failed>>

\* The tasks of the stream part stay in the store.
UnsubscribeFrom(p) ==
  /\ p \in DOMAIN neighbors
  /\ neighbors' = [q \in DOMAIN neighbors \ {p} |-> neighbors[q]]
  /\ UNCHANGED <<storeVars, source, handled, inFlight, consecutiveFailures, failed>>

\* onDataReceived of an unseen message, then feedUnseenMessage.
Feed(m, src) ==
  LET p == PartOf[m]
  IN  /\ m \notin Fed
      /\ p \in DOMAIN neighbors
      /\ AddTask(m)
      /\ source' = With(source, m, src)
      /\ handled' = With(handled, m, {})
      /\ failed' = With(failed, m, {})
      /\ Sending([x \in {m} |-> ToSend(x, neighbors[p], src, {})])
      /\ UNCHANGED <<consecutiveFailures, neighbors>>

\* Mutant: the neighbour is added, but the tasks are not looked at.
Join_Late(n, p) ==
  /\ p \in DOMAIN neighbors
  /\ neighbors' = [neighbors EXCEPT ![p] = @ \cup {n}]
  /\ UNCHANGED <<storeVars, source, handled, inFlight, consecutiveFailures, failed>>

\* subscribeToStreamPartOnNode: n is a neighbour now (it may have been one
\* before), and onNeighborJoined sends it the tasks; get deletes expired ones.
Join(n, p) ==
  /\ p \in DOMAIN neighbors
  /\ \A m \in Message : inFlight[m][n] < MaxSends
  /\ neighbors' = [neighbors EXCEPT ![p] = @ \cup {n}]
  /\ Sending([m \in Tasks(p) |-> ToSend(m, {n}, source[m], handled[m])])
  /\ Forget(LookedUp(p) \ Tasks(p))
  /\ failed' = [m \in Fed |-> IF PartOf[m] = p THEN failed[m] \ {n} ELSE failed[m]]
  /\ UNCHANGED <<source, handled, consecutiveFailures>>

\* unsubscribeFromStreamPartOnNode.
Leave(n, p) ==
  /\ p \in DOMAIN neighbors /\ n \in neighbors[p]
  /\ neighbors' = [neighbors EXCEPT ![p] = @ \ {n}]
  /\ UNCHANGED <<storeVars, source, handled, inFlight, consecutiveFailures, failed>>

\* onNodeDisconnected.
Disconnect(n) ==
  /\ \E p \in DOMAIN neighbors : n \in neighbors[p]
  /\ neighbors' = [p \in DOMAIN neighbors |-> neighbors[p] \ {n}]
  /\ UNCHANGED <<storeVars, source, handled, inFlight, consecutiveFailures, failed>>

\* Whether m has been passed on to sufficiently many.
Enough(m) == Cardinality(handled'[m]) >= MinTargets

\* A send fulfils; deleting a task that is not in the store changes nothing.
SendFulfils(m, n) ==
  /\ inFlight[m][n] > 0
  /\ inFlight' = [inFlight EXCEPT ![m][n] = @ - 1]
  /\ consecutiveFailures' = [consecutiveFailures EXCEPT ![n] = 0]
  /\ handled' = [handled EXCEPT ![m] = @ \cup {n}]
  /\ IF Enough(m) THEN Forget({m}) ELSE UNCHANGED storeVars
  /\ UNCHANGED <<source, neighbors, failed>>

\* A send rejects; after too many in a row the neighbour is disconnected.
SendFails(m, n) ==
  /\ inFlight[m][n] > 0
  /\ inFlight' = [inFlight EXCEPT ![m][n] = @ - 1]
  /\ failed' = [failed EXCEPT ![m] = @ \cup {n}]
  /\ IF consecutiveFailures[n] + 1 >= MaxDeliveryFailures
     THEN /\ consecutiveFailures' = [consecutiveFailures EXCEPT ![n] = 0]
          /\ neighbors' = [p \in DOMAIN neighbors |-> neighbors[p] \ {n}]
     ELSE /\ consecutiveFailures' = [consecutiveFailures EXCEPT ![n] = @ + 1]
          /\ UNCHANGED neighbors
  /\ UNCHANGED <<storeVars, source, handled>>

Tick ==
  /\ \E m \in DOMAIN left : left[m] > 0
  /\ left' = [m \in DOMAIN left |-> IF left[m] > 0 THEN left[m] - 1 ELSE 0]
  /\ UNCHANGED <<dropQueue, lookup, source, handled, inFlight, consecutiveFailures, neighbors, failed>>

Empty == [x \in {} |-> {}]

PropagationInit ==
  /\ dropQueue = Empty /\ left = [x \in {} |-> 0] /\ lookup = Empty
  /\ source = Empty /\ handled = Empty /\ failed = Empty
  /\ inFlight = [m \in Message |-> [n \in Node |-> 0]]
  /\ consecutiveFailures = [n \in Node |-> 0]
  /\ neighbors = Empty

PropagationNext ==
  \/ \E p \in Part : SubscribeTo(p) \/ UnsubscribeFrom(p)
  \/ \E m \in Message, src \in Node \cup {Local} : Feed(m, src)
  \/ \E n \in Node, p \in Part : Join(n, p) \/ Leave(n, p)
  \/ \E n \in Node : Disconnect(n)
  \/ \E m \in Message, n \in Node : SendFulfils(m, n) \/ SendFails(m, n)
  \/ Tick

PropagationSpec == PropagationInit /\ [][PropagationNext]_propagationVars

-----------------------------------------------------------------------------
(* Properties.                                                             *)

\* One after the other: of two messages one is before the other, and so is what is
\* before that one.
IsQueue(q) ==
  \A x, y \in DOMAIN q :
    /\ x \in q[y] \/ y \in q[x] <=> x # y
    /\ x \in q[y] => q[x] \subseteq q[y] /\ y \notin q[x]
    /\ q[x] \subseteq DOMAIN q

PropagationTypeOK ==
  /\ DOMAIN dropQueue \subseteq Message /\ IsQueue(dropQueue)
  /\ DOMAIN left \subseteq Fed /\ left \in [DOMAIN left -> 0 .. Ttl]
  /\ DOMAIN lookup \subseteq Part /\ lookup \in [DOMAIN lookup -> SUBSET Message]
  /\ Fed \subseteq Message /\ handled \in [Fed -> SUBSET Node]
  /\ source \in [Fed -> Node \cup {Local}]
  /\ failed \in [Fed -> SUBSET Node]
  /\ inFlight \in [Message -> [Node -> 0 .. MaxSends]]
  /\ consecutiveFailures \in [Node -> 0 .. MaxDeliveryFailures - 1]
  /\ DOMAIN neighbors \subseteq Part /\ neighbors \in [DOMAIN neighbors -> SUBSET Node]

\* "The keys present in items and dropQueue are the same set", and the lookup
\* of the task store finds exactly these under their own stream part; none of
\* the three outgrows the limit.
StoreAgrees ==
  /\ DOMAIN dropQueue = DOMAIN left /\ Cardinality(DOMAIN left) <= MaxTasks
  /\ \A p \in Part : LookedUp(p) = {m \in DOMAIN left : PartOf[m] = p}
  /\ \A p \in DOMAIN lookup : lookup[p] # {}

\* The task that is dropped to make room is one that would expire first.
SoonestFirst == \A m \in DOMAIN dropQueue : \A x \in dropQueue[m] : left[x] <= left[m]

\* As long as a message is an active task, every neighbour of its stream part
\* is its source, has it, is being sent it, or failed to take it since joining:
\* whenever a neighbour joins, no active task is forgotten.
NoneForgotten ==
  \A m \in DOMAIN left :
    (left[m] > 0 /\ PartOf[m] \in DOMAIN neighbors) =>
      \A n \in neighbors[PartOf[m]] :
        n = source[m] \/ n \in handled[m] \/ inFlight[m][n] > 0 \/ n \in failed[m]

\* A message that enough neighbours have is no longer a task, in whatever order
\* the sends are settled.
HandledAreDropped ==
  \A m \in Fed : Cardinality(handled[m]) >= MinTargets /\ handled[m] # {} => m \notin DOMAIN left

\* The task store under sends, joins and expiries in any order (Propagation.ts,
\* PropagationTaskStore.ts, FifoMapWithTtl.ts): its three parts agree, and what it
\* holds is what may still have to be passed on.
PropagationInv ==
  PropagationTypeOK /\ StoreAgrees /\ SoonestFirst /\ NoneForgotten /\ HandledAreDropped

\* A task ends only because enough neighbours have it, its time is over, or it
\* is the oldest of a full store in which another message is put.
EndedForAReason ==
  [][\A m \in DOMAIN left \ DOMAIN left' :
       \/ Cardinality(handled'[m]) >= MinTargets
       \/ left[m] = 0
       \/ Cardinality(DOMAIN left) = MaxTasks /\ dropQueue[m] = {} /\ Fed' # Fed]_propagationVars

\* A send starts only to a node that is not known to have the message, and, when
\* the message is not new, only while its task is active.
SentWhileActive ==
  [][\A m \in Message, n \in Node :
       inFlight'[m][n] > inFlight[m][n] =>
         /\ n # source'[m]
         /\ m \in Fed => m \in DOMAIN left /\ left[m] > 0 /\ n \notin handled[m]]_propagationVars

\* Propagation.ts: with minPropagationTargets = 0 "a message will then only be
\* propagated exactly once, to neighbors that are present at that moment".
OnlyPresentNeighbors ==
  [][\A m \in Fed, n \in Node : inFlight'[m][n] <= inFlight[m][n]]_propagationVars

=============================================================================
