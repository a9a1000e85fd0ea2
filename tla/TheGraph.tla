------------------------------- MODULE TheGraph -------------------------------
(***************************************************************************)
(* Queries of the index of the chain: TheGraphClient.ts with its           *)
(* IndexingState and Gate.ts, and the lists of StreamRegistry.ts and       *)
(* searchStreams.ts that page through it.                                  *)
(*                                                                         *)
(* The index is behind the chain.  A query waits until it has reached the  *)
(* block of the client's own last change, then reads page by page while the*)
(* index goes on.  Entities are the permission assignments, numbered in the*)
(* order of their ids: an assignment is empty when everything was revoked, *)
(* and an orphan when its stream was deleted.                              *)
(***************************************************************************)
EXTENDS Integers, Sequences, FiniteSets, SequencesExt

CONSTANTS
  Entity,       \* ids of the assignments, positive numbers
  StreamOf,     \* the stream of each, numbered in the order of their ids
  Query,        \* the queries of a run: "list", "search" and "assignments"
  PageSize,     \* pageSize
  MaxChain      \* bound: the blocks of the chain

ASSUME GraphAssumption ==
  /\ PageSize \in Nat \ {0} /\ MaxChain \in Nat \ {0}
  /\ Entity \subseteq Nat \ {0} /\ StreamOf \in [Entity -> Nat]
  /\ Query \subseteq {"list", "search", "assignments"}

VARIABLES
  ledger,    \* the assignments after each block: "absent", "empty", "granted", "orphan"
  indexed,   \* the block the index has reached
  required,  \* requiredBlockNumber
  known,     \* IndexingState.blockNumber
  gates,     \* queries whose gates are closed
  polls,     \* startPolling: loops that ask for the block, and that sleep
  query      \* the queries: how far, the gate's block, the pages read

graphVars == <<ledger, indexed, required, known, gates, polls, query>>

GraphInit ==
  /\ ledger = <<[e \in Entity |-> "absent"]>>
  /\ indexed = 1 /\ required = 0 /\ known = 0
  /\ gates = {}
  /\ polls = [asking |-> 0, sleeping |-> 0]
  /\ query = [q \in Query |-> [step |-> "none", since |-> 0, items |-> <<>>]]

-----------------------------------------------------------------------------
(* The chain and the index.                                                *)

\* One assignment is made or emptied, or a stream is deleted.
GraphMine ==
  /\ Len(ledger) < MaxChain
  /\ LET now == ledger[Len(ledger)]
     IN  \/ \E e \in Entity :
              /\ now[e] # "orphan"
              /\ ledger' = Append(ledger, [now EXCEPT ![e] = IF @ = "granted" THEN "empty"
                                                            ELSE "granted"])
         \/ \E s \in {StreamOf[e] : e \in {x \in Entity : now[x] \in {"empty", "granted"}}} :
              ledger' = Append(ledger, [e \in Entity |->
                IF StreamOf[e] = s /\ now[e] # "absent" THEN "orphan" ELSE now[e]])
  /\ UNCHANGED <<indexed, required, known, gates, polls, query>>

GraphIndex ==
  /\ indexed < Len(ledger)
  /\ indexed' = indexed + 1
  /\ UNCHANGED <<ledger, required, known, gates, polls, query>>

\* updateRequiredBlockNumber, when a contract call of the client was confirmed.
UpdateRequiredBlockNumber ==
  /\ required < Len(ledger)
  /\ required' \in required + 1 .. Len(ledger)
  /\ UNCHANGED <<ledger, indexed, known, gates, polls, query>>

-----------------------------------------------------------------------------
(* Waiting for the index.                                                  *)

\* waitUntilIndexed and getOrCreateGate: the first closed gate starts the polling.
WaitUntilIndexed(q) ==
  /\ query[q].step = "none"
  /\ query' = [query EXCEPT ![q].step = "waiting", ![q].since = required]
  /\ IF required > known
     THEN /\ gates' = gates \cup {q}
          /\ polls' = IF gates = {} THEN [polls EXCEPT !.asking = @ + 1] ELSE polls
     ELSE UNCHANGED <<gates, polls>>
  /\ UNCHANGED <<ledger, indexed, required, known>>

\* The gates that a new block number leaves closed.
StillClosed == {q \in gates : query[q].since > indexed}

\* The block number arrives: gates it has reached open; the loop sleeps or ends.
Polled ==
  /\ polls.asking > 0
  /\ known' = indexed
  /\ gates' = IF indexed = known THEN gates ELSE StillClosed
  /\ polls' = [asking |-> polls.asking - 1,
               sleeping |-> polls.sleeping + IF gates' = {} THEN 0 ELSE 1]
  /\ UNCHANGED <<ledger, indexed, required, query>>

\* The query of the block number fails: the loop ends, and nobody starts another one
\* as long as there are closed gates.
PollFailed ==
  /\ polls.asking > 0
  /\ polls' = [polls EXCEPT !.asking = @ - 1]
  /\ UNCHANGED <<ledger, indexed, required, known, gates, query>>

PollAgain ==
  /\ polls.sleeping > 0
  /\ polls' = [asking |-> polls.asking + IF gates = {} THEN 0 ELSE 1,
               sleeping |-> polls.sleeping - 1]
  /\ UNCHANGED <<ledger, indexed, required, known, gates, query>>

\* withTimeout: the wait rejects, and the gate is deleted.
IndexTimeout(q) ==
  /\ q \in gates
  /\ gates' = gates \ {q}
  /\ query' = [query EXCEPT ![q].step = "failed"]
  /\ UNCHANGED <<ledger, indexed, required, known, polls>>

-----------------------------------------------------------------------------
(* Reading.                                                                *)

\* The orders: x[1] comes before x[2].
ById == {x \in Entity \X Entity : x[1] < x[2]}
ByStream == {x \in Entity \X Entity :
               \/ StreamOf[x[1]] < StreamOf[x[2]]
               \/ StreamOf[x[1]] = StreamOf[x[2]] /\ x[1] < x[2]}

\* buildStreamPublishersOrSubscribersQuery: assignments in force in the order of their
\* ids; those of deleted streams are answered too.
ListQuery(lastId) ==
  [found |-> {e \in Entity : e > lastId /\ ledger[indexed][e] \in {"granted", "orphan"}},
   before |-> ById]

\* buildQuery of searchStreams: in the order of the streams.
SearchQuery(lastId) ==
  [found |-> {e \in Entity : e > lastId /\ ledger[indexed][e] # "absent"},
   before |-> ByStream]

\* The query of getPermissions, for the first stream, whose orphans are not found.
AssignmentsQuery(lastId) ==
  [found |-> {e \in Entity : /\ e > lastId /\ StreamOf[e] = 1
                             /\ ledger[indexed][e] \in {"empty", "granted"}},
   before |-> ById]

Asked(q, lastId) ==
  CASE q = "list" -> ListQuery(lastId)
    [] q = "search" -> SearchQuery(lastId)
    [] q = "assignments" -> AssignmentsQuery(lastId)

\* What the index answers to the query of a page: the first PageSize of those found.
Pages(asked) ==
  {page \in UNION {[1 .. n -> asked.found] : n \in 0 .. PageSize} :
     /\ \A i, j \in DOMAIN page : i < j => <<page[i], page[j]>> \in asked.before
     /\ \A e \in asked.found \ ToSet(page) :
          Len(page) = PageSize /\ \A i \in DOMAIN page : <<page[i], e>> \in asked.before}

LastId(items) == IF items = <<>> THEN 0 ELSE items[Len(items)].entity

Items(page) == [i \in DOMAIN page |-> [entity |-> page[i], was |-> ledger[indexed][page[i]]]]

\* Mutant: the next page starts after the first item of the last one.
NextPage_FromFirst(q) ==
  /\ query[q].step \in {"waiting", "paging"} /\ q \notin gates
  /\ LET items == query[q].items
         lastId == IF items = <<>> THEN 0 ELSE items[Len(items) - PageSize + 1].entity
     IN  \E page \in Pages(Asked(q, lastId)) :
           query' = [query EXCEPT ![q].items = @ \o Items(page),
                       ![q].step = IF Len(page) = PageSize /\ Len(items) < 4 THEN "paging" ELSE "done"]
  /\ UNCHANGED <<ledger, indexed, required, known, gates, polls>>

\* queryEntities: pages follow the id of the last item until one is not full.
NextPage(q) ==
  /\ query[q].step \in {"waiting", "paging"} /\ q \notin gates
  /\ \E page \in Pages(Asked(q, LastId(query[q].items))) :
       query' = [query EXCEPT ![q].items = @ \o Items(page),
                   ![q].step = IF Len(page) = PageSize THEN "paging" ELSE "done"]
  /\ UNCHANGED <<ledger, indexed, required, known, gates, polls>>

\* sendQuery rejects.
QueryFailed(q) ==
  /\ query[q].step \in {"waiting", "paging"} /\ q \notin gates
  /\ query' = [query EXCEPT ![q].step = "failed"]
  /\ UNCHANGED <<ledger, indexed, required, known, gates, polls>>

\* getStreamPublishersOrSubscribersList drops the orphans.
Listed(items) == {items[i].entity : i \in {j \in DOMAIN items : items[j].was # "orphan"}}

\* convertChainPermissionsToStreamPermissions: no permission is left of an empty one.
InForce(item) == item.was = "granted"

\* getPermissions drops the empty ones.
Assignments(items) == {items[i].entity : i \in {j \in DOMAIN items : InForce(items[j])}}

\* searchStreams: orphans dropped, then only the first item of each stream, and of those
\* the ones that are not empty (anyOf).
Searched(items) ==
  LET valid == {i \in DOMAIN items : items[i].was # "orphan"}
      first == {i \in valid : \A j \in valid :
                  StreamOf[items[j].entity] = StreamOf[items[i].entity] => i <= j}
  IN  {StreamOf[items[i].entity] : i \in {j \in first : InForce(items[j])}}

-----------------------------------------------------------------------------
GraphNext ==
  \/ GraphMine
  \/ GraphIndex
  \/ UpdateRequiredBlockNumber
  \/ Polled \/ PollFailed \/ PollAgain
  \/ \E q \in Query : WaitUntilIndexed(q) \/ IndexTimeout(q) \/ NextPage(q) \/ QueryFailed(q)

GraphSpec == GraphInit /\ [][GraphNext]_graphVars

\* Answers come, timers fire; the index may stop.
GraphFairness ==
  /\ WF_graphVars(Polled)
  /\ WF_graphVars(PollAgain)
  /\ \A q \in Query : WF_graphVars(IndexTimeout(q)) /\ WF_graphVars(NextPage(q))

-----------------------------------------------------------------------------
(* Properties.                                                             *)

\* The blocks the answer to a query may be from.
Window(q) == {b \in 1 .. indexed : b >= query[q].since}
Throughout(q, e) == \A b \in Window(q) : ledger[b][e] = "granted"
Sometime(q, e) == \E b \in Window(q) : ledger[b][e] = "granted"

\* The assignments that the caller of a list gets.
Result(q) == IF q = "list" THEN Listed(query[q].items) ELSE Assignments(query[q].items)

\* A list that ends has every assignment that was in force all the time since the
\* client's last change, and no other than of that time, once each, whatever changes
\* while it pages.
ListIsComplete ==
  \A q \in Query \cap {"list", "assignments"} : query[q].step = "done" =>
    /\ \A e \in Entity :
         Throughout(q, e) /\ (q = "list" \/ StreamOf[e] = 1)
           => e \in Result(q)
    /\ \A e \in Result(q) : Sometime(q, e)
    /\ \A i, j \in DOMAIN query[q].items :
         query[q].items[i].entity = query[q].items[j].entity => i = j

\* A search finds only streams of assignments in force since the client's last change;
\* it finds all of them if it has one page and no stream has an empty assignment besides.
SearchIsSound ==
  \A q \in Query \cap {"search"} : query[q].step = "done" =>
    /\ \A s \in Searched(query[q].items) :
         \E e \in Entity : StreamOf[e] = s /\ Sometime(q, e)
    /\ Len(query[q].items) < PageSize
       /\ (\A i \in DOMAIN query[q].items : query[q].items[i].was # "empty")
         => \A e \in Entity : Throughout(q, e)
                                => StreamOf[e] \in Searched(query[q].items)

GraphInv == ListIsComplete /\ SearchIsSound

\* Queries end, and when none waits any more the polling stops, although the index may
\* never reach the block and a poll may fail.
QueriesEnd ==
  []<>(/\ \A q \in Query : query[q].step \notin {"waiting", "paging"}
       /\ polls = [asking |-> 0, sleeping |-> 0])
=============================================================================
