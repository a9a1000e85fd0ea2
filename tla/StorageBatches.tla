---------------------------- MODULE StorageBatches ----------------------------
(***************************************************************************)
(* The batches of the broker's storage plugin                              *)
(* (broker/src/plugins/storage/Batch.ts, BatchManager.ts).                 *)
(*                                                                         *)
(* A bucket has at most one open batch.  A batch that is full or old is    *)
(* locked and inserted, with a timer before every attempt; its messages    *)
(* are acknowledged together, or dropped after the last attempt.  Batches  *)
(* have random ids; here the messages of a batch tell it from the others.  *)
(***************************************************************************)
EXTENDS Integers, FiniteSets

CONSTANTS
  Message,          \* the messages passed to store
  BatchMaxRecords,  \* opts.batchMaxRecords; opts.batchMaxSize has the same effect
  BatchMaxRetries   \* opts.batchMaxRetries

ASSUME BatchAssumption ==
  BatchMaxRecords \in Nat \ {0} /\ BatchMaxRetries \in Nat \ {0}

VARIABLES
  batches,         \* batches: the messages of the open batch of each bucket
  pendingBatches,  \* pendingBatches: [bucket, messages, retries, at]
  data,            \* the table stream_data: pairs of bucket and message
  acked,           \* history: messages whose doneCb was called
  dropped          \* history: messages of batches that reached the maximum

batchVars == <<batches, pendingBatches, data, acked, dropped>>

PendingBatch(Bucket) ==
  [bucket : Bucket, messages : SUBSET Message, retries : 0 .. BatchMaxRetries,
   at : {"timer", "insert"}]

-----------------------------------------------------------------------------
BatchInit ==
  /\ batches = [b \in {} |-> {}]
  /\ pendingBatches = {}
  /\ data = {}
  /\ acked = {}
  /\ dropped = {}

\* isFull
IsFull(b) == b \in DOMAIN batches /\ Cardinality(batches[b]) >= BatchMaxRecords

\* lock and moveFullBatch: the insert is scheduled.
Locked(b) == [bucket |-> b, messages |-> batches[b], retries |-> 0, at |-> "timer"]

\* The batches with m in the one of b, a new one if there is none or it is full.
WithMessage(b, m) ==
  [c \in DOMAIN batches \cup {b} |->
     IF c # b THEN batches[c]
     ELSE IF b \in DOMAIN batches /\ ~IsFull(b) THEN batches[b] \cup {m} ELSE {m}]

\* Mutant: the full batch is replaced without being locked.
BatchStore_NoLock(b, m) ==
  /\ batches' = WithMessage(b, m)
  /\ UNCHANGED <<pendingBatches, data, acked, dropped>>

\* BatchManager.store: a full batch is locked, a new one takes its place.
BatchStore(b, m) ==
  /\ batches' = WithMessage(b, m)
  /\ pendingBatches' = pendingBatches \cup {Locked(c) : c \in {d \in {b} : IsFull(d)}}
  /\ UNCHANGED <<data, acked, dropped>>

\* The close timeout of an open batch.
CloseTimeout(b) ==
  /\ b \in DOMAIN batches
  /\ pendingBatches' = pendingBatches \cup {Locked(b)}
  /\ batches' = [c \in DOMAIN batches \ {b} |-> batches[c]]
  /\ UNCHANGED <<data, acked, dropped>>

\* The timer of scheduleInsert: one more try, and the insert starts.
InsertTimer(p) ==
  /\ p.at = "timer"
  /\ pendingBatches' = (pendingBatches \ {p}) \cup
       {[p EXCEPT !.at = "insert",
                  !.retries = IF @ < BatchMaxRetries THEN @ + 1 ELSE @]}
  /\ UNCHANGED <<batches, data, acked, dropped>>

Rows(p) == {p.bucket} \X p.messages

\* The batch is in the database: done, clear, delete.
InsertSucceeds(p) ==
  /\ p.at = "insert"
  /\ data' = data \cup Rows(p)
  /\ acked' = acked \cup p.messages
  /\ pendingBatches' = pendingBatches \ {p}
  /\ UNCHANGED <<batches, dropped>>

\* The insert fails, perhaps after it was applied: it is tried again, or the
\* batch is dropped (reachedMaxRetries) and its callbacks are never called.
InsertFails(p, applied) ==
  /\ p.at = "insert"
  /\ data' = IF applied THEN data \cup Rows(p) ELSE data
  /\ IF p.retries = BatchMaxRetries
     THEN /\ dropped' = dropped \cup p.messages
          /\ pendingBatches' = pendingBatches \ {p}
     ELSE /\ pendingBatches' = (pendingBatches \ {p}) \cup {[p EXCEPT !.at = "timer"]}
          /\ UNCHANGED dropped
  /\ UNCHANGED <<batches, acked>>

BatchStep ==
  \/ \E b \in DOMAIN batches : CloseTimeout(b)
  \/ \E p \in pendingBatches :
       \/ InsertTimer(p)
       \/ InsertSucceeds(p)
       \/ \E applied \in BOOLEAN : InsertFails(p, applied)

\* The messages that wait in some batch.
Batched ==
  UNION ({batches[b] : b \in DOMAIN batches} \cup {p.messages : p \in pendingBatches})
=============================================================================
