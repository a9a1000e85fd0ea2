------------------------------ MODULE Storage ------------------------------
(***************************************************************************)
(* The storage of one stream part: Storage.ts with BucketManager.ts,       *)
(* Bucket.ts and the batches of StorageBatches, on top of the Cassandra    *)
(* tables bucket and stream_data, and the command that deletes expired     *)
(* data from them (DeleteExpiredCmd.ts).                                   *)
(*                                                                         *)
(* A message goes into the bucket in memory that covers its timestamp, or  *)
(* waits in pendingStores until checkFullBuckets has found or created one. *)
(* Buckets are written to the database later, by storeBuckets.             *)
(***************************************************************************)
EXTENDS StorageBatches, Sequences

CONSTANTS
  Timestamp,         \* the timestamp of each message, positive
  MaxBucketRecords,  \* opts.maxBucketRecords; opts.maxBucketSize has the same effect
  ExpiredBefore,     \* DeleteExpiredCmd: data before this timestamp is expired
  None,              \* undefined
  MaxBuckets,        \* bound: buckets ever created
  MaxCrashes         \* bound: crashes of the process

ASSUME StorageAssumption ==
  /\ Timestamp \in [Message -> Nat \ {0}]
  /\ MaxBucketRecords \in Nat \ {0} /\ ExpiredBefore \in Nat
  /\ MaxBuckets \in Nat /\ MaxCrashes \in Nat

VARIABLES
  dates,         \* dateCreate of the buckets ever created; their numbers are the ids
  heap,          \* streamParts[key].buckets: the array of the heap, ids
  buckets,       \* BucketManager.buckets: the ids in memory, [records, stored, untried];
                 \* untried stands for ttl: the messages that waited when it was set
                 \* and have not been retried since, and None if a round of checks
                 \* has loaded it and goes on
  minTimestamp,  \* streamParts[key].minTimestamp
  waiting,       \* pendingStores: messages with a retry timer
  immediate,     \* setImmediate: [bucket, message], first in, first out
  check,         \* checkFullBuckets: where it awaits, [at, min, insert]
  storing,       \* storeBuckets: the updates awaited, id -> [records, applied]
  storingOn,     \* storeBuckets is between its start and its end
  table,         \* the table bucket: date -> id, one row per date
  expiring,      \* DeleteExpiredCmd: the rows it has read, [date, id, at]
  accepted,      \* history: messages passed to store
  forgotten,     \* history: messages that were in memory when the process crashed
  deleted,       \* history: messages deleted as expired
  crashes

memoryVars == <<heap, buckets, minTimestamp, waiting, immediate, check, storing, storingOn>>
vars == <<batchVars, memoryVars, dates, table, expiring, accepted, forgotten, deleted, crashes>>

BucketId == DOMAIN dates
Idle == [at |-> "idle", min |-> 0, insert |-> FALSE]

-----------------------------------------------------------------------------
(* The heap of a stream part, newest bucket first (the heap library).      *)

\* The function f with the value v at x.
With(f, x, v) == [y \in DOMAIN f \cup {x} |-> IF y = x THEN v ELSE f[y]]

Least(ns) == CHOOSE n \in ns : \A k \in ns : n <= k
Greatest(ns) == CHOOSE n \in ns : \A k \in ns : n >= k

\* The places on the way from a leaf of the array up to its root.
WayUp(leaf) ==
  {i \in 1 .. leaf : \A S \in SUBSET (1 .. leaf) :
                       leaf \in S /\ (\A j \in S \ {1} : j \div 2 \in S) => i \in S}

\* heap.push: the new bucket climbs over the older ones above it.
Push(h, new, date) ==
  LET leaf    == Len(h) + 1
      climbed == {i \in WayUp(leaf) :
                    \A j \in WayUp(leaf) : j > i => date[new] > date[h[j \div 2]]}
      top     == Least(climbed)
  IN  [i \in 1 .. leaf |->
         IF i = top THEN new
         ELSE IF i > top /\ i \in WayUp(leaf) THEN h[i \div 2] ELSE h[i]]

\* A new heap with the buckets in kept, pushed in the order of the array.  The others
\* are removed one by one, each with a new heap; that leaves a heap of the same buckets.
Rebuilt(kept) ==
  LET built[i \in 0 .. Len(heap)] ==
        IF i = 0 THEN <<>>
        ELSE IF heap[i] \in kept THEN Push(built[i - 1], heap[i], dates) ELSE built[i - 1]
  IN  built[Len(heap)]

\* isAlmostFull, by 30 percent.
IsAlmostFull(bucket) == 10 * bucket.records >= 7 * MaxBucketRecords

\* Mutant: the latest bucket takes every message until it is full.
FindBucketId_Latest(h, bs, ts) ==
  IF h = <<>> \/ IsAlmostFull(bs[h[1]]) THEN None ELSE h[1]

\* findBucketId in the heap h of the buckets bs: the latest bucket, or the first
\* of the rest of the array that is not younger than the timestamp.
FindBucketId(h, bs, ts) ==
  LET older == {i \in 2 .. Len(h) : dates[h[i]] <= ts}
  IN  IF h = <<>> THEN None
      ELSE IF dates[h[1]] <= ts
      THEN IF IsAlmostFull(bs[h[1]]) THEN None ELSE h[1]
      ELSE IF older = {} THEN None
      ELSE h[Least(older)]

-----------------------------------------------------------------------------
(* Storing messages.                                                       *)

\* getBucketId and what store does with its answer.
Place(m) ==
  LET b    == FindBucketId(heap, buckets, Timestamp[m])
      rest == waiting \ {m}
      seen == [c \in DOMAIN buckets |-> [buckets[c] EXCEPT !.untried = @ \ {m}]]
  IN  IF b # None
      THEN /\ buckets' = [seen EXCEPT ![b] = [records |-> @.records + 1, stored |-> FALSE,
                                              untried |-> rest]]
           /\ immediate' = Append(immediate, [bucket |-> b, message |-> m])
           /\ waiting' = rest
           /\ UNCHANGED minTimestamp
      ELSE /\ minTimestamp' = IF minTimestamp # None /\ minTimestamp < Timestamp[m]
                              THEN minTimestamp ELSE Timestamp[m]
           /\ waiting' = waiting \cup {m}
           /\ buckets' = seen
           /\ UNCHANGED immediate

\* store(m)
Store(m) ==
  /\ m \notin accepted
  /\ accepted' = accepted \cup {m}
  /\ Place(m)
  /\ UNCHANGED <<batchVars, heap, check, storing, storingOn, dates, table, expiring,
                 forgotten, deleted, crashes>>

\* The retry timer of a message in pendingStores.
RetryStore(m) ==
  /\ m \in waiting
  /\ Place(m)
  /\ UNCHANGED <<batchVars, heap, check, storing, storingOn, dates, table, expiring,
                 accepted, forgotten, deleted, crashes>>

\* The setImmediate callback: the message goes into a batch.
Immediate ==
  /\ immediate # <<>>
  /\ BatchStore(Head(immediate).bucket, Head(immediate).message)
  /\ immediate' = Tail(immediate)
  /\ UNCHANGED <<heap, buckets, minTimestamp, waiting, check, storing, storingOn, dates,
                 table, expiring, accepted, forgotten, deleted, crashes>>

Batching ==
  /\ BatchStep
  /\ UNCHANGED <<memoryVars, dates, table, expiring, accepted, forgotten, deleted, crashes>>

-----------------------------------------------------------------------------
(* checkFullBuckets.                                                       *)

\* The row with the greatest of the dates in ds: [id, records], or None.
LastRow(ds) == IF ds = {} THEN None ELSE table[Greatest(ds)]

\* The round of checks is over for the buckets bs.
Checked(bs) == [b \in DOMAIN bs |-> [bs[b] EXCEPT !.untried = @ \ {None}]]

\* A new bucket for the timestamp min, beside bs in the heap h; it is written
\* to the database later.
CreateBucket(h, bs, min) ==
  LET new == Len(dates) + 1
  IN  /\ new <= MaxBuckets
      /\ dates' = Append(dates, min)
      /\ heap' = Push(h, new, dates')
      /\ buckets' = With(Checked(bs), new, [records |-> 0, stored |-> FALSE, untried |-> waiting])
      /\ minTimestamp' = None
      /\ check' = Idle

\* Mutant: the database is not asked for a bucket of the timestamp.
CheckMin_LatestOnly(h, bs, minThen, min, insert) ==
  IF insert THEN CreateBucket(h, bs, min)
  ELSE /\ check' = Idle
       /\ buckets' = Checked(bs)
       /\ heap' = h
       /\ minTimestamp' = minThen
       /\ UNCHANGED dates

\* The checks after the one of the latest bucket, with the heap and buckets it
\* left: is a new bucket needed, or one in the database?
CheckMin(h, bs, minThen, min, insert) ==
  IF insert THEN CreateBucket(h, bs, min)
  ELSE /\ IF FindBucketId(h, bs, min) = None
          THEN check' = [at |-> "range", min |-> min, insert |-> FALSE] /\ buckets' = bs
          ELSE check' = Idle /\ buckets' = Checked(bs)
       /\ heap' = h
       /\ minTimestamp' = minThen
       /\ UNCHANGED dates

checkUnchanged ==
  <<batchVars, waiting, immediate, storing, storingOn, table, expiring, accepted, forgotten,
    deleted, crashes>>

\* The timer: without a bucket in memory, or with a latest one that is almost
\* full, the database is asked for its latest first.
CheckStart ==
  /\ check = Idle
  /\ minTimestamp # None
  /\ LET almostFull == heap # <<>> /\ IsAlmostFull(buckets[heap[1]])
     IN  IF heap = <<>> \/ almostFull
         THEN /\ check' = [at |-> "latest", min |-> minTimestamp, insert |-> almostFull]
              /\ UNCHANGED <<heap, buckets, minTimestamp, dates>>
         ELSE CheckMin(heap, buckets, minTimestamp, minTimestamp, FALSE)
  /\ UNCHANGED checkUnchanged

\* checkFoundBuckets loads a bucket that is not in memory.
IsNew(row) == row # None /\ row.id \notin DOMAIN buckets
WithLoaded(row) == With(buckets, row.id, [records |-> row.records, stored |-> FALSE,
                                        untried |-> waiting \cup {None}])

\* The database answers with its latest bucket.
CheckLatest ==
  LET row == LastRow(DOMAIN table)
  IN  /\ check.at = "latest"
      /\ IF IsNew(row)
         THEN CheckMin(Push(heap, row.id, dates), WithLoaded(row), None, check.min, check.insert)
         ELSE CheckMin(heap, buckets, minTimestamp, check.min, TRUE)
      /\ UNCHANGED checkUnchanged

\* The database answers with its latest bucket up to the timestamp.
CheckRange ==
  LET row == LastRow({d \in DOMAIN table : d <= check.min})
  IN  /\ check.at = "range"
      /\ IF IsNew(row)
         THEN /\ heap' = Push(heap, row.id, dates)
              /\ buckets' = Checked(WithLoaded(row))
              /\ minTimestamp' = None
              /\ check' = Idle
              /\ UNCHANGED dates
         ELSE CreateBucket(heap, buckets, check.min)
      /\ UNCHANGED checkUnchanged

-----------------------------------------------------------------------------
(* storeBuckets.                                                           *)

storeUnchanged ==
  <<batchVars, minTimestamp, waiting, immediate, check, dates, expiring, accepted, forgotten,
    deleted, crashes>>

\* The timer: an update for every bucket that changed since it was stored.
StoreBuckets ==
  /\ ~storingOn
  /\ storingOn' = TRUE
  /\ storing' = [b \in {c \in DOMAIN buckets : ~buckets[c].stored} |->
                   [records |-> buckets[b].records, applied |-> FALSE]]
  /\ UNCHANGED <<storeUnchanged, heap, buckets, table>>

\* UPDATE_BUCKET reaches the row of the bucket's date.
UpdateBucket(b) ==
  /\ b \in DOMAIN storing
  /\ ~storing[b].applied
  /\ storing' = [storing EXCEPT ![b].applied = TRUE]
  /\ table' = With(table, dates[b], [id |-> b, records |-> storing[b].records])
  /\ UNCHANGED <<storeUnchanged, storingOn, heap, buckets>>

\* All updates have settled, those in ok with success; the buckets in dead have
\* outlived their ttl and are removed from memory, unless they changed again.  The
\* ttl (bucketKeepAliveSeconds, a minute) is longer than the time between retries
\* (half a second) and than a query may take.
BucketsStored(ok, dead) ==
  LET marked == [b \in DOMAIN buckets |->
                   IF b \in ok /\ buckets[b].records = storing[b].records
                   THEN [buckets[b] EXCEPT !.stored = TRUE] ELSE buckets[b]]
      kept   == {b \in DOMAIN buckets : ~(marked[b].stored /\ b \in dead)}
  IN  /\ storingOn' = FALSE
      /\ storing' = [b \in {} |-> {}]
      /\ buckets' = [b \in kept |-> marked[b]]
      /\ heap' = IF kept = DOMAIN buckets THEN heap
                 ELSE Rebuilt(kept)
      /\ UNCHANGED <<storeUnchanged, table>>

-----------------------------------------------------------------------------
(* DeleteExpiredCmd, a process of its own.                                 *)

expireUnchanged ==
  <<memoryVars, batches, pendingBatches, acked, dropped, dates, accepted, forgotten, crashes>>

\* getPotentiallyExpiredBuckets: rows with an expired date.
FindExpired ==
  /\ expiring = {}
  /\ expiring' = {[date |-> d, id |-> table[d].id, at |-> "filter"] :
                    d \in {e \in DOMAIN table : e < ExpiredBefore}}
  /\ UNCHANGED <<expireUnchanged, table, data, deleted>>

\* filterExpiredBuckets: those without a message that is not expired.
FilterExpired(r) ==
  /\ r.at = "filter"
  /\ expiring' = (expiring \ {r}) \cup
       (IF \A row \in data : row[1] = r.id => Timestamp[row[2]] < ExpiredBefore
        THEN {[r EXCEPT !.at = "delete"]} ELSE {})
  /\ UNCHANGED <<expireUnchanged, table, data, deleted>>

\* deleteExpired: the row of the date and the messages of the bucket.
DeleteExpired(r) ==
  /\ \A q \in expiring : q.at = "delete"
  /\ expiring' = expiring \ {r}
  /\ table' = [d \in DOMAIN table \ {r.date} |-> table[d]]
  /\ data' = {row \in data : row[1] # r.id}
  /\ deleted' = deleted \cup {row[2] : row \in data \ data'}
  /\ UNCHANGED expireUnchanged

-----------------------------------------------------------------------------
\* The messages on their way to a batch.
InImmediate == {immediate[i].message : i \in 1 .. Len(immediate)}

\* The process ends: close, or a rejected query of checkFullBuckets, which
\* nobody catches (broker.ts exits).  Inserts under way may still be applied.
Crash ==
  /\ crashes < MaxCrashes
  /\ crashes' = crashes + 1
  /\ \E inserts \in SUBSET {p \in pendingBatches : p.at = "insert"} :
       data' = data \cup UNION {Rows(p) : p \in inserts}
  /\ forgotten' = forgotten \cup waiting \cup InImmediate \cup Batched
  /\ heap' = <<>> /\ buckets' = [b \in {} |-> {}] /\ minTimestamp' = None
  /\ waiting' = {} /\ immediate' = <<>> /\ check' = Idle
  /\ storing' = [b \in {} |-> {}] /\ storingOn' = FALSE
  /\ batches' = [b \in {} |-> {}] /\ pendingBatches' = {}
  /\ UNCHANGED <<acked, dropped, dates, table, expiring, accepted, deleted>>

Init ==
  /\ BatchInit
  /\ heap = <<>> /\ buckets = [b \in {} |-> {}] /\ minTimestamp = None
  /\ waiting = {} /\ immediate = <<>> /\ check = Idle
  /\ storing = [b \in {} |-> {}] /\ storingOn = FALSE
  /\ dates = <<>> /\ table = [d \in {} |-> {}] /\ expiring = {}
  /\ accepted = {} /\ forgotten = {} /\ deleted = {} /\ crashes = 0

Next ==
  \/ \E m \in Message : Store(m) \/ RetryStore(m)
  \/ Immediate
  \/ Batching
  \/ CheckStart \/ CheckLatest \/ CheckRange
  \/ StoreBuckets
  \/ \E b \in DOMAIN storing : UpdateBucket(b)
  \/ /\ storingOn
     /\ \E ok \in SUBSET {b \in DOMAIN storing : storing[b].applied} :
          \E dead \in SUBSET {b \in DOMAIN buckets :
                              buckets[b].untried = {} /\ (buckets[b].stored \/ b \in ok)} :
            BucketsStored(ok, dead)
  \/ FindExpired
  \/ \E r \in expiring : FilterExpired(r) \/ DeleteExpired(r)
  \/ Crash

\* Timers expire and the database answers, with an error at times.
Fairness ==
  /\ \A m \in Message : WF_vars(RetryStore(m))
  /\ WF_vars(Immediate)
  /\ WF_vars(Batching)
  /\ WF_vars(CheckStart \/ CheckLatest \/ CheckRange)

Spec == Init /\ [][Next]_vars /\ Fairness

-----------------------------------------------------------------------------
(* Properties.                                                             *)

StorageTypeOK ==
  /\ dates \in Seq(Nat \ {0}) /\ heap \in Seq(BucketId)
  /\ DOMAIN buckets \subseteq BucketId
  /\ minTimestamp \in Nat \cup {None}
  /\ check.at \in {"idle", "latest", "range"}
  /\ DOMAIN storing \subseteq DOMAIN buckets
  /\ \A d \in DOMAIN table : dates[table[d].id] = d
  /\ pendingBatches \subseteq PendingBatch(BucketId)

\* The two records of the buckets in memory agree, whatever is loaded, created
\* and removed around the awaits of the two timers: the heap of the stream part
\* holds each bucket of this.buckets once, none of them newer than the first.
MemoryAgrees ==
  /\ Len(heap) = Cardinality(DOMAIN buckets)
  /\ {heap[i] : i \in 1 .. Len(heap)} = DOMAIN buckets
  /\ \A i \in 1 .. Len(heap) : dates[heap[i]] <= dates[heap[1]]

\* A message is at one place between store and its end, and what store has
\* promised to have written is in the database until it is deleted.
NothingLost ==
  /\ accepted = waiting \cup InImmediate \cup Batched \cup acked \cup dropped \cup forgotten
  /\ waiting \cap (InImmediate \cup Batched) = {} /\ InImmediate \cap Batched = {}
  /\ (waiting \cup InImmediate \cup Batched) \cap (acked \cup dropped \cup forgotten) = {}
  /\ acked \subseteq {row[2] : row \in data} \cup deleted

\* No message is in a bucket that is younger than the message, where a query
\* by its timestamp would never look.
BucketsAreOlder ==
  \A row \in data \cup UNION {{b} \X batches[b] : b \in DOMAIN batches} :
    dates[row[1]] <= Timestamp[row[2]]

\* The latest bucket is almost full and of the very timestamp of m: every bucket
\* created for m is put below it in the heap, and m goes on waiting.
Shadowed(m) ==
  heap # <<>> /\ dates[heap[1]] = Timestamp[m] /\ IsAlmostFull(buckets[heap[1]])

\* Every message is written, dropped after its last attempt or lost in a crash;
\* none waits for a bucket forever, unless it is shadowed (or the bound on the
\* number of buckets is reached).
EventuallySettled ==
  []<>(\A m \in accepted \ (acked \cup dropped \cup forgotten) :
         Shadowed(m) \/ Len(dates) = MaxBuckets)
\* What is in memory agrees, and a message is where a query looks for it.
BucketsInv == MemoryAgrees /\ BucketsAreOlder

-----------------------------------------------------------------------------
(***************************************************************************)
(* The queries of the storage plugin: dataQueryEndpoint.ts,                *)
(* dataMetadataEndpoint.ts, and what Storage.ts and BucketManager.ts ask   *)
(* of the tables of Storage.  A query reads and changes nothing; it is an  *)
(* operator on the state in which its statements are executed.             *)
(***************************************************************************)
CONSTANTS
  SequenceNumber,  \* the sequence number of each message
  MaxResendLast    \* MAX_RESEND_LAST

ASSUME QueryAssumption ==
  SequenceNumber \in [Message -> Nat] /\ MaxResendLast \in Nat \ {0}

Ref(m) == <<Timestamp[m], SequenceNumber[m]>>
Before(p, q) == p[1] < q[1] \/ (p[1] = q[1] /\ p[2] < q[2])

\* The messages in the bucket with the given id.
MessagesIn(id) == {row[2] : row \in {r \in data : r[1] = id}}

\* Mutant: the newest bucket is taken to be enough.
LastDates_One(limit) == {d \in DOMAIN table : d = Greatest(DOMAIN table)}

\* requestLast pages through the rows of bucket, the newest first, until the
\* buckets hold enough messages: the dates of these rows.
LastDates(limit) ==
  LET newer(d) == {e \in DOMAIN table : e >= d}
      total(ds) == Cardinality({row \in data : \E e \in ds : table[e].id = row[1]})
  IN  {d \in DOMAIN table : total(newer(d) \ {d}) < limit \/ d = Greatest(DOMAIN table)}

\* The n newest of the messages in ms, or all if there are fewer; some of those of one
\* reference, which are of different publishers or chains.
NewestOf(ms, n) ==
  CHOOSE newest \in SUBSET ms :
    /\ Cardinality(newest) = IF n < Cardinality(ms) THEN n ELSE Cardinality(ms)
    /\ \A m \in newest, k \in ms \ newest : ~Before(Ref(m), Ref(k))

\* requestLast: the newest messages of these buckets.
RequestLast(count) ==
  LET limit == IF count > MaxResendLast THEN MaxResendLast ELSE count
  IN  NewestOf(UNION {MessagesIn(table[d].id) : d \in LastDates(limit)}, limit)

\* getBucketsByTimestamp: the latest bucket up to from, and those up to to.
BucketsByTimestamp(from, to) ==
  {LastRow(ds).id : ds \in {{d \in DOMAIN table : d <= from}} \ {{}}} \cup
  {table[d].id : d \in {e \in DOMAIN table : e > from /\ e <= to}}

\* fetchRange: three queries, or one if the sequence numbers do not matter.
FetchRange(from, to) ==
  {m \in UNION {MessagesIn(id) : id \in BucketsByTimestamp(from[1], to[1])} :
     \/ Timestamp[m] = from[1] /\ SequenceNumber[m] >= from[2]
     \/ Timestamp[m] > from[1] /\ Timestamp[m] < to[1]
     \/ Timestamp[m] = to[1] /\ SequenceNumber[m] <= to[2]}

\* requestFrom, up to MAX_TIMESTAMP_VALUE, which is after all messages.
RequestFrom(from) == FetchRange(from, <<1 + Greatest({Timestamp[m] : m \in accepted}), 0>>)

\* getFirstMessageTimestampInStream and getLastMessageTimestampInStream look in
\* one bucket each.
TimestampsIn(id) == {Timestamp[m] : m \in MessagesIn(id)}
FirstTimestamp ==
  IF DOMAIN table = {} \/ TimestampsIn(table[Least(DOMAIN table)].id) = {} THEN 0
  ELSE Least(TimestampsIn(table[Least(DOMAIN table)].id))
LastTimestamp ==
  IF DOMAIN table = {} \/ TimestampsIn(table[Greatest(DOMAIN table)].id) = {} THEN 0
  ELSE Greatest(TimestampsIn(table[Greatest(DOMAIN table)].id))

\* getNumberOfMessagesInStream sums up what the rows of bucket say.
NumberOfMessages ==
  LET sum[ds \in SUBSET DOMAIN table] ==
        IF ds = {} THEN 0 ELSE table[Least(ds)].records + sum[ds \ {Least(ds)}]
  IN  sum[DOMAIN table]

-----------------------------------------------------------------------------
(* Properties.                                                             *)

\* Everything that was accepted has been written, and nothing was lost or deleted.
Written ==
  /\ waiting = {} /\ InImmediate = {} /\ Batched = {} /\ storing = [b \in {} |-> {}]
  /\ \A b \in DOMAIN buckets : buckets[b].stored
  /\ \A b \in BucketId : dates[b] \in DOMAIN table
  /\ dropped = {} /\ deleted = {} /\ crashes = 0

DistinctDates == \A b, c \in BucketId : b # c => dates[b] # dates[c]

\* No message has gone into a bucket when a newer one covers its timestamp too.
InOrder ==
  \A row \in data : \A b \in BucketId :
    dates[b] > dates[row[1]] => Timestamp[row[2]] < dates[b]

InRange(m, n) == {k \in accepted : ~Before(Ref(k), Ref(m)) /\ ~Before(Ref(n), Ref(k))}
RangesAreFound ==
  \A m, n \in accepted : Timestamp[m] < Timestamp[n] => FetchRange(Ref(m), Ref(n)) = InRange(m, n)

FromsAreFound ==
  \A m \in accepted : RequestFrom(Ref(m)) = {k \in accepted : ~Before(Ref(k), Ref(m))}

\* "if fromTimestamp is defined, the first data point are in a some earlier bucket
\* (bucket.dateCreated<=fromTimestamp as data within one millisecond won't be divided to
\* multiple buckets)" (the comment in getBucketsByTimestamp, which therefore asks for one
\* such bucket): once everything is written, a resend from the time of a message finds
\* it.  No two buckets have one date, so that every bucket has its row.
FromFindsFirst ==
  DistinctDates /\ Written => \A m \in accepted : m \in RequestFrom(<<Timestamp[m], 0>>)

\* Once everything is written, whatever the order in which messages came and
\* buckets were created, loaded and written, the first timestamp and the number
\* of messages are right, the last messages are as many as there are, and as long
\* as messages came in order, they, the ranges and what a resend from a message on
\* finds are right too.  Buckets of one date are left out: the row of bucket has the
\* date as its key, so that one of them overwrites the row of the other.
QueriesFind ==
  DistinctDates /\ Written /\ accepted # {} =>
    /\ FirstTimestamp = Least({Timestamp[m] : m \in accepted})
    /\ NumberOfMessages = Cardinality(accepted)
    /\ \A n \in 1 .. Cardinality(accepted) + 1 :
         LET limit == Least({n, MaxResendLast, Cardinality(accepted)})
         IN  /\ Cardinality(RequestLast(n)) = limit
             /\ InOrder => \A m \in RequestLast(n), k \in accepted :
                             k \in RequestLast(n) \/ ~Before(Ref(m), Ref(k))
    /\ InOrder => /\ RangesAreFound /\ FromsAreFound
                  /\ LastTimestamp = Greatest({Timestamp[m] : m \in accepted})
=============================================================================
