--------------------------- MODULE StreamRegistry ---------------------------
(***************************************************************************)
(* The client's view of one stream in the registry contract:               *)
(* StreamRegistry.ts with its caches, the Stream object that updates it,   *)
(* and StreamrClient.getOrCreateStream.                                    *)
(*                                                                         *)
(* The client writes through one chain and reads through several providers,*)
(* each of which may be behind it and may fail.  What it reads it keeps for*)
(* half an hour; its own changes clear what it kept, some before and some  *)
(* after the transactions, and one cache is never cleared.                 *)
(***************************************************************************)
EXTENDS Integers, Sequences, FiniteSets

CONSTANTS
  Provider,   \* the read providers
  Field,      \* fields of the metadata that updates set
  MaxBlocks   \* bound: the blocks of the chain

ASSUME RegistryAssumption == MaxBlocks \in Nat \ {0}

VARIABLES
  blocks,     \* the stream after each block: exists, its fields, who may publish
  height,     \* the block each provider has reached
  cache,      \* getStream_cached, isStreamPublisher_cached, hasPublicSubscribe...
  metadata,   \* the metadata of the client's Stream object
  changing,   \* the call that changes the stream and how far it is, per kind
  creating,   \* getOrCreateStream
  confirmed,  \* history: per cache, the block of the last change that resolved
  kept        \* history: the fields of resolved updates that no other call overlapped, of
              \* the stream that exists

registryVars ==
  <<blocks, height, cache, metadata, changing, creating, confirmed, kept>>

Cache == {"stream", "publisher", "publicSubscribe"}
UpdateCall == {"update", "again"}  \* two calls of Stream.update may overlap
Call == UpdateCall \cup {"delete", "grant", "set"}
Top == Len(blocks)
Stream == blocks[Top]
NoEntry == [at |-> 0, since |-> 0, behind |-> FALSE, raced |-> FALSE]
Idle == [step |-> "idle", block |-> 0, field |-> {}, alone |-> TRUE]

RegistryInit ==
  /\ \E e \in BOOLEAN : blocks = <<[exists |-> e, fields |-> {}, granted |-> {}]>>
  /\ height = [p \in Provider |-> 1]
  /\ cache = [c \in Cache |-> NoEntry]
  /\ metadata = {}
  /\ changing = [k \in Call |-> Idle]
  /\ creating = "idle"
  /\ confirmed = [c \in Cache |-> 0]
  /\ kept = {}

-----------------------------------------------------------------------------
(* The chain and what is read from it.                                     *)

\* The permissions are of the stream's id: they outlive the stream.
Put(s) == blocks' = Append(blocks, s)

\* Providers catch up in any order.
CatchUp(p) ==
  /\ height[p] < Top
  /\ height' = [height EXCEPT ![p] = @ + 1]
  /\ UNCHANGED <<blocks, cache, metadata, changing, creating, confirmed, kept>>

\* queryAllReadonlyContracts, tryInSequence: providers in any order until one answers
\* without an error; the call fails if none does.
QueryAllReadonlyContracts(answers) == {p \in Provider : answers[p]}

\* A reverted call is an error too: a provider behind the creation is passed over.
Answering == QueryAllReadonlyContracts([p \in Provider |-> blocks[height[p]].exists])

\* isStreamPublisher_nonCached, isStreamSubscriber_nonCached: the user's own permission
\* or the public one.
IsPermitted(s) == s.granted # {}

\* hasPermission, asked for the public.
HasPublicPermission(s) == "public" \in s.granted

\* The calls of permissions that are under way when a read starts.
Permitting == \E k \in {"grant", "set"} : changing[k].step \in {"sent", "half"}

-----------------------------------------------------------------------------
(* The caches: CacheAsyncFn, the promise of a read is what is kept.        *)

\* A call that finds no entry starts a read: since is the block of that time, until
\* the read is answered, and at is that of the answer.
Lookup(c) ==
  /\ cache[c] = NoEntry
  /\ cache' = [cache EXCEPT ![c] = [NoEntry EXCEPT !.since = Top, !.raced = Permitting]]
  /\ UNCHANGED <<blocks, height, metadata, changing, creating, confirmed, kept>>

\* getStream_nonCached, isStreamPublisher_nonCached, hasPermission
Answer(c) ==
  /\ cache[c].since > 0
  /\ \E p \in Answering :
       cache' = [cache EXCEPT ![c].at = height[p], ![c].since = 0,
                              ![c].behind = height[p] < cache[c].since]
  /\ UNCHANGED <<blocks, height, metadata, changing, creating, confirmed, kept>>

\* Every provider fails (streamContractErrorProcessor): the rejection is not kept,
\* and takes away also the entry that has replaced it.
Reject(c) ==
  /\ cache[c] # NoEntry
  /\ cache' = [cache EXCEPT ![c] = NoEntry]
  /\ UNCHANGED <<blocks, height, metadata, changing, creating, confirmed, kept>>

\* Mutant: half of the caches do not get a maximum age.
Expire_NotPublic(c) ==
  /\ c # "publicSubscribe" /\ cache[c].at > 0
  /\ cache' = [cache EXCEPT ![c] = NoEntry]
  /\ UNCHANGED <<blocks, height, metadata, changing, creating, confirmed, kept>>

\* The maximum age has passed, or the entry is evicted.
Expire(c) ==
  /\ cache[c].at > 0
  /\ cache' = [cache EXCEPT ![c] = NoEntry]
  /\ UNCHANGED <<blocks, height, metadata, changing, creating, confirmed, kept>>

\* clearStreamCache; a read that is under way answers its callers only.
ClearStreamCache == [cache EXCEPT !["stream"] = NoEntry, !["publisher"] = NoEntry]

-----------------------------------------------------------------------------
(* Changes.                                                                *)

Busy(k) == changing[k].step # "idle"
Begin(k, f) ==
  LET others == IF k \in UpdateCall THEN {j \in UpdateCall : Busy(j)} ELSE {}
  IN  changing' = [j \in Call |->
        IF j = k THEN [Idle EXCEPT !.step = "sent", !.field = f, !.alone = (others = {})]
        ELSE IF j \in others THEN [changing[j] EXCEPT !.alone = FALSE] ELSE changing[j]]

\* Stream.update merges the new fields with the metadata the object holds.
Update(k, f) ==
  /\ ~Busy(k) /\ Stream.exists
  /\ Begin(k, metadata \cup {f})
  /\ UNCHANGED <<blocks, height, cache, metadata, creating, confirmed, kept>>

\* Stream.delete
Delete ==
  /\ ~Busy("delete") /\ Stream.exists
  /\ Begin("delete", {})
  /\ UNCHANGED <<blocks, height, cache, metadata, creating, confirmed, kept>>

\* grantPermissions, revokePermissions: updatePermissions clears the caches first and
\* sends one transaction per permission; here to the user and to the public.
UpdatePermissions ==
  /\ ~Busy("grant") /\ Stream.exists
  /\ cache' = ClearStreamCache
  /\ Begin("grant", {})
  /\ UNCHANGED <<blocks, height, metadata, creating, confirmed, kept>>

\* setPermissions clears first too, and sends one transaction.
SetPermissions ==
  /\ ~Busy("set") /\ Stream.exists
  /\ cache' = ClearStreamCache
  /\ Begin("set", {})
  /\ UNCHANGED <<blocks, height, metadata, creating, confirmed, kept>>

\* The stream after the next transaction of a call; permissions are turned over.
Flipped(s, who) == [s EXCEPT !.granted = (@ \ who) \cup (who \ @)]
Mined(k) ==
  CASE k \in UpdateCall -> [Stream EXCEPT !.fields = changing[k].field]
    [] k = "delete" -> [Stream EXCEPT !.exists = FALSE]
    [] k = "grant" -> Flipped(Stream, IF changing[k].step = "sent" THEN {"user"} ELSE {"public"})
    [] k = "set" -> Flipped(Stream, {"user", "public"})

\* waitForTx: the transaction is mined; updatePermissions goes on with the next.
WaitForTx(k) ==
  /\ changing[k].step \in {"sent", "half"} /\ Stream.exists /\ Top < MaxBlocks
  /\ Put(Mined(k))
  /\ changing' = [changing EXCEPT ![k].step = IF k = "grant" /\ @ = "sent" THEN "half" ELSE "mined",
                                  ![k].block = Top + 1]
  /\ UNCHANGED <<height, cache, metadata, creating, confirmed, kept>>

ClearsAfter(k) == k \in UpdateCall \cup {"delete"}

\* Sending or waiting fails, before or after the transaction was mined: the rest of
\* the permissions are not sent.  Stream.update and delete clear the caches (finally).
TxFails(k) ==
  /\ Busy(k)
  /\ changing' = [changing EXCEPT ![k] = Idle]
  /\ cache' = IF ClearsAfter(k) THEN ClearStreamCache ELSE cache
  /\ UNCHANGED <<blocks, height, metadata, creating, confirmed, kept>>

\* The caches that show what the call has changed.
Shown(k) == IF ClearsAfter(k) THEN {"stream"} ELSE {"publisher"}

Keeps(k) == IF k \notin UpdateCall THEN kept
            ELSE IF changing[k].alone THEN kept \cup changing[k].field ELSE {}

\* The call resolves; Stream.update and delete clear the caches, and the object takes
\* over the merged metadata.
Resolve(k) ==
  /\ changing[k].step = "mined"
  /\ cache' = IF ClearsAfter(k) THEN ClearStreamCache ELSE cache
  /\ metadata' = IF k \in UpdateCall THEN changing[k].field ELSE metadata
  /\ kept' = Keeps(k)
  /\ confirmed' = [c \in Cache |-> IF c \in Shown(k) THEN changing[k].block ELSE confirmed[c]]
  /\ changing' = [changing EXCEPT ![k] = Idle]
  /\ UNCHANGED <<blocks, height, creating>>

-----------------------------------------------------------------------------
(* Creation.                                                               *)

\* getOrCreateStream finds no stream: the read fails and says so.
NotFound ==
  /\ creating = "idle" /\ Answering = {}
  /\ creating' = "sent"
  /\ UNCHANGED <<blocks, height, cache, metadata, changing, confirmed, kept>>

\* The new stream has the metadata of the call, nothing of an earlier one's updates.
CreateStream ==
  /\ ~Stream.exists /\ Top < MaxBlocks
  /\ Put([Stream EXCEPT !.exists = TRUE, !.fields = {}])
  /\ kept' = {}
  /\ changing' = [k \in Call |-> [changing[k] EXCEPT !.alone = @ /\ ~Busy(k)]]

\* The transaction is mined.  In the user's own namespace it creates the stream; with
\* an ENS domain that is left to an oracle, which may come later, or never.
CreationMined(ens) ==
  /\ creating = "sent"
  /\ IF ens THEN creating' = "polling" /\ UNCHANGED <<blocks, changing, kept>>
            ELSE creating' = "resolved" /\ CreateStream
  /\ UNCHANGED <<height, cache, metadata, confirmed>>

\* The oracle finds that the user owns the domain, also after the client gave up.
OracleCreates ==
  /\ creating \in {"polling", "failed"}
  /\ CreateStream
  /\ UNCHANGED <<height, cache, metadata, creating, confirmed>>

\* until(streamExistsOnChain): any provider that has the stream will do.
UntilExists ==
  /\ creating = "polling" /\ Answering # {}
  /\ creating' = "resolved"
  /\ UNCHANGED <<blocks, height, cache, metadata, changing, confirmed, kept>>

\* The transaction fails, or the timeout of the polling passes.
CreationFails ==
  /\ creating \in {"sent", "polling"}
  /\ creating' = "failed"
  /\ UNCHANGED <<blocks, height, cache, metadata, changing, confirmed, kept>>

-----------------------------------------------------------------------------
RegistryNext ==
  \/ \E p \in Provider : CatchUp(p)
  \/ \E c \in Cache : Lookup(c) \/ Answer(c) \/ Reject(c) \/ Expire(c)
  \/ \E k \in UpdateCall, f \in Field : Update(k, f)
  \/ Delete \/ UpdatePermissions \/ SetPermissions
  \/ \E k \in Call : WaitForTx(k) \/ TxFails(k) \/ Resolve(k)
  \/ NotFound \/ OracleCreates \/ UntilExists \/ CreationFails
  \/ \E ens \in BOOLEAN : CreationMined(ens)

RegistrySpec == RegistryInit /\ [][RegistryNext]_registryVars

\* An entry shows what the chain says now.
Current(c) ==
  LET then == blocks[cache[c].at]
  IN  CASE c = "stream" -> then.exists = Stream.exists /\ then.fields = Stream.fields
        [] c = "publisher" -> IsPermitted(then) = IsPermitted(Stream)
        [] c = "publicSubscribe" -> HasPublicPermission(then) = HasPublicPermission(Stream)
Stale(c) == cache[c].at > 0 /\ ~Current(c)

\* Providers catch up and entries expire.
RegistryFairness ==
  /\ \A p \in Provider : WF_registryVars(CatchUp(p))
  /\ \A c \in Cache : WF_registryVars(Stale(c) /\ Expire(c))

-----------------------------------------------------------------------------
(* Properties.                                                             *)

\* The client sees its own changes.  After a call that changed the stream resolved, a
\* read that was answered by a provider which was not behind shows the change; of
\* permissions, which clear the cache before and not after, only if the read did not
\* start during a call.  What is known of public permissions is not promised at all.
OwnChangesAreSeen ==
  \A c \in {"stream", "publisher"} :
    cache[c].at > 0 /\ ~cache[c].behind /\ (c = "stream" \/ ~cache[c].raced)
      => cache[c].at >= confirmed[c]

\* The updates of one Stream object add up, unless two of them overlap; those of a
\* stream that was deleted do not show in one that is created anew.
UpdatesAddUp == Stream.exists => kept \subseteq Stream.fields

\* A creation that resolves has created the stream.
CreatedExists == creating = "resolved" => \E b \in 1 .. Top : blocks[b].exists

RegistryInv == OwnChangesAreSeen /\ UpdatesAddUp /\ CreatedExists

\* What is stale does not stay: again and again every cache is empty or up to date.
StaleEntriesExpire == []<>(\A c \in Cache : ~Stale(c))

-----------------------------------------------------------------------------
(***************************************************************************)
(* Assigning a stream to a storage node and waiting until the node has     *)
(* picked it up: Stream.addToStorageNode, waitForAssignmentsToPropagate and*)
(* withTimeout, StreamStorageRegistry.ts, and the answer of                *)
(* StoragePlugin.startStorageConfig.                                       *)
(***************************************************************************)
CONSTANTS
  Partition,  \* the partitions of the stream
  Malformed   \* a message of the assignment stream that names no stream part

ASSUME AssigningAssumption == Malformed \notin Partition

VARIABLES
  assigned,   \* the registry has the assignment
  joining,    \* partitions the storage node has yet to join and acknowledge
  announced,  \* messages of the assignment stream on their way
  assigning,  \* addToStorageNode: how far it is
  listening,  \* its subscription: "none", "open", "ended"
  found,      \* foundPartitions
  acked,      \* history: partitions the storage node has acknowledged
  cut         \* history: the subscription was ended by another call

assigningVars ==
  <<assigned, joining, announced, assigning, listening, found, acked, cut>>

AssigningInit ==
  /\ assigned \in BOOLEAN
  /\ joining = {} /\ announced = {}
  /\ assigning = "idle" /\ listening = "none" /\ found = {}
  /\ acked = (IF assigned THEN Partition ELSE {}) /\ cut = FALSE

-----------------------------------------------------------------------------
(* The storage node.                                                       *)

\* onStreamPartAdded: it joins the stream part, or gives that up, and publishes it,
\* unless that fails.
Acknowledge(p) ==
  /\ p \in joining
  /\ joining' = joining \ {p}
  /\ \/ acked' = acked \cup {p} /\ announced' = announced \cup {p}
     \/ UNCHANGED <<acked, announced>>
  /\ UNCHANGED <<assigned, assigning, listening, found, cut>>

\* Anybody may write other things to the assignment stream.
AnnounceOther ==
  /\ announced' = announced \cup {Malformed}
  /\ UNCHANGED <<assigned, joining, assigning, listening, found, acked, cut>>

\* Messages are lost.
LoseAnnouncement(m) ==
  /\ m \in announced
  /\ announced' = announced \ {m}
  /\ UNCHANGED <<assigned, joining, assigning, listening, found, acked, cut>>

-----------------------------------------------------------------------------
(* addToStorageNode.                                                       *)

\* isStoredStream: nothing is done for a stream that is stored already; then the
\* subscription is added, so that no announcement after the transaction is missed.
CheckStored ==
  /\ assigning = "idle"
  /\ assigning' = IF assigned THEN "resolved" ELSE "sending"
  /\ listening' = IF assigned THEN "none" ELSE "open"
  /\ UNCHANGED <<assigned, joining, announced, found, acked, cut>>

\* addStreamToStorageNode: the transaction is mined, which the storage node hears of.
Assign ==
  /\ assigning = "sending"
  /\ assigning' = "waiting"
  /\ assigned' = TRUE /\ joining' = Partition
  /\ UNCHANGED <<announced, listening, found, acked, cut>>

\* waitForAssignmentsToPropagate returns with the last partition; malformed content and
\* other streams are ignored.
Propagated(m) ==
  /\ m \in announced /\ listening = "open"
  /\ announced' = announced \ {m}
  /\ found' = found \cup ({m} \ {Malformed})
  /\ listening' = IF found' = Partition THEN "ended" ELSE "open"
  /\ UNCHANGED <<assigned, joining, assigning, acked, cut>>

\* client.unsubscribe() or destroy() ends the subscription, and with it the wait.
UnsubscribeAll ==
  /\ listening = "open"
  /\ listening' = "ended" /\ cut' = TRUE
  /\ UNCHANGED <<assigned, joining, announced, assigning, found, acked>>

\* The wait is over; the subscription is removed in any case.
AssigningResolves ==
  /\ assigning = "waiting" /\ listening = "ended"
  /\ assigning' = "resolved" /\ listening' = "none"
  /\ UNCHANGED <<assigned, joining, announced, found, acked, cut>>

\* Any step before the wait fails, or the storage node does not respond in time.
AssigningFails ==
  /\ assigning \in {"sending", "waiting"}
  /\ assigning' = "rejected" /\ listening' = "none"
  /\ UNCHANGED <<assigned, joining, announced, found, acked, cut>>

-----------------------------------------------------------------------------
AssigningNext ==
  \/ \E p \in Partition : Acknowledge(p)
  \/ AnnounceOther
  \/ \E m \in Partition \cup {Malformed} : LoseAnnouncement(m) \/ Propagated(m)
  \/ CheckStored \/ Assign \/ UnsubscribeAll \/ AssigningResolves \/ AssigningFails

AssigningSpec == AssigningInit /\ [][AssigningNext]_assigningVars

-----------------------------------------------------------------------------
(* Properties.                                                             *)

\* What Stream.ts:222-226 says of the returned promise: it resolves if the stream was
\* assigned and the storage node acknowledged that.
AcknowledgedWhenResolved == assigning = "resolved" => assigned /\ acked = Partition

\* That holds as long as nobody else ends the subscription; and no subscription is left
\* behind by a call that is over.
AssigningInv ==
  /\ ~cut => AcknowledgedWhenResolved
  /\ listening # "none" => assigning \in {"sending", "waiting"}
=============================================================================
