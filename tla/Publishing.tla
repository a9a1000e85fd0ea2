------------------------------ MODULE Publishing ------------------------------
(***************************************************************************)
(* Publishing to an encrypted stream, and the keys: the client's           *)
(* Publisher.ts, MessageFactory.ts, messageChain.ts, GroupKeyQueue.ts,     *)
(* GroupKeyManager.ts and LocalGroupKeyStore.ts at the publisher;          *)
(* decrypt.ts, GroupKeyManager.ts and SubscriberKeyExchange.ts at a        *)
(* subscriber, with PublisherKeyExchange.ts answering its requests.        *)
(*                                                                         *)
(* One stream part and its default message chain.  A key is a number, in   *)
(* the order they are made.  Publishes run one at a time (concurrencyLimit);*)
(* updates of the key run beside them.  The subscriber reads the messages  *)
(* in order, in two pipelines that share its store: the real-time one and  *)
(* a resend.                                                               *)
(***************************************************************************)
EXTENDS Integers, Sequences, FiniteSets, TLC

CONSTANTS
  NoKey,        \* undefined
  Pipeline,     \* the subscriber's pipelines
  MaxTimestamp,      \* bound: the timestamps of messages
  MaxPublishes, \* bound: the calls of publish
  MaxKeys,      \* bound: the keys ever made
  MaxFailures   \* bound: failing publishes, lost messages and restarts

ASSUME PublishingAssumption == NoKey \notin Nat /\ MaxTimestamp \in Nat

VARIABLES
  waiting,    \* timestamps of the calls that wait for concurrencyLimit
  task,       \* the publish that runs
  calls,      \* how many publishes there were
  ref, chainId, \* prevMsgRefs of the chain; a new chain after a restart
  sent,       \* the messages published
  queue,      \* the group key queues ever made: current and queued key
  mapped,     \* the one groupKeyQueues holds, or 0
  factory,    \* the one the message factory holds, or 0
  updates,    \* calls of updateEncryptionKey under way, and the key made for each
  keys,       \* how many keys there are
  stored, latest, \* the publisher's LocalGroupKeyStore
  overlap,    \* history: an update began while a queue was loaded or filled
  rekeyed,    \* history: the keys made by rekey
  known,      \* the subscriber's LocalGroupKeyStore
  pipe,       \* where each pipeline is
  requests, responses, pendingRequests,  \* the key exchange
  failedMessages, failures  \* messages that could not be decrypted; the bound

publisher == <<waiting, task, calls, ref, chainId, queue, mapped, factory, updates, keys,
               stored, latest, overlap, rekeyed>>
subscriber == <<known, pipe, requests, responses, pendingRequests, failedMessages>>
publishVars == <<publisher, sent, subscriber, failures>>

NoMessageRef == <<0, 0>>
Idle == [phase |-> "idle"]
EmptyQueue == [current |-> NoKey, queued |-> NoKey]

PublishInit ==
  /\ waiting = <<>> /\ task = Idle /\ calls = 0 /\ ref = NoMessageRef /\ chainId = 0 /\ sent = <<>>
  /\ queue = <<>> /\ mapped = 0 /\ factory = 0 /\ updates = {} /\ keys = 0
  /\ stored = {} /\ latest = NoKey /\ overlap = FALSE /\ rekeyed = {}
  /\ known = {} /\ pipe = [p \in Pipeline |-> [next |-> 1, phase |-> "idle"]]
  /\ requests = {} /\ responses = {} /\ pendingRequests = {}
  /\ failedMessages = {} /\ failures = 0

-----------------------------------------------------------------------------
(* The keys of the publisher.                                              *)

\* createInstance: the queue q has loaded the latest key, and Mapping.get keeps it.
Loaded(q) ==
  /\ queue' = [queue EXCEPT ![q].current = latest]
  /\ mapped' = q

\* storeKey with both of its writes done.
Store(k) == latest' = k /\ stored' = stored \cup {k}

-----------------------------------------------------------------------------
(* publish                                                                 *)

\* The application publishes.
Publish(time) ==
  /\ calls < MaxPublishes
  /\ calls' = calls + 1
  /\ waiting' = Append(waiting, time)
  /\ UNCHANGED <<task, ref, chainId, sent, queue, mapped, factory, updates, keys, stored, latest,
                 overlap, rekeyed, subscriber, failures>>

\* The next task.  The message factory may have to be made, and its queue with it.
Start ==
  /\ task = Idle /\ waiting # <<>>
  /\ waiting' = Tail(waiting)
  /\ IF factory = 0 /\ mapped = 0
     THEN /\ queue' = Append(queue, EmptyQueue)
          /\ task' = [phase |-> "load", time |-> Head(waiting), queue |-> Len(queue) + 1]
          /\ UNCHANGED factory
     ELSE /\ factory' = IF factory = 0 THEN mapped ELSE factory
          /\ task' = [phase |-> "permission", time |-> Head(waiting)]
          /\ UNCHANGED queue
  /\ overlap' = (overlap \/ (task'.phase = "load" /\ updates # {}))
  /\ UNCHANGED <<calls, ref, chainId, sent, mapped, updates, keys, stored, latest, rekeyed,
                 subscriber, failures>>

FactoryMade ==
  /\ task.phase = "load"
  /\ Loaded(task.queue)
  /\ factory' = task.queue
  /\ task' = [phase |-> "permission", time |-> task.time]
  /\ UNCHANGED <<waiting, calls, ref, chainId, sent, updates, keys, stored, latest, overlap, rekeyed,
                 subscriber, failures>>

\* createMessageRef
NextRef(time) == IF time = ref[1] THEN <<time, ref[2] + 1>> ELSE <<time, 0>>

\* The permission and the metadata are there: the message gets its place in the
\* chain, unless it is back-dated.
Permitted ==
  /\ task.phase = "permission"
  /\ IF task.time < ref[1]
     THEN task' = Idle /\ UNCHANGED ref
     ELSE /\ ref' = NextRef(task.time)
          /\ task' = [phase |-> "key", ref |-> NextRef(task.time), prev |-> ref]
  /\ UNCHANGED <<waiting, calls, chainId, sent, queue, mapped, factory, updates, keys, stored,
                 latest, overlap, rekeyed, subscriber, failures>>

\* isStreamPublisher denies it, or the partition is out of range: nothing is used up.
NotPermitted ==
  /\ task.phase = "permission"
  /\ task' = Idle
  /\ UNCHANGED <<waiting, calls, ref, chainId, sent, queue, mapped, factory, updates, keys, stored,
                 latest, overlap, rekeyed, subscriber, failures>>

\* The content is encrypted, and the next key with it.
Ready(current, next) ==
  task' = [phase |-> "sign", ref |-> task.ref, prev |-> task.prev, key |-> current, next |-> next]

\* Mutant: a key that was announced is not taken into use.
UseGroupKey_NoRotation ==
  /\ task.phase = "key"
  /\ LET q == queue[factory]
         k == IF q.current # NoKey THEN q.current ELSE q.queued
     IN  /\ k # NoKey
         /\ Ready(k, q.queued)
         /\ queue' = [queue EXCEPT ![factory] = [current |-> k, queued |-> NoKey]]
  /\ UNCHANGED <<waiting, calls, ref, chainId, sent, mapped, factory, updates, keys, stored,
                 latest, overlap, rekeyed, subscriber, failures>>

\* useGroupKey with a key at hand: a queued one is announced, and current from then
\* on; the first one is not announced.
UseGroupKey ==
  /\ task.phase = "key"
  /\ LET q == queue[factory]
         k == IF q.queued # NoKey THEN q.queued ELSE q.current
     IN  /\ k # NoKey
         /\ IF q.current = NoKey THEN Ready(k, NoKey) ELSE Ready(q.current, q.queued)
         /\ queue' = [queue EXCEPT ![factory] = [current |-> k, queued |-> NoKey]]
  /\ UNCHANGED <<waiting, calls, ref, chainId, sent, mapped, factory, updates, keys, stored,
                 latest, overlap, rekeyed, subscriber, failures>>

\* useGroupKey without one: rekey.
FirstKey ==
  /\ task.phase = "key" /\ queue[factory] = EmptyQueue /\ keys < MaxKeys
  /\ keys' = keys + 1
  /\ task' = [phase |-> "rekey", ref |-> task.ref, prev |-> task.prev, key |-> keys']
  /\ overlap' = (overlap \/ updates # {})
  /\ rekeyed' = rekeyed \cup {keys'}
  /\ UNCHANGED <<waiting, calls, ref, chainId, sent, queue, mapped, factory, updates, stored,
                 latest, subscriber, failures>>

\* The key is stored; what was queued meanwhile is dropped.
FirstKeyStored ==
  /\ task.phase = "rekey"
  /\ Store(task.key)
  /\ queue' = [queue EXCEPT ![factory] = [current |-> task.key, queued |-> NoKey]]
  /\ Ready(task.key, NoKey)
  /\ UNCHANGED <<waiting, calls, ref, chainId, sent, mapped, factory, updates, keys, overlap, rekeyed,
                 subscriber, failures>>

\* The message is signed, and published by the node.
Sent ==
  /\ task.phase = "sign"
  /\ sent' = Append(sent, [chain |-> chainId, ref |-> task.ref, prev |-> task.prev,
                           key |-> task.key, next |-> task.next])
  /\ task' = Idle
  /\ UNCHANGED <<waiting, calls, ref, chainId, queue, mapped, factory, updates, keys, stored,
                 latest, overlap, rekeyed, subscriber, failures>>

\* A lookup, the store, the signature or the node fails.
PublishFails ==
  /\ task # Idle /\ failures < MaxFailures
  /\ failures' = failures + 1
  /\ task' = Idle
  /\ UNCHANGED <<waiting, calls, ref, chainId, sent, queue, mapped, factory, updates, keys, stored,
                 latest, overlap, rekeyed, subscriber>>

-----------------------------------------------------------------------------
(* updateEncryptionKey                                                     *)

\* rotate and rekey, with the queue of the mapping or one that is made.
Update(kind) ==
  /\ keys < MaxKeys
  /\ keys' = keys + 1
  /\ LET loads == mapped = 0
         q == IF loads THEN Len(queue) + 1 ELSE mapped
     IN  /\ queue' = IF loads THEN Append(queue, EmptyQueue) ELSE queue
         /\ updates' = updates \cup {[key |-> keys', kind |-> kind, queue |-> q,
                                      phase |-> IF loads THEN "load" ELSE "store"]}
  /\ overlap' = (overlap \/ updates # {} \/ task.phase \in {"load", "rekey"})
  /\ rekeyed' = IF kind = "rekey" THEN rekeyed \cup {keys'} ELSE rekeyed
  /\ UNCHANGED <<waiting, task, calls, ref, chainId, sent, mapped, factory, stored, latest,
                 subscriber, failures>>

UpdateLoaded(u) ==
  /\ u \in updates /\ u.phase = "load"
  /\ Loaded(u.queue)
  /\ updates' = (updates \ {u}) \cup {[u EXCEPT !.phase = "store"]}
  /\ UNCHANGED <<waiting, task, calls, ref, chainId, sent, factory, keys, stored, latest,
                 overlap, rekeyed, subscriber, failures>>

\* The key is stored: it is queued, or current at once.
UpdateStored(u) ==
  /\ u \in updates /\ u.phase = "store"
  /\ Store(u.key)
  /\ queue' = [queue EXCEPT ![u.queue] =
                 IF u.kind = "rotate" THEN [@ EXCEPT !.queued = u.key]
                 ELSE [current |-> u.key, queued |-> NoKey]]
  /\ updates' = updates \ {u}
  /\ UNCHANGED <<waiting, task, calls, ref, chainId, sent, mapped, factory, keys, overlap, rekeyed,
                 subscriber, failures>>

\* The publisher's process is started again: its store is kept.
Restart ==
  /\ failures < MaxFailures
  /\ failures' = failures + 1
  /\ waiting' = <<>> /\ task' = Idle /\ ref' = NoMessageRef /\ chainId' = chainId + 1
  /\ queue' = <<>> /\ mapped' = 0 /\ factory' = 0 /\ updates' = {}
  /\ requests' = {}
  /\ UNCHANGED <<calls, sent, keys, stored, latest, overlap, rekeyed, known, pipe, responses,
                 pendingRequests, failedMessages>>

-----------------------------------------------------------------------------
(* The subscriber.                                                         *)

Current(p) == sent[pipe[p].next]
Advance(f, p) == [f EXCEPT ![p] = [next |-> @.next + 1, phase |-> "idle"]]

\* storeEncryptionKeyToLocalStore wakes those that wait for one of the keys.
Woken(f, S) ==
  [p \in Pipeline |-> IF f[p].phase = "wait" /\ sent[f[p].next].key \in S
                      THEN [f[p] EXCEPT !.phase = "idle"] ELSE f[p]]

\* decrypt with the key in the store: an announced key is stored, too.
Decrypt(p) ==
  /\ pipe[p].phase = "idle" /\ pipe[p].next <= Len(sent)
  /\ Current(p).key \in known
  /\ LET announced == {Current(p).next} \ {NoKey}
     IN  /\ known' = known \cup announced
         /\ pipe' = Woken(Advance(pipe, p), announced)
  /\ UNCHANGED <<publisher, sent, requests, responses, pendingRequests, failedMessages, failures>>

\* fetchKey finds nothing in the store.
NotInStore(p) ==
  /\ pipe[p].phase = "idle" /\ pipe[p].next <= Len(sent)
  /\ Current(p).key \notin known
  /\ pipe' = [pipe EXCEPT ![p].phase = "request"]
  /\ UNCHANGED <<publisher, sent, known, requests, responses, pendingRequests, failedMessages,
                 failures>>

\* requestGroupKey, then the wait for the store's event.  The key may have come
\* since the store was looked at; the event of that is missed.
RequestGroupKey(p) ==
  /\ pipe[p].phase = "request"
  /\ LET r == [by |-> p, of |-> pipe[p].next, key |-> Current(p).key]
     IN  requests' = requests \cup {r} /\ pendingRequests' = pendingRequests \cup {r}
  /\ pipe' = [pipe EXCEPT ![p].phase = "wait"]
  /\ UNCHANGED <<publisher, sent, known, responses, failedMessages, failures>>

\* onMessage of PublisherKeyExchange: answered if the key is there.
Answer(r) ==
  /\ r \in requests
  /\ requests' = requests \ {r}
  /\ responses' = IF r.key \in stored THEN responses \cup {r} ELSE responses
  /\ UNCHANGED <<publisher, sent, known, pipe, pendingRequests, failedMessages, failures>>

\* onMessage of SubscriberKeyExchange
Respond(r) ==
  /\ r \in responses
  /\ responses' = responses \ {r}
  /\ IF r \in pendingRequests
     THEN /\ pendingRequests' = pendingRequests \ {r}
          /\ known' = known \cup {r.key}
          /\ pipe' = Woken(pipe, {r.key})
     ELSE UNCHANGED <<pendingRequests, known, pipe>>
  /\ UNCHANGED <<publisher, sent, requests, failedMessages, failures>>

\* A request or a response is lost.
ExchangeLost(r) ==
  /\ r \in requests \cup responses /\ failures < MaxFailures
  /\ failures' = failures + 1
  /\ requests' = requests \ {r} /\ responses' = responses \ {r}
  /\ UNCHANGED <<publisher, sent, known, pipe, pendingRequests, failedMessages>>

\* keyRequestTimeout, longer than an exchange takes: the message is dropped with an error.
KeyRequestTimeout(p) ==
  /\ pipe[p].phase = "wait"
  /\ \A r \in requests \cup responses : r.by # p
  /\ failedMessages' = failedMessages \cup {pipe[p].next}
  /\ pipe' = Advance(pipe, p)
  /\ UNCHANGED <<publisher, sent, known, requests, responses, pendingRequests, failures>>

-----------------------------------------------------------------------------
PublisherNext ==
  \/ \E time \in 1 .. MaxTimestamp : Publish(time)
  \/ Start \/ FactoryMade \/ Permitted \/ NotPermitted \/ UseGroupKey \/ FirstKey \/ FirstKeyStored \/ Sent
  \/ PublishFails
  \/ \E kind \in {"rotate", "rekey"} : Update(kind)
  \/ \E u \in updates : UpdateLoaded(u) \/ UpdateStored(u)
  \/ Restart

SubscriberNext ==
  \/ \E p \in Pipeline : Decrypt(p) \/ NotInStore(p) \/ RequestGroupKey(p) \/ KeyRequestTimeout(p)
  \/ \E r \in requests : Answer(r)
  \/ \E r \in responses : Respond(r)
  \/ \E r \in requests \cup responses : ExchangeLost(r)

PublishNext == PublisherNext \/ SubscriberNext

PublishSpec == PublishInit /\ [][PublishNext]_publishVars

-----------------------------------------------------------------------------
(* Properties.                                                             *)

Timestamp == 1 .. MaxTimestamp
Ref == Nat \X Nat
Key == Nat \ {0}
KeyOrNone == Key \cup {NoKey}

\* What each step of a publish has at hand, and where each update stands.
Task ==
  {Idle}
  \cup [phase : {"load"}, time : Timestamp, queue : Key]
  \cup [phase : {"permission"}, time : Timestamp]
  \cup [phase : {"key"}, ref : Ref, prev : Ref]
  \cup [phase : {"rekey"}, ref : Ref, prev : Ref, key : Key]
  \cup [phase : {"sign"}, ref : Ref, prev : Ref, key : Key, next : KeyOrNone]

KeyUpdate ==
  [key : Key, kind : {"rotate", "rekey"}, queue : 1 .. Len(queue), phase : {"load", "store"}]

\* What a message carries, a queue of keys, and where a pipeline is.
ChainMessage == [chain : Nat, ref : Ref, prev : Ref, key : Key, next : KeyOrNone]
KeyQueue == [current : KeyOrNone, queued : KeyOrNone]
Place == [next : Key, phase : {"idle", "request", "wait"}]
KeyRequest == [by : Pipeline, of : 1 .. Len(sent), key : Key]

\* The type invariant.
PublishTypeOK ==
  /\ waiting \in Seq(Timestamp) /\ task \in Task
  /\ ref \in Ref /\ {calls, chainId, keys, failures} \subseteq Nat
  /\ sent \in Seq(ChainMessage) /\ queue \in Seq(KeyQueue)
  /\ {mapped, factory} \subseteq 0 .. Len(queue)
  /\ updates \subseteq KeyUpdate
  /\ stored \cup rekeyed \cup known \subseteq Key /\ latest \in KeyOrNone /\ overlap \in BOOLEAN
  /\ pipe \in [Pipeline -> Place]
  /\ requests \cup responses \cup pendingRequests \subseteq KeyRequest

\* Within a chain the references ascend, and each message refers to the one before
\* it, unless a publish failed in between.
ChainIsLinear ==
  \A i \in 2 .. Len(sent) :
    LET m == sent[i - 1]  n == sent[i]
    IN  m.chain = n.chain =>
          /\ n.ref[1] > m.ref[1] \/ (n.ref[1] = m.ref[1] /\ n.ref[2] > m.ref[2])
          /\ failures = 0 => n.prev = m.ref

\* Within a chain a new key is announced with the message before it, unless that was
\* not published or the key was made by a rekey.
NewKeysAreAnnounced ==
  \A i \in 2 .. Len(sent) :
    LET m == sent[i - 1]  n == sent[i]
    IN  m.chain = n.chain /\ m.key # n.key /\ failures = 0 => n.key \in {m.next} \cup rekeyed

\* The key that was stored last is the one in use, or queued to be announced with
\* the next message, unless an update came while a queue was loaded or filled.
LatestIsUsed ==
  (~overlap /\ factory # 0 /\ updates = {} /\ task.phase \notin {"load", "rekey"}) =>
    LET q == queue[factory]
    IN  latest = (IF q.queued # NoKey THEN q.queued ELSE q.current)

\* The publisher can answer a request for the key of any message, after a restart, too.
UsedKeysAreStored == \A i \in DOMAIN sent : sent[i].key \in stored

\* Keys change in step with the chain (GroupKeyQueue.ts, GroupKeyManager.ts),
\* whatever updates and restarts come between.
KeysInv == NewKeysAreAnnounced /\ LatestIsUsed /\ UsedKeysAreStored

\* A message cannot be decrypted only if a request or a response was lost, or the
\* publisher restarted while one was on its way.
FailsForAReason == failedMessages # {} => failures > 0

\* With "rotate" the new key "will be sent to the stream alongside the next published
\* message" (LocalGroupKeyStore).
RotatedIsAnnounced ==
  (factory # 0 /\ updates = {} /\ task.phase \notin {"load", "rekey"}) =>
    LET q == queue[factory]
    IN  latest = (IF q.queued # NoKey THEN q.queued ELSE q.current)
\* The chain, its keys, and the subscribers that ask for them.
PublishingInv == PublishTypeOK /\ ChainIsLinear /\ KeysInv /\ FailsForAReason
=============================================================================
