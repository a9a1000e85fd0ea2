# A formal model of the Streamr network

TLA+ models of the stateful and concurrent parts of this monorepo (the peer-to-peer
node, the tracker, the client library and the broker), the TLC configurations that
check them on small instances, and proofs that hold for every value of the
constants. Paths are relative to `packages/` unless they say otherwise.

Every definition that stands for code is listed in `PROJECT.json` with the lines
it was translated from. Operators marked `Mutant` in the modules are deliberately
wrong variants of the definition below them; replacing the definition by the
variant makes TLC report the property named in `PROJECT.json`.

## 1. Inventory

The system is a single-threaded JavaScript program per process. What makes it
hard is not parallelism but suspension: at every `await`, timer and callback other
handlers run, and state read before is stale after.

| Component | State | Operations | Interacts with | What is hard | What makes it correct |
|---|---|---|---|---|---|
| Duplicate detection, `network/src/logic/DuplicateMessageDetector.ts` | a list of intervals that may hold unseen numbers, per message chain | `markAndCheck` | Node asks it before it propagates | any arrival order, forks, the limit on gaps | a number is never new twice; no interval is empty; nothing missed is taken for seen |
| Propagation, `network/src/logic/propagation/*` | tasks, their FIFO store with expiry, a lookup by stream part | `feedUnseenMessage`, `onNeighborJoined` | Node, which knows the neighbours; the node-to-node protocol, which sends | sends settle in any order while neighbours come and go | a joining neighbour gets every active task; the three structures of the store agree |
| Instruction handling, `network/src/logic/{InstructionThrottler,InstructionRetryManager,TrackerManager}.ts` | a lock and a queue, a retry interval, highest counter | `add`, `removeStreamPart`, retries, `handleTrackerInstruction` | tracker (instructions in, statuses out), Node (neighbours) | two callers of one handler; cancellation during an `await` | one lock holder, the newest instruction wins, nothing for a removed stream part |
| Tracker overlay, `network-tracker/src/logic/OverlayTopology.ts` | neighbours of each node, cache of nodes with open slots | `update`, `leave`, `formInstructions` | Tracker | the loop changes the lists its targets come from; the cache is maintained by hand | symmetric, no self-links, the cache exact, the limit kept |
| Tracker, `network-tracker/src/logic/{Tracker,InstructionCounter,InstructionAndStatusAckSender}.ts` | overlays, counters, send buffer | statuses, disconnections, debounced sending | nodes, by statuses and instructions | two tables beside the overlay; entries overwritten before they are sent | counters follow membership; who waits is answered |
| Node and stream parts, `network/src/logic/{Node,StreamPartManager}.ts` | stream parts with neighbours and counter | subscribe, unsubscribe, messages, disconnections | all of the node's parts | handlers interleave with the parts above | neighbours follow the instructions; a subscribed node is linked in the end |
| Tracker connections, `network/src/logic/TrackerConnector.ts`, `connection/ws/*` | sockets, peer books, signalling-only sessions | connect, handshake, maintain, ping | TrackerManager, ws (external) | duplicate connections, late close events, connections dropped while wanted again | a tracker keeps one socket of a node; attempts settle; idle trackers are left |
| Disconnecting, `network/src/logic/DisconnectionManager.ts` | timers per node | schedule, cancel, periodic clean-up | Node, connections | a timer that fires when the node is needed again | no needed neighbour is disconnected |
| Proxy connections, `network/src/logic/proxy/*` | connections by direction, reconnection | open, accept, close, reconnect | Node | late answers, reconnection against closing | both ends agree; lost proxies are replaced |
| WebRTC, `network/src/connection/webrtc/*` | connections, message queues, signalling | connect, offer and answer, send with retries | node-datachannel (external), trackers as relays | crossed offers, replacements, back-pressure, expiry | one connection per peer; a connect or a message settles once |
| Publishing, `client/src/publish/*` | message chain, queue, group key | publish, rotate and rekey | network node, encryption | order across awaits | references form a chain; the key in a message is the current one |
| Keys, `client/src/encryption/*`, `client/src/PersistenceManager.ts` | key stores, pending requests | request, response, timeout, open and close of the store | subscribers, publishers, SQLite (external) | late responses; the store is opened by several calls | a waiting request ends; a key that was stored is found |
| Subscribing, `client/src/subscribe/*` | sessions, subscriptions, pipelines | subscribe, unsubscribe, resend | network node, ordering, keys | sessions shared by subscriptions that come and go | a session exists while it has subscriptions; resend and real time join without a hole |
| Ordering and gap filling, `client/src/subscribe/ordering/*` | latest message, pending queue, current gap; running tasks | `addMessage`, `resolveMessages`, gap-filling tasks, `destroy` | real-time stream, storage nodes | tasks outlive their gap; aborts that do not stop a task | in order, nothing lost silently, no chain waits forever |
| Stream utilities, `client/src/utils/*` | buffers, gates, iterators, signals | push, pull, end, return, trigger | all of the client | errors and ends racing with pushes; lost wake-ups | nothing pushed is lost, the end comes last, nobody sleeps forever |
| Messages, `protocol/src/*`, `client/src/{validateStreamMessage,encryption/decrypt}.ts` | a message, shared by its readers | serialise, sign, validate, decrypt | all | two subscriptions share one object; versions | what a reader gets is what was signed |
| Registries, `client/src/registry/*`, `Stream.ts`, `utils/src/TheGraphClient.ts` | caches, the block to wait for | create, update, permissions, search | contracts and index (external) | providers and an index that lag; entities that move between pages | a cache is not older than what invalidates it; own changes are seen |
| Storage, `broker/src/plugins/storage/*` | buckets, batches, pending stores, assignments | store, insert, load, create, query, poll | Cassandra (external), contract events | buckets change around awaits; retries; crashes; events racing with polls | nothing acknowledged is lost; assignments never go back |
| Other broker plugins, `broker/src/{broker,plugins/*}` | clients, subscriptions, timers | start, stop, subscribe, mine, HTTP answers | client library, brokers' clients | failures of one of several steps, overlapping calls | one subscription each, no leftovers |
| Metrics, `utils/src/Metric.ts`, `client/src/MetricsPublisher.ts` | samples, timers | record, report, destroy | client | late timers | every event is in one report |

Configuration (`Config.ts`, `ConfigWizard.ts`), command line tools, the simulator and
test tooling are set-up or test doubles and are not modelled.

## 2. The modules

`MC*` modules and `.cfg` files hold the instances for TLC, `*Proofs` the theorems.
Several modules share a run: in such an MC module a variable `machine` says which of
them moves in a behaviour, and the others stay in their initial states. Machines of one
run share no state.

### Network

**DuplicateMessageDetector.** One chain's detector. `gaps` is the interval list,
numbers are pairs in the lexicographic order of `NumberPair`, and the open end is a
bound above all of them. `MarkAndCheck` has one disjunct per outcome: `RejectInvalid`,
`First`, `WithoutRef`, and `SearchAt`/`SearchExhausted` for the loop that goes from
the newest interval down (an existential over the iteration that ends it).
`DropLowestGap` is part of the step. `accepted` and `forgotten` are history. `forkless`
says which messages may come: any, or only those of `InChain`, which refer to the number
just before their own, as one publisher numbers them.

**OverlayTopology.** `update` and `leave` are steps; `formInstructions` is a sequence of
steps under `pc` (`trim`, `fill`, `choose`, `relink`, `finish`), so that the properties
speak about the lists between any two assignments. In the code it does not yield; while
`pc` is not `idle` no other operation starts. Shuffles and random picks may have any
outcome. `open` is `nodesWithOpenSlots`, recomputed only for the nodes the code
passes to `checkOpenSlots`.

**Tracker** extends it. `Status` and `Gone` are the handlers, `Call`, `Form` and `Return`
the calls of `formInstructions` they make, forced for each former neighbour of a node that
left, `Send` the debounced sending of the buffer. A buffered entry is its instruction's
counter, or an ack. `owed` is history: who waits for an answer.

**TrackerNodes** extends `Tracker` with whole nodes: subscribing, statuses, the throttler,
retries and the disconnection timers of each, the sockets to the tracker, and the
connections among the nodes. Messages are queued per node and lost when a socket breaks. A
handler of a node is one step together with the microtasks it leaves behind.

**InstructionHandling** studies the order of those microtasks for one stream part. A run
is one call of `handleTrackerInstruction`, started by the throttler or by a retry; it
waits until each of its connections has succeeded or failed. Cancelling leaves the run
going with nobody waiting for it.

**TrackerReports.** The tracker's state with locations and round-trip times, and the views
of it that the HTTP interface computes.

**Propagation.** `dropQueue`, `left` and `lookup` are the three structures of the task store,
kept apart because the code keeps them in step by hand. The queue is kept as, for each
message in it, the messages before it; its order is all that the code uses. An expired task
stays in all three until it is looked up. `inFlight` counts sends whose promise is pending.
Continuations of a settled send (the reset of the failure count in `Node` and the marking
in `Propagation`) are one step: nothing can run between the two that looks at either.

**TrackerConnections.** The sockets of one node to one tracker with both ends' events;
a close is "closing" until its event, which may be late.

**ProxyConnections.** Client and servers of one proxied stream part: opening and closing,
handshakes, leave messages, lost connections, retries, `setProxies` in parallel. `abandoned` is history: a call
failed while one of its attempts went on.

**WebRtcEndpoint, WebRtcConnection.** How two nodes connect over relayed offers, answers and
candidates; and how the messages of a queue go over the connections of one peer.

**StreamMessages.** The way of one message through serializers, another node, validation and
decryption at two readers of the same object.

### Client

**OrderedDelivery** is the promise of an ordered subscription: numbers increase, and a
message comes right after its predecessor or its gap was declared unfillable. Its variables
are the delivered messages and the reported gaps only.

**OrderedMessageChain.** `last`, `pending`, `gap` are `lastOrderedMsg`, `pendingMsgs` and
`currentGap`. `Consume` stands for the whole loop of `consumePendingOrderedMessages`: what is
taken is a prefix of the queue, so it is defined as a set instead of by iteration, together
with the gap checks at its end and the `unfillable` notifications on the way. `ChainSpec` is
the chain with a caller that may do anything. It implements `OrderedDelivery`
(`DeliversInOrder`, an `INSTANCE ... WITH`), and is itself the abstract specification of

**GapFiller.** A task is where it waits (`initialWait`, `addresses`, `resend`,
`retryWait`), whether it was aborted, and how many requests it made. `React` is the pair of
listeners `onGapResolved` and `onGapFound`, which run inside the chain's step. An abort ends
a task that waits for a timer at once; a lookup or a resend is not interrupted, as in the code,
where the signal is only looked at by `wait`. `full` selects the strategy.

**MessagePipeline.** From the node to the consumers: a plain, a raw and a resending
subscription with their buffers; ordering is seen from outside.

**Subscriptions.** Sessions shared by subscriptions, with the scaffold that joins and leaves
the stream part, and the node that is started on demand.

**Pipelines.** `PushBuffer` with its gates and `Pipeline` with its iterators; listeners and
triggers of a `Signal`.

**Publishing.** `Publisher`, `MessageFactory`, message chain and `GroupKeyQueue` at the publisher,
the key exchange and the pipelines of a subscriber that decrypt.

**KeyStores.** `LocalGroupKeyStore` on a database that several clients and restarts share.

**StreamRegistry.** The caches of the registry against the client's own changes, through
providers that lag; and `addToStorageNode`, which waits for the storage node's message.

**TheGraph.** Queries that wait for the index and page through it while it changes.

### Broker

**StorageBatches, Storage.** The open and the pending batches; buckets in memory and in the
database, with the two timers, crashes, and the command that deletes expired data; and the
queries, which are operators on the state. `heap` is the array of the library's heap, so that
its shape is checked and not assumed: `WayUp` is the places from a leaf to the root, `Push`
moves a new bucket up along it, and `Rebuilt` pushes what is left into an empty heap after
buckets were removed.

**StorageAssignments.** The stream parts of a storage node by events and polls.

**Broker.** Start and stop with the plugins, the miner, and the HTTP answers of the publish and
query endpoints.

**ClientPlugins.** The subscriptions of a websocket client, whose connection may end at any
time, with the transaction that takes back what succeeded when a subscription fails; and the
bridge of one MQTT topic, whose subscriptions are a sequence of the clients each of them serves.

**Metrics.** Samples of each kind of metric and their reports by a timer that may be late. `upTo` is history: how
much had been recorded when each report was made.

### What composes what

`GapFiller` extends `OrderedMessageChain`, which instantiates `OrderedDelivery`; `Tracker` extends
`OverlayTopology`, and `TrackerNodes` extends `Tracker`; `Storage` extends `StorageBatches`.
The other components only meet at calls whose outcome the caller's model leaves open
(a send succeeds or fails, a lookup finds or throws), so each is checked against every
behaviour of its neighbours. Where an outcome depends on the other side, both sides are in one
module: client and server of a proxy, both ends of a socket, two WebRTC endpoints with their
relay, nodes with their tracker, publisher and subscriber.

## 3. The runs

A run checks one instance to the end. Counts are distinct states.

| Run | Instance | States | What it shows |
|---|---|---|---|
| `overlay` | 6 nodes, at most 4 neighbours (the default), statuses and departures in any order | 5,587 | `OverlayInv`, `WellConnected`, `FormKeepsLimit`, `LinkedAreInstructed`: the graph stays symmetric and the cache exact between any two assignments, the limit is kept, a new link is instructed at both ends |
| `tracker` | 4 nodes, at most 2 neighbours, counters up to 2 | 1,535,773 | `TrackerInv`, `OwedAreAnswered`: counters follow membership, the buffer holds the newest instruction, who waits is answered |
| `nodes` | 2 nodes that may have 2 neighbours, counters up to 6, 1 fault, 3 runs of the instruction handler, reports over 3 nodes | 75,887 | `NodesInv`, `ReportsInv`, `LinkedInTheEnd`, `QueueDrains`: subscribed nodes end up linked although sockets and attempts fail; the throttler and the retries keep one lock holder and drop nothing |
| `node_cleanup` | the same, nodes only | violation | `CleansUp` (section 5) |
| `messages` | detector: 4 timestamps by 2 sequence numbers, 2 gaps; propagation: 3 messages of 2 stream parts, 2 neighbours, a store of 2, 2 failures; publishing: 2 publishes, 2 keys, 2 pipelines, 1 failure | 1,101,166 | `DetectorInv`, `ForklessInv`, `PropagationInv`, `EndedForAReason`, `PublishingInv` |
| `connections` | 2 sockets; 2 proxies, 2 tasks, 2 calls, 1 loss; 2 streams, 3 blocks | 271,980 | `ConnectionsInv`, `SocketsSettle`, `ProxiesAreReplaced`, `NeverGoesBack`, `AssignmentsSettle` |
| `webrtc` | 4 connection objects; a queue of 2, 2 tries, bursts of 2, one message too large, 2 openings | 668,496 | `EndpointInv`, `QueueInv`, `PromisesSettle` |
| `ordering` | 6 messages with two gaps, which requests fill or not, 2 requests a gap, both strategies; 2 readers of one message, 1 node between, 1 change | 21,485 | `TasksAndGapsAgree`, `DeliversInOrder` (the refinement of `OrderedDelivery`), `DroppedAfterLastRequest`, `EventuallyDelivered`, `StreamMessagesInv` |
| `subscribing` | 2 subscriptions, 2 sessions; one chain of 3 messages to a plain, a raw and a resending consumer; buffers of 1; 2 items; 2 listeners, 3 triggers | 429,700 | `SubscriptionsInv`, `PipelineInv`, `StreamsInv`, `EverythingGoesOn` |
| `storage` | 3 messages of which 2 arrive in any order of their timestamps, buckets of 2, batches of 1, 1 retry, 3 buckets, 1 crash; starts empty or with a bucket that holds the first message | 472,896 | `BucketsInv`, `NothingLost`, `QueriesFind`, `EventuallySettled` |
| `storage_ranges` | 3 messages in any order, two of them of one millisecond, no crash, nothing expires | violation | `FromFindsFirst` (section 5) |
| `services` | 2 providers, 3 blocks (4 where a stream is deleted, so that it can be created again), 2 fields; 3 entities in pages of 2; 2 websocket or MQTT clients; 2 plugins; 2 records of a metric; 2 calls of a key store, 1 restart | 410,155 | `ChainViewInv`, `ChainViewSettles`, `ServicesInv`, `ServicesGoOn` |

**Why the bounds are enough.** Each bound is the smallest number at which the case it
is there for occurs, or a step above it. Six nodes with four neighbours is the smallest overlay in which
the loop that opens a link between two others runs and has a choice; four nodes with two are the
smallest in which it runs at all. Two gaps make the interval list merge, split and drop its
lowest; a store of two with three messages overflows. Two sockets, two sessions, two tasks and
four connection objects (two of each end) are a thing and its replacement. Three messages in
buckets of two are a full bucket and one that must wait for the next. One fault or crash at
any point, with enough steps left to recover, meets every place where one could be
harmful; what needs two independent ones is not covered. Every other bound caps a counter
(`MaxCounter`, `MaxBlocks`, `MaxClock`) and is high enough for each action to be taken.

**Inputs.** The environment of each module takes any step its interface allows, at any time:
messages in any order and any number of times, subscriptions and departures, failed calls
of the libraries, late events. Behaviours with fewer nodes or messages are contained, as
none has to be used.

**Deadlock** is checked in `overlay` and `tracker`, whose handlers must always be able to
finish. In the other runs a machine may really stop: all messages are published, the client is
destroyed, a counter reached its bound; there the liveness properties say that nobody is left
waiting.

**Symmetry** is used in `overlay`, `tracker` and `messages`, over values that are only
compared, and not in a run with a liveness property.

### Fairness

What is weakly fair is what the event loop does by itself: a microtask, a timer that was
started, a callback that the library owes. What the environment may or may not do (a user's
call, a message, a failure) is never fair.

| Module | Fair | Because |
|---|---|---|
| GapFiller | WF, each task's progress | timers, lookups and resends end, in one way or the other |
| InstructionHandling | SF, each step of a run | a connection attempt ends at its time limit at the latest. Strong, since a run's step waits while another holds the lock |
| TrackerNodes | WF: an opened socket's handler, a node's own event, a retry, a peer's event, a failing attempt, `Instruct`, `SendBuffer` | sockets reconnect by timer, attempts time out, the tracker debounces by timer |
| WebRtcEndpoint | WF, the connection time limit | a timer |
| WebRtcConnection | WF, flushing, low back-pressure, closing, ping and pong, draining | timers and callbacks of the library |
| TrackerConnections | WF, `Maintain` and both ends' handlers | an interval, and `ws` ends every handshake and close |
| ProxyConnections | WF, each task, operation and message, and a server that serves | retries by timer; a message is delivered or its connection lost |
| StorageAssignments | WF: events, polls, `destroy`; SF, a poll answered with the newest block | the interval polls for ever; the chain is up to date again and again |
| Subscriptions | WF: scaffold, calls, the node's start or failure | microtasks |
| MessagePipeline | WF: processing, filling or leaving a gap, distribution, consumers | microtasks; gap filling ends |
| Pipelines | WF: iterator and clean-up steps, `next`, returns; triggers and late calls of signals | microtasks. The consumer that has begun to iterate asks again |
| StreamRegistry | WF: a provider catches up, a cached value expires | blocks arrive, timers |
| TheGraph | WF: polling, its time limit, the next page | timers. That the index proceeds is not assumed |
| Broker, ClientPlugins | WF: interval, lookup, ping timer; SF: a subscription that succeeds | intervals. A claim that fails for ever is no success of the miner |
| KeyStores | WF: calls end, opening and migrating end | SQLite answers |
| Storage | WF: retries, immediates, batches, checks | timers; Cassandra answers or fails |

`DeliversInOrder` is the refinement of `OrderedDelivery` by the chain with gap filling,
checked as a property and also proved.

## 4. The proofs

Eight `*Proofs` modules hold theorems that TLAPS checks for every value of the constants under
the assumptions named in the modules. Each safety theorem goes the same way: a strengthening
of the property is shown to hold initially and to survive each action (one step for each action,
one under it for each conjunct the action can disturb), and PTL closes the argument. Where a
run can state the strengthening, TLC checked it before it was proved.

**MessagesProofs.** Of the duplicate detector: `TypeCorrect`, `WellFormedGaps`, `AtMostOnce`, and together
`DetectorIsSafe` (`DetectorInv` of run `messages`). "No number is new twice" is not inductive; it needs
`AcceptedNotCovered`: an accepted number lies in no interval, which each branch of the
search keeps because it takes the number out of the one interval that contains it. `ForklessChain`
(`ForklessInv`) is the converse for a chain without forks: neither exception is thrown, and a
number that was not accepted is still inside some gap. Its invariant `ForkInv` adds that each
interval starts at an accepted number, so the message after that number ends the interval
exactly; what the intervals hold before and after a splice is compared by `Spliced` and `Exchanges`.
Assumed: numbers are pairs of integers below the open end; the limit on gaps is positive.
Of propagation: `NothingForgotten` (`PropagationInv`), `TasksEndForAReason` (`EndedForAReason`),
`SendsAreForActiveTasks`. `QuietInv` adds to the invariant that the store is finite and nothing
is in flight for a message before it is fed. `NextQuiet` is the inductive step. Assumed: finitely
many nodes, the publisher's mark is no node, each message has a stream part.
Of publishing: `KeysFollowTheChain` (`PublishingInv`), for any number of publishes, keys, failures and
pipelines, with every interleaving of publisher and subscriber (the run lets one of them finish first). `NextKey` is the inductive step of `KeyInv`,
which says where the publish that runs stands in the chain (`PlaceInv`); that a queue being loaded is empty and nobody
else's (`LoadInv`), without which a late load could undo a key in use; that the key in use is the one of the last message, the one it announced,
or a rekeyed one (`UseInv`); what `overlap` excludes (`LatestInv`); and that a pipeline that waits has exactly its own request
under way, which is pending, so that the answer wakes it (`AskInv`, `RequestsInv`). Assumed: the mark of no key is no number.

**TrackerProofs.** Of the overlay: `OverlayTypeOK`, `AlwaysSymmetric`, `NeverSelfNeighbor`, `CacheExact`,
`StrangersAreFull`, together `GraphAndCacheAgree` (`OverlayInv`). The hard part is the loop
that opens a link, because its two halves are made one after the other: `GraphInv` says
what is symmetric between them and that the chosen targets are still not linked to the node
(`TargetsUnlinked`), `SlotInv` which nodes' entries of the cache are due at which step. `FormInv` adds that the
node stays within its limit while it fills (`SelfWithinLimit`) and that strangers are the targets.
From these `AlwaysWellConnected` (`WellConnected`), `FormStaysBelowLimit` (`FormKeepsLimit`) and
`LinksAreInstructed` (`LinkedAreInstructed`). Assumed: finitely many nodes; any natural limit.
Of the tracker: `TrackerRunsOverlay`: each step of the tracker is one of `OverlayTopology` or leaves
the overlay alone, so the overlay's theorems hold for it. `TablesAgree` (`TrackerInv`) with
`HandlerInv`, which says during a handler whose tables are already or still to be changed.
`OwedGetAnswers` (`OwedAreAnswered`) with `AnswersInv`: who is owed has an entry, was instructed by
the call that runs, or is in the list of calls to come. It has the hypothesis
`MaxNeighbors >= 2`: with 1 it is false, because a joining node can be left without any
instruction; the code's default is 4.
Of whole nodes: `NodesRunTracker` is a refinement, `NodesSpec => AnyTracker`: each step of nodes, sockets and connections is
one of the tracker or leaves its variables alone, so that `TrackerAmongNodes` has the tracker's theorems for them. It needs
the types of the nodes: the statuses that reach the tracker name nodes. `NeighborsStayConnected` says that the neighbours of a node
are peers it has a connection to, as far as it knows; with `HandlingInStep`, about the order of the microtasks of one stream part, it gives
`NodesKeepInvariants` (`NodesInv`). "One run of the throttler holds the lock" counts slots, and is proved as `OneThrottled`:
any two such runs are the same one.
Of the reports: `ReportsAgree` (`ReportsInv`), with `TablesInv` (links go both ways, and what is kept is of nodes that are online)
and `PageInv` (the cached page is of the time it was made, and what changed since is noted).
Assumed beside: the marks (`Unknown`, `Malformed`, `None`) are no values, and a stream's name contains itself.

**GapFillerProofs.** Of the chain: `ChainTypeCorrect`, `GapAlwaysOpen`, `NeverSilentLoss`,
`DeliverableNeverWaits`, and `ChainDelivers`: the chain implements `OrderedDelivery`
(`DeliversInOrder`). `ChainInv` needs that the last message is the highest delivered one
(`LatestIsHighest`); the facts about the loop of the code (`ConsumedFacts`) come from
`Consume` as a set by a least counterexample. Assumed: messages are identified by
their number, numbers are positive, a predecessor is smaller. Gap filling over it:
`FillerTypeCorrect`, `GapIsOwned`, `ImplementsChain`, `FillerNoSilentLoss`,
`FillerDelivers`, `FillerAgrees` (`TasksAndGapsAgree`), `FillerDropsLast` (`DroppedAfterLastRequest`): only a task that ends
drops a gap, and with 'full' only the gap's own, because one that was aborted waits for a gap that is no longer open.
`FillerInv` adds that tasks lie behind the chain's end (`TasksAreBehind`) and that no
task has made more requests than it may (`RequestsLeft`). That a drop is a step of the chain is not
immediate: the code reads `lastOrderedMsg!` there, and only the invariant says that it is set.
The way of one message: `MessagesStayTrue` (`StreamMessagesInv`), for any number of nodes of either release and any number of readers.
`WayInv` says that what is held or sent is the original but for its version, whether it was parsed, and how the announced
key is written (`IsOriginal`), and that only what can be made is sent on; `Receives`, for each reader, that what it has checked was
so at some time since it began (`seen` is that history), and that it decrypts an object of its own (`own`).

**ConnectionsProofs.** `ConnectionsKeepInvariants` (`ConnectionsInv`) from `ServerKeepsOneSocket`, which is inductive with the pairing of
the two ends, and `ProxyEndsAgree`. The latter speaks of rest; its invariant `AgreeInv` says what leads there: one task
runs, with at most one operation a server (`GoodOps`), and `Agreed` tells for each server what it knows or will know from the leave
message, the request and the answer that are on their way. All of this is of the time in which no connection was lost and nothing
was abandoned; `EndsAgree` has these as conditions, and is false without them (section 5).

**StorageProofs.** Of a node's assignments: `StorageNeverGoesBack` (`NeverGoesBack`) with `HeardIsTrue`: an event that waits
tells what its block did. Assumed: there is a stream, and stream parts of different streams differ.
Of the storage: `NoMessageLost` (`NothingLost`) and `BucketsAgree` (`BucketsInv`), with `NextStorage` the
inductive step of `StorageInv`: `RecordsInv` (the table and the buckets in memory), `BatchesInv` (each message is
in one batch), `DataInv` (what is written went to a known bucket), `WaitingInv` (what waits
was accepted), `NothingLost`. The heap's climb on a push, and the heap rebuilt from an array with
some buckets removed, are functions of a place and are reasoned about by least counterexamples.
Of the queries, resends from a message on included, for buckets of different dates: `QueriesAreRight`
(`QueriesFind`), with `NextQueries` the step of `QueryInv`, which adds to `StorageInv`: `TimesInv` (a bucket's date is the timestamp of an accepted message), `OneBucket` (a message is in one
bucket, and does not wait for another), and as long as nothing was lost, dropped or deleted and no two buckets share
a date, `CountsAgree`: the records counted in memory, in the write under way and in the row of a bucket are its
messages. The number of messages, which adds up the rows, rests on that last part; `requestLast` counts the
messages stored, and rests on the others.
Several messages may have one reference (of different publishers or chains): `LIMIT` takes any of them (`NewestOf`).
The theorems start from an empty database; the run also starts from a filled one.

**WebRtcProofs.** `OneConnectionCounts` (`EndpointInv`), for any number of connections. Its invariant `TableInv`
adds what is on its way through the tracker (`RelayInv`): an answer was made for an offer that was sent (`Meant`), so
the connection that takes it has described itself. Each peer has nothing, or one connection object that the table, the
promise and the node's view agree with (`Holds`). `NoMessageIsStuck` (`QueueInv`), for any size of the queue:
`SendingInv` adds that while a connection is paused, there is data left in its buffer or the event that ends the pause is due
(`PauseInv`), and says of the queue that each message is in it once, in the order of its `send`, exactly as long as
it is not settled (`Once`, `InOrder`, `HasQueued`). Assumed: two peers; the limits are positive, the low mark below the high.

**SubscriptionsProofs.** `SubscriptionsSettle` (`SubscriptionsInv`): whatever is subscribed, unsubscribed and ended in
parallel, what is listed is heard and nothing is left over. The property is about states at rest; its
invariant `SessionsInv` (`SessionsAreConsistent`) says what leads there: only the newest session may run
(`NewestOnly`); a call is in one queue, of its own session, once (`CallsAreOpen`); the node's listeners are the sessions that
are up, one at most unless one was stopped while up (`ListenersAreUp`, `OneIsUp`); a session that is up although
it should not be will look again (`DownIsDue`), and once `subscribe` has ended its session is up
(`AddedIsUp`). The order of turns (`Busy`) is needed: without it a session that goes down could cut off a newer one.
Assumed: the mark of no session is no number.
`StreamsStayInOrder` (`PipelineInv`) is about the way of the messages (`MessagePipeline`), for any number of chains, messages,
subscriptions and any size of the buffers. Order alone is not inductive, nor is the absence of holes: a message that is behind must also
be behind wherever it is. `PipelineIInv` follows it from stage to stage, for the session (`SessionOK`), each consumer
(`PlainOK`, and `ResenderOK` with the chains of its own) and each buffer (`BufferOK`: if it is full, `distributeMessage` waits for it).
What a chain emits (`Goes`) is all from some number on, and what it leaves out before is the gap it gave up; that
the row of numbers it looks for has an end is shown by counting. Assumed: finitely many chains, at least one place in a
buffer, kinds of subscriptions that are disjoint. That failed messages stay out is only stated without a resend: a gap fill after one is not decrypted again.
`StreamUtilitiesGoRight` (`StreamsInv`) puts together `PipelinesStayInOrder` and `SignalsKeepPromises`, about `Pipelines`,
for any number of writers, callers of return, listeners and triggers. That a slow reader holds each writer up after one item is
proved by counting: a buffer that is written to is above its limit by those that sleep, at most
(`BufferIInv`), for a push that fills it puts its writer to sleep and a gate that opens wakes them all. That what was read goes on
where the buffer begins needs that no generator is left before both gates are locked, so `PipesIInv` has whoever awaits
the end of the buffer find it locked. For a ONCE signal, `OncePending` says that its only trigger takes the listeners over
and that whoever is still to be called, by it or late, was not called yet; for an ErrorSignal, `ErrorsTold`
says that one of the listeners has heard the error unless the first is still to be told. Assumed: finitely many writers, a
positive size of the buffer, as its constructor demands, and a mark of no error that is none. In the run only the
last item of a writer is an Error; the theorem has them anywhere.

**RegistryProofs.** `ChainViewKeepsInvariants` (`ChainViewInv`) puts together
`ChangesAreSeen`, `QueriesAreComplete` and `AssigningIsAcknowledged`; `ServicesKeepInvariants` (`ServicesInv`)
`GoneClientsHoldNothing`, `OneMinerSubscription`, `BridgeServesItsClients`, `AnswersAreWellFormed`, `ValuesAreCountedOnce` and
`KeysAreFound`. Each part has an invariant `...IInv`.
`RegistryIInv`: a read that began after a change resolved began at that change's block (`ReadsAfter`), unless its provider was
behind; for the permissions this needs that no change was under way when the read began. `Adds` follows the fields of the updates that resolved
through the updates under way, for which it matters that one that is alone is what the chain gets.
`GraphIInv`: what a query has read was there in the window of blocks its answer may be from (`QueryReads`), in the order of
the ids (`QueryOrdered`), and of what was there throughout it has all up to its last id (`QueryComplete`). A page is
any sequence of what is found that leaves out nothing before its end; that the next page goes on where the last ended is the
heart of the proof, and what the mutant of `NextPage` breaks.
`MetricsIInv`: what was recorded is the sum of the reports and the ongoing sample, as the difference of consecutive `upTo`; the
ongoing sample began when the last report ended, unless a timer was late. `KeysIInv`: what a get has to find (`floor`) is there
(`CallGood`) because a commit is never lost and migration keeps what it finds. `BridgeIInv`: each subscribed client is in a subscription or
in a call under way; without overlapping calls there is one of them (`OneForAll`). `RequestsIInv`: a body is a beginning of the one that `Body`
defines for every length.
Assumed: at least one block; ids and streams are numbers, pages have a place; finitely many calls of the key stores; the marks
are no values. The run has the same invariants on one machine at a time, the theorems on each specification by itself.

**Only model-checked.** Liveness (`LinkedInTheEnd`, `QueueDrains`, `EventuallyDelivered`, `PromisesSettle`,
`EverythingGoesOn`, `SocketsSettle`, `ProxiesAreReplaced`, `AssignmentsSettle`, `EventuallySettled`,
`ChainViewSettles`, `ServicesGoOn`): fairness and `ENABLED` are beyond TLAPS. Every invariant of the
runs is stated by a theorem.

## 5. What the checks found

Two runs expect a violation, because the code does something else than its comments say.

- `storage_ranges`: `getBucketsByTimestamp` looks for the start of a range in one bucket, the latest one
  dated up to it, "as data within one millisecond won't be divided to multiple buckets" (`BucketManager.ts:232`).
  It is divided: `findBucketId` (`:112`) goes by whether a bucket is almost full. In the trace a bucket dated 2 takes a
  message of 2 and one of 3 and is then almost full; the next message of 3 gets a bucket dated 3. A resend from 3
  looks in that bucket only and misses the first message of 3, which is acknowledged and stored. The rows of both buckets
  are in the table: `FromFindsFirst` is about buckets of different dates (`DistinctDates`).
- `node_cleanup`: `DisconnectionManager.start()` is never called (`Node.ts:199`), so a connection
  that was never a neighbour's stays open.

Found while modelling or as counterexamples to a stronger statement, and kept out of the properties or named in them:

- Gap filling: when the lookup of storage nodes throws, nobody drops the gap and what waits stays
  (`GapFiller.ts:91`); with the strategy 'light' a task aborted during its last request drops the gap that is
  open by then (`GapFiller.ts:85`).
- Instructions: retries overlap with the throttler's run although the comment promises one at a
  time (`InstructionRetryManager.ts:42`), and a retry may work with an older instruction (`:67`).
  Neighbours removed because they are too many are not instructed, which
  `tracker-algorithm.md` says; a buffered instruction may name a node that has left; with a maximum
  of 1 neighbour a joining node may never be answered. A tracker that counts a node's instructions anew, because the node
  was disconnected for it or the tracker restarted (`InstructionCounter.ts:24`), is ignored until its counter has caught up
  with the node's; so is one whose instruction was counted after unsubscribing (`InstructionThrottler.ts:43`).
  `LinkedInTheEnd` excepts such nodes (`Ahead`, `Stray`).
- Tracker connections: a late 'close' of an earlier socket makes the client forget the one that replaced it, which stays
  open (`Orphan`, excepted by `LeavesIdleTracker`), though `TrackerConnector.test.ts` says "maintains no tracker connections
  if no streams".
- Propagation: `minPropagationTargets = 0` is documented as one attempt at the neighbours of that moment
  (`Propagation.ts:21`), but the task is kept until a first send has ended or it expires, and neighbours
  that join in between get the message; the lookup returns `undefined` for tasks that expired.
- WebRTC: the handshake timer of an old connection may be the one cleared; an unknown-peer answer closes the
  current connection; `connect()` resolves before the data channel opens; a queued send
  never settles without a further connection.
- Proxies: after calls that failed while attempts of them went on, or with a connection lost in between, the leave message of a later
  call crosses the answer to an earlier request, and the two ends disagree for good (`EndsAgree` with three
  calls; hence its conditions); an accepting answer is handled after its stream part was removed, and
  `onNodeDisconnected` throws when it is gone; parallel `updateConnections` open too many; the
  server's record of a lost client stays.
- Storage: two buckets with one `date_create` overwrite each other's row (`UPDATE_BUCKET`, `BucketManager.ts:323`), so
  that the messages of one are not found; `QueriesFind` leaves them out (`DistinctDates`). A message out of order may sit in a
  bucket before the one a range starts in; what is found by time is claimed for messages in order. A message stored
  after `BatchManager.stop` is never written; a dropped batch calls none of its
  `doneCbs`; a crash between the acknowledgement and `storeBuckets` leaves sizes behind. The second
  event of a stream in one block is ignored, and the pages of one poll may be of different blocks.
- Publishing: a rotation asked for while the first rekey runs is lost; a failed publish leaves its
  reference in the chain and uses up an announcement of a key; `GroupKeyManager.fetchKey`
  may miss the key that arrives before it listens.
- Messages: two subscriptions share one object, hence decryption of a clone (`decrypt.ts:34`); a failed
  decryption of an announced key leaves plain content marked as encrypted
  (`EncryptionUtil.ts:77-88`); a message queued before the versions are known goes out in the
  default ones (`NodeToNode.ts:140-146`); `validateIsDirection` never rejects (`validations.ts:63-71`).
- Subscribing: `Subscriber.remove` does nothing for a subscription left behind by its session;
  awaiting `unsubscribe` inside `onMessage` waits for itself; failures of a resend are reported to
  nobody; a subscription nobody iterates holds up the others once 256 messages wait; a listener
  added to a `ONCE` signal while a failing trigger runs is dropped (`Signal.ts:46-48`), and `unlisten` of an
  absent one removes the last; `!triggerCount` is never true (`Pipeline.ts:173`).
- Registries: searches order by stream but page by permission id, so pages overlap or skip; a failing poll
  of the index stops the polling while its callers wait; `updateStream` clears no cache, concurrent
  `Stream.update`s lose fields; `addToStorageNode` resolves without an answer when unsubscribed
  (`Stream.ts:222-226`). A stream deleted and created again has the metadata of the second call alone.
- Plugins: `Bridge.onSubscribed` called twice at once subscribes twice (`Bridge.ts:68-86`); a websocket closed
  during its set-up leaks its subscriptions; `pTransaction` takes back what succeeded before the failed call but not
  the calls after it; stopping the miner does not unsubscribe; a plugin that fails to start leaves the others running; a
  query broken off is answered with status 200.
- Tracker HTTP: `/topology/foo` also lists `foobar`; `parseInt` accepts `1x`; an rtt of 0 counts as none;
  node connections may be 5 minutes old (`trackerHttpEndpoints.ts:61`).
- Metrics and keys: a late timer distorts the periods (`MetricsPublisher.ts:88`); a node that
  failed to start once keeps metrics from starting; two calls that open a key store at once make two, of which one is closed;
  its migration errors are ignored.

## 6. What is not modelled

Set-up and configuration, command line tools, the simulator and test tooling. Of the rest:
cryptography (a key either fits or not), the JSON schemas, the geo-IP data base, the browser
variants of connections and persistence, TLS and HTTP upgrade, logging and metrics inside
the network node, stopping a whole node, `LitProtocolFacade`, the one-way (proxy) neighbours of
message propagation, and the generator helpers of the client that only tests use. Contracts, Cassandra,
SQLite, `ws`, `node-datachannel` and MQTT are external: the models have what the code relies on.

Messages are lost with their connection, never alone, and not reordered within one, as TCP and
ordered data channels do; between connections every order occurs. Waits are abstracted to "has
ended" and "has not": a timer may fire at any point after it was started, so that no property depends on durations.

## 7. What the plan has left

1. Stopping a node and a tracker, which every component leaves out.
2. A composition of the gap filler with the storage of a node, whose answers are now any subset.
