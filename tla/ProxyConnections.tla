--------------------------- MODULE ProxyConnections ---------------------------
(***************************************************************************)
(* Proxied stream parts: a node that gets a stream part through proxies    *)
(* (network/src/logic/proxy/ProxyStreamConnectionClient.ts) and the nodes  *)
(* that serve it (ProxyStreamConnectionServer.ts), with what they keep in  *)
(* StreamPartManager.ts and the messages of NodeToNode.ts.                 *)
(*                                                                         *)
(* A task is a call of updateConnections, by setProxies or by the retry    *)
(* after a disconnection.  Its awaits end one by one (ops): leave messages *)
(* to be sent, and attempts, each made of the handshake that is waited for *)
(* and the connection that is made for it.                                 *)
(***************************************************************************)
EXTENDS Integers, Sequences, FiniteSets

CONSTANTS
  Server,      \* the nodes that accept proxy connections
  Definition,  \* the arguments of setProxies: [nodes, direction, count]
  NoProxies,   \* no definition
  MaxTasks,    \* bound: the tasks at a time
  MaxCalls,    \* bound: the calls of setProxies
  MaxLosses    \* bound: the connections lost, and the attempts that fail

ASSUME ProxyAssumption ==
  /\ MaxTasks \in Nat /\ MaxCalls \in Nat /\ MaxLosses \in Nat
  /\ \A d \in Definition : d.nodes \subseteq Server /\ d.direction \in {"publish", "subscribe"}
  /\ NoProxies \notin Definition

VARIABLES
  definition, calls, \* the definition, and the calls of setProxies so far
  behindProxy,       \* the stream part is set up
  proxies,           \* connections of the client: the direction of each
  oneway,            \* inOnly and outOnly: pairs of a server and a direction
  tasks,             \* by number: the phase, and whether it is retried
  ops,               \* what the tasks wait for
  immediates,        \* disconnections to be handled by setImmediate
  serving,           \* the servers that have the stream part set up
  records, clients,  \* at each server: its connections, and its one-way
                     \* neighbours, as the directions of the client
  joined, requests, replies,  \* the connections, and the messages on them
  losses,
  abandoned  \* history: an attempt was left behind by a call that failed

proxyVars == <<definition, calls, behindProxy, proxies, oneway, tasks, ops, immediates,
               serving, records, clients, joined, requests, replies, losses, abandoned>>
clientSide == <<definition, calls, behindProxy, proxies, oneway, tasks, ops, immediates>>
serverSide == <<serving, records, clients>>
network == <<joined, requests, replies>>
history == <<losses, abandoned>>

Unused == [phase |-> "none", retried |-> FALSE]

-----------------------------------------------------------------------------
(* The client's tasks.                                                     *)

Restricted(f, S) == [s \in DOMAIN f \cap S |-> f[s]]

\* closeConnection has something to do.
Closable(s) == s \in DOMAIN proxies /\ \E d \in {"publish", "subscribe"} : <<s, d>> \in oneway

LeaveOp(t, s) == [task |-> t, kind |-> "leave", server |-> s, direction |-> "any",
                  handshake |-> "none", connects |-> FALSE]
OpenOp(t, s, d) == [task |-> t, kind |-> "open", server |-> s, direction |-> d,
                    handshake |-> "waiting", connects |-> TRUE]

\* An op its task has to wait for.
Awaited(o) == o.kind = "leave" \/ o.handshake = "waiting" \/ o.connects

\* A task whose Promise.all rejects: what it waits for goes on without it.  The
\* retry loop starts it again later.
AfterFailure(T) ==
  [t \in DOMAIN tasks |->
     IF t \notin T THEN tasks[t]
     ELSE IF tasks[t].retried THEN [tasks[t] EXCEPT !.phase = "delay"] ELSE Unused]

\* The ops when the tasks T fail; those that are over are gone.
FailAll(set, T) ==
  {[o EXCEPT !.task = IF o.task \in T THEN 0 ELSE o.task] : o \in {x \in set : Awaited(x)}}

\* The tasks T, if any, fail when the ops have become these.
Fail(set, T) ==
  /\ ops' = FailAll(set, T)
  /\ tasks' = AfterFailure(T)
  /\ abandoned' = (abandoned \/ \E o \in set : Awaited(o) /\ o.task \in T)

\* setProxies up to getUserId.  The application is told when another call may
\* not be made; the stream part is set up if there are nodes.
SetProxies(t, d) ==
  /\ calls < MaxCalls /\ tasks[t].phase = "none"
  /\ \A u \in DOMAIN tasks : tasks[u].phase = "none" \/ tasks[u].retried
  /\ calls' = calls + 1
  /\ behindProxy' = (behindProxy \/ d.nodes # {})
  /\ tasks' = [tasks EXCEPT ![t] = [phase |-> "user", retried |-> FALSE, arguments |-> d]]
  /\ UNCHANGED <<definition, proxies, oneway, ops, immediates, serverSide, network, history>>

\* getInvalidConnections
Invalid(conns, d) == {s \in DOMAIN conns : s \in d.nodes => conns[s] # d.direction}

\* updateConnections up to its first await: the invalid connections are closed.
Updates(t, conns, d, retried) ==
  /\ tasks' = [tasks EXCEPT ![t] = [phase |-> "close", retried |-> retried]]
  /\ ops' = ops \cup {LeaveOp(t, s) : s \in {x \in Invalid(conns, d) : Closable(x)}}

\* The user id is there: the definition is set, and the connections updated.
Defined(t) ==
  /\ tasks[t].phase = "user"
  /\ definition' = tasks[t].arguments
  /\ Updates(t, proxies, tasks[t].arguments, FALSE)
  /\ UNCHANGED <<calls, behindProxy, proxies, oneway, immediates, serverSide, network, history>>

Busy(t) == \E o \in ops : o.task = t

\* Then connections are opened, or closed at random, up to the count.
Balance(t) ==
  /\ tasks[t].phase = "close" /\ ~Busy(t)
  /\ LET missing == definition.count - Cardinality(DOMAIN proxies)
         others  == definition.nodes \ DOMAIN proxies
     IN  \/ /\ missing > 0
            /\ \E S \in SUBSET others :
                 /\ Cardinality(S) = missing \/ (S = others /\ Cardinality(S) < missing)
                 /\ ops' = ops \cup {OpenOp(t, s, definition.direction) : s \in S}
         \/ /\ missing < 0
            /\ \E S \in SUBSET DOMAIN proxies :
                 /\ Cardinality(S) = -missing
                 /\ ops' = ops \cup {LeaveOp(t, s) : s \in {x \in S : Closable(x)}}
         \/ missing = 0 /\ UNCHANGED ops
  /\ tasks' = [tasks EXCEPT ![t].phase = "balance"]
  /\ UNCHANGED <<definition, calls, behindProxy, proxies, oneway, immediates,
                 serverSide, network, history>>

\* The task is done.
Done(t) ==
  /\ tasks[t].phase = "balance" /\ ~Busy(t)
  /\ tasks' = [tasks EXCEPT ![t] = Unused]
  /\ UNCHANGED <<definition, calls, behindProxy, proxies, oneway, ops, immediates,
                 serverSide, network, history>>

\* No attempt or message is under way.
QuietProxies ==
  ops = {} /\ immediates = {} /\ \A s \in Server : requests[s] = <<>> /\ replies[s] = <<>>

\* The delay of retry, longer than handshakes take, is over.
RetryDelay(t) ==
  /\ tasks[t].phase = "delay" /\ QuietProxies
  /\ Updates(t, proxies, definition, TRUE)
  /\ UNCHANGED <<definition, calls, behindProxy, proxies, oneway, immediates,
                 serverSide, network, history>>

-----------------------------------------------------------------------------
(* What the tasks wait for.                                                *)

\* removeConnection of the client: with the last one, if no nodes are defined,
\* the stream part goes, too.
ConnectionRemoved(s) ==
  /\ proxies' = Restricted(proxies, Server \ {s})
  /\ oneway' = {x \in oneway : x[1] # s}
  /\ behindProxy' = (behindProxy /\ (definition.nodes # {} \/ proxies' # << >>))

\* The leave message is sent, or cannot be.  Only the closing of invalid
\* connections fails with it.
Leaves(o) ==
  /\ o \in ops /\ o.kind = "leave"
  /\ IF o.server \in joined
     THEN /\ requests' = [requests EXCEPT ![o.server] = Append(@, "leave")]
          /\ ops' = ops \ {o}
          /\ ConnectionRemoved(o.server)
          /\ UNCHANGED <<tasks, abandoned>>
     ELSE /\ Fail(ops \ {o}, IF o.task # 0 /\ tasks[o.task].phase = "close" THEN {o.task} ELSE {})
          /\ UNCHANGED <<requests, proxies, oneway, behindProxy>>
  /\ UNCHANGED <<definition, calls, immediates, serverSide, joined, replies, losses>>

\* connectAndHandshake: connected, with a signalling session if need be, and the
\* request is sent.
Requests(o) ==
  /\ o \in ops /\ o.connects
  /\ joined' = joined \cup {o.server}
  /\ requests' = [requests EXCEPT ![o.server] = Append(@, o.direction)]
  /\ ops' = FailAll((ops \ {o}) \cup {[o EXCEPT !.connects = FALSE]}, {})
  /\ UNCHANGED <<definition, calls, behindProxy, proxies, oneway, tasks, immediates,
                 serverSide, replies, history>>

\* An attempt that waits for the handshake.
WaitsFor(o, s, d) ==
  o.kind = "open" /\ o.server = s /\ o.direction = d /\ o.handshake = "waiting"

\* CONNECTION_REJECTED: every handshake with this server and direction fails.
HandshakeRejected(set, s, d) ==
  Fail({IF WaitsFor(o, s, d) THEN [o EXCEPT !.handshake = "failed"] ELSE o : o \in set},
       {o.task : o \in {x \in set : WaitsFor(x, s, d)}} \ {0})

\* The connection cannot be made.
AttemptFails(o) ==
  /\ o \in ops /\ o.connects /\ losses < MaxLosses
  /\ losses' = losses + 1
  /\ HandshakeRejected((ops \ {o}) \cup {[o EXCEPT !.connects = FALSE]}, o.server, o.direction)
  /\ UNCHANGED <<definition, calls, behindProxy, proxies, oneway, immediates, serverSide, network>>

\* No answer in time.
HandshakeTimeout(o) ==
  /\ o \in ops /\ o.handshake = "waiting" /\ ~o.connects
  /\ requests[o.server] = <<>> /\ replies[o.server] = <<>>
  /\ Fail((ops \ {o}) \cup {[o EXCEPT !.handshake = "failed"]}, {o.task} \ {0})
  /\ UNCHANGED <<definition, calls, behindProxy, proxies, oneway, immediates,
                 serverSide, network, losses>>

Directed(f, s, d) == [m \in DOMAIN f \cup {s} |-> IF m = s THEN d ELSE f[m]]

\* processHandshakeResponse.  An accepted one for a stream part that is gone
\* throws after the connection was noted.  A response of a later connection comes
\* after the turn in which the loss of an earlier one is handled.
Response(s) ==
  /\ replies[s] # <<>> /\ s \notin immediates
  /\ replies' = [replies EXCEPT ![s] = Tail(@)]
  /\ LET r == Head(replies[s])
     IN  IF r.accepted
         THEN /\ proxies' = Directed(proxies, s, r.direction)
              /\ oneway' = IF behindProxy THEN oneway \cup {<<s, r.direction>>} ELSE oneway
              /\ ops' = IF behindProxy
                        THEN FailAll({IF WaitsFor(o, s, r.direction)
                                      THEN [o EXCEPT !.handshake = "accepted"] ELSE o : o \in ops},
                                     {})
                        ELSE ops
              /\ UNCHANGED <<tasks, abandoned>>
         ELSE /\ HandshakeRejected(ops, s, r.direction)
              /\ UNCHANGED <<proxies, oneway>>
  /\ UNCHANGED <<definition, calls, behindProxy, immediates, serverSide, joined, requests, losses>>

-----------------------------------------------------------------------------
(* Disconnections, and the servers.                                        *)

\* The connection is lost: the server drops the client, whose connections it
\* keeps on record; the client handles it in a later turn of its loop.
ConnectionLost(s) ==
  /\ s \in joined /\ losses < MaxLosses
  /\ losses' = losses + 1
  /\ joined' = joined \ {s}
  /\ requests' = [requests EXCEPT ![s] = <<>>] /\ replies' = [replies EXCEPT ![s] = <<>>]
  /\ clients' = [clients EXCEPT ![s] = {}]
  /\ immediates' = IF behindProxy THEN immediates \cup {s} ELSE immediates
  /\ UNCHANGED <<definition, calls, behindProxy, proxies, oneway, tasks, ops, serving, records,
                 abandoned>>

\* Mutant: there is no retry.
Disconnected_NoRetry(s) ==
  /\ s \in immediates
  /\ immediates' = immediates \ {s}
  /\ IF behindProxy THEN ConnectionRemoved(s) /\ UNCHANGED tasks
     ELSE /\ proxies' = Restricted(proxies, Server \ {s})
          /\ UNCHANGED <<behindProxy, oneway, tasks>>
  /\ UNCHANGED <<definition, calls, ops, serverSide, network, history>>

\* onNodeDisconnected: the connection goes and the others are updated, until it
\* works.  With the stream part gone it throws.
Disconnected(s) ==
  /\ s \in immediates
  /\ immediates' = immediates \ {s}
  /\ IF behindProxy
     THEN /\ ConnectionRemoved(s)
          /\ \E t \in DOMAIN tasks :
               /\ tasks[t].phase = "none"
               /\ \A u \in 1 .. t - 1 : tasks[u].phase # "none"
               /\ Updates(t, Restricted(proxies, Server \ {s}), definition, TRUE)
     ELSE /\ proxies' = Restricted(proxies, Server \ {s})
          /\ UNCHANGED <<behindProxy, oneway, tasks, ops>>
  /\ UNCHANGED <<definition, calls, serverSide, network, history>>

\* respondToProxyConnectionRequest
Answer(s, accepted, direction) ==
  replies' = [replies EXCEPT ![s] = Append(@, [accepted |-> accepted, direction |-> direction])]

\* processHandshakeRequest
Request(s) ==
  /\ requests[s] # <<>> /\ Head(requests[s]) # "leave"
  /\ LET d == Head(requests[s])
     IN  /\ requests' = [requests EXCEPT ![s] = Tail(@)]
         /\ Answer(s, s \in serving, d)
         /\ IF s \in serving
            THEN /\ records' = [records EXCEPT ![s] = {d}]
                 /\ clients' = [clients EXCEPT ![s] = @ \cup {d}]
            ELSE UNCHANGED <<records, clients>>
  /\ UNCHANGED <<clientSide, serving, joined, history>>

\* Mutant: the one-way neighbour stays.
LeaveRequest_KeepsNeighbor(s) ==
  /\ requests[s] # <<>> /\ Head(requests[s]) = "leave"
  /\ requests' = [requests EXCEPT ![s] = Tail(@)]
  /\ records' = [records EXCEPT ![s] = {}]
  /\ UNCHANGED <<clientSide, clients, serving, joined, replies, history>>

\* processLeaveRequest
LeaveRequest(s) ==
  /\ requests[s] # <<>> /\ Head(requests[s]) = "leave"
  /\ requests' = [requests EXCEPT ![s] = Tail(@)]
  /\ records' = [records EXCEPT ![s] = {}]
  /\ clients' = IF records[s] # {} THEN [clients EXCEPT ![s] = {}] ELSE clients
  /\ UNCHANGED <<clientSide, serving, joined, replies, history>>

\* The server subscribes to the stream part; before the first call is as good as
\* from the beginning.
Serves(s) ==
  /\ s \notin serving /\ calls > 0
  /\ serving' = serving \cup {s}
  /\ UNCHANGED <<clientSide, records, clients, network, history>>

-----------------------------------------------------------------------------
ProxyInit ==
  /\ definition = NoProxies /\ calls = 0 /\ behindProxy = FALSE
  /\ proxies = << >> /\ oneway = {} /\ immediates = {}
  /\ tasks = [t \in 1 .. MaxTasks |-> Unused] /\ ops = {}
  /\ serving \in SUBSET Server
  /\ records = [s \in Server |-> {}] /\ clients = [s \in Server |-> {}]
  /\ joined = {} /\ losses = 0 /\ abandoned = FALSE
  /\ requests = [s \in Server |-> <<>>] /\ replies = [s \in Server |-> <<>>]

TaskStep(t) == Defined(t) \/ Balance(t) \/ Done(t) \/ RetryDelay(t)
OpStep(o) == Leaves(o) \/ Requests(o) \/ HandshakeTimeout(o)
MessageStep(s) == Response(s) \/ Request(s) \/ LeaveRequest(s) \/ Disconnected(s)

ProxyNext ==
  \/ \E t \in DOMAIN tasks : \/ \E d \in Definition : SetProxies(t, d)
                             \/ TaskStep(t)
  \/ \E o \in ops : OpStep(o) \/ AttemptFails(o)
  \/ \E s \in Server : MessageStep(s) \/ ConnectionLost(s) \/ Serves(s)

\* The loops of both ends go on, and servers get the stream part in the end.
ProxyFairness ==
  /\ \A t \in 1 .. MaxTasks : WF_proxyVars(TaskStep(t))
  /\ WF_proxyVars(\E o \in ops : OpStep(o))
  /\ \A s \in Server : WF_proxyVars(MessageStep(s)) /\ WF_proxyVars(Serves(s))

ProxySpec == ProxyInit /\ [][ProxyNext]_proxyVars /\ ProxyFairness

-----------------------------------------------------------------------------
(* Properties.                                                             *)

Wanted == IF definition = NoProxies THEN 0 ELSE definition.count

\* Every one-way neighbour of the client is a connection it can close.
NeighborsAreProxies == \A x \in oneway : x[1] \in DOMAIN proxies

\* Every one-way neighbour of a server is on its record of connections, so that a
\* leave message removes it.
ServerNeighborsRecorded == \A s \in Server : clients[s] # {} => records[s] # {}

\* A lost proxy is replaced: the retries do not end before there are as many
\* connections as are asked for, if the application does not call meanwhile.
ProxiesAreReplaced ==
  (/\ immediates # {} /\ behindProxy /\ calls = MaxCalls
   /\ \A t \in DOMAIN tasks : tasks[t].phase = "none")
    ~> (~behindProxy \/ Cardinality(DOMAIN proxies) >= Wanted)

\* No task, message or disconnection is under way.
ProxyAtRest == QuietProxies /\ \A t \in DOMAIN tasks : tasks[t].phase = "none"

\* Calls that are awaited leave client and servers in agreement who is connected,
\* and in which direction, if none of them fails while an attempt of it goes on.
\* They may not after that, or with a connection lost in between: a leave message of
\* a later call, or of the retry, crosses the response to the request that was made.
EndsAgree ==
  ProxyAtRest /\ losses = 0 /\ ~abandoned =>
    \A s \in Server : clients[s] = {d \in {"publish", "subscribe"} : <<s, d>> \in oneway}

\* "will not connect above set target limit" (a test of proxy connections): at
\* rest there are no more connections than were asked for.
NotAboveLimit ==
  ProxyAtRest => Cardinality(DOMAIN proxies) <= Wanted
=============================================================================
