----------------------------- MODULE MCRegistry ------------------------------
(* The registry, the index, the assigning of storage nodes, the broker with its    *)
(* plugins and requests, the metrics and the stores of keys, one of them moving    *)
(* in each behaviour.                                                              *)
(* Of the registry one cache is used, beside two of the calls that change the      *)
(* stream; of the queries two at a time.                                           *)
EXTENDS StreamRegistry, TheGraph, ClientPlugins, Broker, Metrics, KeyStores

VARIABLES machine, scene

Scenes ==
  [cache : {"stream"}, calls : {{"update", "again"}, {"update", "delete"}}]
  \cup [cache : {"publisher"}, calls : {{"grant", "set"}, {"update", "grant"}}]
  \cup [cache : {"publicSubscribe"}, calls : {{"grant", "set"}}]

MCStreamOf == [e \in Entity |-> IF e = 2 THEN 1 ELSE 2]

allVars == <<registryVars, graphVars, assigningVars, websocketVars, brokerVars,
             bridgeVars, requestVars, metricsVars, keyVars, machine, scene>>

MCInit ==
  /\ RegistryInit /\ GraphInit /\ AssigningInit /\ WebsocketInit /\ BrokerInit
  /\ BridgeInit /\ RequestsInit /\ MetricsInit /\ KeysInit
  /\ machine \in {"registry", "graph", "assigning", "websocket", "broker", "bridge", "requests",
                  "metrics", "keys"}
  /\ IF machine = "registry" THEN scene \in Scenes
     ELSE scene = [cache |-> "none", calls |-> {}] /\ ~blocks[1].exists
  /\ machine # "assigning" => assigned = FALSE
  /\ machine # "metrics" => kind = "count"
  /\ machine # "keys" => ~file

\* A stream that was updated and deleted is created anew in one scene.
InScene ==
  /\ scene.calls # {"update", "delete"} => Len(blocks') <= 3
  /\ \A c \in Cache : c # scene.cache => cache'[c] = NoEntry
  /\ \A k \in Call : k \notin scene.calls => changing'[k] = Idle

Rest(m) ==
  /\ m = "registry" \/ UNCHANGED registryVars
  /\ m = "graph" \/ UNCHANGED graphVars
  /\ m = "assigning" \/ UNCHANGED assigningVars
  /\ m = "websocket" \/ UNCHANGED websocketVars
  /\ m = "broker" \/ UNCHANGED brokerVars
  /\ m = "bridge" \/ UNCHANGED bridgeVars
  /\ m = "requests" \/ UNCHANGED requestVars
  /\ m = "metrics" \/ UNCHANGED metricsVars
  /\ m = "keys" \/ UNCHANGED keyVars
  /\ UNCHANGED <<machine, scene>>

MCNext ==
  /\ Rest(machine)
  /\ \/ machine = "registry" /\ RegistryNext /\ InScene
     \/ machine = "graph" /\ GraphNext
        /\ (query'["search"].step = "none" \/ query'["assignments"].step = "none")
     \/ machine = "assigning" /\ AssigningNext
     \/ machine = "websocket" /\ WebsocketNext
     \/ machine = "broker" /\ BrokerNext
     \/ machine = "bridge" /\ BridgeNext
     \/ machine = "requests" /\ RequestsNext
     \/ machine = "metrics" /\ MetricsNext
     \/ machine = "keys" /\ KeysNext

MCSpec == MCInit /\ [][MCNext]_allVars
          /\ RegistryFairness /\ GraphFairness /\ WebsocketFairness /\ BrokerFairness
          /\ KeysFairness

-----------------------------------------------------------------------------
\* The invariants of the parts that concern the client's view of the chain ...
ChainViewInv == RegistryInv /\ GraphInv /\ AssigningInv

\* ... and those of the broker's plugins, of the metrics and of the stores of keys.
ServicesInv == WebsocketInv /\ BrokerInv /\ BridgeInv /\ RequestsInv /\ MetricsInv /\ KeyStoresInv

\* What is stale expires and queries end.
ChainViewSettles ==
  []<>(/\ \A c \in Cache : ~Stale(c)
       /\ \A q \in Query : query[q].step \notin {"waiting", "paging"}
       /\ polls = [asking |-> 0, sleeping |-> 0])

\* Silent clients are dropped, the miner subscribes again, and the stores of keys answer.
ServicesGoOn ==
  /\ []<>(/\ init # "done" \/ socket = "closed" \/ pinging = "active"
          /\ miners > 0 \/ broker # "started" \/ mined = MaxMined)
  /\ KeyCallsSettle
=============================================================================
