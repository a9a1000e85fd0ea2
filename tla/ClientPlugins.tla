--------------------------- MODULE ClientPlugins ---------------------------
(***************************************************************************)
(* The websocket plugin of the broker: WebsocketServer.ts with a           *)
(* SubscribeConnection, the ping sender of Connection.ts, and pTransaction,*)
(* by which also the subscriber plugin makes its subscriptions.            *)
(*                                                                         *)
(* A connection subscribes to several partitions at once before it looks at*)
(* its socket, which may be gone by then; some of the subscriptions may    *)
(* fail, each at any time.                                                 *)
(***************************************************************************)
EXTENDS Integers, FiniteSets, Sequences, SequencesExt

CONSTANT LastPartition  \* the partitions are 0 .. LastPartition

ASSUME WebsocketAssumption == LastPartition \in Nat

VARIABLES
  socket,   \* "none", "refused", "open", "closed"
  init,     \* Connection.init: "none", "subscribing", "failed", "done"
  subscribe,  \* the subscribe call of each partition: "pending", "resolved", "rejected"
  results,  \* pTransaction: the calls it has awaited
  alive,    \* partitions with a subscription in the client
  pinging,  \* setState of the ping sender: "off", "active", "idle"
  early     \* history: the socket closed before init was done

websocketVars == <<socket, init, subscribe, results, alive, pinging, early>>

WsPartition == 0 .. LastPartition

WebsocketInit ==
  /\ socket = "none" /\ init = "none"
  /\ subscribe = [p \in WsPartition |-> "pending"]
  /\ results = {} /\ alive = {} /\ pinging = "off" /\ early = FALSE

-----------------------------------------------------------------------------
(* Accepting and closing.                                                  *)

\* What an upgrade request is answered: 400 for a malformed path or query, 401 without
\* and 403 with a wrong key if keys are configured (isValidAuthentication).
UpgradeStatus(wellFormed, key, keys) ==
  CASE ~wellFormed -> 400
    [] wellFormed /\ keys # {} /\ key = "none" -> 401
    [] wellFormed /\ keys # {} /\ key # "none" /\ key \notin keys -> 403
    [] OTHER -> 101

\* start, on "upgrade" and "connection": a connection that is accepted subscribes.
Upgrade ==
  /\ socket = "none"
  /\ \E wellFormed \in BOOLEAN, key \in {"none", "right", "wrong"}, keys \in {{}, {"right"}} :
       IF UpgradeStatus(wellFormed, key, keys) = 101
       THEN socket' = "open" /\ init' = "subscribing"
       ELSE socket' = "refused" /\ UNCHANGED init
  /\ UNCHANGED <<subscribe, results, alive, pinging, early>>

\* The client goes, or stop() terminates it.  The listeners of the connection, unsubAll
\* and the clearing of the timer, are there only after init.
SocketCloses ==
  /\ socket = "open"
  /\ socket' = "closed" /\ early' = (init = "subscribing")
  /\ IF init = "done" THEN alive' = {} /\ pinging' = "off" ELSE UNCHANGED <<alive, pinging>>
  /\ UNCHANGED <<init, subscribe, results>>

-----------------------------------------------------------------------------
(* SubscribeConnection.init.                                               *)

\* streamrClient.subscribe of a partition settles.
SubscribeSettles(p) ==
  /\ init # "none" /\ subscribe[p] = "pending"
  /\ \/ subscribe' = [subscribe EXCEPT ![p] = "resolved"] /\ alive' = alive \cup {p}
     \/ subscribe' = [subscribe EXCEPT ![p] = "rejected"] /\ UNCHANGED alive
  /\ UNCHANGED <<socket, init, results, pinging, early>>

\* Mutant: nothing is taken back.
Transaction_NoRollback ==
  /\ init = "subscribing" /\ results # WsPartition
  /\ LET p == Cardinality(results)
     IN  \/ subscribe[p] = "resolved" /\ results' = results \cup {p}
            /\ UNCHANGED <<socket, init, alive>>
         \/ subscribe[p] = "rejected" /\ init' = "failed" /\ UNCHANGED <<results, alive>>
            /\ socket' = "closed"
  /\ UNCHANGED <<subscribe, pinging, early>>

\* pTransaction awaits the calls one by one; at the first that fails it takes back the
\* ones before it, not the ones after it.  The server then closes the socket.
Transaction ==
  /\ init = "subscribing" /\ results # WsPartition
  /\ LET p == Cardinality(results)
     IN  \/ subscribe[p] = "resolved" /\ results' = results \cup {p}
            /\ UNCHANGED <<socket, init, alive>>
         \/ subscribe[p] = "rejected" /\ init' = "failed" /\ UNCHANGED results
            /\ alive' = alive \ results /\ socket' = "closed"
  /\ UNCHANGED <<subscribe, pinging, early>>

\* init is done: the listeners are added and the ping sender starts with a ping.
InitDone ==
  /\ init = "subscribing" /\ results = WsPartition
  /\ init' = "done" /\ pinging' = "idle"
  /\ UNCHANGED <<socket, subscribe, results, alive, early>>

-----------------------------------------------------------------------------
(* addPingSender.                                                          *)

\* A message, ping or pong of the client.
SocketHeard ==
  /\ socket = "open" /\ init = "done"
  /\ pinging' = "active"
  /\ UNCHANGED <<socket, init, subscribe, results, alive, early>>

\* The timer fires: the client is pinged, or was silent for too long and is terminated.
PingTimer ==
  \/ /\ pinging = "active"
     /\ pinging' = "idle"
     /\ UNCHANGED <<socket, init, subscribe, results, alive, early>>
  \/ /\ pinging = "idle"
     /\ pinging' = "off"
     /\ socket' = "closed"
     /\ alive' = IF socket = "open" THEN {} ELSE alive
     /\ UNCHANGED <<init, subscribe, results, early>>

-----------------------------------------------------------------------------
WebsocketNext ==
  \/ Upgrade \/ SocketCloses
  \/ \E p \in WsPartition : SubscribeSettles(p)
  \/ Transaction \/ InitDone
  \/ SocketHeard \/ PingTimer

WebsocketSpec == WebsocketInit /\ [][WebsocketNext]_websocketVars

WebsocketFairness == WF_websocketVars(PingTimer)

-----------------------------------------------------------------------------
(* Properties.                                                             *)

\* A client that is gone holds nothing, unless it went while it was being subscribed.
GoneHoldsNothing == socket = "closed" /\ init = "done" /\ ~early => alive = {}

\* A connection that could not subscribe to all its partitions leaves no subscription
\* of those that were awaited before the failure.
FailureTakesBack == init = "failed" => alive \cap results = {}

WebsocketInv == GoneHoldsNothing /\ FailureTakesBack

\* A client that stays silent is disconnected.
SilentAreDropped ==
  []<>(init # "done" \/ socket = "closed" \/ pinging = "active")

-----------------------------------------------------------------------------
(***************************************************************************)
(* The MQTT plugin of the broker for one topic: Bridge.ts, and MqttServer  *)
(* as the broker library calls it.                                         *)
(*                                                                         *)
(* The library mirrors what its clients publish to the others and reports  *)
(* their subscriptions one after another, but the bridge answers them after*)
(* awaits, so that calls overlap.                                          *)
(***************************************************************************)
CONSTANTS
  Client,     \* the MQTT clients
  MaxSent,    \* bound: messages each client publishes
  MaxHeld     \* bound: the subscriptions

ASSUME BridgeAssumption == MaxSent \in Nat /\ MaxHeld \in Nat

VARIABLES
  interested,   \* clients that are subscribed in the MQTT server
  subscribing,  \* clients whose streamrClient.subscribe is under way, in order
  subscriptions,  \* the clientIds of each subscription: all of an id go at once
  sent,         \* the messages of each client: "publishing", "arrived", "resolved"
  publishMessageChains,  \* clients of which a message was published
  echoed,       \* history: messages the bridge gave to the MQTT server again
  overlapped    \* history: a call came while a subscribe call was under way

bridgeVars == <<interested, subscribing, subscriptions, sent, publishMessageChains,
                echoed, overlapped>>

BridgeInit ==
  /\ interested = {} /\ subscribing = <<>> /\ subscriptions = <<>>
  /\ sent = [c \in Client |-> <<>>] /\ publishMessageChains = {}
  /\ echoed = {} /\ overlapped = FALSE

-----------------------------------------------------------------------------
(* Subscriptions.                                                          *)

\* onSubscribed: the subscription of the stream part is shared, once it is there.
OnSubscribed(c) ==
  /\ c \notin interested
  /\ interested' = interested \cup {c}
  /\ overlapped' = (overlapped \/ subscribing # <<>>)
  /\ IF subscriptions = <<>>
     THEN /\ Len(subscribing) < MaxHeld
          /\ subscribing' = Append(subscribing, c) /\ UNCHANGED subscriptions
     ELSE subscriptions' = [subscriptions EXCEPT ![1] = @ \cup {c}] /\ UNCHANGED subscribing
  /\ UNCHANGED <<sent, publishMessageChains, echoed>>

Without(s, i) == [j \in 1 .. Len(s) - 1 |-> IF j < i THEN s[j] ELSE s[j + 1]]

\* streamrClient.subscribe resolves.
Subscribed ==
  /\ Len(subscriptions) < MaxHeld
  /\ \E i \in DOMAIN subscribing :
       /\ subscriptions' = Append(subscriptions, {subscribing[i]})
       /\ subscribing' = Without(subscribing, i)
  /\ UNCHANGED <<interested, sent, publishMessageChains, echoed, overlapped>>

\* onUnsubscribed, also when the client disconnects: getSubscription finds the first
\* subscription of the stream part, which ends with its last client.
OnUnsubscribed(c) ==
  /\ c \in interested
  /\ interested' = interested \ {c}
  /\ overlapped' = (overlapped \/ subscribing # <<>>)
  /\ subscriptions' =
       IF subscriptions = <<>> THEN <<>>
       ELSE IF subscriptions[1] \subseteq {c} THEN Tail(subscriptions)
       ELSE [subscriptions EXCEPT ![1] = @ \ {c}]
  /\ UNCHANGED <<subscribing, sent, publishMessageChains, echoed>>

-----------------------------------------------------------------------------
(* Messages.                                                               *)

\* onMessageReceived: published with the client's id as the message chain.
OnMessageReceived(c) ==
  /\ Len(sent[c]) < MaxSent
  /\ sent' = [sent EXCEPT ![c] = Append(@, [step |-> "publishing", arrived |-> FALSE,
                                            known |-> c \in publishMessageChains])]
  /\ UNCHANGED <<interested, subscribing, subscriptions, publishMessageChains, echoed, overlapped>>

\* The publish call resolves, and the message chain is known from now on.
Published(c, i) ==
  /\ sent[c][i].step = "publishing"
  /\ sent' = [sent EXCEPT ![c][i].step = "resolved"]
  /\ publishMessageChains' = publishMessageChains \cup {c}
  /\ UNCHANGED <<interested, subscribing, subscriptions, echoed, overlapped>>

\* The message comes back from the client's own node, also before publish resolves:
\* each subscription gives it to the MQTT server, unless its chain is known.
ComesBack(c, i) ==
  /\ ~sent[c][i].arrived
  /\ sent' = [sent EXCEPT ![c][i].arrived = TRUE]
  /\ echoed' = IF c \notin publishMessageChains /\ subscriptions # <<>>
               THEN echoed \cup {<<c, i>>} ELSE echoed
  /\ UNCHANGED <<interested, subscribing, subscriptions, publishMessageChains, overlapped>>

-----------------------------------------------------------------------------
BridgeNext ==
  \/ Subscribed
  \/ \E c \in Client :
       \/ OnSubscribed(c) \/ OnUnsubscribed(c) \/ OnMessageReceived(c)
       \/ \E i \in DOMAIN sent[c] : Published(c, i) \/ ComesBack(c, i)

BridgeSpec == BridgeInit /\ [][BridgeNext]_bridgeVars

-----------------------------------------------------------------------------
(* Properties.                                                             *)

\* A client that is subscribed is served: it holds a subscription, or one is coming.
SubscribersAreServed ==
  \A c \in interested : c \in ToSet(subscribing) \/ \E i \in DOMAIN subscriptions : c \in subscriptions[i]

\* Without overlapping calls nobody is served twice and no subscription outlives its
\* clients: there is one subscription, of the clients that are subscribed.
SharedByItsClients ==
  ~overlapped /\ subscribing = <<>> =>
    \/ subscriptions = <<>> /\ interested = {}
    \/ Len(subscriptions) = 1 /\ subscriptions[1] = interested

\* Of what its clients publish the bridge returns only what came back before it had
\* published anything of that client.
FirstOnlyEchoes == \A m \in echoed : ~sent[m[1]][m[2]].known

BridgeInv == SubscribersAreServed /\ SharedByItsClients /\ FirstOnlyEchoes
=============================================================================
