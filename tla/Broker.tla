------------------------------- MODULE Broker --------------------------------
(***************************************************************************)
(* The broker process: broker.ts with its plugins and HTTP server, and the *)
(* BrubeckMinerPlugin, which keeps a subscription and claims rewards.      *)
(*                                                                         *)
(* The requests the broker answers over HTTP: the data queries of the      *)
(* storage plugin, dataQueryEndpoint.ts, whose answer is streamed, and the *)
(* publish endpoint of the HTTP plugin with PayloadFormat.ts.              *)
(*                                                                         *)
(* A parameter is absent, a number, or text that is no number.             *)
(***************************************************************************)
EXTENDS Integers, Sequences, FiniteSets

CONSTANTS
  Plugin,     \* the other plugins
  Code,       \* reward codes
  MaxMined    \* bound: subscriptions of the miner

ASSUME BrokerAssumption == "miner" \notin Plugin /\ MaxMined \in Nat

VARIABLES
  broker,     \* "created", "starting", "started", "failed", "stopping", "destroyed"
  plugins,    \* each plugin: "created", "starting", "started", "failed", "stopped"
  httpServer, \* listening
  mining,     \* the miner's timer: "off", "waiting", "looking", "subscribing"
  miners,     \* its subscriptions in the client
  rewards,    \* reward codes: "new", "received", "claimed", "lost"
  mined       \* the subscriptions made so far

brokerVars == <<broker, plugins, httpServer, mining, miners, rewards, mined>>

AllPlugins == Plugin \cup {"miner"}

BrokerInit ==
  /\ broker = "created" /\ plugins = [p \in AllPlugins |-> "created"]
  /\ httpServer = FALSE
  /\ mining = "off" /\ miners = 0
  /\ rewards = [c \in Code |-> "new"] /\ mined = 0

-----------------------------------------------------------------------------
(* broker.ts.                                                              *)

\* start: all plugins start at once.
BrokerStart ==
  /\ broker = "created"
  /\ broker' = "starting"
  /\ plugins' = [p \in AllPlugins |-> "starting"]
  /\ mining' = "subscribing"
  /\ UNCHANGED <<httpServer, miners, rewards, mined>>

\* A plugin is started, or fails to: then start rejects, and the other plugins go on.
PluginStarted(p) ==
  /\ p # "miner" /\ plugins[p] = "starting"
  /\ \/ plugins' = [plugins EXCEPT ![p] = "started"] /\ UNCHANGED broker
     \/ /\ plugins' = [plugins EXCEPT ![p] = "failed"]
        /\ broker' = IF broker = "starting" THEN "failed" ELSE broker
  /\ UNCHANGED <<httpServer, mining, miners, rewards, mined>>

\* All are started: the HTTP server with the endpoints of the plugins, and started.
BrokerStarted ==
  /\ broker = "starting" /\ \A p \in AllPlugins : plugins[p] = "started"
  /\ broker' = "started" /\ httpServer' = TRUE
  /\ UNCHANGED <<plugins, mining, miners, rewards, mined>>

\* stop: the HTTP server first, then all plugins.
BrokerStop ==
  /\ broker = "started"
  /\ broker' = "stopping" /\ httpServer' = FALSE
  /\ UNCHANGED <<plugins, mining, miners, rewards, mined>>

\* The miner's stop aborts its timers only.
PluginStopped(p) ==
  /\ broker = "stopping" /\ plugins[p] = "started"
  /\ plugins' = [plugins EXCEPT ![p] = "stopped"]
  /\ mining' = IF p = "miner" /\ mining = "waiting" THEN "off" ELSE mining
  /\ UNCHANGED <<broker, httpServer, miners, rewards, mined>>

\* When they have stopped the client is destroyed, with every subscription.
BrokerDestroyed ==
  /\ broker = "stopping" /\ \A p \in AllPlugins : plugins[p] = "stopped"
  /\ broker' = "destroyed" /\ miners' = 0
  /\ UNCHANGED <<plugins, httpServer, mining, rewards, mined>>

-----------------------------------------------------------------------------
(* BrubeckMinerPlugin.                                                     *)

Aborted == plugins["miner"] \in {"stopped", "failed"}

\* Mutant: a failure ends the repetition.
Subscribe_Throws ==
  /\ mining = "subscribing" /\ mined < MaxMined
  /\ \E ok \in BOOLEAN :
       /\ miners' = IF ok /\ broker # "destroyed" THEN miners + 1 ELSE miners
       /\ mined' = IF ok THEN mined + 1 ELSE mined
       /\ mining' = IF ~ok \/ Aborted THEN "off" ELSE "waiting"
       /\ plugins' = IF plugins["miner"] # "starting" THEN plugins
                     ELSE [plugins EXCEPT !["miner"] = IF ok THEN "started" ELSE "failed"]
       /\ broker' = IF plugins["miner"] = "starting" /\ ~ok /\ broker = "starting"
                    THEN "failed" ELSE broker
  /\ UNCHANGED <<httpServer, rewards>>

\* subscribe, in start, where a failure fails the plugin, or from the timer, where it
\* is logged; then the timer is set.
Subscribe ==
  /\ mining = "subscribing" /\ mined < MaxMined
  /\ \E ok \in BOOLEAN :
       /\ miners' = IF ok /\ broker # "destroyed" THEN miners + 1 ELSE miners
       /\ mined' = IF ok THEN mined + 1 ELSE mined
       /\ mining' = IF (plugins["miner"] = "starting" /\ ~ok) \/ Aborted THEN "off" ELSE "waiting"
       /\ plugins' = IF plugins["miner"] # "starting" THEN plugins
                     ELSE [plugins EXCEPT !["miner"] = IF ok THEN "started" ELSE "failed"]
       /\ broker' = IF plugins["miner"] = "starting" /\ ~ok /\ broker = "starting"
                    THEN "failed" ELSE broker
  /\ UNCHANGED <<httpServer, rewards>>

\* subscriptionIntervalFn, when the timer fires.
Interval ==
  /\ mining = "waiting"
  /\ mining' = "looking"
  /\ UNCHANGED <<broker, plugins, httpServer, miners, rewards, mined>>

\* getSubscriptions has answered: it subscribes again if there is no subscription.
Looked ==
  /\ mining = "looking"
  /\ mining' = IF miners = 0 THEN "subscribing" ELSE IF Aborted THEN "off" ELSE "waiting"
  /\ UNCHANGED <<broker, plugins, httpServer, miners, rewards, mined>>

\* Something else ends the subscription.
Unsubscribed ==
  /\ miners > 0 /\ mined < MaxMined
  /\ miners' = miners - 1
  /\ UNCHANGED <<broker, plugins, httpServer, mining, rewards, mined>>

\* onRewardCodeReceived, for each subscription, and claimRewardCode after the delay,
\* which goes on when the broker has stopped; a failed claim is not repeated.
RewardCodeReceived(c) ==
  /\ rewards[c] = "new" /\ miners > 0
  /\ rewards' = [rewards EXCEPT ![c] = IF miners = 1 THEN "received" ELSE "twice"]
  /\ UNCHANGED <<broker, plugins, httpServer, mining, miners, mined>>

RewardClaimed(c) ==
  /\ rewards[c] = "received"
  /\ rewards' \in {[rewards EXCEPT ![c] = r] : r \in {"claimed", "lost"}}
  /\ UNCHANGED <<broker, plugins, httpServer, mining, miners, mined>>

-----------------------------------------------------------------------------
BrokerNext ==
  \/ BrokerStart \/ BrokerStarted \/ BrokerStop \/ BrokerDestroyed
  \/ \E p \in AllPlugins : PluginStarted(p) \/ PluginStopped(p)
  \/ Subscribe \/ Interval \/ Looked \/ Unsubscribed
  \/ \E c \in Code : RewardCodeReceived(c) \/ RewardClaimed(c)

BrokerSpec == BrokerInit /\ [][BrokerNext]_brokerVars

\* Timers fire and calls settle; again and again a subscribe call is granted.
BrokerFairness ==
  /\ WF_brokerVars(Interval)
  /\ WF_brokerVars(Looked)
  /\ SF_brokerVars(Subscribe /\ miners' > miners)

-----------------------------------------------------------------------------
(* Properties.                                                             *)

\* The client outlives the plugins, and a reward is never claimed twice: the miner has
\* one subscription, whatever its timer does and however often others end it.
BrokerInv ==
  /\ broker = "destroyed" => \A p \in AllPlugins : plugins[p] \in {"stopped", "failed"}
  /\ miners <= 1 /\ \A c \in Code : rewards[c] # "twice"

\* The miner does not stay without its subscription while the broker runs.
MinesAgain == []<>(miners > 0 \/ broker # "started" \/ mined = MaxMined)

-----------------------------------------------------------------------------
(* Requests over HTTP.                                                     *)

CONSTANTS
  MaxRows     \* bound: the messages a query finds

ASSUME RequestsAssumption == MaxRows \in Nat

VARIABLES
  request,    \* what is asked
  status,     \* the status of the response, 0 before it is sent
  source,     \* the stream of the storage: "none", "open", "ended", "failed"
  rows,       \* messages it has yet to give
  output,     \* the body: "header", "delimiter", "message", "footer", "error"
  firstMessage,  \* ResponseTransform
  closed      \* the response is ended or destroyed

requestVars == <<request, status, source, rows, output, firstMessage, closed>>

Parameter == {"absent", "number", "text"}
IsNumber(x) == x = "number"

NoRequest == [resendType |-> "none"]

RequestsInit ==
  /\ request = NoRequest /\ status = 0
  /\ source = "none" /\ rows = 0
  /\ output = <<>> /\ firstMessage = TRUE /\ closed = FALSE

-----------------------------------------------------------------------------
(* Checking a data query.                                                  *)

\* handleLast: one message if no count is given.
LastIsValid(r) == r.count # "text"

\* handleFrom; the sequence number is not checked.
FromIsValid(r) == IsNumber(r.fromTimestamp)

\* handleRange; offsets are of an older version, and a publisher needs a message chain.
RangeIsValid(r) ==
  /\ r.offset = "absent"
  /\ IsNumber(r.fromTimestamp) /\ IsNumber(r.toTimestamp)
  /\ (r.publisherId = "absent") = (r.msgChainId = "absent")

\* createHandler
IsValid(r) ==
  /\ IsNumber(r.partition) /\ r.format \in {"absent", "known"}
  /\ CASE r.resendType = "last" -> LastIsValid(r)
       [] r.resendType = "from" -> FromIsValid(r)
       [] r.resendType = "range" -> RangeIsValid(r)
       [] OTHER -> FALSE

QueryParameters ==
  [resendType : {"last", "from", "range", "other"}, partition : {"number", "text"},
   format : {"absent", "known", "unknown"}, count : Parameter, fromTimestamp : Parameter,
   toTimestamp : Parameter, offset : {"absent", "number"}, publisherId : {"absent", "text"},
   msgChainId : {"absent", "text"}]

\* Queries whose parameters matter for their type, or with another partition or format.
DataQuery ==
  {r \in QueryParameters :
     LET usual == r.partition = "number" /\ r.format = "absent"
     IN  /\ ~(usual /\ r.resendType = "last") => r.count = "absent"
         /\ ~(usual /\ r.resendType \in {"from", "range"}) => r.fromTimestamp = "number"
         /\ ~(usual /\ r.resendType = "range") =>
              /\ r.toTimestamp = "number" /\ r.offset = "absent"
              /\ r.publisherId = "absent" /\ r.msgChainId = "absent"}

\* A query is refused with 400, or the storage is asked.
QueryData(r) ==
  /\ request = NoRequest
  /\ request' = r
  /\ IF IsValid(r)
     THEN source' = "open" /\ rows' \in 0 .. MaxRows /\ UNCHANGED <<status, output, closed>>
     ELSE status' = 400 /\ output' = <<"error">> /\ closed' = TRUE /\ UNCHANGED <<source, rows>>
  /\ UNCHANGED firstMessage

-----------------------------------------------------------------------------
(* Streaming the answer.                                                   *)

\* ResponseTransform._transform: the header before the first message, a delimiter before
\* the others.  The first also sends the status.
Transform ==
  /\ source = "open" /\ rows > 0 /\ ~closed
  /\ output' = output \o (IF firstMessage THEN <<"header">> ELSE <<"delimiter">>) \o <<"message">>
  /\ rows' = rows - 1 /\ firstMessage' = FALSE /\ status' = 200
  /\ UNCHANGED <<request, source, closed>>

\* _flush: the footer ends the body, after a header if there was no message.
Flush ==
  /\ source = "open" /\ rows = 0 /\ ~closed
  /\ source' = "ended" /\ status' = 200 /\ closed' = TRUE
  /\ output' = output \o (IF firstMessage THEN <<"header">> ELSE <<>>) \o <<"footer">>
  /\ UNCHANGED <<request, rows, firstMessage>>

\* The query fails: 500 if nothing was sent, else the body just breaks off.
SourceFails ==
  /\ source = "open" /\ ~closed
  /\ source' = "failed" /\ closed' = TRUE
  /\ IF status = 0 THEN status' = 500 /\ output' = <<"error">> ELSE UNCHANGED <<status, output>>
  /\ UNCHANGED <<request, rows, firstMessage>>

\* pipeline: the client goes, and the query is given up.
ResponseCloses ==
  /\ source = "open" /\ ~closed
  /\ source' = "failed" /\ closed' = TRUE
  /\ UNCHANGED <<request, status, rows, output, firstMessage>>

-----------------------------------------------------------------------------
(* Publishing.                                                             *)

\* PlainPayloadFormat.createMessage: the payload must be the JSON of an object.
CreateMessage(payload) == payload = "object"

Publish ==
  /\ request = NoRequest
  /\ \E payload \in {"empty", "malformed", "array", "object"}, timestamp \in Parameter,
        partition \in Parameter, partitionKey \in {"absent", "text"}, works \in BOOLEAN :
       /\ request' = [resendType |-> "publish", payload |-> payload]
       /\ status' =
            CASE ~CreateMessage(payload) \/ timestamp = "text" \/ partition = "text" -> 400
              [] OTHER -> IF partition # "absent" /\ partitionKey # "absent" THEN 422
                          ELSE IF works THEN 200 ELSE 500
  /\ closed' = TRUE
  /\ UNCHANGED <<source, rows, output, firstMessage>>

-----------------------------------------------------------------------------
(* The two requests about a stored stream part that are answered at once.  *)

\* The metadata endpoint counts the messages of the stream part.
MetadataStatus(partition) == IF IsNumber(partition) THEN 200 ELSE 400

\* The config endpoint says whether the node stores the stream part.
StorageConfigStatus(partition, found) ==
  IF ~IsNumber(partition) THEN 400 ELSE IF found THEN 200 ELSE 404

AskStored ==
  /\ request = NoRequest
  /\ \E partition \in {"number", "text"}, found \in BOOLEAN :
       \/ request' = [resendType |-> "metadata"] /\ status' = MetadataStatus(partition)
       \/ request' = [resendType |-> "config"] /\ status' = StorageConfigStatus(partition, found)
  /\ closed' = TRUE
  /\ UNCHANGED <<source, rows, output, firstMessage>>

-----------------------------------------------------------------------------
RequestsNext ==
  \/ \E r \in DataQuery : QueryData(r)
  \/ Transform \/ Flush \/ SourceFails \/ ResponseCloses
  \/ Publish \/ AskStored

RequestsSpec == RequestsInit /\ [][RequestsNext]_requestVars

-----------------------------------------------------------------------------
(* Properties.                                                             *)

\* The body of a data query: messages between a header and a footer and apart by
\* delimiters.  It ends with the footer exactly if everything found was sent, and an
\* error is never in it.
Body(n) == [i \in 1 .. (IF n = 0 THEN 1 ELSE 2 * n) |->
             IF i = 1 THEN "header" ELSE IF i % 2 = 0 THEN "message" ELSE "delimiter"]

RequestsInv ==
  source # "none" =>
    \/ status = 0 /\ output = <<>>
    \/ status = 500 /\ output = <<"error">>
    \/ /\ status = 200 /\ source = "ended" /\ rows = 0
       /\ \E n \in 0 .. Len(output) : output = Append(Body(n), "footer")
    \/ /\ status = 200 /\ source # "ended"
       /\ \E n \in 1 .. Len(output) : output = Body(n)
=============================================================================
