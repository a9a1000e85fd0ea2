---------------------------- MODULE RegistryProofs -----------------------------
(* What is proved of the client's view of the registry, of the queries of the      *)
(* index, of assigning, of the broker with its plugins and requests, of the        *)
(* metrics and of the stores of keys, for every number of providers, entities,     *)
(* partitions, plugins, clients and calls.                                         *)
(* Each part has an inductive invariant, one lemma per action and a theorem; the   *)
(* last theorems put the parts together.                                           *)
EXTENDS MCRegistry, SequenceTheorems, FiniteSetTheorems, WellFoundedInduction, TLAPS

-----------------------------------------------------------------------------
(* Assigning a stream to a storage node.                                           *)

\* What was announced and found has been acknowledged; a call that has begun to wait
\* has assigned the stream, and a wait that ended by itself has found all partitions.
AssigningIInv ==
  /\ AssigningInv
  /\ acked \subseteq Partition /\ joining \subseteq Partition
  /\ announced \subseteq acked \cup {Malformed} /\ found \subseteq acked
  /\ assigning \in {"waiting", "resolved"} => assigned
  /\ assigning = "idle" /\ assigned => acked = Partition
  /\ listening = "ended" /\ ~cut => found = Partition

LEMMA AssigningStarts == AssigningInit => AssigningIInv
BY DEF AssigningInit, AssigningIInv, AssigningInv, AcknowledgedWhenResolved

LEMMA AssigningSteps == AssigningIInv /\ [AssigningNext]_assigningVars => AssigningIInv'
<1> SUFFICES ASSUME AssigningIInv, [AssigningNext]_assigningVars PROVE AssigningIInv'
  OBVIOUS
<1> USE AssigningAssumption DEF AssigningIInv, AssigningInv, AcknowledgedWhenResolved
<1>1. ASSUME NEW p \in Partition, Acknowledge(p) PROVE AssigningIInv'
  BY <1>1 DEF Acknowledge
<1>2. CASE AnnounceOther
  BY <1>2 DEF AnnounceOther
<1>3. ASSUME NEW m \in Partition \cup {Malformed}, LoseAnnouncement(m) PROVE AssigningIInv'
  BY <1>3 DEF LoseAnnouncement
<1>4. ASSUME NEW m \in Partition \cup {Malformed}, Propagated(m) PROVE AssigningIInv'
  BY <1>4 DEF Propagated
<1>5. CASE CheckStored
  BY <1>5 DEF CheckStored
<1>6. CASE Assign
  BY <1>6 DEF Assign
<1>7. CASE UnsubscribeAll
  BY <1>7 DEF UnsubscribeAll
<1>8. CASE AssigningResolves
  BY <1>8 DEF AssigningResolves
<1>9. CASE AssigningFails
  BY <1>9 DEF AssigningFails
<1>10. CASE UNCHANGED assigningVars
  BY <1>10 DEF assigningVars
<1> QED BY <1>1, <1>2, <1>3, <1>4, <1>5, <1>6, <1>7, <1>8, <1>9, <1>10 DEF AssigningNext

\* The promise of addToStorageNode resolves only if the stream was assigned and the
\* storage node has acknowledged every partition, unless another call has ended the
\* subscription it waits with; and no call that is over leaves that subscription.
THEOREM AssigningIsAcknowledged == AssigningSpec => []AssigningInv
<1>1. AssigningIInv => AssigningInv
  BY DEF AssigningIInv
<1> QED BY <1>1, AssigningStarts, AssigningSteps, PTL DEF AssigningSpec

-----------------------------------------------------------------------------
(* The websocket plugin.                                                           *)

\* The subscribe calls are awaited in the order of their partitions.
LEMMA AwaitedInOrder ==
  ASSUME NEW n \in Nat, results = 0 .. n - 1
  PROVE  Cardinality(results) = n
<1>1. Cardinality(0 .. n - 1) = n
  <2>1. CASE n = 0
    <3>1. 0 .. n - 1 = {}
      BY <2>1
    <3> QED BY <3>1, <2>1, FS_EmptySet
  <2>2. CASE n # 0
    <3>1. 0 <= n - 1
      BY <2>2
    <3>2. Cardinality(0 .. n - 1) = (n - 1) - 0 + 1
      BY <3>1, FS_Interval
    <3> QED BY <3>2
  <2> QED BY <2>1, <2>2
<1> QED BY <1>1

\* What was awaited has resolved, and before the call of a connection that is gone
\* was started nothing is alive; init is done when everything was awaited.
WebsocketIInv ==
  /\ WebsocketInv
  /\ subscribe \in [WsPartition -> {"pending", "resolved", "rejected"}]
  /\ \E n \in Nat : results = 0 .. n - 1
  /\ results \subseteq WsPartition
  /\ \A p \in results : subscribe[p] = "resolved"
  /\ socket \in {"none", "refused", "open", "closed"}
  /\ init = "done" => results = WsPartition
  /\ init = "subscribing" => socket \in {"open", "closed"}
  /\ init = "none" => pinging = "off"
  /\ pinging # "off" => init = "done"
  /\ socket \in {"none", "refused"} => init = "none"
  /\ init = "subscribing" /\ socket = "closed" => early

LEMMA WebsocketStarts == WebsocketInit => WebsocketIInv
<1> SUFFICES ASSUME WebsocketInit PROVE WebsocketIInv
  OBVIOUS
<1>1. results = 0 .. 0 - 1
  BY DEF WebsocketInit
<1>2. \E n \in Nat : results = 0 .. n - 1
  BY <1>1
<1> QED
  BY <1>2 DEF WebsocketInit, WebsocketIInv, WebsocketInv, GoneHoldsNothing, FailureTakesBack

LEMMA TransactionKeeps == WebsocketIInv /\ Transaction => WebsocketIInv'
<1> SUFFICES ASSUME WebsocketIInv, Transaction PROVE WebsocketIInv'
  OBVIOUS
<1>1. PICK n \in Nat : results = 0 .. n - 1
  BY DEF WebsocketIInv
<1>2. Cardinality(results) = n
  BY <1>1, AwaitedInOrder
<1>3. n \in WsPartition
  <2>1. results # WsPartition /\ results \subseteq WsPartition
    BY DEF Transaction, WebsocketIInv
  <2>2. n # LastPartition + 1
    BY <2>1, <1>1, WebsocketAssumption DEF WsPartition
  <2>3. CASE n > LastPartition + 1
    <3>1. LastPartition + 1 \in results
      BY <2>3, <1>1, WebsocketAssumption
    <3> QED BY <3>1, <2>1, WebsocketAssumption DEF WsPartition
  <2> QED BY <2>2, <2>3, <1>1, WebsocketAssumption DEF WsPartition
<1>4. n \notin results
  BY <1>1
<1>5. CASE subscribe[n] = "resolved" /\ results' = results \cup {n} /\ UNCHANGED <<socket, init, alive>>
  <2>1. results' = 0 .. (n + 1) - 1
    BY <1>5, <1>1
  <2>2. \E x \in Nat : results' = 0 .. x - 1
    BY <2>1, <1>1
  <2> QED
    BY <2>2, <1>5, <1>3 DEF Transaction, WebsocketIInv, WebsocketInv, GoneHoldsNothing, FailureTakesBack, WsPartition
<1>6. CASE subscribe[n] = "rejected" /\ init' = "failed" /\ UNCHANGED results
           /\ alive' = alive \ results /\ socket' = "closed"
  BY <1>6 DEF Transaction, WebsocketIInv, WebsocketInv, GoneHoldsNothing, FailureTakesBack, WsPartition
<1> QED BY <1>2, <1>5, <1>6 DEF Transaction

LEMMA WebsocketSteps == WebsocketIInv /\ [WebsocketNext]_websocketVars => WebsocketIInv'
<1> SUFFICES ASSUME WebsocketIInv, [WebsocketNext]_websocketVars PROVE WebsocketIInv'
  OBVIOUS
<1> USE DEF WebsocketIInv, WebsocketInv, GoneHoldsNothing, FailureTakesBack, WsPartition
<1>1. CASE Upgrade
  BY <1>1 DEF Upgrade
<1>2. CASE SocketCloses
  BY <1>2 DEF SocketCloses
<1>3. ASSUME NEW p \in WsPartition, SubscribeSettles(p) PROVE WebsocketIInv'
  BY <1>3 DEF SubscribeSettles
<1>4. CASE Transaction
  BY <1>4, TransactionKeeps
<1>5. CASE InitDone
  BY <1>5 DEF InitDone
<1>6. CASE SocketHeard
  BY <1>6 DEF SocketHeard
<1>7. CASE PingTimer
  BY <1>7 DEF PingTimer
<1>8. CASE UNCHANGED websocketVars
  BY <1>8 DEF websocketVars
<1> QED BY <1>1, <1>2, <1>3, <1>4, <1>5, <1>6, <1>7, <1>8 DEF WebsocketNext

\* A websocket client that is gone holds no subscription, unless it went while it was
\* being subscribed, and a connection that could not subscribe to all its partitions
\* keeps none of those that were awaited before the failure.
THEOREM GoneClientsHoldNothing == WebsocketSpec => []WebsocketInv
<1>1. WebsocketIInv => WebsocketInv
  BY DEF WebsocketIInv
<1> QED BY <1>1, WebsocketStarts, WebsocketSteps, PTL DEF WebsocketSpec

-----------------------------------------------------------------------------
(* The broker and its miner.                                                       *)

\* The miner subscribes only when it has no subscription, one call at a time.
BrokerIInv ==
  /\ BrokerInv
  /\ plugins \in [AllPlugins -> {"created", "starting", "started", "failed", "stopped"}]
  /\ miners \in Nat /\ mined \in Nat
  /\ mining = "subscribing" => miners = 0
  /\ broker = "created" => mining = "off" /\ miners = 0
  /\ rewards \in [Code -> {"new", "received", "claimed", "lost"}]

LEMMA BrokerStarts == BrokerInit => BrokerIInv
BY BrokerAssumption DEF BrokerInit, BrokerIInv, BrokerInv, AllPlugins

LEMMA BrokerSteps == BrokerIInv /\ [BrokerNext]_brokerVars => BrokerIInv'
<1> SUFFICES ASSUME BrokerIInv, [BrokerNext]_brokerVars PROVE BrokerIInv'
  OBVIOUS
<1> USE BrokerAssumption DEF BrokerIInv, BrokerInv, AllPlugins
<1>1. CASE BrokerStart
  BY <1>1 DEF BrokerStart
<1>2. CASE BrokerStarted
  BY <1>2 DEF BrokerStarted
<1>3. CASE BrokerStop
  BY <1>3 DEF BrokerStop
<1>4. CASE BrokerDestroyed
  BY <1>4 DEF BrokerDestroyed
<1>5. ASSUME NEW p \in AllPlugins, PluginStarted(p) PROVE BrokerIInv'
  BY <1>5 DEF PluginStarted
<1>6. ASSUME NEW p \in AllPlugins, PluginStopped(p) PROVE BrokerIInv'
  BY <1>6 DEF PluginStopped
<1>7. CASE Subscribe
  BY <1>7 DEF Subscribe, Aborted
<1>8. CASE Interval
  BY <1>8 DEF Interval
<1>9. CASE Looked
  BY <1>9 DEF Looked, Aborted
<1>10. CASE Unsubscribed
  BY <1>10 DEF Unsubscribed
<1>11. ASSUME NEW c \in Code, RewardCodeReceived(c) PROVE BrokerIInv'
  BY <1>11 DEF RewardCodeReceived
<1>12. ASSUME NEW c \in Code, RewardClaimed(c) PROVE BrokerIInv'
  <2>1. PICK r \in {"claimed", "lost"} : rewards' = [rewards EXCEPT ![c] = r]
    BY <1>12 DEF RewardClaimed
  <2> QED BY <2>1, <1>12 DEF RewardClaimed
<1>13. CASE UNCHANGED brokerVars
  BY <1>13 DEF brokerVars
<1> QED
  BY <1>1, <1>2, <1>3, <1>4, <1>5, <1>6, <1>7, <1>8, <1>9, <1>10, <1>11, <1>12, <1>13 DEF BrokerNext

\* The client of a broker is destroyed after its plugins have stopped, the miner never
\* has two subscriptions, and no reward is claimed twice.
THEOREM OneMinerSubscription == BrokerSpec => []BrokerInv
<1>1. BrokerIInv => BrokerInv
  BY DEF BrokerIInv
<1> QED BY <1>1, BrokerStarts, BrokerSteps, PTL DEF BrokerSpec

-----------------------------------------------------------------------------
(* Requests over HTTP.                                                             *)

Sign == {"header", "delimiter", "message", "footer"}

LEMMA BodyLen ==
  ASSUME NEW n \in Nat \ {0}
  PROVE  /\ Body(n) \in [1 .. 2 * n -> Sign]
         /\ Body(n) \in Seq(Sign) /\ Len(Body(n)) = 2 * n
<1>1. Body(n) = [i \in 1 .. 2 * n |->
                   IF i = 1 THEN "header" ELSE IF i % 2 = 0 THEN "message" ELSE "delimiter"]
  BY DEF Body
<1>2. Body(n) \in [1 .. 2 * n -> Sign]
  BY <1>1 DEF Sign
<1> HIDE DEF Sign
<1>3. 2 * n \in Nat
  OBVIOUS
<1>4. Body(n) \in Seq(Sign)
  BY <1>2, <1>3, SeqDef
<1> QED BY <1>2, <1>3, <1>4, LenProperties

\* The body grows by a delimiter and a message.
LEMMA BodyGrows ==
  ASSUME NEW n \in Nat \ {0}
  PROVE  Body(n) \o <<"delimiter">> \o <<"message">> = Body(n + 1)
<1> DEFINE b == Body(n)
           x == b \o <<"delimiter">>
           y == x \o <<"message">>
<1>1. b \in Seq(Sign) /\ Len(b) = 2 * n
  BY BodyLen
<1>2. <<"delimiter">> \in Seq(Sign) /\ Len(<<"delimiter">>) = 1 /\ <<"delimiter">>[1] = "delimiter"
  BY DEF Sign
<1>3. <<"message">> \in Seq(Sign) /\ Len(<<"message">>) = 1 /\ <<"message">>[1] = "message"
  BY DEF Sign
<1> HIDE DEF b
<1>4. /\ x \in Seq(Sign) /\ Len(x) = 2 * n + 1
      /\ \A i \in 1 .. 2 * n : x[i] = b[i]
      /\ x[2 * n + 1] = "delimiter"
  BY <1>1, <1>2, ConcatProperties
<1> HIDE DEF x
<1>5. /\ y \in Seq(Sign) /\ Len(y) = 2 * n + 2
      /\ \A i \in 1 .. 2 * n + 1 : y[i] = x[i]
      /\ y[2 * n + 2] = "message"
  BY <1>3, <1>4, ConcatProperties
<1> HIDE DEF y
<1>6. Body(n + 1) \in Seq(Sign) /\ Len(Body(n + 1)) = 2 * n + 2
  <2>1. n + 1 \in Nat \ {0} /\ 2 * (n + 1) = 2 * n + 2
    OBVIOUS
  <2> QED BY <2>1, BodyLen
<1>7. \A i \in 1 .. 2 * n : b[i] = Body(n + 1)[i]
  BY DEF Body, b
<1>8. Body(n + 1)[2 * n + 1] = "delimiter"
  <2>1. 2 * n + 1 # 1 /\ (2 * n + 1) % 2 = 1 /\ 2 * n + 1 \in 1 .. 2 * (n + 1)
    OBVIOUS
  <2> QED BY <2>1 DEF Body
<1>9. Body(n + 1)[2 * n + 2] = "message"
  <2>1. 2 * n + 2 # 1 /\ (2 * n + 2) % 2 = 0 /\ 2 * n + 2 \in 1 .. 2 * (n + 1)
    OBVIOUS
  <2> QED BY <2>1 DEF Body
<1>10. \A i \in 1 .. 2 * n + 2 : y[i] = Body(n + 1)[i]
  BY <1>4, <1>5, <1>7, <1>8, <1>9
<1>11. y = Body(n + 1)
  BY <1>5, <1>6, <1>10, SeqEqual
<1> QED BY <1>11 DEF b, x, y

\* What was sent up to a message, and all of it with the footer.
Begun(o) == \E n \in 1 .. Len(o) : o = Body(n)
Whole(o) == \E n \in 0 .. Len(o) : o = Append(Body(n), "footer")

LEMMA BodyIsBegun ==
  ASSUME NEW n \in Nat \ {0}
  PROVE  Begun(Body(n))
<1>1. n \in 1 .. Len(Body(n))
  <2>1. Len(Body(n)) = 2 * n
    BY BodyLen
  <2> QED BY <2>1
<1> QED BY <1>1 DEF Begun

LEMMA TwoSigns ==
  ASSUME NEW x \in Sign, NEW y \in Sign
  PROVE  <<>> \o <<x>> \o <<y>> = <<x, y>>
<1>1. <<x>> \in Seq(Sign) /\ Len(<<x>>) = 1 /\ <<x>>[1] = x
  OBVIOUS
<1>2. <<y>> \in Seq(Sign) /\ Len(<<y>>) = 1 /\ <<y>>[1] = y
  OBVIOUS
<1>3. <<x, y>> \in Seq(Sign) /\ Len(<<x, y>>) = 2 /\ <<x, y>>[1] = x /\ <<x, y>>[2] = y
  OBVIOUS
<1>4. <<>> \o <<x>> = <<x>>
  BY <1>1, ConcatEmptySeq
<1> DEFINE s == <<x>> \o <<y>>
<1>5. s \in Seq(Sign) /\ Len(s) = 2 /\ s[1] = x /\ s[2] = y
  BY <1>1, <1>2, ConcatProperties
<1> HIDE DEF s
<1>6. \A i \in 1 .. Len(s) : s[i] = <<x, y>>[i]
  BY <1>3, <1>5
<1>7. s = <<x, y>>
  BY <1>3, <1>5, <1>6, SeqEqual
<1> QED BY <1>4, <1>7 DEF s

LEMMA AppendOne ==
  ASSUME NEW x \in Sign, NEW y \in Sign
  PROVE  Append(<<x>>, y) = <<x, y>> /\ Len(<<x, y>>) = 2
<1>1. <<x>> \in Seq(Sign) /\ Len(<<x>>) = 1 /\ <<x>>[1] = x
  OBVIOUS
<1>2. <<x, y>> \in Seq(Sign) /\ Len(<<x, y>>) = 2 /\ <<x, y>>[1] = x /\ <<x, y>>[2] = y
  OBVIOUS
<1> DEFINE s == Append(<<x>>, y)
<1>3. s \in Seq(Sign) /\ Len(s) = 2 /\ s[1] = x /\ s[2] = y
  BY <1>1, AppendProperties
<1> HIDE DEF s
<1>4. \A i \in 1 .. Len(s) : s[i] = <<x, y>>[i]
  BY <1>2, <1>3
<1>5. s = <<x, y>>
  BY <1>2, <1>3, <1>4, SeqEqual
<1> QED BY <1>2, <1>5 DEF s

LEMMA MessageSent ==
  /\ Begun(<<>> \o <<"header">> \o <<"message">>)
  /\ \A o : Begun(o) => Begun(o \o <<"delimiter">> \o <<"message">>)
<1>1. <<>> \o <<"header">> \o <<"message">> = Body(1)
  <2>1. <<>> \o <<"header">> \o <<"message">> = <<"header", "message">>
    BY TwoSigns DEF Sign
  <2>2. Body(1) = <<"header", "message">>
    BY DEF Body
  <2> QED BY <2>1, <2>2
<1>2. ASSUME NEW o, Begun(o) PROVE Begun(o \o <<"delimiter">> \o <<"message">>)
  <2>1. PICK n \in 1 .. Len(o) : o = Body(n)
    BY <1>2 DEF Begun
  <2>2. n \in Nat \ {0} /\ n + 1 \in Nat \ {0}
    BY <2>1
  <2>3. o \o <<"delimiter">> \o <<"message">> = Body(n + 1)
    BY <2>1, <2>2, BodyGrows
  <2> QED BY <2>2, <2>3, BodyIsBegun
<1>3. Begun(Body(1))
  BY BodyIsBegun
<1> QED BY <1>1, <1>2, <1>3

LEMMA FooterSent ==
  /\ Whole(<<>> \o <<"header">> \o <<"footer">>)
  /\ \A o : Begun(o) => Whole(o \o <<>> \o <<"footer">>)
<1>1. Whole(<<>> \o <<"header">> \o <<"footer">>)
  <2>1. <<>> \o <<"header">> \o <<"footer">> = <<"header", "footer">>
    BY TwoSigns DEF Sign
  <2>2. Body(0) = <<"header">>
    BY DEF Body
  <2>3. <<"header", "footer">> = Append(Body(0), "footer")
    BY <2>2, AppendOne DEF Sign
  <2>4. 0 \in 0 .. Len(<<"header", "footer">>)
    BY AppendOne DEF Sign
  <2> QED BY <2>1, <2>3, <2>4 DEF Whole
<1>2. ASSUME NEW o, Begun(o) PROVE Whole(o \o <<>> \o <<"footer">>)
  <2>1. PICK n \in 1 .. Len(o) : o = Body(n)
    BY <1>2 DEF Begun
  <2>2. o \in Seq(Sign) /\ Len(o) = 2 * n /\ n \in Nat \ {0}
    <3>1. n \in Nat \ {0}
      BY <2>1
    <3> QED BY <2>1, <3>1, BodyLen
  <2>3. o \o <<>> = o
    BY <2>2, ConcatEmptySeq
  <2>4. "footer" \in Sign
    BY DEF Sign
  <2>5. o \o <<"footer">> = Append(o, "footer")
    BY <2>2, <2>4, AppendIsConcat
  <2>6. Len(Append(o, "footer")) = 2 * n + 1
    BY <2>2, <2>4, AppendProperties
  <2>7. n \in 0 .. Len(Append(o, "footer"))
    BY <2>2, <2>6
  <2> QED BY <2>1, <2>3, <2>5, <2>7 DEF Whole
<1> QED BY <1>1, <1>2

LEMMA QueriesAreRequests == \A r \in DataQuery : r # NoRequest
<1> SUFFICES ASSUME NEW r \in DataQuery PROVE r # NoRequest
  OBVIOUS
<1>1. r.resendType \in {"last", "from", "range", "other"}
  BY DEF DataQuery, QueryParameters
<1>2. NoRequest.resendType = "none"
  BY DEF NoRequest
<1> QED BY <1>1, <1>2

\* Of a query that is being answered nothing was sent, or the body up to a message.
RequestsIInv ==
  /\ source \in {"none", "open", "ended", "failed"} /\ rows \in Nat
  /\ request = NoRequest => source = "none" /\ status = 0 /\ output = <<>> /\ firstMessage = TRUE /\ ~closed
  /\ source = "open" => ~closed
  /\ source = "open" /\ firstMessage = TRUE => status = 0 /\ output = <<>>
  /\ source = "open" /\ firstMessage # TRUE => status = 200 /\ Begun(output)
  /\ source = "ended" => status = 200 /\ rows = 0 /\ Whole(output)
  /\ source = "failed" => \/ status = 0 /\ output = <<>>
                          \/ status = 500 /\ output = <<"error">>
                          \/ status = 200 /\ Begun(output)

LEMMA RequestsStart == RequestsInit => RequestsIInv
BY DEF RequestsInit, RequestsIInv

LEMMA RequestsSteps == RequestsIInv /\ [RequestsNext]_requestVars => RequestsIInv'
<1> SUFFICES ASSUME RequestsIInv, [RequestsNext]_requestVars PROVE RequestsIInv'
  OBVIOUS
<1> USE DEF RequestsIInv
<1>1. ASSUME NEW r \in DataQuery, QueryData(r) PROVE RequestsIInv'
  <2>1. r # NoRequest
    BY QueriesAreRequests
  <2> QED BY <1>1, <2>1, RequestsAssumption DEF QueryData
<1>2. CASE Transform
  <2>1. source = "open" /\ source' = "open" /\ rows' = rows - 1 /\ rows > 0 /\ firstMessage' = FALSE
        /\ status' = 200 /\ closed' = closed /\ request' = request
    BY <1>2 DEF Transform
  <2>2. Begun(output')
    <3>1. CASE firstMessage = TRUE
      BY <3>1, <2>1, <1>2, MessageSent DEF Transform
    <3>2. CASE firstMessage # TRUE
      BY <3>2, <2>1, <1>2, MessageSent DEF Transform
    <3> QED BY <3>1, <3>2
  <2> QED BY <2>1, <2>2
<1>3. CASE Flush
  <2>1. /\ source = "open" /\ source' = "ended" /\ rows = 0 /\ rows' = 0 /\ firstMessage' = firstMessage
        /\ status' = 200 /\ closed' = TRUE /\ request' = request
    BY <1>3 DEF Flush
  <2>2. Whole(output')
    <3>1. CASE firstMessage = TRUE
      BY <3>1, <2>1, <1>3, FooterSent DEF Flush
    <3>2. CASE firstMessage # TRUE
      BY <3>2, <2>1, <1>3, FooterSent DEF Flush
    <3> QED BY <3>1, <3>2
  <2> QED BY <2>1, <2>2
<1>4. CASE SourceFails
  BY <1>4 DEF SourceFails
<1>5. CASE ResponseCloses
  BY <1>5 DEF ResponseCloses
<1>6. CASE Publish
  BY <1>6 DEF Publish, NoRequest
<1>7. CASE AskStored
  BY <1>7 DEF AskStored, NoRequest
<1>8. CASE UNCHANGED requestVars
  <2>1. /\ source' = source /\ request' = request /\ status' = status /\ output' = output
        /\ rows' = rows /\ firstMessage' = firstMessage /\ closed' = closed
    BY <1>8 DEF requestVars
  <2>2. (source \in {"none", "open", "ended", "failed"} /\ rows \in Nat)'
    BY <2>1
  <2>3. (request = NoRequest => source = "none" /\ status = 0 /\ output = <<>> /\ firstMessage = TRUE /\ ~closed)'
    BY <2>1
  <2>4. ((source = "open" => ~closed) /\ (source = "open" /\ firstMessage = TRUE => status = 0 /\ output = <<>>))'
    BY <2>1
  <2>5. (source = "open" /\ firstMessage # TRUE => status = 200 /\ Begun(output))'
    BY <2>1
  <2>6. (source = "ended" => status = 200 /\ rows = 0 /\ Whole(output))'
    BY <2>1
  <2>7. (source = "failed" => \/ status = 0 /\ output = <<>>
                              \/ status = 500 /\ output = <<"error">>
                              \/ status = 200 /\ Begun(output))'
    BY <2>1
  <2> QED BY <2>2, <2>3, <2>4, <2>5, <2>6, <2>7
<1> QED BY <1>1, <1>2, <1>3, <1>4, <1>5, <1>6, <1>7, <1>8 DEF RequestsNext

\* Whatever fails, the body of a data query is messages between a header and a footer
\* and apart by delimiters, with the footer exactly if everything found was sent.
THEOREM AnswersAreWellFormed == RequestsSpec => []RequestsInv
<1>1. RequestsIInv => RequestsInv
  BY DEF RequestsIInv, RequestsInv, Begun, Whole
<1> QED BY <1>1, RequestsStart, RequestsSteps, PTL DEF RequestsSpec

-----------------------------------------------------------------------------
(* The stores of keys.                                                             *)

KeyRecord ==
  [step : {"idle", "creating", "using", "checking", "waiting", "resolved", "rejected"},
   kind : {"get", "set"}, db : Nat, legacy : BOOLEAN, value : Nat, floor : Nat, excuse : BOOLEAN]

DbState == {"uninitialized", "opening", "migrating", "ready", "failed", "closed"}

KeysTypeOK ==
  /\ keyCall \in [KeyCall -> KeyRecord] /\ db \in [Instances -> DbState]
  /\ persistence \in Nat /\ created \in Nat /\ restarts \in Nat
  /\ file \in BOOLEAN /\ tables \in BOOLEAN /\ legacy \in BOOLEAN /\ other \in BOOLEAN
  /\ row \in Nat /\ committed \in Nat

\* What is stored: a value is written into the tables of a file, and what a set has
\* committed is not lost.
StoredGood ==
  /\ row # 1 /\ committed # 1 /\ committed <= row
  /\ row > 0 => tables
  /\ legacy => tables
  /\ tables \/ other => file
  /\ \A i \in Instances : db[i] = "ready" => tables \/ other
  /\ \A i \in Instances : db[i] = "migrating" => file

\* Calls that have yet to create an instance; there is one for each that is created.
Creating == {c \in KeyCall : keyCall[c].step = "creating"}
InstancesGood ==
  /\ created + Cardinality(Creating) <= Cardinality(KeyCall)
  /\ persistence <= created
  /\ persistence = 0 => created = 0

\* What a call has to find is there, and one that looks for the legacy key has seen that
\* there is nothing else.
CallGood(k) ==
  /\ k.step \in {"using", "checking", "waiting"} => persistence # 0
  /\ k.step \in {"checking", "waiting"} => k.db \in Instances
  /\ \/ k.floor = 0
     \/ k.floor = 1 /\ legacy
     \/ k.floor > 1 /\ k.floor <= row /\ ~k.legacy
  /\ k.step = "resolved" /\ k.kind = "get" => k.value >= k.floor
  /\ k.step = "rejected" => k.excuse

KeysIInv ==
  KeysTypeOK /\ StoredGood /\ InstancesGood /\ \A c \in KeyCall : CallGood(keyCall[c])

LEMMA KeyCallsFinite == Cardinality(KeyCall) \in Nat /\ IsFiniteSet(KeyCall)
BY KeyStoresAssumption, FS_CardinalityType

LEMMA CreatingFinite ==
  /\ IsFiniteSet(Creating) /\ Cardinality(Creating) \in Nat
  /\ Cardinality(Creating) <= Cardinality(KeyCall)
<1>1. Creating \subseteq KeyCall
  BY DEF Creating
<1> QED BY <1>1, KeyCallsFinite, FS_Subset, FS_CardinalityType

LEMMA NoneCreating ==
  ASSUME Creating = {}
  PROVE  Cardinality(Creating) = 0
BY FS_EmptySet

LEMMA KeysStart == KeysInit => KeysIInv
<1> SUFFICES ASSUME KeysInit PROVE KeysIInv
  OBVIOUS
<1>1. KeysTypeOK
  BY DEF KeysInit, KeysTypeOK, KeyRecord, NoCall, DbState
<1>2. StoredGood
  BY DEF KeysInit, StoredGood
<1>3. Creating = {}
  BY DEF KeysInit, NoCall, Creating
<1>4. InstancesGood
  BY <1>3, NoneCreating, KeyCallsFinite DEF KeysInit, InstancesGood
<1>5. \A c \in KeyCall : CallGood(keyCall[c])
  BY DEF KeysInit, NoCall, CallGood
<1> QED BY <1>1, <1>2, <1>4, <1>5 DEF KeysIInv

\* Where no call begins to create an instance the instances stay within the calls.
LEMMA NoMoreCreating ==
  ASSUME KeysIInv, Creating' \subseteq Creating, persistence' = persistence, created' = created
  PROVE  InstancesGood'
<1>1. Cardinality(Creating') <= Cardinality(Creating) /\ Cardinality(Creating') \in Nat
  BY CreatingFinite, FS_Subset, FS_CardinalityType
<1>2. created + Cardinality(Creating') <= Cardinality(KeyCall)
  BY <1>1, CreatingFinite, KeyCallsFinite DEF KeysIInv, InstancesGood, KeysTypeOK
<1> QED BY <1>2 DEF KeysIInv, InstancesGood

\* What is stored is not lost, and no instance becomes ready.
StoreKept ==
  /\ file' = file /\ tables' = tables /\ legacy' = legacy /\ other' = other
  /\ restarts' = restarts
  /\ row' \in Nat /\ committed' \in Nat /\ row' >= row /\ committed' <= row'
  /\ row' # 1 /\ committed' # 1 /\ (row' > 0 => tables)
  /\ db' \in [Instances -> DbState]
  /\ \A i \in Instances : db'[i] \in {"ready", "migrating"} => db[i] = db'[i]

\* A step of one call: the other calls and what they rely on stay.
LEMMA KeyCallFramed ==
  ASSUME KeysIInv, NEW c \in KeyCall, NEW k \in KeyRecord,
         keyCall' = [keyCall EXCEPT ![c] = k], InstancesGood',
         persistence' \in Nat, created' \in Nat, persistence # 0 => persistence' # 0,
         StoreKept, CallGood(k)'
  PROVE  KeysIInv'
<1>1. KeysTypeOK'
  BY DEF KeysIInv, KeysTypeOK, StoreKept
<1>2. StoredGood'
  BY DEF KeysIInv, StoredGood, StoreKept
<1>3. ASSUME NEW d \in KeyCall PROVE CallGood(keyCall[d])'
  <2>1. CASE d = c
    BY <2>1 DEF KeysIInv, KeysTypeOK
  <2>2. CASE d # c
    <3>1. keyCall'[d] = keyCall[d] /\ CallGood(keyCall[d]) /\ keyCall[d] \in KeyRecord
      BY <2>2 DEF KeysIInv, KeysTypeOK
    <3> QED BY <3>1 DEF CallGood, KeysIInv, KeysTypeOK, KeyRecord, StoreKept
  <2> QED BY <2>1, <2>2
<1> QED BY <1>1, <1>2, <1>3 DEF KeysIInv

LEMMA StoreAlone ==
  ASSUME KeysIInv, db' \in [Instances -> DbState],
         \A i \in Instances : db'[i] \in {"ready", "migrating"} => db[i] = db'[i],
         file' = file, tables' = tables, legacy' = legacy, other' = other,
         restarts' = restarts, row' = row, committed' = committed
  PROVE  StoreKept
BY DEF KeysIInv, KeysTypeOK, StoredGood, StoreKept

\* A step of one call that leaves the instances and what is stored alone.
LEMMA KeyCallMoves ==
  ASSUME KeysIInv, NEW c \in KeyCall, NEW k \in KeyRecord,
         keyCall' = [keyCall EXCEPT ![c] = k], k.step # "creating",
         UNCHANGED <<persistence, created, file, tables, row, legacy, other, committed, restarts>>,
         db' \in [Instances -> DbState], \A i \in Instances : db'[i] \in {"ready", "migrating"} => db[i] = db'[i],
         CallGood(k)
  PROVE  KeysIInv'
<1>1. Creating' \subseteq Creating
  BY DEF Creating, KeysIInv, KeysTypeOK
<1>2. InstancesGood'
  BY <1>1, NoMoreCreating
<1>3. CallGood(k)'
  BY DEF CallGood
<1>4. StoreKept
  BY StoreAlone
<1>5. persistence' \in Nat /\ created' \in Nat /\ (persistence # 0 => persistence' # 0)
  BY DEF KeysIInv, KeysTypeOK
<1> QED
  BY <1>2, <1>3, <1>4, <1>5, KeyCallFramed

LEMMA NoCallGood == NoCall \in KeyRecord /\ NoCall.step = "idle" /\ NoCall.legacy = FALSE
BY DEF NoCall, KeyRecord

LEMMA BeginCallKeeps ==
  ASSUME KeysIInv, NEW c \in KeyCall, NEW x \in {"get", "set"}, BeginCall(c, x)
  PROVE  KeysIInv'
<1> DEFINE least == IF committed > 0 THEN committed ELSE IF legacy THEN 1 ELSE 0
           s == IF persistence = 0 THEN "creating" ELSE "using"
<1>1. PICK k : k = [NoCall EXCEPT !.kind = x, !.step = s, !.floor = least]
  OBVIOUS
<1>2. least \in Nat
  BY DEF KeysIInv, KeysTypeOK
<1>3. k \in KeyRecord
  BY <1>1, <1>2 DEF KeyRecord, NoCall
<1>4. k.step = s /\ k.floor = least /\ k.legacy = FALSE
  BY <1>1 DEF NoCall
<1>5. keyCall' = [keyCall EXCEPT ![c] = k]
  BY <1>1 DEF BeginCall
<1>6. UNCHANGED <<persistence, created, db, file, tables, row, legacy, other, committed, restarts>>
  BY DEF BeginCall
<1>7. CallGood(k)
  BY <1>4 DEF CallGood, KeysIInv, KeysTypeOK, StoredGood
<1>8. InstancesGood'
  <2>1. CASE persistence = 0
    <3>1. IsFiniteSet(Creating') /\ Cardinality(Creating') <= Cardinality(KeyCall)
      <4>1. Creating' \subseteq KeyCall
        BY DEF Creating
      <4> QED BY <4>1, KeyCallsFinite, FS_Subset
    <3>2. Cardinality(Creating') \in Nat
      BY <3>1, FS_CardinalityType
    <3>3. created' + Cardinality(Creating') <= Cardinality(KeyCall)
      BY <3>1, <3>2, <2>1, <1>6, KeyCallsFinite DEF KeysIInv, InstancesGood
    <3> QED BY <3>3, <1>6 DEF KeysIInv, InstancesGood
  <2>2. CASE persistence # 0
    <3>1. Creating' \subseteq Creating
      BY <2>2, <1>4, <1>5 DEF Creating, KeysIInv, KeysTypeOK
    <3> QED BY <3>1, <1>6, NoMoreCreating
  <2> QED BY <2>1, <2>2
<1>9. CallGood(k)'
  BY <1>6, <1>7 DEF CallGood
<1>10. StoreKept
  BY <1>6, StoreAlone DEF KeysIInv, KeysTypeOK
<1>11. persistence' \in Nat /\ created' \in Nat /\ (persistence # 0 => persistence' # 0)
  BY <1>6 DEF KeysIInv, KeysTypeOK
<1> QED
  BY <1>3, <1>5, <1>8, <1>9, <1>10, <1>11, KeyCallFramed

LEMMA CreatedKeeps ==
  ASSUME KeysIInv, NEW c \in KeyCall, Created(c)
  PROVE  KeysIInv'
<1>1. PICK k : k = [keyCall[c] EXCEPT !.step = "using"]
  OBVIOUS
<1>2. /\ keyCall' = [keyCall EXCEPT ![c] = k] /\ c \in Creating
      /\ created' = created + 1 /\ persistence' = created + 1
      /\ UNCHANGED <<db, file, tables, row, legacy, other, committed, restarts>>
  BY <1>1 DEF Created, At, To, Creating
<1>3. /\ k \in KeyRecord
      /\ k.step = "using" /\ k.floor = keyCall[c].floor /\ k.legacy = keyCall[c].legacy
  BY <1>1 DEF KeyRecord, KeysIInv, KeysTypeOK
<1>4. persistence' # 0 /\ persistence' \in Nat /\ created' \in Nat
  BY <1>2 DEF KeysIInv, KeysTypeOK
<1>5. CallGood(k)'
  BY <1>2, <1>3, <1>4 DEF CallGood, KeysIInv
<1>6. Creating' = Creating \ {c}
  BY <1>2, <1>3 DEF Creating, KeysIInv, KeysTypeOK
<1>7. Cardinality(Creating') = Cardinality(Creating) - 1
  BY <1>2, <1>6, CreatingFinite, FS_RemoveElement
<1>8. InstancesGood'
  BY <1>2, <1>7, CreatingFinite, KeyCallsFinite DEF KeysIInv, KeysTypeOK, InstancesGood
<1>9. StoreKept
  BY <1>2, StoreAlone DEF KeysIInv, KeysTypeOK
<1> QED
  BY <1>2, <1>3, <1>4, <1>5, <1>8, <1>9, KeyCallFramed

\* An instance that a call waits for is opened, once.
LEMMA InitOnceOpens ==
  ASSUME KeysIInv, NEW i \in Instances, InitOnce(i)
  PROVE  /\ db' \in [Instances -> DbState]
         /\ \A j \in Instances : db'[j] \in {"ready", "migrating"} => db[j] = db'[j]
BY DEF InitOnce, KeysIInv, KeysTypeOK, DbState

LEMMA UseKeeps ==
  ASSUME KeysIInv, NEW c \in KeyCall, Use(c)
  PROVE  KeysIInv'
<1>1. keyCall[c].step = "using" /\ persistence # 0 /\ CallGood(keyCall[c]) /\ keyCall[c] \in KeyRecord
  BY DEF Use, At, KeysIInv, KeysTypeOK, CallGood
<1>2. persistence \in Instances
  BY <1>1, KeyCallsFinite, CreatingFinite DEF KeysIInv, KeysTypeOK, InstancesGood, Instances
<1>3. PICK s \in {"checking", "waiting"} :
        keyCall' = [keyCall EXCEPT ![c] = [keyCall[c] EXCEPT !.step = s, !.db = persistence]]
  BY DEF Use, KeysIInv, KeysTypeOK
<1>4. PICK k : k = [keyCall[c] EXCEPT !.step = s, !.db = persistence]
  OBVIOUS
<1>5. /\ k \in KeyRecord /\ k.step = s /\ k.db = persistence
      /\ k.floor = keyCall[c].floor /\ k.legacy = keyCall[c].legacy
  BY <1>1, <1>3, <1>4 DEF KeyRecord, KeysIInv, KeysTypeOK
<1>6. CallGood(k)
  BY <1>1, <1>2, <1>3, <1>5 DEF CallGood
<1>7. db' \in [Instances -> DbState] /\ \A i \in Instances : db'[i] \in {"ready", "migrating"} => db[i] = db'[i]
  BY <1>2, InitOnceOpens DEF Use, KeysIInv, KeysTypeOK
<1>8. UNCHANGED <<persistence, created, file, tables, row, legacy, other, committed, restarts>>
  BY DEF Use
<1> QED
  BY <1>3, <1>4, <1>5, <1>6, <1>7, <1>8, KeyCallMoves

\* A get that finds nothing looks for the legacy key next, and then has nothing to find.
LEMMA MissingKeeps ==
  ASSUME KeysIInv, NEW c \in KeyCall, keyCall' = Missing(c),
         keyCall[c].step \in {"checking", "waiting"},
         ~keyCall[c].legacy => row = 0, keyCall[c].legacy => ~legacy,
         UNCHANGED <<persistence, created, db, file, tables, row, legacy, other, committed, restarts>>
  PROVE  KeysIInv'
<1>1. keyCall[c] \in KeyRecord /\ CallGood(keyCall[c]) /\ persistence # 0
  BY DEF KeysIInv, KeysTypeOK, CallGood
<1>2. db' \in [Instances -> DbState] /\ \A i \in Instances : db'[i] \in {"ready", "migrating"} => db[i] = db'[i]
  BY DEF KeysIInv, KeysTypeOK
<1>3. CASE keyCall[c].legacy
  <2>1. PICK k : k = [keyCall[c] EXCEPT !.step = "resolved"]
    OBVIOUS
  <2>2. keyCall' = [keyCall EXCEPT ![c] = k]
    BY <1>3, <2>1 DEF Missing
  <2>3. k \in KeyRecord /\ k.step = "resolved" /\ k.floor = keyCall[c].floor
    BY <1>1, <2>1 DEF KeyRecord
  <2>4. k.floor = 0
    BY <1>1, <1>3, <2>3 DEF CallGood
  <2>5. CallGood(k)
    BY <2>3, <2>4 DEF CallGood, KeyRecord
  <2> QED
    BY <1>2, <2>2, <2>3, <2>5, KeyCallMoves
<1>4. CASE ~keyCall[c].legacy
  <2>1. PICK k : k = [keyCall[c] EXCEPT !.step = "using", !.legacy = TRUE]
    OBVIOUS
  <2>2. keyCall' = [keyCall EXCEPT ![c] = k]
    BY <1>4, <2>1 DEF Missing
  <2>3. k \in KeyRecord /\ k.step = "using" /\ k.floor = keyCall[c].floor
    BY <1>1, <2>1 DEF KeyRecord
  <2>4. k.floor = 0 \/ (k.floor = 1 /\ legacy)
    BY <1>1, <1>4, <2>3 DEF CallGood, KeyRecord
  <2>5. CallGood(k)
    BY <1>1, <2>3, <2>4 DEF CallGood
  <2> QED
    BY <1>2, <2>2, <2>3, <2>5, KeyCallMoves
<1> QED BY <1>3, <1>4

LEMMA CheckedKeeps ==
  ASSUME KeysIInv, NEW c \in KeyCall, Checked(c)
  PROVE  KeysIInv'
<1>1. keyCall[c].step = "checking" /\ keyCall[c] \in KeyRecord /\ CallGood(keyCall[c])
      /\ keyCall[c].db \in Instances /\ persistence # 0
  BY DEF Checked, At, KeysIInv, KeysTypeOK, CallGood
<1>2. UNCHANGED <<persistence, created, file, tables, row, legacy, other, committed, restarts>>
  BY DEF Checked
<1>3. CASE file
  <2>1. PICK k : k = [keyCall[c] EXCEPT !.step = "waiting"]
    OBVIOUS
  <2>2. keyCall' = [keyCall EXCEPT ![c] = k]
    BY <1>3, <2>1 DEF Checked, To
  <2>3. k \in KeyRecord /\ k.step = "waiting" /\ k.db = keyCall[c].db
        /\ k.floor = keyCall[c].floor /\ k.legacy = keyCall[c].legacy
    BY <1>1, <2>1 DEF KeyRecord
  <2>4. CallGood(k)
    BY <1>1, <2>3 DEF CallGood
  <2>5. db' \in [Instances -> DbState] /\ \A i \in Instances : db'[i] \in {"ready", "migrating"} => db[i] = db'[i]
    BY <1>1, <1>3, InitOnceOpens DEF Checked
  <2> QED
    BY <1>2, <2>2, <2>3, <2>4, <2>5, KeyCallMoves
<1>4. CASE ~file
  <2>1. row = 0 /\ ~legacy
    BY <1>4 DEF KeysIInv, KeysTypeOK, StoredGood
  <2>2. keyCall' = Missing(c) /\ db' = db
    BY <1>4 DEF Checked
  <2> QED BY <1>1, <1>2, <2>1, <2>2, MissingKeeps
<1> QED BY <1>3, <1>4 DEF KeysIInv, KeysTypeOK

LEMMA RunKeeps ==
  ASSUME KeysIInv, NEW c \in KeyCall, Run(c)
  PROVE  KeysIInv'
<1> DEFINE i == keyCall[c].db
           value == IF keyCall[c].legacy THEN (IF legacy THEN 1 ELSE 0) ELSE row
<1>1. keyCall[c].step = "waiting" /\ keyCall[c] \in KeyRecord /\ CallGood(keyCall[c])
      /\ i \in Instances /\ persistence # 0
  BY DEF Run, At, KeysIInv, KeysTypeOK, CallGood
<1>2. UNCHANGED <<persistence, created, db, file, tables, legacy, other, restarts>>
  BY DEF Run
<1>3. db' \in [Instances -> DbState] /\ \A j \in Instances : db'[j] \in {"ready", "migrating"} => db[j] = db'[j]
  BY <1>2 DEF KeysIInv, KeysTypeOK
<1>4. ASSUME db[i] # "ready" \/ ~tables,
             keyCall' = [keyCall EXCEPT ![c].step = "rejected",
                                        ![c].excuse = db[i] # "ready" \/ other],
             UNCHANGED <<row, committed>>
      PROVE  KeysIInv'
  <2>1. PICK x \in BOOLEAN : x <=> (db[i] # "ready" \/ other)
    OBVIOUS
  <2>2. (db[i] # "ready" \/ other) = TRUE
    BY <1>1, <1>4 DEF KeysIInv, StoredGood
  <2>3. PICK k : k = [keyCall[c] EXCEPT !.step = "rejected", !.excuse = TRUE]
    OBVIOUS
  <2>4. keyCall' = [keyCall EXCEPT ![c] = k]
    BY <1>4, <2>2, <2>3
  <2>5. k \in KeyRecord /\ k.step = "rejected" /\ k.excuse = TRUE
        /\ k.floor = keyCall[c].floor /\ k.legacy = keyCall[c].legacy
    BY <1>1, <2>3 DEF KeyRecord
  <2>6. CallGood(k)
    BY <1>1, <2>5 DEF CallGood
  <2> QED BY <1>2, <1>3, <1>4, <2>4, <2>5, <2>6, KeyCallMoves
<1>5. ASSUME keyCall[c].kind = "get", value = 0, keyCall' = Missing(c), UNCHANGED <<row, committed>>
      PROVE  KeysIInv'
  <2>1. ~keyCall[c].legacy => row = 0
    BY <1>5
  <2>2. keyCall[c].legacy => ~legacy
    BY <1>5
  <2> QED BY <1>1, <1>2, <1>5, <2>1, <2>2, MissingKeeps
<1>6. ASSUME keyCall[c].kind = "get", value # 0,
             keyCall' = [keyCall EXCEPT ![c].step = "resolved", ![c].value = value],
             UNCHANGED <<row, committed>>
      PROVE  KeysIInv'
  <2>1. value \in Nat
    BY DEF KeysIInv, KeysTypeOK
  <2>2. keyCall[c].floor <= value
    BY <1>1, <1>6 DEF CallGood, KeysIInv, KeysTypeOK, StoredGood, KeyRecord
  <2>3. PICK k : k = [keyCall[c] EXCEPT !.step = "resolved", !.value = value]
    OBVIOUS
  <2>4. keyCall' = [keyCall EXCEPT ![c] = k]
    BY <1>6, <2>3
  <2>5. k \in KeyRecord /\ k.step = "resolved" /\ k.value = value
        /\ k.floor = keyCall[c].floor /\ k.legacy = keyCall[c].legacy
    BY <1>1, <2>1, <2>3 DEF KeyRecord
  <2> HIDE DEF value
  <2>6. CallGood(k)
    BY <1>1, <2>1, <2>2, <2>5 DEF CallGood, KeyRecord
  <2> QED BY <1>2, <1>3, <1>6, <2>4, <2>5, <2>6, KeyCallMoves
<1>7. ASSUME tables, keyCall[c].kind = "set", row' = (IF row = 0 THEN 2 ELSE row + 1),
             committed' = row', To(c, "resolved")
      PROVE  KeysIInv'
  <2>1. PICK k : k = [keyCall[c] EXCEPT !.step = "resolved"]
    OBVIOUS
  <2>2. keyCall' = [keyCall EXCEPT ![c] = k]
    BY <1>7, <2>1 DEF To
  <2>3. k \in KeyRecord /\ k.step = "resolved" /\ k.kind = "set"
        /\ k.floor = keyCall[c].floor /\ k.legacy = keyCall[c].legacy
    BY <1>1, <1>7, <2>1 DEF KeyRecord
  <2>4. StoreKept
    BY <1>2, <1>3, <1>7 DEF StoreKept, KeysIInv, KeysTypeOK, StoredGood
  <2>5. CallGood(k)'
    BY <1>1, <1>2, <2>3, <2>4 DEF CallGood, StoreKept, KeysIInv, KeysTypeOK, KeyRecord
  <2>6. Creating' \subseteq Creating
    BY <2>2, <2>3 DEF Creating, KeysIInv, KeysTypeOK
  <2>7. InstancesGood'
    BY <1>2, <2>6, NoMoreCreating
  <2>8. persistence' \in Nat /\ created' \in Nat /\ (persistence # 0 => persistence' # 0)
    BY <1>2 DEF KeysIInv, KeysTypeOK
  <2> QED BY <2>2, <2>3, <2>4, <2>5, <2>7, <2>8, KeyCallFramed
<1> QED
  BY <1>4, <1>5, <1>6, <1>7 DEF Run

LEMMA SettleKeeps ==
  ASSUME KeysIInv, NEW c \in KeyCall, Settle(c)
  PROVE  KeysIInv'
<1>1. NoCall \in KeyRecord /\ NoCall.step # "creating" /\ CallGood(NoCall)
  BY DEF NoCall, KeyRecord, CallGood
<1>2. keyCall' = [keyCall EXCEPT ![c] = NoCall]
  BY DEF Settle
<1>3. UNCHANGED <<persistence, created, db, file, tables, row, legacy, other, committed, restarts>>
  BY DEF Settle
<1>4. db' \in [Instances -> DbState] /\ \A j \in Instances : db'[j] \in {"ready", "migrating"} => db[j] = db'[j]
  BY <1>3 DEF KeysIInv, KeysTypeOK
<1>5. PICK k \in KeyRecord : k = NoCall
  BY <1>1
<1> QED BY <1>1, <1>2, <1>3, <1>4, <1>5, KeyCallMoves

\* A step of the database, or of another process.
LEMMA StoreFramed ==
  ASSUME KeysIInv, UNCHANGED <<keyCall, persistence, created, row, legacy, committed, restarts>>,
         db' \in [Instances -> DbState], file' \in BOOLEAN, tables' \in BOOLEAN, other' \in BOOLEAN,
         file => file', tables => tables', tables' \/ other' => file',
         \A i \in Instances : db'[i] = "ready" => tables' \/ other',
         \A i \in Instances : db'[i] = "migrating" => file'
  PROVE  KeysIInv'
<1>1. KeysTypeOK'
  BY DEF KeysIInv, KeysTypeOK
<1>2. StoredGood'
  BY DEF KeysIInv, KeysTypeOK, StoredGood
<1>3. Creating' \subseteq Creating
  BY DEF Creating
<1>4. InstancesGood'
  BY <1>3, NoMoreCreating
<1>5. ASSUME NEW c \in KeyCall PROVE CallGood(keyCall[c])'
  <2>1. CallGood(keyCall[c])
    BY DEF KeysIInv
  <2> QED BY <2>1 DEF CallGood
<1> QED BY <1>1, <1>2, <1>4, <1>5 DEF KeysIInv

LEMMA KeysSteps == KeysIInv /\ [KeysNext]_keyVars => KeysIInv'
<1> SUFFICES ASSUME KeysIInv, [KeysNext]_keyVars PROVE KeysIInv'
  OBVIOUS
<1>1. ASSUME NEW i \in Instances, Opened(i) PROVE KeysIInv'
  BY <1>1, StoreFramed DEF Opened, KeysIInv, KeysTypeOK, StoredGood, DbState
<1>2. ASSUME NEW i \in Instances, Migrated(i) PROVE KeysIInv'
  <2>1. db[i] = "migrating" /\ file
    BY <1>2 DEF Migrated, KeysIInv, StoredGood
  <2>2. UNCHANGED <<keyCall, persistence, created, file, row, legacy, other, committed, restarts>>
    BY <1>2 DEF Migrated
  <2>3. PICK s \in {"ready", "failed"} : db' = [db EXCEPT ![i] = s] /\ (s = "ready" => tables' \/ other)
    BY <1>2 DEF Migrated
  <2>4. tables' \in BOOLEAN /\ (tables => tables')
    BY <1>2 DEF Migrated, KeysIInv, KeysTypeOK
  <2>5. db' \in [Instances -> DbState]
    BY <2>3 DEF KeysIInv, KeysTypeOK, DbState
  <2>6. \A j \in Instances : db'[j] = "ready" => tables' \/ other'
    BY <2>2, <2>3, <2>4 DEF KeysIInv, KeysTypeOK, StoredGood
  <2>7. \A j \in Instances : db'[j] = "migrating" => file'
    BY <2>1, <2>2
  <2>8. file' \in BOOLEAN /\ other' \in BOOLEAN /\ (file => file') /\ (tables' \/ other' => file')
    BY <2>1, <2>2 DEF KeysIInv, KeysTypeOK
  <2> QED BY <2>2, <2>4, <2>5, <2>6, <2>7, <2>8, StoreFramed
<1>3. CASE OtherMigrates
  BY <1>3, StoreFramed DEF OtherMigrates, KeysIInv, KeysTypeOK, StoredGood
<1>4. CASE CloseStore
  BY <1>4, StoreFramed DEF CloseStore, KeysIInv, KeysTypeOK, StoredGood, DbState
<1>5. CASE KeysRestart
  <2>1. Creating' = {}
    BY <1>5 DEF KeysRestart, NoCall, Creating
  <2>2. Cardinality(Creating') = 0
    BY <2>1, FS_EmptySet
  <2>3. InstancesGood'
    BY <1>5, <2>2, KeyCallsFinite DEF KeysRestart, InstancesGood
  <2>4. KeysTypeOK'
    BY <1>5 DEF KeysRestart, NoCall, KeysIInv, KeysTypeOK, KeyRecord, DbState
  <2>5. StoredGood'
    BY <1>5 DEF KeysRestart, KeysIInv, KeysTypeOK, StoredGood
  <2>6. \A c \in KeyCall : CallGood(keyCall[c])'
    BY <1>5 DEF KeysRestart, NoCall, CallGood
  <2> QED BY <2>3, <2>4, <2>5, <2>6 DEF KeysIInv
<1>6. CASE UNCHANGED keyVars
  BY <1>6, StoreFramed DEF keyVars, KeysIInv, KeysTypeOK, StoredGood
<1> QED
  BY <1>1, <1>2, <1>3, <1>4, <1>5, <1>6, BeginCallKeeps, CreatedKeeps, UseKeeps, CheckedKeeps,
     RunKeeps, SettleKeeps DEF KeysNext

\* Whatever instances, processes and restarts there are, a get finds what was committed
\* before it began, or the legacy key, and a call is rejected only for a reason.
THEOREM KeysAreFound == KeysSpec => []KeyStoresInv
<1>1. KeysIInv => KeyStoresInv
  BY DEF KeysIInv, CallGood, KeyStoresInv, GetFindsStored, RejectedForAReason, At
<1> QED BY <1>1, KeysStart, KeysSteps, PTL DEF KeysSpec

-----------------------------------------------------------------------------
(* The MQTT plugin.                                                                *)

LEMMA WithoutOne ==
  ASSUME NEW S, NEW s \in Seq(S), NEW i \in 1 .. Len(s)
  PROVE  /\ Without(s, i) \in Seq(S) /\ Len(Without(s, i)) = Len(s) - 1
         /\ \A j \in 1 .. Len(s) : j # i => \E k \in 1 .. Len(s) - 1 : Without(s, i)[k] = s[j]
<1>1. Len(s) \in Nat /\ Len(s) - 1 \in Nat /\ \A j \in 1 .. Len(s) : s[j] \in S
  BY LenProperties, ElementOfSeq
<1>2. Without(s, i) \in [1 .. Len(s) - 1 -> S]
  BY <1>1 DEF Without
<1>3. Without(s, i) \in Seq(S)
  BY <1>1, <1>2, SeqDef
<1>4. Len(Without(s, i)) = Len(s) - 1
  BY <1>1, <1>2, <1>3, LenProperties
<1>5. ASSUME NEW j \in 1 .. Len(s), j # i
      PROVE  \E k \in 1 .. Len(s) - 1 : Without(s, i)[k] = s[j]
  <2>1. CASE j < i
    BY <2>1, <1>1 DEF Without
  <2>2. CASE j > i
    <3>1. j - 1 \in 1 .. Len(s) - 1 /\ ~(j - 1 < i) /\ (j - 1) + 1 = j
      BY <2>2, <1>1
    <3> QED BY <3>1 DEF Without
  <2> QED BY <2>1, <2>2, <1>1, <1>5
<1> QED BY <1>3, <1>4, <1>5

SentRecord == [step : {"publishing", "resolved"}, arrived : BOOLEAN, known : BOOLEAN]

BridgeTypeOK ==
  /\ interested \subseteq Client /\ publishMessageChains \subseteq Client
  /\ subscribing \in Seq(Client) /\ subscriptions \in Seq(SUBSET Client)
  /\ sent \in [Client -> Seq(SentRecord)] /\ overlapped \in BOOLEAN

\* As long as no calls overlapped there is one subscription, or one under way.
OneForAll ==
  ~overlapped =>
    \/ subscribing = <<>> /\ subscriptions = <<>> /\ interested = {}
    \/ subscribing = <<>> /\ Len(subscriptions) = 1 /\ subscriptions[1] = interested
    \/ Len(subscribing) = 1 /\ subscriptions = <<>> /\ interested = {subscribing[1]}

\* A message is known only if one of its client was published before, and what was
\* echoed is a message that was not.
EchoesGood ==
  /\ \A c \in Client : \A i \in 1 .. Len(sent[c]) : sent[c][i].known => c \in publishMessageChains
  /\ \A m \in echoed : \E c \in Client : \E i \in 1 .. Len(sent[c]) :
       m = <<c, i>> /\ ~sent[c][i].known

Served(c) ==
  \/ \E i \in 1 .. Len(subscribing) : subscribing[i] = c
  \/ \E i \in 1 .. Len(subscriptions) : c \in subscriptions[i]

BridgeIInv == BridgeTypeOK /\ (\A c \in interested : Served(c)) /\ OneForAll /\ EchoesGood

BridgeRest == UNCHANGED <<sent, publishMessageChains, echoed>>

LEMMA EchoesFramed ==
  ASSUME EchoesGood, BridgeRest
  PROVE  EchoesGood'
BY DEF EchoesGood, BridgeRest

LEMMA BridgeStarts == BridgeInit => BridgeIInv
<1> SUFFICES ASSUME BridgeInit PROVE BridgeIInv
  OBVIOUS
<1>1. BridgeTypeOK
  <2>1. <<>> \in Seq(Client) /\ <<>> \in Seq(SUBSET Client) /\ <<>> \in Seq(SentRecord)
    BY EmptySeq
  <2> QED BY <2>1 DEF BridgeInit, BridgeTypeOK
<1>2. EchoesGood
  BY DEF BridgeInit, EchoesGood
<1> QED BY <1>1, <1>2 DEF BridgeInit, BridgeIInv, OneForAll

LEMMA OnSubscribedKeeps ==
  ASSUME BridgeIInv, NEW c \in Client, OnSubscribed(c)
  PROVE  BridgeIInv'
<1>1. /\ c \notin interested /\ interested' = interested \cup {c} /\ BridgeRest
      /\ overlapped' = (overlapped \/ subscribing # <<>>)
  BY DEF OnSubscribed, BridgeRest
<1>2. BridgeTypeOK /\ Len(subscribing) \in Nat /\ Len(subscriptions) \in Nat
  BY LenProperties DEF BridgeIInv, BridgeTypeOK
<1>3. EchoesGood'
  BY <1>1, EchoesFramed DEF BridgeIInv
<1>4. overlapped' \in BOOLEAN /\ (~overlapped' => ~overlapped /\ subscribing = <<>>)
  BY <1>1, <1>2 DEF BridgeTypeOK
<1>5. CASE subscriptions = <<>>
  <2>1. subscribing' = Append(subscribing, c) /\ subscriptions' = subscriptions
    BY <1>5 DEF OnSubscribed
  <2>2. /\ subscribing' \in Seq(Client) /\ Len(subscribing') = Len(subscribing) + 1
        /\ \A i \in 1 .. Len(subscribing) : subscribing'[i] = subscribing[i]
        /\ subscribing'[Len(subscribing) + 1] = c
    BY <2>1, <1>2, AppendProperties DEF BridgeTypeOK
  <2>3. BridgeTypeOK'
    BY <1>1, <1>2, <1>4, <2>1, <2>2 DEF BridgeTypeOK, BridgeRest
  <2>4. ASSUME NEW d \in interested' PROVE Served(d)'
    <3>1. CASE d = c
      BY <3>1, <1>2, <2>2 DEF Served
    <3>2. CASE d # c
      <4>1. Served(d)
        BY <3>2, <1>1, <2>4 DEF BridgeIInv
      <4>2. \A i \in 1 .. Len(subscribing) : i \in 1 .. Len(subscribing')
        BY <1>2, <2>2
      <4> QED BY <4>1, <4>2, <2>1, <2>2 DEF Served
    <3> QED BY <3>1, <3>2
  <2>5. OneForAll'
    <3> SUFFICES ASSUME ~overlapped' PROVE OneForAll'
      BY DEF OneForAll
    <3>1. subscribing = <<>> /\ Len(subscribing) = 0 /\ Len(subscriptions) = 0
      BY <1>4, <1>5, EmptySeq
    <3>2. interested = {}
      BY <1>4, <3>1, <1>5 DEF BridgeIInv, OneForAll
    <3>3. Len(subscribing') = 1 /\ subscribing'[1] = c
      BY <3>1, <2>2
    <3> QED BY <3>2, <3>3, <2>1, <1>1, <1>5 DEF OneForAll
  <2> QED BY <1>3, <2>3, <2>4, <2>5 DEF BridgeIInv
<1>6. CASE subscriptions # <<>>
  <2>1. subscribing' = subscribing /\ subscriptions' = [subscriptions EXCEPT ![1] = @ \cup {c}]
    BY <1>6 DEF OnSubscribed
  <2>2. 1 \in 1 .. Len(subscriptions)
    BY <1>2, <1>6, EmptySeq DEF BridgeTypeOK
  <2>3. subscriptions[1] \cup {c} \in SUBSET Client
    BY <1>2, <2>2, ElementOfSeq DEF BridgeTypeOK
  <2>4. /\ subscriptions' \in Seq(SUBSET Client) /\ Len(subscriptions') = Len(subscriptions)
        /\ \A i \in 1 .. Len(subscriptions) :
             subscriptions'[i] = IF i = 1 THEN subscriptions[1] \cup {c} ELSE subscriptions[i]
    BY <1>2, <2>1, <2>2, <2>3, ExceptSeq DEF BridgeTypeOK
  <2>5. BridgeTypeOK'
    BY <1>1, <1>2, <1>4, <2>1, <2>4 DEF BridgeTypeOK, BridgeRest
  <2>6. ASSUME NEW d \in interested' PROVE Served(d)'
    <3>1. CASE d = c
      BY <3>1, <2>2, <2>4 DEF Served
    <3>2. CASE d # c
      <4>1. Served(d)
        BY <3>2, <1>1, <2>6 DEF BridgeIInv
      <4> QED BY <4>1, <2>1, <2>2, <2>4 DEF Served
    <3> QED BY <3>1, <3>2
  <2>7. OneForAll'
    <3> SUFFICES ASSUME ~overlapped' PROVE OneForAll'
      BY DEF OneForAll
    <3>1. subscribing = <<>> /\ Len(subscriptions) = 1 /\ subscriptions[1] = interested
      BY <1>4, <1>6, EmptySeq DEF BridgeIInv, OneForAll
    <3> QED BY <3>1, <2>1, <2>2, <2>4, <1>1 DEF OneForAll
  <2> QED BY <1>3, <2>5, <2>6, <2>7 DEF BridgeIInv
<1> QED BY <1>5, <1>6

LEMMA SubscribedKeeps ==
  ASSUME BridgeIInv, Subscribed
  PROVE  BridgeIInv'
<1>1. BridgeTypeOK /\ Len(subscribing) \in Nat /\ Len(subscriptions) \in Nat
      /\ DOMAIN subscribing = 1 .. Len(subscribing)
  BY LenProperties DEF BridgeIInv, BridgeTypeOK
<1>2. PICK i \in 1 .. Len(subscribing) :
        /\ subscriptions' = Append(subscriptions, {subscribing[i]})
        /\ subscribing' = Without(subscribing, i)
  BY <1>1 DEF Subscribed
<1>3. UNCHANGED <<interested, overlapped>> /\ BridgeRest
  BY DEF Subscribed, BridgeRest
<1>4. subscribing[i] \in Client
  BY <1>1, ElementOfSeq DEF BridgeTypeOK
<1>5. /\ subscriptions' \in Seq(SUBSET Client) /\ Len(subscriptions') = Len(subscriptions) + 1
      /\ \A j \in 1 .. Len(subscriptions) : subscriptions'[j] = subscriptions[j]
      /\ subscriptions'[Len(subscriptions) + 1] = {subscribing[i]}
  BY <1>1, <1>2, <1>4, AppendProperties DEF BridgeTypeOK
<1>6. /\ subscribing' \in Seq(Client) /\ Len(subscribing') = Len(subscribing) - 1
      /\ \A j \in 1 .. Len(subscribing) : j # i =>
           \E k \in 1 .. Len(subscribing) - 1 : subscribing'[k] = subscribing[j]
  BY <1>1, <1>2, WithoutOne DEF BridgeTypeOK
<1>7. BridgeTypeOK'
  BY <1>1, <1>3, <1>5, <1>6 DEF BridgeTypeOK, BridgeRest
<1>8. ASSUME NEW d \in interested' PROVE Served(d)'
  <2>1. Served(d)
    BY <1>3, <1>8 DEF BridgeIInv
  <2>2. CASE d = subscribing[i]
    BY <2>2, <1>1, <1>5 DEF Served
  <2>3. CASE \E j \in 1 .. Len(subscriptions) : d \in subscriptions[j]
    <3>1. \A j \in 1 .. Len(subscriptions) : j \in 1 .. Len(subscriptions')
      BY <1>1, <1>5
    <3> QED BY <2>3, <3>1, <1>5 DEF Served
  <2>4. CASE d # subscribing[i] /\ \E j \in 1 .. Len(subscribing) : subscribing[j] = d
    BY <2>4, <1>6 DEF Served
  <2> QED BY <2>1, <2>2, <2>3, <2>4 DEF Served
<1>9. OneForAll'
  <2> SUFFICES ASSUME ~overlapped' PROVE OneForAll'
    BY DEF OneForAll
  <2>1. subscribing # <<>>
    BY <1>1, EmptySeq
  <2>2. Len(subscribing) = 1 /\ subscriptions = <<>> /\ interested = {subscribing[1]}
    BY <2>1, <1>3 DEF BridgeIInv, OneForAll
  <2>3. i = 1 /\ Len(subscribing') = 0 /\ Len(subscriptions) = 0
    BY <2>2, <1>6, EmptySeq
  <2>4. subscribing' = <<>>
    BY <2>3, <1>6, EmptySeq
  <2>5. Len(subscriptions') = 1 /\ subscriptions'[1] = {subscribing[1]}
    BY <2>3, <1>5
  <2> QED BY <2>2, <2>4, <2>5, <1>3 DEF OneForAll
<1>10. EchoesGood'
  BY <1>3, EchoesFramed DEF BridgeIInv
<1> QED BY <1>7, <1>8, <1>9, <1>10 DEF BridgeIInv

LEMMA OnUnsubscribedKeeps ==
  ASSUME BridgeIInv, NEW c \in Client, OnUnsubscribed(c)
  PROVE  BridgeIInv'
<1>1. /\ c \in interested /\ interested' = interested \ {c} /\ BridgeRest
      /\ overlapped' = (overlapped \/ subscribing # <<>>) /\ subscribing' = subscribing
  BY DEF OnUnsubscribed, BridgeRest
<1>2. BridgeTypeOK /\ Len(subscribing) \in Nat /\ Len(subscriptions) \in Nat
  BY LenProperties DEF BridgeIInv, BridgeTypeOK
<1>3. EchoesGood'
  BY <1>1, EchoesFramed DEF BridgeIInv
<1>4. overlapped' \in BOOLEAN /\ (~overlapped' => ~overlapped /\ subscribing = <<>>)
  BY <1>1, <1>2 DEF BridgeTypeOK
<1>5. \A d \in interested' : d # c /\ Served(d)
  BY <1>1 DEF BridgeIInv
<1>6. CASE subscriptions = <<>>
  <2>1. subscriptions' = <<>>
    BY <1>6 DEF OnUnsubscribed
  <2>2. BridgeTypeOK'
    BY <1>1, <1>2, <1>4, <1>6, <2>1 DEF BridgeTypeOK, BridgeRest
  <2>3. \A d \in interested' : Served(d)'
    BY <1>1, <1>5, <1>6, <2>1 DEF Served
  <2>4. OneForAll'
    <3> SUFFICES ASSUME ~overlapped' PROVE OneForAll'
      BY DEF OneForAll
    <3>1. Len(subscribing) = 0 /\ Len(subscriptions) = 0
      BY <1>4, <1>6, EmptySeq
    <3>2. interested = {}
      BY <3>1, <1>4, <1>6 DEF BridgeIInv, OneForAll
    <3> QED BY <3>2, <1>1
  <2> QED BY <1>3, <2>2, <2>3, <2>4 DEF BridgeIInv
<1>7. CASE subscriptions # <<>> /\ subscriptions[1] \subseteq {c}
  <2>1. subscriptions' = Tail(subscriptions)
    BY <1>7 DEF OnUnsubscribed
  <2>2. /\ subscriptions' \in Seq(SUBSET Client) /\ Len(subscriptions') = Len(subscriptions) - 1
        /\ \A i \in 1 .. Len(subscriptions') : subscriptions'[i] = subscriptions[i + 1]
    BY <1>2, <1>7, <2>1, HeadTailProperties DEF BridgeTypeOK
  <2>3. BridgeTypeOK'
    BY <1>1, <1>2, <1>4, <2>2 DEF BridgeTypeOK, BridgeRest
  <2>4. ASSUME NEW d \in interested' PROVE Served(d)'
    <3>1. CASE \E i \in 1 .. Len(subscribing) : subscribing[i] = d
      BY <3>1, <1>1 DEF Served
    <3>2. CASE \E i \in 1 .. Len(subscriptions) : d \in subscriptions[i]
      <4>1. PICK i \in 1 .. Len(subscriptions) : d \in subscriptions[i]
        BY <3>2
      <4>2. i # 1
        BY <4>1, <1>5, <1>7, <2>4
      <4>3. i - 1 \in 1 .. Len(subscriptions') /\ (i - 1) + 1 = i
        BY <4>1, <4>2, <2>2, <1>2
      <4>4. d \in subscriptions'[i - 1]
        BY <4>1, <4>3, <2>2
      <4> QED BY <4>3, <4>4 DEF Served
    <3> QED BY <3>1, <3>2, <1>5, <2>4 DEF Served
  <2>5. OneForAll'
    <3> SUFFICES ASSUME ~overlapped' PROVE OneForAll'
      BY DEF OneForAll
    <3>1. subscribing = <<>> /\ Len(subscriptions) = 1 /\ subscriptions[1] = interested
      BY <1>4, <1>7, EmptySeq DEF BridgeIInv, OneForAll
    <3>2. subscriptions' = <<>>
      BY <3>1, <2>2, EmptySeq
    <3>3. interested' = {}
      BY <3>1, <1>1, <1>7
    <3> QED BY <3>1, <3>2, <3>3, <1>1 DEF OneForAll
  <2> QED BY <1>3, <2>3, <2>4, <2>5 DEF BridgeIInv
<1>8. CASE subscriptions # <<>> /\ ~(subscriptions[1] \subseteq {c})
  <2>1. subscriptions' = [subscriptions EXCEPT ![1] = @ \ {c}]
    BY <1>8 DEF OnUnsubscribed
  <2>2. 1 \in 1 .. Len(subscriptions)
    BY <1>2, <1>8, EmptySeq DEF BridgeTypeOK
  <2>3. subscriptions[1] \ {c} \in SUBSET Client
    BY <1>2, <2>2, ElementOfSeq DEF BridgeTypeOK
  <2>4. /\ subscriptions' \in Seq(SUBSET Client) /\ Len(subscriptions') = Len(subscriptions)
        /\ \A i \in 1 .. Len(subscriptions) :
             subscriptions'[i] = IF i = 1 THEN subscriptions[1] \ {c} ELSE subscriptions[i]
    BY <1>2, <2>1, <2>2, <2>3, ExceptSeq DEF BridgeTypeOK
  <2>5. BridgeTypeOK'
    BY <1>1, <1>2, <1>4, <2>4 DEF BridgeTypeOK, BridgeRest
  <2>6. ASSUME NEW d \in interested' PROVE Served(d)'
    BY <2>6, <1>1, <1>5, <2>2, <2>4 DEF Served
  <2>7. OneForAll'
    <3> SUFFICES ASSUME ~overlapped' PROVE OneForAll'
      BY DEF OneForAll
    <3>1. subscribing = <<>> /\ Len(subscriptions) = 1 /\ subscriptions[1] = interested
      BY <1>4, <1>8, EmptySeq DEF BridgeIInv, OneForAll
    <3> QED BY <3>1, <2>2, <2>4, <1>1 DEF OneForAll
  <2> QED BY <1>3, <2>5, <2>6, <2>7 DEF BridgeIInv
<1> QED BY <1>6, <1>7, <1>8

\* Steps of the messages leave the subscriptions alone.
LEMMA SubscriptionsFramed ==
  ASSUME BridgeIInv, UNCHANGED <<interested, subscribing, subscriptions, overlapped>>,
         publishMessageChains' \subseteq Client, sent' \in [Client -> Seq(SentRecord)], EchoesGood'
  PROVE  BridgeIInv'
<1>1. BridgeTypeOK'
  BY DEF BridgeIInv, BridgeTypeOK
<1>2. OneForAll'
  BY DEF BridgeIInv, OneForAll
<1>3. \A c \in interested' : Served(c)'
  BY DEF BridgeIInv, Served
<1> QED BY <1>1, <1>2, <1>3 DEF BridgeIInv

LEMMA OnMessageReceivedKeeps ==
  ASSUME BridgeIInv, NEW c \in Client, OnMessageReceived(c)
  PROVE  BridgeIInv'
<1>1. PICK m : m = [step |-> "publishing", arrived |-> FALSE, known |-> c \in publishMessageChains]
  OBVIOUS
<1>2. sent' = [sent EXCEPT ![c] = Append(sent[c], m)]
  BY <1>1 DEF OnMessageReceived
<1>3. m \in SentRecord /\ (m.known => c \in publishMessageChains)
  <2>1. PICK x \in BOOLEAN : x <=> c \in publishMessageChains
    OBVIOUS
  <2>2. x = (c \in publishMessageChains)
    BY <2>1
  <2>3. m = [step |-> "publishing", arrived |-> FALSE, known |-> x]
    BY <1>1, <2>2
  <2> QED BY <2>1, <2>3 DEF SentRecord
<1>4. UNCHANGED <<interested, subscribing, subscriptions, publishMessageChains, echoed, overlapped>>
  BY DEF OnMessageReceived
<1>5. sent \in [Client -> Seq(SentRecord)] /\ sent[c] \in Seq(SentRecord) /\ Len(sent[c]) \in Nat
  BY LenProperties DEF BridgeIInv, BridgeTypeOK
<1>6. PICK q : q = Append(sent[c], m)
  OBVIOUS
<1>7. /\ q \in Seq(SentRecord) /\ Len(q) = Len(sent[c]) + 1 /\ q[Len(sent[c]) + 1] = m
      /\ \A i \in 1 .. Len(sent[c]) : q[i] = sent[c][i]
  BY <1>3, <1>5, <1>6, AppendProperties
<1>8. sent' = [sent EXCEPT ![c] = q] /\ sent' \in [Client -> Seq(SentRecord)]
  BY <1>2, <1>5, <1>6, <1>7
<1>9. EchoesGood'
  <2>1. ASSUME NEW d \in Client, NEW i \in 1 .. Len(sent'[d]), sent'[d][i].known
        PROVE  d \in publishMessageChains'
    <3>1. CASE d # c
      BY <3>1, <2>1, <1>4, <1>5, <1>8 DEF BridgeIInv, EchoesGood
    <3>2. CASE d = c /\ i = Len(sent[c]) + 1
      BY <3>2, <2>1, <1>3, <1>4, <1>5, <1>7, <1>8
    <3>3. CASE d = c /\ i \in 1 .. Len(sent[c])
      BY <3>3, <2>1, <1>4, <1>5, <1>7, <1>8 DEF BridgeIInv, EchoesGood
    <3> QED BY <3>1, <3>2, <3>3, <1>5, <1>7, <1>8
  <2>2. ASSUME NEW x \in echoed'
        PROVE  \E d \in Client : \E i \in 1 .. Len(sent'[d]) : x = <<d, i>> /\ ~sent'[d][i].known
    <3>0. PICK d \in Client : \E i \in 1 .. Len(sent[d]) : x = <<d, i>> /\ ~sent[d][i].known
      BY <2>2, <1>4 DEF BridgeIInv, EchoesGood
    <3>1. PICK i \in 1 .. Len(sent[d]) : x = <<d, i>> /\ ~sent[d][i].known
      BY <3>0
    <3>2. i \in 1 .. Len(sent'[d]) /\ sent'[d][i] = sent[d][i]
      BY <3>1, <1>5, <1>7, <1>8
    <3> QED BY <3>1, <3>2
  <2> QED BY <2>1, <2>2 DEF EchoesGood
<1> QED BY <1>4, <1>8, <1>9, SubscriptionsFramed DEF BridgeIInv, BridgeTypeOK

\* One message changes, but not whether its chain was known.
LEMMA MessageChanged ==
  ASSUME BridgeIInv, NEW c \in Client, NEW i \in 1 .. Len(sent[c]), NEW m \in SentRecord,
         m.known = sent[c][i].known, sent' = [sent EXCEPT ![c][i] = m]
  PROVE  /\ sent' \in [Client -> Seq(SentRecord)]
         /\ \A d \in Client : Len(sent'[d]) = Len(sent[d])
         /\ \A d \in Client : \A j \in 1 .. Len(sent[d]) : sent'[d][j].known = sent[d][j].known
<1>1. sent \in [Client -> Seq(SentRecord)] /\ sent[c] \in Seq(SentRecord) /\ Len(sent[c]) \in Nat
  BY LenProperties DEF BridgeIInv, BridgeTypeOK
<1>2. PICK q : q = [sent[c] EXCEPT ![i] = m]
  OBVIOUS
<1>3. /\ q \in Seq(SentRecord) /\ Len(q) = Len(sent[c])
      /\ \A j \in 1 .. Len(sent[c]) : q[j] = IF j = i THEN m ELSE sent[c][j]
  BY <1>1, <1>2, ExceptSeq
<1>4. sent' = [sent EXCEPT ![c] = q]
  BY <1>2
<1> QED BY <1>1, <1>3, <1>4

LEMMA PublishedKeeps ==
  ASSUME BridgeIInv, NEW c \in Client, NEW i \in 1 .. Len(sent[c]), Published(c, i)
  PROVE  BridgeIInv'
<1>1. PICK m : m = [sent[c][i] EXCEPT !.step = "resolved"]
  OBVIOUS
<1>2. sent' = [sent EXCEPT ![c][i] = m]
  BY <1>1 DEF Published
<1>3. sent[c][i] \in SentRecord
  BY ElementOfSeq DEF BridgeIInv, BridgeTypeOK
<1>4. m \in SentRecord /\ m.known = sent[c][i].known
  BY <1>1, <1>3 DEF SentRecord
<1>5. /\ sent' \in [Client -> Seq(SentRecord)]
      /\ \A d \in Client : Len(sent'[d]) = Len(sent[d])
      /\ \A d \in Client : \A j \in 1 .. Len(sent[d]) : sent'[d][j].known = sent[d][j].known
  BY <1>2, <1>4, MessageChanged
<1>6. publishMessageChains' = publishMessageChains \cup {c}
      /\ UNCHANGED <<interested, subscribing, subscriptions, echoed, overlapped>>
  BY DEF Published
<1>7. EchoesGood'
  <2>1. \A d \in Client : \A j \in 1 .. Len(sent'[d]) : sent'[d][j].known => d \in publishMessageChains'
    BY <1>5, <1>6 DEF BridgeIInv, EchoesGood
  <2>2. \A x \in echoed' : \E d \in Client : \E j \in 1 .. Len(sent'[d]) :
          x = <<d, j>> /\ ~sent'[d][j].known
    BY <1>5, <1>6 DEF BridgeIInv, EchoesGood
  <2> QED BY <2>1, <2>2 DEF EchoesGood
<1>8. publishMessageChains' \subseteq Client
  BY <1>6 DEF BridgeIInv, BridgeTypeOK
<1> QED BY <1>5, <1>6, <1>7, <1>8, SubscriptionsFramed

LEMMA ComesBackKeeps ==
  ASSUME BridgeIInv, NEW c \in Client, NEW i \in 1 .. Len(sent[c]), ComesBack(c, i)
  PROVE  BridgeIInv'
<1>1. PICK m : m = [sent[c][i] EXCEPT !.arrived = TRUE]
  OBVIOUS
<1>2. sent' = [sent EXCEPT ![c][i] = m]
  BY <1>1 DEF ComesBack
<1>3. sent[c][i] \in SentRecord
  BY ElementOfSeq DEF BridgeIInv, BridgeTypeOK
<1>4. m \in SentRecord /\ m.known = sent[c][i].known
  BY <1>1, <1>3 DEF SentRecord
<1>5. /\ sent' \in [Client -> Seq(SentRecord)]
      /\ \A d \in Client : Len(sent'[d]) = Len(sent[d])
      /\ \A d \in Client : \A j \in 1 .. Len(sent[d]) : sent'[d][j].known = sent[d][j].known
  BY <1>2, <1>4, MessageChanged
<1>6. UNCHANGED <<interested, subscribing, subscriptions, publishMessageChains, overlapped>>
  BY DEF ComesBack
<1>7. \A x \in echoed' : x \in echoed \/ (x = <<c, i>> /\ c \notin publishMessageChains)
  BY DEF ComesBack
<1>8. EchoesGood'
  <2>1. \A d \in Client : \A j \in 1 .. Len(sent'[d]) : sent'[d][j].known => d \in publishMessageChains'
    BY <1>5, <1>6 DEF BridgeIInv, EchoesGood
  <2>2. ASSUME NEW x \in echoed'
        PROVE  \E d \in Client : \E j \in 1 .. Len(sent'[d]) : x = <<d, j>> /\ ~sent'[d][j].known
    <3>1. CASE x \in echoed
      BY <3>1, <1>5 DEF BridgeIInv, EchoesGood
    <3>2. CASE x = <<c, i>> /\ c \notin publishMessageChains
      <4>1. ~sent[c][i].known
        BY <3>2 DEF BridgeIInv, EchoesGood
      <4> QED BY <3>2, <4>1, <1>5
    <3> QED BY <3>1, <3>2, <1>7, <2>2
  <2> QED BY <2>1, <2>2 DEF EchoesGood
<1>9. publishMessageChains' \subseteq Client
  BY <1>6 DEF BridgeIInv, BridgeTypeOK
<1> QED BY <1>5, <1>6, <1>8, <1>9, SubscriptionsFramed

LEMMA BridgeSteps == BridgeIInv /\ [BridgeNext]_bridgeVars => BridgeIInv'
<1> SUFFICES ASSUME BridgeIInv, [BridgeNext]_bridgeVars PROVE BridgeIInv'
  OBVIOUS
<1>1. CASE UNCHANGED bridgeVars
  <2>1. UNCHANGED <<interested, subscribing, subscriptions, overlapped, sent, publishMessageChains,
                    echoed>>
    BY <1>1 DEF bridgeVars
  <2>2. EchoesGood'
    BY <2>1 DEF BridgeIInv, EchoesGood
  <2> QED BY <2>1, <2>2, SubscriptionsFramed DEF BridgeIInv, BridgeTypeOK
<1>2. ASSUME NEW c \in Client, NEW i \in DOMAIN sent[c], Published(c, i) \/ ComesBack(c, i)
      PROVE  BridgeIInv'
  <2>1. i \in 1 .. Len(sent[c])
    BY LenProperties DEF BridgeIInv, BridgeTypeOK
  <2> QED BY <1>2, <2>1, PublishedKeeps, ComesBackKeeps
<1> QED
  BY <1>1, <1>2, SubscribedKeeps, OnSubscribedKeeps, OnUnsubscribedKeeps, OnMessageReceivedKeeps
  DEF BridgeNext

\* Whatever calls overlap, an MQTT client that is subscribed is served; unless some did
\* there is one subscription, of those clients; and of what they publish only what came
\* back before anything of its client was published is returned to them.
THEOREM BridgeServesItsClients == BridgeSpec => []BridgeInv
<1>1. BridgeIInv => BridgeInv
  <2> SUFFICES ASSUME BridgeIInv PROVE BridgeInv
    OBVIOUS
  <2>1. BridgeTypeOK /\ DOMAIN subscribing = 1 .. Len(subscribing)
        /\ DOMAIN subscriptions = 1 .. Len(subscriptions)
    BY LenProperties DEF BridgeIInv, BridgeTypeOK
  <2>2. SubscribersAreServed
    BY <2>1 DEF BridgeIInv, Served, SubscribersAreServed, ToSet
  <2>3. SharedByItsClients
    <3>1. Len(<<>>) = 0
      OBVIOUS
    <3>2. ~overlapped /\ subscribing = <<>> => Len(subscribing) # 1
      BY <3>1
    <3> QED BY <3>2 DEF BridgeIInv, OneForAll, SharedByItsClients
  <2>4. FirstOnlyEchoes
    BY DEF BridgeIInv, EchoesGood, FirstOnlyEchoes
  <2> QED BY <2>2, <2>3, <2>4 DEF BridgeInv
<1> QED BY <1>1, BridgeStarts, BridgeSteps, PTL DEF BridgeSpec

-----------------------------------------------------------------------------
(* The client's view of the registry.                                              *)

Block == [exists : BOOLEAN, fields : SUBSET Field, granted : SUBSET {"user", "public"}]
Entry == [at : Nat, since : Nat, behind : BOOLEAN, raced : BOOLEAN]
Change == [step : {"idle", "sent", "half", "mined"}, block : Nat, field : SUBSET Field,
           alone : BOOLEAN]

\* The ranges of the variables: providers are at blocks that exist, and so are the
\* changes that were confirmed.
RegistryTyped ==
  /\ blocks \in Seq(Block) /\ Len(blocks) \in Nat \ {0}
  /\ height \in [Provider -> 1 .. Len(blocks)]
  /\ cache \in [Cache -> Entry]
  /\ metadata \in SUBSET Field /\ kept \in SUBSET Field
  /\ changing \in [Call -> Change]
  /\ \A k \in Call : changing[k].block <= Len(blocks)
  /\ confirmed \in [Cache -> 0 .. Len(blocks)]

\* An entry was read, or is being read, no earlier than at block b, unless the provider
\* was behind.
ReadsAfter(e, b) ==
  /\ e.since > 0 => e.since >= b
  /\ e.at > 0 /\ ~e.behind => e.at >= b

\* What a read that started after a change sees: of the stream because the changes clear
\* the cache when they resolve, of the permissions because no change was under way.
SeesChanges ==
  /\ ReadsAfter(cache["stream"], confirmed["stream"])
  /\ \/ cache["publisher"].raced
     \/ cache["publisher"].since = 0 /\ cache["publisher"].at = 0
     \/ /\ ReadsAfter(cache["publisher"], confirmed["publisher"])
        /\ \A k \in {"grant", "set"} :
             /\ changing[k].step \in {"idle", "mined"}
             /\ ReadsAfter(cache["publisher"], changing[k].block)

\* The fields of resolved updates are in the object and in every update under way, and
\* an update that is alone is what the chain has.
Adds ==
  /\ kept \subseteq metadata /\ kept \subseteq Stream.fields
  /\ \A k \in UpdateCall : Busy(k) =>
       /\ kept \subseteq changing[k].field
       /\ changing[k].alone => /\ \A j \in UpdateCall : Busy(j) => j = k
                               /\ changing[k].step = "mined" => changing[k].field \subseteq Stream.fields

RegistryIInv == RegistryTyped /\ SeesChanges /\ Adds /\ CreatedExists

LEMMA JoinedChange ==
  ASSUME NEW e \in Change, NEW x, x = [e EXCEPT !.alone = FALSE]
  PROVE  /\ x \in Change /\ x.step = e.step /\ x.field = e.field
         /\ x.block = e.block /\ ~x.alone
BY DEF Change

LEMMA BlockRecords ==
  ASSUME NEW s \in Block, NEW f \in SUBSET Field, NEW e \in BOOLEAN,
         NEW w \in SUBSET {"user", "public"}
  PROVE  /\ LET x == [s EXCEPT !.fields = f]
            IN  x \in Block /\ x.fields = f /\ x.exists = s.exists
         /\ LET x == [s EXCEPT !.exists = e]
            IN  x \in Block /\ x.fields = s.fields /\ x.exists = e
         /\ LET x == Flipped(s, w)
            IN  x \in Block /\ x.fields = s.fields /\ x.exists = s.exists
BY DEF Block, Flipped

\* A block more: what was there stays.
LEMMA BlockAdded ==
  ASSUME RegistryTyped, NEW s \in Block, Put(s)
  PROVE  /\ blocks' \in Seq(Block) /\ Len(blocks') = Len(blocks) + 1 /\ Stream' = s
         /\ \A b \in 1 .. Len(blocks) : blocks'[b] = blocks[b]
<1>1. blocks \in Seq(Block) /\ Len(blocks) \in Nat
  BY DEF RegistryTyped
<1>2. blocks' = Append(blocks, s)
  BY DEF Put
<1> QED BY <1>1, <1>2, AppendProperties DEF Stream, Top

LEMMA StreamIsBlock ==
  ASSUME RegistryTyped
  PROVE  Stream \in Block /\ Len(blocks) \in 1 .. Len(blocks)
<1>1. Len(blocks) \in 1 .. Len(blocks)
  BY DEF RegistryTyped
<1> QED BY <1>1, ElementOfSeq DEF RegistryTyped, Stream, Top

LEMMA RegistryStarts == RegistryInit => RegistryIInv
<1> SUFFICES ASSUME RegistryInit PROVE RegistryIInv
  OBVIOUS
<1>1. PICK e \in BOOLEAN : blocks = <<[exists |-> e, fields |-> {}, granted |-> {}]>>
  BY DEF RegistryInit
<1>2. [exists |-> e, fields |-> {}, granted |-> {}] \in Block
  BY DEF Block
<1>3. blocks \in Seq(Block) /\ Len(blocks) = 1
  BY <1>1, <1>2
<1>4. NoEntry \in Entry /\ Idle \in Change
  BY DEF NoEntry, Entry, Idle, Change
<1>5. RegistryTyped
  <2>1. \A k \in Call : changing[k].block <= 1
    BY DEF RegistryInit, Idle
  <2> QED BY <1>3, <1>4, <2>1 DEF RegistryInit, RegistryTyped
<1>6. SeesChanges
  BY DEF RegistryInit, SeesChanges, ReadsAfter, NoEntry, Cache
<1>7. Adds
  BY DEF RegistryInit, Adds, Busy, Idle, UpdateCall, Call
<1>8. CreatedExists
  BY DEF RegistryInit, CreatedExists
<1> QED BY <1>5, <1>6, <1>7, <1>8 DEF RegistryIInv

\* A call that begins: only calls of Stream.update hear of each other.
LEMMA BeginSets ==
  ASSUME RegistryTyped, NEW k \in Call, NEW f \in SUBSET Field, Begin(k, f)
  PROVE  /\ changing' \in [Call -> Change]
         /\ changing'[k].step = "sent" /\ changing'[k].block = 0 /\ changing'[k].field = f
         /\ k \in UpdateCall /\ changing'[k].alone => \A j \in UpdateCall : ~Busy(j)
         /\ \A j \in Call : j # k =>
              /\ changing'[j].step = changing[j].step
              /\ changing'[j].block = changing[j].block
              /\ changing'[j].field = changing[j].field
              /\ changing'[j].alone => changing[j].alone
              /\ changing'[j].alone => ~(k \in UpdateCall /\ j \in UpdateCall /\ Busy(j))
<1> DEFINE others == IF k \in UpdateCall THEN {j \in UpdateCall : Busy(j)} ELSE {}
           new(j) == IF j = k THEN [Idle EXCEPT !.step = "sent", !.field = f, !.alone = (others = {})]
                     ELSE IF j \in others THEN [changing[j] EXCEPT !.alone = FALSE] ELSE changing[j]
<1>1. changing' = [j \in Call |-> new(j)]
  BY DEF Begin
<1>2. \A j \in Call : changing[j] \in Change
  BY DEF RegistryTyped
<1>3. PICK a \in BOOLEAN : a <=> others = {}
  OBVIOUS
<1>4. a = (others = {})
  BY <1>3
<1> HIDE DEF others
<1>5. /\ new(k) \in Change /\ new(k).step = "sent" /\ new(k).block = 0 /\ new(k).field = f
      /\ new(k).alone <=> others = {}
  <2>1. new(k) = [Idle EXCEPT !.step = "sent", !.field = f, !.alone = a]
    BY <1>4
  <2>2. PICK x : x = [Idle EXCEPT !.step = "sent", !.field = f, !.alone = a]
    OBVIOUS
  <2>3. x \in Change /\ x.step = "sent" /\ x.field = f /\ x.alone = a /\ x.block = 0
    BY <2>2 DEF Change, Idle
  <2>4. new(k) = x
    BY <2>1, <2>2
  <2> HIDE DEF new
  <2> QED BY <2>3, <2>4, <1>3
<1>6. ASSUME NEW j \in Call, j # k
      PROVE  /\ new(j) \in Change /\ new(j).step = changing[j].step
             /\ new(j).block = changing[j].block /\ new(j).field = changing[j].field
             /\ new(j).alone => (changing[j].alone /\ j \notin others)
  <2>1. CASE j \in others
    <3>1. PICK x : x = [changing[j] EXCEPT !.alone = FALSE]
      OBVIOUS
    <3>2. /\ x \in Change /\ x.step = changing[j].step /\ x.field = changing[j].field
          /\ x.block = changing[j].block /\ ~x.alone
      BY <3>1, <1>2, JoinedChange
    <3>3. new(j) = x
      BY <2>1, <1>6, <3>1
    <3> HIDE DEF new
    <3> QED BY <3>2, <3>3, <1>6
  <2>2. CASE j \notin others
    BY <2>2, <1>6, <1>2
  <2> QED BY <2>1, <2>2
<1>7. \A j \in Call : changing'[j] = new(j)
  BY <1>1
<1>8. changing' \in [Call -> Change]
  <2>1. \A j \in Call : new(j) \in Change
    BY <1>5, <1>6
  <2> HIDE DEF new
  <2> QED BY <1>1, <2>1
<1> HIDE DEF new
<1>9. k \in UpdateCall /\ others = {} => \A j \in UpdateCall : ~Busy(j)
  BY DEF others
<1>10. \A j : k \in UpdateCall /\ j \in UpdateCall /\ Busy(j) => j \in others
  BY DEF others
<1> QED BY <1>5, <1>6, <1>7, <1>8, <1>9, <1>10

\* The caches are cleared.
LEMMA Cleared ==
  ASSUME RegistryTyped, cache' = ClearStreamCache
  PROVE  /\ cache' \in [Cache -> Entry]
         /\ cache'["stream"] = NoEntry /\ cache'["publisher"] = NoEntry
<1>1. NoEntry \in Entry
  BY DEF NoEntry, Entry
<1> HIDE DEF NoEntry, Entry
<1> QED BY <1>1 DEF RegistryTyped, ClearStreamCache, Cache

LEMMA ClearedSees ==
  ASSUME cache'["stream"] = NoEntry, cache'["publisher"] = NoEntry
  PROVE  SeesChanges'
<1>1. NoEntry.since = 0 /\ NoEntry.at = 0
  BY DEF NoEntry
<1> QED BY <1>1 DEF SeesChanges, ReadsAfter

LEMMA CatchUpKeeps ==
  ASSUME RegistryIInv, NEW p \in Provider, CatchUp(p)
  PROVE  RegistryIInv'
<1>1. height' \in [Provider -> 1 .. Len(blocks)]
  BY DEF RegistryIInv, RegistryTyped, CatchUp, Top
<1>2. RegistryTyped'
  BY <1>1 DEF RegistryIInv, RegistryTyped, CatchUp
<1> QED
  BY <1>2 DEF RegistryIInv, CatchUp, SeesChanges, Adds, CreatedExists, Stream, Top, Busy

\* An entry that takes its place as a read does.
LEMMA EntryKeeps ==
  ASSUME RegistryIInv, NEW c \in Cache, NEW e \in Entry, cache' = [cache EXCEPT ![c] = e],
         UNCHANGED <<blocks, height, metadata, changing, creating, confirmed, kept>>,
         c = "stream" => ReadsAfter(e, confirmed["stream"]),
         c = "publisher" =>
           \/ e.raced \/ (e.since = 0 /\ e.at = 0)
           \/ /\ ReadsAfter(e, confirmed["publisher"])
              /\ \A k \in {"grant", "set"} :
                   /\ changing[k].step \in {"idle", "mined"}
                   /\ ReadsAfter(e, changing[k].block)
  PROVE  RegistryIInv'
<1>1. cache' \in [Cache -> Entry] /\ cache'[c] = e /\ \A d \in Cache : d # c => cache'[d] = cache[d]
  BY DEF RegistryIInv, RegistryTyped
<1>2. RegistryTyped'
  BY <1>1 DEF RegistryIInv, RegistryTyped
<1>3. SeesChanges'
  <2>1. ReadsAfter(cache["stream"], confirmed["stream"])'
    <3>1. CASE c = "stream"
      BY <3>1, <1>1 DEF ReadsAfter
    <3>2. CASE c # "stream"
      BY <3>2, <1>1 DEF ReadsAfter, Cache, RegistryIInv, SeesChanges
    <3> QED BY <3>1, <3>2
  <2>2. CASE c = "publisher"
    BY <2>1, <2>2, <1>1 DEF ReadsAfter, SeesChanges
  <2>3. CASE c # "publisher"
    BY <2>1, <2>3, <1>1 DEF ReadsAfter, SeesChanges, Cache, RegistryIInv
  <2> QED BY <2>2, <2>3
<1>4. Adds' /\ CreatedExists'
  BY DEF RegistryIInv, Adds, CreatedExists, Stream, Top, Busy
<1> QED BY <1>2, <1>3, <1>4 DEF RegistryIInv

LEMMA LookupKeeps ==
  ASSUME RegistryIInv, NEW c \in Cache, Lookup(c)
  PROVE  RegistryIInv'
<1>1. PICK r \in BOOLEAN : r <=> Permitting
  OBVIOUS
<1>2. r = Permitting
  BY <1>1
<1>3. Top \in Nat
  BY DEF RegistryIInv, RegistryTyped, Top
<1>4. PICK e : e = [NoEntry EXCEPT !.since = Top, !.raced = r]
  OBVIOUS
<1>5. e \in Entry /\ e.since = Top /\ e.at = 0 /\ e.raced = r
  BY <1>1, <1>3, <1>4 DEF Entry, NoEntry
<1>6. cache' = [cache EXCEPT ![c] = e]
  BY <1>2, <1>4 DEF Lookup
<1>7. /\ \A d \in Cache : confirmed[d] \in Nat /\ confirmed[d] <= Top
      /\ \A k \in Call : changing[k] \in Change /\ changing[k].block <= Top
  BY DEF RegistryIInv, RegistryTyped, Top
<1>8. \A d \in Cache : ReadsAfter(e, confirmed[d])
  BY <1>5, <1>7, <1>3 DEF ReadsAfter
<1>9. \A k \in Call : ReadsAfter(e, changing[k].block)
  BY <1>5, <1>7, <1>3 DEF ReadsAfter, Change
<1>10. ~e.raced => \A k \in {"grant", "set"} : changing[k].step \in {"idle", "mined"}
  BY <1>5, <1>1, <1>7 DEF Permitting, Change, Call
<1>11. "grant" \in Call /\ "set" \in Call /\ "stream" \in Cache /\ "publisher" \in Cache
  BY DEF Call, Cache
<1>12. UNCHANGED <<blocks, height, metadata, changing, creating, confirmed, kept>>
  BY DEF Lookup
<1> HIDE DEF RegistryIInv, Entry, NoEntry, Top
<1> QED BY <1>5, <1>6, <1>8, <1>9, <1>10, <1>11, <1>12, EntryKeeps

LEMMA AnswerKeeps ==
  ASSUME RegistryIInv, NEW c \in Cache, Answer(c)
  PROVE  RegistryIInv'
<1>1. PICK p \in Provider :
        cache' = [cache EXCEPT ![c].at = height[p], ![c].since = 0,
                               ![c].behind = height[p] < cache[c].since]
  BY DEF Answer, Answering, QueryAllReadonlyContracts
<1>2. cache[c] \in Entry /\ height[p] \in Nat \ {0} /\ cache[c].since \in Nat /\ cache[c].since > 0
  BY DEF RegistryIInv, RegistryTyped, Entry, Answer
<1>3. PICK b \in BOOLEAN : b <=> height[p] < cache[c].since
  OBVIOUS
<1>4. b = (height[p] < cache[c].since)
  BY <1>3
<1>5. PICK e : e = [cache[c] EXCEPT !.at = height[p], !.since = 0, !.behind = b]
  OBVIOUS
<1>6. /\ e \in Entry /\ e.since = 0 /\ e.at = height[p] /\ e.behind = b
      /\ e.raced = cache[c].raced
  BY <1>2, <1>3, <1>5 DEF Entry
<1>7. cache' = [cache EXCEPT ![c] = e]
  BY <1>1, <1>4, <1>5, <1>2 DEF RegistryIInv, RegistryTyped
<1>8. \A n \in Nat : ReadsAfter(cache[c], n) => ReadsAfter(e, n)
  BY <1>6, <1>3, <1>2 DEF ReadsAfter
<1>9. /\ \A d \in Cache : confirmed[d] \in Nat
      /\ \A k \in {"grant", "set"} : changing[k].block \in Nat
      /\ "stream" \in Cache /\ "publisher" \in Cache
  BY DEF RegistryIInv, RegistryTyped, Change, Call, Cache
<1>10. SeesChanges
  BY DEF RegistryIInv
<1>11. c = "stream" => ReadsAfter(e, confirmed["stream"])
  BY <1>10, <1>9, <1>8 DEF SeesChanges
<1>12. c = "publisher" =>
         \/ e.raced
         \/ /\ ReadsAfter(e, confirmed["publisher"])
            /\ \A k \in {"grant", "set"} :
                 /\ changing[k].step \in {"idle", "mined"}
                 /\ ReadsAfter(e, changing[k].block)
  BY <1>10, <1>9, <1>8, <1>6, <1>2 DEF SeesChanges
<1>13. UNCHANGED <<blocks, height, metadata, changing, creating, confirmed, kept>>
  BY DEF Answer
<1> HIDE DEF RegistryIInv, Entry
<1> QED BY <1>6, <1>7, <1>11, <1>12, <1>13, EntryKeeps

LEMMA EntryGoneKeeps ==
  ASSUME RegistryIInv, NEW c \in Cache, Reject(c) \/ Expire(c)
  PROVE  RegistryIInv'
<1>1. NoEntry \in Entry /\ NoEntry.at = 0 /\ NoEntry.since = 0
  BY DEF NoEntry, Entry
<1>2. \A b : ReadsAfter(NoEntry, b)
  BY <1>1 DEF ReadsAfter
<1>3. /\ cache' = [cache EXCEPT ![c] = NoEntry]
      /\ UNCHANGED <<blocks, height, metadata, changing, creating, confirmed, kept>>
  BY DEF Reject, Expire
<1> HIDE DEF RegistryIInv, Entry, NoEntry
<1> QED BY <1>1, <1>2, <1>3, EntryKeeps

\* A call that begins adds nothing yet.
LEMMA BeginAdds ==
  ASSUME RegistryTyped, Adds, NEW k \in Call, NEW f \in SUBSET Field, Begin(k, f), ~Busy(k),
         k \in UpdateCall => metadata \subseteq f, UNCHANGED <<blocks, metadata, kept>>
  PROVE  Adds'
<1>1. /\ changing'[k].step = "sent" /\ changing'[k].field = f
      /\ (k \in UpdateCall /\ changing'[k].alone) => (\A j \in UpdateCall : ~Busy(j))
      /\ \A j \in Call : j # k =>
           /\ changing'[j].step = changing[j].step
           /\ changing'[j].field = changing[j].field
           /\ changing'[j].alone => changing[j].alone
           /\ changing'[j].alone => ~(k \in UpdateCall /\ j \in UpdateCall /\ Busy(j))
  BY BeginSets
<1>2. Stream' = Stream
  BY DEF Stream, Top
<1>3. UpdateCall \subseteq Call
  BY DEF UpdateCall, Call
<1>4. \A j \in UpdateCall : j # k => Busy(j)' = Busy(j)
  BY <1>1, <1>3 DEF Busy
<1>5. ASSUME NEW j \in UpdateCall, Busy(j)'
      PROVE  /\ kept \subseteq changing'[j].field
             /\ changing'[j].alone => /\ \A i \in UpdateCall : Busy(i)' => i = j
                                      /\ changing'[j].step = "mined" => changing'[j].field \subseteq Stream.fields
  <2>1. CASE j = k
    BY <2>1, <1>1, <1>4 DEF Adds
  <2>2. CASE j # k
    <3>1. Busy(j)
      BY <2>2, <1>5, <1>4
    <3>2. kept \subseteq changing'[j].field
      BY <3>1, <2>2, <1>1, <1>3 DEF Adds
    <3>3. ASSUME changing'[j].alone
          PROVE  \A i \in UpdateCall : Busy(i)' => i = j
      <4>1. k \notin UpdateCall
        BY <3>1, <3>3, <2>2, <1>1, <1>3
      <4>2. changing[j].alone
        BY <3>3, <2>2, <1>1, <1>3
      <4> QED BY <4>1, <4>2, <3>1, <1>4 DEF Adds
    <3>4. changing'[j].alone /\ changing'[j].step = "mined" => changing'[j].field \subseteq Stream.fields
      BY <3>1, <2>2, <1>1, <1>3 DEF Adds
    <3> QED BY <3>2, <3>3, <3>4
  <2> QED BY <2>1, <2>2
<1> QED BY <1>2, <1>5 DEF Adds

LEMMA BeginKeeps ==
  ASSUME RegistryIInv, NEW k \in Call, NEW f \in SUBSET Field, Begin(k, f), ~Busy(k),
         k \in UpdateCall => metadata \subseteq f,
         UNCHANGED <<blocks, height, metadata, creating, confirmed, kept>>,
         \/ UNCHANGED cache /\ k \notin {"grant", "set"}
         \/ cache' = ClearStreamCache
  PROVE  RegistryIInv'
<1>1. RegistryTyped /\ Adds /\ SeesChanges /\ CreatedExists
  BY DEF RegistryIInv
<1>2. /\ changing' \in [Call -> Change]
      /\ changing'[k].block = 0
      /\ \A j \in Call : j # k => /\ changing'[j].step = changing[j].step
                                  /\ changing'[j].block = changing[j].block
  BY <1>1, BeginSets
<1>3. Adds'
  BY <1>1, BeginAdds
<1>4. cache' \in [Cache -> Entry]
  BY <1>1, Cleared DEF RegistryTyped
<1>5. RegistryTyped'
  <2>1. \A j \in Call : changing'[j].block <= Len(blocks)
    BY <1>1, <1>2 DEF RegistryTyped
  <2> QED BY <2>1, <1>1, <1>2, <1>4 DEF RegistryTyped
<1>6. SeesChanges'
  <2>1. CASE cache' = ClearStreamCache
    BY <2>1, <1>1, Cleared, ClearedSees
  <2>2. CASE UNCHANGED cache /\ k \notin {"grant", "set"}
    <3>1. \A j \in {"grant", "set"} : /\ changing'[j].step = changing[j].step
                                      /\ changing'[j].block = changing[j].block
      BY <2>2, <1>2 DEF Call
    <3> QED BY <3>1, <2>2, <1>1 DEF SeesChanges, ReadsAfter
  <2> QED BY <2>1, <2>2
<1>7. CreatedExists'
  BY <1>1 DEF CreatedExists, Top
<1> QED BY <1>3, <1>5, <1>6, <1>7 DEF RegistryIInv

LEMMA ChangesBegin ==
  ASSUME RegistryIInv,
         (\E k \in UpdateCall, f \in Field : Update(k, f))
         \/ Delete \/ UpdatePermissions \/ SetPermissions
  PROVE  RegistryIInv'
<1>1. metadata \in SUBSET Field /\ UpdateCall \subseteq Call /\ {} \in SUBSET Field
  BY DEF RegistryIInv, RegistryTyped, UpdateCall, Call
<1>2. /\ "delete" \in Call /\ "grant" \in Call /\ "set" \in Call
      /\ {"delete", "grant", "set"} \cap UpdateCall = {}
  BY DEF Call, UpdateCall
<1>3. ASSUME NEW k \in UpdateCall, NEW f \in Field, Update(k, f) PROVE RegistryIInv'
  <2>1. metadata \cup {f} \in SUBSET Field /\ k \in Call /\ k \notin {"grant", "set"}
    BY <1>1, <1>2, <1>3
  <2> QED BY <2>1, <1>3, BeginKeeps DEF Update
<1>4. CASE Delete
  BY <1>4, <1>1, <1>2, BeginKeeps DEF Delete
<1>5. CASE UpdatePermissions
  BY <1>5, <1>1, <1>2, BeginKeeps DEF UpdatePermissions
<1>6. CASE SetPermissions
  BY <1>6, <1>1, <1>2, BeginKeeps DEF SetPermissions
<1> QED BY <1>3, <1>4, <1>5, <1>6

\* The block that a transaction adds.
LEMMA MinedIsBlock ==
  ASSUME RegistryTyped, NEW k \in Call
  PROVE  /\ Mined(k) \in Block
         /\ k \in UpdateCall => Mined(k).fields = changing[k].field
         /\ k \notin UpdateCall => Mined(k).fields = Stream.fields
<1>1. Stream \in Block
  BY StreamIsBlock
<1>2. changing[k].field \in SUBSET Field
  BY DEF RegistryTyped, Change
<1>3. CASE k \in UpdateCall
  <2>1. Mined(k) = [Stream EXCEPT !.fields = changing[k].field]
    BY <1>3 DEF Mined, UpdateCall
  <2> QED BY <2>1, <1>1, <1>2, <1>3 DEF Block
<1>4. CASE k = "delete"
  <2>1. Mined(k) = [Stream EXCEPT !.exists = FALSE]
    BY <1>4 DEF Mined, UpdateCall
  <2> QED BY <2>1, <1>1, <1>4 DEF Block, UpdateCall
<1>5. CASE k \in {"grant", "set"}
  <2>1. PICK w \in SUBSET {"user", "public"} : Mined(k) = Flipped(Stream, w)
    <3>1. k = "grant" => Mined(k) = Flipped(Stream, IF changing[k].step = "sent" THEN {"user"} ELSE {"public"})
      BY DEF Mined, UpdateCall
    <3>2. k = "set" => Mined(k) = Flipped(Stream, {"user", "public"})
      BY DEF Mined, UpdateCall
    <3>3. {"user"} \in SUBSET {"user", "public"} /\ {"public"} \in SUBSET {"user", "public"}
          /\ {"user", "public"} \in SUBSET {"user", "public"}
      OBVIOUS
    <3> HIDE DEF Mined, Flipped
    <3> QED BY <3>1, <3>2, <3>3, <1>5
  <2>2. k \notin UpdateCall
    BY <1>5 DEF UpdateCall
  <2> QED BY <2>1, <2>2, <1>1 DEF Flipped, Block
<1> QED BY <1>3, <1>4, <1>5 DEF Call

\* A block more leaves open only what the calls and the creation say of themselves.
LEMMA CreatedStays ==
  ASSUME RegistryTyped, CreatedExists, NEW s \in Block, Put(s),
         creating' = "resolved" => creating = "resolved" \/ s.exists
  PROVE  CreatedExists'
<1>1. /\ Len(blocks') = Len(blocks) + 1 /\ Stream' = s
      /\ \A b \in 1 .. Len(blocks) : blocks'[b] = blocks[b]
  BY BlockAdded
<1>2. Len(blocks) \in Nat
  BY DEF RegistryTyped
<1>3. ASSUME creating = "resolved"
      PROVE  \E b \in 1 .. Len(blocks') : blocks'[b].exists
  BY <1>1, <1>2, <1>3 DEF CreatedExists, Top
<1>4. ASSUME s.exists
      PROVE  \E b \in 1 .. Len(blocks') : blocks'[b].exists
  <2>1. Len(blocks') \in 1 .. Len(blocks') /\ blocks'[Len(blocks')] = s
    BY <1>1, <1>2 DEF Stream, Top
  <2> QED BY <2>1, <1>4
<1> QED BY <1>3, <1>4 DEF CreatedExists, Top

LEMMA WaitForTxSets ==
  ASSUME RegistryTyped, NEW k \in Call, WaitForTx(k)
  PROVE  /\ changing' \in [Call -> Change]
         /\ changing'[k].step \in {"half", "mined"}
         /\ changing'[k].step = "half" => k = "grant"
         /\ changing'[k].block = Len(blocks) + 1
         /\ changing'[k].field = changing[k].field /\ changing'[k].alone = changing[k].alone
         /\ \A j \in Call : j # k => changing'[j] = changing[j]
<1>1. changing[k] \in Change /\ changing \in [Call -> Change] /\ Top + 1 \in Nat
  BY DEF RegistryTyped, Top
<1>2. PICK s \in {"half", "mined"} :
        /\ s = (IF k = "grant" /\ changing[k].step = "sent" THEN "half" ELSE "mined")
        /\ s = "half" => k = "grant"
  OBVIOUS
<1>3. PICK x : x = [changing[k] EXCEPT !.step = s, !.block = Top + 1]
  OBVIOUS
<1>4. /\ x \in Change /\ x.step = s /\ x.block = Top + 1
      /\ x.field = changing[k].field /\ x.alone = changing[k].alone
  BY <1>1, <1>3 DEF Change
<1>5. changing' = [changing EXCEPT ![k] = x]
  BY <1>1, <1>2, <1>3 DEF WaitForTx
<1>6. changing' \in [Call -> Change] /\ changing'[k] = x /\ \A j \in Call : j # k => changing'[j] = changing[j]
  BY <1>1, <1>4, <1>5
<1> QED BY <1>2, <1>4, <1>6 DEF Top

LEMMA WaitForTxKeeps ==
  ASSUME RegistryIInv, NEW k \in Call, WaitForTx(k)
  PROVE  RegistryIInv'
<1>1. RegistryTyped /\ Adds /\ SeesChanges /\ CreatedExists
  BY DEF RegistryIInv
<1>2. /\ changing' \in [Call -> Change]
      /\ changing'[k].step \in {"half", "mined"} 
      /\ changing'[k].step = "half" => k = "grant"
      /\ changing'[k].block = Len(blocks) + 1
      /\ changing'[k].field = changing[k].field /\ changing'[k].alone = changing[k].alone
      /\ \A j \in Call : j # k => changing'[j] = changing[j]
  BY <1>1, WaitForTxSets
<1>3. /\ Mined(k) \in Block
      /\ k \in UpdateCall => Mined(k).fields = changing[k].field
      /\ k \notin UpdateCall => Mined(k).fields = Stream.fields
  BY <1>1, MinedIsBlock
<1>4. /\ Put(Mined(k)) /\ changing[k].step \in {"sent", "half"}
      /\ UNCHANGED <<height, cache, metadata, creating, confirmed, kept>>
  BY DEF WaitForTx
<1>5. blocks' \in Seq(Block) /\ Len(blocks') = Len(blocks) + 1 /\ Stream' = Mined(k)
  BY <1>1, <1>3, <1>4, BlockAdded
<1> HIDE DEF Mined
<1>6. RegistryTyped'
  <2>1. \A j \in Call : changing'[j].block <= Len(blocks')
    <3>1. \A j \in Call : j # k => changing'[j].block <= Len(blocks) /\ changing'[j].block \in Nat
      BY <1>1, <1>2 DEF RegistryTyped, Change
    <3> QED BY <3>1, <1>1, <1>2, <1>5 DEF RegistryTyped
  <2>2. height' \in [Provider -> 1 .. Len(blocks')] /\ confirmed' \in [Cache -> 0 .. Len(blocks')]
    BY <1>1, <1>4, <1>5 DEF RegistryTyped
  <2>3. Len(blocks') \in Nat \ {0}
    BY <1>1, <1>5 DEF RegistryTyped
  <2> QED BY <2>1, <2>2, <2>3, <1>1, <1>2, <1>4, <1>5 DEF RegistryTyped
<1>7. SeesChanges'
  <2>1. CASE k \in {"grant", "set"}
    <3>1. ReadsAfter(cache["stream"], confirmed["stream"])'
      BY <1>1, <1>4 DEF SeesChanges, ReadsAfter
    <3>2. cache["publisher"].raced \/ (cache["publisher"].since = 0 /\ cache["publisher"].at = 0)
      BY <2>1, <1>1, <1>4 DEF SeesChanges
    <3> QED BY <3>1, <3>2, <1>4 DEF SeesChanges
  <2>2. CASE k \notin {"grant", "set"}
    <3>1. \A j \in {"grant", "set"} : changing'[j] = changing[j]
      BY <2>2, <1>2 DEF Call
    <3> QED BY <3>1, <1>1, <1>4 DEF SeesChanges, ReadsAfter
  <2> QED BY <2>1, <2>2
<1>8. Adds'
  <2>1. UpdateCall \subseteq Call /\ "grant" \notin UpdateCall
    BY DEF UpdateCall, Call
  <2>2. \A j \in Call : Busy(j)' = Busy(j)
    BY <1>2, <1>4 DEF Busy
  <2>3. Busy(k)
    BY <1>4 DEF Busy
  <2>4. kept \subseteq metadata /\ kept \subseteq Stream'.fields
    BY <2>3, <1>1, <1>3, <1>5 DEF Adds
  <2>5. ASSUME NEW j \in UpdateCall, Busy(j)
        PROVE  /\ kept \subseteq changing'[j].field
               /\ changing'[j].alone => /\ \A i \in UpdateCall : Busy(i) => i = j
                                        /\ changing'[j].step = "mined" => changing'[j].field \subseteq Stream'.fields
    <3>1. changing'[j].field = changing[j].field /\ changing'[j].alone = changing[j].alone
      BY <2>1, <1>2
    <3>2. kept \subseteq changing'[j].field
      BY <3>1, <2>5, <1>1 DEF Adds
    <3>3. changing'[j].alone => \A i \in UpdateCall : Busy(i) => i = j
      BY <3>1, <2>5, <1>1 DEF Adds
    <3>4. changing'[j].alone /\ changing'[j].step = "mined" => changing'[j].field \subseteq Stream'.fields
      <4>1. CASE j = k
        BY <4>1, <3>1, <1>3, <1>5
      <4>2. CASE j # k
        <5>1. changing'[j].alone => k \notin UpdateCall
          BY <4>2, <3>3, <2>3
        <5> QED BY <5>1, <4>2, <2>1, <2>5, <1>1, <1>2, <1>3, <1>5 DEF Adds
      <4> QED BY <4>1, <4>2
    <3> QED BY <3>2, <3>3, <3>4
  <2> QED BY <2>1, <2>2, <2>4, <2>5, <1>4 DEF Adds
<1>9. CreatedExists'
  BY <1>1, <1>3, <1>4, CreatedStays
<1> QED BY <1>6, <1>7, <1>8, <1>9 DEF RegistryIInv

\* A call that is over.
LEMMA IdleKeeps ==
  ASSUME RegistryTyped, NEW k \in Call, changing' = [changing EXCEPT ![k] = Idle]
  PROVE  /\ changing' \in [Call -> Change] /\ changing'[k].step = "idle"
         /\ changing'[k].block = 0
         /\ \A j \in Call : j # k => changing'[j] = changing[j]
<1>1. Idle \in Change /\ Idle.step = "idle" /\ Idle.block = 0
  BY DEF Idle, Change
<1> HIDE DEF Idle, Change
<1> QED BY <1>1 DEF RegistryTyped

LEMMA OverAdds ==
  ASSUME RegistryTyped, NEW k \in Call, changing' = [changing EXCEPT ![k] = Idle],
         UNCHANGED blocks, kept' \subseteq metadata', kept' \subseteq Stream.fields,
         \A j \in UpdateCall : j # k /\ Busy(j) => kept' \subseteq changing[j].field, Adds
  PROVE  Adds'
<1>1. /\ changing'[k].step = "idle" /\ \A j \in Call : j # k => changing'[j] = changing[j]
      /\ UpdateCall \subseteq Call
  BY IdleKeeps DEF UpdateCall, Call
<1>2. Stream' = Stream
  BY DEF Stream, Top
<1>3. \A j \in UpdateCall : Busy(j)' => j # k /\ Busy(j) /\ changing'[j] = changing[j]
  BY <1>1 DEF Busy
<1> QED BY <1>2, <1>3 DEF Adds

LEMMA TxFailsKeeps ==
  ASSUME RegistryIInv, NEW k \in Call, TxFails(k)
  PROVE  RegistryIInv'
<1>1. RegistryTyped /\ Adds /\ SeesChanges /\ CreatedExists
  BY DEF RegistryIInv
<1>2. /\ changing' = [changing EXCEPT ![k] = Idle]
      /\ cache' = ClearStreamCache \/ cache' = cache
      /\ UNCHANGED <<blocks, height, metadata, creating, confirmed, kept>>
  BY DEF TxFails
<1>3. /\ changing' \in [Call -> Change] /\ changing'[k].step = "idle" /\ changing'[k].block = 0
      /\ \A j \in Call : j # k => changing'[j] = changing[j]
  BY <1>1, <1>2, IdleKeeps
<1>4. RegistryTyped'
  <2>1. cache' \in [Cache -> Entry]
    BY <1>1, <1>2, Cleared DEF RegistryTyped
  <2>2. \A j \in Call : changing'[j].block <= Len(blocks)
    BY <1>1, <1>3 DEF RegistryTyped
  <2> QED BY <2>1, <2>2, <1>1, <1>2, <1>3 DEF RegistryTyped
<1>5. SeesChanges'
  <2>1. CASE cache' = ClearStreamCache
    BY <2>1, <1>1, Cleared, ClearedSees
  <2>2. CASE cache' = cache
    <3>1. cache["publisher"] \in Entry
      BY <1>1 DEF RegistryTyped, Cache
    <3>2. ReadsAfter(cache["publisher"], 0)
      BY <3>1 DEF ReadsAfter, Entry
    <3>3. "grant" \in Call /\ "set" \in Call
      BY DEF Call
    <3>4. ReadsAfter(cache["stream"], confirmed["stream"])'
      BY <2>2, <1>1, <1>2 DEF SeesChanges, ReadsAfter
    <3>5. CASE cache["publisher"].raced \/ (cache["publisher"].since = 0 /\ cache["publisher"].at = 0)
      BY <3>4, <3>5, <2>2 DEF SeesChanges
    <3>6. CASE ~(cache["publisher"].raced \/ (cache["publisher"].since = 0 /\ cache["publisher"].at = 0))
      <4>1. \A j \in {"grant", "set"} :
              /\ changing'[j].step \in {"idle", "mined"}
              /\ ReadsAfter(cache["publisher"], changing'[j].block)
        BY <3>6, <3>2, <3>3, <1>1, <1>3 DEF SeesChanges
      <4>2. ReadsAfter(cache["publisher"], confirmed["publisher"])
        BY <3>6, <1>1 DEF SeesChanges
      <4> QED BY <4>1, <4>2, <3>4, <2>2, <1>2 DEF SeesChanges, ReadsAfter
    <3> QED BY <3>5, <3>6
  <2> QED BY <2>1, <2>2, <1>2
<1>6. Adds'
  BY <1>1, <1>2, OverAdds DEF Adds
<1>7. CreatedExists'
  BY <1>1, <1>2 DEF CreatedExists, Top
<1> QED BY <1>4, <1>5, <1>6, <1>7 DEF RegistryIInv

\* What a resolved update adds is what the chain has, as no other update is under way.
LEMMA ResolveAdds ==
  ASSUME RegistryTyped, Adds, NEW k \in Call, Resolve(k)
  PROVE  Adds'
<1>1. /\ changing[k].step = "mined" /\ Busy(k)
      /\ changing' = [changing EXCEPT ![k] = Idle]
      /\ metadata' = (IF k \in UpdateCall THEN changing[k].field ELSE metadata)
      /\ kept' = Keeps(k) /\ UNCHANGED blocks
  BY DEF Resolve, Busy
<1>2. CASE k \notin UpdateCall
  <2>1. kept' = kept /\ metadata' = metadata
    BY <1>1, <1>2 DEF Keeps
  <2> QED BY <2>1, <1>1, OverAdds DEF Adds
<1>3. CASE k \in UpdateCall /\ changing[k].alone
  <2>1. kept' = kept \cup changing[k].field /\ metadata' = changing[k].field
    BY <1>1, <1>3 DEF Keeps
  <2>2. /\ kept \subseteq changing[k].field /\ changing[k].field \subseteq Stream.fields
        /\ \A j \in UpdateCall : Busy(j) => j = k
    BY <1>1, <1>3 DEF Adds
  <2> QED BY <2>1, <2>2, <1>1, OverAdds
<1>4. CASE k \in UpdateCall /\ ~changing[k].alone
  <2>1. kept' = {}
    BY <1>1, <1>4 DEF Keeps
  <2> QED BY <2>1, <1>1, OverAdds
<1> QED BY <1>2, <1>3, <1>4

LEMMA ResolveKeeps ==
  ASSUME RegistryIInv, NEW k \in Call, Resolve(k)
  PROVE  RegistryIInv'
<1>1. RegistryTyped /\ Adds /\ SeesChanges /\ CreatedExists
  BY DEF RegistryIInv
<1>2. /\ changing' = [changing EXCEPT ![k] = Idle] /\ changing[k].step = "mined"
      /\ cache' = (IF ClearsAfter(k) THEN ClearStreamCache ELSE cache)
      /\ metadata' = (IF k \in UpdateCall THEN changing[k].field ELSE metadata)
      /\ kept' = Keeps(k)
      /\ confirmed' = [c \in Cache |-> IF c \in Shown(k) THEN changing[k].block ELSE confirmed[c]]
      /\ UNCHANGED <<blocks, height, creating>>
  BY DEF Resolve
<1>3. /\ changing' \in [Call -> Change] /\ changing'[k].step = "idle" /\ changing'[k].block = 0
      /\ \A j \in Call : j # k => changing'[j] = changing[j]
  BY <1>1, <1>2, IdleKeeps
<1>4. changing[k].field \in SUBSET Field /\ changing[k].block \in 0 .. Len(blocks)
  BY <1>1 DEF RegistryTyped, Change
<1>5. RegistryTyped'
  <2>1. cache' \in [Cache -> Entry]
    BY <1>1, <1>2, Cleared DEF RegistryTyped
  <2>2. \A j \in Call : changing'[j].block <= Len(blocks)
    BY <1>1, <1>3 DEF RegistryTyped
  <2>3. metadata' \in SUBSET Field /\ kept' \in SUBSET Field
    BY <1>1, <1>2, <1>4 DEF RegistryTyped, Keeps
  <2>4. confirmed' \in [Cache -> 0 .. Len(blocks)]
    BY <1>1, <1>2, <1>4 DEF RegistryTyped
  <2> QED BY <2>1, <2>2, <2>3, <2>4, <1>1, <1>2, <1>3 DEF RegistryTyped
<1>6. SeesChanges'
  <2>1. CASE ClearsAfter(k)
    BY <2>1, <1>1, <1>2, Cleared, ClearedSees
  <2>2. CASE ~ClearsAfter(k)
    <3>1. k \in {"grant", "set"} /\ Shown(k) = {"publisher"}
      BY <2>2 DEF ClearsAfter, UpdateCall, Call, Shown
    <3>2. confirmed'["stream"] = confirmed["stream"] /\ confirmed'["publisher"] = changing[k].block
      BY <3>1, <1>2 DEF Cache
    <3>3. cache["publisher"] \in Entry
      BY <1>1 DEF RegistryTyped, Cache
    <3>4. ReadsAfter(cache["publisher"], 0)
      BY <3>3 DEF ReadsAfter, Entry
    <3>5. "grant" \in Call /\ "set" \in Call
      BY DEF Call
    <3>6. ReadsAfter(cache["stream"], confirmed["stream"])'
      BY <2>2, <3>2, <1>1, <1>2 DEF SeesChanges, ReadsAfter
    <3>7. CASE cache["publisher"].raced \/ (cache["publisher"].since = 0 /\ cache["publisher"].at = 0)
      BY <3>6, <3>7, <2>2, <1>2 DEF SeesChanges
    <3>8. CASE ~(cache["publisher"].raced \/ (cache["publisher"].since = 0 /\ cache["publisher"].at = 0))
      <4>1. \A j \in {"grant", "set"} :
              /\ changing'[j].step \in {"idle", "mined"}
              /\ ReadsAfter(cache["publisher"], changing'[j].block)
        BY <3>8, <3>4, <3>5, <1>1, <1>3 DEF SeesChanges
      <4>2. ReadsAfter(cache["publisher"], changing[k].block)
        BY <3>1, <3>8, <1>1 DEF SeesChanges
      <4> QED BY <4>1, <4>2, <3>2, <3>6, <2>2, <1>2 DEF SeesChanges, ReadsAfter
    <3> QED BY <3>7, <3>8
  <2> QED BY <2>1, <2>2
<1>7. Adds'
  BY <1>1, ResolveAdds
<1>8. CreatedExists'
  BY <1>1, <1>2 DEF CreatedExists, Top
<1> QED BY <1>5, <1>6, <1>7, <1>8 DEF RegistryIInv

\* The creation adds at most a block that has the stream, ...
LEMMA CreatingKeeps ==
  ASSUME RegistryIInv, UNCHANGED <<height, cache, metadata, changing, confirmed, kept>>,
         UNCHANGED blocks, creating' = "resolved" => \E b \in 1 .. Len(blocks) : blocks[b].exists
  PROVE  RegistryIInv'
<1>1. RegistryTyped /\ Adds /\ SeesChanges /\ CreatedExists
  BY DEF RegistryIInv
<1>2. SeesChanges'
  BY <1>1 DEF SeesChanges, ReadsAfter
<1>3. RegistryTyped'
  BY <1>1 DEF RegistryTyped
<1>4. Adds'
  BY <1>1 DEF Adds, Stream, Top, Busy
<1>5. CreatedExists'
  BY <1>1 DEF CreatedExists, Top
<1> QED BY <1>2, <1>3, <1>4, <1>5 DEF RegistryIInv

\* ... new and without the fields of earlier updates, of which none is kept or alone.
LEMMA NewStreamKeeps ==
  ASSUME RegistryIInv, CreateStream, UNCHANGED <<height, cache, metadata, confirmed>>
  PROVE  RegistryIInv'
<1>1. RegistryTyped /\ Adds /\ SeesChanges /\ CreatedExists
  BY DEF RegistryIInv
<1>2. PICK s : s = [Stream EXCEPT !.exists = TRUE, !.fields = {}]
  OBVIOUS
<1>3. s \in Block /\ s.exists
  BY <1>1, <1>2, StreamIsBlock DEF Block
<1>4. Put(s) /\ kept' = {}
  BY <1>2 DEF CreateStream
<1>5. blocks' \in Seq(Block) /\ Len(blocks') = Len(blocks) + 1 /\ Stream' = s
  BY <1>1, <1>3, <1>4, BlockAdded
<1>6. /\ changing' \in [Call -> Change]
      /\ \A k \in Call : /\ changing'[k].step = changing[k].step
                         /\ changing'[k].block = changing[k].block
                         /\ changing'[k].alone => ~Busy(k)
  BY <1>1 DEF CreateStream, RegistryTyped, Change
<1>7. RegistryTyped'
  <2>1. Len(blocks') \in Nat \ {0} /\ height' \in [Provider -> 1 .. Len(blocks')]
    BY <1>1, <1>5 DEF RegistryTyped
  <2>2. \A k \in Call : changing'[k].block <= Len(blocks')
    BY <1>1, <1>5, <1>6 DEF RegistryTyped, Change
  <2>3. confirmed' \in [Cache -> 0 .. Len(blocks')]
    BY <1>1, <1>5 DEF RegistryTyped
  <2> QED BY <1>1, <1>4, <1>5, <1>6, <2>1, <2>2, <2>3 DEF RegistryTyped
<1>8. SeesChanges'
  BY <1>1, <1>6 DEF SeesChanges, ReadsAfter, Call
<1>9. Adds'
  BY <1>4, <1>6 DEF Adds, Busy, Call
<1>10. CreatedExists'
  BY <1>1, <1>3, <1>4, CreatedStays
<1> QED BY <1>7, <1>8, <1>9, <1>10 DEF RegistryIInv

LEMMA CreationKeeps ==
  ASSUME RegistryIInv,
         NotFound \/ OracleCreates \/ UntilExists \/ CreationFails
         \/ (\E ens \in BOOLEAN : CreationMined(ens))
  PROVE  RegistryIInv'
<1>1. CASE NotFound
  BY <1>1, CreatingKeeps DEF NotFound
<1>2. CASE OracleCreates
  BY <1>2, NewStreamKeeps DEF OracleCreates
<1>3. CASE UntilExists
  <2>1. PICK p \in Provider : blocks[height[p]].exists
    BY <1>3 DEF UntilExists, Answering, QueryAllReadonlyContracts
  <2>2. height[p] \in 1 .. Len(blocks)
    BY DEF RegistryIInv, RegistryTyped
  <2> QED BY <2>1, <2>2, <1>3, CreatingKeeps DEF UntilExists
<1>4. CASE CreationFails
  BY <1>4, CreatingKeeps DEF CreationFails
<1>5. ASSUME NEW ens \in BOOLEAN, CreationMined(ens) PROVE RegistryIInv'
  BY <1>5, CreatingKeeps, NewStreamKeeps DEF CreationMined
<1> QED BY <1>1, <1>2, <1>3, <1>4, <1>5

LEMMA RegistrySteps == RegistryIInv /\ [RegistryNext]_registryVars => RegistryIInv'
<1> SUFFICES ASSUME RegistryIInv, [RegistryNext]_registryVars PROVE RegistryIInv'
  OBVIOUS
<1>1. CASE \E p \in Provider : CatchUp(p)
  BY <1>1, CatchUpKeeps
<1>2. CASE \E c \in Cache : Lookup(c) \/ Answer(c) \/ Reject(c) \/ Expire(c)
  BY <1>2, LookupKeeps, AnswerKeeps, EntryGoneKeeps
<1>3. CASE (\E k \in UpdateCall, f \in Field : Update(k, f)) \/ Delete \/ UpdatePermissions \/ SetPermissions
  BY <1>3, ChangesBegin
<1>4. CASE \E k \in Call : WaitForTx(k) \/ TxFails(k) \/ Resolve(k)
  BY <1>4, WaitForTxKeeps, TxFailsKeeps, ResolveKeeps
<1>5. CASE NotFound \/ OracleCreates \/ UntilExists \/ CreationFails
           \/ (\E ens \in BOOLEAN : CreationMined(ens))
  BY <1>5, CreationKeeps
<1>6. CASE UNCHANGED registryVars
  BY <1>6 DEF registryVars, RegistryIInv, RegistryTyped, SeesChanges, ReadsAfter, Adds, CreatedExists,
              Stream, Top, Busy
<1> QED BY <1>1, <1>2, <1>3, <1>4, <1>5, <1>6 DEF RegistryNext

LEMMA RegistryImplied == RegistryIInv => RegistryInv
<1> SUFFICES ASSUME RegistryIInv PROVE RegistryInv
  OBVIOUS
<1>1. cache["stream"] \in Entry /\ cache["publisher"] \in Entry
  BY DEF RegistryIInv, RegistryTyped, Cache
<1>2. OwnChangesAreSeen
  BY <1>1 DEF RegistryIInv, SeesChanges, ReadsAfter, OwnChangesAreSeen, Entry
<1> QED BY <1>2 DEF RegistryIInv, RegistryInv, Adds, UpdatesAddUp

\* The client sees its own changes in what it has cached, the updates of one Stream
\* object add up unless two overlap, and a creation that resolves has created the
\* stream, for every number of providers, fields and blocks.
THEOREM ChangesAreSeen == RegistrySpec => []RegistryInv
<1> QED BY RegistryStarts, RegistrySteps, RegistryImplied, PTL DEF RegistrySpec

-----------------------------------------------------------------------------
(* Metrics and their reports.                                                      *)

Report == [start : Nat, end : Nat, value : Value \cup {NoValue}]
Waiting == [end : Nat, due : Nat]

\* The ranges of the variables; nothing is reported before the start.
MetricsTyped ==
  /\ now \in Nat /\ invocation \in Nat /\ started \in {"no", "yes", "failed"}
  /\ aborted \in Nat \cup {NoValue} /\ added \in BOOLEAN
  /\ latestValue \in {NoValue, 0, 1} /\ sample \in Sample \cup {NoValue}
  /\ reports \in Seq(Report) /\ Len(reports) \in Nat
  /\ upTo \in Seq(Nat) /\ reported \in Seq(Nat)
  /\ delayed \in SUBSET Waiting
  /\ recorded \in Nat /\ late \in BOOLEAN
  /\ started # "yes" => /\ sample = NoValue /\ reports = <<>> /\ upTo = <<>>
                        /\ delayed = {} /\ reported = <<>>
  /\ started = "yes" => invocation >= Period

\* Each recorded value is 1, unless the metric is a level.
Counts ==
  kind # "level" =>
    /\ Len(upTo) = Len(reports)
    /\ \A i \in 1 .. Len(reports) : Sum(reports[i]) = UpTo(i) - UpTo(i - 1)
    /\ recorded - UpTo(Len(reports)) = (IF sample = NoValue THEN 0 ELSE sample.sum)
    /\ sample # NoValue => sample.sum = sample.count

\* What PeriodsFit says of the i-th report.
Fits(i) ==
  /\ i > 1 => reports[i - 1].end <= reports[i].start
  /\ reports[i].end <= (IF aborted = NoValue THEN now ELSE aborted)
  /\ kind = "rate" => reports[i].value # NoValue
  /\ reports[i].value # NoValue /\ ~late => reports[i].value.elapsed = Period
  /\ kind = "level" /\ i > 1 /\ reports[i - 1].value # NoValue => reports[i].value # NoValue

\* The ongoing sample began when the last report ended, and a level that was known is.
OngoingFits ==
  /\ \A i \in 1 .. Len(reports) : reports[i].end <= invocation - Period
  /\ sample # NoValue => /\ sample.start < invocation
                         /\ ~late => sample.start = invocation - Period
                         /\ kind = "level" /\ sample.count > 0 => latestValue # NoValue
  /\ kind = "level" /\ Len(reports) > 0 /\ reports[Len(reports)].value # NoValue =>
       /\ latestValue # NoValue
       /\ sample # NoValue => sample.count > 0

\* Unless a timer was late, a report is published before the next one is made.
Ordered ==
  late \/ /\ \A r \in delayed : /\ r.end = invocation - Period /\ r.due < invocation
                                /\ now <= r.due
                                /\ \A i \in 1 .. Len(reported) : reported[i] < r.end
          /\ \A r, s \in delayed : r = s
          /\ \A i \in 1 .. Len(reported) : reported[i] <= invocation - Period
          /\ \A i, j \in 1 .. Len(reported) : i < j => reported[i] < reported[j]

MetricsIInv ==
  /\ MetricsTyped /\ Counts /\ OngoingFits /\ Ordered
  /\ \A i \in 1 .. Len(reports) : Fits(i)

LEMMA MetricsStarts == MetricsInit => MetricsIInv
<1> SUFFICES ASSUME MetricsInit PROVE MetricsIInv
  OBVIOUS
<1>1. Len(reports) = 0 /\ Len(reported) = 0 /\ Len(upTo) = 0
  BY DEF MetricsInit
<1>2. MetricsTyped
  <2>1. \A S : <<>> \in Seq(S)
    BY EmptySeq
  <2>2. latestValue \in {NoValue, 0, 1}
    BY DEF MetricsInit
  <2>3. reports \in Seq(Report) /\ upTo \in Seq(Nat) /\ reported \in Seq(Nat)
    BY <2>1 DEF MetricsInit
  <2> QED BY <2>2, <2>3, <1>1 DEF MetricsInit, MetricsTyped
<1>3. Counts /\ OngoingFits /\ Ordered /\ \A i \in 1 .. Len(reports) : Fits(i)
  BY <1>1 DEF MetricsInit, Counts, OngoingFits, Ordered, UpTo
<1> QED BY <1>2, <1>3 DEF MetricsIInv

\* The value of a sample that stops.
LEMMA AggregatedValue ==
  ASSUME NEW s \in Sample, NEW t \in Nat, s.start < t
  PROVE  /\ Aggregated(s, t) \in Value \cup {NoValue}
         /\ Aggregated(s, t) = NoValue <=> (kind \in {"average", "level"} /\ s.count = 0)
         /\ Aggregated(s, t) # NoValue => /\ Aggregated(s, t).sum = s.sum
                                          /\ Aggregated(s, t).elapsed = t - s.start
<1>1. t - s.start \in Nat /\ s.sum \in Nat /\ s.count \in Nat
  BY DEF Sample
<1>2. PICK v : v = [sum |-> s.sum, count |-> s.count, elapsed |-> t - s.start]
  OBVIOUS
<1>3. v \in Value /\ v.sum = s.sum /\ v.elapsed = t - s.start /\ v # NoValue
  <2>1. v \in Value /\ v.sum = s.sum /\ v.elapsed = t - s.start
    BY <1>1, <1>2 DEF Value
  <2> QED BY <2>1, MetricsAssumption
<1>4. Aggregated(s, t) = (IF kind \in {"average", "level"} /\ s.count = 0 THEN NoValue ELSE v)
  BY <1>1, <1>2 DEF Aggregated
<1> HIDE DEF Aggregated
<1> QED BY <1>3, <1>4

LEMMA OnRecordSets ==
  ASSUME NEW s \in Sample, NEW v \in Nat
  PROVE  /\ OnRecord(s, v) \in Sample /\ OnRecord(s, v).start = s.start
         /\ OnRecord(s, v).sum = s.sum + v /\ OnRecord(s, v).count = s.count + 1
<1>1. PICK a \in Nat : a = s.sum + v
  BY DEF Sample
<1>2. PICK b \in Nat : b = s.count + 1
  BY DEF Sample
<1>3. OnRecord(s, v) = [s EXCEPT !.sum = a, !.count = b]
  BY <1>1, <1>2 DEF OnRecord
<1>4. PICK x : x = [s EXCEPT !.sum = a, !.count = b]
  OBVIOUS
<1>5. x \in Sample /\ x.start = s.start /\ x.sum = a /\ x.count = b
  BY <1>4 DEF Sample
<1> QED BY <1>1, <1>2, <1>3, <1>4, <1>5

\* The sample that starts.
LEMMA SampleStarts ==
  ASSUME MetricsTyped, NEW t \in Nat
  PROVE  /\ StartSample(t) \in Sample /\ StartSample(t).start = t
         /\ kind # "level" => StartSample(t).sum = 0 /\ StartSample(t).count = 0
         /\ kind = "level" => (StartSample(t).count > 0 <=> latestValue # NoValue)
<1> DEFINE s == [sum |-> 0, count |-> 0, start |-> t]
<1>1. s \in Sample /\ s.start = t /\ s.sum = 0 /\ s.count = 0
  BY DEF Sample
<1> HIDE DEF s
<1>2. StartSample(t) = IF kind = "level" /\ latestValue # NoValue THEN OnRecord(s, latestValue) ELSE s
  BY DEF StartSample, s
<1>3. ASSUME latestValue # NoValue
      PROVE  /\ OnRecord(s, latestValue) \in Sample /\ OnRecord(s, latestValue).start = t
             /\ OnRecord(s, latestValue).count = 1
  <2>1. latestValue \in Nat
    BY <1>3 DEF MetricsTyped
  <2>2. PICK v \in Nat : v = latestValue
    BY <2>1
  <2>3. PICK x \in Sample : x = s /\ x.start = t /\ x.count = 0
    BY <1>1
  <2>4. OnRecord(x, v) \in Sample /\ OnRecord(x, v).start = t /\ OnRecord(x, v).count = 0 + 1
    BY <2>3, OnRecordSets
  <2> QED BY <2>2, <2>3, <2>4
<1> HIDE DEF OnRecord, StartSample
<1> QED BY <1>1, <1>2, <1>3

\* Steps of the clock, of the calls and of the client.
LEMMA QuietKeeps ==
  ASSUME MetricsIInv, AddMetrics \/ Abort
  PROVE  MetricsIInv'
<1> USE DEF MetricsIInv
<1>1. CASE AddMetrics
  BY <1>1 DEF AddMetrics, MetricsTyped, Counts, Fits, OngoingFits, Ordered, Sum, UpTo
<1>2. CASE Abort
  <2>1. MetricsTyped'
    BY <1>2 DEF Abort, MetricsTyped
  <2>2. aborted' = now /\ aborted' # NoValue /\ aborted = NoValue
    BY <1>2, MetricsAssumption DEF Abort, MetricsTyped
  <2>3. \A i \in 1 .. Len(reports) : Fits(i)'
    BY <1>2, <2>2 DEF Abort, Fits
  <2>4. Counts' /\ OngoingFits' /\ Ordered'
    BY <1>2 DEF Abort, Counts, OngoingFits, Ordered, Sum, UpTo
  <2> QED BY <2>1, <2>3, <2>4, <1>2 DEF Abort
<1> QED BY <1>1, <1>2

LEMMA RecordKeeps ==
  ASSUME MetricsIInv, Record
  PROVE  MetricsIInv'
<1>1. MetricsTyped /\ Counts /\ OngoingFits /\ Ordered /\ \A i \in 1 .. Len(reports) : Fits(i)
  BY DEF MetricsIInv
<1>2. /\ latestValue' = 1
      /\ sample' = (IF sample = NoValue THEN NoValue ELSE OnRecord(sample, 1))
      /\ recorded' = recorded + (IF sample = NoValue THEN 0 ELSE 1)
      /\ UNCHANGED <<now, started, invocation, aborted, kind, added, reports, delayed, reported,
                     upTo, late>>
  BY DEF Record
<1>3. sample # NoValue =>
        /\ sample \in Sample /\ sample' \in Sample /\ sample'.start = sample.start
        /\ sample'.sum = sample.sum + 1 /\ sample'.count = sample.count + 1
        /\ sample' # NoValue
  BY <1>1, <1>2, OnRecordSets, MetricsAssumption DEF MetricsTyped
<1>4. sample = NoValue => sample' = NoValue
  BY <1>2
<1>5. MetricsTyped'
  BY <1>1, <1>2, <1>3, <1>4 DEF MetricsTyped
<1>6. Counts'
  <2>1. ASSUME kind # "level" PROVE recorded' - UpTo(Len(reports)) = (IF sample' = NoValue THEN 0 ELSE sample'.sum)
    <3>1. recorded \in Nat /\ recorded - UpTo(Len(reports)) = (IF sample = NoValue THEN 0 ELSE sample.sum)
      BY <1>1, <2>1 DEF Counts, MetricsTyped
    <3>2. Len(reports) \in Nat /\ upTo \in Seq(Nat) /\ Len(upTo) = Len(reports)
      BY <1>1, <2>1 DEF Counts, MetricsTyped
    <3>3. UpTo(Len(reports)) \in Nat
      BY <3>2, ElementOfSeq DEF UpTo
    <3>4. CASE sample = NoValue
      BY <3>4, <3>1, <3>3, <1>2, <1>4
    <3>5. CASE sample # NoValue
      <4>1. sample.sum \in Nat
        BY <3>5, <1>3 DEF Sample
      <4> QED BY <4>1, <3>5, <3>1, <3>3, <1>2, <1>3
    <3> QED BY <3>4, <3>5
  <2> QED BY <2>1, <1>1, <1>2, <1>3, <1>4 DEF Counts, Sum, UpTo
<1>7. OngoingFits'
  <2>1. latestValue' # NoValue
    BY <1>2, MetricsAssumption
  <2>2. sample' # NoValue => sample'.start = sample.start /\ sample # NoValue /\ sample'.count > 0
    BY <1>3, <1>4 DEF Sample
  <2> QED BY <2>1, <2>2, <1>1, <1>2 DEF OngoingFits
<1>8. Ordered' /\ \A i \in 1 .. Len(reports) : Fits(i)'
  BY <1>1, <1>2 DEF Ordered, Fits
<1> QED BY <1>2, <1>5, <1>6, <1>7, <1>8 DEF MetricsIInv

\* The next multiple of the period.
LEMMA NextMultiple ==
  ASSUME NEW n \in Nat
  PROVE  LET m == n - (n % Period) + Period IN m \in Nat /\ m > n /\ m >= Period
<1>1. Period \in Nat \ {0}
  BY MetricsAssumption
<1>2. n % Period \in 0 .. Period - 1
  BY <1>1
<1>3. n % Period <= n
  BY <1>1
<1> QED BY <1>1, <1>2, <1>3

LEMMA EnsureStartedKeeps ==
  ASSUME MetricsIInv, EnsureStarted
  PROVE  MetricsIInv'
<1>1. MetricsTyped /\ Counts /\ OngoingFits /\ Ordered /\ \A i \in 1 .. Len(reports) : Fits(i)
  BY DEF MetricsIInv
<1>2. /\ started = "no" /\ started' \in {"yes", "failed"}
      /\ invocation' \in Nat
      /\ started' = "yes" => invocation' >= Period
      /\ UNCHANGED <<now, aborted, kind, added, latestValue, sample, reports, delayed, reported,
                     recorded, upTo, late>>
  BY <1>1, NextMultiple DEF EnsureStarted, MetricsTyped
<1>3. /\ sample = NoValue /\ reports = <<>> /\ delayed = {} /\ reported = <<>>
      /\ Len(reports) = 0 /\ Len(reported) = 0
  BY <1>1, <1>2 DEF MetricsTyped
<1>4. MetricsTyped'
  BY <1>1, <1>2, <1>3 DEF MetricsTyped
<1>5. Counts' /\ OngoingFits' /\ Ordered' /\ \A i \in 1 .. Len(reports) : Fits(i)'
  BY <1>1, <1>2, <1>3 DEF Counts, OngoingFits, Ordered, Fits, UpTo, Sum
<1> QED BY <1>2, <1>4, <1>5 DEF MetricsIInv

LEMMA PassesKeeps ==
  ASSUME MetricsIInv, Passes
  PROVE  MetricsIInv'
<1>1. MetricsTyped /\ Counts /\ OngoingFits /\ Ordered /\ \A i \in 1 .. Len(reports) : Fits(i)
  BY DEF MetricsIInv
<1>2. /\ now' = now + 1 /\ \A r \in delayed : now < r.due
      /\ UNCHANGED <<started, invocation, aborted, kind, added, latestValue, sample, reports,
                     delayed, reported, recorded, upTo, late>>
  BY DEF Passes
<1>3. MetricsTyped'
  BY <1>1, <1>2 DEF MetricsTyped
<1>4. Counts' /\ OngoingFits'
  BY <1>1, <1>2 DEF Counts, OngoingFits, Sum, UpTo
<1>5. Ordered'
  <2>1. \A r \in delayed : r.due \in Nat /\ now + 1 <= r.due
    BY <1>1, <1>2 DEF MetricsTyped, Waiting
  <2> QED BY <2>1, <1>1, <1>2 DEF Ordered
<1>6. ASSUME NEW i \in 1 .. Len(reports) PROVE Fits(i)'
  <2>1. reports[i].end \in Nat
    <3>1. reports[i] \in Report
      BY <1>1, ElementOfSeq DEF MetricsTyped
    <3> QED BY <3>1 DEF Report
  <2>2. (IF aborted = NoValue THEN now ELSE aborted) \in Nat
    BY <1>1 DEF MetricsTyped
  <2>3. reports[i].end <= (IF aborted = NoValue THEN now + 1 ELSE aborted)
    BY <2>1, <2>2, <1>1 DEF Fits, MetricsTyped
  <2> QED BY <2>3, <1>1, <1>2 DEF Fits
<1> QED BY <1>2, <1>3, <1>4, <1>5, <1>6 DEF MetricsIInv

LEMMA PublishReportKeeps ==
  ASSUME MetricsIInv, PublishReport
  PROVE  MetricsIInv'
<1>1. MetricsTyped /\ Counts /\ OngoingFits /\ Ordered /\ \A i \in 1 .. Len(reports) : Fits(i)
  BY DEF MetricsIInv
<1>2. PICK r \in delayed :
        /\ now >= r.due /\ delayed' = delayed \ {r}
        /\ reported' = Append(reported, r.end) \/ reported' = reported
        /\ UNCHANGED <<now, started, invocation, aborted, kind, added, latestValue, sample,
                       reports, recorded, upTo, late>>
  BY DEF PublishReport
<1>3. r.end \in Nat /\ reported \in Seq(Nat) /\ Len(reported) \in Nat
  BY <1>1, LenProperties DEF MetricsTyped, Waiting
<1>4. ASSUME reported' = Append(reported, r.end)
      PROVE  /\ reported' \in Seq(Nat) /\ Len(reported') = Len(reported) + 1
             /\ \A i \in 1 .. Len(reported) : reported'[i] = reported[i]
             /\ reported'[Len(reported) + 1] = r.end
  BY <1>3, <1>4, AppendProperties
<1>5. MetricsTyped'
  <2>1. reported' \in Seq(Nat)
    BY <1>2, <1>3, <1>4
  <2>2. started = "yes"
    BY <1>1, <1>2 DEF MetricsTyped
  <2> QED BY <2>1, <2>2, <1>1, <1>2 DEF MetricsTyped
<1>6. Counts' /\ OngoingFits' /\ \A i \in 1 .. Len(reports) : Fits(i)'
  BY <1>1, <1>2 DEF Counts, OngoingFits, Fits, Sum, UpTo
<1>7. Ordered'
  <2>1. CASE late
    BY <2>1, <1>2 DEF Ordered
  <2>2. CASE ~late
    <3>1. /\ r.end = invocation - Period /\ delayed' = {}
          /\ \A i \in 1 .. Len(reported) : reported[i] < r.end
          /\ \A i \in 1 .. Len(reported) : reported[i] <= invocation - Period
          /\ \A i, j \in 1 .. Len(reported) : i < j => reported[i] < reported[j]
      BY <2>2, <1>1, <1>2 DEF Ordered
    <3>2. CASE reported' = reported
      BY <3>1, <3>2, <1>2 DEF Ordered
    <3>3. CASE reported' = Append(reported, r.end)
      <4>1. \A i \in 1 .. Len(reported') : i \in 1 .. Len(reported) \/ i = Len(reported) + 1
        BY <3>3, <1>3, <1>4
      <4>2. \A i \in 1 .. Len(reported') : reported'[i] <= invocation - Period
        BY <4>1, <3>1, <3>3, <1>4
      <4>3. \A i, j \in 1 .. Len(reported') : i < j => reported'[i] < reported'[j]
        BY <4>1, <3>1, <3>3, <1>3, <1>4
      <4> QED BY <4>2, <4>3, <3>1, <1>2 DEF Ordered
    <3> QED BY <3>2, <3>3, <1>2
  <2> QED BY <2>1, <2>2
<1> QED BY <1>2, <1>5, <1>6, <1>7 DEF MetricsIInv

\* What a task of the producer leaves to be shown: the sample that starts, the next
\* invocation and, if there was a sample, the report.
LEMMA TaskSets ==
  ASSUME MetricsIInv, Task
  PROVE  /\ invocation' \in Nat /\ invocation' >= invocation + Period
         /\ ~late' => ~late /\ now = invocation /\ invocation' = invocation + Period
         /\ late' \in BOOLEAN
         /\ sample' \in Sample \cup {NoValue}
         /\ sample' # NoValue =>
              /\ sample'.start = invocation
              /\ kind # "level" => sample'.sum = 0 /\ sample'.count = 0
              /\ kind = "level" => (sample'.count > 0 <=> latestValue # NoValue)
<1>1. MetricsTyped
  BY DEF MetricsIInv
<1>2. /\ now \in Nat /\ invocation \in Nat /\ now >= invocation /\ Period \in Nat \ {0}
      /\ invocation' = NextInvocation
  BY <1>1, MetricsAssumption DEF MetricsTyped, Task
<1>3. invocation' \in Nat /\ invocation' >= invocation + Period
  BY <1>2, NextMultiple DEF NextInvocation
<1>4. late' = (late \/ now > invocation)
  BY DEF Task
<1>5. ~late' => (~late /\ now = invocation)
  <2>1. ~late' => (~late /\ ~(now > invocation))
    BY <1>4, Zenon
  <2> QED BY <2>1, <1>2
<1>6. now = invocation => invocation' = invocation + Period
  BY <1>2 DEF NextInvocation
<1>7. sample' = IF added THEN StartSample(invocation) ELSE NoValue
  BY DEF Task
<1>8. /\ StartSample(invocation) \in Sample /\ StartSample(invocation).start = invocation
      /\ kind # "level" => StartSample(invocation).sum = 0 /\ StartSample(invocation).count = 0
      /\ kind = "level" => (StartSample(invocation).count > 0 <=> latestValue # NoValue)
  BY <1>1, <1>2, SampleStarts
<1> HIDE DEF StartSample
<1> QED BY <1>3, <1>4, <1>5, <1>6, <1>7, <1>8

\* A task without a sample.
LEMMA FirstTaskKeeps ==
  ASSUME MetricsIInv, Task, sample = NoValue
  PROVE  MetricsIInv'
<1>1. MetricsTyped /\ Counts /\ OngoingFits /\ Ordered /\ \A i \in 1 .. Len(reports) : Fits(i)
  BY DEF MetricsIInv
<1>2. /\ started = "yes" /\ now >= invocation
      /\ UNCHANGED <<now, started, aborted, kind, added, latestValue, reported, recorded,
                     reports, delayed, upTo>>
  BY DEF Task
<1>3. /\ invocation' \in Nat /\ invocation' >= invocation + Period
      /\ ~late' => ~late /\ now = invocation /\ invocation' = invocation + Period
      /\ late' \in BOOLEAN
      /\ sample' \in Sample \cup {NoValue}
      /\ sample' # NoValue =>
           /\ sample'.start = invocation
           /\ kind # "level" => sample'.sum = 0 /\ sample'.count = 0
           /\ kind = "level" => (sample'.count > 0 <=> latestValue # NoValue)
  BY TaskSets
<1>4. invocation \in Nat /\ Period \in Nat \ {0} /\ now \in Nat
  BY <1>1, MetricsAssumption DEF MetricsTyped
<1>5. MetricsTyped'
  BY <1>1, <1>2, <1>3, <1>4 DEF MetricsTyped
<1>6. Counts'
  BY <1>1, <1>2, <1>3 DEF Counts, Sum, UpTo
<1>7. OngoingFits'
  <2>1. \A i \in 1 .. Len(reports) : reports[i].end <= invocation' - Period
    <3>1. \A i \in 1 .. Len(reports) : reports[i] \in Report
      BY <1>1, ElementOfSeq DEF MetricsTyped
    <3>2. \A i \in 1 .. Len(reports) : reports[i].end \in Nat
      BY <3>1 DEF Report
    <3> QED BY <3>2, <1>1, <1>3, <1>4 DEF OngoingFits
  <2>2. sample' # NoValue => sample'.start < invocation'
    BY <1>3, <1>4
  <2>3. sample' # NoValue /\ ~late' => sample'.start = invocation' - Period
    BY <1>3, <1>4
  <2> QED BY <2>1, <2>2, <2>3, <1>1, <1>2, <1>3 DEF OngoingFits
<1>8. Ordered'
  <2>1. CASE late'
    BY <2>1 DEF Ordered
  <2>2. CASE ~late'
    <3>1. ~late /\ now = invocation
      BY <2>2, <1>3
    <3>2. \A r \in delayed : r.due \in Nat
      BY <1>1 DEF MetricsTyped, Waiting
    <3>3. delayed = {}
      BY <3>1, <3>2, <1>1, <1>4 DEF Ordered
    <3>4. \A i \in 1 .. Len(reported) : reported[i] <= invocation' - Period
      <4>1. \A i \in 1 .. Len(reported) : reported[i] \in Nat
        BY <1>1, ElementOfSeq DEF MetricsTyped
      <4> QED BY <4>1, <3>1, <1>1, <1>3, <1>4 DEF Ordered
    <3> QED BY <3>1, <3>3, <3>4, <1>1, <1>2 DEF Ordered
  <2> QED BY <2>1, <2>2
<1>9. \A i \in 1 .. Len(reports) : Fits(i)'
  BY <1>1, <1>2, <1>3 DEF Fits
<1> QED BY <1>2, <1>5, <1>6, <1>7, <1>8, <1>9 DEF MetricsIInv

\* A task that reports a sample.
LEMMA ReportMade ==
  ASSUME MetricsIInv, Task, sample # NoValue
  PROVE  \E r \in Report :
           /\ reports' = Append(reports, r)
           /\ r.start = invocation - Period /\ r.end = invocation
           /\ r.value = NoValue <=> (kind \in {"average", "level"} /\ sample.count = 0)
           /\ r.value # NoValue => /\ r.value.sum = sample.sum
                                   /\ r.value.elapsed = invocation - sample.start
<1>1. MetricsTyped /\ OngoingFits
  BY DEF MetricsIInv
<1>2. sample \in Sample /\ invocation \in Nat /\ sample.start < invocation /\ invocation >= Period
  BY <1>1 DEF MetricsTyped, OngoingFits, Task
<1>3. PICK v : v = Aggregated(sample, invocation)
  OBVIOUS
<1>4. /\ v \in Value \cup {NoValue}
      /\ v = NoValue <=> (kind \in {"average", "level"} /\ sample.count = 0)
      /\ v # NoValue => v.sum = sample.sum /\ v.elapsed = invocation - sample.start
  BY <1>2, <1>3, AggregatedValue
<1> HIDE DEF Aggregated
<1>5. invocation - Period \in Nat
  BY <1>2, MetricsAssumption
<1>6. PICK r : r = [start |-> invocation - Period, end |-> invocation, value |-> v]
  OBVIOUS
<1>7. r \in Report /\ r.start = invocation - Period /\ r.end = invocation /\ r.value = v
  BY <1>2, <1>4, <1>5, <1>6 DEF Report
<1>8. reports' = Append(reports, r)
  BY <1>3, <1>6 DEF Task
<1> QED BY <1>4, <1>7, <1>8

LEMMA ReportCounts ==
  ASSUME MetricsTyped, Counts, Task, sample # NoValue, NEW r \in Report,
         reports' = Append(reports, r),
         r.value = NoValue <=> (kind \in {"average", "level"} /\ sample.count = 0),
         r.value # NoValue => r.value.sum = sample.sum,
         kind # "level" /\ sample' # NoValue => sample'.sum = 0 /\ sample'.count = 0
  PROVE  Counts'
<1> SUFFICES ASSUME kind # "level" PROVE Counts'
  BY DEF Task, Counts
<1>1. /\ upTo' = Append(upTo, recorded) /\ recorded' = recorded /\ kind' = kind
  BY DEF Task
<1>2. /\ Len(upTo) = Len(reports) /\ Len(reports) \in Nat /\ recorded \in Nat
      /\ upTo \in Seq(Nat) /\ reports \in Seq(Report)
      /\ \A i \in 1 .. Len(reports) : Sum(reports[i]) = UpTo(i) - UpTo(i - 1)
      /\ recorded - UpTo(Len(reports)) = sample.sum
      /\ sample.sum = sample.count
  BY DEF Counts, MetricsTyped
<1>3. PICK n \in Nat : n = Len(reports)
  BY <1>2
<1>4. /\ Len(reports') = n + 1 /\ reports'[n + 1] = r
      /\ \A i \in 1 .. n : reports'[i] = reports[i]
  BY <1>2, <1>3, AppendProperties
<1>5. /\ Len(upTo') = n + 1 /\ upTo'[n + 1] = recorded
      /\ \A i \in 1 .. n : upTo'[i] = upTo[i]
  BY <1>1, <1>2, <1>3, AppendProperties
<1>6. \A i \in 0 .. n : UpTo(i)' = UpTo(i)
  BY <1>3, <1>5 DEF UpTo
<1>7. UpTo(n + 1)' = recorded
  BY <1>3, <1>5 DEF UpTo
<1>8. Sum(r) = sample.sum
  BY <1>2 DEF Sum
<1>9. UpTo(n) \in Nat /\ recorded - UpTo(n) = sample.sum
  <2>1. n # 0 => upTo[n] \in Nat
    BY <1>2, <1>3, ElementOfSeq
  <2>2. UpTo(n) \in Nat
    BY <2>1 DEF UpTo
  <2> QED BY <2>2, <1>2, <1>3
<1>10. ASSUME NEW i \in 1 .. n + 1
       PROVE  Sum(reports'[i]) = UpTo(i)' - UpTo(i - 1)'
  <2>1. CASE i \in 1 .. n
    <3>1. i \in 0 .. n /\ i - 1 \in 0 .. n
      BY <2>1
    <3>2. UpTo(i)' = UpTo(i) /\ UpTo(i - 1)' = UpTo(i - 1)
      BY <3>1, <1>6
    <3> QED BY <3>2, <2>1, <1>2, <1>3, <1>4
  <2>2. CASE i = n + 1
    <3>1. i - 1 = n /\ n \in 0 .. n
      BY <2>2, <1>3
    <3>2. UpTo(i - 1)' = UpTo(n)
      BY <3>1, <1>6
    <3> QED BY <3>2, <2>2, <1>4, <1>7, <1>8, <1>9
  <2> QED BY <2>1, <2>2, <1>3
<1>11. recorded' - UpTo(n + 1)' = 0
  BY <1>1, <1>2, <1>7
<1>12. UpTo(Len(reports))' = UpTo(n + 1)'
  BY <1>4 DEF UpTo
<1>13. \A i \in 1 .. Len(reports') : Sum(reports'[i]) = UpTo(i)' - UpTo(i - 1)'
  BY <1>10, <1>4
<1> HIDE DEF UpTo, Sum
<1>14. Len(upTo') = Len(reports')
  BY <1>4, <1>5
<1>15. recorded' - UpTo(Len(reports))' = (IF sample' = NoValue THEN 0 ELSE sample'.sum)
  BY <1>11, <1>12
<1>16. sample' # NoValue => sample'.sum = sample'.count
  OBVIOUS
<1> QED BY <1>13, <1>14, <1>15, <1>16 DEF Counts

LEMMA ReportFits ==
  ASSUME MetricsIInv, Task, sample # NoValue, NEW r \in Report,
         reports' = Append(reports, r),
         r.start = invocation - Period, r.end = invocation,
         r.value = NoValue <=> (kind \in {"average", "level"} /\ sample.count = 0),
         r.value # NoValue => r.value.elapsed = invocation - sample.start
  PROVE  \A i \in 1 .. Len(reports') : Fits(i)'
<1>1. MetricsTyped /\ OngoingFits /\ \A i \in 1 .. Len(reports) : Fits(i)
  BY DEF MetricsIInv
<1>2. /\ now \in Nat /\ invocation \in Nat /\ Period \in Nat \ {0}
      /\ reports \in Seq(Report) /\ Len(reports) \in Nat
  BY <1>1, MetricsAssumption DEF MetricsTyped
<1>3. /\ now >= invocation /\ aborted = NoValue
      /\ UNCHANGED <<now, aborted, kind>>
      /\ ~late' => ~late
  BY TaskSets DEF Task
<1>4. PICK n \in Nat : n = Len(reports)
  BY <1>2
<1>5. /\ Len(reports') = n + 1 /\ reports'[n + 1] = r
      /\ \A i \in 1 .. n : reports'[i] = reports[i]
  BY <1>2, <1>4, AppendProperties
<1>6. ASSUME NEW i \in 1 .. n
      PROVE  Fits(i)'
  <2>1. reports'[i] = reports[i] /\ (i > 1 => reports'[i - 1] = reports[i - 1])
    BY <1>4, <1>5
  <2> QED BY <2>1, <1>1, <1>3, <1>4 DEF Fits
<1>7. ASSUME NEW i \in {n + 1}
      PROVE  Fits(i)'
  <2>1. reports'[i] = r /\ (i > 1 => n > 0 /\ reports'[i - 1] = reports[n])
    BY <1>4, <1>5
  <2>2. i > 1 => reports[n].end <= r.start
    BY <1>1, <1>2, <1>4 DEF OngoingFits
  <2>3. r.value # NoValue /\ ~late' => r.value.elapsed = Period
    <3>1. ASSUME ~late PROVE invocation - sample.start = Period
      <4>1. sample \in Sample
        BY <1>1 DEF MetricsTyped
      <4>2. sample.start \in Nat /\ sample.start = invocation - Period
        BY <4>1, <3>1, <1>1 DEF OngoingFits, Sample
      <4> QED BY <4>2, <1>2
    <3> QED BY <3>1, <1>3
  <2>4. kind = "level" /\ n > 0 /\ reports[n].value # NoValue => r.value # NoValue
    <3>1. sample.count \in Nat
      BY <1>1 DEF MetricsTyped, Sample
    <3> QED BY <3>1, <1>1, <1>2, <1>4 DEF OngoingFits
  <2> QED BY <2>1, <2>2, <2>3, <2>4, <1>2, <1>3 DEF Fits
<1>8. \A i \in 1 .. n + 1 : Fits(i)'
  <2>1. \A i \in 1 .. n + 1 : i \in 1 .. n \/ i \in {n + 1}
    BY <1>4
  <2> QED BY <2>1, <1>6, <1>7
<1> QED BY <1>5, <1>8

LEMMA ReportTaskKeeps ==
  ASSUME MetricsIInv, Task, sample # NoValue
  PROVE  MetricsIInv'
<1>1. MetricsTyped /\ Counts /\ OngoingFits /\ Ordered
  BY DEF MetricsIInv
<1>2. PICK r \in Report :
           /\ reports' = Append(reports, r)
           /\ r.start = invocation - Period /\ r.end = invocation
           /\ r.value = NoValue <=> (kind \in {"average", "level"} /\ sample.count = 0)
           /\ r.value # NoValue => /\ r.value.sum = sample.sum
                                   /\ r.value.elapsed = invocation - sample.start
  BY ReportMade
<1>3. PICK delay \in 0 .. MaxDelay :
        delayed' = delayed \cup {[end |-> invocation, due |-> now + delay]}
  BY DEF Task
<1>4. /\ started = "yes" /\ now >= invocation /\ upTo' = Append(upTo, recorded)
      /\ UNCHANGED <<now, started, aborted, kind, added, latestValue, reported, recorded>>
  BY DEF Task
<1>5. /\ invocation' \in Nat /\ invocation' >= invocation + Period
      /\ ~late' => ~late /\ now = invocation /\ invocation' = invocation + Period
      /\ late' \in BOOLEAN
      /\ sample' \in Sample \cup {NoValue}
      /\ sample' # NoValue =>
           /\ sample'.start = invocation
           /\ kind # "level" => sample'.sum = 0 /\ sample'.count = 0
           /\ kind = "level" => (sample'.count > 0 <=> latestValue # NoValue)
  BY TaskSets
<1>6. /\ invocation \in Nat /\ Period \in Nat \ {0} /\ now \in Nat /\ MaxDelay \in 0 .. Period - 1
      /\ reports \in Seq(Report) /\ Len(reports) \in Nat /\ upTo \in Seq(Nat) /\ recorded \in Nat
  BY <1>1, MetricsAssumption DEF MetricsTyped
<1>7. /\ reports' \in Seq(Report) /\ Len(reports') = Len(reports) + 1
      /\ reports'[Len(reports) + 1] = r
      /\ \A i \in 1 .. Len(reports) : reports'[i] = reports[i]
  BY <1>2, <1>6, AppendProperties
<1>8. PICK w : w = [end |-> invocation, due |-> now + delay]
  OBVIOUS
<1>9. w \in Waiting /\ w.end = invocation /\ w.due = now + delay
  BY <1>6, <1>8 DEF Waiting
<1>10. MetricsTyped'
  <2>1. upTo' \in Seq(Nat)
    BY <1>4, <1>6, AppendProperties
  <2>2. delayed' \in SUBSET Waiting
    BY <1>1, <1>3, <1>8, <1>9 DEF MetricsTyped
  <2>3. started' = "yes" /\ invocation' >= Period
    BY <1>4, <1>5, <1>6
  <2> QED BY <2>1, <2>2, <2>3, <1>1, <1>4, <1>5, <1>6, <1>7 DEF MetricsTyped
<1>11. Counts'
  BY <1>1, <1>2, <1>5, ReportCounts
<1>12. \A i \in 1 .. Len(reports') : Fits(i)'
  BY <1>2, ReportFits
<1>13. OngoingFits'
  <2>1. ASSUME NEW i \in 1 .. Len(reports') PROVE reports'[i].end <= invocation' - Period
    <3>1. CASE i \in 1 .. Len(reports)
      <4>1. reports[i] \in Report
        BY <3>1, <1>6, ElementOfSeq
      <4>2. reports[i].end \in Nat /\ reports[i].end <= invocation - Period
        BY <4>1, <3>1, <1>1 DEF OngoingFits, Report
      <4> QED BY <4>2, <3>1, <1>5, <1>6, <1>7
    <3>2. CASE i = Len(reports) + 1
      BY <3>2, <1>2, <1>5, <1>6, <1>7
    <3> QED BY <3>1, <3>2, <1>6, <1>7
  <2>2. sample' # NoValue => sample'.start < invocation'
    BY <1>5, <1>6
  <2>3. sample' # NoValue /\ ~late' => sample'.start = invocation' - Period
    BY <1>5, <1>6
  <2>4. kind = "level" /\ r.value # NoValue => latestValue # NoValue
    <3>1. sample.count \in Nat
      BY <1>1 DEF MetricsTyped, Sample
    <3> QED BY <3>1, <1>1, <1>2 DEF OngoingFits
  <2> QED BY <2>1, <2>2, <2>3, <2>4, <1>4, <1>5, <1>6, <1>7 DEF OngoingFits
<1>14. Ordered'
  <2>1. CASE late'
    BY <2>1 DEF Ordered
  <2>2. CASE ~late'
    <3>1. ~late /\ now = invocation /\ invocation' = invocation + Period
      BY <2>2, <1>5
    <3>2. \A q \in delayed : q.due \in Nat
      BY <1>1 DEF MetricsTyped, Waiting
    <3>3. delayed = {}
      BY <3>1, <3>2, <1>1, <1>6 DEF Ordered
    <3>4. delayed' = {w}
      BY <3>3, <1>3, <1>8
    <3>5. \A i \in 1 .. Len(reported) : reported[i] \in Nat
      BY <1>1, ElementOfSeq DEF MetricsTyped
    <3>6. \A i \in 1 .. Len(reported) : reported[i] < invocation /\ reported[i] <= invocation' - Period
      BY <3>1, <3>5, <1>1, <1>6 DEF Ordered
    <3>7. w.end = invocation' - Period /\ w.due < invocation' /\ now <= w.due
      BY <3>1, <1>6, <1>9
    <3> QED BY <3>1, <3>4, <3>6, <3>7, <1>1, <1>4, <1>9 DEF Ordered
  <2> QED BY <2>1, <2>2
<1> QED BY <1>10, <1>11, <1>12, <1>13, <1>14 DEF MetricsIInv

LEMMA MetricsSteps == MetricsIInv /\ [MetricsNext]_metricsVars => MetricsIInv'
<1> SUFFICES ASSUME MetricsIInv, [MetricsNext]_metricsVars PROVE MetricsIInv'
  OBVIOUS
<1>1. CASE UNCHANGED metricsVars
  BY <1>1 DEF metricsVars, MetricsIInv, MetricsTyped, Counts, OngoingFits, Ordered, Fits, Sum, UpTo
<1> QED
  BY <1>1, QuietKeeps, RecordKeeps, EnsureStartedKeeps, PassesKeeps, FirstTaskKeeps, ReportTaskKeeps,
     PublishReportKeeps DEF MetricsNext

LEMMA MetricsImplied == MetricsIInv => MetricsInv
<1> SUFFICES ASSUME MetricsIInv PROVE MetricsInv
  OBVIOUS
<1>1. /\ DOMAIN reports = 1 .. Len(reports)
      /\ DOMAIN reported = 1 .. Len(reported)
  BY LenProperties DEF MetricsIInv, MetricsTyped
<1>2. EachCountedOnce
  BY <1>1 DEF MetricsIInv, Counts, EachCountedOnce
<1>3. PeriodsFit
  BY <1>1 DEF MetricsIInv, Fits, PeriodsFit
<1>4. SentInOrder
  BY <1>1 DEF MetricsIInv, Ordered, SentInOrder
<1> QED BY <1>2, <1>3, <1>4 DEF MetricsInv

\* Every value is counted in one report, the periods of the reports do not overlap and
\* fit what was counted, and unless a timer was late the reports are published in order,
\* for every period, every delay and any number of values.
THEOREM ValuesAreCountedOnce == MetricsSpec => []MetricsInv
<1> QED BY MetricsStarts, MetricsSteps, MetricsImplied, PTL DEF MetricsSpec

-----------------------------------------------------------------------------
(* The queries of the index.                                                       *)

State == {"absent", "empty", "granted", "orphan"}
Item == [entity : Entity, was : State]
QueryRecord == [step : {"none", "waiting", "paging", "done", "failed"}, since : Nat, items : Seq(Item)]

\* The ranges of the variables: what the client knows of the index is behind it.
GraphTyped ==
  /\ ledger \in Seq([Entity -> State]) /\ Len(ledger) \in Nat
  /\ indexed \in 1 .. Len(ledger) /\ required \in Nat /\ known \in Nat /\ known <= indexed
  /\ query \in [Query -> QueryRecord]

Has(items, e) == \E i \in 1 .. Len(items) : items[i].entity = e /\ items[i].was = "granted"

\* A query reads only what the index has after the client's last change.
QueryWaits(q) ==
  /\ query[q].step \in {"none", "waiting"} => query[q].items = <<>>
  /\ query[q].step \in {"waiting", "paging"} /\ q \notin gates => query[q].since <= known

\* What it has read was there in that time ...
QueryReads(q) ==
  \A i \in 1 .. Len(query[q].items) :
    /\ query[q].items[i].was # "absent"
    /\ q = "list" => query[q].items[i].was # "empty"
    /\ query[q].items[i].was = "granted" => Sometime(q, query[q].items[i].entity)

\* ... in the order of the ids, unless streams are searched ...
QueryOrdered(q) ==
  q \in {"list", "assignments"} =>
    \A i, j \in 1 .. Len(query[q].items) :
      i < j => query[q].items[i].entity < query[q].items[j].entity

\* ... and all that was there throughout, up to the last id, or to the end.
QueryComplete(q) ==
  q \in {"list", "assignments"} =>
    \A e \in Entity :
      Throughout(q, e) /\ (q = "list" \/ StreamOf[e] = 1)
      /\ (query[q].step = "done" \/ e <= LastId(query[q].items))
        => Has(query[q].items, e)

\* A search has all of it only in its first page.
SearchComplete(q) ==
  q = "search" =>
    /\ query[q].step = "paging" => Len(query[q].items) >= PageSize
    /\ query[q].step = "done" /\ Len(query[q].items) < PageSize =>
         \A e \in Entity : Throughout(q, e) => Has(query[q].items, e)

QueryFits(q) ==
  QueryWaits(q) /\ QueryReads(q) /\ QueryOrdered(q) /\ QueryComplete(q) /\ SearchComplete(q)

GraphIInv == GraphTyped /\ \A q \in Query : QueryFits(q)

LEMMA GraphStarts == GraphInit => GraphIInv
<1> SUFFICES ASSUME GraphInit PROVE GraphIInv
  OBVIOUS
<1>1. ledger \in Seq([Entity -> State]) /\ Len(ledger) = 1
  <2>1. [e \in Entity |-> "absent"] \in [Entity -> State]
    BY DEF State
  <2> QED BY <2>1 DEF GraphInit
<1>2. query \in [Query -> QueryRecord]
  <2>1. <<>> \in Seq(Item)
    BY EmptySeq
  <2>2. [step |-> "none", since |-> 0, items |-> <<>>] \in QueryRecord
    BY <2>1 DEF QueryRecord
  <2> QED BY <2>2 DEF GraphInit
<1>3. GraphTyped
  BY <1>1, <1>2 DEF GraphInit, GraphTyped
<1>4. ASSUME NEW q \in Query PROVE QueryFits(q)
  <2>1. query[q].step = "none" /\ query[q].items = <<>> /\ Len(query[q].items) = 0
    BY DEF GraphInit
  <2>2. LastId(query[q].items) = 0 /\ \A e \in Entity : ~(e <= 0)
    BY <2>1, GraphAssumption DEF LastId
  <2> QED
    BY <2>1, <2>2 DEF QueryFits, QueryWaits, QueryReads, QueryOrdered, QueryComplete, SearchComplete
<1> QED BY <1>3, <1>4 DEF GraphIInv

\* As the index and the chain go on, less was there throughout and more sometime.
LEMMA TimeGoesOn ==
  ASSUME GraphTyped, NEW q \in Query, NEW e \in Entity,
         query'[q].since = query[q].since,
         indexed' \in Nat, indexed' >= indexed,
         \A b \in 1 .. Len(ledger) : ledger'[b] = ledger[b]
  PROVE  /\ Throughout(q, e)' => Throughout(q, e)
         /\ Sometime(q, e) => Sometime(q, e)'
<1>1. indexed \in Nat /\ indexed <= Len(ledger)
  BY DEF GraphTyped
<1>2. \A b \in Window(q) : b \in Window(q)' /\ ledger'[b] = ledger[b]
  BY <1>1 DEF Window, GraphTyped
<1> QED BY <1>2 DEF Throughout, Sometime

\* A query whose pages do not change still fits.
LEMMA QueryStays ==
  ASSUME GraphIInv, NEW q \in Query,
         query'[q].since = query[q].since, query'[q].items = query[q].items,
         query'[q].step = query[q].step \/ query'[q].step = "failed",
         indexed' \in Nat, indexed' >= indexed,
         \A b \in 1 .. Len(ledger) : ledger'[b] = ledger[b],
         query'[q].step \in {"waiting", "paging"} /\ q \notin gates' => query[q].since <= known'
  PROVE  QueryFits(q)'
<1>1. GraphTyped /\ QueryFits(q)
  BY DEF GraphIInv
<1>2. query[q] \in QueryRecord
  BY <1>1 DEF GraphTyped
<1>3. \A i \in 1 .. Len(query[q].items) : query[q].items[i] \in Item
  BY <1>2, ElementOfSeq DEF QueryRecord
<1>4. \A i \in 1 .. Len(query[q].items) : query[q].items[i].entity \in Entity
  BY <1>3 DEF Item
<1>5. \A e \in Entity : (Throughout(q, e)' => Throughout(q, e)) /\ (Sometime(q, e) => Sometime(q, e)')
  BY <1>1, TimeGoesOn
<1>6. QueryWaits(q)'
  BY <1>1 DEF QueryFits, QueryWaits
<1>7. QueryReads(q)'
  BY <1>1, <1>4, <1>5 DEF QueryFits, QueryReads
<1>8. QueryOrdered(q)'
  BY <1>1 DEF QueryFits, QueryOrdered
<1>9. QueryComplete(q)'
  BY <1>1, <1>5 DEF QueryFits, QueryComplete, Has, LastId
<1>10. SearchComplete(q)'
  BY <1>1, <1>5 DEF QueryFits, SearchComplete, Has
<1> QED BY <1>6, <1>7, <1>8, <1>9, <1>10 DEF QueryFits

\* Steps of the chain, of the index and of the client's own changes.
LEMMA ChainKeeps ==
  ASSUME GraphIInv, GraphMine \/ GraphIndex \/ UpdateRequiredBlockNumber
  PROVE  GraphIInv'
<1>1. GraphTyped
  BY DEF GraphIInv
<1>2. /\ UNCHANGED <<known, gates, query>>
      /\ ledger' \in Seq([Entity -> State]) /\ Len(ledger') \in Nat /\ Len(ledger') >= Len(ledger)
      /\ \A b \in 1 .. Len(ledger) : ledger'[b] = ledger[b]
      /\ indexed' \in 1 .. Len(ledger') /\ indexed' >= indexed
      /\ required' \in Nat
  <2>1. CASE GraphMine
    <3> DEFINE newest == ledger[Len(ledger)]
    <3>1. Len(ledger) \in 1 .. Len(ledger)
      BY <1>1 DEF GraphTyped
    <3>2. newest \in [Entity -> State]
      BY <3>1, <1>1, ElementOfSeq DEF GraphTyped
    <3>3. \E n \in [Entity -> State] : ledger' = Append(ledger, n)
      <4>1. ASSUME NEW e \in Entity,
                   ledger' = Append(ledger, [newest EXCEPT ![e] = IF @ = "granted" THEN "empty" ELSE "granted"])
            PROVE  \E n \in [Entity -> State] : ledger' = Append(ledger, n)
        <5> DEFINE n == [newest EXCEPT ![e] = IF @ = "granted" THEN "empty" ELSE "granted"]
        <5>1. n \in [Entity -> State]
          BY <3>2 DEF State
        <5> QED BY <5>1, <4>1
      <4>2. ASSUME NEW s,
                   ledger' = Append(ledger, [e \in Entity |->
                     IF StreamOf[e] = s /\ newest[e] # "absent" THEN "orphan" ELSE newest[e]])
            PROVE  \E n \in [Entity -> State] : ledger' = Append(ledger, n)
        <5> DEFINE n == [e \in Entity |-> IF StreamOf[e] = s /\ newest[e] # "absent" THEN "orphan" ELSE newest[e]]
        <5>1. n \in [Entity -> State]
          BY <3>2 DEF State
        <5> QED BY <5>1, <4>2
      <4> QED BY <2>1, <4>1, <4>2 DEF GraphMine
    <3> HIDE DEF newest
    <3>4. PICK n \in [Entity -> State] : ledger' = Append(ledger, n)
      BY <3>3
    <3>5. ledger \in Seq([Entity -> State])
      BY <1>1 DEF GraphTyped
    <3>6. /\ ledger' \in Seq([Entity -> State]) /\ Len(ledger') = Len(ledger) + 1
          /\ \A b \in 1 .. Len(ledger) : ledger'[b] = ledger[b]
      BY <3>4, <3>5, AppendProperties
    <3> QED BY <3>6, <2>1, <1>1 DEF GraphTyped, GraphMine
  <2>2. CASE GraphIndex
    BY <2>2, <1>1 DEF GraphTyped, GraphIndex
  <2>3. CASE UpdateRequiredBlockNumber
    BY <2>3, <1>1 DEF GraphTyped, UpdateRequiredBlockNumber
  <2> QED BY <2>1, <2>2, <2>3
<1>3. GraphTyped'
  BY <1>1, <1>2 DEF GraphTyped
<1>4. ASSUME NEW q \in Query PROVE QueryFits(q)'
  <2>1. query[q].step \in {"waiting", "paging"} /\ q \notin gates => query[q].since <= known
    BY DEF GraphIInv, QueryFits, QueryWaits
  <2> QED BY <2>1, <1>2, QueryStays
<1> QED BY <1>3, <1>4 DEF GraphIInv

LEMMA PollingKeeps ==
  ASSUME GraphIInv, Polled \/ PollFailed \/ PollAgain
  PROVE  GraphIInv'
<1>1. GraphTyped
  BY DEF GraphIInv
<1>2. UNCHANGED <<ledger, indexed, required, query>>
  BY DEF Polled, PollFailed, PollAgain
<1>3. \/ known' = indexed /\ gates' = (IF indexed = known THEN gates ELSE StillClosed)
      \/ UNCHANGED <<known, gates>>
  BY DEF Polled, PollFailed, PollAgain
<1>4. GraphTyped'
  BY <1>1, <1>2, <1>3 DEF GraphTyped
<1>5. ASSUME NEW q \in Query PROVE QueryFits(q)'
  <2>1. query[q].step \in {"waiting", "paging"} /\ q \notin gates => query[q].since <= known
    BY DEF GraphIInv, QueryFits, QueryWaits
  <2>2. query[q] \in QueryRecord
    BY <1>1 DEF GraphTyped
  <2>3. query[q].since \in Nat
    BY <2>2 DEF QueryRecord
  <2>4. q \notin gates' => \/ query[q].since <= known'
                           \/ q \notin gates /\ known <= known'
    BY <2>3, <1>1, <1>3 DEF StillClosed, GraphTyped
  <2>5. query[q].step \in {"waiting", "paging"} /\ q \notin gates' => query[q].since <= known'
    BY <2>1, <2>3, <2>4, <1>1, <1>4 DEF GraphTyped
  <2>6. indexed' \in Nat /\ indexed' >= indexed
    BY <1>1, <1>2 DEF GraphTyped
  <2> QED BY <2>5, <2>6, <1>2, QueryStays
<1> QED BY <1>4, <1>5 DEF GraphIInv

\* A query that begins.
LEMMA WaitKeeps ==
  ASSUME GraphIInv, NEW q \in Query, WaitUntilIndexed(q)
  PROVE  GraphIInv'
<1>1. GraphTyped /\ query[q] \in QueryRecord /\ required \in Nat
  BY DEF GraphIInv, GraphTyped
<1>2. PICK r : r = [query[q] EXCEPT !.step = "waiting", !.since = required]
  OBVIOUS
<1>3. r \in QueryRecord /\ r.step = "waiting" /\ r.since = required /\ r.items = query[q].items
  BY <1>1, <1>2 DEF QueryRecord
<1>4. query' = [query EXCEPT ![q] = r]
  BY <1>1, <1>2 DEF WaitUntilIndexed, GraphTyped
<1>5. /\ query' \in [Query -> QueryRecord] /\ query'[q] = r
      /\ \A p \in Query : p # q => query'[p] = query[p]
  BY <1>1, <1>3, <1>4 DEF GraphTyped
<1>6. /\ UNCHANGED <<ledger, indexed, required, known>> /\ query[q].step = "none"
      /\ gates' = (IF required > known THEN gates \cup {q} ELSE gates)
  BY DEF WaitUntilIndexed
<1>7. GraphTyped'
  BY <1>1, <1>5, <1>6 DEF GraphTyped
<1>8. indexed' \in Nat /\ indexed' >= indexed
  BY <1>1, <1>6 DEF GraphTyped
<1>9. ASSUME NEW p \in Query, p # q PROVE QueryFits(p)'
  <2>1. query[p].step \in {"waiting", "paging"} /\ p \notin gates => query[p].since <= known
    BY DEF GraphIInv, QueryFits, QueryWaits
  <2>2. p \notin gates' => p \notin gates
    BY <1>6
  <2> QED BY <2>1, <2>2, <1>5, <1>6, <1>8, <1>9, QueryStays
<1>10. QueryFits(q)'
  <2>1. query[q].items = <<>>
    BY <1>6 DEF GraphIInv, QueryFits, QueryWaits
  <2>2. query'[q].step = "waiting" /\ query'[q].items = <<>> /\ Len(query'[q].items) = 0
    BY <2>1, <1>3, <1>5
  <2>3. q \notin gates' => query'[q].since <= known'
    BY <1>1, <1>3, <1>5, <1>6 DEF GraphTyped
  <2>4. \A e \in Entity : ~(e <= LastId(query'[q].items))
    BY <2>2, GraphAssumption DEF LastId
  <2>5. \A e \in Entity : ~(e <= LastId(query[q].items)')
    BY <2>4 DEF LastId
  <2>6. QueryWaits(q)'
    BY <2>2, <2>3 DEF QueryWaits
  <2>7. QueryReads(q)' /\ QueryOrdered(q)' /\ SearchComplete(q)'
    BY <2>2 DEF QueryReads, QueryOrdered, SearchComplete
  <2>8. QueryComplete(q)'
    BY <2>2, <2>5 DEF QueryComplete
  <2> QED BY <2>6, <2>7, <2>8 DEF QueryFits
<1> QED BY <1>7, <1>9, <1>10 DEF GraphIInv

\* A query that fails, or waits too long.
LEMMA FailingKeeps ==
  ASSUME GraphIInv, NEW q \in Query, IndexTimeout(q) \/ QueryFailed(q)
  PROVE  GraphIInv'
<1>1. GraphTyped /\ query[q] \in QueryRecord
  BY DEF GraphIInv, GraphTyped
<1>2. PICK r : r = [query[q] EXCEPT !.step = "failed"]
  OBVIOUS
<1>3. r \in QueryRecord /\ r.step = "failed" /\ r.since = query[q].since /\ r.items = query[q].items
  BY <1>1, <1>2 DEF QueryRecord
<1>4. query' = [query EXCEPT ![q] = r]
  BY <1>1, <1>2 DEF IndexTimeout, QueryFailed, GraphTyped
<1>5. /\ query' \in [Query -> QueryRecord] /\ query'[q] = r
      /\ \A p \in Query : p # q => query'[p] = query[p]
  BY <1>1, <1>3, <1>4 DEF GraphTyped
<1>6. UNCHANGED <<ledger, indexed, required, known>> /\ (gates' = gates \ {q} \/ gates' = gates)
  BY DEF IndexTimeout, QueryFailed
<1>7. GraphTyped'
  BY <1>1, <1>5, <1>6 DEF GraphTyped
<1>8. indexed' \in Nat /\ indexed' >= indexed
  BY <1>1, <1>6 DEF GraphTyped
<1>9. ASSUME NEW p \in Query PROVE QueryFits(p)'
  <2>1. query[p].step \in {"waiting", "paging"} /\ p \notin gates => query[p].since <= known
    BY DEF GraphIInv, QueryFits, QueryWaits
  <2>2. /\ query'[p].since = query[p].since /\ query'[p].items = query[p].items
        /\ query'[p].step = query[p].step \/ query'[p].step = "failed"
    BY <1>3, <1>5
  <2>3. query'[p].step \in {"waiting", "paging"} /\ p \notin gates' => query[p].since <= known'
    BY <2>1, <1>3, <1>5, <1>6
  <2> QED BY <2>2, <2>3, <1>6, <1>8, QueryStays
<1> QED BY <1>7, <1>9 DEF GraphIInv

-----------------------------------------------------------------------------
(* A page more.                                                                    *)

\* What a page is: those found, in the order asked for; whatever was found and is not
\* in it comes after it, and then it is full.
LEMMA PageIs ==
  ASSUME NEW asked, asked.found \subseteq Entity, NEW page \in Pages(asked)
  PROVE  /\ page \in Seq(Entity) /\ Len(page) \in 0 .. PageSize
         /\ DOMAIN page = 1 .. Len(page)
         /\ \A i \in 1 .. Len(page) : page[i] \in asked.found
         /\ \A i, j \in 1 .. Len(page) : i < j => <<page[i], page[j]>> \in asked.before
         /\ \A e \in asked.found : \/ \E i \in 1 .. Len(page) : page[i] = e
                                   \/ /\ Len(page) = PageSize
                                      /\ \A i \in 1 .. Len(page) : <<page[i], e>> \in asked.before
<1>1. PICK n \in 0 .. PageSize : page \in [1 .. n -> asked.found]
  BY DEF Pages
<1>2. n \in Nat /\ page \in [1 .. n -> Entity]
  BY <1>1, GraphAssumption
<1>3. page \in Seq(Entity)
  BY <1>2, SeqDef
<1>4. Len(page) \in Nat /\ DOMAIN page = 1 .. Len(page)
  BY <1>3, LenProperties
<1>5. Len(page) = n
  BY <1>2, <1>3, LenProperties
<1>6. DOMAIN page = 1 .. n
  BY <1>1
<1>7. /\ \A i, j \in 1 .. n : i < j => <<page[i], page[j]>> \in asked.before
      /\ \A e \in asked.found \ ToSet(page) :
           Len(page) = PageSize /\ \A i \in 1 .. n : <<page[i], e>> \in asked.before
  BY <1>6 DEF Pages
<1>8. \A e \in ToSet(page) : \E i \in 1 .. n : page[i] = e
  BY <1>6 DEF ToSet
<1>9. ASSUME NEW e \in asked.found
      PROVE  \/ \E i \in 1 .. n : page[i] = e
             \/ Len(page) = PageSize /\ \A i \in 1 .. n : <<page[i], e>> \in asked.before
  BY <1>7, <1>8
<1> HIDE DEF Pages
<1> QED BY <1>1, <1>3, <1>5, <1>6, <1>7, <1>9

\* The queries ask for what comes after the last id.
LEMMA AskedIs ==
  ASSUME GraphTyped, NEW q \in Query, NEW last \in Nat
  PROVE  /\ Asked(q, last).found \subseteq {e \in Entity : e > last /\ ledger[indexed][e] # "absent"}
         /\ \A e \in Entity :
              e > last /\ ledger[indexed][e] = "granted" /\ (q = "assignments" => StreamOf[e] = 1)
                => e \in Asked(q, last).found
         /\ q = "list" => \A e \in Asked(q, last).found : ledger[indexed][e] # "empty"
         /\ q \in {"list", "assignments"} => Asked(q, last).before = ById
<1>1. CASE q = "list"
  <2>1. Asked(q, last) = ListQuery(last)
    BY <1>1 DEF Asked
  <2> QED BY <2>1, <1>1 DEF ListQuery
<1>2. CASE q = "search"
  <2>1. Asked(q, last) = SearchQuery(last)
    BY <1>2 DEF Asked
  <2> QED BY <2>1, <1>2 DEF SearchQuery
<1>3. CASE q = "assignments"
  <2>1. Asked(q, last) = AssignmentsQuery(last)
    BY <1>3 DEF Asked
  <2> QED BY <2>1, <1>3 DEF AssignmentsQuery
<1> QED BY <1>1, <1>2, <1>3, GraphAssumption

\* The items of a page follow those read before.
LEMMA PageFollows ==
  ASSUME GraphTyped, NEW items \in Seq(Item), NEW page \in Seq(Entity), DOMAIN page = 1 .. Len(page)
  PROVE  LET more == items \o Items(page)
         IN  /\ more \in Seq(Item) /\ Len(more) = Len(items) + Len(page)
             /\ \A i \in 1 .. Len(items) : more[i] = items[i]
             /\ \A i \in 1 .. Len(page) :
                  /\ more[Len(items) + i].entity = page[i]
                  /\ more[Len(items) + i].was = ledger[indexed][page[i]]
<1>1. Len(page) \in Nat /\ Len(items) \in Nat
  BY LenProperties
<1>2. ledger[indexed] \in [Entity -> State]
  BY ElementOfSeq DEF GraphTyped
<1>3. \A i \in 1 .. Len(page) : page[i] \in Entity
  BY ElementOfSeq
<1>4. PICK f : f = Items(page)
  OBVIOUS
<1>5. /\ f \in [1 .. Len(page) -> Item]
      /\ \A i \in 1 .. Len(page) : f[i].entity = page[i] /\ f[i].was = ledger[indexed][page[i]]
  BY <1>2, <1>3, <1>4 DEF Items, Item
<1>6. f \in Seq(Item) /\ Len(f) = Len(page)
  <2>1. f \in Seq(Item)
    BY <1>1, <1>5, SeqDef
  <2> QED BY <2>1, <1>1, <1>5, LenProperties
<1>7. /\ items \o f \in Seq(Item) /\ Len(items \o f) = Len(items) + Len(f)
      /\ \A i \in 1 .. Len(items) + Len(f) :
           (items \o f)[i] = (IF i <= Len(items) THEN items[i] ELSE f[i - Len(items)])
  BY <1>6, ConcatProperties
<1>8. \A i \in 1 .. Len(items) : (items \o f)[i] = items[i]
  BY <1>1, <1>6, <1>7
<1>9. \A i \in 1 .. Len(page) : (items \o f)[Len(items) + i] = f[i]
  <2>1. ASSUME NEW i \in 1 .. Len(page) PROVE (items \o f)[Len(items) + i] = f[i]
    <3>1. Len(items) + i \in 1 .. Len(items) + Len(f) /\ ~(Len(items) + i <= Len(items))
          /\ (Len(items) + i) - Len(items) = i
      BY <1>1, <1>6
    <3> QED BY <3>1, <1>7
  <2> QED BY <2>1
<1> QED BY <1>4, <1>5, <1>6, <1>7, <1>8, <1>9

\* In a sequence in the order of the ids the last id is the largest.
LEMMA LastIsLargest ==
  ASSUME NEW items \in Seq(Item),
         \A i, j \in 1 .. Len(items) : i < j => items[i].entity < items[j].entity
  PROVE  /\ LastId(items) \in Nat
         /\ \A i \in 1 .. Len(items) : items[i].entity <= LastId(items)
<1>1. Len(items) \in Nat /\ \A i \in 1 .. Len(items) : items[i] \in Item
  BY LenProperties, ElementOfSeq
<1>2. \A i \in 1 .. Len(items) : items[i].entity \in Nat
  BY <1>1, GraphAssumption DEF Item
<1>3. CASE items = <<>>
  <2>1. LastId(items) = 0 /\ Len(items) = 0
    BY <1>3 DEF LastId
  <2> QED BY <2>1
<1>4. CASE items # <<>>
  <2>1. LastId(items) = items[Len(items)].entity
    BY <1>4 DEF LastId
  <2>2. Len(items) \in 1 .. Len(items)
    BY <1>1, <1>4, EmptySeq
  <2>3. \A i \in 1 .. Len(items) : i = Len(items) \/ i < Len(items)
    BY <1>1
  <2> QED BY <2>1, <2>2, <2>3, <1>2
<1> QED BY <1>3, <1>4

LEMMA LastIdIsId ==
  ASSUME NEW items \in Seq(Item)
  PROVE  LastId(items) \in Nat
<1>1. CASE items = <<>>
  BY <1>1 DEF LastId
<1>2. CASE items # <<>>
  <2>1. Len(items) \in 1 .. Len(items)
    BY <1>2, EmptySeq, LenProperties
  <2>2. items[Len(items)] \in Item
    BY <2>1, ElementOfSeq
  <2> QED BY <2>2, <1>2, GraphAssumption DEF LastId, Item
<1> QED BY <1>1, <1>2

\* What is read of a page: the index is in the time of the query.
LEMMA PageReads ==
  ASSUME GraphTyped, NEW q \in Query, QueryReads(q), NEW items, items = query[q].items,
         items \in Seq(Item), query[q].since \in Nat, query[q].since <= known,
         NEW page, page \in Pages(Asked(q, LastId(items)))
  PROVE  LET more == items \o Items(page)
         IN  \A i \in 1 .. Len(more) :
               /\ more[i].was # "absent"
               /\ q = "list" => more[i].was # "empty"
               /\ more[i].was = "granted" => Sometime(q, more[i].entity)
<1>1. LastId(items) \in Nat
  BY LastIdIsId
<1>2. PICK asked : asked = Asked(q, LastId(items))
  OBVIOUS
<1>3. /\ asked.found \subseteq {e \in Entity : e > LastId(items) /\ ledger[indexed][e] # "absent"}
      /\ q = "list" => \A e \in asked.found : ledger[indexed][e] # "empty"
  BY <1>1, <1>2, AskedIs
<1>4. /\ page \in Seq(Entity) /\ Len(page) \in Nat /\ DOMAIN page = 1 .. Len(page)
      /\ \A i \in 1 .. Len(page) : page[i] \in asked.found
  <2>1. asked.found \subseteq Entity /\ page \in Pages(asked)
    BY <1>2, <1>3
  <2>2. Len(page) \in 0 .. PageSize
    BY <2>1, PageIs
  <2> QED BY <2>1, <2>2, PageIs
<1>5. PICK more : more = items \o Items(page)
  OBVIOUS
<1>6. /\ more \in Seq(Item) /\ Len(more) = Len(items) + Len(page)
      /\ \A i \in 1 .. Len(items) : more[i] = items[i]
      /\ \A i \in 1 .. Len(page) :
           /\ more[Len(items) + i].entity = page[i]
           /\ more[Len(items) + i].was = ledger[indexed][page[i]]
  BY <1>4, <1>5, PageFollows
<1>7. Len(items) \in Nat
  BY LenProperties
<1>8. indexed \in Window(q)
  BY DEF GraphTyped, Window
<1>9. ASSUME NEW i \in 1 .. Len(more)
      PROVE  /\ more[i].was # "absent"
             /\ q = "list" => more[i].was # "empty"
             /\ more[i].was = "granted" => Sometime(q, more[i].entity)
  <2>1. CASE i \in 1 .. Len(items)
    BY <2>1, <1>6 DEF QueryReads
  <2>2. CASE i \notin 1 .. Len(items)
    <3>1. PICK j \in 1 .. Len(page) : i = Len(items) + j
      <4>1. i - Len(items) \in 1 .. Len(page) /\ i = Len(items) + (i - Len(items))
        BY <2>2, <1>4, <1>6, <1>7
      <4> QED BY <4>1
    <3>2. page[j] \in asked.found /\ more[i].entity = page[j] /\ more[i].was = ledger[indexed][page[j]]
      BY <3>1, <1>4, <1>6
    <3>3. more[i].was # "absent" /\ (q = "list" => more[i].was # "empty")
      BY <3>2, <1>3
    <3>4. more[i].was = "granted" => Sometime(q, more[i].entity)
      BY <3>2, <1>8 DEF Sometime
    <3> QED BY <3>3, <3>4
  <2> QED BY <2>1, <2>2
<1> QED BY <1>5, <1>9

\* A list with a page more is in order, and has all that was there throughout up to its
\* last id, or all of it when the page was not full.
LEMMA PageCompletes ==
  ASSUME GraphTyped, NEW q \in Query, q \in {"list", "assignments"},
         QueryOrdered(q), QueryComplete(q), NEW items, items = query[q].items,
         items \in Seq(Item), query[q].since \in Nat, query[q].since <= known,
         NEW page, page \in Pages(Asked(q, LastId(items)))
  PROVE  LET more == items \o Items(page)
         IN  /\ \A i, j \in 1 .. Len(more) : i < j => more[i].entity < more[j].entity
             /\ \A e \in Entity :
                  Throughout(q, e) /\ (q = "list" \/ StreamOf[e] = 1)
                  /\ (Len(page) # PageSize \/ e <= LastId(more))
                    => Has(more, e)
<1>1. /\ \A i, j \in 1 .. Len(items) : i < j => items[i].entity < items[j].entity
      /\ LastId(items) \in Nat
      /\ \A i \in 1 .. Len(items) : items[i].entity <= LastId(items)
  BY LastIsLargest DEF QueryOrdered
<1>2. PICK asked : asked = Asked(q, LastId(items))
  OBVIOUS
<1>3. /\ asked.found \subseteq {e \in Entity : e > LastId(items) /\ ledger[indexed][e] # "absent"}
      /\ \A e \in Entity :
           e > LastId(items) /\ ledger[indexed][e] = "granted" /\ (q = "assignments" => StreamOf[e] = 1)
             => e \in asked.found
      /\ asked.before = ById
  BY <1>1, <1>2, AskedIs
<1>4. asked.found \subseteq Entity /\ page \in Pages(asked)
  BY <1>2, <1>3
<1>5. /\ page \in Seq(Entity) /\ Len(page) \in 0 .. PageSize /\ DOMAIN page = 1 .. Len(page)
      /\ \A i \in 1 .. Len(page) : page[i] \in asked.found
      /\ \A i, j \in 1 .. Len(page) : i < j => <<page[i], page[j]>> \in ById
      /\ \A e \in asked.found : \/ \E i \in 1 .. Len(page) : page[i] = e
                                \/ /\ Len(page) = PageSize
                                   /\ \A i \in 1 .. Len(page) : <<page[i], e>> \in ById
  BY <1>3, <1>4, PageIs
<1>6. PICK more : more = items \o Items(page)
  OBVIOUS
<1>7. /\ more \in Seq(Item) /\ Len(more) = Len(items) + Len(page)
      /\ \A i \in 1 .. Len(items) : more[i] = items[i]
      /\ \A i \in 1 .. Len(page) :
           /\ more[Len(items) + i].entity = page[i]
           /\ more[Len(items) + i].was = ledger[indexed][page[i]]
  BY <1>5, <1>6, PageFollows
<1>8. /\ Len(items) \in Nat /\ Len(page) \in Nat /\ PageSize \in Nat \ {0}
      /\ \A i \in 1 .. Len(items) : items[i].entity \in Nat
  <2>1. \A i \in 1 .. Len(items) : items[i] \in Item
    BY ElementOfSeq
  <2> QED BY <2>1, <1>5, GraphAssumption, LenProperties DEF Item
<1>9. /\ \A i \in 1 .. Len(page) : page[i] \in Nat /\ page[i] > LastId(items)
      /\ \A i, j \in 1 .. Len(page) : i < j => page[i] < page[j]
  BY <1>3, <1>5, GraphAssumption DEF ById
<1>10. ASSUME NEW i \in 1 .. Len(more), i \notin 1 .. Len(items)
       PROVE  \E k \in 1 .. Len(page) : i = Len(items) + k
  <2>1. i - Len(items) \in 1 .. Len(page) /\ i = Len(items) + (i - Len(items))
    BY <1>10, <1>7, <1>8
  <2> QED BY <2>1
<1>11. ASSUME NEW i \in 1 .. Len(more), NEW j \in 1 .. Len(more), i < j
       PROVE  more[i].entity < more[j].entity
  <2>1. CASE j \in 1 .. Len(items)
    <3>1. i \in 1 .. Len(items)
      BY <2>1, <1>11, <1>8
    <3> QED BY <3>1, <2>1, <1>1, <1>7, <1>11
  <2>2. CASE j \notin 1 .. Len(items)
    <3>1. PICK k \in 1 .. Len(page) : j = Len(items) + k
      BY <2>2, <1>10
    <3>2. CASE i \in 1 .. Len(items)
      <4>1. more[i].entity \in Nat /\ more[i].entity <= LastId(items)
        BY <3>2, <1>1, <1>7, <1>8
      <4>2. more[j].entity = page[k] /\ page[k] \in Nat /\ page[k] > LastId(items)
        BY <3>1, <1>7, <1>9
      <4> QED BY <4>1, <4>2, <1>1
    <3>3. CASE i \notin 1 .. Len(items)
      <4>1. PICK h \in 1 .. Len(page) : i = Len(items) + h
        BY <3>3, <1>10
      <4>2. h < k
        BY <4>1, <3>1, <1>11, <1>8
      <4> QED BY <4>1, <4>2, <3>1, <1>7, <1>9
    <3> QED BY <3>2, <3>3
  <2> QED BY <2>1, <2>2
<1>12. indexed \in Window(q)
  BY DEF GraphTyped, Window
<1>13. ASSUME NEW e \in Entity, Throughout(q, e), q = "list" \/ StreamOf[e] = 1,
              Len(page) # PageSize \/ e <= LastId(more)
       PROVE  Has(more, e)
  <2>1. e \in Nat /\ ledger[indexed][e] = "granted"
    BY <1>12, <1>13, GraphAssumption DEF Throughout
  <2>2. CASE e <= LastId(items)
    <3>1. PICK i \in 1 .. Len(items) : items[i].entity = e /\ items[i].was = "granted"
      BY <2>2, <1>13 DEF QueryComplete, Has
    <3>2. i \in 1 .. Len(more) /\ more[i] = items[i]
      BY <1>7, <1>8
    <3> QED BY <3>1, <3>2 DEF Has
  <2>3. CASE e > LastId(items)
    <3>1. e \in asked.found
      BY <2>1, <2>3, <1>3, <1>13
    <3>2. CASE \E i \in 1 .. Len(page) : page[i] = e
      <4>1. PICK i \in 1 .. Len(page) : page[i] = e
        BY <3>2
      <4>2. Len(items) + i \in 1 .. Len(more)
        BY <1>7, <1>8
      <4>3. more[Len(items) + i].entity = e /\ more[Len(items) + i].was = "granted"
        BY <4>1, <2>1, <1>7
      <4> QED BY <4>2, <4>3 DEF Has
    <3>3. CASE Len(page) = PageSize /\ \A i \in 1 .. Len(page) : <<page[i], e>> \in ById
      <4>1. Len(page) \in 1 .. Len(page) /\ Len(more) = Len(items) + Len(page) /\ Len(more) # 0
        BY <3>3, <1>7, <1>8
      <4>2. more # <<>>
        BY <4>1
      <4>3. LastId(more) = page[Len(page)]
        BY <4>1, <4>2, <1>7 DEF LastId
      <4>4. page[Len(page)] < e
        BY <4>1, <3>3 DEF ById
      <4> QED BY <4>1, <4>3, <4>4, <3>3, <2>1, <1>9, <1>13
    <3> QED BY <3>1, <3>2, <3>3, <1>5
  <2> QED BY <2>1, <2>2, <2>3, <1>1
<1> QED BY <1>6, <1>11, <1>13

\* A search that ends with its first page has all that was there throughout.
LEMMA SearchReads ==
  ASSUME GraphTyped, NEW q \in Query, q = "search", query[q].since \in Nat, query[q].since <= known,
         NEW page, page \in Pages(Asked(q, LastId(<<>>)))
  PROVE  LET more == <<>> \o Items(page)
         IN  /\ Len(more) = Len(page)
             /\ Len(page) # PageSize => \A e \in Entity : Throughout(q, e) => Has(more, e)
<1>1. LastId(<<>>) = 0
  BY DEF LastId
<1>2. PICK asked : asked = Asked(q, 0)
  OBVIOUS
<1>3. /\ asked.found \subseteq {e \in Entity : e > 0 /\ ledger[indexed][e] # "absent"}
      /\ \A e \in Entity : e > 0 /\ ledger[indexed][e] = "granted" => e \in asked.found
  BY <1>2, AskedIs
<1>4. asked.found \subseteq Entity /\ page \in Pages(asked)
  BY <1>1, <1>2, <1>3
<1>5. /\ page \in Seq(Entity) /\ Len(page) \in 0 .. PageSize /\ DOMAIN page = 1 .. Len(page)
      /\ \A e \in asked.found : (\E i \in 1 .. Len(page) : page[i] = e) \/ Len(page) = PageSize
  BY <1>4, PageIs
<1>6. <<>> \in Seq(Item) /\ Len(<<>>) = 0
  BY EmptySeq
<1>7. PICK more : more = <<>> \o Items(page)
  OBVIOUS
<1>8. /\ Len(more) = 0 + Len(page)
      /\ \A i \in 1 .. Len(page) :
           /\ more[0 + i].entity = page[i]
           /\ more[0 + i].was = ledger[indexed][page[i]]
  BY <1>5, <1>6, <1>7, PageFollows
<1>9. indexed \in Window(q)
  BY DEF GraphTyped, Window
<1>10. Len(page) \in Nat
  BY <1>5, LenProperties
<1>11. ASSUME NEW e \in Entity, Throughout(q, e), Len(page) # PageSize
       PROVE  Has(more, e)
  <2>1. e > 0 /\ ledger[indexed][e] = "granted"
    BY <1>9, <1>11, GraphAssumption DEF Throughout
  <2>2. PICK i \in 1 .. Len(page) : page[i] = e
    BY <2>1, <1>3, <1>5, <1>11
  <2> QED BY <2>1, <2>2, <1>8, <1>10 DEF Has
<1> QED BY <1>7, <1>8, <1>10, <1>11

LEMMA NextPageKeeps ==
  ASSUME GraphIInv, NEW q \in Query, NextPage(q)
  PROVE  GraphIInv'
<1>1. GraphTyped /\ QueryFits(q) /\ query[q] \in QueryRecord
  BY DEF GraphIInv, GraphTyped
<1>2. PICK items \in Seq(Item) : items = query[q].items
  BY <1>1 DEF QueryRecord
<1>3. /\ query[q].step \in {"waiting", "paging"} /\ query[q].since \in Nat /\ query[q].since <= known
      /\ UNCHANGED <<ledger, indexed, required, known, gates, polls>>
  BY <1>1 DEF NextPage, QueryFits, QueryWaits, QueryRecord
<1>4. PICK page \in Pages(Asked(q, LastId(items))) :
        query' = [query EXCEPT ![q].items = @ \o Items(page),
                   ![q].step = IF Len(page) = PageSize THEN "paging" ELSE "done"]
  BY <1>2 DEF NextPage
<1>5. PICK more : more = items \o Items(page)
  OBVIOUS
<1>6. PICK s \in {"paging", "done"} : s = IF Len(page) = PageSize THEN "paging" ELSE "done"
  OBVIOUS
<1>7. /\ more \in Seq(Item) /\ Len(more) = Len(items) + Len(page)
      /\ Len(items) \in Nat /\ Len(page) \in 0 .. PageSize
  <2>1. LastId(items) \in Nat
    BY LastIdIsId
  <2>2. PICK asked : asked = Asked(q, LastId(items))
    OBVIOUS
  <2>3. asked.found \subseteq Entity /\ page \in Pages(asked)
    BY <2>1, <2>2, <1>1, AskedIs
  <2>4. page \in Seq(Entity) /\ DOMAIN page = 1 .. Len(page) /\ Len(page) \in 0 .. PageSize
    BY <2>3, PageIs
  <2> QED BY <2>4, <1>1, <1>5, PageFollows, LenProperties
<1>8. PICK r : r = [query[q] EXCEPT !.items = more, !.step = s]
  OBVIOUS
<1>9. r \in QueryRecord /\ r.step = s /\ r.since = query[q].since /\ r.items = more
  BY <1>1, <1>7, <1>8 DEF QueryRecord
<1>10. query' = [query EXCEPT ![q] = r]
  BY <1>1, <1>2, <1>4, <1>5, <1>6, <1>8 DEF GraphTyped
<1>11. /\ query' \in [Query -> QueryRecord] /\ query'[q] = r
       /\ \A p \in Query : p # q => query'[p] = query[p]
  BY <1>1, <1>9, <1>10 DEF GraphTyped
<1>12. GraphTyped'
  BY <1>1, <1>3, <1>11 DEF GraphTyped
<1>13. ASSUME NEW p \in Query, p # q PROVE QueryFits(p)'
  <2>1. query[p].step \in {"waiting", "paging"} /\ p \notin gates => query[p].since <= known
    BY DEF GraphIInv, QueryFits, QueryWaits
  <2>2. indexed' \in Nat /\ indexed' >= indexed
    BY <1>1, <1>3 DEF GraphTyped
  <2> QED BY <2>1, <2>2, <1>3, <1>11, <1>13, QueryStays
<1>14. \A e : Throughout(q, e)' = Throughout(q, e) /\ Sometime(q, e)' = Sometime(q, e)
  BY <1>3, <1>9, <1>11 DEF Throughout, Sometime, Window
<1>15. query'[q].step = s /\ query'[q].items = more /\ query'[q].since = query[q].since
  BY <1>9, <1>11
<1>16. QueryWaits(q)'
  BY <1>3, <1>15 DEF QueryWaits
<1>17. QueryReads(q)'
  <2>1. QueryReads(q)
    BY <1>1 DEF QueryFits
  <2>2. \A i \in 1 .. Len(more) :
          /\ more[i].was # "absent"
          /\ q = "list" => more[i].was # "empty"
          /\ more[i].was = "granted" => Sometime(q, more[i].entity)
    BY <2>1, <1>1, <1>2, <1>3, <1>5, PageReads
  <2> QED BY <2>2, <1>14, <1>15 DEF QueryReads
<1>18. QueryOrdered(q)' /\ QueryComplete(q)'
  <2>1. CASE q \in {"list", "assignments"}
    <3>1. QueryOrdered(q) /\ QueryComplete(q)
      BY <1>1 DEF QueryFits
    <3>2. /\ \A i, j \in 1 .. Len(more) : i < j => more[i].entity < more[j].entity
          /\ \A e \in Entity :
               Throughout(q, e) /\ (q = "list" \/ StreamOf[e] = 1)
               /\ (Len(page) # PageSize \/ e <= LastId(more))
                 => Has(more, e)
      BY <2>1, <3>1, <1>1, <1>2, <1>3, <1>5, PageCompletes
    <3>3. LastId(query[q].items)' = LastId(more)
      BY <1>15 DEF LastId
    <3>4. \A e : Has(query[q].items, e)' = Has(more, e)
      BY <1>15 DEF Has
    <3> QED BY <3>2, <3>3, <3>4, <1>6, <1>14, <1>15 DEF QueryOrdered, QueryComplete
  <2>2. CASE q \notin {"list", "assignments"}
    BY <2>2 DEF QueryOrdered, QueryComplete
  <2> QED BY <2>1, <2>2
<1>19. SearchComplete(q)'
  <2>1. CASE q = "search"
    <3>1. s = "paging" => Len(more) >= PageSize
      BY <1>6, <1>7, GraphAssumption
    <3>2. ASSUME s = "done", Len(more) < PageSize, NEW e \in Entity, Throughout(q, e)
          PROVE  Has(more, e)
      <4>1. Len(page) # PageSize /\ Len(items) < PageSize
        BY <3>2, <1>6, <1>7, GraphAssumption
      <4>2. query[q].step = "waiting"
        BY <2>1, <4>1, <1>1, <1>2, <1>3, <1>7, GraphAssumption DEF QueryFits, SearchComplete
      <4>3. items = <<>>
        BY <4>2, <1>1, <1>2 DEF QueryFits, QueryWaits
      <4> QED BY <2>1, <3>2, <4>1, <4>3, <1>1, <1>3, <1>4, <1>5, SearchReads
    <3>3. \A e : Has(query[q].items, e)' = Has(more, e)
      BY <1>15 DEF Has
    <3> QED BY <3>1, <3>2, <3>3, <1>14, <1>15 DEF SearchComplete
  <2>2. CASE q # "search"
    BY <2>2 DEF SearchComplete
  <2> QED BY <2>1, <2>2
<1>20. QueryFits(q)'
  BY <1>16, <1>17, <1>18, <1>19 DEF QueryFits
<1> QED BY <1>12, <1>13, <1>20 DEF GraphIInv

LEMMA GraphSteps == GraphIInv /\ [GraphNext]_graphVars => GraphIInv'
<1> SUFFICES ASSUME GraphIInv, [GraphNext]_graphVars PROVE GraphIInv'
  OBVIOUS
<1>1. CASE UNCHANGED graphVars
  <2>1. UNCHANGED <<ledger, indexed, required, known, gates, polls, query>>
    BY <1>1 DEF graphVars
  <2>2. GraphTyped' /\ indexed' \in Nat /\ indexed' >= indexed
    BY <2>1 DEF GraphIInv, GraphTyped
  <2>3. ASSUME NEW q \in Query PROVE QueryFits(q)'
    <3>1. query[q].step \in {"waiting", "paging"} /\ q \notin gates => query[q].since <= known
      BY DEF GraphIInv, QueryFits, QueryWaits
    <3> QED BY <3>1, <2>1, <2>2, QueryStays
  <2> QED BY <2>2, <2>3 DEF GraphIInv
<1> QED
  BY <1>1, ChainKeeps, PollingKeeps, WaitKeeps, FailingKeeps, NextPageKeeps DEF GraphNext

\* In a set of numbers that is not empty is a least one.
LEMMA LeastNumber ==
  ASSUME NEW S \in SUBSET Nat, S # {}
  PROVE  \E n \in S : \A k \in S : n <= k
<1> DEFINE R == {ss \in Nat \X Nat : ss[1] < ss[2]}
<1>1. IsWellFoundedOn(R, Nat)
  BY NatLessThanWellFounded DEF OpToRel
<1>2. PICK n \in S : \A k \in S : ~(<<k, n>> \in R)
  BY <1>1, WFMin
<1>3. \A k \in S : ~(k < n)
  BY <1>2
<1> QED BY <1>3

\* What the result of a query is, in terms of the items it has read.
LEMMA ItemsAre ==
  ASSUME GraphIInv, NEW q \in Query
  PROVE  /\ query[q].items \in Seq(Item) /\ DOMAIN query[q].items = 1 .. Len(query[q].items)
         /\ Len(query[q].items) \in Nat
         /\ \A i \in 1 .. Len(query[q].items) :
              /\ query[q].items[i].entity \in Entity /\ query[q].items[i].was \in State
<1>1. query[q].items \in Seq(Item)
  <2>1. query[q] \in QueryRecord
    BY DEF GraphIInv, GraphTyped
  <2> QED BY <2>1 DEF QueryRecord
<1>2. \A i \in 1 .. Len(query[q].items) : query[q].items[i] \in Item
  BY <1>1, ElementOfSeq
<1>3. \A i \in 1 .. Len(query[q].items) : /\ query[q].items[i].entity \in Entity
                                          /\ query[q].items[i].was \in State
  BY <1>2 DEF Item
<1> QED BY <1>1, <1>3, LenProperties

LEMMA ListsImplied == GraphIInv => ListIsComplete
<1> SUFFICES ASSUME GraphIInv, NEW q \in Query, q \in {"list", "assignments"}, query[q].step = "done"
    PROVE  /\ \A e \in Entity :
                Throughout(q, e) /\ (q = "list" \/ StreamOf[e] = 1) => e \in Result(q)
           /\ \A e \in Result(q) : Sometime(q, e)
           /\ \A i, j \in DOMAIN query[q].items :
                query[q].items[i].entity = query[q].items[j].entity => i = j
  BY DEF ListIsComplete
<1>1. PICK items : items = query[q].items
  OBVIOUS
<1>2. /\ DOMAIN items = 1 .. Len(items) /\ Len(items) \in Nat
      /\ \A i \in 1 .. Len(items) : items[i].entity \in Entity /\ items[i].was \in State
  BY <1>1, ItemsAre
<1>3. QueryReads(q) /\ QueryOrdered(q) /\ QueryComplete(q)
  BY DEF GraphIInv, QueryFits
<1>4. \A e : Has(items, e) => e \in Result(q)
  <2>1. ASSUME NEW i \in 1 .. Len(items), items[i].was = "granted"
        PROVE  items[i].entity \in Result(q)
    <3>1. i \in DOMAIN items /\ items[i].was # "orphan" /\ InForce(items[i])
      BY <2>1, <1>2 DEF InForce
    <3>2. items[i].entity \in Listed(items) /\ items[i].entity \in Assignments(items)
      BY <3>1 DEF Listed, Assignments
    <3> QED BY <3>2, <1>1 DEF Result
  <2> QED BY <2>1 DEF Has
<1>5. ASSUME NEW e \in Entity, Throughout(q, e), q = "list" \/ StreamOf[e] = 1
      PROVE  e \in Result(q)
  BY <1>1, <1>3, <1>4, <1>5 DEF QueryComplete
<1>6. ASSUME NEW e \in Result(q) PROVE Sometime(q, e)
  <2>1. PICK i \in 1 .. Len(items) : items[i].entity = e /\ items[i].was = "granted"
    <3>1. CASE q = "list"
      <4>1. PICK i \in 1 .. Len(items) : items[i].entity = e /\ items[i].was # "orphan"
        BY <3>1, <1>1, <1>2, <1>6 DEF Result, Listed
      <4> QED BY <4>1, <3>1, <1>1, <1>2, <1>3 DEF QueryReads, State
    <3>2. CASE q # "list"
      <4>1. PICK i \in 1 .. Len(items) : items[i].entity = e /\ InForce(items[i])
        BY <3>2, <1>1, <1>2, <1>6 DEF Result, Assignments
      <4> QED BY <4>1 DEF InForce
    <3> QED BY <3>1, <3>2
  <2> QED BY <2>1, <1>1, <1>3 DEF QueryReads
<1>7. ASSUME NEW i \in 1 .. Len(items), NEW j \in 1 .. Len(items), items[i].entity = items[j].entity
      PROVE  i = j
  <2>1. items[i].entity \in Nat /\ items[j].entity \in Nat
    BY <1>2, GraphAssumption
  <2>2. ~(i < j) /\ ~(j < i)
    BY <2>1, <1>1, <1>3, <1>7 DEF QueryOrdered
  <2> QED BY <2>2
<1> QED BY <1>1, <1>2, <1>5, <1>6, <1>7

LEMMA SearchImplied == GraphIInv => SearchIsSound
<1> SUFFICES ASSUME GraphIInv, NEW q \in Query, q = "search", query[q].step = "done"
    PROVE  /\ \A s \in Searched(query[q].items) : \E e \in Entity : StreamOf[e] = s /\ Sometime(q, e)
           /\ Len(query[q].items) < PageSize
              /\ (\A i \in DOMAIN query[q].items : query[q].items[i].was # "empty")
                => \A e \in Entity : Throughout(q, e) => StreamOf[e] \in Searched(query[q].items)
  BY DEF SearchIsSound
<1>1. PICK items : items = query[q].items
  OBVIOUS
<1>2. /\ DOMAIN items = 1 .. Len(items) /\ Len(items) \in Nat
      /\ \A i \in 1 .. Len(items) : items[i].entity \in Entity /\ items[i].was \in State
  BY <1>1, ItemsAre
<1>3. QueryReads(q) /\ SearchComplete(q)
  BY DEF GraphIInv, QueryFits
<1> DEFINE valid == {i \in DOMAIN items : items[i].was # "orphan"}
           first == {i \in valid : \A j \in valid :
                       StreamOf[items[j].entity] = StreamOf[items[i].entity] => i <= j}
<1>4. Searched(items) = {StreamOf[items[i].entity] : i \in {j \in first : InForce(items[j])}}
  BY DEF Searched
<1>5. ASSUME NEW s \in Searched(items)
      PROVE  \E e \in Entity : StreamOf[e] = s /\ Sometime(q, e)
  <2>1. PICK i \in DOMAIN items : StreamOf[items[i].entity] = s /\ InForce(items[i])
    BY <1>4
  <2>2. i \in 1 .. Len(items) /\ items[i].was = "granted"
    BY <2>1, <1>2 DEF InForce
  <2>3. Sometime(q, items[i].entity) /\ items[i].entity \in Entity
    BY <2>2, <1>1, <1>2, <1>3 DEF QueryReads
  <2> QED BY <2>1, <2>3
<1>6. ASSUME Len(items) < PageSize, \A i \in DOMAIN items : items[i].was # "empty",
             NEW e \in Entity, Throughout(q, e)
      PROVE  StreamOf[e] \in Searched(items)
  <2>1. PICK i \in 1 .. Len(items) : items[i].entity = e /\ items[i].was = "granted"
    BY <1>1, <1>3, <1>6 DEF SearchComplete, Has
  <2> DEFINE same == {j \in valid : StreamOf[items[j].entity] = StreamOf[e]}
  <2>2. i \in same /\ same \in SUBSET Nat
    BY <2>1, <1>2
  <2> HIDE DEF same
  <2>3. PICK n \in same : \A k \in same : n <= k
    BY <2>2, LeastNumber
  <2>4. n \in valid /\ StreamOf[items[n].entity] = StreamOf[e]
    BY <2>3 DEF same
  <2>5. n \in first
    BY <2>3, <2>4 DEF same
  <2>6. items[n].was \in State /\ items[n].was # "orphan" /\ items[n].was # "empty" /\ items[n].was # "absent"
    BY <2>4, <1>1, <1>2, <1>3, <1>6 DEF QueryReads
  <2>7. InForce(items[n])
    BY <2>6 DEF InForce, State
  <2> QED BY <2>4, <2>5, <2>7, <1>4
<1> QED BY <1>1, <1>2, <1>5, <1>6

\* A list of the index that ends has every assignment in force throughout the time since
\* the client's last change, and no other than of that time, once each; a search finds
\* only streams of that time, and of one page all of them; for every number of entities,
\* every size of a page and every order in which the index and the queries go on.
THEOREM QueriesAreComplete == GraphSpec => []GraphInv
<1>1. GraphIInv => GraphInv
  BY ListsImplied, SearchImplied DEF GraphInv
<1> QED BY <1>1, GraphStarts, GraphSteps, PTL DEF GraphSpec

-----------------------------------------------------------------------------
(* The client's view of the chain together.                                        *)

\* All that the run checks of the registry, of the queries of the index and of assigning,
\* for every value of the constants.
THEOREM ChainViewKeepsInvariants == RegistrySpec /\ GraphSpec /\ AssigningSpec => []ChainViewInv
<1>1. RegistryInv /\ GraphInv /\ AssigningInv => ChainViewInv
  BY DEF ChainViewInv
<1> QED BY <1>1, ChangesAreSeen, QueriesAreComplete, AssigningIsAcknowledged, PTL

-----------------------------------------------------------------------------
(* The broker's services together.                                                 *)

\* All that the run checks of the plugins, the broker, the requests, the metrics and the
\* stores of keys, for every value of the constants.
THEOREM ServicesKeepInvariants ==
  WebsocketSpec /\ BrokerSpec /\ BridgeSpec /\ RequestsSpec /\ MetricsSpec /\ KeysSpec => []ServicesInv
<1>1. WebsocketInv /\ BrokerInv /\ BridgeInv /\ RequestsInv /\ MetricsInv /\ KeyStoresInv => ServicesInv
  BY DEF ServicesInv
<1> QED
  BY <1>1, GoneClientsHoldNothing, OneMinerSubscription, BridgeServesItsClients, AnswersAreWellFormed,
     ValuesAreCountedOnce, KeysAreFound, PTL
==============================================================================
