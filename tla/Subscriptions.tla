----------------------------- MODULE Subscriptions -----------------------------
(***************************************************************************)
(* Subscribing to one stream part: Subscriber.ts, SubscriptionSession.ts   *)
(* with the Scaffold of its updateNodeSubscriptions, Subscription.ts and   *)
(* MessageStream.ts, the client's subscribe, unsubscribe and destroy, and  *)
(* NetworkNodeFacade.ts, which starts the node on demand.                  *)
(*                                                                         *)
(* A session serves all subscriptions of the stream part.  It joins the    *)
(* stream part when the first is added and stops for good when the last is *)
(* removed; a later subscription then gets a new session.  One step is one *)
(* piece of code between two awaits where others can run.                  *)
(***************************************************************************)
EXTENDS Naturals, Sequences, FiniteSets

CONSTANTS
  Sub,          \* the subscriptions made by the application
  NoSession,    \* no session in subSessions
  MaxSessions   \* bound: sessions ever created

ASSUME SubscriptionsAssumption == NoSession \notin Nat /\ MaxSessions \in Nat

VARIABLES
  startNode,   \* NetworkNodeFacade.startNodeTask, a pOnce: its status
  destroyed,   \* DestroySignal.onDestroy has been triggered
  node,        \* the network node: "none", "running" or "stopped"
  joined,      \* the stream part is subscribed in the node
  listeners,   \* the sessions whose onMessageInput is a listener of the node
  subSessions, \* Subscriber.subSessions: the session of the stream part
  sessions,    \* the sessions ever created, [subs, stopped, retiring, up, error,
               \* at, should, queue]; up: the down step that is due, at: where the
               \* scaffold awaits, queue: the calls of updateNodeSubscriptions
  sessionOf,   \* the session each subscription was added to
  adding,      \* where the call of subscribe for each subscription awaits
  removing,    \* where the removal of each subscription awaits
  done,        \* isDone: the subscriptions whose pipeline has ended
  outlived     \* history: a session was stopped while its down step was due

facadeVars == <<startNode, destroyed, node>>
subscriptionVars == <<facadeVars, joined, listeners, subSessions, sessions, sessionOf,
                      adding, removing, done, outlived>>

Session == DOMAIN sessions
SubscriptionCall == [of : {"add", "remove"}, sub : Sub]
SessionState ==
  [subs : SUBSET Sub, stopped : BOOLEAN, retiring : BOOLEAN, up : {"no", "unsubscribe", "noop"},
   error : BOOLEAN, at : {"idle", "act", "getNode", "nodeReady", "nodeFailed", "unsubscribed"},
   should : BOOLEAN, queue : Seq(SubscriptionCall)]

SubscriptionsTypeOK ==
  /\ startNode \in {"init", "pending", "fulfilled", "rejected"}
  /\ destroyed \in BOOLEAN /\ joined \in BOOLEAN /\ outlived \in BOOLEAN
  /\ node \in {"none", "running", "stopped"}
  /\ sessions \in Seq(SessionState)
  /\ listeners \subseteq Session
  /\ subSessions \in Session \cup {NoSession}
  /\ sessionOf \in [Sub -> Session \cup {NoSession}]
  /\ adding \in [Sub -> {"none", "waiting", "finishing", "failing", "subscribed", "failed"}]
  /\ removing \in [Sub -> {"none", "ending", "closing", "waiting", "finishing", "gone"}]
  /\ done \subseteq Sub

NewSession == [subs |-> {}, stopped |-> FALSE, retiring |-> FALSE, up |-> "no", error |-> FALSE,
               at |-> "idle", should |-> FALSE, queue |-> <<>>]

SubscriptionsInit ==
  /\ startNode = "init" /\ destroyed = FALSE /\ node = "none"
  /\ joined = FALSE /\ listeners = {}
  /\ subSessions = NoSession /\ sessions = <<>>
  /\ sessionOf = [s \in Sub |-> NoSession]
  /\ adding = [s \in Sub |-> "none"] /\ removing = [s \in Sub |-> "none"]
  /\ done = {} /\ outlived = FALSE

-----------------------------------------------------------------------------
(* SubscriptionSession.                                                    *)

\* stop sets isRetired with isStopped.
ShouldBeSubscribed(session) == ~session.stopped /\ session.subs # {}

\* updateNodeSubscriptions is called by call: it waits for its turn.
Enqueued(session, call) == [session EXCEPT !.queue = Append(@, call)]

\* stop: onRetired is triggered, its listener is yet to run.
Stopped(session) ==
  IF session.stopped THEN session ELSE [session EXCEPT !.stopped = TRUE, !.retiring = TRUE]

\* The scaffold takes up the next call: shouldUp is read.
ScaffoldStart(k) ==
  /\ sessions[k].at = "idle"
  /\ sessions[k].queue # <<>>
  /\ sessions' = [sessions EXCEPT ![k].at = "act", ![k].should = ShouldBeSubscribed(sessions[k])]
  /\ UNCHANGED <<facadeVars, joined, listeners, subSessions, sessionOf, adding, removing, done, outlived>>

\* nextScaffoldStep again: shouldUp is read anew.
Again(session) ==
  [session EXCEPT !.at = "act", !.should = ~session.error /\ ShouldBeSubscribed(session)]

\* subscribe, once it has the node.
Subscribed(session) == Again([session EXCEPT !.up = "unsubscribe"])

\* The step up: the node is there, or it is started, or starting it has failed.
ScaffoldUp(k) ==
  /\ sessions[k].at = "act" /\ sessions[k].should /\ sessions[k].up = "no"
  /\ CASE startNode = "fulfilled" ->
            /\ sessions' = [sessions EXCEPT ![k] = Subscribed(@)]
            /\ listeners' = listeners \cup {k}
            /\ joined' = TRUE
            /\ UNCHANGED startNode
       [] startNode = "rejected" \/ (startNode = "init" /\ destroyed) ->
            /\ sessions' = [sessions EXCEPT ![k] = Again([@ EXCEPT !.error = TRUE, !.up = "noop"])]
            /\ startNode' = "rejected"
            /\ UNCHANGED <<listeners, joined>>
       [] startNode \in {"init", "pending"} /\ ~(startNode = "init" /\ destroyed) ->
            /\ sessions' = [sessions EXCEPT ![k].at = "getNode"]
            /\ startNode' = "pending"
            /\ UNCHANGED <<listeners, joined>>
  /\ UNCHANGED <<destroyed, node, subSessions, sessionOf, adding, removing, done, outlived>>

\* The node was started for session k.
SubscribeStarted(k) ==
  /\ sessions[k].at = "nodeReady"
  /\ sessions' = [sessions EXCEPT ![k] = Subscribed(@)]
  /\ listeners' = listeners \cup {k}
  /\ joined' = TRUE
  /\ UNCHANGED <<facadeVars, subSessions, sessionOf, adding, removing, done, outlived>>

\* Starting the node failed: collectErrors.
SubscribeFailed(k) ==
  /\ sessions[k].at = "nodeFailed"
  /\ sessions' = [sessions EXCEPT ![k] = Again([@ EXCEPT !.error = TRUE, !.up = "noop"])]
  /\ UNCHANGED <<facadeVars, joined, listeners, subSessions, sessionOf, adding, removing, done, outlived>>

\* The step down: unsubscribe, with stop to follow.
ScaffoldDown(k) ==
  /\ sessions[k].at = "act" /\ ~sessions[k].should /\ sessions[k].up = "unsubscribe"
  /\ sessions' = [sessions EXCEPT ![k].at = "unsubscribed"]
  /\ listeners' = listeners \ {k}
  /\ joined' = FALSE
  /\ UNCHANGED <<facadeVars, subSessions, sessionOf, adding, removing, done, outlived>>

\* stop, in the step down after unsubscribe.
ScaffoldStop(k) ==
  /\ sessions[k].at = "unsubscribed"
  /\ sessions' = [sessions EXCEPT ![k] = Again([Stopped(@) EXCEPT !.up = "no"])]
  /\ UNCHANGED <<facadeVars, joined, listeners, subSessions, sessionOf, adding, removing, done, outlived>>

\* The down step of a step that failed does nothing.
ScaffoldNoop(k) ==
  /\ sessions[k].at = "act" /\ ~sessions[k].should /\ sessions[k].up = "noop"
  /\ sessions' = [sessions EXCEPT ![k] = Again([@ EXCEPT !.up = "no"])]
  /\ UNCHANGED <<facadeVars, joined, listeners, subSessions, sessionOf, adding, removing, done, outlived>>

\* No step is left: the call is over, with the error that was collected if any.
ScaffoldDone(k) ==
  LET s    == sessions[k]
      call == Head(s.queue)
      fail == s.error /\ ~s.should
  IN  /\ s.at = "act"
      /\ (s.should /\ s.up = "unsubscribe") \/ (~s.should /\ s.up = "no")
      /\ sessions' = [sessions EXCEPT ![k] = [@ EXCEPT !.at = "idle", !.error = FALSE,
                                                      !.queue = Tail(s.queue)]]
      /\ IF call.of = "add"
         THEN /\ adding' = [adding EXCEPT ![call.sub] = IF fail THEN "failing" ELSE "finishing"]
              /\ UNCHANGED removing
         ELSE /\ removing' = [removing EXCEPT ![call.sub] = IF fail THEN "gone" ELSE "finishing"]
              /\ UNCHANGED adding
      /\ UNCHANGED <<facadeVars, joined, listeners, subSessions, sessionOf, done, outlived>>

\* Mutant: the session stays in subSessions.
Retire_Keeps(k) ==
  /\ sessions[k].retiring
  /\ sessions' = [sessions EXCEPT ![k].retiring = FALSE]
  /\ UNCHANGED <<facadeVars, joined, listeners, subSessions, sessionOf, adding, removing, done, outlived>>

\* The listener of onRetired (Subscriber): the session is forgotten.
Retire(k) ==
  /\ sessions[k].retiring
  /\ sessions' = [sessions EXCEPT ![k].retiring = FALSE]
  /\ subSessions' = NoSession
  /\ UNCHANGED <<facadeVars, joined, listeners, sessionOf, adding, removing, done, outlived>>

\* The end of updateSubscriptions, by the caller of add or remove.
Updated(k) ==
  /\ sessions' = [sessions EXCEPT ![k] = IF ShouldBeSubscribed(@) THEN @ ELSE Stopped(@)]
  /\ outlived' = (outlived \/ (sessions'[k].stopped /\ sessions[k].up = "unsubscribe"))

\* The subscriptions of a session, with and without s.
Holding(session, s)  == [session EXCEPT !.subs = @ \cup {s}]
Dropping(session, s) == [session EXCEPT !.subs = @ \ {s}]

\* remove(s): the session and the subscription forget each other; the
\* subscription is ended unless it has ended already.
RemoveFrom(s, k) ==
  /\ done' = done \cup {s}
  /\ IF s \in done
     THEN /\ sessions' = [sessions EXCEPT ![k] = Enqueued(Dropping(@, s), [of |-> "remove", sub |-> s])]
          /\ removing' = [removing EXCEPT ![s] = "waiting"]
     ELSE /\ sessions' = [sessions EXCEPT ![k] = Dropping(@, s)]
          /\ removing' = [removing EXCEPT ![s] = "closing"]

-----------------------------------------------------------------------------
(* The application.                                                        *)

\* subscribe, once it has the id of the stream part: Subscriber.add and the add of
\* the session that is there or of a new one.
Subscribe(s) ==
  LET k     == IF subSessions = NoSession THEN Len(sessions) + 1 ELSE subSessions
      known == IF subSessions = NoSession THEN Append(sessions, NewSession) ELSE sessions
  IN  /\ adding[s] = "none"
      /\ k <= MaxSessions
      /\ subSessions' = k
      /\ sessions' = [known EXCEPT ![k] = Enqueued(Holding(@, s), [of |-> "add", sub |-> s])]
      /\ sessionOf' = [sessionOf EXCEPT ![s] = k]
      /\ adding' = [adding EXCEPT ![s] = "waiting"]
      /\ UNCHANGED <<facadeVars, joined, listeners, removing, done, outlived>>

\* The session of s has been updated: subscribe resolves.
AddDone(s) ==
  /\ adding[s] = "finishing"
  /\ adding' = [adding EXCEPT ![s] = "subscribed"]
  /\ Updated(sessionOf[s])
  /\ UNCHANGED <<facadeVars, joined, listeners, subSessions, sessionOf, removing, done>>

\* The update failed: s is removed from the session that is there now, if it is
\* its own, and subscribe rejects.
AddFails(s) ==
  /\ adding[s] = "failing"
  /\ adding' = [adding EXCEPT ![s] = "failed"]
  /\ IF subSessions # NoSession /\ s \in sessions[subSessions].subs
     THEN RemoveFrom(s, subSessions) ELSE UNCHANGED <<sessions, removing, done>>
  /\ UNCHANGED <<facadeVars, joined, listeners, subSessions, sessionOf, outlived>>

\* client.unsubscribe, of s or of all the subscriptions it finds.
Unsubscribe(s) ==
  /\ subSessions # NoSession
  /\ s \in sessions[subSessions].subs
  /\ RemoveFrom(s, subSessions)
  /\ UNCHANGED <<facadeVars, joined, listeners, subSessions, sessionOf, adding, outlived>>

\* Subscription.unsubscribe, or the consumer stops iterating: the pipeline is ended.
EndSubscription(s) ==
  /\ adding[s] = "subscribed" /\ s \notin done
  /\ done' = done \cup {s}
  /\ removing' = [removing EXCEPT ![s] = "ending"]
  /\ UNCHANGED <<facadeVars, joined, listeners, subSessions, sessions, sessionOf, adding, outlived>>

\* Its cleanup triggers onBeforeFinally: remove, by the session it was added to.
EndedSubscription(s) ==
  /\ removing[s] = "ending"
  /\ RemoveFrom(s, sessionOf[s])
  /\ UNCHANGED <<facadeVars, joined, listeners, subSessions, sessionOf, adding, outlived>>

\* remove has ended the subscription: updateSubscriptions.
RemoveClosed(s) ==
  /\ removing[s] = "closing"
  /\ removing' = [removing EXCEPT ![s] = "waiting"]
  /\ sessions' = [sessions EXCEPT ![sessionOf[s]] = Enqueued(@, [of |-> "remove", sub |-> s])]
  /\ UNCHANGED <<facadeVars, joined, listeners, subSessions, sessionOf, adding, done, outlived>>

RemoveDone(s) ==
  /\ removing[s] = "finishing"
  /\ removing' = [removing EXCEPT ![s] = "gone"]
  /\ Updated(sessionOf[s])
  /\ UNCHANGED <<facadeVars, joined, listeners, subSessions, sessionOf, adding, done>>

-----------------------------------------------------------------------------
(* NetworkNodeFacade.                                                      *)

\* Those that await the node, told that it is there or that it is not.
Told(ss, how) == [k \in DOMAIN ss |-> IF ss[k].at = "getNode" THEN [ss[k] EXCEPT !.at = how] ELSE ss[k]]

\* The options of the node have been resolved: initNode, and start or, when the
\* client has been destroyed in the meantime, stop.
NodeCreated ==
  /\ startNode = "pending"
  /\ startNode' = IF destroyed THEN "rejected" ELSE "fulfilled"
  /\ node' = IF destroyed THEN node ELSE "running"
  /\ sessions' = Told(sessions, IF destroyed THEN "nodeFailed" ELSE "nodeReady")
  /\ UNCHANGED <<destroyed, joined, listeners, subSessions, sessionOf, adding, removing, done, outlived>>

\* Resolving them fails, and every later call gets the same error.
NodeFails ==
  /\ startNode = "pending"
  /\ startNode' = "rejected"
  /\ sessions' = Told(sessions, "nodeFailed")
  /\ UNCHANGED <<destroyed, node, joined, listeners, subSessions, sessionOf, adding, removing, done, outlived>>

\* client.destroy, before anything is removed (Unsubscribe): the signal, and the
\* facade's listener of it.  A start that is pending is left to end by itself.
Destroy ==
  /\ ~destroyed
  /\ destroyed' = TRUE
  /\ node' = IF startNode = "fulfilled" THEN "stopped" ELSE node
  /\ startNode' = IF startNode = "pending" THEN "pending" ELSE "init"
  /\ UNCHANGED <<joined, listeners, subSessions, sessions, sessionOf, adding, removing, done, outlived>>

-----------------------------------------------------------------------------
\* A chain of promises that nothing outside holds up.  It takes fewer turns until
\* session k is idle than a session created after k takes until it subscribes.
Busy(k) == sessions[k].at \notin {"idle", "getNode"} \/ (sessions[k].at = "idle" /\ sessions[k].queue # <<>>)

ScaffoldStep(k) ==
  \/ ScaffoldStart(k)
  \/ (\A j \in 1 .. k - 1 : ~Busy(j)) /\ (ScaffoldUp(k) \/ SubscribeStarted(k))
  \/ SubscribeFailed(k)
  \/ ScaffoldDown(k) \/ ScaffoldStop(k) \/ ScaffoldNoop(k) \/ ScaffoldDone(k)
  \/ Retire(k)

CallStep(s) ==
  \/ AddDone(s) \/ AddFails(s)
  \/ EndedSubscription(s) \/ RemoveClosed(s) \/ RemoveDone(s)

SubscriptionsNext ==
  \/ \E k \in Session : ScaffoldStep(k)
  \/ \E s \in Sub : CallStep(s)
  \/ \E s \in Sub : Subscribe(s) \/ Unsubscribe(s) \/ EndSubscription(s)
  \/ NodeCreated \/ NodeFails
  \/ Destroy

SubscriptionsSpec == SubscriptionsInit /\ [][SubscriptionsNext]_subscriptionVars

\* Promise callbacks run, and starting the node ends in some way.
SubscriptionsFairness ==
  /\ \A k \in 1 .. MaxSessions : WF_subscriptionVars(k \in Session /\ ScaffoldStep(k))
  /\ \A s \in Sub : WF_subscriptionVars(CallStep(s))
  /\ WF_subscriptionVars(NodeCreated \/ NodeFails)

-----------------------------------------------------------------------------
(* Properties.                                                             *)

\* Nothing is under way.
AtRest ==
  /\ \A k \in Session : sessions[k].at = "idle" /\ sessions[k].queue = <<>> /\ ~sessions[k].retiring
  /\ \A s \in Sub : adding[s] \in {"none", "subscribed", "failed"}
  /\ \A s \in Sub : removing[s] \in {"none", "gone"}

\* getSubscriptions
Listed == IF subSessions = NoSession THEN {} ELSE sessions[subSessions].subs

Heard(s) == joined /\ sessionOf[s] \in listeners /\ ~sessions[sessionOf[s]].stopped

\* Whatever is subscribed and unsubscribed in parallel, a subscription that
\* getSubscriptions lists once all calls have ended receives the messages of the
\* stream part (the test 'can subscribe and unsubscribe in parallel').
ListedAreHeard == AtRest /\ ~destroyed /\ ~outlived => \A s \in Listed : Heard(s)

\* A session that is up is not cut off by the end of an earlier one: while its
\* down step is due, the node is subscribed and calls its listener.
UpIsJoined ==
  \A k \in Session :
    sessions[k].up = "unsubscribe" /\ sessions[k].at # "unsubscribed" =>
      k \in listeners /\ (joined \/ outlived)

\* No subscription of the node is left over: once all calls have ended, the node
\* has the stream part only for a session that has subscriptions.
NothingLeftOver ==
  AtRest => /\ joined => Listed # {}
            /\ listeners \subseteq {subSessions}

\* The three together, and the types.
SubscriptionsInv == SubscriptionsTypeOK /\ ListedAreHeard /\ UpIsJoined /\ NothingLeftOver

\* Every subscribe and every unsubscribe ends: no session waits for a removal that
\* waits for the session.
CallsSettle == []<>(\A s \in Sub : adding[s] # "waiting" /\ removing[s] \notin {"closing", "waiting"})

\* "Subscribes to a stream partition in the network" (StreamrClient.subscribe):
\* a subscription that was not ended is heard.
SubscribedIsHeard ==
  AtRest /\ ~destroyed => \A s \in Sub : adding[s] = "subscribed" /\ removing[s] = "none" => Heard(s)
=============================================================================
