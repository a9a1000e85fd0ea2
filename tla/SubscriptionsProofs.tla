-------------------------- MODULE SubscriptionsProofs --------------------------
(***************************************************************************)
(* Proofs about the subscriptions to a stream part, for any number of      *)
(* subscriptions and sessions: whatever is subscribed, unsubscribed and    *)
(* ended in parallel, and however the node starts, what getSubscriptions   *)
(* lists is heard in the end, and nothing is left over in the node.        *)
(*                                                                         *)
(* The argument: a session that is not the newest has stopped for good     *)
(* (NewestOnly); the sessions that are up are the node's listeners         *)
(* (ListenersAreUp), and they are one at most unless one was stopped while *)
(* it was up (OneIsUp); a session that is up although it should not be     *)
(* will look at its state again (DownIsDue); and one that is idle although *)
(* it should be up does not exist (AddedIsUp).                             *)
(*                                                                         *)
(* And about the way of the messages to the consumers of the               *)
(* subscriptions, for any number of chains, messages and subscriptions and *)
(* any size of the buffers.  There the argument follows a message from one *)
(* stage to the next: in each of them the messages of a chain ascend       *)
(* (Ascending), the later stages hold the earlier messages (Below), none   *)
(* is newer than what its chain has emitted (Within), and what the chain   *)
(* has emitted after a message that is still there is there as well, or    *)
(* has an excuse (Whole).                                                  *)
(*                                                                         *)
(* And about the pipelines and signals of the client, for any number of    *)
(* writers, callers, listeners and triggers.  A buffer that is written to  *)
(* is above its limit by those that sleep, at most, and both gates are     *)
(* locked before anybody leaves its generator (BufferIInv).  A ONCE signal *)
(* hands its listeners to its only trigger, and whoever is still to be     *)
(* called was not called yet (OncePending); an error that has listeners    *)
(* was heard by one of them before it is ignored (ErrorsTold).             *)
(***************************************************************************)
EXTENDS MCSubscribing, SequenceTheorems, FiniteSetTheorems, FunctionTheorems,
        WellFoundedInduction, TLAPS

-----------------------------------------------------------------------------
(* The inductive invariant.                                                *)

\* subSessions has the newest session or none; the others are stopped, and have
\* been forgotten. A stopped session is in subSessions until its listener runs.
NewestOnly ==
  /\ subSessions \in {Len(sessions), NoSession}
  /\ \A k \in Session :
       /\ k # subSessions => sessions[k].stopped /\ ~sessions[k].retiring
       /\ k = subSessions => (sessions[k].stopped <=> sessions[k].retiring)

\* Whoever is in a queue of a session waits for it, and is in it once.
CallsAreOpen ==
  \A k \in Session : \A i \in 1 .. Len(sessions[k].queue) :
    LET asked == sessions[k].queue[i]
    IN  /\ sessionOf[asked.sub] = k
        /\ asked.of = "add" => adding[asked.sub] = "waiting"
        /\ asked.of = "remove" => removing[asked.sub] = "waiting"
        /\ \A j \in 1 .. Len(sessions[k].queue) : sessions[k].queue[j] = asked => j = i

\* A subscription is in the session it was added to until it is removed, which
\* happens once.
Membership ==
  \A s \in Sub :
    /\ adding[s] = "none" <=> sessionOf[s] = NoSession
    /\ adding[s] = "none" => removing[s] = "none"
    /\ removing[s] = "none" <=> s \notin done
    /\ \A k \in Session : s \in sessions[k].subs => sessionOf[s] = k /\ removing[s] \in {"none", "ending"}
    /\ adding[s] = "failed" /\ subSessions \in Session => s \notin sessions[subSessions].subs

\* What is due where the scaffold awaits, and when the node has been started.
Phase(k) ==
  /\ sessions[k].at \in {"getNode", "nodeReady", "nodeFailed"} => sessions[k].up = "no"
  /\ sessions[k].at = "unsubscribed" => sessions[k].up = "unsubscribe"
  /\ sessions[k].at # "idle" => Len(sessions[k].queue) > 0
  /\ sessions[k].at = "idle" => ~sessions[k].error
  /\ sessions[k].at = "getNode" => startNode = "pending"
  /\ startNode = "pending" \/ (startNode = "init" /\ ~destroyed) =>
       sessions[k].at \notin {"nodeReady", "nodeFailed"} /\ sessions[k].up # "unsubscribe"

Phases == \A k \in Session : Phase(k)

\* The scaffold of session k has gone up, and has not gone down again.
IsUp(k) == sessions[k].up = "unsubscribe" /\ sessions[k].at # "unsubscribed"

\* It has read that it should be up, and is about to go up.
GoesUp(k) ==
  \/ sessions[k].at = "nodeReady"
  \/ sessions[k].at = "act" /\ sessions[k].should /\ sessions[k].up = "no"

\* It has read that it should be down.
GoesDown(k) == sessions[k].at = "act" /\ ~sessions[k].should

ListenersAreUp ==
  /\ \A k \in Session : k \in listeners <=> IsUp(k)
  /\ \A k \in Session : IsUp(k) => joined \/ outlived
  /\ joined => \E k \in Session : IsUp(k)

\* A session that has stopped and is up is on its way down, and no session goes up
\* that an up one has replaced.
OneIsUp ==
  /\ ~outlived =>
       /\ \A j, k \in Session : IsUp(j) /\ IsUp(k) => j = k
       /\ \A k \in Session : sessions[k].stopped /\ IsUp(k) => GoesDown(k)
  /\ \A j, k \in Session : GoesUp(j) /\ IsUp(k) => k <= j

\* The state of session k will be looked at again.
WillLook(k) ==
  \/ sessions[k].at = "idle" /\ Len(sessions[k].queue) > 0
  \/ Len(sessions[k].queue) > 1
  \/ sessions[k].at = "unsubscribed"
  \/ GoesDown(k)
  \/ \E s \in Sub : removing[s] = "closing" /\ sessionOf[s] = k

Due(k) == sessions[k].up = "unsubscribe" => ShouldBeSubscribed(sessions[k]) \/ WillLook(k)

DownIsDue == \A k \in Session : Due(k)

\* Once subscribe has ended for a subscription of a session that goes on, it is up.
Added(k) ==
  ~sessions[k].stopped =>
    \A s \in sessions[k].subs :
      /\ adding[s] \in {"finishing", "subscribed"} => sessions[k].up = "unsubscribe"
      /\ GoesDown(k) /\ ~sessions[k].error => sessions[k].queue[1] # [of |-> "add", sub |-> s]

AddedIsUp == \A k \in Session : Added(k)

SessionsInv ==
  /\ SubscriptionsTypeOK
  /\ NewestOnly
  /\ CallsAreOpen
  /\ Membership
  /\ Phases
  /\ ListenersAreUp
  /\ OneIsUp
  /\ DownIsDue
  /\ AddedIsUp

-----------------------------------------------------------------------------
(* Steps of one session.                                                   *)

\* A step that replaces the state of one session.
LEMMA OneSession ==
  ASSUME sessions \in Seq(SessionState), NEW k \in Session, NEW new \in SessionState,
         sessions' = [sessions EXCEPT ![k] = new]
  PROVE  /\ sessions' \in Seq(SessionState)
         /\ Len(sessions') = Len(sessions)
         /\ Session' = Session
         /\ sessions'[k] = new
         /\ \A j \in Session : j # k => sessions'[j] = sessions[j]
<1>1. Session = 1 .. Len(sessions) /\ k \in 1 .. Len(sessions)
  BY DEF Session
<1>2. /\ sessions' \in Seq(SessionState)
      /\ Len(sessions') = Len(sessions)
      /\ \A j \in 1 .. Len(sessions) : sessions'[j] = IF j = k THEN new ELSE sessions[j]
  BY <1>1, ExceptSeq
<1>3. Session' = 1 .. Len(sessions')
  BY <1>2 DEF Session
<1> QED
  BY <1>1, <1>2, <1>3

\* The parts of a session's state.
LEMMA StateParts ==
  ASSUME sessions \in Seq(SessionState), NEW k \in Session
  PROVE  /\ sessions[k] \in SessionState
         /\ sessions[k].subs \subseteq Sub
         /\ sessions[k].queue \in Seq(SubscriptionCall)
         /\ Len(sessions[k].queue) \in Nat
         /\ Session = 1 .. Len(sessions) /\ k \in Nat
<1>1. Session = 1 .. Len(sessions) /\ Len(sessions) \in Nat
  BY DEF Session
<1>2. sessions[k] \in SessionState
  BY <1>1, ElementOfSeq
<1> QED
  BY <1>1, <1>2 DEF SessionState

LEMMA AgainState ==
  ASSUME NEW x \in SessionState
  PROVE  /\ Again(x) \in SessionState
         /\ Again(x).subs = x.subs /\ Again(x).queue = x.queue /\ Again(x).up = x.up
         /\ Again(x).stopped = x.stopped /\ Again(x).retiring = x.retiring /\ Again(x).error = x.error
         /\ Again(x).at = "act" /\ Again(x).should \in BOOLEAN
         /\ Again(x).should <=> ~x.error /\ ShouldBeSubscribed(x)
<1>1. (~x.error /\ ShouldBeSubscribed(x)) \in BOOLEAN
  BY DEF ShouldBeSubscribed
<1> QED
  BY <1>1 DEF Again, SessionState

LEMMA UpState ==
  ASSUME NEW x \in SessionState, NEW up \in {"no", "unsubscribe", "noop"}
  PROVE  LET y == [x EXCEPT !.up = up]
         IN  /\ y \in SessionState
             /\ y.subs = x.subs /\ y.queue = x.queue /\ y.up = up
             /\ y.stopped = x.stopped /\ y.retiring = x.retiring /\ y.error = x.error
             /\ y.at = x.at /\ y.should = x.should
BY DEF SessionState

LEMMA FailedState ==
  ASSUME NEW x \in SessionState
  PROVE  LET y == [x EXCEPT !.error = TRUE, !.up = "noop"]
         IN  /\ y \in SessionState
             /\ y.subs = x.subs /\ y.queue = x.queue /\ y.up = "noop"
             /\ y.stopped = x.stopped /\ y.retiring = x.retiring /\ y.error
             /\ y.at = x.at /\ y.should = x.should
BY DEF SessionState

LEMMA AtState ==
  ASSUME NEW x \in SessionState,
         NEW at \in {"idle", "act", "getNode", "nodeReady", "nodeFailed", "unsubscribed"}
  PROVE  LET y == [x EXCEPT !.at = at]
         IN  /\ y \in SessionState
             /\ y.subs = x.subs /\ y.queue = x.queue /\ y.up = x.up
             /\ y.stopped = x.stopped /\ y.retiring = x.retiring /\ y.error = x.error
             /\ y.at = at /\ y.should = x.should
BY DEF SessionState

LEMMA StoppedState ==
  ASSUME NEW x \in SessionState
  PROVE  /\ Stopped(x) \in SessionState
         /\ Stopped(x).subs = x.subs /\ Stopped(x).queue = x.queue /\ Stopped(x).up = x.up
         /\ Stopped(x).stopped /\ Stopped(x).error = x.error
         /\ Stopped(x).retiring <=> x.retiring \/ ~x.stopped
         /\ Stopped(x).at = x.at /\ Stopped(x).should = x.should
BY DEF SessionState, Stopped

LEMMA EnqueuedState ==
  ASSUME NEW x \in SessionState, NEW asked \in SubscriptionCall
  PROVE  /\ Enqueued(x, asked) \in SessionState
         /\ Enqueued(x, asked).subs = x.subs /\ Enqueued(x, asked).queue = Append(x.queue, asked)
         /\ Enqueued(x, asked).up = x.up /\ Enqueued(x, asked).error = x.error
         /\ Enqueued(x, asked).stopped = x.stopped /\ Enqueued(x, asked).retiring = x.retiring
         /\ Enqueued(x, asked).at = x.at /\ Enqueued(x, asked).should = x.should
<1>1. x.queue \in Seq(SubscriptionCall)
  BY DEF SessionState
<1>2. Append(x.queue, asked) \in Seq(SubscriptionCall)
  BY <1>1, AppendProperties
<1> QED
  BY <1>2 DEF SessionState, Enqueued

\* Nothing but where the scaffold is changes in the states of the sessions.
CallsStay ==
  /\ Session' = Session /\ Len(sessions') = Len(sessions)
  /\ \A j \in Session :
       /\ sessions'[j].subs = sessions[j].subs
       /\ sessions'[j].queue = sessions[j].queue
  /\ UNCHANGED <<subSessions, sessionOf, adding, removing, done>>

StopsStay ==
  \A j \in Session :
    /\ sessions'[j].stopped = sessions[j].stopped
    /\ sessions'[j].retiring = sessions[j].retiring

\* The step changes nothing of the other sessions.
OthersStay(k) == \A j \in Session : j # k => sessions'[j] = sessions[j]

LEMMA CallsStayInv ==
  ASSUME SessionsInv, CallsStay
  PROVE  CallsAreOpen' /\ Membership'
<1>1. CallsAreOpen'
  BY DEF SessionsInv, CallsAreOpen, CallsStay
<1>2. Membership'
  BY DEF SessionsInv, Membership, CallsStay
<1> QED
  BY <1>1, <1>2

LEMMA StopsStayInv ==
  ASSUME SessionsInv, CallsStay, StopsStay
  PROVE  NewestOnly'
BY DEF SessionsInv, NewestOnly, CallsStay, StopsStay

\* What the other sessions are, they stay.
LEMMA OthersKeep ==
  ASSUME NEW k \in Session, OthersStay(k)
  PROVE  \A j \in Session : j # k =>
           /\ IsUp(j)' <=> IsUp(j)
           /\ GoesUp(j)' <=> GoesUp(j)
           /\ GoesDown(j)' <=> GoesDown(j)
           /\ sessions[j].stopped' <=> sessions[j].stopped
BY DEF OthersStay, IsUp, GoesUp, GoesDown

\* A step of the scaffold of one session, by itself.
LEMMA StepOfOne ==
  ASSUME SessionsInv, NEW k \in Session, OthersStay(k), CallsStay,
         Due(k)', Added(k)'
  PROVE  DownIsDue' /\ AddedIsUp'
<1>2. ASSUME NEW j \in Session, j # k
      PROVE  Due(j)'
  BY <1>2 DEF SessionsInv, DownIsDue, Due, WillLook, GoesDown, ShouldBeSubscribed, OthersStay, CallsStay
<1>3. ASSUME NEW j \in Session, j # k
      PROVE  Added(j)'
  <2>1. sessions'[j] = sessions[j] /\ adding' = adding /\ Added(j)
    BY <1>3 DEF SessionsInv, AddedIsUp, OthersStay, CallsStay
  <2> QED
    BY <2>1 DEF Added, GoesDown
<1> QED
  BY <1>2, <1>3 DEF DownIsDue, AddedIsUp, CallsStay

LEMMA PhasesOfOne ==
  ASSUME SessionsInv, NEW k \in Session, OthersStay(k), Session' = Session,
         UNCHANGED <<startNode, destroyed>>, Phase(k)'
  PROVE  Phases'
BY DEF SessionsInv, Phases, Phase, OthersStay

\* A session that has not stopped is the newest.
LEMMA Newest ==
  ASSUME SessionsInv, NEW k \in Session, ~sessions[k].stopped
  PROVE  k = subSessions /\ \A j \in Session : j <= k
<1>1. k = subSessions /\ subSessions \in {Len(sessions), NoSession}
  BY DEF SessionsInv, NewestOnly
<1>2. Session = 1 .. Len(sessions) /\ k \in Nat
  BY StateParts DEF SessionsInv, SubscriptionsTypeOK
<1>3. k = Len(sessions)
  BY <1>1, <1>2, SubscriptionsAssumption
<1> QED
  BY <1>1, <1>2, <1>3

\* A step of one session that does not bring it up.
LEMMA NotUpByStep ==
  ASSUME SessionsInv, NEW k \in Session, OthersStay(k), Session' = Session,
         outlived => outlived',
         IsUp(k)' => IsUp(k),
         ~outlived' /\ sessions'[k].stopped /\ IsUp(k)' => GoesDown(k)',
         GoesUp(k)' => GoesUp(k) \/ ~sessions[k].stopped
  PROVE  OneIsUp'
<1>1. \A j \in Session : IsUp(j)' => IsUp(j)
  BY OthersKeep
<1>2. ASSUME ~outlived'
      PROVE  \A i, j \in Session : IsUp(i)' /\ IsUp(j)' => i = j
  BY <1>1, <1>2 DEF SessionsInv, OneIsUp
<1>3. ASSUME ~outlived', NEW j \in Session, sessions'[j].stopped, IsUp(j)'
      PROVE  GoesDown(j)'
  <2>1. CASE j = k
    BY <1>3, <2>1
  <2>2. CASE j # k
    <3>1. sessions'[j] = sessions[j]
      BY <2>2 DEF OthersStay
    <3> QED
      BY <1>3, <2>2, <3>1, OthersKeep DEF SessionsInv, OneIsUp
  <2> QED
    BY <2>1, <2>2
<1>4. ASSUME NEW i \in Session, NEW j \in Session, GoesUp(i)', IsUp(j)'
      PROVE  j <= i
  <2>1. CASE GoesUp(i)
    BY <1>1, <1>4, <2>1 DEF SessionsInv, OneIsUp
  <2>2. CASE ~GoesUp(i)
    <3>1. i = k
      BY <1>4, <2>2, OthersKeep
    <3>2. ~sessions[k].stopped
      BY <1>4, <2>2, <3>1
    <3> QED
      BY <3>1, <3>2, Newest
  <2> QED
    BY <2>1, <2>2
<1> QED
  BY <1>2, <1>3, <1>4 DEF OneIsUp

\* The scaffold takes up a call.
LEMMA StartKeeps ==
  ASSUME SessionsInv, NEW k \in Session, ScaffoldStart(k)
  PROVE  SessionsInv'
<1> DEFINE new == [sessions[k] EXCEPT !.at = "act", !.should = ShouldBeSubscribed(sessions[k])]
<1>1. /\ sessions' = [sessions EXCEPT ![k] = new]
      /\ sessions[k].at = "idle" /\ sessions[k].queue # <<>>
      /\ UNCHANGED <<startNode, destroyed, node, joined, listeners, subSessions, sessionOf, adding, removing, done, outlived>>
  BY DEF ScaffoldStart, facadeVars
<1>2. sessions[k] \in SessionState /\ sessions[k].queue \in Seq(SubscriptionCall) /\ Session \subseteq Nat
  BY StateParts DEF SessionsInv, SubscriptionsTypeOK
<1>3. new \in SessionState
  BY <1>2 DEF SessionState, ShouldBeSubscribed
<1>4. /\ new.subs = sessions[k].subs /\ new.queue = sessions[k].queue /\ new.error = sessions[k].error
      /\ new.stopped = sessions[k].stopped /\ new.retiring = sessions[k].retiring
      /\ new.up = sessions[k].up /\ new.at = "act" /\ new.should = ShouldBeSubscribed(sessions[k])
  BY <1>2 DEF SessionState
<1> HIDE DEF new
<1>5. /\ sessions' \in Seq(SessionState)
      /\ Len(sessions') = Len(sessions)
      /\ Session' = Session
      /\ sessions'[k] = new
      /\ OthersStay(k)
  BY <1>1, <1>3, OneSession DEF SessionsInv, SubscriptionsTypeOK, OthersStay
<1>6. CallsStay /\ StopsStay
  BY <1>1, <1>4, <1>5 DEF CallsStay, StopsStay, OthersStay
<1>7. SubscriptionsTypeOK'
  BY <1>1, <1>5 DEF SessionsInv, SubscriptionsTypeOK
<1>8. NewestOnly' /\ CallsAreOpen' /\ Membership'
  BY <1>6, CallsStayInv, StopsStayInv
<1>9. Phase(k)'
  BY <1>1, <1>2, <1>4, <1>5 DEF SessionsInv, Phases, Phase
<1>10. Due(k)' /\ Added(k)'
  <2>1. GoesDown(k)' <=> ~ShouldBeSubscribed(sessions[k])
    BY <1>4, <1>5 DEF GoesDown
  <2>2. Due(k)'
    BY <1>4, <1>5, <2>1 DEF Due, WillLook, ShouldBeSubscribed
  <2>3. Added(k)'
    BY <1>1, <1>4, <1>5, <2>1 DEF SessionsInv, AddedIsUp, Added, ShouldBeSubscribed
  <2> QED
    BY <2>2, <2>3
<1>11. Phases' /\ DownIsDue' /\ AddedIsUp'
  BY <1>1, <1>5, <1>6, <1>9, <1>10, StepOfOne, PhasesOfOne
<1>12. /\ IsUp(k)' <=> IsUp(k)
       /\ ~GoesUp(k)
       /\ GoesUp(k)' => ~sessions[k].stopped
       /\ ~sessions[k].stopped \/ GoesDown(k)'
  BY <1>1, <1>2, <1>4, <1>5 DEF IsUp, GoesUp, GoesDown, ShouldBeSubscribed
<1>13. ListenersAreUp'
  BY <1>1, <1>5, <1>12, OthersKeep DEF SessionsInv, ListenersAreUp
<1>14. OneIsUp'
  BY <1>1, <1>4, <1>5, <1>12, NotUpByStep
<1> QED
  BY <1>7, <1>8, <1>11, <1>13, <1>14 DEF SessionsInv

\* The scaffold of session k has gone up: the node was there.
LEMMA GoneUp ==
  ASSUME SessionsInv, NEW k \in Session, GoesUp(k), sessions[k].up = "no",
         Len(sessions[k].queue) > 0,
         \A j \in 1 .. k - 1 : ~Busy(j),
         startNode # "pending", ~(startNode = "init" /\ ~destroyed),
         sessions' = [sessions EXCEPT ![k] = Subscribed(@)],
         listeners' = listeners \cup {k}, joined',
         UNCHANGED <<facadeVars, subSessions, sessionOf, adding, removing, done, outlived>>
  PROVE  SessionsInv'
<1> DEFINE up  == [sessions[k] EXCEPT !.up = "unsubscribe"]
           new == Again(up)
<1>1. /\ sessions' = [sessions EXCEPT ![k] = new]
      /\ UNCHANGED <<startNode, destroyed, node, subSessions, sessionOf, adding, removing, done, outlived>>
  BY DEF Subscribed, facadeVars
<1>2. sessions[k] \in SessionState /\ Session = 1 .. Len(sessions) /\ k \in Nat /\ joined' = TRUE
  BY StateParts DEF SessionsInv, SubscriptionsTypeOK
<1>3. /\ up \in SessionState
      /\ up.subs = sessions[k].subs /\ up.queue = sessions[k].queue /\ up.up = "unsubscribe"
      /\ up.stopped = sessions[k].stopped /\ up.retiring = sessions[k].retiring
      /\ up.error = sessions[k].error
  BY <1>2, UpState
<1> HIDE DEF up
<1>4. /\ new \in SessionState
      /\ new.subs = sessions[k].subs /\ new.queue = sessions[k].queue /\ new.up = "unsubscribe"
      /\ new.stopped = sessions[k].stopped /\ new.retiring = sessions[k].retiring
      /\ new.error = sessions[k].error /\ new.at = "act"
      /\ new.should <=> ~new.error /\ ShouldBeSubscribed(new)
  BY <1>3, AgainState DEF ShouldBeSubscribed
<1> HIDE DEF new
<1>5. /\ sessions' \in Seq(SessionState)
      /\ Len(sessions') = Len(sessions)
      /\ Session' = Session
      /\ sessions'[k] = new
      /\ OthersStay(k)
  BY <1>1, <1>4, OneSession DEF SessionsInv, SubscriptionsTypeOK, OthersStay
<1>6. CallsStay /\ StopsStay
  BY <1>1, <1>4, <1>5 DEF CallsStay, StopsStay, OthersStay
<1>7. SubscriptionsTypeOK'
  BY <1>1, <1>2, <1>5 DEF SessionsInv, SubscriptionsTypeOK
<1>8. NewestOnly' /\ CallsAreOpen' /\ Membership'
  BY <1>6, CallsStayInv, StopsStayInv
<1>9. Phases'
  <2>1. Phase(k)'
    BY <1>1, <1>4, <1>5 DEF Phase
  <2> QED
    BY <1>1, <1>5, <2>1, PhasesOfOne
<1>10. DownIsDue' /\ AddedIsUp'
  <2>1. GoesDown(k)' <=> new.error \/ ~ShouldBeSubscribed(new)
    BY <1>4, <1>5 DEF GoesDown
  <2>2. Due(k)'
    BY <1>4, <1>5, <2>1 DEF Due, WillLook
  <2>3. Added(k)'
    BY <1>4, <1>5, <2>1 DEF Added, ShouldBeSubscribed
  <2> QED
    BY <1>5, <1>6, <2>2, <2>3, StepOfOne
<1>11. IsUp(k)' /\ ~IsUp(k)
  BY <1>4, <1>5 DEF IsUp
<1>12. ListenersAreUp'
  BY <1>1, <1>2, <1>5, <1>11, OthersKeep DEF SessionsInv, ListenersAreUp
<1>13. ASSUME ~outlived, NEW j \in Session, j # k, IsUp(j)
       PROVE  FALSE
  <2>1. j <= k /\ j \in Nat
    BY <1>2, <1>13 DEF SessionsInv, OneIsUp
  <2>2. ~Busy(j)
    BY <1>2, <1>13, <2>1
  <2>3. ~GoesDown(j)
    BY <2>2, <1>13 DEF Busy, GoesDown
  <2>4. ~sessions[j].stopped
    BY <1>13, <2>3 DEF SessionsInv, OneIsUp
  <2> QED
    BY <1>2, <1>13, <2>1, <2>4, Newest
<1>14. OneIsUp'
  <2>1. ASSUME ~outlived'
        PROVE  \A i, j \in Session : IsUp(i)' /\ IsUp(j)' => i = j
    BY <1>1, <1>5, <1>13, <2>1, OthersKeep
  <2>2. ASSUME ~outlived', NEW j \in Session, sessions'[j].stopped, IsUp(j)'
        PROVE  GoesDown(j)'
    <3>1. CASE j = k
      BY <1>4, <1>5, <2>2, <3>1 DEF GoesDown, ShouldBeSubscribed
    <3>2. CASE j # k
      BY <1>1, <1>5, <1>13, <2>2, <3>2, OthersKeep
    <3> QED
      BY <3>1, <3>2
  <2>3. ASSUME NEW i \in Session, NEW j \in Session, GoesUp(i)', IsUp(j)'
        PROVE  j <= i
    <3>1. CASE i = k
      BY <1>4, <1>5, <2>3, <3>1 DEF GoesUp
    <3>2. CASE i # k /\ j # k
      BY <1>5, <2>3, <3>2, OthersKeep DEF SessionsInv, OneIsUp
    <3>3. CASE i # k /\ j = k
      <4>1. GoesUp(i)
        BY <1>5, <2>3, <3>3, OthersKeep
      <4>2. Busy(i)
        BY <4>1 DEF GoesUp, Busy
      <4> QED
        BY <1>2, <3>3, <4>2
    <3> QED
      BY <3>1, <3>2, <3>3
  <2> QED
    BY <1>5, <2>1, <2>2, <2>3 DEF OneIsUp
<1> QED
  BY <1>7, <1>8, <1>9, <1>10, <1>12, <1>14 DEF SessionsInv

\* The node did not start: what follows is the step down of the failed step.
LEMMA FailedUp ==
  ASSUME SessionsInv, NEW k \in Session, sessions[k].up = "no", Len(sessions[k].queue) > 0,
         sessions' = [sessions EXCEPT ![k] = Again([@ EXCEPT !.error = TRUE, !.up = "noop"])],
         startNode' \in {startNode, "rejected"}, startNode # "pending" \/ startNode' = startNode,
         UNCHANGED <<destroyed, node, joined, listeners, subSessions, sessionOf, adding, removing, done, outlived>>
  PROVE  SessionsInv'
<1> DEFINE broken == [sessions[k] EXCEPT !.error = TRUE, !.up = "noop"]
           new    == Again(broken)
<1>1. sessions' = [sessions EXCEPT ![k] = new]
  OBVIOUS
<1>2. sessions[k] \in SessionState
  BY StateParts DEF SessionsInv, SubscriptionsTypeOK
<1>3. /\ broken \in SessionState
      /\ broken.subs = sessions[k].subs /\ broken.queue = sessions[k].queue /\ broken.up = "noop"
      /\ broken.stopped = sessions[k].stopped /\ broken.retiring = sessions[k].retiring
      /\ broken.error
  BY <1>2, FailedState
<1> HIDE DEF broken
<1>4. /\ new \in SessionState
      /\ new.subs = sessions[k].subs /\ new.queue = sessions[k].queue /\ new.up = "noop"
      /\ new.stopped = sessions[k].stopped /\ new.retiring = sessions[k].retiring
      /\ new.error /\ new.at = "act" /\ ~new.should
  BY <1>3, AgainState
<1> HIDE DEF new
<1>5. /\ sessions' \in Seq(SessionState)
      /\ Len(sessions') = Len(sessions)
      /\ Session' = Session
      /\ sessions'[k] = new
      /\ OthersStay(k)
  BY <1>1, <1>4, OneSession DEF SessionsInv, SubscriptionsTypeOK, OthersStay
<1>6. CallsStay /\ StopsStay
  BY <1>1, <1>4, <1>5 DEF CallsStay, StopsStay, OthersStay
<1>7. SubscriptionsTypeOK'
  BY <1>1, <1>2, <1>5 DEF SessionsInv, SubscriptionsTypeOK
<1>8. NewestOnly' /\ CallsAreOpen' /\ Membership'
  BY <1>6, CallsStayInv, StopsStayInv
<1>9. Phases'
  <2>1. Phase(k)'
    BY <1>4, <1>5 DEF Phase
  <2>2. ASSUME NEW j \in Session, j # k
        PROVE  Phase(j)'
    BY <1>5, <2>2 DEF SessionsInv, Phases, Phase, OthersStay
  <2> QED
    BY <1>5, <2>1, <2>2 DEF Phases
<1>10. DownIsDue' /\ AddedIsUp'
  <2>2. Due(k)'
    BY <1>4, <1>5 DEF Due
  <2>3. Added(k)'
    <3>1. ASSUME NEW s \in sessions[k].subs, ~sessions[k].stopped, adding[s] \in {"finishing", "subscribed"}
          PROVE  FALSE
      BY <3>1 DEF SessionsInv, AddedIsUp, Added
    <3> QED
      BY <1>4, <1>5, <3>1 DEF Added
  <2> QED
    BY <1>5, <1>6, <2>2, <2>3, StepOfOne
<1>11. ~IsUp(k)' /\ ~IsUp(k) /\ ~GoesUp(k)'
  BY <1>4, <1>5 DEF IsUp, GoesUp
<1>12. ListenersAreUp'
  BY <1>5, <1>11, OthersKeep DEF SessionsInv, ListenersAreUp
<1>13. OneIsUp'
  BY <1>5, <1>11, NotUpByStep
<1> QED
  BY <1>7, <1>8, <1>9, <1>10, <1>12, <1>13 DEF SessionsInv

\* The scaffold awaits the node.
LEMMA AwaitsNode ==
  ASSUME SessionsInv, NEW k \in Session, sessions[k].at = "act", sessions[k].should, sessions[k].up = "no",
         startNode = "pending" \/ (startNode = "init" /\ ~destroyed),
         sessions' = [sessions EXCEPT ![k].at = "getNode"], startNode' = "pending",
         UNCHANGED <<destroyed, node, joined, listeners, subSessions, sessionOf, adding, removing, done, outlived>>
  PROVE  SessionsInv'
<1> DEFINE new == [sessions[k] EXCEPT !.at = "getNode"]
<1>1. sessions' = [sessions EXCEPT ![k] = new]
  OBVIOUS
<1>2. sessions[k] \in SessionState
  BY StateParts DEF SessionsInv, SubscriptionsTypeOK
<1>4. /\ new \in SessionState
      /\ new.subs = sessions[k].subs /\ new.queue = sessions[k].queue /\ new.up = "no"
      /\ new.stopped = sessions[k].stopped /\ new.retiring = sessions[k].retiring
      /\ new.error = sessions[k].error /\ new.at = "getNode" /\ new.should = sessions[k].should
  BY <1>2, AtState
<1> HIDE DEF new
<1>5. /\ sessions' \in Seq(SessionState)
      /\ Len(sessions') = Len(sessions)
      /\ Session' = Session
      /\ sessions'[k] = new
      /\ OthersStay(k)
  BY <1>1, <1>4, OneSession DEF SessionsInv, SubscriptionsTypeOK, OthersStay
<1>6. CallsStay /\ StopsStay
  BY <1>1, <1>4, <1>5 DEF CallsStay, StopsStay, OthersStay
<1>7. SubscriptionsTypeOK'
  BY <1>1, <1>2, <1>5 DEF SessionsInv, SubscriptionsTypeOK
<1>8. NewestOnly' /\ CallsAreOpen' /\ Membership'
  BY <1>6, CallsStayInv, StopsStayInv
<1>9. Phases'
  <2>1. Phase(k)'
    BY <1>4, <1>5 DEF SessionsInv, Phases, Phase
  <2>2. ASSUME NEW j \in Session, j # k
        PROVE  Phase(j)'
    BY <1>5, <2>2 DEF SessionsInv, Phases, Phase, OthersStay
  <2> QED
    BY <1>5, <2>1, <2>2 DEF Phases
<1>10. DownIsDue' /\ AddedIsUp'
  <2>2. Due(k)'
    BY <1>4, <1>5 DEF Due
  <2>3. Added(k)'
    <3>1. ASSUME NEW s \in sessions[k].subs, ~sessions[k].stopped, adding[s] \in {"finishing", "subscribed"}
          PROVE  FALSE
      BY <3>1 DEF SessionsInv, AddedIsUp, Added
    <3> QED
      BY <1>4, <1>5, <3>1 DEF Added, GoesDown
  <2> QED
    BY <1>5, <1>6, <2>2, <2>3, StepOfOne
<1>11. ~IsUp(k)' /\ ~IsUp(k) /\ ~GoesUp(k)'
  BY <1>4, <1>5 DEF IsUp, GoesUp
<1>12. ListenersAreUp'
  BY <1>5, <1>11, OthersKeep DEF SessionsInv, ListenersAreUp
<1>13. OneIsUp'
  BY <1>5, <1>11, NotUpByStep
<1> QED
  BY <1>7, <1>8, <1>9, <1>10, <1>12, <1>13 DEF SessionsInv

\* The three outcomes of the step up.
LEMMA UpKeeps ==
  ASSUME SessionsInv, NEW k \in Session, \A j \in 1 .. k - 1 : ~Busy(j), ScaffoldUp(k)
  PROVE  SessionsInv'
<1>1. /\ sessions[k].at = "act" /\ sessions[k].should /\ sessions[k].up = "no"
      /\ UNCHANGED <<destroyed, node, subSessions, sessionOf, adding, removing, done, outlived>>
  BY DEF ScaffoldUp
<1>2. Len(sessions[k].queue) > 0 /\ startNode \in {"init", "pending", "fulfilled", "rejected"}
  BY <1>1 DEF SessionsInv, Phases, Phase, SubscriptionsTypeOK
<1>3. CASE startNode = "fulfilled"
  <2>1. /\ sessions' = [sessions EXCEPT ![k] = Subscribed(@)]
        /\ listeners' = listeners \cup {k} /\ joined' /\ startNode' = startNode
    BY <1>3 DEF ScaffoldUp
  <2> QED
    BY <1>1, <1>2, <1>3, <2>1, GoneUp DEF GoesUp, facadeVars
<1>4. CASE startNode = "rejected" \/ (startNode = "init" /\ destroyed)
  <2>1. /\ sessions' = [sessions EXCEPT ![k] = Again([@ EXCEPT !.error = TRUE, !.up = "noop"])]
        /\ startNode' = "rejected" /\ UNCHANGED <<listeners, joined>>
    BY <1>4 DEF ScaffoldUp
  <2> QED
    BY <1>1, <1>2, <1>4, <2>1, FailedUp
<1>5. CASE startNode = "pending" \/ (startNode = "init" /\ ~destroyed)
  <2>1. /\ sessions' = [sessions EXCEPT ![k].at = "getNode"]
        /\ startNode' = "pending" /\ UNCHANGED <<listeners, joined>>
    BY <1>5 DEF ScaffoldUp
  <2> QED
    BY <1>1, <1>5, <2>1, AwaitsNode
<1> QED
  BY <1>2, <1>3, <1>4, <1>5

LEMMA StartedKeeps ==
  ASSUME SessionsInv, NEW k \in Session, \A j \in 1 .. k - 1 : ~Busy(j), SubscribeStarted(k)
  PROVE  SessionsInv'
<1>1. /\ sessions[k].at = "nodeReady" /\ joined'
      /\ sessions' = [sessions EXCEPT ![k] = Subscribed(@)]
      /\ listeners' = listeners \cup {k}
      /\ UNCHANGED <<facadeVars, subSessions, sessionOf, adding, removing, done, outlived>>
  BY DEF SubscribeStarted
<1>2. /\ sessions[k].up = "no" /\ Len(sessions[k].queue) > 0
      /\ startNode # "pending" /\ ~(startNode = "init" /\ ~destroyed)
  BY <1>1 DEF SessionsInv, Phases, Phase
<1> QED
  BY <1>1, <1>2, GoneUp DEF GoesUp

LEMMA FailedKeeps ==
  ASSUME SessionsInv, NEW k \in Session, SubscribeFailed(k)
  PROVE  SessionsInv'
<1>1. /\ sessions[k].at = "nodeFailed"
      /\ sessions' = [sessions EXCEPT ![k] = Again([@ EXCEPT !.error = TRUE, !.up = "noop"])]
      /\ UNCHANGED <<startNode, destroyed, node, joined, listeners, subSessions, sessionOf, adding, removing, done, outlived>>
  BY DEF SubscribeFailed, facadeVars
<1>2. sessions[k].up = "no" /\ Len(sessions[k].queue) > 0
  BY <1>1 DEF SessionsInv, Phases, Phase
<1> QED
  BY <1>1, <1>2, FailedUp

\* The session leaves the stream part: no other session is up, unless one was stopped
\* while it was.
LEMMA DownKeeps ==
  ASSUME SessionsInv, NEW k \in Session, ScaffoldDown(k)
  PROVE  SessionsInv'
<1> DEFINE new == [sessions[k] EXCEPT !.at = "unsubscribed"]
<1>1. /\ sessions' = [sessions EXCEPT ![k] = new]
      /\ sessions[k].at = "act" /\ ~sessions[k].should /\ sessions[k].up = "unsubscribe"
      /\ listeners' = listeners \ {k} /\ joined' = FALSE
      /\ UNCHANGED <<startNode, destroyed, node, subSessions, sessionOf, adding, removing, done, outlived>>
  BY DEF ScaffoldDown, facadeVars
<1>2. sessions[k] \in SessionState
  BY StateParts DEF SessionsInv, SubscriptionsTypeOK
<1>4. /\ new \in SessionState
      /\ new.subs = sessions[k].subs /\ new.queue = sessions[k].queue /\ new.up = "unsubscribe"
      /\ new.stopped = sessions[k].stopped /\ new.retiring = sessions[k].retiring
      /\ new.error = sessions[k].error /\ new.at = "unsubscribed" /\ new.should = sessions[k].should
  BY <1>1, <1>2, AtState
<1> HIDE DEF new
<1>5. /\ sessions' \in Seq(SessionState)
      /\ Len(sessions') = Len(sessions)
      /\ Session' = Session
      /\ sessions'[k] = new
      /\ OthersStay(k)
  BY <1>1, <1>4, OneSession DEF SessionsInv, SubscriptionsTypeOK, OthersStay
<1>6. CallsStay /\ StopsStay
  BY <1>1, <1>4, <1>5 DEF CallsStay, StopsStay, OthersStay
<1>7. SubscriptionsTypeOK'
  BY <1>1, <1>2, <1>5 DEF SessionsInv, SubscriptionsTypeOK
<1>8. NewestOnly' /\ CallsAreOpen' /\ Membership'
  BY <1>6, CallsStayInv, StopsStayInv
<1>9. Phases'
  <2>1. Phase(k)'
    BY <1>1, <1>4, <1>5 DEF SessionsInv, Phases, Phase
  <2> QED
    BY <1>1, <1>5, <2>1, PhasesOfOne
<1>10. DownIsDue' /\ AddedIsUp'
  <2>2. Due(k)'
    BY <1>4, <1>5 DEF Due, WillLook
  <2>3. Added(k)'
    BY <1>4, <1>5 DEF Added, GoesDown
  <2> QED
    BY <1>5, <1>6, <2>2, <2>3, StepOfOne
<1>11. ~IsUp(k)' /\ IsUp(k) /\ ~GoesUp(k)'
  BY <1>1, <1>4, <1>5 DEF IsUp, GoesUp
<1>12. ListenersAreUp'
  <2>1. ASSUME NEW j \in Session, IsUp(j)'
        PROVE  outlived'
    BY <1>1, <1>11, <2>1, OthersKeep, <1>5 DEF SessionsInv, OneIsUp, SubscriptionsTypeOK
  <2> QED
    BY <1>1, <1>5, <1>11, <2>1, OthersKeep DEF SessionsInv, ListenersAreUp
<1>13. OneIsUp'
  BY <1>1, <1>5, <1>11, NotUpByStep
<1> QED
  BY <1>7, <1>8, <1>9, <1>10, <1>12, <1>13 DEF SessionsInv

\* A session that has left the stream part stops.
LEMMA StopKeeps ==
  ASSUME SessionsInv, NEW k \in Session, ScaffoldStop(k)
  PROVE  SessionsInv'
<1> DEFINE stopped == Stopped(sessions[k])
           down    == [stopped EXCEPT !.up = "no"]
           new     == Again(down)
<1>1. /\ sessions' = [sessions EXCEPT ![k] = new]
      /\ sessions[k].at = "unsubscribed"
      /\ UNCHANGED <<startNode, destroyed, node, joined, listeners, subSessions, sessionOf, adding, removing, done, outlived>>
  BY DEF ScaffoldStop, facadeVars
<1>2. sessions[k] \in SessionState
  BY StateParts DEF SessionsInv, SubscriptionsTypeOK
<1>2a. /\ stopped \in SessionState
       /\ stopped.subs = sessions[k].subs /\ stopped.queue = sessions[k].queue
       /\ stopped.stopped /\ (stopped.retiring <=> sessions[k].retiring \/ ~sessions[k].stopped)
  BY <1>2, StoppedState
<1> HIDE DEF stopped
<1>3. /\ down \in SessionState
      /\ down.subs = stopped.subs /\ down.queue = stopped.queue /\ down.up = "no"
      /\ down.stopped = stopped.stopped /\ down.retiring = stopped.retiring
  BY <1>2a, UpState
<1> HIDE DEF down
<1>4. /\ new \in SessionState
      /\ new.subs = sessions[k].subs /\ new.queue = sessions[k].queue /\ new.up = "no"
      /\ new.stopped /\ (new.retiring <=> sessions[k].retiring \/ ~sessions[k].stopped)
      /\ new.at = "act" /\ ~new.should
  BY <1>2a, <1>3, AgainState DEF ShouldBeSubscribed
<1> HIDE DEF new
<1>5. /\ sessions' \in Seq(SessionState)
      /\ Len(sessions') = Len(sessions)
      /\ Session' = Session
      /\ sessions'[k] = new
      /\ OthersStay(k)
  BY <1>1, <1>4, OneSession DEF SessionsInv, SubscriptionsTypeOK, OthersStay
<1>6. CallsStay
  BY <1>1, <1>4, <1>5 DEF CallsStay, OthersStay
<1>7. SubscriptionsTypeOK'
  BY <1>1, <1>2, <1>5 DEF SessionsInv, SubscriptionsTypeOK
<1>8. NewestOnly' /\ CallsAreOpen' /\ Membership'
  <2>1. NewestOnly'
    BY <1>1, <1>4, <1>5 DEF SessionsInv, NewestOnly, OthersStay
  <2> QED
    BY <1>6, <2>1, CallsStayInv
<1>9. Phases'
  <2>1. Phase(k)'
    BY <1>1, <1>4, <1>5 DEF SessionsInv, Phases, Phase
  <2> QED
    BY <1>1, <1>5, <2>1, PhasesOfOne
<1>10. DownIsDue' /\ AddedIsUp'
  <2>2. Due(k)'
    BY <1>4, <1>5 DEF Due
  <2>3. Added(k)'
    BY <1>4, <1>5 DEF Added
  <2> QED
    BY <1>5, <1>6, <2>2, <2>3, StepOfOne
<1>11. ~IsUp(k)' /\ ~IsUp(k) /\ ~GoesUp(k)'
  BY <1>1, <1>4, <1>5 DEF IsUp, GoesUp
<1>12. ListenersAreUp'
  BY <1>1, <1>5, <1>11, OthersKeep DEF SessionsInv, ListenersAreUp
<1>13. OneIsUp'
  BY <1>1, <1>5, <1>11, NotUpByStep
<1> QED
  BY <1>7, <1>8, <1>9, <1>10, <1>12, <1>13 DEF SessionsInv

\* The step down of a step that failed.
LEMMA NoopKeeps ==
  ASSUME SessionsInv, NEW k \in Session, ScaffoldNoop(k)
  PROVE  SessionsInv'
<1> DEFINE down == [sessions[k] EXCEPT !.up = "no"]
           new  == Again(down)
<1>1. /\ sessions' = [sessions EXCEPT ![k] = new]
      /\ sessions[k].at = "act" /\ sessions[k].up = "noop"
      /\ UNCHANGED <<startNode, destroyed, node, joined, listeners, subSessions, sessionOf, adding, removing, done, outlived>>
  BY DEF ScaffoldNoop, facadeVars
<1>2. sessions[k] \in SessionState
  BY StateParts DEF SessionsInv, SubscriptionsTypeOK
<1>3. /\ down \in SessionState
      /\ down.subs = sessions[k].subs /\ down.queue = sessions[k].queue /\ down.up = "no"
      /\ down.stopped = sessions[k].stopped /\ down.retiring = sessions[k].retiring
      /\ down.error = sessions[k].error
  BY <1>2, UpState
<1> HIDE DEF down
<1>4. /\ new \in SessionState
      /\ new.subs = sessions[k].subs /\ new.queue = sessions[k].queue /\ new.up = "no"
      /\ new.stopped = sessions[k].stopped /\ new.retiring = sessions[k].retiring
      /\ new.error = sessions[k].error /\ new.at = "act"
      /\ new.should <=> ~new.error /\ ShouldBeSubscribed(new)
  BY <1>3, AgainState DEF ShouldBeSubscribed
<1> HIDE DEF new
<1>5. /\ sessions' \in Seq(SessionState)
      /\ Len(sessions') = Len(sessions)
      /\ Session' = Session
      /\ sessions'[k] = new
      /\ OthersStay(k)
  BY <1>1, <1>4, OneSession DEF SessionsInv, SubscriptionsTypeOK, OthersStay
<1>6. CallsStay /\ StopsStay
  BY <1>1, <1>4, <1>5 DEF CallsStay, StopsStay, OthersStay
<1>7. SubscriptionsTypeOK'
  BY <1>1, <1>2, <1>5 DEF SessionsInv, SubscriptionsTypeOK
<1>8. NewestOnly' /\ CallsAreOpen' /\ Membership'
  BY <1>6, CallsStayInv, StopsStayInv
<1>9. Phases'
  <2>1. Phase(k)'
    BY <1>1, <1>4, <1>5 DEF SessionsInv, Phases, Phase
  <2> QED
    BY <1>1, <1>5, <2>1, PhasesOfOne
<1>10. DownIsDue' /\ AddedIsUp'
  <2>1. GoesDown(k)' <=> new.error \/ ~ShouldBeSubscribed(new)
    BY <1>4, <1>5 DEF GoesDown
  <2>2. Due(k)'
    BY <1>4, <1>5 DEF Due
  <2>3. Added(k)'
    <3>1. ASSUME NEW s \in sessions[k].subs, ~sessions[k].stopped, adding[s] \in {"finishing", "subscribed"}
          PROVE  FALSE
      BY <1>1, <3>1 DEF SessionsInv, AddedIsUp, Added
    <3> QED
      BY <1>1, <1>4, <1>5, <2>1, <3>1 DEF Added, ShouldBeSubscribed
  <2> QED
    BY <1>5, <1>6, <2>2, <2>3, StepOfOne
<1>11. ~IsUp(k)' /\ ~IsUp(k) /\ (GoesUp(k)' => ~sessions[k].stopped)
  BY <1>1, <1>4, <1>5 DEF IsUp, GoesUp, ShouldBeSubscribed
<1>12. ListenersAreUp'
  BY <1>1, <1>5, <1>11, OthersKeep DEF SessionsInv, ListenersAreUp
<1>13. OneIsUp'
  BY <1>1, <1>5, <1>11, NotUpByStep
<1> QED
  BY <1>7, <1>8, <1>9, <1>10, <1>12, <1>13 DEF SessionsInv

-----------------------------------------------------------------------------
(* Steps that begin and end calls.                                         *)

\* The other sessions, when a call of session k goes on.
LEMMA OthersDue ==
  ASSUME SessionsInv, NEW k \in Session, OthersStay(k), Session' = Session,
         \A s \in Sub : removing[s] = "closing" /\ sessionOf[s] # k =>
                        removing'[s] = "closing" /\ sessionOf'[s] = sessionOf[s],
         Due(k)'
  PROVE  DownIsDue'
<1>1. ASSUME NEW j \in Session, j # k
      PROVE  Due(j)'
  <2>1. sessions'[j] = sessions[j] /\ Due(j)
    BY <1>1 DEF SessionsInv, DownIsDue, OthersStay
  <2>2. WillLook(j) => WillLook(j)'
    BY <1>1, <2>1 DEF WillLook, GoesDown
  <2> QED
    BY <2>1, <2>2 DEF Due
<1> QED
  BY <1>1 DEF DownIsDue

LEMMA OthersAdded ==
  ASSUME SessionsInv, NEW k \in Session, OthersStay(k), Session' = Session,
         \A s \in Sub : sessionOf[s] # k => adding'[s] = adding[s],
         Added(k)'
  PROVE  AddedIsUp'
<1>1. ASSUME NEW j \in Session, j # k
      PROVE  Added(j)'
  <2>1. sessions'[j] = sessions[j] /\ Added(j)
    BY <1>1 DEF SessionsInv, AddedIsUp, OthersStay
  <2>2. sessions[j].subs \subseteq Sub
    BY StateParts DEF SessionsInv, SubscriptionsTypeOK
  <2>3. \A s \in sessions[j].subs : adding'[s] = adding[s]
    BY <1>1, <2>2 DEF SessionsInv, Membership
  <2> QED
    BY <2>1, <2>3 DEF Added, GoesDown
<1> QED
  BY <1>1 DEF AddedIsUp

\* Two calls in the queues of the sessions are of different subscriptions or kinds.
LEMMA CallsDiffer ==
  ASSUME SessionsInv, NEW k \in Session, NEW j \in Session,
         NEW h \in 1 .. Len(sessions[k].queue), NEW i \in 1 .. Len(sessions[j].queue),
         j # k \/ i # h
  PROVE  \/ sessions[j].queue[i].sub # sessions[k].queue[h].sub
         \/ sessions[j].queue[i].of # sessions[k].queue[h].of
<1> DEFINE c == sessions[j].queue[i]
           d == sessions[k].queue[h]
<1>1. c \in SubscriptionCall /\ d \in SubscriptionCall
  <2>1. sessions[j].queue \in Seq(SubscriptionCall) /\ sessions[k].queue \in Seq(SubscriptionCall)
    BY StateParts DEF SessionsInv, SubscriptionsTypeOK
  <2> QED
    BY <2>1, ElementOfSeq
<1>2. sessionOf[c.sub] = j /\ sessionOf[d.sub] = k
  BY DEF SessionsInv, CallsAreOpen
<1>3. j = k => c # d
  BY DEF SessionsInv, CallsAreOpen
<1>4. c.sub = d.sub /\ c.of = d.of => c = d
  <2> HIDE DEF c, d
  <2> QED
    BY <1>1 DEF SubscriptionCall
<1> QED
  BY <1>2, <1>3, <1>4

\* A call of session k is over.
LEMMA DoneKeeps ==
  ASSUME SessionsInv, NEW k \in Session, ScaffoldDone(k)
  PROVE  SessionsInv'
<1> DEFINE asked == Head(sessions[k].queue)
           fail == sessions[k].error /\ ~sessions[k].should
           new  == [sessions[k] EXCEPT !.at = "idle", !.error = FALSE, !.queue = Tail(sessions[k].queue)]
<1>1. /\ sessions' = [sessions EXCEPT ![k] = new]
      /\ sessions[k].at = "act"
      /\ (sessions[k].should /\ sessions[k].up = "unsubscribe") \/ (~sessions[k].should /\ sessions[k].up = "no")
      /\ \/ /\ asked.of = "add" /\ removing' = removing
            /\ adding' = [adding EXCEPT ![asked.sub] = IF fail THEN "failing" ELSE "finishing"]
         \/ /\ asked.of # "add" /\ adding' = adding
            /\ removing' = [removing EXCEPT ![asked.sub] = IF fail THEN "gone" ELSE "finishing"]
      /\ UNCHANGED <<startNode, destroyed, node, joined, listeners, subSessions, sessionOf, done, outlived>>
  BY DEF ScaffoldDone, facadeVars
<1>2. sessions[k] \in SessionState /\ sessions[k].queue \in Seq(SubscriptionCall)
  BY StateParts DEF SessionsInv, SubscriptionsTypeOK
<1>3. /\ Len(sessions[k].queue) \in Nat \ {0} /\ sessions[k].queue # <<>>
      /\ asked = sessions[k].queue[1] /\ asked \in SubscriptionCall
      /\ Tail(sessions[k].queue) \in Seq(SubscriptionCall)
      /\ Len(Tail(sessions[k].queue)) = Len(sessions[k].queue) - 1
      /\ \A i \in 1 .. Len(sessions[k].queue) - 1 : Tail(sessions[k].queue)[i] = sessions[k].queue[i + 1]
  <2>1. Len(sessions[k].queue) > 0
    BY <1>1 DEF SessionsInv, Phases, Phase
  <2>2. Len(sessions[k].queue) \in Nat \ {0} /\ sessions[k].queue # <<>>
    BY <1>2, <2>1, LenProperties
  <2> QED
    BY <1>2, <2>2, HeadTailProperties
<1>4. /\ new \in SessionState
      /\ new.subs = sessions[k].subs /\ new.queue = Tail(sessions[k].queue) /\ new.up = sessions[k].up
      /\ new.stopped = sessions[k].stopped /\ new.retiring = sessions[k].retiring
      /\ ~new.error /\ new.at = "idle" /\ new.should = sessions[k].should
  BY <1>2, <1>3 DEF SessionState
<1>5a. /\ asked.sub \in Sub /\ asked.of \in {"add", "remove"} /\ sessionOf[asked.sub] = k
       /\ asked.of = "add" => adding[asked.sub] = "waiting"
       /\ asked.of = "remove" => removing[asked.sub] = "waiting"
  BY <1>3 DEF SessionsInv, CallsAreOpen, SubscriptionCall
<1> HIDE DEF new, asked, fail
<1>5. /\ sessions' \in Seq(SessionState)
      /\ Len(sessions') = Len(sessions)
      /\ Session' = Session
      /\ sessions'[k] = new
      /\ OthersStay(k)
  BY <1>1, <1>4, OneSession DEF SessionsInv, SubscriptionsTypeOK, OthersStay
<1>5b. /\ Len(sessions'[k].queue) = Len(sessions[k].queue) - 1
       /\ \A i \in 1 .. Len(sessions'[k].queue) :
            i + 1 \in 2 .. Len(sessions[k].queue) /\ sessions'[k].queue[i] = sessions[k].queue[i + 1]
  <2>1. sessions'[k].queue = Tail(sessions[k].queue)
    BY <1>4, <1>5
  <2> QED
    BY <1>3, <2>1
<1>6. /\ \A s \in Sub : adding'[s] = IF asked.of = "add" /\ s = asked.sub
                                   THEN (IF fail THEN "failing" ELSE "finishing") ELSE adding[s]
      /\ \A s \in Sub : removing'[s] = IF asked.of # "add" /\ s = asked.sub
                                     THEN (IF fail THEN "gone" ELSE "finishing") ELSE removing[s]
      /\ adding' \in [Sub -> {"none", "waiting", "finishing", "failing", "subscribed", "failed"}]
      /\ removing' \in [Sub -> {"none", "ending", "closing", "waiting", "finishing", "gone"}]
  BY <1>1, <1>5a DEF SessionsInv, SubscriptionsTypeOK
<1>7. SubscriptionsTypeOK'
  BY <1>1, <1>5, <1>6 DEF SessionsInv, SubscriptionsTypeOK
<1>8. NewestOnly'
  BY <1>1, <1>4, <1>5 DEF SessionsInv, NewestOnly, OthersStay
<1>9. CallsAreOpen'
  <2> SUFFICES ASSUME NEW j \in Session, NEW i \in 1 .. Len(sessions'[j].queue)
               PROVE  LET c == sessions'[j].queue[i]
                      IN  /\ sessionOf[c.sub] = j
                          /\ c.of = "add" => adding'[c.sub] = "waiting"
                          /\ c.of = "remove" => removing'[c.sub] = "waiting"
                          /\ \A l \in 1 .. Len(sessions'[j].queue) : sessions'[j].queue[l] = c => l = i
    BY <1>1, <1>5 DEF CallsAreOpen
  <2> DEFINE c == sessions'[j].queue[i]
             old == IF j = k THEN i + 1 ELSE i
  <2>1. /\ old \in 1 .. Len(sessions[j].queue) /\ c = sessions[j].queue[old]
        /\ j # k \/ old # 1
    <3>1. CASE j = k
      BY <1>3, <1>5b, <3>1
    <3>2. CASE j # k
      BY <1>5, <3>2 DEF OthersStay
    <3> QED
      BY <3>1, <3>2
  <2>2. c.sub # asked.sub \/ c.of # asked.of
    BY <1>3, <2>1, CallsDiffer
  <2>3. /\ sessionOf[c.sub] = j
        /\ c.of = "add" => adding[c.sub] = "waiting"
        /\ c.of = "remove" => removing[c.sub] = "waiting"
        /\ \A l \in 1 .. Len(sessions[j].queue) : sessions[j].queue[l] = c => l = old
    BY <2>1 DEF SessionsInv, CallsAreOpen
  <2>4. c \in SubscriptionCall
    <3>1. sessions[j].queue \in Seq(SubscriptionCall)
      BY StateParts DEF SessionsInv, SubscriptionsTypeOK
    <3> QED
      BY <2>1, <3>1, ElementOfSeq
  <2>5. c.sub \in Sub /\ c.of \in {"add", "remove"}
    BY <2>4 DEF SubscriptionCall
  <2>6. ASSUME NEW l \in 1 .. Len(sessions'[j].queue), sessions'[j].queue[l] = c
        PROVE  l = i
    <3>1. CASE j = k
      <4>1. l + 1 \in 1 .. Len(sessions[k].queue) /\ sessions[k].queue[l + 1] = c
        BY <1>3, <1>5b, <2>6, <3>1
      <4>2. l + 1 = old
        BY <2>3, <3>1, <4>1
      <4> QED
        BY <3>1, <4>2
    <3>2. CASE j # k
      BY <1>5, <2>3, <2>6, <3>2 DEF OthersStay
    <3> QED
      BY <3>1, <3>2
  <2> HIDE DEF c
  <2>7. /\ c.of = "add" => adding'[c.sub] = "waiting"
        /\ c.of = "remove" => removing'[c.sub] = "waiting"
    BY <1>5a, <1>6, <2>2, <2>3, <2>5
  <2> QED
    BY <2>3, <2>6, <2>7 DEF c
<1>10. Membership'
  <2>1. \A j \in Session : sessions'[j].subs = sessions[j].subs
    BY <1>4, <1>5 DEF OthersStay
  <2> QED
    BY <1>1, <1>5, <1>5a, <1>6, <2>1 DEF SessionsInv, Membership
<1>11. Phases'
  <2>1. Phase(k)'
    BY <1>1, <1>4, <1>5 DEF SessionsInv, Phases, Phase
  <2> QED
    BY <1>1, <1>5, <2>1, PhasesOfOne
<1>12. DownIsDue'
  <2>1. \A s \in Sub : removing[s] = "closing" => removing'[s] = "closing"
    BY <1>5a, <1>6
  <2>2. Due(k)'
    <3>1. ASSUME sessions[k].up = "unsubscribe", ~ShouldBeSubscribed(sessions[k])
          PROVE  \/ Len(sessions[k].queue) > 1
                 \/ \E s \in Sub : removing[s] = "closing" /\ sessionOf[s] = k
      BY <1>1, <3>1 DEF SessionsInv, DownIsDue, Due, WillLook, GoesDown
    <3>2. ShouldBeSubscribed(new) <=> ShouldBeSubscribed(sessions[k])
      BY <1>4 DEF ShouldBeSubscribed
    <3> QED
      BY <1>1, <1>3, <1>4, <1>5, <1>5b, <2>1, <3>1, <3>2 DEF Due, WillLook
  <2> QED
    BY <1>1, <1>5, <2>1, <2>2, OthersDue
<1>13. AddedIsUp'
  <2>1. ASSUME NEW s \in sessions[k].subs, ~sessions[k].stopped, adding'[s] \in {"finishing", "subscribed"}
        PROVE  sessions[k].up = "unsubscribe"
    <3>1. CASE adding'[s] = adding[s]
      BY <2>1, <3>1 DEF SessionsInv, AddedIsUp, Added
    <3>2. CASE adding'[s] # adding[s]
      <4>1. s \in Sub
        BY StateParts DEF SessionsInv, SubscriptionsTypeOK
      <4>2. asked.of = "add" /\ s = asked.sub /\ ~fail
        BY <1>6, <2>1, <3>2, <4>1
      <4>3. asked = [of |-> "add", sub |-> s]
        BY <1>3, <4>2 DEF SubscriptionCall
      <4>4. ~(GoesDown(k) /\ ~sessions[k].error)
        BY <1>3, <2>1, <4>3 DEF SessionsInv, AddedIsUp, Added
      <4> QED
        BY <1>1, <4>2, <4>4 DEF GoesDown, fail
    <3> QED
      BY <3>1, <3>2
  <2>2. Added(k)'
    BY <1>4, <1>5, <2>1 DEF Added, GoesDown
  <2> QED
    BY <1>5, <1>5a, <1>6, <2>2, OthersAdded
<1>14. /\ IsUp(k)' <=> IsUp(k)
       /\ ~GoesUp(k)'
       /\ IsUp(k) => ~GoesDown(k)
  BY <1>1, <1>4, <1>5 DEF IsUp, GoesUp, GoesDown
<1>15. ListenersAreUp'
  BY <1>1, <1>5, <1>14, OthersKeep DEF SessionsInv, ListenersAreUp
<1>16. OneIsUp'
  <2>1. ~outlived /\ sessions[k].stopped /\ IsUp(k) => GoesDown(k)
    BY DEF SessionsInv, OneIsUp
  <2> QED
    BY <1>1, <1>4, <1>5, <1>14, <2>1, NotUpByStep
<1> QED
  BY <1>7, <1>8, <1>9, <1>10, <1>11, <1>12, <1>13, <1>15, <1>16 DEF SessionsInv

\* The listener of onRetired runs: the session was stopped, and it is the newest.
LEMMA RetireKeeps ==
  ASSUME SessionsInv, NEW k \in Session, Retire(k)
  PROVE  SessionsInv'
<1> DEFINE new == [sessions[k] EXCEPT !.retiring = FALSE]
<1>1. /\ sessions' = [sessions EXCEPT ![k] = new]
      /\ sessions[k].retiring /\ subSessions' = NoSession
      /\ UNCHANGED <<startNode, destroyed, node, joined, listeners, sessionOf, adding, removing, done, outlived>>
  BY DEF Retire, facadeVars
<1>2. sessions[k] \in SessionState /\ Session \subseteq Nat
  BY StateParts DEF SessionsInv, SubscriptionsTypeOK
<1>4. /\ new \in SessionState
      /\ new.subs = sessions[k].subs /\ new.queue = sessions[k].queue /\ new.up = sessions[k].up
      /\ new.stopped = sessions[k].stopped /\ ~new.retiring
      /\ new.error = sessions[k].error /\ new.at = sessions[k].at /\ new.should = sessions[k].should
  BY <1>2 DEF SessionState
<1> HIDE DEF new
<1>5. /\ sessions' \in Seq(SessionState)
      /\ Len(sessions') = Len(sessions)
      /\ Session' = Session
      /\ sessions'[k] = new
      /\ OthersStay(k)
  BY <1>1, <1>4, OneSession DEF SessionsInv, SubscriptionsTypeOK, OthersStay
<1>6. k = subSessions /\ sessions[k].stopped
  BY <1>1 DEF SessionsInv, NewestOnly
<1>7. SubscriptionsTypeOK'
  BY <1>1, <1>5 DEF SessionsInv, SubscriptionsTypeOK
<1>8. NewestOnly'
  <2>1. ASSUME NEW j \in Session
        PROVE  j # NoSession /\ sessions'[j].stopped /\ ~sessions'[j].retiring
    BY <1>2, <1>4, <1>5, <1>6, SubscriptionsAssumption DEF SessionsInv, NewestOnly, OthersStay
  <2> QED
    BY <1>1, <1>5, <2>1 DEF NewestOnly
<1>9. CallsAreOpen'
  <2>1. \A j \in Session : sessions'[j].queue = sessions[j].queue
    BY <1>4, <1>5 DEF OthersStay
  <2> QED
    BY <1>1, <1>5, <2>1 DEF SessionsInv, CallsAreOpen
<1>10. Membership'
  <2>1. \A j \in Session : sessions'[j].subs = sessions[j].subs
    BY <1>4, <1>5 DEF OthersStay
  <2> QED
    BY <1>1, <1>2, <1>5, <2>1, SubscriptionsAssumption DEF SessionsInv, Membership
<1>11. Phases'
  <2>1. Phase(k)'
    BY <1>1, <1>4, <1>5 DEF SessionsInv, Phases, Phase
  <2> QED
    BY <1>1, <1>5, <2>1, PhasesOfOne
<1>12. (GoesDown(k)' <=> GoesDown(k)) /\ (IsUp(k)' <=> IsUp(k)) /\ (GoesUp(k)' <=> GoesUp(k))
  BY <1>4, <1>5 DEF GoesDown, IsUp, GoesUp
<1>13. DownIsDue'
  <2>1. ShouldBeSubscribed(new) <=> ShouldBeSubscribed(sessions[k])
    BY <1>4 DEF ShouldBeSubscribed
  <2>2. Due(k)'
    BY <1>1, <1>4, <1>5, <1>12, <2>1 DEF SessionsInv, DownIsDue, Due, WillLook
  <2> QED
    BY <1>1, <1>5, <2>2, OthersDue
<1>14. AddedIsUp'
  <2>1. Added(k)'
    BY <1>4, <1>5, <1>6 DEF Added
  <2> QED
    BY <1>1, <1>5, <2>1, OthersAdded
<1>15. ListenersAreUp'
  BY <1>1, <1>5, <1>12, OthersKeep DEF SessionsInv, ListenersAreUp
<1>16. OneIsUp'
  <2>1. ~outlived /\ sessions[k].stopped /\ IsUp(k) => GoesDown(k)
    BY DEF SessionsInv, OneIsUp
  <2> QED
    BY <1>1, <1>4, <1>5, <1>12, <2>1, NotUpByStep
<1> QED
  BY <1>7, <1>8, <1>9, <1>10, <1>11, <1>13, <1>14, <1>15, <1>16 DEF SessionsInv

\* The end of a call for the subscription s of session k.
LEMMA UpdatedKeeps ==
  ASSUME SessionsInv, NEW k \in Session, NEW s \in Sub, Updated(k),
         UNCHANGED <<facadeVars, joined, listeners, subSessions, sessionOf, done>>,
         \/ /\ adding[s] = "finishing" /\ adding' = [adding EXCEPT ![s] = "subscribed"]
            /\ UNCHANGED removing
         \/ /\ removing[s] = "finishing" /\ removing' = [removing EXCEPT ![s] = "gone"]
            /\ UNCHANGED adding
  PROVE  SessionsInv'
<1> DEFINE new == IF ShouldBeSubscribed(sessions[k]) THEN sessions[k] ELSE Stopped(sessions[k])
<1>1. /\ sessions' = [sessions EXCEPT ![k] = new]
      /\ outlived' = (outlived \/ (sessions'[k].stopped /\ sessions[k].up = "unsubscribe"))
      /\ UNCHANGED <<startNode, destroyed, node, joined, listeners, subSessions, sessionOf, done>>
  BY DEF Updated, facadeVars
<1>2. sessions[k] \in SessionState
  BY StateParts DEF SessionsInv, SubscriptionsTypeOK
<1>4. /\ new \in SessionState
      /\ new.subs = sessions[k].subs /\ new.queue = sessions[k].queue /\ new.up = sessions[k].up
      /\ new.error = sessions[k].error /\ new.at = sessions[k].at /\ new.should = sessions[k].should
      /\ \/ new.stopped = sessions[k].stopped /\ new.retiring = sessions[k].retiring
         \/ new.stopped /\ ~ShouldBeSubscribed(sessions[k])
              /\ (new.retiring <=> sessions[k].retiring \/ ~sessions[k].stopped)
      /\ sessions[k].stopped => new.stopped
  BY <1>2, StoppedState
<1> HIDE DEF new
<1>5. /\ sessions' \in Seq(SessionState)
      /\ Len(sessions') = Len(sessions)
      /\ Session' = Session
      /\ sessions'[k] = new
      /\ OthersStay(k)
  BY <1>1, <1>4, OneSession DEF SessionsInv, SubscriptionsTypeOK, OthersStay
<1>6. /\ adding' \in [Sub -> {"none", "waiting", "finishing", "failing", "subscribed", "failed"}]
      /\ removing' \in [Sub -> {"none", "ending", "closing", "waiting", "finishing", "gone"}]
      /\ \A t \in Sub : adding'[t] = adding[t] \/ (adding[t] = "finishing" /\ adding'[t] = "subscribed")
      /\ \A t \in Sub : removing'[t] = removing[t] \/ (removing[t] = "finishing" /\ removing'[t] = "gone")
  BY DEF SessionsInv, SubscriptionsTypeOK
<1>7. SubscriptionsTypeOK'
  <2>1. outlived' \in BOOLEAN
    BY <1>1, <1>4, <1>5 DEF SessionsInv, SubscriptionsTypeOK
  <2> QED
    BY <1>1, <1>5, <1>6, <2>1 DEF SessionsInv, SubscriptionsTypeOK
<1>8. NewestOnly'
  BY <1>1, <1>4, <1>5 DEF SessionsInv, NewestOnly, OthersStay
<1>9. CallsAreOpen'
  <2>1. \A j \in Session : sessions'[j].queue = sessions[j].queue
    BY <1>4, <1>5 DEF OthersStay
  <2>2. \A j \in Session : \A i \in 1 .. Len(sessions[j].queue) : sessions[j].queue[i].sub \in Sub
    <3>1. \A j \in Session : sessions[j].queue \in Seq(SubscriptionCall)
      BY StateParts DEF SessionsInv, SubscriptionsTypeOK
    <3>2. \A j \in Session : \A i \in 1 .. Len(sessions[j].queue) : sessions[j].queue[i] \in SubscriptionCall
      BY <3>1, ElementOfSeq
    <3> QED
      BY <3>2 DEF SubscriptionCall
  <2>3. \A t \in Sub : /\ adding[t] = "waiting" => adding'[t] = "waiting"
                       /\ removing[t] = "waiting" => removing'[t] = "waiting"
    BY <1>6
  <2> QED
    BY <1>1, <1>5, <2>1, <2>2, <2>3 DEF SessionsInv, CallsAreOpen
<1>10. Membership'
  <2>1. \A j \in Session : sessions'[j].subs = sessions[j].subs
    BY <1>4, <1>5 DEF OthersStay
  <2> QED
    BY <1>1, <1>5, <1>6, <2>1 DEF SessionsInv, Membership
<1>11. Phases'
  <2>1. Phase(k)'
    BY <1>1, <1>4, <1>5 DEF SessionsInv, Phases, Phase
  <2> QED
    BY <1>1, <1>5, <2>1, PhasesOfOne
<1>12. (GoesDown(k)' <=> GoesDown(k)) /\ (IsUp(k)' <=> IsUp(k)) /\ (GoesUp(k)' <=> GoesUp(k))
  BY <1>4, <1>5 DEF GoesDown, IsUp, GoesUp
<1>13. DownIsDue'
  <2>1. ShouldBeSubscribed(sessions[k]) => ShouldBeSubscribed(new)
    BY <1>4 DEF ShouldBeSubscribed
  <2>2. \A t \in Sub : removing[t] = "closing" => removing'[t] = "closing"
    BY <1>6
  <2>3. WillLook(k) => WillLook(k)'
    BY <1>1, <1>4, <1>5, <1>12, <2>2 DEF WillLook
  <2>4. Due(k)'
    BY <1>4, <1>5, <2>1, <2>3 DEF SessionsInv, DownIsDue, Due
  <2> QED
    BY <1>1, <1>5, <2>2, <2>4, OthersDue
<1>14. AddedIsUp'
  <2>1. ASSUME NEW j \in Session, ~sessions'[j].stopped, NEW t \in sessions'[j].subs
        PROVE  /\ adding'[t] \in {"finishing", "subscribed"} => sessions'[j].up = "unsubscribe"
               /\ GoesDown(j)' /\ ~sessions'[j].error =>
                    sessions'[j].queue[1] # [of |-> "add", sub |-> t]
    <3>1. /\ ~sessions[j].stopped /\ t \in sessions[j].subs
          /\ sessions'[j].up = sessions[j].up /\ sessions'[j].error = sessions[j].error
          /\ sessions'[j].queue = sessions[j].queue /\ (GoesDown(j)' <=> GoesDown(j))
      BY <1>4, <1>5, <1>12, <2>1, OthersKeep DEF OthersStay
    <3>2. t \in Sub
      BY <3>1, StateParts DEF SessionsInv, SubscriptionsTypeOK
    <3>3. adding'[t] \in {"finishing", "subscribed"} => adding[t] \in {"finishing", "subscribed"}
      BY <1>6, <3>2
    <3> QED
      BY <3>1, <3>3 DEF SessionsInv, AddedIsUp, Added
  <2> QED
    BY <1>5, <2>1 DEF AddedIsUp, Added
<1>15. ListenersAreUp'
  <2>1. (outlived => outlived') /\ UNCHANGED <<joined, listeners>>
    BY <1>1
  <2> QED
    BY <1>5, <1>12, <2>1, OthersKeep DEF SessionsInv, ListenersAreUp
<1>16. OneIsUp'
  <2>1. IsUp(k) /\ sessions'[k].stopped => outlived'
    BY <1>1 DEF IsUp
  <2> QED
    BY <1>1, <1>5, <1>12, <2>1, NotUpByStep
<1> QED
  BY <1>7, <1>8, <1>9, <1>10, <1>11, <1>13, <1>14, <1>15, <1>16 DEF SessionsInv

LEMMA AddDoneKeeps ==
  ASSUME SessionsInv, NEW s \in Sub, AddDone(s)
  PROVE  SessionsInv'
<1>1. sessionOf[s] \in Session
  BY DEF AddDone, SessionsInv, Membership, SubscriptionsTypeOK
<1> QED
  BY <1>1, UpdatedKeeps DEF AddDone

LEMMA RemoveDoneKeeps ==
  ASSUME SessionsInv, NEW s \in Sub, RemoveDone(s)
  PROVE  SessionsInv'
<1>1. sessionOf[s] \in Session
  BY DEF RemoveDone, SessionsInv, Membership, SubscriptionsTypeOK
<1> QED
  BY <1>1, UpdatedKeeps DEF RemoveDone

\* A step of the removal of subscription s from its session k: either it is closed
\* next, or updateNodeSubscriptions is called for it.
LEMMA RemovalKeeps ==
  ASSUME SessionsInv, NEW s \in Sub, NEW k \in Session, NEW new \in SessionState,
         sessionOf[s] = k, removing[s] \in {"none", "ending", "closing"},
         sessions' = [sessions EXCEPT ![k] = new],
         new.subs = sessions[k].subs \ {s},
         new.stopped = sessions[k].stopped, new.retiring = sessions[k].retiring,
         new.up = sessions[k].up, new.error = sessions[k].error,
         new.at = sessions[k].at, new.should = sessions[k].should,
         \/ /\ new.queue = Append(sessions[k].queue, [of |-> "remove", sub |-> s])
            /\ removing' = [removing EXCEPT ![s] = "waiting"]
         \/ /\ new.queue = sessions[k].queue
            /\ removing' = [removing EXCEPT ![s] = "closing"],
         \/ adding' = adding
         \/ adding[s] = "failing" /\ adding' = [adding EXCEPT ![s] = "failed"],
         done' = done \cup {s},
         UNCHANGED <<facadeVars, joined, listeners, subSessions, sessionOf, outlived>>
  PROVE  SessionsInv'
<1> DEFINE q == sessions[k].queue
           asked == [of |-> "remove", sub |-> s]
<1>1. UNCHANGED <<startNode, destroyed, node, joined, listeners, subSessions, sessionOf, outlived>>
  BY DEF facadeVars
<1>2. q \in Seq(SubscriptionCall) /\ Len(q) \in Nat /\ asked \in SubscriptionCall
  BY StateParts DEF SessionsInv, SubscriptionsTypeOK, SubscriptionCall
<1>3. /\ Len(Append(q, asked)) = Len(q) + 1 /\ Append(q, asked)[Len(q) + 1] = asked
      /\ \A i \in 1 .. Len(q) : Append(q, asked)[i] = q[i]
  BY <1>2, AppendProperties
<1>4. \/ Len(new.queue) = Len(q) + 1 /\ new.queue[Len(q) + 1] = asked /\ removing'[s] = "waiting"
      \/ Len(new.queue) = Len(q) /\ removing'[s] = "closing"
  BY <1>3 DEF SessionsInv, SubscriptionsTypeOK
<1>4a. \A i \in 1 .. Len(q) : new.queue[i] = q[i]
  BY <1>3
<1>5. /\ sessions' \in Seq(SessionState)
      /\ Len(sessions') = Len(sessions)
      /\ Session' = Session
      /\ sessions'[k] = new
      /\ OthersStay(k)
  BY OneSession DEF SessionsInv, SubscriptionsTypeOK, OthersStay
<1>6. /\ adding' \in [Sub -> {"none", "waiting", "finishing", "failing", "subscribed", "failed"}]
      /\ removing' \in [Sub -> {"none", "ending", "closing", "waiting", "finishing", "gone"}]
      /\ \A t \in Sub : t # s => removing'[t] = removing[t]
      /\ \A t \in Sub : adding'[t] = adding[t] \/ (t = s /\ adding[t] = "failing" /\ adding'[t] = "failed")
  BY DEF SessionsInv, SubscriptionsTypeOK
<1>7. SubscriptionsTypeOK'
  BY <1>1, <1>5, <1>6 DEF SessionsInv, SubscriptionsTypeOK
<1>8. NewestOnly'
  BY <1>1, <1>5 DEF SessionsInv, NewestOnly, OthersStay
<1>9. CallsAreOpen'
  <2> SUFFICES ASSUME NEW j \in Session, NEW i \in 1 .. Len(sessions'[j].queue)
               PROVE  LET c == sessions'[j].queue[i]
                      IN  /\ sessionOf[c.sub] = j
                          /\ c.of = "add" => adding'[c.sub] = "waiting"
                          /\ c.of = "remove" => removing'[c.sub] = "waiting"
                          /\ \A l \in 1 .. Len(sessions'[j].queue) : sessions'[j].queue[l] = c => l = i
    BY <1>1, <1>5 DEF CallsAreOpen
  <2>1. ASSUME NEW m \in Session, NEW n \in 1 .. Len(sessions[m].queue)
        PROVE  LET c == sessions[m].queue[n]
               IN  /\ sessionOf[c.sub] = m /\ c # asked
                   /\ c.of = "add" => adding'[c.sub] = "waiting"
                   /\ c.of = "remove" => removing'[c.sub] = "waiting"
                   /\ \A l \in 1 .. Len(sessions[m].queue) : sessions[m].queue[l] = c => l = n
    <3> DEFINE c == sessions[m].queue[n]
    <3>1. /\ sessionOf[c.sub] = m
          /\ c.of = "add" => adding[c.sub] = "waiting"
          /\ c.of = "remove" => removing[c.sub] = "waiting"
          /\ \A l \in 1 .. Len(sessions[m].queue) : sessions[m].queue[l] = c => l = n
      BY DEF SessionsInv, CallsAreOpen
    <3>2. sessions[m].queue \in Seq(SubscriptionCall)
      BY StateParts DEF SessionsInv, SubscriptionsTypeOK
    <3>3. c \in SubscriptionCall
      BY <3>2, ElementOfSeq
    <3> HIDE DEF c
    <3>4. c.sub \in Sub
      BY <3>3 DEF SubscriptionCall
    <3>5. /\ c.of = "add" => adding'[c.sub] = "waiting"
          /\ c.of = "remove" => removing'[c.sub] = "waiting"
      BY <1>6, <3>1, <3>4
    <3>6. c # asked
      BY <3>1
    <3> QED
      BY <3>1, <3>5, <3>6 DEF c
  <2>2. CASE j # k
    BY <1>5, <2>1, <2>2 DEF OthersStay
  <2>3. CASE j = k /\ i \in 1 .. Len(q)
    <3>1. sessions'[j].queue[i] = q[i]
      BY <1>4a, <1>5, <2>3
    <3>2. ASSUME NEW l \in 1 .. Len(sessions'[j].queue), sessions'[j].queue[l] = q[i]
          PROVE  l = i
      <4>1. q[i] # asked /\ \A n \in 1 .. Len(q) : q[n] = q[i] => n = i
        <5>1. i \in 1 .. Len(sessions[k].queue)
          BY <2>3
        <5> QED
          BY <2>1, <5>1
      <4>2. l \in 1 .. Len(q)
        BY <1>2, <1>4, <1>5, <2>3, <3>2, <4>1
      <4> QED
        BY <1>4a, <1>5, <2>3, <3>2, <4>1, <4>2
    <3> QED
      BY <2>1, <2>3, <3>1, <3>2
  <2>4. CASE j = k /\ i \notin 1 .. Len(q)
    <3>1. i = Len(q) + 1 /\ sessions'[j].queue[i] = asked /\ removing'[s] = "waiting"
      BY <1>2, <1>4, <1>5, <2>4
    <3>2. \A n \in 1 .. Len(q) : q[n] # asked
      BY <2>1
    <3>3. ASSUME NEW l \in 1 .. Len(sessions'[j].queue), sessions'[j].queue[l] = asked
          PROVE  l = i
      <4>1. l \notin 1 .. Len(q)
        BY <1>4a, <1>5, <2>4, <3>2, <3>3
      <4> QED
        BY <1>2, <1>4, <1>5, <2>4, <3>1, <4>1
    <3> QED
      BY <2>4, <3>1, <3>3
  <2> QED
    BY <2>2, <2>3, <2>4
<1>10. Membership'
  <2>1. /\ \A j \in Session : sessions'[j].subs \subseteq sessions[j].subs
        /\ \A j \in Session : s \notin sessions'[j].subs
    <3>1. \A j \in Session : s \in sessions[j].subs => j = k
      BY DEF SessionsInv, Membership
    <3> QED
      BY <1>5, <3>1 DEF OthersStay
  <2>2. ASSUME NEW t \in Sub
        PROVE  /\ adding'[t] = "none" <=> sessionOf[t] = NoSession
               /\ adding'[t] = "none" => removing'[t] = "none"
               /\ removing'[t] = "none" <=> t \notin done'
    <3>1. sessionOf[s] # NoSession
      BY StateParts, SubscriptionsAssumption DEF SessionsInv, SubscriptionsTypeOK
    <3>2. /\ adding[t] = "none" <=> sessionOf[t] = NoSession
          /\ adding[t] = "none" => removing[t] = "none"
          /\ removing[t] = "none" <=> t \notin done
      BY DEF SessionsInv, Membership
    <3> QED
      BY <1>4, <1>6, <3>1, <3>2
  <2>3. ASSUME NEW t \in Sub, NEW j \in Session, t \in sessions'[j].subs
        PROVE  sessionOf[t] = j /\ removing'[t] \in {"none", "ending"}
    BY <1>6, <2>1, <2>3 DEF SessionsInv, Membership
  <2>4. ASSUME NEW t \in Sub, adding'[t] = "failed", subSessions \in Session
        PROVE  t \notin sessions'[subSessions].subs
    BY <1>6, <2>1, <2>4 DEF SessionsInv, Membership
  <2> QED
    BY <1>1, <1>5, <2>2, <2>3, <2>4 DEF Membership
<1>11. Phases'
  <2>1. Phase(k)'
    BY <1>1, <1>2, <1>4, <1>5 DEF SessionsInv, Phases, Phase
  <2> QED
    BY <1>1, <1>5, <2>1, PhasesOfOne
<1>12. (GoesDown(k)' <=> GoesDown(k)) /\ (IsUp(k)' <=> IsUp(k)) /\ (GoesUp(k)' <=> GoesUp(k))
  BY <1>5 DEF GoesDown, IsUp, GoesUp
<1>13. DownIsDue'
  <2>1. sessions[k].at # "idle" => Len(q) > 0
    BY DEF SessionsInv, Phases, Phase
  <2>2. WillLook(k)'
    BY <1>1, <1>2, <1>4, <1>5, <2>1 DEF WillLook
  <2> QED
    BY <1>1, <1>5, <1>6, <2>2, OthersDue DEF Due
<1>14. AddedIsUp'
  <2>1. GoesDown(k) => new.queue[1] = q[1]
    <3>1. GoesDown(k) => Len(q) > 0
      BY DEF SessionsInv, Phases, Phase, GoesDown
    <3> QED
      BY <1>2, <1>4a, <3>1
  <2>2. ASSUME NEW t \in sessions[k].subs
        PROVE  adding'[t] \in {"finishing", "subscribed"} => adding[t] \in {"finishing", "subscribed"}
    <3>1. t \in Sub
      BY StateParts DEF SessionsInv, SubscriptionsTypeOK
    <3> QED
      BY <1>6, <3>1
  <2>3. Added(k)
    BY DEF SessionsInv, AddedIsUp
  <2>4. ASSUME ~sessions[k].stopped, NEW t \in sessions'[k].subs
        PROVE  /\ adding'[t] \in {"finishing", "subscribed"} => sessions'[k].up = "unsubscribe"
               /\ GoesDown(k)' /\ ~sessions'[k].error =>
                    sessions'[k].queue[1] # [of |-> "add", sub |-> t]
    <3>1. t \in sessions[k].subs
      BY <1>5, <2>4
    <3> QED
      BY <1>5, <1>12, <2>1, <2>2, <2>3, <2>4, <3>1 DEF Added
  <2>5. Added(k)'
    BY <1>5, <2>4 DEF Added
  <2> QED
    BY <1>5, <1>6, <2>5, OthersAdded
<1>15. ListenersAreUp'
  BY <1>1, <1>5, <1>12, OthersKeep DEF SessionsInv, ListenersAreUp
<1>16. OneIsUp'
  <2>1. ~outlived /\ sessions[k].stopped /\ IsUp(k) => GoesDown(k)
    BY DEF SessionsInv, OneIsUp
  <2> QED
    BY <1>1, <1>5, <1>12, <2>1, NotUpByStep
<1> QED
  BY <1>7, <1>8, <1>9, <1>10, <1>11, <1>13, <1>14, <1>15, <1>16 DEF SessionsInv

LEMMA DroppingState ==
  ASSUME NEW x \in SessionState, NEW s \in Sub
  PROVE  /\ Dropping(x, s) \in SessionState
         /\ Dropping(x, s).subs = x.subs \ {s} /\ Dropping(x, s).queue = x.queue
         /\ Dropping(x, s).up = x.up /\ Dropping(x, s).error = x.error
         /\ Dropping(x, s).stopped = x.stopped /\ Dropping(x, s).retiring = x.retiring
         /\ Dropping(x, s).at = x.at /\ Dropping(x, s).should = x.should
BY DEF SessionState, Dropping

LEMMA HoldingState ==
  ASSUME NEW x \in SessionState, NEW s \in Sub
  PROVE  /\ Holding(x, s) \in SessionState
         /\ Holding(x, s).subs = x.subs \cup {s} /\ Holding(x, s).queue = x.queue
         /\ Holding(x, s).up = x.up /\ Holding(x, s).error = x.error
         /\ Holding(x, s).stopped = x.stopped /\ Holding(x, s).retiring = x.retiring
         /\ Holding(x, s).at = x.at /\ Holding(x, s).should = x.should
BY DEF SessionState, Holding

LEMMA RemoveFromKeeps ==
  ASSUME SessionsInv, NEW s \in Sub, NEW k \in Session,
         sessionOf[s] = k, removing[s] \in {"none", "ending"}, RemoveFrom(s, k),
         \/ adding' = adding
         \/ adding[s] = "failing" /\ adding' = [adding EXCEPT ![s] = "failed"],
         UNCHANGED <<facadeVars, joined, listeners, subSessions, sessionOf, outlived>>
  PROVE  SessionsInv'
<1> DEFINE left == Dropping(sessions[k], s)
           asked == [of |-> "remove", sub |-> s]
           new  == Enqueued(left, asked)
<1>1. sessions[k] \in SessionState /\ asked \in SubscriptionCall
  BY StateParts DEF SessionsInv, SubscriptionsTypeOK, SubscriptionCall
<1>2. done' = done \cup {s}
  BY DEF RemoveFrom
<1>3. \/ sessions' = [sessions EXCEPT ![k] = new] /\ removing' = [removing EXCEPT ![s] = "waiting"]
      \/ sessions' = [sessions EXCEPT ![k] = left] /\ removing' = [removing EXCEPT ![s] = "closing"]
  BY DEF RemoveFrom
<1>4. /\ left \in SessionState
      /\ left.subs = sessions[k].subs \ {s} /\ left.queue = sessions[k].queue /\ left.up = sessions[k].up
      /\ left.stopped = sessions[k].stopped /\ left.retiring = sessions[k].retiring
      /\ left.error = sessions[k].error /\ left.at = sessions[k].at /\ left.should = sessions[k].should
  BY <1>1, DroppingState
<1> HIDE DEF left
<1>5. /\ new \in SessionState
      /\ new.subs = left.subs /\ new.queue = Append(left.queue, asked) /\ new.up = left.up
      /\ new.stopped = left.stopped /\ new.retiring = left.retiring
      /\ new.error = left.error /\ new.at = left.at /\ new.should = left.should
  BY <1>1, <1>4, EnqueuedState
<1> HIDE DEF new
<1>6. CASE sessions' = [sessions EXCEPT ![k] = new] /\ removing' = [removing EXCEPT ![s] = "waiting"]
  BY <1>2, <1>4, <1>5, <1>6, RemovalKeeps
<1>7. CASE sessions' = [sessions EXCEPT ![k] = left] /\ removing' = [removing EXCEPT ![s] = "closing"]
  BY <1>2, <1>4, <1>7, RemovalKeeps
<1> QED
  BY <1>3, <1>6, <1>7

\* A step of one call that leaves the sessions alone.
LEMMA QuietKeeps ==
  ASSUME SessionsInv,
         UNCHANGED <<startNode, destroyed, node, joined, listeners, subSessions, sessions, sessionOf, outlived>>,
         adding' \in [Sub -> {"none", "waiting", "finishing", "failing", "subscribed", "failed"}],
         removing' \in [Sub -> {"none", "ending", "closing", "waiting", "finishing", "gone"}],
         done' \subseteq Sub,
         \A t \in Sub :
           /\ adding[t] = "waiting" => adding'[t] = "waiting"
           /\ removing[t] \in {"waiting", "closing"} => removing'[t] = removing[t]
           /\ adding'[t] \in {"finishing", "subscribed"} => adding[t] \in {"finishing", "subscribed"},
         Membership'
  PROVE  SessionsInv'
<1>1. Session' = Session
  BY DEF Session
<1>2. SubscriptionsTypeOK' /\ NewestOnly'
  BY <1>1 DEF SessionsInv, SubscriptionsTypeOK, NewestOnly
<1>3. CallsAreOpen'
  <2>1. ASSUME NEW j \in Session, NEW i \in 1 .. Len(sessions[j].queue)
        PROVE  sessions[j].queue[i].sub \in Sub
    <3>1. sessions[j].queue \in Seq(SubscriptionCall)
      BY StateParts DEF SessionsInv, SubscriptionsTypeOK
    <3>2. sessions[j].queue[i] \in SubscriptionCall
      BY <3>1, ElementOfSeq
    <3> QED
      BY <3>2 DEF SubscriptionCall
  <2> QED
    BY <1>1, <2>1 DEF SessionsInv, CallsAreOpen
<1>4. Phases'
  BY <1>1 DEF SessionsInv, Phases, Phase
<1>5. \A j \in Session : (GoesDown(j)' <=> GoesDown(j)) /\ (IsUp(j)' <=> IsUp(j)) /\ (GoesUp(j)' <=> GoesUp(j))
  BY DEF GoesDown, IsUp, GoesUp
<1>6. ListenersAreUp' /\ OneIsUp'
  BY <1>1, <1>5 DEF SessionsInv, ListenersAreUp, OneIsUp
<1>7. DownIsDue'
  <2>1. ASSUME NEW j \in Session
        PROVE  WillLook(j) => WillLook(j)'
    BY <1>5 DEF WillLook
  <2> QED
    BY <1>1, <2>1 DEF SessionsInv, DownIsDue, Due
<1>8. AddedIsUp'
  <2>1. ASSUME NEW j \in Session
        PROVE  Added(j)'
    <3>1. sessions[j].subs \subseteq Sub /\ Added(j)
      BY StateParts DEF SessionsInv, SubscriptionsTypeOK, AddedIsUp
    <3> QED
      BY <1>5, <3>1 DEF Added
  <2> QED
    BY <1>1, <2>1 DEF AddedIsUp
<1> QED
  BY <1>2, <1>3, <1>4, <1>6, <1>7, <1>8 DEF SessionsInv

LEMMA AddFailsKeeps ==
  ASSUME SessionsInv, NEW s \in Sub, AddFails(s)
  PROVE  SessionsInv'
<1>1. /\ adding[s] = "failing" /\ adding' = [adding EXCEPT ![s] = "failed"]
      /\ UNCHANGED <<facadeVars, joined, listeners, subSessions, sessionOf, outlived>>
  BY DEF AddFails
<1>2. CASE subSessions # NoSession /\ s \in sessions[subSessions].subs
  <2>1. subSessions \in Session /\ RemoveFrom(s, subSessions)
    BY <1>2 DEF AddFails, SessionsInv, SubscriptionsTypeOK
  <2>2. sessionOf[s] = subSessions /\ removing[s] \in {"none", "ending"}
    BY <1>2, <2>1 DEF SessionsInv, Membership
  <2> QED
    BY <1>1, <2>1, <2>2, RemoveFromKeeps
<1>3. CASE ~(subSessions # NoSession /\ s \in sessions[subSessions].subs)
  <2>1. UNCHANGED <<sessions, removing, done>>
    BY <1>3 DEF AddFails
  <2>2. UNCHANGED <<startNode, destroyed, node, joined, listeners, subSessions, sessions, sessionOf, outlived>>
    BY <1>1, <2>1 DEF facadeVars
  <2>3. \A t \in Sub : adding'[t] = adding[t] \/ (t = s /\ adding[t] = "failing" /\ adding'[t] = "failed")
    BY <1>1 DEF SessionsInv, SubscriptionsTypeOK
  <2>4. NoSession \notin Session /\ Session' = Session
    BY <2>1, SubscriptionsAssumption DEF Session, SessionsInv, SubscriptionsTypeOK
  <2>5. Membership'
    BY <1>3, <2>1, <2>2, <2>3, <2>4 DEF SessionsInv, Membership
  <2>6. adding' \in [Sub -> {"none", "waiting", "finishing", "failing", "subscribed", "failed"}]
    BY <1>1 DEF SessionsInv, SubscriptionsTypeOK
  <2>7. /\ removing' \in [Sub -> {"none", "ending", "closing", "waiting", "finishing", "gone"}]
        /\ done' \subseteq Sub
    BY <2>1 DEF SessionsInv, SubscriptionsTypeOK
  <2>8. \A t \in Sub :
          /\ adding[t] = "waiting" => adding'[t] = "waiting"
          /\ removing[t] \in {"waiting", "closing"} => removing'[t] = removing[t]
          /\ adding'[t] \in {"finishing", "subscribed"} => adding[t] \in {"finishing", "subscribed"}
    BY <2>1, <2>3
  <2> QED
    BY <2>2, <2>5, <2>6, <2>7, <2>8, QuietKeeps
<1> QED
  BY <1>2, <1>3

LEMMA UnsubscribeKeeps ==
  ASSUME SessionsInv, NEW s \in Sub, Unsubscribe(s)
  PROVE  SessionsInv'
<1>1. subSessions \in Session /\ s \in sessions[subSessions].subs
  BY DEF Unsubscribe, SessionsInv, SubscriptionsTypeOK
<1>2. sessionOf[s] = subSessions /\ removing[s] \in {"none", "ending"}
  BY <1>1 DEF SessionsInv, Membership
<1> QED
  BY <1>1, <1>2, RemoveFromKeeps DEF Unsubscribe

LEMMA EndKeeps ==
  ASSUME SessionsInv, NEW s \in Sub, EndSubscription(s)
  PROVE  SessionsInv'
<1>1. /\ adding[s] = "subscribed" /\ s \notin done /\ done' = done \cup {s}
      /\ removing' = [removing EXCEPT ![s] = "ending"]
      /\ UNCHANGED <<startNode, destroyed, node, joined, listeners, subSessions, sessions, sessionOf, adding, outlived>>
  BY DEF EndSubscription, facadeVars
<1>2. removing[s] = "none"
  BY <1>1 DEF SessionsInv, Membership
<1>3. /\ removing' \in [Sub -> {"none", "ending", "closing", "waiting", "finishing", "gone"}]
      /\ \A t \in Sub : removing'[t] = removing[t] \/ (t = s /\ removing'[t] = "ending")
      /\ removing'[s] = "ending"
  BY <1>1 DEF SessionsInv, SubscriptionsTypeOK
<1>4. Session' = Session
  BY <1>1 DEF Session
<1>5. Membership'
  BY <1>1, <1>2, <1>3, <1>4 DEF SessionsInv, Membership
<1>6. /\ adding' \in [Sub -> {"none", "waiting", "finishing", "failing", "subscribed", "failed"}]
      /\ done' \subseteq Sub
  BY <1>1 DEF SessionsInv, SubscriptionsTypeOK
<1>7. \A t \in Sub : removing[t] \in {"waiting", "closing"} => removing'[t] = removing[t]
  BY <1>2, <1>3
<1> QED
  BY <1>1, <1>3, <1>5, <1>6, <1>7, QuietKeeps

LEMMA EndedKeeps ==
  ASSUME SessionsInv, NEW s \in Sub, EndedSubscription(s)
  PROVE  SessionsInv'
<1>1. removing[s] = "ending" /\ sessionOf[s] \in Session
  BY DEF EndedSubscription, SessionsInv, Membership, SubscriptionsTypeOK
<1> QED
  BY <1>1, RemoveFromKeeps DEF EndedSubscription

LEMMA ClosedKeeps ==
  ASSUME SessionsInv, NEW s \in Sub, RemoveClosed(s)
  PROVE  SessionsInv'
<1> DEFINE k    == sessionOf[s]
           asked == [of |-> "remove", sub |-> s]
           new  == Enqueued(sessions[k], asked)
<1>1. /\ removing[s] = "closing" /\ removing' = [removing EXCEPT ![s] = "waiting"]
      /\ sessions' = [sessions EXCEPT ![k] = new]
      /\ UNCHANGED <<facadeVars, joined, listeners, subSessions, sessionOf, adding, done, outlived>>
  BY DEF RemoveClosed
<1>2. k \in Session /\ s \in done
  BY <1>1 DEF SessionsInv, Membership, SubscriptionsTypeOK
<1>3. sessions[k] \in SessionState /\ asked \in SubscriptionCall
  BY <1>2, StateParts DEF SessionsInv, SubscriptionsTypeOK, SubscriptionCall
<1>4. s \notin sessions[k].subs
  BY <1>1, <1>2 DEF SessionsInv, Membership
<1>5. /\ new \in SessionState
      /\ new.subs = sessions[k].subs \ {s} /\ new.queue = Append(sessions[k].queue, asked)
      /\ new.up = sessions[k].up /\ new.error = sessions[k].error
      /\ new.stopped = sessions[k].stopped /\ new.retiring = sessions[k].retiring
      /\ new.at = sessions[k].at /\ new.should = sessions[k].should
  BY <1>3, <1>4, EnqueuedState
<1>6. done' = done \cup {s}
  BY <1>1, <1>2
<1> HIDE DEF new, k
<1> QED
  BY <1>1, <1>2, <1>5, <1>6, RemovalKeeps DEF k

\* A subscription that has not been made is in no session, and no call is for it.
LEMMA FreshSub ==
  ASSUME SessionsInv, NEW s \in Sub, adding[s] = "none"
  PROVE  /\ sessionOf[s] = NoSession /\ removing[s] = "none" /\ s \notin done
         /\ NoSession \notin Session
         /\ \A j \in Session : s \notin sessions[j].subs
         /\ \A j \in Session : \A i \in 1 .. Len(sessions[j].queue) : sessions[j].queue[i].sub # s
<1>1. NoSession \notin Session
  BY StateParts, SubscriptionsAssumption DEF SessionsInv, SubscriptionsTypeOK
<1>2. sessionOf[s] = NoSession /\ removing[s] = "none" /\ s \notin done
  BY DEF SessionsInv, Membership
<1>3. \A j \in Session : s \notin sessions[j].subs
  BY <1>1, <1>2 DEF SessionsInv, Membership
<1>4. \A j \in Session : \A i \in 1 .. Len(sessions[j].queue) : sessions[j].queue[i].sub # s
  BY <1>1, <1>2 DEF SessionsInv, CallsAreOpen
<1> QED
  BY <1>1, <1>2, <1>3, <1>4

\* The calls of the other subscriptions stay open when s is added.
OthersOpen(s) ==
  \A j \in Session : \A i \in 1 .. Len(sessions[j].queue) :
    LET c == sessions[j].queue[i]
    IN  /\ sessionOf'[c.sub] = j /\ c # [of |-> "add", sub |-> s]
        /\ c.of = "add" => adding'[c.sub] = "waiting"
        /\ c.of = "remove" => removing'[c.sub] = "waiting"
        /\ \A l \in 1 .. Len(sessions[j].queue) : sessions[j].queue[l] = c => l = i

LEMMA CallsOfOthers ==
  ASSUME SessionsInv, NEW s \in Sub, adding[s] = "none", adding' = [adding EXCEPT ![s] = "waiting"],
         removing' = removing, \A t \in Sub : t # s => sessionOf'[t] = sessionOf[t]
  PROVE  OthersOpen(s)
<1> SUFFICES ASSUME NEW j \in Session, NEW i \in 1 .. Len(sessions[j].queue)
             PROVE  LET c == sessions[j].queue[i]
                    IN  /\ sessionOf'[c.sub] = j /\ c # [of |-> "add", sub |-> s]
                        /\ c.of = "add" => adding'[c.sub] = "waiting"
                        /\ c.of = "remove" => removing'[c.sub] = "waiting"
                        /\ \A l \in 1 .. Len(sessions[j].queue) : sessions[j].queue[l] = c => l = i
  BY DEF OthersOpen
<1> DEFINE c == sessions[j].queue[i]
<1>1. /\ sessionOf[c.sub] = j
      /\ c.of = "add" => adding[c.sub] = "waiting"
      /\ c.of = "remove" => removing[c.sub] = "waiting"
      /\ \A l \in 1 .. Len(sessions[j].queue) : sessions[j].queue[l] = c => l = i
  BY DEF SessionsInv, CallsAreOpen
<1>2. c.sub # s
  BY FreshSub
<1>3. c \in SubscriptionCall
  <2>1. sessions[j].queue \in Seq(SubscriptionCall)
    BY StateParts DEF SessionsInv, SubscriptionsTypeOK
  <2> QED
    BY <2>1, ElementOfSeq
<1> HIDE DEF c
<1>4. c.sub \in Sub /\ c # [of |-> "add", sub |-> s]
  BY <1>2, <1>3 DEF SubscriptionCall
<1>5. /\ sessionOf'[c.sub] = sessionOf[c.sub]
      /\ adding'[c.sub] = adding[c.sub] /\ removing'[c.sub] = removing[c.sub]
  BY <1>2, <1>4 DEF SessionsInv, SubscriptionsTypeOK
<1> QED
  BY <1>1, <1>4, <1>5 DEF c

\* subscribe finds the session of the stream part.
LEMMA JoinKeeps ==
  ASSUME SessionsInv, NEW s \in Sub, NEW k \in Session, adding[s] = "none", subSessions = k,
         sessions' = [sessions EXCEPT ![k] = Enqueued(Holding(@, s), [of |-> "add", sub |-> s])],
         sessionOf' = [sessionOf EXCEPT ![s] = k],
         adding' = [adding EXCEPT ![s] = "waiting"],
         UNCHANGED <<facadeVars, joined, listeners, subSessions, removing, done, outlived>>
  PROVE  SessionsInv'
<1> DEFINE q    == sessions[k].queue
           asked == [of |-> "add", sub |-> s]
           held == Holding(sessions[k], s)
           new  == Enqueued(held, asked)
<1>1. /\ UNCHANGED <<startNode, destroyed, node, joined, listeners, subSessions, removing, done, outlived>>
      /\ sessions' = [sessions EXCEPT ![k] = new]
  BY DEF facadeVars
<1>2. /\ sessions[k] \in SessionState /\ asked \in SubscriptionCall
      /\ q \in Seq(SubscriptionCall) /\ Len(q) \in Nat
  BY StateParts DEF SessionsInv, SubscriptionsTypeOK, SubscriptionCall
<1>2a. /\ held \in SessionState
       /\ held.subs = sessions[k].subs \cup {s} /\ held.queue = q /\ held.up = sessions[k].up
       /\ held.stopped = sessions[k].stopped /\ held.retiring = sessions[k].retiring
       /\ held.error = sessions[k].error /\ held.at = sessions[k].at /\ held.should = sessions[k].should
  BY <1>2, HoldingState
<1> HIDE DEF held
<1>3. /\ new \in SessionState
      /\ new.subs = sessions[k].subs \cup {s} /\ new.queue = Append(q, asked) /\ new.up = sessions[k].up
      /\ new.stopped = sessions[k].stopped /\ new.retiring = sessions[k].retiring
      /\ new.error = sessions[k].error /\ new.at = sessions[k].at /\ new.should = sessions[k].should
  <2>1. /\ new \in SessionState
        /\ new.subs = held.subs /\ new.queue = Append(held.queue, asked) /\ new.up = held.up
        /\ new.stopped = held.stopped /\ new.retiring = held.retiring
        /\ new.error = held.error /\ new.at = held.at /\ new.should = held.should
    BY <1>2, <1>2a, EnqueuedState
  <2> QED
    BY <1>2a, <2>1
<1> HIDE DEF new
<1>4. /\ Len(new.queue) = Len(q) + 1 /\ new.queue[Len(q) + 1] = asked
      /\ \A i \in 1 .. Len(q) : new.queue[i] = q[i]
  BY <1>2, <1>3, AppendProperties
<1>5. /\ sessions' \in Seq(SessionState)
      /\ Len(sessions') = Len(sessions)
      /\ Session' = Session
      /\ sessions'[k] = new
      /\ OthersStay(k)
  BY <1>1, <1>3, OneSession DEF SessionsInv, SubscriptionsTypeOK, OthersStay
<1>6. /\ adding' \in [Sub -> {"none", "waiting", "finishing", "failing", "subscribed", "failed"}]
      /\ sessionOf' \in [Sub -> Session \cup {NoSession}]
      /\ adding'[s] = "waiting" /\ sessionOf'[s] = k
      /\ \A t \in Sub : t # s => adding'[t] = adding[t] /\ sessionOf'[t] = sessionOf[t]
  BY DEF SessionsInv, SubscriptionsTypeOK
<1>7. SubscriptionsTypeOK'
  BY <1>1, <1>5, <1>6 DEF SessionsInv, SubscriptionsTypeOK
<1>8. NewestOnly'
  BY <1>1, <1>3, <1>5 DEF SessionsInv, NewestOnly, OthersStay
<1>9. CallsAreOpen'
  <2> SUFFICES ASSUME NEW j \in Session, NEW i \in 1 .. Len(sessions'[j].queue)
               PROVE  LET c == sessions'[j].queue[i]
                      IN  /\ sessionOf'[c.sub] = j
                          /\ c.of = "add" => adding'[c.sub] = "waiting"
                          /\ c.of = "remove" => removing'[c.sub] = "waiting"
                          /\ \A l \in 1 .. Len(sessions'[j].queue) : sessions'[j].queue[l] = c => l = i
    BY <1>5 DEF CallsAreOpen
  <2>0. adding' = [adding EXCEPT ![s] = "waiting"] /\ removing' = removing
    BY <1>1
  <2>1. ASSUME NEW m \in Session, NEW n \in 1 .. Len(sessions[m].queue)
        PROVE  LET c == sessions[m].queue[n]
               IN  /\ sessionOf'[c.sub] = m /\ c # asked
                   /\ c.of = "add" => adding'[c.sub] = "waiting"
                   /\ c.of = "remove" => removing'[c.sub] = "waiting"
                   /\ \A l \in 1 .. Len(sessions[m].queue) : sessions[m].queue[l] = c => l = n
    <3>1. \A t \in Sub : t # s => sessionOf'[t] = sessionOf[t]
      BY <1>6
    <3>2. OthersOpen(s)
      BY <2>0, <3>1, CallsOfOthers
    <3> QED
      BY <3>2 DEF OthersOpen
  <2>2. CASE j # k
    <3>1. sessions'[j] = sessions[j]
      BY <1>5, <2>2 DEF OthersStay
    <3>2. i \in 1 .. Len(sessions[j].queue)
      BY <3>1
    <3> DEFINE c == sessions[j].queue[i]
    <3>3. /\ sessionOf'[c.sub] = j
          /\ c.of = "add" => adding'[c.sub] = "waiting"
          /\ c.of = "remove" => removing'[c.sub] = "waiting"
          /\ \A l \in 1 .. Len(sessions[j].queue) : sessions[j].queue[l] = c => l = i
      BY <2>1, <3>2
    <3> QED
      BY <3>1, <3>3
  <2>3. CASE j = k /\ i \in 1 .. Len(q)
    <3>1. sessions'[j].queue[i] = q[i]
      BY <1>4, <1>5, <2>3
    <3>2. ASSUME NEW l \in 1 .. Len(sessions'[j].queue), sessions'[j].queue[l] = q[i]
          PROVE  l = i
      <4>1. q[i] # asked /\ \A n \in 1 .. Len(q) : q[n] = q[i] => n = i
        <5>1. i \in 1 .. Len(sessions[k].queue)
          BY <2>3
        <5> QED
          BY <2>1, <5>1
      <4>2. l \in 1 .. Len(q)
        BY <1>2, <1>4, <1>5, <2>3, <3>2, <4>1
      <4> QED
        BY <1>4, <1>5, <2>3, <3>2, <4>1, <4>2
    <3> QED
      BY <2>1, <2>3, <3>1, <3>2
  <2>4. CASE j = k /\ i \notin 1 .. Len(q)
    <3>1. i = Len(q) + 1 /\ sessions'[j].queue[i] = asked
      BY <1>2, <1>4, <1>5, <2>4
    <3>2. \A n \in 1 .. Len(q) : q[n] # asked
      BY <2>1
    <3>3. ASSUME NEW l \in 1 .. Len(sessions'[j].queue), sessions'[j].queue[l] = asked
          PROVE  l = i
      <4>1. l \notin 1 .. Len(q)
        BY <1>4, <1>5, <2>4, <3>2, <3>3
      <4> QED
        BY <1>2, <1>4, <1>5, <2>4, <3>1, <4>1
    <3> QED
      BY <1>6, <2>4, <3>1, <3>3
  <2> QED
    BY <2>2, <2>3, <2>4
<1>10. Membership'
  <2>1. \A j \in Session : \A t \in sessions'[j].subs : t \in sessions[j].subs \/ (t = s /\ j = k)
    BY <1>3, <1>5 DEF OthersStay
  <2>2. /\ sessionOf[s] = NoSession /\ removing[s] = "none" /\ s \notin done
        /\ NoSession \notin Session /\ \A j \in Session : s \notin sessions[j].subs
    BY FreshSub
  <2>3. ASSUME NEW t \in Sub
        PROVE  /\ adding'[t] = "none" <=> sessionOf'[t] = NoSession
               /\ adding'[t] = "none" => removing'[t] = "none"
               /\ removing'[t] = "none" <=> t \notin done'
    BY <1>1, <1>6, <2>2 DEF SessionsInv, Membership
  <2>4. ASSUME NEW t \in Sub, NEW j \in Session, t \in sessions'[j].subs
        PROVE  sessionOf'[t] = j /\ removing'[t] \in {"none", "ending"}
    BY <1>1, <1>6, <2>1, <2>2, <2>4 DEF SessionsInv, Membership
  <2>5. ASSUME NEW t \in Sub, adding'[t] = "failed"
        PROVE  t \notin sessions'[subSessions].subs
    BY <1>6, <2>1, <2>5 DEF SessionsInv, Membership
  <2> QED
    BY <1>1, <1>5, <2>3, <2>4, <2>5 DEF Membership
<1>11. Phases'
  <2>1. Phase(k)'
    BY <1>1, <1>2, <1>3, <1>4, <1>5 DEF SessionsInv, Phases, Phase
  <2> QED
    BY <1>1, <1>5, <2>1, PhasesOfOne
<1>12. (GoesDown(k)' <=> GoesDown(k)) /\ (IsUp(k)' <=> IsUp(k)) /\ (GoesUp(k)' <=> GoesUp(k))
  BY <1>3, <1>5 DEF GoesDown, IsUp, GoesUp
<1>13. DownIsDue'
  <2>1. sessions[k].at # "idle" => Len(q) > 0
    BY DEF SessionsInv, Phases, Phase
  <2>2. WillLook(k)'
    BY <1>2, <1>3, <1>4, <1>5, <2>1 DEF WillLook
  <2>3. removing[s] = "none"
    BY FreshSub
  <2> QED
    BY <1>1, <1>5, <1>6, <2>2, <2>3, OthersDue DEF Due
<1>14. AddedIsUp'
  <2>1. GoesDown(k) => new.queue[1] = q[1] /\ q[1].sub # s
    <3>1. GoesDown(k) => Len(q) > 0
      BY DEF SessionsInv, Phases, Phase, GoesDown
    <3> QED
      BY <1>2, <1>4, <3>1, FreshSub
  <2>2. ASSUME NEW j \in Session, ~sessions'[j].stopped, NEW t \in sessions'[j].subs
        PROVE  /\ adding'[t] \in {"finishing", "subscribed"} => sessions'[j].up = "unsubscribe"
               /\ GoesDown(j)' /\ ~sessions'[j].error =>
                    sessions'[j].queue[1] # [of |-> "add", sub |-> t]
    <3>1. t \in Sub
      BY <1>7, <2>2, <1>5, StateParts DEF SubscriptionsTypeOK, SessionState
    <3>2. CASE t = s /\ j = k
      BY <1>5, <1>6, <1>12, <2>1, <3>2
    <3>3. CASE t = s /\ j # k
      BY <1>5, <2>2, <3>3, FreshSub DEF OthersStay
    <3>4. CASE t # s
      <4>1. t \in sessions[j].subs /\ ~sessions[j].stopped /\ Added(j)
        BY <1>3, <1>5, <2>2, <3>4 DEF OthersStay, SessionsInv, AddedIsUp
      <4>2. adding'[t] = adding[t]
        BY <1>6, <3>1, <3>4
      <4>3. CASE j = k
        BY <1>3, <1>5, <1>12, <2>1, <4>1, <4>2, <4>3 DEF Added
      <4>4. CASE j # k
        <5>1. sessions'[j] = sessions[j] /\ (GoesDown(j)' <=> GoesDown(j))
          BY <1>5, <4>4, OthersKeep DEF OthersStay
        <5> QED
          BY <4>1, <4>2, <5>1 DEF Added
      <4> QED
        BY <4>3, <4>4
    <3> QED
      BY <3>2, <3>3, <3>4
  <2> QED
    BY <1>5, <2>2 DEF AddedIsUp, Added
<1>15. ListenersAreUp'
  BY <1>1, <1>5, <1>12, OthersKeep DEF SessionsInv, ListenersAreUp
<1>16. OneIsUp'
  <2>1. ~outlived /\ sessions[k].stopped /\ IsUp(k) => GoesDown(k)
    BY DEF SessionsInv, OneIsUp
  <2> QED
    BY <1>1, <1>3, <1>5, <1>12, <2>1, NotUpByStep
<1> QED
  BY <1>7, <1>8, <1>9, <1>10, <1>11, <1>13, <1>14, <1>15, <1>16 DEF SessionsInv

\* subscribe creates a session: the earlier ones are stopped and forgotten.
LEMMA CreateKeeps ==
  ASSUME SessionsInv, NEW s \in Sub, adding[s] = "none", subSessions = NoSession,
         NEW k, k = Len(sessions) + 1, subSessions' = k,
         sessions' = [Append(sessions, NewSession) EXCEPT
                        ![k] = Enqueued(Holding(@, s), [of |-> "add", sub |-> s])],
         sessionOf' = [sessionOf EXCEPT ![s] = k],
         adding' = [adding EXCEPT ![s] = "waiting"],
         UNCHANGED <<facadeVars, joined, listeners, removing, done, outlived>>
  PROVE  SessionsInv'
<1> DEFINE asked  == [of |-> "add", sub |-> s]
           known == Append(sessions, NewSession)
           held  == Holding(NewSession, s)
           new   == Enqueued(held, asked)
<1>1. UNCHANGED <<startNode, destroyed, node, joined, listeners, removing, done, outlived>>
  BY DEF facadeVars
<1>2. NewSession \in SessionState /\ asked \in SubscriptionCall
  BY DEF NewSession, SessionState, SubscriptionCall
<1>3. /\ known \in Seq(SessionState) /\ Len(known) = k /\ known[k] = NewSession
      /\ \A j \in 1 .. Len(sessions) : known[j] = sessions[j]
      /\ sessions \in Seq(SessionState) /\ Len(sessions) \in Nat /\ Session = 1 .. Len(sessions)
  BY <1>2, AppendProperties, LenProperties DEF SessionsInv, SubscriptionsTypeOK, Session
<1>4. /\ held \in SessionState
      /\ held.subs = {s} /\ held.queue = <<>> /\ held.up = "no" /\ ~held.stopped /\ ~held.retiring
      /\ ~held.error /\ held.at = "idle"
  BY <1>2, HoldingState DEF NewSession
<1> HIDE DEF held
<1>5. /\ new \in SessionState
      /\ new.subs = {s} /\ new.queue = Append(<<>>, asked) /\ new.up = "no" /\ ~new.stopped /\ ~new.retiring
      /\ ~new.error /\ new.at = "idle"
  <2>1. /\ new \in SessionState
        /\ new.subs = held.subs /\ new.queue = Append(held.queue, asked) /\ new.up = held.up
        /\ new.stopped = held.stopped /\ new.retiring = held.retiring
        /\ new.error = held.error /\ new.at = held.at
    BY <1>2, <1>4, EnqueuedState
  <2> QED
    BY <1>4, <2>1
<1>6. Len(new.queue) = 1 /\ new.queue[1] = asked
  <2>1. <<>> \in Seq(SubscriptionCall) /\ Len(<<>>) = 0
    BY EmptySeq
  <2>2. Len(Append(<<>>, asked)) = 1 /\ Append(<<>>, asked)[1] = asked
    BY <1>2, <2>1, AppendProperties
  <2> HIDE DEF asked
  <2> QED
    BY <1>5, <2>2
<1>7. sessions' = [known EXCEPT ![k] = new]
  <2>1. k \in 1 .. Len(known)
    BY <1>3
  <2> QED
    BY <1>3, <2>1 DEF held
<1> HIDE DEF known, new
<1>8. /\ sessions' \in Seq(SessionState)
      /\ Len(sessions') = k
      /\ \A j \in 1 .. k : sessions'[j] = IF j = k THEN new ELSE known[j]
  <2>1. k \in 1 .. Len(known)
    BY <1>3
  <2>2. /\ [known EXCEPT ![k] = new] \in Seq(SessionState)
        /\ Len([known EXCEPT ![k] = new]) = Len(known)
        /\ \A j \in 1 .. Len(known) : [known EXCEPT ![k] = new][j] = IF j = k THEN new ELSE known[j]
    BY <1>3, <1>5, <2>1, ExceptSeq
  <2> QED
    BY <1>3, <1>7, <2>2
<1>9. /\ Session' = Session \cup {k} /\ k \notin Session /\ k \in Nat /\ Session \subseteq Nat
      /\ sessions'[k] = new
      /\ \A j \in Session : sessions'[j] = sessions[j]
  <2>1. Session' = 1 .. k
    BY <1>8 DEF Session
  <2>2. k = Len(sessions) + 1 /\ Len(sessions) \in Nat /\ Session = 1 .. Len(sessions)
    BY <1>3
  <2>3. Session' = Session \cup {k} /\ k \notin Session /\ k \in Nat /\ Session \subseteq Nat
    BY <2>1, <2>2
  <2>4. sessions'[k] = new /\ \A j \in Session : sessions'[j] = known[j]
    BY <1>8, <2>1, <2>3
  <2> QED
    BY <1>3, <2>2, <2>3, <2>4
<1>10. /\ adding' \in [Sub -> {"none", "waiting", "finishing", "failing", "subscribed", "failed"}]
       /\ sessionOf' \in [Sub -> Session' \cup {NoSession}]
       /\ adding'[s] = "waiting" /\ sessionOf'[s] = k
       /\ \A t \in Sub : t # s => adding'[t] = adding[t] /\ sessionOf'[t] = sessionOf[t]
  BY <1>9 DEF SessionsInv, SubscriptionsTypeOK
<1>11. /\ sessionOf[s] = NoSession /\ removing[s] = "none" /\ s \notin done
       /\ NoSession \notin Session /\ \A j \in Session : s \notin sessions[j].subs
  BY FreshSub
<1>12. SubscriptionsTypeOK'
  BY <1>1, <1>8, <1>9, <1>10 DEF SessionsInv, SubscriptionsTypeOK
<1>13. NewestOnly'
  BY <1>5, <1>8, <1>9, <1>11 DEF SessionsInv, NewestOnly
<1>14. CallsAreOpen'
  <2> SUFFICES ASSUME NEW j \in Session', NEW i \in 1 .. Len(sessions'[j].queue)
               PROVE  LET c == sessions'[j].queue[i]
                      IN  /\ sessionOf'[c.sub] = j
                          /\ c.of = "add" => adding'[c.sub] = "waiting"
                          /\ c.of = "remove" => removing'[c.sub] = "waiting"
                          /\ \A l \in 1 .. Len(sessions'[j].queue) : sessions'[j].queue[l] = c => l = i
    BY DEF CallsAreOpen
  <2>1. CASE j = k
    BY <1>6, <1>9, <1>10, <2>1
  <2>2. CASE j \in Session
    <3>1. sessions'[j] = sessions[j] /\ removing' = removing
      BY <1>1, <1>9, <2>2
    <3>2. i \in 1 .. Len(sessions[j].queue)
      BY <3>1
    <3>3. OthersOpen(s)
      <4>1. adding' = [adding EXCEPT ![s] = "waiting"] /\ \A t \in Sub : t # s => sessionOf'[t] = sessionOf[t]
        BY <1>10
      <4> QED
        BY <3>1, <4>1, CallsOfOthers
    <3> QED
      BY <2>2, <3>1, <3>2, <3>3 DEF OthersOpen
  <2> QED
    BY <1>9, <2>1, <2>2
<1>15. Membership'
  <2>3. ASSUME NEW t \in Sub
        PROVE  /\ adding'[t] = "none" <=> sessionOf'[t] = NoSession
               /\ adding'[t] = "none" => removing'[t] = "none"
               /\ removing'[t] = "none" <=> t \notin done'
    BY <1>1, <1>9, <1>10, <1>11, SubscriptionsAssumption DEF SessionsInv, Membership
  <2>4. ASSUME NEW t \in Sub, NEW j \in Session', t \in sessions'[j].subs
        PROVE  sessionOf'[t] = j /\ removing'[t] \in {"none", "ending"}
    BY <1>1, <1>5, <1>9, <1>10, <1>11, <2>4 DEF SessionsInv, Membership
  <2>5. ASSUME NEW t \in Sub, adding'[t] = "failed"
        PROVE  t \notin sessions'[k].subs
    BY <1>5, <1>9, <1>10, <2>5
  <2> QED
    BY <2>3, <2>4, <2>5 DEF Membership
<1>16. Phases'
  <2>1. Phase(k)'
    BY <1>5, <1>6, <1>9 DEF Phase
  <2>2. ASSUME NEW j \in Session
        PROVE  Phase(j)'
    BY <1>1, <1>9 DEF SessionsInv, Phases, Phase
  <2> QED
    BY <1>9, <2>1, <2>2 DEF Phases
<1>17. /\ ~IsUp(k)' /\ ~GoesUp(k)' /\ ~GoesDown(k)'
       /\ \A j \in Session : /\ IsUp(j)' <=> IsUp(j)
                             /\ GoesUp(j)' <=> GoesUp(j)
                             /\ GoesDown(j)' <=> GoesDown(j)
  BY <1>5, <1>9 DEF IsUp, GoesUp, GoesDown
<1>18. ListenersAreUp'
  <2>1. k \notin listeners
    BY <1>9 DEF SessionsInv, SubscriptionsTypeOK
  <2> QED
    BY <1>1, <1>9, <1>17, <2>1 DEF SessionsInv, ListenersAreUp
<1>19. OneIsUp'
  BY <1>1, <1>9, <1>17 DEF SessionsInv, OneIsUp
<1>20. DownIsDue'
  <2>1. Due(k)'
    BY <1>5, <1>9 DEF Due
  <2>2. ASSUME NEW j \in Session
        PROVE  Due(j)'
    <3>1. WillLook(j) => WillLook(j)'
      BY <1>1, <1>9, <1>10, <1>11, <1>17 DEF WillLook
    <3> QED
      BY <1>9, <3>1 DEF SessionsInv, DownIsDue, Due
  <2> QED
    BY <1>9, <2>1, <2>2 DEF DownIsDue
<1>21. AddedIsUp'
  <2>1. Added(k)'
    BY <1>5, <1>9, <1>10, <1>17 DEF Added
  <2>2. ASSUME NEW j \in Session
        PROVE  Added(j)'
    <3>1. /\ sessions'[j] = sessions[j] /\ Added(j) /\ (GoesDown(j)' <=> GoesDown(j))
          /\ \A t \in sessions[j].subs : adding'[t] = adding[t]
      BY <1>9, <1>10, <1>11, <1>17, StateParts DEF SessionsInv, SubscriptionsTypeOK, AddedIsUp
    <3> QED
      BY <3>1 DEF Added
  <2> QED
    BY <1>9, <2>1, <2>2 DEF AddedIsUp
<1> QED
  BY <1>12, <1>13, <1>14, <1>15, <1>16, <1>18, <1>19, <1>20, <1>21 DEF SessionsInv

LEMMA SubscribeKeeps ==
  ASSUME SessionsInv, NEW s \in Sub, Subscribe(s)
  PROVE  SessionsInv'
<1>1. CASE subSessions = NoSession
  BY <1>1, CreateKeeps DEF Subscribe
<1>2. CASE subSessions # NoSession
  <2>1. subSessions \in Session
    BY <1>2 DEF SessionsInv, SubscriptionsTypeOK
  <2> QED
    BY <1>2, <2>1, JoinKeeps DEF Subscribe
<1> QED
  BY <1>1, <1>2

-----------------------------------------------------------------------------
(* The node.                                                               *)

\* The sessions that await the node are told; no session was up.
LEMMA ToldKeeps ==
  ASSUME SessionsInv, startNode = "pending", startNode' \in {"fulfilled", "rejected"},
         node' \in {"none", "running", "stopped"},
         NEW how \in {"nodeReady", "nodeFailed"}, sessions' = Told(sessions, how),
         UNCHANGED <<destroyed, joined, listeners, subSessions, sessionOf, adding, removing, done, outlived>>
  PROVE  SessionsInv'
<1>1. /\ Session = 1 .. Len(sessions) /\ Len(sessions) \in Nat
      /\ sessions' = [k \in 1 .. Len(sessions) |->
                        IF sessions[k].at = "getNode" THEN [sessions[k] EXCEPT !.at = how] ELSE sessions[k]]
  BY LenProperties DEF SessionsInv, SubscriptionsTypeOK, Session, Told
<1>2. ASSUME NEW k \in Session
      PROVE  /\ sessions'[k] \in SessionState
             /\ sessions'[k].subs = sessions[k].subs /\ sessions'[k].queue = sessions[k].queue
             /\ sessions'[k].up = sessions[k].up /\ sessions'[k].error = sessions[k].error
             /\ sessions'[k].stopped = sessions[k].stopped /\ sessions'[k].retiring = sessions[k].retiring
             /\ sessions'[k].should = sessions[k].should
             /\ sessions'[k].at = IF sessions[k].at = "getNode" THEN how ELSE sessions[k].at
  <2>1. sessions[k] \in SessionState
    BY StateParts DEF SessionsInv, SubscriptionsTypeOK
  <2>2. CASE sessions[k].at = "getNode"
    <3> DEFINE new == [sessions[k] EXCEPT !.at = how]
    <3>1. sessions'[k] = new
      BY <1>1, <2>2
    <3>2. /\ new \in SessionState
          /\ new.subs = sessions[k].subs /\ new.queue = sessions[k].queue
          /\ new.up = sessions[k].up /\ new.error = sessions[k].error
          /\ new.stopped = sessions[k].stopped /\ new.retiring = sessions[k].retiring
          /\ new.should = sessions[k].should /\ new.at = how
      BY <2>1 DEF SessionState
    <3> HIDE DEF new
    <3> QED
      BY <2>2, <3>1, <3>2
  <2>3. CASE sessions[k].at # "getNode"
    <3>1. sessions'[k] = sessions[k]
      BY <1>1, <2>3
    <3> QED
      BY <2>1, <2>3, <3>1
  <2> QED
    BY <2>2, <2>3
<1>3. /\ sessions' \in Seq(SessionState) /\ Len(sessions') = Len(sessions) /\ Session' = Session
  <2>1. sessions' \in [1 .. Len(sessions) -> SessionState]
    BY <1>1, <1>2
  <2>2. sessions' \in Seq(SessionState) /\ Len(sessions') = Len(sessions)
    BY <1>1, <2>1, SeqDef
  <2> QED
    BY <1>1, <2>2 DEF Session
<1>4. CallsStay /\ StopsStay
  BY <1>2, <1>3 DEF CallsStay, StopsStay
<1>5. ASSUME NEW k \in Session
      PROVE  /\ sessions[k].at \notin {"nodeReady", "nodeFailed"} /\ sessions[k].up # "unsubscribe"
             /\ sessions[k].at = "getNode" => sessions[k].up = "no"
             /\ sessions[k].at # "idle" => Len(sessions[k].queue) > 0
             /\ sessions[k].at = "idle" => ~sessions[k].error
             /\ sessions[k].at # "unsubscribed"
  BY DEF SessionsInv, Phases, Phase
<1>6. SubscriptionsTypeOK'
  BY <1>3 DEF SessionsInv, SubscriptionsTypeOK
<1>7. NewestOnly' /\ CallsAreOpen' /\ Membership'
  BY <1>4, CallsStayInv, StopsStayInv
<1>8. Phases'
  <2>1. ASSUME NEW k \in Session
        PROVE  Phase(k)'
    BY <1>2, <1>5 DEF Phase
  <2> QED
    BY <1>3, <2>1 DEF Phases
<1>9. \A k \in Session : ~IsUp(k) /\ ~IsUp(k)' /\ sessions'[k].up # "unsubscribe"
  BY <1>2, <1>5 DEF IsUp
<1>10. ListenersAreUp' /\ OneIsUp' /\ DownIsDue'
  <2>1. ListenersAreUp'
    BY <1>3, <1>9 DEF SessionsInv, ListenersAreUp
  <2>2. OneIsUp'
    BY <1>3, <1>9 DEF OneIsUp
  <2>3. DownIsDue'
    BY <1>3, <1>9 DEF DownIsDue, Due
  <2> QED
    BY <2>1, <2>2, <2>3
<1>11. AddedIsUp'
  <2>1. ASSUME NEW k \in Session
        PROVE  Added(k)'
    <3>1. Added(k) /\ sessions[k].up # "unsubscribe" /\ (GoesDown(k)' <=> GoesDown(k))
      BY <1>2, <1>5 DEF SessionsInv, AddedIsUp, GoesDown
    <3> QED
      BY <1>2, <3>1 DEF Added
  <2> QED
    BY <1>3, <2>1 DEF AddedIsUp
<1> QED
  BY <1>6, <1>7, <1>8, <1>10, <1>11 DEF SessionsInv

LEMMA NodeCreatedKeeps ==
  ASSUME SessionsInv, NodeCreated
  PROVE  SessionsInv'
<1>1. node \in {"none", "running", "stopped"}
  BY DEF SessionsInv, SubscriptionsTypeOK
<1>2. CASE destroyed
  BY <1>1, <1>2, ToldKeeps DEF NodeCreated
<1>3. CASE ~destroyed
  BY <1>3, ToldKeeps DEF NodeCreated
<1> QED
  BY <1>2, <1>3

LEMMA NodeFailsKeeps ==
  ASSUME SessionsInv, NodeFails
  PROVE  SessionsInv'
<1>1. node \in {"none", "running", "stopped"}
  BY DEF SessionsInv, SubscriptionsTypeOK
<1> QED
  BY <1>1, ToldKeeps DEF NodeFails

LEMMA DestroyKeeps ==
  ASSUME SessionsInv, Destroy
  PROVE  SessionsInv'
<1>1. /\ destroyed' = TRUE /\ node' \in {"none", "running", "stopped"}
      /\ startNode' \in {"init", "pending"} /\ (startNode' = "pending" => startNode = "pending")
      /\ UNCHANGED <<joined, listeners, subSessions, sessions, sessionOf, adding, removing, done, outlived>>
  BY DEF Destroy, SessionsInv, SubscriptionsTypeOK
<1>2. Session' = Session
  BY <1>1 DEF Session
<1>3. startNode = "pending" => startNode' = "pending"
  BY DEF Destroy
<1>4. SubscriptionsTypeOK' /\ NewestOnly' /\ CallsAreOpen' /\ Membership'
  BY <1>1, <1>2 DEF SessionsInv, SubscriptionsTypeOK, NewestOnly, CallsAreOpen, Membership
<1>5. Phases'
  BY <1>1, <1>2, <1>3 DEF SessionsInv, Phases, Phase
<1>6. ListenersAreUp' /\ OneIsUp'
  BY <1>1, <1>2 DEF SessionsInv, ListenersAreUp, OneIsUp, IsUp, GoesUp, GoesDown
<1>7. DownIsDue' /\ AddedIsUp'
  BY <1>1, <1>2 DEF SessionsInv, DownIsDue, Due, WillLook, GoesDown, AddedIsUp, Added
<1> QED
  BY <1>4, <1>5, <1>6, <1>7 DEF SessionsInv

-----------------------------------------------------------------------------
(* The theorems.                                                           *)

LEMMA SessionsStart == SubscriptionsInit => SessionsInv
<1> SUFFICES ASSUME SubscriptionsInit
             PROVE  SessionsInv
  OBVIOUS
<1> USE DEF SubscriptionsInit
<1>1. Session = {} /\ sessions \in Seq(SessionState) /\ Len(sessions) = 0
  BY EmptySeq DEF Session
<1>2. SubscriptionsTypeOK
  BY <1>1 DEF SubscriptionsTypeOK
<1>3. NewestOnly /\ CallsAreOpen /\ Membership /\ Phases
  BY <1>1 DEF NewestOnly, CallsAreOpen, Membership, Phases
<1>4. ListenersAreUp /\ OneIsUp /\ DownIsDue /\ AddedIsUp
  BY <1>1 DEF ListenersAreUp, OneIsUp, DownIsDue, AddedIsUp
<1> QED
  BY <1>2, <1>3, <1>4 DEF SessionsInv

LEMMA ScaffoldStepKeeps ==
  ASSUME SessionsInv, NEW k \in Session, ScaffoldStep(k)
  PROVE  SessionsInv'
BY StartKeeps, UpKeeps, StartedKeeps, FailedKeeps, DownKeeps, StopKeeps, NoopKeeps, DoneKeeps, RetireKeeps
   DEF ScaffoldStep

LEMMA SessionsStep == SessionsInv /\ [SubscriptionsNext]_subscriptionVars => SessionsInv'
<1> SUFFICES ASSUME SessionsInv, [SubscriptionsNext]_subscriptionVars
             PROVE  SessionsInv'
  OBVIOUS
<1>1. ASSUME NEW k \in Session, ScaffoldStep(k)
      PROVE  SessionsInv'
  BY <1>1, ScaffoldStepKeeps
<1>2. ASSUME NEW s \in Sub, CallStep(s)
      PROVE  SessionsInv'
  BY <1>2, AddDoneKeeps, AddFailsKeeps, EndedKeeps, ClosedKeeps, RemoveDoneKeeps DEF CallStep
<1>3. ASSUME NEW s \in Sub, Subscribe(s) \/ Unsubscribe(s) \/ EndSubscription(s)
      PROVE  SessionsInv'
  BY <1>3, SubscribeKeeps, UnsubscribeKeeps, EndKeeps
<1>4. CASE NodeCreated \/ NodeFails \/ Destroy
  BY <1>4, NodeCreatedKeeps, NodeFailsKeeps, DestroyKeeps
<1>5. CASE UNCHANGED subscriptionVars
  <2>1. UNCHANGED <<startNode, destroyed, node, joined, listeners, subSessions, sessions, sessionOf,
                    adding, removing, done, outlived>>
    BY <1>5 DEF subscriptionVars, facadeVars
  <2>2. Session' = Session
    BY <2>1 DEF Session
  <2>3. Membership'
    BY <2>1, <2>2 DEF SessionsInv, Membership
  <2> QED
    BY <2>1, <2>3, QuietKeeps DEF SessionsInv, SubscriptionsTypeOK
<1> QED
  BY <1>1, <1>2, <1>3, <1>4, <1>5 DEF SubscriptionsNext

\* The inductive invariant, for any number of subscriptions and sessions.
THEOREM SessionsAreConsistent == SubscriptionsSpec => []SessionsInv
<1> QED
  BY SessionsStart, SessionsStep, PTL DEF SubscriptionsSpec

\* A session that is up when nothing is under way has subscriptions, and is the
\* session of the stream part.
LEMMA UpAtRest ==
  ASSUME SessionsInv, AtRest, NEW k \in Session, IsUp(k)
  PROVE  k = subSessions /\ sessions[k].subs # {}
<1>1. sessions[k].up = "unsubscribe" /\ sessions[k].at = "idle" /\ sessions[k].queue = <<>>
  BY DEF IsUp, AtRest
<1>2. ~WillLook(k)
  <2>1. Len(sessions[k].queue) = 0
    BY <1>1, EmptySeq
  <2> QED
    BY <1>1, <2>1 DEF AtRest, WillLook, GoesDown
<1>3. ~sessions[k].stopped /\ sessions[k].subs # {}
  BY <1>1, <1>2 DEF SessionsInv, DownIsDue, Due, ShouldBeSubscribed
<1> QED
  BY <1>3, Newest

LEMMA SettledRight == SessionsInv => SubscriptionsInv
<1> SUFFICES ASSUME SessionsInv
             PROVE  SubscriptionsInv
  OBVIOUS
<1>1. NoSession \notin Session
  BY SubscriptionsAssumption, StateParts DEF SessionsInv, SubscriptionsTypeOK
<1>2. UpIsJoined
  BY DEF SessionsInv, ListenersAreUp, IsUp, UpIsJoined
<1>3. NothingLeftOver
  <2> SUFFICES ASSUME AtRest
               PROVE  (joined => Listed # {}) /\ listeners \subseteq {subSessions}
    BY DEF NothingLeftOver
  <2>1. \A k \in Session : IsUp(k) => k = subSessions /\ sessions[k].subs # {}
    BY UpAtRest
  <2>2. joined => Listed # {}
    BY <1>1, <2>1 DEF SessionsInv, ListenersAreUp, Listed
  <2>3. listeners \subseteq {subSessions}
    BY <2>1 DEF SessionsInv, ListenersAreUp, SubscriptionsTypeOK
  <2> QED
    BY <2>2, <2>3
<1>4. ListedAreHeard
  <2> SUFFICES ASSUME AtRest, ~outlived, NEW s \in Listed
               PROVE  Heard(s)
    BY DEF ListedAreHeard
  <2> DEFINE k == subSessions
  <2>1. k \in Session /\ s \in sessions[k].subs
    BY DEF Listed, SessionsInv, SubscriptionsTypeOK
  <2>2. s \in Sub /\ sessionOf[s] = k
    BY <2>1, StateParts DEF SessionsInv, SubscriptionsTypeOK, Membership
  <2>3. adding[s] = "subscribed"
    BY <1>1, <2>1, <2>2 DEF SessionsInv, Membership, AtRest
  <2>4. ~sessions[k].stopped
    BY <2>1 DEF SessionsInv, NewestOnly, AtRest
  <2>5. IsUp(k)
    BY <2>1, <2>3, <2>4 DEF SessionsInv, AddedIsUp, Added, IsUp, AtRest
  <2>6. k \in listeners /\ joined
    BY <2>1, <2>5 DEF SessionsInv, ListenersAreUp
  <2> QED
    BY <2>2, <2>4, <2>6 DEF Heard
<1> QED
  BY <1>2, <1>3, <1>4 DEF SubscriptionsInv, SessionsInv

\* Whatever is subscribed, unsubscribed and ended in parallel, what is listed once
\* all calls have ended is heard, a session that is up has the stream part in the
\* node, and no subscription of the node is left over: SubscriptionsInv, for any
\* number of subscriptions and sessions.
THEOREM SubscriptionsSettle == SubscriptionsSpec => []SubscriptionsInv
<1> QED
  BY SessionsAreConsistent, SettledRight, PTL

-----------------------------------------------------------------------------
(* Sequences of messages, seen as sets.                                    *)

\* Messages of the same chain are in the order of their numbers.
Ascending(s) ==
  \A i, j \in 1 .. Len(s) : (i < j /\ s[i][1] = s[j][1]) => s[i][2] < s[j][2]

\* In each chain the messages of S come before those of T.
Below(S, T) == \A m \in S, n \in T : m[1] = n[1] => m[2] < n[2]

\* The elements of a sequence are those at its indices.
LEMMA SetOfSeq ==
  ASSUME NEW s \in Seq(Numbered)
  PROVE  /\ ToSet(s) = {s[i] : i \in 1 .. Len(s)} /\ ToSet(s) \subseteq Numbered
         /\ ToSet(<<>>) = {} /\ Ascending(<<>>)
<1>1. DOMAIN s = 1 .. Len(s) /\ \A i \in 1 .. Len(s) : s[i] \in Numbered
  BY LenProperties, ElementOfSeq
<1>2. DOMAIN <<>> = {} /\ Len(<<>>) = 0
  BY EmptySeq
<1> QED BY <1>1, <1>2 DEF ToSet, Ascending

\* A message that comes after all of them may be put at the end.
LEMMA AppendAscends ==
  ASSUME NEW s \in Seq(Numbered), NEW m \in Numbered
  PROVE  /\ Append(s, m) \in Seq(Numbered) /\ ToSet(Append(s, m)) = ToSet(s) \cup {m}
         /\ Len(Append(s, m)) = Len(s) + 1
         /\ Ascending(s) /\ Below(ToSet(s), {m}) => Ascending(Append(s, m))
<1> DEFINE t == Append(s, m)
<1>1. /\ t \in Seq(Numbered) /\ Len(t) = Len(s) + 1 /\ Len(s) \in Nat
      /\ \A i \in 1 .. Len(s) : t[i] = s[i]
      /\ t[Len(s) + 1] = m
  BY AppendProperties, LenProperties
<1>2. /\ ToSet(t) = {t[i] : i \in 1 .. Len(s) + 1}
      /\ ToSet(s) = {s[i] : i \in 1 .. Len(s)}
  BY <1>1, SetOfSeq
<1> HIDE DEF t
<1>3. 1 .. Len(s) + 1 = (1 .. Len(s)) \cup {Len(s) + 1}
  BY <1>1
<1>4. ToSet(t) = ToSet(s) \cup {m}
  <2>1. ASSUME NEW x \in ToSet(t)
        PROVE  x \in ToSet(s) \cup {m}
    BY <1>1, <1>2, <1>3, <2>1
  <2>2. ASSUME NEW x \in ToSet(s)
        PROVE  x \in ToSet(t)
    <3>1. PICK i \in 1 .. Len(s) : x = s[i]
      BY <1>2, <2>2
    <3>2. x = t[i] /\ i \in 1 .. Len(s) + 1
      BY <1>1, <3>1
    <3> QED BY <1>2, <3>2
  <2>3. m \in ToSet(t)
    <3>1. Len(s) + 1 \in 1 .. Len(s) + 1
      BY <1>1
    <3> QED BY <1>1, <1>2, <3>1
  <2> QED BY <2>1, <2>2, <2>3
<1>5. ASSUME Ascending(s), Below(ToSet(s), {m})
      PROVE  Ascending(t)
  <2> SUFFICES ASSUME NEW i \in 1 .. Len(s) + 1, NEW j \in 1 .. Len(s) + 1,
                      i < j, t[i][1] = t[j][1]
               PROVE  t[i][2] < t[j][2]
    BY <1>1 DEF Ascending
  <2>1. i \in 1 .. Len(s) /\ t[i] = s[i]
    BY <1>1
  <2>2. CASE j \in 1 .. Len(s)
    BY <1>1, <1>5, <2>1, <2>2 DEF Ascending
  <2>3. CASE j = Len(s) + 1
    <3>1. t[j] = m /\ s[i] \in ToSet(s)
      BY <1>1, <1>2, <2>1, <2>3
    <3> QED BY <1>5, <2>1, <3>1 DEF Below
  <2> QED BY <1>1, <2>2, <2>3
<1> QED BY <1>1, <1>4, <1>5 DEF t

\* The head is out of the way of the tail.
LEMMA TailAscends ==
  ASSUME NEW s \in Seq(Numbered), s # <<>>
  PROVE  /\ Head(s) \in Numbered /\ Head(s) \in ToSet(s)
         /\ Tail(s) \in Seq(Numbered) /\ ToSet(s) = {Head(s)} \cup ToSet(Tail(s))
         /\ Len(s) \in Nat /\ Len(Tail(s)) = Len(s) - 1
         /\ Ascending(s) => Ascending(Tail(s)) /\ Below({Head(s)}, ToSet(Tail(s)))
<1> DEFINE t == Tail(s)
<1>1. /\ Head(s) \in Numbered /\ t \in Seq(Numbered)
      /\ Len(s) \in Nat \ {0} /\ Len(t) = Len(s) - 1
      /\ \A i \in 1 .. Len(t) : t[i] = s[i + 1]
  BY HeadTailProperties, EmptySeq
<1>2. Head(s) = s[1]
  OBVIOUS
<1>3. /\ ToSet(t) = {t[i] : i \in 1 .. Len(s) - 1}
      /\ ToSet(s) = {s[i] : i \in 1 .. Len(s)}
  BY <1>1, SetOfSeq
<1> HIDE DEF t
<1>4. ToSet(s) = {s[1]} \cup ToSet(t)
  <2>1. ASSUME NEW x \in ToSet(s), x # s[1]
        PROVE  x \in ToSet(t)
    <3>1. PICK i \in 1 .. Len(s) : x = s[i]
      BY <1>3, <2>1
    <3>2. i - 1 \in 1 .. Len(s) - 1 /\ (i - 1) + 1 = i
      BY <1>1, <2>1, <3>1
    <3>3. x = t[i - 1]
      BY <1>1, <3>1, <3>2
    <3> QED BY <1>3, <3>2, <3>3
  <2>2. ASSUME NEW x \in ToSet(t)
        PROVE  x \in ToSet(s)
    <3>1. PICK i \in 1 .. Len(s) - 1 : x = t[i]
      BY <1>3, <2>2
    <3>2. i + 1 \in 1 .. Len(s) /\ x = s[i + 1]
      BY <1>1, <3>1
    <3> QED BY <1>3, <3>2
  <2>3. s[1] \in ToSet(s)
    <3>1. 1 \in 1 .. Len(s)
      BY <1>1
    <3> QED BY <1>3, <3>1
  <2> QED BY <2>1, <2>2, <2>3
<1>5. ASSUME Ascending(s)
      PROVE  Ascending(t) /\ Below({s[1]}, ToSet(t))
  <2>1. ASSUME NEW i \in 1 .. Len(t), NEW j \in 1 .. Len(t), i < j, t[i][1] = t[j][1]
        PROVE  t[i][2] < t[j][2]
    <3>1. i + 1 \in 1 .. Len(s) /\ j + 1 \in 1 .. Len(s) /\ i + 1 < j + 1
      BY <1>1, <2>1
    <3>2. t[i] = s[i + 1] /\ t[j] = s[j + 1]
      BY <1>1
    <3> QED BY <1>5, <2>1, <3>1, <3>2 DEF Ascending
  <2>2. ASSUME NEW n \in ToSet(t), s[1][1] = n[1]
        PROVE  s[1][2] < n[2]
    <3>1. PICK i \in 1 .. Len(s) - 1 : n = t[i]
      BY <1>3, <2>2
    <3>2. 1 \in 1 .. Len(s) /\ i + 1 \in 1 .. Len(s) /\ 1 < i + 1 /\ n = s[i + 1]
      BY <1>1, <3>1
    <3> QED BY <1>5, <2>2, <3>2 DEF Ascending
  <2> QED BY <2>1, <2>2 DEF Ascending, Below
<1> QED BY <1>1, <1>2, <1>4, <1>5 DEF t

\* One sequence after the other.
LEMMA ConcatAscends ==
  ASSUME NEW s \in Seq(Numbered), NEW t \in Seq(Numbered)
  PROVE  /\ s \o t \in Seq(Numbered) /\ ToSet(s \o t) = ToSet(s) \cup ToSet(t)
         /\ Ascending(s) /\ Ascending(t) /\ Below(ToSet(s), ToSet(t)) => Ascending(s \o t)
<1> DEFINE u == s \o t
<1>1. /\ u \in Seq(Numbered) /\ Len(u) = Len(s) + Len(t) /\ Len(s) \in Nat /\ Len(t) \in Nat
      /\ \A i \in 1 .. Len(s) + Len(t) : u[i] = IF i <= Len(s) THEN s[i] ELSE t[i - Len(s)]
  BY ConcatProperties, LenProperties
<1>2. /\ ToSet(u) = {u[i] : i \in 1 .. Len(s) + Len(t)}
      /\ ToSet(s) = {s[i] : i \in 1 .. Len(s)}
      /\ ToSet(t) = {t[i] : i \in 1 .. Len(t)}
  BY <1>1, SetOfSeq
<1> HIDE DEF u
<1>3. \A i \in 1 .. Len(s) : i \in 1 .. Len(s) + Len(t) /\ u[i] = s[i]
  BY <1>1
<1>4. ASSUME NEW i \in 1 .. Len(s) + Len(t), i > Len(s)
      PROVE  i - Len(s) \in 1 .. Len(t) /\ u[i] = t[i - Len(s)]
  BY <1>1, <1>4
<1>5. ASSUME NEW i \in 1 .. Len(t)
      PROVE  i + Len(s) \in 1 .. Len(s) + Len(t) /\ u[i + Len(s)] = t[i]
  <2>1. i + Len(s) \in 1 .. Len(s) + Len(t) /\ ~(i + Len(s) <= Len(s)) /\ (i + Len(s)) - Len(s) = i
    BY <1>1
  <2> QED BY <1>1, <2>1
<1>6. ToSet(u) = ToSet(s) \cup ToSet(t)
  <2>1. ASSUME NEW x \in ToSet(u)
        PROVE  x \in ToSet(s) \cup ToSet(t)
    <3>1. PICK i \in 1 .. Len(s) + Len(t) : x = u[i]
      BY <1>2, <2>1
    <3>2. CASE i \in 1 .. Len(s)
      BY <1>2, <1>3, <3>1, <3>2
    <3>3. CASE i > Len(s)
      BY <1>2, <1>4, <3>1, <3>3
    <3> QED BY <1>1, <3>2, <3>3
  <2>2. ASSUME NEW x \in ToSet(s)
        PROVE  x \in ToSet(u)
    BY <1>2, <1>3, <2>2
  <2>3. ASSUME NEW x \in ToSet(t)
        PROVE  x \in ToSet(u)
    BY <1>2, <1>5, <2>3
  <2> QED BY <2>1, <2>2, <2>3
<1>7. ASSUME Ascending(s), Ascending(t), Below(ToSet(s), ToSet(t))
      PROVE  Ascending(u)
  <2> SUFFICES ASSUME NEW i \in 1 .. Len(s) + Len(t), NEW j \in 1 .. Len(s) + Len(t),
                      i < j, u[i][1] = u[j][1]
               PROVE  u[i][2] < u[j][2]
    BY <1>1 DEF Ascending
  <2>1. CASE j \in 1 .. Len(s)
    <3>1. i \in 1 .. Len(s) /\ u[i] = s[i] /\ u[j] = s[j]
      BY <1>1, <1>3, <2>1
    <3> QED BY <1>7, <2>1, <3>1 DEF Ascending
  <2>2. CASE i \in 1 .. Len(s) /\ j > Len(s)
    <3>1. u[i] \in ToSet(s) /\ u[j] \in ToSet(t)
      BY <1>2, <1>3, <1>4, <2>2
    <3> QED BY <1>7, <3>1 DEF Below
  <2>3. CASE i > Len(s)
    <3>1. j > Len(s) /\ i - Len(s) < j - Len(s)
      BY <1>1, <2>3
    <3>2. /\ i - Len(s) \in 1 .. Len(t) /\ u[i] = t[i - Len(s)]
          /\ j - Len(s) \in 1 .. Len(t) /\ u[j] = t[j - Len(s)]
      BY <1>4, <2>3, <3>1
    <3> QED BY <1>7, <3>1, <3>2 DEF Ascending
  <2> QED BY <1>1, <2>1, <2>2, <2>3
<1> QED BY <1>1, <1>6, <1>7 DEF u

-----------------------------------------------------------------------------
(* What a chain emits.                                                     *)

\* The chain has emitted the next of the messages that wait, and the first
\* message it gets leaves nothing behind.
ChainOK(chain) ==
  /\ chain \in ChainState /\ IsFiniteSet(chain.waiting)
  /\ \A i \in chain.waiting : i > chain.last + 1
  /\ chain.waiting # {} => chain.last > 0

\* In a set of numbers that is not empty is a least one.
LEMMA Least ==
  ASSUME NEW ns \in SUBSET Nat, ns # {}
  PROVE  \E i \in ns : \A j \in ns : i <= j
<1>1. PICK i \in ns : \A j \in ns : ~(<<j, i>> \in OpToRel(<, Nat))
  BY NatLessThanWellFounded, WFMin
<1>2. ASSUME NEW j \in ns
      PROVE  i <= j
  <2>1. i \in Nat /\ j \in Nat
    OBVIOUS
  <2>2. ~(j < i)
    BY <1>1, <2>1 DEF OpToRel
  <2> QED BY <2>1, <2>2
<1> QED BY <1>2

\* The row of numbers after n ends.
LEMMA RowEnds ==
  ASSUME NEW n \in Nat, NEW ns \in SUBSET Nat, IsFiniteSet(ns)
  PROVE  LET k == LastInRow(n, ns)
         IN  k \in Nat /\ n <= k /\ n + 1 .. k \subseteq ns /\ k + 1 \notin ns
<1> DEFINE card == Cardinality(ns)
           ends == {k \in n .. n + card : k + 1 \notin ns}
<1>1. card \in Nat
  BY FS_CardinalityType
<1>2. ends # {}
  <2> SUFFICES ASSUME \A k \in n .. n + card : k + 1 \in ns
               PROVE  FALSE
    OBVIOUS
  <2>1. n + 1 .. n + card + 1 \subseteq ns
    <3> SUFFICES ASSUME NEW i \in n + 1 .. n + card + 1
                 PROVE  i \in ns
      OBVIOUS
    <3>1. i - 1 \in n .. n + card /\ (i - 1) + 1 = i
      BY <1>1
    <3> QED BY <3>1
  <2>2. Cardinality(n + 1 .. n + card + 1) = card + 1
    <3>1. n + 1 \in Int /\ n + card + 1 \in Int /\ ~(n + 1 > n + card + 1)
          /\ (n + card + 1) - (n + 1) + 1 = card + 1
      BY <1>1
    <3> QED BY <3>1, FS_Interval
  <2>3. Cardinality(n + 1 .. n + card + 1) <= card
    BY <2>1, FS_Subset
  <2> QED BY <1>1, <2>2, <2>3
<1>3. ends \subseteq Nat
  BY <1>1
<1>4. PICK k \in ends : \A j \in ends : k <= j
  BY <1>2, <1>3, Least
<1>5. k \in n .. n + card /\ k + 1 \notin ns
  BY <1>4
<1>6. n + 1 .. k \subseteq ns
  <2> SUFFICES ASSUME NEW i \in n + 1 .. k, i \notin ns
               PROVE  FALSE
    OBVIOUS
  <2>1. i - 1 \in n .. n + card /\ (i - 1) + 1 = i /\ ~(k <= i - 1)
    BY <1>1, <1>5
  <2> QED BY <1>4, <2>1
<1>7. LET l == LastInRow(n, ns)
      IN  l \in n .. n + card /\ n + 1 .. l \subseteq ns /\ l + 1 \notin ns
  BY <1>5, <1>6, Zenon DEF LastInRow
<1> QED BY <1>1, <1>7

\* What is emitted from n on is all up to the new last one.
LEMMA RowIsEmitted ==
  ASSUME NEW c \in Chain, NEW n \in Nat, NEW ns \in SUBSET Nat, IsFiniteSet(ns),
         \A i \in ns : i > n
  PROVE  LET q == CheckQueue(c, n, ns)
         IN  /\ q.chain \in ChainState /\ IsFiniteSet(q.chain.waiting)
             /\ \A i \in q.chain.waiting : i > q.chain.last + 1
             /\ n <= q.chain.last /\ (n + 1 \in ns => n < q.chain.last)
             /\ q.emits \in Seq(Numbered) /\ Ascending(q.emits)
             /\ ToSet(q.emits) = {c} \X (n + 1 .. q.chain.last)
<1> DEFINE k  == LastInRow(n, ns)
           ws == {i \in ns : i > k}
           es == [i \in 1 .. k - n |-> <<c, n + i>>]
<1>1. k \in Nat /\ n <= k /\ n + 1 .. k \subseteq ns /\ k + 1 \notin ns
  BY RowEnds
<1>2. CheckQueue(c, n, ns) = [chain |-> [last |-> k, waiting |-> ws], emits |-> es]
  BY DEF CheckQueue
<1> HIDE DEF k
<1>3. ws \in SUBSET Nat /\ IsFiniteSet(ws) /\ \A i \in ws : i > k + 1
  <2>1. ws \in SUBSET ns
    OBVIOUS
  <2>2. IsFiniteSet(ws)
    BY <2>1, FS_Subset
  <2>3. ASSUME NEW i \in ns, i > k
        PROVE  i > k + 1
    <3>1. i # k + 1 /\ i \in Nat
      BY <1>1
    <3> QED BY <1>1, <2>3, <3>1
  <2> QED BY <2>2, <2>3
<1>4. [last |-> k, waiting |-> ws] \in ChainState
  BY <1>1, <1>3 DEF ChainState
<1>5. n + 1 \in ns => n < k
  BY <1>1
<1>6. es \in Seq(Numbered)
  <2>1. k - n \in Nat /\ \A i \in 1 .. k - n : <<c, n + i>> \in Numbered
    BY <1>1 DEF Numbered
  <2> QED BY <2>1
<1>7. Len(es) = k - n /\ \A i \in 1 .. k - n : es[i] = <<c, n + i>>
  BY <1>1
<1>8. ToSet(es) = {es[i] : i \in 1 .. k - n}
  BY <1>6, <1>7, SetOfSeq
<1> HIDE DEF es, ws
<1>9. Ascending(es)
  BY <1>1, <1>7 DEF Ascending
<1>10. ToSet(es) = {c} \X (n + 1 .. k)
  <2>1. ASSUME NEW x \in ToSet(es)
        PROVE  x \in {c} \X (n + 1 .. k)
    <3>1. PICK i \in 1 .. k - n : x = <<c, n + i>>
      BY <1>7, <1>8, <2>1
    <3> QED BY <1>1, <3>1
  <2>2. ASSUME NEW x \in {c} \X (n + 1 .. k)
        PROVE  x \in ToSet(es)
    <3>1. PICK j \in n + 1 .. k : x = <<c, j>>
      BY <2>2
    <3>2. j - n \in 1 .. k - n /\ n + (j - n) = j
      BY <1>1
    <3>3. es[j - n] = x
      BY <1>7, <3>1, <3>2
    <3> QED BY <1>8, <3>2, <3>3
  <2> QED BY <2>1, <2>2
<1> DEFINE q == CheckQueue(c, n, ns)
<1>11. q.chain = [last |-> k, waiting |-> ws] /\ q.emits = es
  BY <1>2
<1>12. q.chain.last = k /\ q.chain.waiting = ws
  BY <1>11
<1> HIDE DEF q
<1>13. /\ q.chain \in ChainState /\ IsFiniteSet(q.chain.waiting)
       /\ \A i \in q.chain.waiting : i > q.chain.last + 1
       /\ n <= q.chain.last /\ (n + 1 \in ns => n < q.chain.last)
  BY <1>1, <1>3, <1>4, <1>5, <1>11, <1>12
<1>14. /\ q.emits \in Seq(Numbered) /\ Ascending(q.emits)
       /\ ToSet(q.emits) = {c} \X (n + 1 .. q.chain.last)
  BY <1>6, <1>9, <1>10, <1>11, <1>12
<1> QED BY <1>13, <1>14 DEF q

\* The chain of c goes on from old to new: it emits all messages from some number
\* on; those it leaves out before are in the gap, unless it emits its first ones.
Goes(c, old, new, emits, gap) ==
  /\ ChainOK(new) /\ old.last <= new.last
  /\ emits \in Seq(Numbered) /\ Ascending(emits)
  /\ \E n \in Nat : /\ old.last <= n /\ n <= new.last
                    /\ ToSet(emits) = {c} \X (n + 1 .. new.last)
                    /\ old.last # 0 => {c} \X (old.last + 1 .. n) \subseteq gap

\* A message is added to the chain.
LEMMA AddGoes ==
  ASSUME NEW m \in Numbered, NEW chain, ChainOK(chain)
  PROVE  Goes(m[1], chain, AddToChain(chain, m).chain, AddToChain(chain, m).emits, {})
<1> DEFINE add == AddToChain(chain, m)
<1>1. /\ m[1] \in Chain /\ m[2] \in Nat /\ m[2] > 0
      /\ chain.last \in Nat /\ chain.waiting \in SUBSET Nat /\ IsFiniteSet(chain.waiting)
      /\ \A i \in chain.waiting : i > chain.last + 1
      /\ chain.waiting # {} => chain.last > 0
  BY DEF Numbered, ChainOK, ChainState
<1>2. CASE m[2] <= chain.last
  <2>1. add.chain = chain /\ add.emits = <<>>
    BY <1>2 DEF AddToChain
  <2>2. <<>> \in Seq(Numbered) /\ Ascending(<<>>) /\ ToSet(<<>>) = {}
    BY SetOfSeq, EmptySeq
  <2>3. {m[1]} \X (chain.last + 1 .. chain.last) = {}
    BY <1>1
  <2> QED BY <1>1, <2>1, <2>2, <2>3 DEF Goes
<1>3. CASE ~(m[2] <= chain.last) /\ chain.last = 0
  <2> DEFINE q == CheckQueue(m[1], m[2] - 1, {m[2]})
  <2>1. add = q
    BY <1>3 DEF AddToChain
  <2>2. /\ m[2] - 1 \in Nat /\ {m[2]} \in SUBSET Nat /\ IsFiniteSet({m[2]})
        /\ \A i \in {m[2]} : i > m[2] - 1
        /\ (m[2] - 1) + 1 \in {m[2]}
    <3>1. IsFiniteSet({m[2]})
      BY FS_Singleton
    <3> QED BY <1>1, <3>1
  <2>3. /\ q.chain \in ChainState /\ IsFiniteSet(q.chain.waiting)
        /\ \A i \in q.chain.waiting : i > q.chain.last + 1
        /\ m[2] - 1 <= q.chain.last /\ m[2] - 1 < q.chain.last
        /\ q.emits \in Seq(Numbered) /\ Ascending(q.emits)
        /\ ToSet(q.emits) = {m[1]} \X (m[2] - 1 + 1 .. q.chain.last)
    BY <1>1, <2>2, RowIsEmitted
  <2> HIDE DEF q
  <2>4. q.chain.last \in Nat /\ q.chain.last > 0
    BY <1>1, <2>3 DEF ChainState
  <2>5. ChainOK(q.chain)
    BY <2>3, <2>4 DEF ChainOK
  <2>6. chain.last <= m[2] - 1
    BY <1>1, <1>3
  <2>7. m[2] - 1 \in Nat /\ chain.last <= q.chain.last /\ m[2] - 1 <= q.chain.last
    BY <1>3, <2>2, <2>3, <2>4
  <2>8. Goes(m[1], chain, q.chain, q.emits, {})
    BY <1>3, <2>3, <2>5, <2>6, <2>7 DEF Goes
  <2> QED BY <2>1, <2>8
<1>4. CASE ~(m[2] <= chain.last) /\ chain.last # 0
  <2> DEFINE q == CheckQueue(m[1], chain.last, chain.waiting \cup {m[2]})
  <2>1. add = q
    BY <1>4 DEF AddToChain
  <2>2. /\ chain.waiting \cup {m[2]} \in SUBSET Nat /\ IsFiniteSet(chain.waiting \cup {m[2]})
        /\ \A i \in chain.waiting \cup {m[2]} : i > chain.last
    BY <1>1, <1>4, FS_AddElement
  <2>3. /\ q.chain \in ChainState /\ IsFiniteSet(q.chain.waiting)
        /\ \A i \in q.chain.waiting : i > q.chain.last + 1
        /\ chain.last <= q.chain.last
        /\ q.emits \in Seq(Numbered) /\ Ascending(q.emits)
        /\ ToSet(q.emits) = {m[1]} \X (chain.last + 1 .. q.chain.last)
    BY <1>1, <2>2, RowIsEmitted
  <2> HIDE DEF q
  <2>4. q.chain.last \in Nat /\ q.chain.last > 0
    BY <1>1, <1>4, <2>3 DEF ChainState
  <2>5. ChainOK(q.chain)
    BY <2>3, <2>4 DEF ChainOK
  <2>6. {m[1]} \X (chain.last + 1 .. chain.last) \subseteq {}
    BY <1>1
  <2> QED BY <1>1, <2>1, <2>3, <2>4, <2>5, <2>6 DEF Goes
<1> QED BY <1>2, <1>3, <1>4

\* A gap is given up.
LEMMA GiveUpGoes ==
  ASSUME NEW c \in Chain, NEW chain, ChainOK(chain), chain.waiting # {}
  PROVE  /\ Goes(c, chain, GiveUp(c, chain).chain, GiveUp(c, chain).emits, Gap(c, chain))
         /\ Gap(c, chain) \subseteq Numbered
<1> DEFINE f == First(chain.waiting)
           q == CheckQueue(c, f - 1, chain.waiting)
<1>1. /\ chain.last \in Nat /\ chain.last > 0
      /\ chain.waiting \in SUBSET Nat /\ IsFiniteSet(chain.waiting)
      /\ \A i \in chain.waiting : i > chain.last + 1
  BY DEF ChainOK, ChainState
<1>2. \E i \in chain.waiting : \A j \in chain.waiting : i <= j
  BY <1>1, Least
<1>3. f \in chain.waiting /\ \A j \in chain.waiting : f <= j
  BY <1>2, Zenon DEF First
<1>4. GiveUp(c, chain) = q /\ Gap(c, chain) = {c} \X (chain.last + 1 .. f - 1)
  BY DEF GiveUp, Gap
<1> HIDE DEF f
<1>5. f \in Nat /\ f > chain.last + 1 /\ f - 1 \in Nat /\ (f - 1) + 1 \in chain.waiting
  BY <1>1, <1>3
<1>6. \A i \in chain.waiting : i > f - 1
  BY <1>1, <1>3, <1>5
<1>7. /\ q.chain \in ChainState /\ IsFiniteSet(q.chain.waiting)
      /\ \A i \in q.chain.waiting : i > q.chain.last + 1
      /\ f - 1 <= q.chain.last
      /\ q.emits \in Seq(Numbered) /\ Ascending(q.emits)
      /\ ToSet(q.emits) = {c} \X (f - 1 + 1 .. q.chain.last)
  BY <1>1, <1>5, <1>6, RowIsEmitted
<1> HIDE DEF q
<1>8. q.chain.last \in Nat /\ q.chain.last > 0 /\ chain.last <= q.chain.last
  BY <1>1, <1>5, <1>7 DEF ChainState
<1>9. ChainOK(q.chain)
  BY <1>7, <1>8 DEF ChainOK
<1>10. chain.last <= f - 1
  BY <1>1, <1>5
<1>11. Gap(c, chain) \subseteq Numbered
  BY <1>1, <1>4, <1>5 DEF Numbered
<1> QED BY <1>1, <1>4, <1>5, <1>7, <1>8, <1>9, <1>10, <1>11 DEF Goes

-----------------------------------------------------------------------------
(* Messages that have been emitted, on their way to a consumer.            *)

\* None of the messages of S is newer than the last its chain has emitted.
Within(S, chains) == \A m \in S : m[2] <= chains[m[1]].last

\* After a message of S, all messages its chain has emitted are in S, but X.
Whole(S, chains, X) ==
  \A m \in S : \A k \in m[2] + 1 .. chains[m[1]].last : <<m[1], k>> \in S \cup X

\* What the chain of c emits goes on from S, of which only X is missing.
GoesOn(S, X, c, chains, new, emits, gap) ==
  LET next == [chains EXCEPT ![c] = new]
      all  == S \cup ToSet(emits)
  IN  /\ next \in [Chain -> ChainState] /\ all \subseteq Numbered
      /\ Within(all, next) /\ Below(S, ToSet(emits))
      /\ Whole(S, chains, X) => Whole(all, next, X \cup gap)

LEMMA EmittedNext ==
  ASSUME NEW S, NEW X, NEW c, NEW chains, NEW new, NEW emits, NEW gap,
         c \in Chain, chains \in [Chain -> ChainState],
         Goes(c, chains[c], new, emits, gap), S \subseteq Numbered, Within(S, chains)
  PROVE  GoesOn(S, X, c, chains, new, emits, gap)
<1> DEFINE next == [chains EXCEPT ![c] = new]
           all  == S \cup ToSet(emits)
           Y    == X \cup gap
<1>1. /\ new \in ChainState /\ new.last \in Nat /\ chains[c].last \in Nat
      /\ chains[c].last <= new.last /\ emits \in Seq(Numbered)
  BY DEF Goes, ChainOK, ChainState
<1>2. PICK n \in Nat : /\ chains[c].last <= n /\ n <= new.last
                       /\ ToSet(emits) = {c} \X (n + 1 .. new.last)
                       /\ chains[c].last # 0 => {c} \X (chains[c].last + 1 .. n) \subseteq gap
  BY DEF Goes
<1>3. /\ next \in [Chain -> ChainState] /\ next[c] = new
      /\ \A d \in Chain : d # c => next[d] = chains[d]
  BY <1>1
<1> HIDE DEF next
<1>4. all \subseteq Numbered
  BY <1>1, SetOfSeq
<1>5. \A m \in S : m[1] \in Chain /\ m[2] \in Nat /\ m[2] > 0 /\ m[2] <= chains[m[1]].last
  BY DEF Numbered, Within
<1>6. \A m \in ToSet(emits) : m[1] = c /\ m[2] \in Nat /\ m[2] > n /\ m[2] <= new.last
  BY <1>1, <1>2
<1>7. Within(all, next)
  <2> SUFFICES ASSUME NEW m \in all
               PROVE  m[2] <= next[m[1]].last
    BY DEF Within
  <2>1. CASE m \in ToSet(emits)
    BY <1>3, <1>6, <2>1
  <2>2. CASE m \in S /\ m[1] = c
    BY <1>1, <1>3, <1>5, <2>2
  <2>3. CASE m \in S /\ m[1] # c
    BY <1>3, <1>5, <2>3
  <2> QED BY <2>1, <2>2, <2>3
<1>8. Below(S, ToSet(emits))
  <2> SUFFICES ASSUME NEW m \in S, NEW e \in ToSet(emits), m[1] = e[1]
               PROVE  m[2] < e[2]
    BY DEF Below
  <2>1. m[1] = c /\ m[2] \in Nat /\ m[2] <= chains[c].last /\ e[2] \in Nat /\ e[2] > n
    BY <1>5, <1>6
  <2> QED BY <1>1, <1>2, <2>1
<1>9. ASSUME Whole(S, chains, X)
      PROVE  Whole(all, next, Y)
  <2> SUFFICES ASSUME NEW m \in all, NEW k \in m[2] + 1 .. next[m[1]].last
               PROVE  <<m[1], k>> \in all \cup Y
    BY DEF Whole
  <2>1. CASE m \in ToSet(emits)
    <3>1. m[1] = c /\ m[2] \in Nat /\ m[2] > n /\ next[m[1]].last = new.last
      BY <1>3, <1>6, <2>1
    <3>2. k \in n + 1 .. new.last
      BY <1>1, <3>1
    <3> QED BY <1>2, <3>1, <3>2
  <2>2. CASE m \in S /\ m[1] # c
    <3>1. k \in m[2] + 1 .. chains[m[1]].last
      BY <1>3, <1>5, <2>2
    <3>2. <<m[1], k>> \in S \cup X
      BY <1>9, <2>2, <3>1 DEF Whole
    <3> QED BY <3>2
  <2>3. CASE m \in S /\ m[1] = c
    <3>1. /\ m[2] \in Nat /\ m[2] > 0 /\ m[2] <= chains[c].last /\ k \in m[2] + 1 .. new.last
          /\ k \in Nat
      BY <1>1, <1>3, <1>5, <2>3
    <3>2. CASE k <= chains[c].last
      <4>1. k \in m[2] + 1 .. chains[m[1]].last
        BY <1>1, <2>3, <3>1, <3>2
      <4>2. <<m[1], k>> \in S \cup X
        BY <1>9, <2>3, <4>1 DEF Whole
      <4> QED BY <4>2
    <3>3. CASE k > chains[c].last /\ k <= n
      <4>1. chains[c].last # 0 /\ k \in chains[c].last + 1 .. n
        BY <1>1, <3>1, <3>3
      <4>2. <<c, k>> \in gap
        BY <1>2, <4>1
      <4> QED BY <2>3, <4>2
    <3>4. CASE k > n
      <4>1. k \in n + 1 .. new.last
        BY <1>1, <3>1, <3>4
      <4>2. <<c, k>> \in ToSet(emits)
        BY <1>2, <4>1
      <4> QED BY <2>3, <4>2
    <3> QED BY <1>1, <3>1, <3>2, <3>3, <3>4
  <2> QED BY <2>1, <2>2, <2>3
<1> QED BY <1>3, <1>4, <1>7, <1>8, <1>9 DEF GoesOn, next

-----------------------------------------------------------------------------
(* The inductive invariant of the pipeline.                                *)

\* What the session has not distributed yet.
Working == UNION {ToSet(work[c]) : c \in Chain}
InSession == ToSet(output) \cup Working

\* What may be missing.
Excused == failed \cup skipped

\* The stages of the session keep the order, and all that a chain has emitted after
\* a message that is still there is there as well.
SessionOK ==
  /\ \A c \in Chain : /\ ChainOK(order[c]) /\ Ascending(work[c])
                      /\ \A m \in ToSet(work[c]) : m[1] = c
  /\ Ascending(output) /\ ToSet(output) \cap Bad = {} /\ Below(ToSet(output), Working)
  /\ Within(InSession, order) /\ Whole(InSession, order, Excused)

\* Nothing is missing between the messages the consumer of s has got.
HoleFree(s) ==
  \A m, n \in ToSet(consumed[s]) : (m[1] = n[1] /\ m[2] < n[2]) =>
    \A k \in m[2] + 1 .. n[2] - 1 : <<m[1], k>> \in ToSet(consumed[s]) \cup Excused

\* What the session distributes comes after all that is in the buffer of s, and that
\* after all it has consumed; nothing is missing on the whole way of a member.
PlainOK(s) ==
  /\ Ascending(consumed[s]) /\ Ascending(buffer[s]) /\ Below(ToSet(consumed[s]), ToSet(buffer[s]))
  /\ Below(ToSet(consumed[s]) \cup ToSet(buffer[s]), InSession)
  /\ (ToSet(consumed[s]) \cup ToSet(buffer[s])) \cap Bad = {}
  /\ Within(ToSet(consumed[s]) \cup ToSet(buffer[s]), order) /\ HoleFree(s)
  /\ s \in members =>
       Whole(InSession \cup (ToSet(consumed[s]) \cup ToSet(buffer[s])), order, Excused)
  /\ s \notin members => buffer[s] = <<>>

\* The same for the chains a subscription has of its own.
ResenderOK(r) ==
  /\ \A c \in Chain : ChainOK(own[r][c])
  /\ Ascending(consumed[r]) /\ Ascending(out[r]) /\ Below(ToSet(consumed[r]), ToSet(out[r]))
  /\ Within(ToSet(consumed[r]) \cup ToSet(out[r]), own[r])
  /\ Whole(ToSet(consumed[r]) \cup ToSet(out[r]), own[r], skipped)

\* Whose buffer is full, for that distributeMessage waits.
BufferOK(s) ==
  /\ Len(buffer[s]) <= BufferSize
  /\ Len(buffer[s]) = BufferSize => distributing # Nobody /\ s \in distributing.to

PipelineIInv ==
  /\ PipelineTypeOK /\ SessionOK
  /\ \A s \in Plain : PlainOK(s)
  /\ \A r \in Resender : ResenderOK(r)
  /\ \A s \in Plain \cup Resender : BufferOK(s)

\* The parts of the type invariant.
LEMMA PipelineTyped ==
  ASSUME PipelineTypeOK
  PROVE  /\ order \in [Chain -> ChainState] /\ work \in [Chain -> Seq(Numbered)]
         /\ \A c \in Chain : order[c] \in ChainState /\ work[c] \in Seq(Numbered)
         /\ output \in Seq(Numbered) /\ members \subseteq Subscriber
         /\ \A s \in Subscriber : buffer[s] \in Seq(Numbered) /\ consumed[s] \in Seq(Numbered)
         /\ \A s \in Subscriber : Len(buffer[s]) \in Nat
         /\ \A r \in Resender : /\ out[r] \in Seq(Numbered) /\ resent[r] \in Seq(Numbered)
                                /\ own[r] \in [Chain -> ChainState]
         /\ \A r \in Resender : \A c \in Chain : own[r][c] \in ChainState
         /\ failed \subseteq Numbered /\ skipped \subseteq Numbered
         /\ ToSet(output) \subseteq Numbered /\ Working \subseteq Numbered
         /\ InSession \subseteq Numbered
         /\ \A s \in Subscriber : /\ ToSet(buffer[s]) \subseteq Numbered
                                  /\ ToSet(consumed[s]) \subseteq Numbered
         /\ \A r \in Resender : ToSet(out[r]) \subseteq Numbered
<1>1. /\ order \in [Chain -> ChainState] /\ work \in [Chain -> Seq(Numbered)]
      /\ output \in Seq(Numbered) /\ members \subseteq Subscriber
      /\ failed \subseteq Numbered /\ skipped \subseteq Numbered
      /\ buffer \in [Subscriber -> Seq(Numbered)] /\ consumed \in [Subscriber -> Seq(Numbered)]
      /\ resent \in [Resender -> Seq(Numbered)] /\ out \in [Resender -> Seq(Numbered)]
      /\ own \in [Resender -> [Chain -> ChainState]]
  BY DEF PipelineTypeOK
<1>2. /\ \A c \in Chain : order[c] \in ChainState /\ work[c] \in Seq(Numbered)
      /\ \A s \in Subscriber : buffer[s] \in Seq(Numbered) /\ consumed[s] \in Seq(Numbered)
      /\ \A r \in Resender : /\ out[r] \in Seq(Numbered) /\ resent[r] \in Seq(Numbered)
                             /\ own[r] \in [Chain -> ChainState]
  BY <1>1
<1>3. \A r \in Resender : \A c \in Chain : own[r][c] \in ChainState
  BY <1>2
<1>4. \A s \in Subscriber : Len(buffer[s]) \in Nat
  BY <1>2, LenProperties
<1>5. /\ ToSet(output) \subseteq Numbered
      /\ \A c \in Chain : ToSet(work[c]) \subseteq Numbered
      /\ \A s \in Subscriber : /\ ToSet(buffer[s]) \subseteq Numbered
                               /\ ToSet(consumed[s]) \subseteq Numbered
      /\ \A r \in Resender : ToSet(out[r]) \subseteq Numbered
  BY <1>1, <1>2, SetOfSeq
<1>6. Working \subseteq Numbered /\ InSession \subseteq Numbered
  BY <1>5 DEF Working, InSession
<1> QED BY <1>1, <1>2, <1>3, <1>4, <1>5, <1>6

\* A message that is being processed is in the work of its chain.
LEMMA OfItsChain ==
  ASSUME SessionOK, NEW m
  PROVE  /\ m \in Working => m[1] \in Chain /\ m \in ToSet(work[m[1]])
         /\ \A c \in Chain : m \in ToSet(work[c]) => m \in Working
<1>1. \A c \in Chain : m \in ToSet(work[c]) => m[1] = c
  BY DEF SessionOK
<1>2. m \in Working <=> \E c \in Chain : m \in ToSet(work[c])
  BY DEF Working
<1> QED BY <1>1, <1>2

\* What happens elsewhere leaves the session as it is ...
LEMMA SessionSame ==
  ASSUME SessionOK, UNCHANGED <<order, work, output>>, failed \subseteq failed', skipped \subseteq skipped'
  PROVE  SessionOK' /\ InSession' = InSession /\ Working' = Working
<1>1. Working' = Working /\ InSession' = InSession
  BY DEF Working, InSession
<1>2. Whole(InSession, order, Excused)'
  <2> SUFFICES ASSUME NEW m \in InSession, NEW k \in m[2] + 1 .. order[m[1]].last
               PROVE  <<m[1], k>> \in InSession \cup Excused'
    BY <1>1 DEF Whole
  <2>1. <<m[1], k>> \in InSession \cup Excused
    BY DEF SessionOK, Whole
  <2> QED BY <2>1 DEF Excused
<1>3. Below(ToSet(output), Working)' /\ Within(InSession, order)'
  BY <1>1 DEF SessionOK, Below, Within
<1> QED BY <1>1, <1>2, <1>3 DEF SessionOK

\* ... and a subscription without a resend ...
LEMMA PlainSame ==
  ASSUME NEW s \in Plain, PlainOK(s), consumed'[s] = consumed[s], buffer'[s] = buffer[s],
         order' = order, InSession' = InSession, s \in members <=> s \in members',
         failed \subseteq failed', skipped \subseteq skipped'
  PROVE  PlainOK(s)'
<1> DEFINE C == ToSet(consumed[s])
           B == ToSet(buffer[s])
<1>1. C' = C /\ B' = B
  OBVIOUS
<1>3. HoleFree(s)'
  BY DEF PlainOK, HoleFree, Excused
<1>4. Below(C, B)' /\ Below(C \cup B, InSession)' /\ Within(C \cup B, order)'
  BY <1>1 DEF PlainOK, Below, Within
<1>5. s \in members' => Whole(InSession \cup (C \cup B), order, Excused)'
  <2> SUFFICES ASSUME s \in members,
                      NEW m \in InSession \cup (C \cup B), NEW k \in m[2] + 1 .. order[m[1]].last
               PROVE  <<m[1], k>> \in InSession \cup (C \cup B) \cup Excused'
    BY <1>1 DEF Whole
  <2>1. <<m[1], k>> \in InSession \cup (C \cup B) \cup Excused
    BY DEF PlainOK, Whole
  <2> QED BY <2>1 DEF Excused
<1>6. Ascending(consumed[s])' /\ Ascending(buffer[s])'
  BY DEF PlainOK, Ascending
<1>7. ((C \cup B) \cap Bad = {})'
  BY <1>1 DEF PlainOK
<1>8. s \notin members' => buffer'[s] = <<>>
  BY DEF PlainOK
<1> QED BY <1>3, <1>4, <1>5, <1>6, <1>7, <1>8 DEF PlainOK

\* ... and one with a resend ...
LEMMA ResenderSame ==
  ASSUME NEW r \in Resender, ResenderOK(r), consumed'[r] = consumed[r], out'[r] = out[r],
         own'[r] = own[r], skipped \subseteq skipped'
  PROVE  ResenderOK(r)'
<1> DEFINE S == ToSet(consumed[r]) \cup ToSet(out[r])
<1>1. S' = S
  OBVIOUS
<1>2. Whole(S, own[r], skipped)'
  <2> SUFFICES ASSUME NEW m \in S, NEW k \in m[2] + 1 .. own[r][m[1]].last
               PROVE  <<m[1], k>> \in S \cup skipped'
    BY <1>1 DEF Whole
  <2>1. <<m[1], k>> \in S \cup skipped
    BY DEF ResenderOK, Whole
  <2> QED BY <2>1
<1>3. Below(ToSet(consumed[r]), ToSet(out[r]))' /\ Within(S, own[r])'
  BY <1>1 DEF ResenderOK, Below, Within
<1>4. Ascending(consumed[r])' /\ Ascending(out[r])'
  BY DEF ResenderOK, Ascending
<1>5. \A c \in Chain : ChainOK(own'[r][c])
  BY DEF ResenderOK
<1> QED BY <1>2, <1>3, <1>4, <1>5 DEF ResenderOK

\* ... and a buffer.
LEMMA BufferSame ==
  ASSUME NEW s, BufferOK(s), buffer'[s] = buffer[s],
         s \in distributing.to /\ distributing # Nobody =>
           distributing' # Nobody /\ s \in distributing'.to
  PROVE  BufferOK(s)'
BY DEF BufferOK

-----------------------------------------------------------------------------
(* The steps of the session.                                               *)

\* The chain of c emits messages into its processor.
ChainGoes(c, new, emits, gap) ==
  /\ Goes(c, order[c], new, emits, gap) /\ gap \subseteq Numbered
  /\ order' = [order EXCEPT ![c] = new] /\ work' = [work EXCEPT ![c] = @ \o emits]
  /\ output' = output /\ members' = members /\ failed' = failed
  /\ skipped' = skipped \cup gap

LEMMA SessionGoes ==
  ASSUME PipelineTypeOK, SessionOK, NEW c \in Chain, NEW new, NEW emits, NEW gap,
         ChainGoes(c, new, emits, gap)
  PROVE  /\ SessionOK' /\ InSession' = InSession \cup ToSet(emits)
         /\ order' \in [Chain -> ChainState] /\ work' \in [Chain -> Seq(Numbered)]
         /\ skipped' \subseteq Numbered
<1> USE DEF ChainGoes
<1>1. /\ order \in [Chain -> ChainState] /\ work \in [Chain -> Seq(Numbered)]
      /\ work[c] \in Seq(Numbered) /\ InSession \subseteq Numbered
      /\ skipped \subseteq Numbered
  BY PipelineTyped
<1>2. ChainOK(new) /\ emits \in Seq(Numbered) /\ Ascending(emits)
  BY DEF Goes
<1>4. Within(InSession, order) /\ Whole(InSession, order, Excused)
  BY DEF SessionOK
<1>5. /\ order' \in [Chain -> ChainState]
      /\ Within(InSession \cup ToSet(emits), order') /\ Below(InSession, ToSet(emits))
      /\ Whole(InSession \cup ToSet(emits), order', Excused')
  <2>1. /\ order' = [order EXCEPT ![c] = new] /\ Goes(c, order[c], new, emits, gap)
        /\ Excused' = Excused \cup gap
    BY DEF Excused
  <2> HIDE DEF ChainGoes
  <2>2. GoesOn(InSession, Excused, c, order, new, emits, gap)
    BY <1>1, <1>4, <2>1, EmittedNext
  <2> QED BY <1>4, <2>1, <2>2 DEF GoesOn
<1>6. /\ work[c] \o emits \in Seq(Numbered)
      /\ ToSet(work[c] \o emits) = ToSet(work[c]) \cup ToSet(emits)
      /\ Ascending(work[c]) /\ Below(ToSet(work[c]), ToSet(emits)) => Ascending(work[c] \o emits)
  BY <1>1, <1>2, ConcatAscends
<1>7. ToSet(work[c]) \subseteq InSession /\ ToSet(output) \subseteq InSession
  BY DEF InSession, Working
<1>8. Ascending(work[c] \o emits)
  <2>1. Below(ToSet(work[c]), ToSet(emits))
    BY <1>5, <1>7 DEF Below
  <2> QED BY <1>6, <2>1 DEF SessionOK
<1>9. /\ work' \in [Chain -> Seq(Numbered)] /\ work'[c] = work[c] \o emits
      /\ \A d \in Chain : d # c => work'[d] = work[d] /\ order'[d] = order[d]
      /\ order'[c] = new
  BY <1>1, <1>6
<1>10. \A m \in ToSet(emits) : m[1] = c
  BY DEF Goes
<1>11. \A d \in Chain : /\ ChainOK(order'[d]) /\ Ascending(work'[d])
                        /\ \A m \in ToSet(work'[d]) : m[1] = d
  <2> SUFFICES ASSUME NEW d \in Chain
               PROVE  /\ ChainOK(order'[d]) /\ Ascending(work'[d])
                      /\ \A m \in ToSet(work'[d]) : m[1] = d
    OBVIOUS
  <2>1. /\ ChainOK(order[d]) /\ Ascending(work[d])
        /\ \A m \in ToSet(work[d]) : m[1] = d
    BY DEF SessionOK
  <2>2. CASE d # c
    BY <1>9, <2>1, <2>2
  <2>3. CASE d = c
    BY <1>2, <1>6, <1>8, <1>9, <1>10, <2>1, <2>3
  <2> QED BY <2>2, <2>3
<1>12. Working' = Working \cup ToSet(emits)
  <2>1. \A d \in Chain : ToSet(work'[d]) = IF d = c THEN ToSet(work[c]) \cup ToSet(emits)
                                           ELSE ToSet(work[d])
    BY <1>6, <1>9
  <2> QED BY <2>1 DEF Working
<1>13. InSession' = InSession \cup ToSet(emits)
  BY <1>12 DEF InSession
<1>14. Below(ToSet(output), Working)'
  BY <1>5, <1>7, <1>12 DEF SessionOK, Below
<1>15. skipped' \subseteq Numbered
  BY <1>1
<1>16. Ascending(output') /\ ToSet(output') \cap Bad = {}
  BY DEF SessionOK
<1> QED BY <1>5, <1>9, <1>11, <1>13, <1>14, <1>15, <1>16 DEF SessionOK

\* The subscriptions without a resend have all that came before.
LEMMA PlainGoes ==
  ASSUME PipelineTypeOK, SessionOK, NEW c \in Chain, NEW new, NEW emits, NEW gap,
         ChainGoes(c, new, emits, gap),
         NEW s \in Plain, PlainOK(s), consumed'[s] = consumed[s], buffer'[s] = buffer[s]
  PROVE  PlainOK(s)'
<1> DEFINE C == ToSet(consumed[s])
           B == ToSet(buffer[s])
           S == InSession \cup (C \cup B)
           E == ToSet(emits)
<1>1. /\ Goes(c, order[c], new, emits, gap) /\ order' = [order EXCEPT ![c] = new]
      /\ failed' = failed /\ skipped' = skipped \cup gap /\ members' = members
  BY DEF ChainGoes
<1>2. /\ order \in [Chain -> ChainState] /\ S \subseteq Numbered
      /\ C \cup B \subseteq Numbered
  BY PipelineTyped DEF Subscriber
<1>3. C' = C /\ B' = B /\ InSession' = InSession \cup E
  BY SessionGoes
<1>4. Excused' = Excused \cup gap
  BY <1>1 DEF Excused
<1>5. Within(InSession, order) /\ Within(C \cup B, order) /\ Within(S, order)
  BY DEF SessionOK, PlainOK, Within
<1>6. Within(S \cup E, order') /\ Below(S, E)
      /\ (Whole(S, order, Excused) => Whole(S \cup E, order', Excused'))
  <2> HIDE DEF S
  <2>1. GoesOn(S, Excused, c, order, new, emits, gap)
    BY <1>1, <1>2, <1>5, EmittedNext
  <2> QED BY <1>1, <1>4, <2>1 DEF GoesOn
<1>7. /\ Ascending(consumed[s])' /\ Ascending(buffer[s])' /\ Below(C, B)'
      /\ ((C \cup B) \cap Bad = {})'
      /\ (s \notin members' => buffer'[s] = <<>>)
  BY <1>1, <1>3 DEF PlainOK
<1>8. HoleFree(s)'
  BY <1>1 DEF PlainOK, HoleFree, Excused
<1>9. Within(C \cup B, order)'
  BY <1>3, <1>6 DEF Within
<1>10. Below(C \cup B, InSession)'
  <2>1. Below(C \cup B, InSession)
    BY DEF PlainOK
  <2> QED BY <1>3, <1>6, <2>1 DEF Below
<1>11. s \in members' => Whole(InSession \cup (C \cup B), order, Excused)'
  <2> SUFFICES ASSUME s \in members
               PROVE  Whole(InSession \cup (C \cup B), order, Excused)'
    BY <1>1
  <2>1. Whole(S, order, Excused)
    BY DEF PlainOK
  <2>2. InSession' \cup (C' \cup B') = S \cup E
    BY <1>3
  <2>3. Whole(S \cup E, order', Excused')
    BY <1>6, <2>1
  <2> QED BY <2>2, <2>3
<1> QED BY <1>7, <1>8, <1>9, <1>10, <1>11 DEF PlainOK

\* A message that the session loses is excused.
LEMMA WholeWithout ==
  ASSUME NEW S, NEW T, NEW chains, NEW X, NEW Y, Whole(S, chains, X), T \subseteq S,
         S \ T \subseteq Y, X \subseteq Y
  PROVE  Whole(T, chains, Y)
<1> SUFFICES ASSUME NEW m \in T, NEW k \in m[2] + 1 .. chains[m[1]].last
             PROVE  <<m[1], k>> \in T \cup Y
  BY DEF Whole
<1>1. <<m[1], k>> \in S \cup X
  BY DEF Whole
<1> QED BY <1>1

\* The first in each chain may leave without an excuse.
LEMMA WholeWithoutFirst ==
  ASSUME NEW T \in SUBSET Numbered, NEW h \in Numbered, NEW chains, NEW X,
         Whole(T \cup {h}, chains, X), Below({h}, T)
  PROVE  Whole(T, chains, X)
<1> SUFFICES ASSUME NEW m \in T, NEW k \in m[2] + 1 .. chains[m[1]].last,
                    <<m[1], k>> = h
             PROVE  FALSE
  BY DEF Whole
<1>1. h[1] = m[1] /\ h[2] = k /\ m[2] \in Nat /\ k \in Int /\ k > m[2]
  BY DEF Numbered
<1>2. h[2] < m[2]
  BY <1>1 DEF Below
<1> QED BY <1>1, <1>2

\* The parts of the inductive invariant but for the types.
PipelineParts ==
  /\ SessionOK
  /\ \A s \in Plain : PlainOK(s)
  /\ \A r \in Resender : ResenderOK(r)
  /\ \A s \in Plain \cup Resender : BufferOK(s)

\* What neither the session nor a buffer or a chain of its own takes part in.
LEMMA NothingMoves ==
  ASSUME PipelineIInv, UNCHANGED <<order, work, output, distributing, members, consumed, own, out>>,
         \A s \in Plain \cup Resender : buffer'[s] = buffer[s],
         failed \subseteq failed', skipped \subseteq skipped'
  PROVE  PipelineParts'
<1>1. SessionOK' /\ InSession' = InSession
  BY SessionSame DEF PipelineIInv
<1>2. \A s \in Plain : PlainOK(s)'
  BY <1>1, PlainSame DEF PipelineIInv
<1>3. \A r \in Resender : ResenderOK(r)'
  BY ResenderSame DEF PipelineIInv
<1>4. \A s \in Plain \cup Resender : BufferOK(s)'
  BY BufferSame DEF PipelineIInv
<1> QED BY <1>1, <1>2, <1>3, <1>4 DEF PipelineParts

\* A chain of the session goes on.
LEMMA ChainMoves ==
  ASSUME PipelineIInv, NEW c \in Chain, NEW new, NEW emits, NEW gap,
         ChainGoes(c, new, emits, gap), UNCHANGED <<distributing, consumed, own, out>>,
         \A s \in Plain \cup Resender : buffer'[s] = buffer[s]
  PROVE  /\ PipelineParts' /\ order' \in [Chain -> ChainState]
         /\ work' \in [Chain -> Seq(Numbered)] /\ skipped' \subseteq Numbered
<1>1. /\ SessionOK' /\ order' \in [Chain -> ChainState]
      /\ work' \in [Chain -> Seq(Numbered)] /\ skipped' \subseteq Numbered
  BY SessionGoes DEF PipelineIInv
<1>2. ASSUME NEW s \in Plain
      PROVE  PlainOK(s)'
  BY PlainGoes DEF PipelineIInv
<1>3. skipped \subseteq skipped'
  BY DEF ChainGoes
<1>4. \A r \in Resender : ResenderOK(r)'
  BY <1>3, ResenderSame DEF PipelineIInv
<1>5. \A s \in Plain \cup Resender : BufferOK(s)'
  BY BufferSame DEF PipelineIInv
<1> QED BY <1>1, <1>2, <1>4, <1>5 DEF PipelineParts

\* The chain of a message that enters the pipeline goes on.
LEMMA EnterGoes ==
  ASSUME SessionOK, NEW m \in Numbered, Enter(m), UNCHANGED <<output, members, failed, skipped>>
  PROVE  /\ m[1] \in Chain
         /\ ChainGoes(m[1], AddToChain(order[m[1]], m).chain, AddToChain(order[m[1]], m).emits, {})
<1>1. m[1] \in Chain
  BY DEF Numbered
<1>2. ChainOK(order[m[1]])
  BY <1>1 DEF SessionOK
<1>3. Goes(m[1], order[m[1]], AddToChain(order[m[1]], m).chain,
           AddToChain(order[m[1]], m).emits, {})
  BY <1>2, AddGoes
<1>4. skipped' = skipped \cup {}
  OBVIOUS
<1> QED BY <1>1, <1>3, <1>4 DEF ChainGoes, Enter

LEMMA PublishKeeps ==
  ASSUME PipelineIInv, NEW c \in Chain, Publish(c)
  PROVE  PipelineIInv'
<1>1. /\ published' = [published EXCEPT ![c] = @ + 1]
      /\ UNCHANGED <<heard, order, work, output, distributing, members, buffer, phase, resent, own,
                     out, consumed, failed, skipped>>
  BY DEF Publish, sessionVars, resendVars
<1>2. PipelineTypeOK'
  BY <1>1 DEF PipelineIInv, PipelineTypeOK
<1>3. PipelineParts'
  BY <1>1, NothingMoves
<1> QED BY <1>2, <1>3 DEF PipelineIInv, PipelineParts

LEMMA InputKeeps ==
  ASSUME PipelineIInv, NEW m \in Msg, OnMessageInput(m)
  PROVE  PipelineIInv'
<1>1. m \in Numbered
  BY DEF Msg, Numbered
<1>2. /\ heard' = heard \cup {m}
      /\ buffer' = [s \in Subscriber |-> IF s \in members \cap Raw THEN Append(buffer[s], m)
                                         ELSE buffer[s]]
      /\ UNCHANGED <<published, output, distributing, members, phase, resent, own, out, consumed,
                     failed, skipped>>
  BY DEF OnMessageInput, resendVars
<1>3. Enter(m) \/ UNCHANGED <<order, work>>
  BY DEF OnMessageInput
<1>4. PipelineTypeOK /\ SessionOK
  BY DEF PipelineIInv
<1>5. buffer' \in [Subscriber -> Seq(Numbered)]
  <2>1. \A s \in Subscriber : buffer[s] \in Seq(Numbered) /\ Append(buffer[s], m) \in Seq(Numbered)
    BY <1>1, <1>4, PipelineTyped, AppendProperties
  <2> QED BY <1>2, <2>1
<1>6. \A s \in Plain \cup Resender : buffer'[s] = buffer[s]
  BY <1>2, PipelineAssumption DEF Subscriber
<1>7. /\ PipelineParts' /\ order' \in [Chain -> ChainState] /\ work' \in [Chain -> Seq(Numbered)]
  <2>1. CASE Enter(m)
    BY <1>1, <1>2, <1>4, <1>6, <2>1, EnterGoes, ChainMoves
  <2>2. CASE UNCHANGED <<order, work>>
    <3>1. PipelineParts'
      BY <1>2, <1>6, <2>2, NothingMoves
    <3> QED BY <1>4, <2>2, <3>1 DEF PipelineTypeOK
  <2> QED BY <1>3, <2>1, <2>2
<1>8. PipelineTypeOK'
  BY <1>2, <1>4, <1>5, <1>7 DEF PipelineTypeOK
<1> QED BY <1>7, <1>8 DEF PipelineIInv, PipelineParts

LEMMA FillGapKeeps ==
  ASSUME PipelineIInv, NEW c \in Chain, FillGap(c)
  PROVE  PipelineIInv'
<1> DEFINE m == <<c, order[c].last + 1>>
<1>1. PipelineTypeOK /\ SessionOK
  BY DEF PipelineIInv
<1>2. order[c].last \in Nat
  BY <1>1, PipelineTyped DEF ChainState
<1>3. m \in Numbered
  BY <1>2 DEF Numbered
<1>4. /\ Enter(m)
      /\ UNCHANGED <<published, heard, output, distributing, members, buffer, phase, resent, own,
                     out, consumed, failed, skipped>>
  BY DEF FillGap, resendVars
<1> HIDE DEF m
<1>5. PipelineParts' /\ order' \in [Chain -> ChainState] /\ work' \in [Chain -> Seq(Numbered)]
  BY <1>1, <1>3, <1>4, EnterGoes, ChainMoves
<1>6. PipelineTypeOK'
  BY <1>1, <1>4, <1>5 DEF PipelineTypeOK
<1> QED BY <1>5, <1>6 DEF PipelineIInv, PipelineParts

LEMMA LeaveGapKeeps ==
  ASSUME PipelineIInv, NEW c \in Chain, LeaveGap(c)
  PROVE  PipelineIInv'
<1> DEFINE on  == GiveUp(c, order[c])
           gap == Gap(c, order[c])
<1>1. PipelineTypeOK /\ SessionOK /\ ChainOK(order[c])
  BY DEF PipelineIInv, SessionOK
<1>2. /\ order[c].waiting # {}
      /\ order' = [order EXCEPT ![c] = on.chain] /\ work' = [work EXCEPT ![c] = @ \o on.emits]
      /\ skipped' = skipped \cup gap
      /\ UNCHANGED <<published, heard, output, distributing, members, buffer, phase, resent, own,
                     out, consumed, failed>>
  BY DEF LeaveGap, resendVars
<1>3. Goes(c, order[c], on.chain, on.emits, gap) /\ gap \subseteq Numbered
  BY <1>1, <1>2, GiveUpGoes
<1> HIDE DEF on, gap
<1>4. ChainGoes(c, on.chain, on.emits, gap)
  BY <1>2, <1>3 DEF ChainGoes
<1>5. /\ PipelineParts' /\ order' \in [Chain -> ChainState] /\ work' \in [Chain -> Seq(Numbered)]
      /\ skipped' \subseteq Numbered
  BY <1>2, <1>4, ChainMoves
<1>6. PipelineTypeOK'
  BY <1>1, <1>2, <1>5 DEF PipelineTypeOK
<1> QED BY <1>5, <1>6 DEF PipelineIInv, PipelineParts

\* The next message of a chain leaves the work.
LEMMA WorkShrinks ==
  ASSUME PipelineTypeOK, SessionOK, NEW c \in Chain, work[c] # <<>>,
         work' = [work EXCEPT ![c] = Tail(@)]
  PROVE  /\ work' \in [Chain -> Seq(Numbered)]
         /\ \A d \in Chain : Ascending(work'[d]) /\ \A m \in ToSet(work'[d]) : m[1] = d
         /\ Head(work[c]) \in Numbered /\ Head(work[c]) \in Working
         /\ Working = {Head(work[c])} \cup Working' /\ Below({Head(work[c])}, Working')
<1> DEFINE h == Head(work[c])
<1>1. work \in [Chain -> Seq(Numbered)] /\ work[c] \in Seq(Numbered)
  BY PipelineTyped
<1>2. /\ h \in Numbered /\ h \in ToSet(work[c])
      /\ Tail(work[c]) \in Seq(Numbered) /\ ToSet(work[c]) = {h} \cup ToSet(Tail(work[c]))
      /\ Ascending(work[c]) => Ascending(Tail(work[c])) /\ Below({h}, ToSet(Tail(work[c])))
  BY <1>1, TailAscends
<1> HIDE DEF h
<1>3. /\ work' \in [Chain -> Seq(Numbered)] /\ work'[c] = Tail(work[c])
      /\ \A d \in Chain : d # c => work'[d] = work[d]
  BY <1>1, <1>2
<1>4. \A d \in Chain : Ascending(work[d]) /\ \A m \in ToSet(work[d]) : m[1] = d
  BY DEF SessionOK
<1>5. \A d \in Chain : ToSet(work'[d]) \subseteq ToSet(work[d])
  BY <1>2, <1>3
<1>6. \A d \in Chain : Ascending(work'[d]) /\ \A m \in ToSet(work'[d]) : m[1] = d
  BY <1>2, <1>3, <1>4, <1>5
<1>7. Working = {h} \cup Working'
  <2>1. \A m \in Working : m = h \/ m \in Working'
    <3> SUFFICES ASSUME NEW d \in Chain, NEW m \in ToSet(work[d]), m # h
                 PROVE  m \in Working'
      BY DEF Working
    <3>1. m \in ToSet(work'[d])
      BY <1>2, <1>3
    <3> QED BY <3>1 DEF Working
  <2>2. Working' \subseteq Working
    BY <1>5 DEF Working
  <2>3. h \in Working
    BY <1>2 DEF Working
  <2> QED BY <2>1, <2>2, <2>3
<1>8. Below({h}, Working')
  <2> SUFFICES ASSUME NEW m \in Working', h[1] = m[1]
               PROVE  h[2] < m[2]
    BY DEF Below
  <2>1. PICK d \in Chain : m \in ToSet(work'[d])
    BY DEF Working
  <2>2. d = c
    BY <1>2, <1>4, <1>6, <2>1
  <2>3. m \in ToSet(Tail(work[c]))
    BY <1>3, <2>1, <2>2
  <2> QED BY <1>2, <1>4, <2>3 DEF Below
<1> QED BY <1>2, <1>3, <1>6, <1>7, <1>8 DEF h

LEMMA ProcessKeeps ==
  ASSUME PipelineIInv, NEW c \in Chain, Process(c)
  PROVE  PipelineIInv'
<1> DEFINE h == Head(work[c])
<1>1. PipelineTypeOK /\ SessionOK
  BY DEF PipelineIInv
<1>2. /\ work[c] # <<>> /\ h \notin Bad /\ output' = Append(output, h)
      /\ work' = [work EXCEPT ![c] = Tail(@)]
      /\ UNCHANGED <<published, heard, order, distributing, members, buffer, phase, resent, own,
                     out, consumed, failed, skipped>>
  BY DEF Process, resendVars
<1>3. /\ work' \in [Chain -> Seq(Numbered)]
      /\ \A d \in Chain : Ascending(work'[d]) /\ \A m \in ToSet(work'[d]) : m[1] = d
      /\ h \in Numbered /\ h \in Working
      /\ Working = {h} \cup Working' /\ Below({h}, Working')
  BY <1>1, <1>2, WorkShrinks
<1> HIDE DEF h
<1>4. output \in Seq(Numbered)
  BY <1>1, PipelineTyped
<1>5. /\ output' \in Seq(Numbered) /\ ToSet(output') = ToSet(output) \cup {h}
      /\ Ascending(output) /\ Below(ToSet(output), {h}) => Ascending(output')
  BY <1>2, <1>3, <1>4, AppendAscends
<1>6. Below(ToSet(output), Working) /\ Ascending(output) /\ ToSet(output) \cap Bad = {}
  BY <1>1 DEF SessionOK
<1>7. Below(ToSet(output), {h})
  BY <1>3, <1>6 DEF Below
<1>8. InSession' = InSession
  BY <1>3, <1>5 DEF InSession
<1>9. Below(ToSet(output), Working)'
  BY <1>3, <1>5, <1>6 DEF Below
<1>10. Within(InSession, order)' /\ Whole(InSession, order, Excused)'
  <2>1. Excused' = Excused /\ order' = order
    BY <1>2 DEF Excused
  <2>2. Within(InSession, order) /\ Whole(InSession, order, Excused)
    BY <1>1 DEF SessionOK
  <2> QED BY <1>8, <2>1, <2>2
<1>11. SessionOK'
  <2>1. \A d \in Chain : ChainOK(order'[d])
    BY <1>1, <1>2 DEF SessionOK
  <2>2. ToSet(output') \cap Bad = {} /\ Ascending(output')
    BY <1>2, <1>5, <1>6, <1>7
  <2> QED BY <1>3, <1>9, <1>10, <2>1, <2>2 DEF SessionOK
<1>12. \A s \in Plain : PlainOK(s)'
  BY <1>2, <1>8, PlainSame DEF PipelineIInv
<1>13. \A r \in Resender : ResenderOK(r)'
  BY <1>2, ResenderSame DEF PipelineIInv
<1>14. \A s \in Plain \cup Resender : BufferOK(s)'
  BY <1>2, BufferSame DEF PipelineIInv
<1>15. PipelineTypeOK'
  BY <1>1, <1>2, <1>3, <1>5 DEF PipelineTypeOK
<1> QED BY <1>11, <1>12, <1>13, <1>14, <1>15 DEF PipelineIInv

\* The session has less before it, and has an excuse for what has gone.
LEMMA PlainLess ==
  ASSUME NEW s \in Plain, PlainOK(s), consumed'[s] = consumed[s], buffer'[s] = buffer[s],
         order' = order, InSession' \subseteq InSession, members' = members,
         InSession \ InSession' \subseteq Excused', Excused \subseteq Excused'
  PROVE  PlainOK(s)'
<1> DEFINE C == ToSet(consumed[s])
           B == ToSet(buffer[s])
<1>1. C' = C /\ B' = B
  OBVIOUS
<1>2. HoleFree(s)'
  BY DEF PlainOK, HoleFree
<1>3. Below(C, B)' /\ Below(C \cup B, InSession)' /\ Within(C \cup B, order)'
  BY <1>1 DEF PlainOK, Below, Within
<1>4. s \in members' => Whole(InSession \cup (C \cup B), order, Excused)'
  <2> SUFFICES ASSUME s \in members
               PROVE  Whole(InSession' \cup (C \cup B), order, Excused')
    BY <1>1
  <2>1. Whole(InSession \cup (C \cup B), order, Excused)
    BY DEF PlainOK
  <2> QED BY <2>1, WholeWithout
<1>5. Ascending(consumed[s])' /\ Ascending(buffer[s])'
  BY DEF PlainOK, Ascending
<1>6. ((C \cup B) \cap Bad = {})'
  BY <1>1 DEF PlainOK
<1>7. s \notin members' => buffer'[s] = <<>>
  BY DEF PlainOK
<1> QED BY <1>2, <1>3, <1>4, <1>5, <1>6, <1>7 DEF PlainOK

LEMMA ProcessFailsKeeps ==
  ASSUME PipelineIInv, NEW c \in Chain, ProcessFails(c)
  PROVE  PipelineIInv'
<1> DEFINE h == Head(work[c])
<1>1. PipelineTypeOK /\ SessionOK
  BY DEF PipelineIInv
<1>2. /\ work[c] # <<>> /\ failed' = failed \cup {h}
      /\ work' = [work EXCEPT ![c] = Tail(@)]
      /\ UNCHANGED <<published, heard, order, output, distributing, members, buffer, phase, resent,
                     own, out, consumed, skipped>>
  BY DEF ProcessFails, resendVars
<1>3. /\ work' \in [Chain -> Seq(Numbered)]
      /\ \A d \in Chain : Ascending(work'[d]) /\ \A m \in ToSet(work'[d]) : m[1] = d
      /\ h \in Numbered /\ Working = {h} \cup Working'
  BY <1>1, <1>2, WorkShrinks
<1> HIDE DEF h
<1>4. /\ InSession' \subseteq InSession /\ InSession \ InSession' \subseteq {h}
      /\ Excused' = Excused \cup {h}
  BY <1>2, <1>3 DEF InSession, Excused
<1>5. Below(ToSet(output), Working)' /\ Within(InSession, order)'
  BY <1>1, <1>2, <1>3, <1>4 DEF SessionOK, Below, Within
<1>6. Whole(InSession, order, Excused)'
  <2>1. Whole(InSession, order, Excused)
    BY <1>1 DEF SessionOK
  <2>2. Whole(InSession', order, Excused')
    BY <1>4, <2>1, WholeWithout
  <2> QED BY <1>2, <2>2
<1>7. SessionOK'
  <2>1. \A d \in Chain : ChainOK(order'[d])
    BY <1>1, <1>2 DEF SessionOK
  <2>2. ToSet(output') \cap Bad = {} /\ Ascending(output')
    BY <1>1, <1>2 DEF SessionOK
  <2> QED BY <1>3, <1>5, <1>6, <2>1, <2>2 DEF SessionOK
<1>8. \A s \in Plain : PlainOK(s)'
  <2>1. InSession \ InSession' \subseteq Excused' /\ Excused \subseteq Excused'
    BY <1>4
  <2> QED BY <1>2, <1>4, <2>1, PlainLess DEF PipelineIInv
<1>9. \A r \in Resender : ResenderOK(r)'
  BY <1>2, ResenderSame DEF PipelineIInv
<1>10. \A s \in Plain \cup Resender : BufferOK(s)'
  BY <1>2, BufferSame DEF PipelineIInv
<1>11. PipelineTypeOK'
  <2>1. failed \subseteq Numbered
    BY <1>1, PipelineTyped
  <2> QED BY <1>1, <1>2, <1>3, <2>1 DEF PipelineTypeOK
<1> QED BY <1>7, <1>8, <1>9, <1>10, <1>11 DEF PipelineIInv

-----------------------------------------------------------------------------
(* The steps of the buffers.                                               *)

\* What is missing between two messages that have been taken is not on the way.
LEMMA NoneMissing ==
  ASSUME NEW C, NEW R, NEW chains, NEW X, C \subseteq Numbered, R \subseteq Numbered,
         Below(C, R), Within(C, chains), Whole(C \cup R, chains, X),
         \A c \in Chain : chains[c] \in ChainState,
         NEW m \in C, NEW n \in C, m[1] = n[1], m[2] < n[2], NEW k \in m[2] + 1 .. n[2] - 1
  PROVE  <<m[1], k>> \in C \cup X
<1>1. /\ m[1] \in Chain /\ m[2] \in Nat /\ n[2] \in Nat /\ k \in Int
      /\ m[2] + 1 <= k /\ k < n[2]
  BY DEF Numbered
<1>2. n[2] <= chains[m[1]].last /\ chains[m[1]].last \in Nat
  BY <1>1 DEF Within, ChainState
<1>3. k \in m[2] + 1 .. chains[m[1]].last
  BY <1>1, <1>2
<1>4. <<m[1], k>> \in (C \cup R) \cup X
  BY <1>3 DEF Whole
<1>5. ASSUME <<m[1], k>> \in R
      PROVE  FALSE
  <2>1. n[2] < <<m[1], k>>[2]
    <3>1. n[1] = <<m[1], k>>[1]
      OBVIOUS
    <3> QED BY <1>5, <3>1 DEF Below
  <2> QED BY <1>1, <2>1
<1> QED BY <1>4, <1>5

\* The message in distribution stays one, whoever is released.
LEMMA ReleaseTyped ==
  ASSUME PipelineTypeOK, NEW s
  PROVE  /\ Released(s) \in Distribution \cup {Nobody}
         /\ \A u : (u # s /\ distributing # Nobody /\ u \in distributing.to) =>
              Released(s) # Nobody /\ u \in Released(s).to
<1>1. distributing \in Distribution \cup {Nobody} /\ Nobody \notin Distribution
  BY PipelineAssumption DEF PipelineTypeOK
<1>2. CASE distributing = Nobody
  BY <1>2 DEF Released
<1>3. CASE distributing # Nobody
  <2>1. distributing \in Distribution /\ Released(s) = [distributing EXCEPT !.to = @ \ {s}]
    BY <1>1, <1>3 DEF Released
  <2>2. Released(s) \in Distribution /\ Released(s).to = distributing.to \ {s}
    BY <2>1 DEF Distribution
  <2> QED BY <1>1, <2>2
<1> QED BY <1>2, <1>3

LEMMA DistributeKeeps ==
  ASSUME PipelineIInv, Distribute
  PROVE  PipelineIInv'
<1> DEFINE h  == Head(output)
           to == members \ Raw
<1>1. PipelineTypeOK /\ SessionOK
  BY DEF PipelineIInv
<1>2. /\ output # <<>> /\ distributing = Nobody /\ output' = Tail(output)
      /\ buffer' = [s \in Subscriber |-> IF s \in to THEN Append(buffer[s], h) ELSE buffer[s]]
      /\ distributing' = [msg |-> h, to |-> {s \in to : IsFull(buffer'[s])}]
      /\ UNCHANGED <<published, heard, order, work, members, phase, resent, own, out, consumed,
                     failed, skipped>>
  BY DEF Distribute, resendVars
<1>3. /\ output \in Seq(Numbered) /\ members \subseteq Subscriber
      /\ \A s \in Subscriber : buffer[s] \in Seq(Numbered) /\ Len(buffer[s]) \in Nat
      /\ \A s \in Subscriber : ToSet(buffer[s]) \cup ToSet(consumed[s]) \subseteq Numbered
      /\ InSession \subseteq Numbered
  BY <1>1, PipelineTyped
<1>4. /\ h \in Numbered /\ h \in ToSet(output)
      /\ output' \in Seq(Numbered) /\ ToSet(output) = {h} \cup ToSet(output')
      /\ Ascending(output) => Ascending(output') /\ Below({h}, ToSet(output'))
  BY <1>2, <1>3, TailAscends
<1> HIDE DEF h
<1>5. \A s \in Subscriber :
        /\ Append(buffer[s], h) \in Seq(Numbered)
        /\ ToSet(Append(buffer[s], h)) = ToSet(buffer[s]) \cup {h}
        /\ Len(Append(buffer[s], h)) = Len(buffer[s]) + 1
        /\ Ascending(buffer[s]) /\ Below(ToSet(buffer[s]), {h}) => Ascending(Append(buffer[s], h))
  BY <1>3, <1>4, AppendAscends
<1>6. /\ Ascending(output) /\ ToSet(output) \cap Bad = {} /\ Below(ToSet(output), Working)
      /\ Within(InSession, order) /\ Whole(InSession, order, Excused)
  BY <1>1 DEF SessionOK
<1>7. Working' = Working /\ Excused' = Excused
  BY <1>2 DEF Working, Excused
<1>8. InSession = InSession' \cup {h} /\ InSession' \subseteq Numbered /\ h \in InSession
  BY <1>3, <1>4, <1>7 DEF InSession
<1>9. Below({h}, InSession')
  BY <1>4, <1>6, <1>7 DEF InSession, Below
<1>10. SessionOK'
  <2>1. \A c \in Chain : /\ ChainOK(order'[c]) /\ Ascending(work'[c])
                         /\ \A m \in ToSet(work'[c]) : m[1] = c
    BY <1>1, <1>2 DEF SessionOK
  <2>2. Below(ToSet(output), Working)'
    BY <1>4, <1>6, <1>7 DEF Below
  <2>3. Within(InSession, order)'
    BY <1>2, <1>6, <1>8 DEF Within
  <2>4. Whole(InSession, order, Excused)'
    <3>1. Whole(InSession' \cup {h}, order, Excused)
      BY <1>6, <1>8
    <3>2. Whole(InSession', order, Excused)
      BY <1>4, <1>8, <1>9, <3>1, WholeWithoutFirst
    <3> QED BY <1>2, <1>7, <3>2
  <2>5. Ascending(output') /\ ToSet(output') \cap Bad = {}
    BY <1>4, <1>6
  <2> QED BY <2>1, <2>2, <2>3, <2>4, <2>5 DEF SessionOK
<1>11. ASSUME NEW s \in Plain
       PROVE  PlainOK(s)'
  <2> DEFINE C == ToSet(consumed[s])
             B == ToSet(buffer[s])
  <2>1. PlainOK(s) /\ s \in Subscriber /\ s \notin Raw
    BY PipelineAssumption DEF PipelineIInv, Subscriber
  <2>2. /\ Ascending(consumed[s]) /\ Ascending(buffer[s]) /\ Below(C, B)
        /\ Below(C \cup B, InSession) /\ (C \cup B) \cap Bad = {}
        /\ Within(C \cup B, order) /\ HoleFree(s)
        /\ s \in members => Whole(InSession \cup (C \cup B), order, Excused)
        /\ s \notin members => buffer[s] = <<>>
    BY <2>1 DEF PlainOK
  <2>3. HoleFree(s)'
    BY <1>2, <1>7, <2>2 DEF HoleFree
  <2>4. C' = C /\ Ascending(consumed[s])'
    BY <1>2, <2>2
  <2>5. CASE s \notin members
    <3>1. buffer'[s] = buffer[s] /\ B' = B
      BY <1>2, <2>1, <2>5
    <3>2. Below(C \cup B, InSession)'
      BY <1>8, <2>2, <2>4, <3>1 DEF Below
    <3> QED BY <1>2, <2>2, <2>3, <2>4, <2>5, <3>1, <3>2 DEF PlainOK
  <2>6. CASE s \in members
    <3>1. buffer'[s] = Append(buffer[s], h) /\ B' = B \cup {h}
      BY <1>2, <1>5, <2>1, <2>6
    <3>2. Below(C \cup B, {h})
      BY <1>8, <2>2 DEF Below
    <3>3. Ascending(buffer'[s])
      BY <1>5, <2>1, <2>2, <3>1, <3>2 DEF Below
    <3>4. Below(C, B)'
      BY <2>2, <2>4, <3>1, <3>2 DEF Below
    <3>5. Below(C \cup B, InSession)'
      BY <1>8, <1>9, <2>2, <2>4, <3>1 DEF Below
    <3>6. ((C \cup B) \cap Bad = {})'
      BY <1>4, <1>6, <2>2, <2>4, <3>1
    <3>7. Within(C \cup B, order)'
      BY <1>2, <1>6, <1>8, <2>2, <2>4, <3>1 DEF Within
    <3>8. InSession' \cup (C' \cup B') = InSession \cup (C \cup B)
      BY <1>8, <2>4, <3>1
    <3>9. Whole(InSession' \cup (C' \cup B'), order', Excused')
      BY <1>2, <1>7, <2>2, <2>6, <3>8
    <3> QED BY <1>2, <2>3, <2>4, <2>6, <3>3, <3>4, <3>5, <3>6, <3>7, <3>9 DEF PlainOK
  <2> QED BY <2>5, <2>6
<1>12. \A r \in Resender : ResenderOK(r)'
  BY <1>2, ResenderSame DEF PipelineIInv
<1>13. distributing' \in Distribution /\ distributing' # Nobody
  <2>1. {s \in to : IsFull(buffer'[s])} \in SUBSET Subscriber
    BY <1>3
  <2>2. distributing' \in Distribution
    BY <1>2, <1>4, <2>1 DEF Distribution
  <2> QED BY <2>2, PipelineAssumption
<1>14. ASSUME NEW s \in Plain \cup Resender
       PROVE  BufferOK(s)'
  <2>1. s \in Subscriber /\ BufferOK(s) /\ Len(buffer[s]) \in Nat /\ BufferSize \in Nat
    BY <1>3, PipelineAssumption DEF PipelineIInv, Subscriber
  <2>2. Len(buffer[s]) < BufferSize
    BY <1>2, <2>1 DEF BufferOK
  <2>3. CASE s \notin to
    <3>1. buffer'[s] = buffer[s]
      BY <1>2, <2>1, <2>3
    <3> QED BY <2>1, <2>2, <3>1 DEF BufferOK
  <2>4. CASE s \in to
    <3>1. Len(buffer'[s]) = Len(buffer[s]) + 1
      BY <1>2, <1>5, <2>1, <2>4
    <3>2. Len(buffer'[s]) <= BufferSize
      BY <2>1, <2>2, <3>1
    <3>3. Len(buffer'[s]) = BufferSize => s \in distributing'.to
      BY <1>2, <2>1, <2>4 DEF IsFull
    <3> QED BY <1>13, <3>2, <3>3 DEF BufferOK
  <2> QED BY <2>3, <2>4
<1>15. buffer' \in [Subscriber -> Seq(Numbered)]
  BY <1>2, <1>3, <1>5
<1>16. PipelineTypeOK'
  BY <1>1, <1>2, <1>4, <1>13, <1>15 DEF PipelineTypeOK
<1> QED BY <1>10, <1>11, <1>12, <1>14, <1>16 DEF PipelineIInv

LEMMA DistributedKeeps ==
  ASSUME PipelineIInv, Distributed
  PROVE  PipelineIInv'
<1>1. PipelineTypeOK
  BY DEF PipelineIInv
<1>2. /\ distributing # Nobody /\ distributing.to = {} /\ distributing' = Nobody
      /\ UNCHANGED <<published, heard, order, work, output, members, buffer, phase, resent, own, out,
                     consumed, failed, skipped>>
  BY DEF Distributed, resendVars
<1>3. SessionOK' /\ InSession' = InSession
  BY <1>2, SessionSame DEF PipelineIInv
<1>4. \A s \in Plain : PlainOK(s)'
  BY <1>2, <1>3, PlainSame DEF PipelineIInv
<1>5. \A r \in Resender : ResenderOK(r)'
  BY <1>2, ResenderSame DEF PipelineIInv
<1>6. \A s \in Plain \cup Resender : BufferOK(s)'
  BY <1>2, BufferSame DEF PipelineIInv
<1>7. PipelineTypeOK'
  BY <1>1, <1>2 DEF PipelineTypeOK
<1> QED BY <1>3, <1>4, <1>5, <1>6, <1>7 DEF PipelineIInv

\* A message is taken out of the buffer of s.
LEMMA ShiftKeeps ==
  ASSUME PipelineIInv, NEW s \in Subscriber, Shift(s)
  PROVE  /\ buffer' \in [Subscriber -> Seq(Numbered)] /\ distributing' \in Distribution \cup {Nobody}
         /\ \A u \in Plain \cup Resender : BufferOK(u)'
         /\ \A u \in Subscriber : u # s => buffer'[u] = buffer[u]
         /\ buffer'[s] = Tail(buffer[s]) /\ buffer[s] # <<>> /\ buffer[s] \in Seq(Numbered)
<1>1. /\ PipelineTypeOK /\ buffer \in [Subscriber -> Seq(Numbered)] /\ buffer[s] \in Seq(Numbered)
      /\ distributing \in Distribution \cup {Nobody}
  BY PipelineTyped DEF PipelineIInv, PipelineTypeOK
<1>2. /\ buffer[s] # <<>> /\ buffer' = [buffer EXCEPT ![s] = Tail(@)]
      /\ distributing' \in {distributing, Released(s)}
  BY DEF Shift
<1>3. /\ Tail(buffer[s]) \in Seq(Numbered) /\ Len(buffer[s]) \in Nat
      /\ Len(Tail(buffer[s])) = Len(buffer[s]) - 1
  BY <1>1, <1>2, TailAscends
<1>4. /\ buffer' \in [Subscriber -> Seq(Numbered)] /\ buffer'[s] = Tail(buffer[s])
      /\ \A u \in Subscriber : u # s => buffer'[u] = buffer[u]
  BY <1>1, <1>2, <1>3
<1>5. ASSUME NEW u \in Plain \cup Resender
      PROVE  BufferOK(u)'
  <2>1. BufferOK(u) /\ u \in Subscriber /\ BufferSize \in Nat
    BY PipelineAssumption DEF PipelineIInv, Subscriber
  <2>2. CASE u = s
    <3>1. Len(buffer'[u]) < BufferSize
      BY <1>3, <1>4, <2>1, <2>2 DEF BufferOK
    <3> QED BY <1>3, <1>4, <2>1, <2>2, <3>1 DEF BufferOK
  <2>3. CASE u # s
    <3>1. buffer'[u] = buffer[u]
      BY <1>4, <2>1, <2>3
    <3>2. distributing # Nobody /\ u \in distributing.to =>
            distributing' # Nobody /\ u \in distributing'.to
      BY <1>1, <1>2, <2>3, ReleaseTyped
    <3> QED BY <2>1, <3>1, <3>2, BufferSame
  <2> QED BY <2>2, <2>3
<1>6. distributing' \in Distribution \cup {Nobody}
  BY <1>1, <1>2, ReleaseTyped
<1> QED BY <1>1, <1>2, <1>4, <1>5, <1>6

LEMMA ConsumeKeeps ==
  ASSUME PipelineIInv, NEW s \in Subscriber, Consume(s)
  PROVE  PipelineIInv'
<1> DEFINE h  == Head(buffer[s])
           C  == ToSet(consumed[s])
           B  == ToSet(buffer[s])
<1>1. PipelineTypeOK /\ SessionOK
  BY DEF PipelineIInv
<1>2. /\ s \in members /\ s \notin Resender /\ Shift(s)
      /\ consumed' = [consumed EXCEPT ![s] = Append(@, h)]
      /\ UNCHANGED <<published, heard, order, work, output, members, phase, resent, own, out, failed,
                     skipped>>
  BY DEF Consume, resendVars
<1>3. /\ buffer' \in [Subscriber -> Seq(Numbered)] /\ distributing' \in Distribution \cup {Nobody}
      /\ \A u \in Plain \cup Resender : BufferOK(u)'
      /\ \A u \in Subscriber : u # s => buffer'[u] = buffer[u]
      /\ buffer'[s] = Tail(buffer[s]) /\ buffer[s] # <<>> /\ buffer[s] \in Seq(Numbered)
  BY <1>2, ShiftKeeps
<1>4. /\ h \in Numbered /\ h \in B /\ B = {h} \cup ToSet(buffer'[s])
      /\ Ascending(buffer[s]) => Ascending(buffer'[s]) /\ Below({h}, ToSet(buffer'[s]))
  BY <1>3, TailAscends
<1> HIDE DEF h
<1>5. /\ consumed[s] \in Seq(Numbered) /\ consumed \in [Subscriber -> Seq(Numbered)]
      /\ C \subseteq Numbered /\ B \subseteq Numbered /\ InSession \subseteq Numbered
      /\ \A c \in Chain : order[c] \in ChainState
  BY <1>1, PipelineTyped DEF PipelineTypeOK
<1>6. /\ Append(consumed[s], h) \in Seq(Numbered) /\ ToSet(Append(consumed[s], h)) = C \cup {h}
      /\ Ascending(consumed[s]) /\ Below(C, {h}) => Ascending(Append(consumed[s], h))
  BY <1>4, <1>5, AppendAscends
<1>7. /\ consumed' \in [Subscriber -> Seq(Numbered)] /\ consumed'[s] = Append(consumed[s], h)
      /\ \A u \in Subscriber : u # s => consumed'[u] = consumed[u]
  BY <1>2, <1>5, <1>6
<1>8. SessionOK' /\ InSession' = InSession
  BY <1>1, <1>2, SessionSame
<1>9. Excused' = Excused
  BY <1>2 DEF Excused
<1>10. ASSUME s \in Plain
       PROVE  PlainOK(s)'
  <2>1. /\ Ascending(consumed[s]) /\ Ascending(buffer[s]) /\ Below(C, B)
        /\ Below(C \cup B, InSession) /\ (C \cup B) \cap Bad = {}
        /\ Within(C \cup B, order)
        /\ Whole(InSession \cup (C \cup B), order, Excused)
    BY <1>2, <1>10 DEF PlainOK, PipelineIInv
  <2>2. C' = C \cup {h} /\ B = {h} \cup B' /\ C' \cup B' = C \cup B /\ B' \subseteq B
    BY <1>4, <1>6, <1>7
  <2>3. Below(C, {h}) /\ Below({h}, B')
    BY <1>4, <2>1, <2>2 DEF Below
  <2>4. Ascending(consumed[s])' /\ Ascending(buffer[s])'
    BY <1>4, <1>6, <1>7, <2>1, <2>3
  <2>5. Below(C, B)'
    BY <2>1, <2>2, <2>3 DEF Below
  <2>6. /\ Below(C \cup B, InSession)' /\ ((C \cup B) \cap Bad = {})' /\ Within(C \cup B, order)'
        /\ Whole(InSession \cup (C \cup B), order, Excused)'
    BY <1>2, <1>8, <1>9, <2>1, <2>2
  <2>7. HoleFree(s)'
    <3> SUFFICES ASSUME NEW m \in C', NEW n \in C', m[1] = n[1], m[2] < n[2],
                        NEW k \in m[2] + 1 .. n[2] - 1
                 PROVE  <<m[1], k>> \in C' \cup Excused'
      BY DEF HoleFree
    <3> DEFINE D == C'
               R == B' \cup InSession
    <3>1. Below(D, R)
      BY <1>8, <2>5, <2>6 DEF Below
    <3>2. Within(D, order)
      BY <1>2, <2>6 DEF Within
    <3>3. D \cup R = InSession \cup (C \cup B)
      BY <2>2
    <3>4. D \subseteq Numbered /\ R \subseteq Numbered
      BY <1>4, <1>5, <2>2
    <3>5. Whole(D \cup R, order, Excused)
      BY <2>1, <3>3
    <3> HIDE DEF D, R
    <3>6. m \in D /\ n \in D
      BY DEF D
    <3>7. <<m[1], k>> \in D \cup Excused
      BY <1>5, <3>1, <3>2, <3>4, <3>5, <3>6, NoneMissing
    <3> QED BY <1>9, <3>7 DEF D
  <2> QED BY <1>2, <2>4, <2>5, <2>6, <2>7 DEF PlainOK
<1>11. ASSUME NEW u \in Plain, u # s
       PROVE  PlainOK(u)'
  <2>1. u \in Subscriber /\ PlainOK(u)
    BY DEF Subscriber, PipelineIInv
  <2> QED BY <1>2, <1>3, <1>7, <1>8, <1>11, <2>1, PlainSame
<1>12. \A r \in Resender : ResenderOK(r)'
  <2>1. \A r \in Resender : r \in Subscriber /\ r # s /\ ResenderOK(r)
    BY <1>2 DEF Subscriber, PipelineIInv
  <2> QED BY <1>2, <1>7, <2>1, ResenderSame
<1>13. PipelineTypeOK'
  BY <1>1, <1>2, <1>3, <1>7 DEF PipelineTypeOK
<1> QED BY <1>3, <1>8, <1>10, <1>11, <1>12, <1>13 DEF PipelineIInv

LEMMA MemberJoins ==
  ASSUME PipelineIInv, NEW s \in Subscriber, Join(s)
  PROVE  PipelineIInv'
<1>1. PipelineTypeOK /\ SessionOK
  BY DEF PipelineIInv
<1>2. /\ s \notin members /\ consumed[s] = <<>> /\ buffer[s] = <<>> /\ members' = members \cup {s}
      /\ UNCHANGED <<published, heard, order, work, output, distributing, buffer, phase, resent, own,
                     out, consumed, failed, skipped>>
  BY DEF Join, sessionVars, resendVars
<1>3. SessionOK' /\ InSession' = InSession
  BY <1>1, <1>2, SessionSame
<1>4. ASSUME NEW u \in Plain
      PROVE  PlainOK(u)'
  <2>1. PlainOK(u)
    BY DEF PipelineIInv
  <2>2. CASE u # s
    BY <1>2, <1>3, <2>1, <2>2, PlainSame
  <2>3. CASE u = s
    <3>1. Whole(InSession, order, Excused) /\ ToSet(<<>>) = {}
      BY <1>1, SetOfSeq, EmptySeq DEF SessionOK
    <3>2. InSession \cup (ToSet(consumed[u]) \cup ToSet(buffer[u])) = InSession
      BY <1>2, <2>3, <3>1
    <3>3. Whole(InSession \cup (ToSet(consumed[u]) \cup ToSet(buffer[u])), order, Excused)'
      <4>1. Excused' = Excused
        BY <1>2 DEF Excused
      <4> QED BY <1>2, <1>3, <3>1, <3>2, <4>1
    <3>4. Below(ToSet(consumed[u]) \cup ToSet(buffer[u]), InSession)' /\ HoleFree(u)'
      BY <1>2, <1>3, <2>1 DEF PlainOK, HoleFree, Excused
    <3> QED BY <1>2, <2>1, <2>3, <3>3, <3>4 DEF PlainOK
  <2> QED BY <2>2, <2>3
<1>5. \A r \in Resender : ResenderOK(r)'
  BY <1>2, ResenderSame DEF PipelineIInv
<1>6. \A u \in Plain \cup Resender : BufferOK(u)'
  BY <1>2, BufferSame DEF PipelineIInv
<1>7. PipelineTypeOK'
  BY <1>1, <1>2 DEF PipelineTypeOK
<1> QED BY <1>3, <1>4, <1>5, <1>6, <1>7 DEF PipelineIInv

LEMMA MemberEnds ==
  ASSUME PipelineIInv, NEW s \in Subscriber, End(s)
  PROVE  PipelineIInv'
<1>1. PipelineTypeOK /\ SessionOK /\ buffer \in [Subscriber -> Seq(Numbered)]
  BY DEF PipelineIInv, PipelineTypeOK
<1>2. /\ members' = members \ {s} /\ buffer' = [buffer EXCEPT ![s] = <<>>]
      /\ distributing' = Released(s)
      /\ UNCHANGED <<published, heard, order, work, output, phase, resent, own, out, consumed, failed,
                     skipped>>
  BY DEF End, resendVars
<1>3. /\ <<>> \in Seq(Numbered) /\ Len(<<>>) = 0 /\ ToSet(<<>>) = {} /\ Ascending(<<>>)
  BY EmptySeq, SetOfSeq
<1>4. /\ buffer' \in [Subscriber -> Seq(Numbered)] /\ buffer'[s] = <<>>
      /\ \A u \in Subscriber : u # s => buffer'[u] = buffer[u]
  BY <1>1, <1>2, <1>3
<1>5. SessionOK' /\ InSession' = InSession
  BY <1>1, <1>2, SessionSame
<1>6. ASSUME NEW u \in Plain
      PROVE  PlainOK(u)'
  <2>1. PlainOK(u) /\ u \in Subscriber
    BY DEF PipelineIInv, Subscriber
  <2>2. CASE u # s
    BY <1>2, <1>4, <1>5, <2>1, <2>2, PlainSame
  <2>3. CASE u = s
    <3>1. ToSet(buffer'[u]) = {} /\ Ascending(buffer'[u]) /\ u \notin members'
      BY <1>2, <1>3, <1>4, <2>3
    <3>2. HoleFree(u)'
      BY <1>2, <2>1 DEF PlainOK, HoleFree, Excused
    <3>3. /\ Below(ToSet(consumed[u]), ToSet(buffer[u]))'
          /\ Below(ToSet(consumed[u]) \cup ToSet(buffer[u]), InSession)'
          /\ Within(ToSet(consumed[u]) \cup ToSet(buffer[u]), order)'
      BY <1>2, <1>5, <2>1, <3>1 DEF PlainOK, Below, Within
    <3>4. /\ ((ToSet(consumed[u]) \cup ToSet(buffer[u])) \cap Bad = {})'
          /\ Ascending(consumed[u])'
      BY <1>2, <2>1, <3>1 DEF PlainOK
    <3> QED BY <1>4, <2>3, <3>1, <3>2, <3>3, <3>4 DEF PlainOK
  <2> QED BY <2>2, <2>3
<1>7. \A r \in Resender : ResenderOK(r)'
  BY <1>2, ResenderSame DEF PipelineIInv
<1>8. ASSUME NEW u \in Plain \cup Resender
      PROVE  BufferOK(u)'
  <2>1. BufferOK(u) /\ u \in Subscriber /\ BufferSize \in Nat \ {0}
    BY PipelineAssumption DEF PipelineIInv, Subscriber
  <2>2. CASE u = s
    <3>1. Len(buffer'[u]) = 0
      BY <1>3, <1>4, <2>2
    <3> QED BY <2>1, <3>1 DEF BufferOK
  <2>3. CASE u # s
    <3>1. distributing # Nobody /\ u \in distributing.to =>
            distributing' # Nobody /\ u \in distributing'.to
      BY <1>1, <1>2, <2>3, ReleaseTyped
    <3> QED BY <1>4, <2>1, <2>3, <3>1, BufferSame
  <2> QED BY <2>2, <2>3
<1>9. PipelineTypeOK'
  <2>1. distributing' \in Distribution \cup {Nobody}
    BY <1>1, <1>2, ReleaseTyped
  <2>2. members' \subseteq Subscriber
    BY <1>1, <1>2 DEF PipelineTypeOK
  <2> QED BY <1>1, <1>2, <1>4, <2>1, <2>2 DEF PipelineTypeOK
<1> QED BY <1>5, <1>6, <1>7, <1>8, <1>9 DEF PipelineIInv

-----------------------------------------------------------------------------
(* The steps of a subscription with a resend.                              *)

\* A chain of r emits messages into its buffer.
OwnGoes(r, c, new, emits, gap) ==
  /\ Goes(c, own[r][c], new, emits, gap) /\ gap \subseteq Numbered
  /\ own' = [own EXCEPT ![r][c] = new] /\ out' = [out EXCEPT ![r] = @ \o emits]
  /\ consumed' = consumed /\ failed' = failed /\ skipped' = skipped \cup gap

LEMMA OwnMoves ==
  ASSUME PipelineTypeOK, \A q \in Resender : ResenderOK(q), NEW r \in Resender, NEW c \in Chain,
         NEW new, NEW emits, NEW gap, OwnGoes(r, c, new, emits, gap)
  PROVE  /\ own' \in [Resender -> [Chain -> ChainState]] /\ out' \in [Resender -> Seq(Numbered)]
         /\ skipped' \subseteq Numbered
         /\ \A q \in Resender : ResenderOK(q)'
<1> DEFINE C == ToSet(consumed[r])
           O == ToSet(out[r])
           S == C \cup O
           E == ToSet(emits)
<1>1. /\ Goes(c, own[r][c], new, emits, gap) /\ gap \subseteq Numbered
      /\ own' = [own EXCEPT ![r][c] = new] /\ out' = [out EXCEPT ![r] = @ \o emits]
      /\ consumed' = consumed /\ skipped' = skipped \cup gap
  BY DEF OwnGoes
<1>2. /\ own \in [Resender -> [Chain -> ChainState]] /\ out \in [Resender -> Seq(Numbered)]
      /\ own[r] \in [Chain -> ChainState] /\ out[r] \in Seq(Numbered)
      /\ S \subseteq Numbered /\ skipped \subseteq Numbered
  BY PipelineTyped DEF PipelineTypeOK, Subscriber
<1>3. /\ ChainOK(new) /\ new \in ChainState /\ emits \in Seq(Numbered) /\ Ascending(emits)
  BY <1>1 DEF Goes, ChainOK
<1>4. /\ \A d \in Chain : ChainOK(own[r][d])
      /\ Ascending(consumed[r]) /\ Ascending(out[r]) /\ Below(C, O)
      /\ Within(S, own[r]) /\ Whole(S, own[r], skipped)
  BY DEF ResenderOK
<1>5. /\ own'[r] = [own[r] EXCEPT ![c] = new]
      /\ \A q \in Resender : q # r => own'[q] = own[q]
  BY <1>1, <1>2
<1>6. own' \in [Resender -> [Chain -> ChainState]]
  BY <1>1, <1>2, <1>3
<1>7. \A d \in Chain : ChainOK(own'[r][d])
  BY <1>2, <1>3, <1>4, <1>5
<1>8. /\ Within(S \cup E, own'[r]) /\ Below(S, E) /\ Whole(S \cup E, own'[r], skipped')
  <2> HIDE DEF S
  <2>1. GoesOn(S, skipped, c, own[r], new, emits, gap)
    BY <1>1, <1>2, <1>4, EmittedNext
  <2> QED BY <1>1, <1>4, <1>5, <2>1 DEF GoesOn
<1>9. Below(O, E)
  BY <1>8 DEF Below
<1>10. /\ out[r] \o emits \in Seq(Numbered) /\ ToSet(out[r] \o emits) = O \cup E
       /\ Ascending(out[r] \o emits)
  BY <1>2, <1>3, <1>4, <1>9, ConcatAscends
<1>11. /\ out' \in [Resender -> Seq(Numbered)] /\ out'[r] = out[r] \o emits
       /\ \A q \in Resender : q # r => out'[q] = out[q]
  BY <1>1, <1>2, <1>10
<1>12. C' = C /\ O' = O \cup E /\ C \cup O' = S \cup E
  BY <1>1, <1>10, <1>11
<1>13. Below(C, O)'
  BY <1>4, <1>8, <1>12 DEF Below
<1>14. ResenderOK(r)'
  BY <1>1, <1>4, <1>7, <1>8, <1>10, <1>11, <1>12, <1>13 DEF ResenderOK
<1>15. ASSUME NEW q \in Resender, q # r
       PROVE  ResenderOK(q)'
  BY <1>1, <1>5, <1>11, <1>15, ResenderSame
<1>16. skipped' \subseteq Numbered
  BY <1>1, <1>2
<1> QED BY <1>6, <1>11, <1>14, <1>15, <1>16

\* A message enters the chain of r it belongs to.
LEMMA EnterOwnGoes ==
  ASSUME NEW r \in Resender, ResenderOK(r), NEW m \in Numbered, EnterOwn(r, m),
         UNCHANGED <<consumed, failed, skipped>>
  PROVE  /\ m[1] \in Chain
         /\ OwnGoes(r, m[1], AddToChain(own[r][m[1]], m).chain, AddToChain(own[r][m[1]], m).emits, {})
<1>1. m[1] \in Chain
  BY DEF Numbered
<1>2. ChainOK(own[r][m[1]])
  BY <1>1 DEF ResenderOK
<1>3. Goes(m[1], own[r][m[1]], AddToChain(own[r][m[1]], m).chain,
           AddToChain(own[r][m[1]], m).emits, {})
  BY <1>2, AddGoes
<1>4. skipped' = skipped \cup {}
  OBVIOUS
<1> QED BY <1>1, <1>3, <1>4 DEF OwnGoes, EnterOwn

\* The session and the subscriptions without a resend take no part in it.
LEMMA OthersRest ==
  ASSUME PipelineIInv, UNCHANGED <<order, work, output, members, consumed>>,
         \A s \in Plain : buffer'[s] = buffer[s], failed \subseteq failed', skipped \subseteq skipped'
  PROVE  SessionOK' /\ \A s \in Plain : PlainOK(s)'
<1>1. SessionOK' /\ InSession' = InSession
  BY SessionSame DEF PipelineIInv
<1> QED BY <1>1, PlainSame DEF PipelineIInv

\* There are finitely many messages.
LEMMA FinitelyMany == IsFiniteSet(Msg)
<1> DEFINE Of(c) == {c} \X (1 .. LengthOf[c])
           all   == {Of(c) : c \in Chain}
<1>1. \A c \in Chain : IsFiniteSet(Of(c))
  <2> SUFFICES ASSUME NEW c \in Chain
               PROVE  IsFiniteSet(Of(c))
    OBVIOUS
  <2>1. LengthOf[c] \in Int
    BY PipelineAssumption
  <2>2. IsFiniteSet({c})
    BY FS_Singleton
  <2>3. IsFiniteSet(1 .. LengthOf[c])
    BY <2>1, FS_Interval
  <2> QED BY <2>2, <2>3, FS_Product
<1>2. IsFiniteSet(all)
  <2> DEFINE f == [c \in Chain |-> Of(c)]
  <2>1. f \in [Chain -> all] /\ \A t \in all : \E c \in Chain : f[c] = t
    OBVIOUS
  <2> HIDE DEF f, all
  <2>2. f \in Surjection(Chain, all)
    BY <2>1, Fun_IsSurj
  <2> QED BY <2>2, PipelineAssumption, FS_Surjection
<1>3. \A T \in all : IsFiniteSet(T)
  BY <1>1
<1> HIDE DEF all
<1>4. IsFiniteSet(UNION all)
  BY <1>2, <1>3, FS_UNION
<1> QED BY <1>4 DEF Msg, all

LEMMA ResendStartKeeps ==
  ASSUME PipelineIInv, NEW r \in Resender, ResendStart(r)
  PROVE  PipelineIInv'
<1> DEFINE there == {m \in Msg : m[2] <= published[m[1]]}
<1>1. PipelineTypeOK /\ phase \in [Resender -> {"new", "resend", "realtime"}]
      /\ resent \in [Resender -> Seq(Numbered)]
  BY DEF PipelineIInv, PipelineTypeOK
<1>2. /\ phase' = [phase EXCEPT ![r] = "resend"]
      /\ \E stored \in Orders(there) : resent' = [resent EXCEPT ![r] = stored]
      /\ UNCHANGED <<published, heard, order, work, output, distributing, members, buffer, own, out,
                     consumed, failed, skipped>>
  BY DEF ResendStart, sessionVars
<1>3. PICK stored \in Orders(there) : resent' = [resent EXCEPT ![r] = stored]
  BY <1>2
<1>4. stored \in Seq(Numbered)
  <2>1. there \subseteq Msg /\ there \subseteq Numbered
    BY DEF Msg, Numbered
  <2> HIDE DEF there
  <2>2. IsFiniteSet(there)
    BY <2>1, FinitelyMany, FS_Subset
  <2>3. Cardinality(there) \in Nat
    BY <2>2, FS_CardinalityType
  <2>4. stored \in [1 .. Cardinality(there) -> there]
    BY DEF Orders
  <2>5. stored \in [1 .. Cardinality(there) -> Numbered]
    BY <2>1, <2>4
  <2> QED BY <2>3, <2>5
<1>5. PipelineTypeOK'
  <2>1. resent' \in [Resender -> Seq(Numbered)]
    BY <1>1, <1>3, <1>4
  <2>2. phase' \in [Resender -> {"new", "resend", "realtime"}]
    BY <1>1, <1>2
  <2> QED BY <1>1, <1>2, <2>1, <2>2 DEF PipelineTypeOK
<1>6. PipelineParts'
  BY <1>2, NothingMoves
<1> QED BY <1>5, <1>6 DEF PipelineIInv, PipelineParts

LEMMA ResendNextKeeps ==
  ASSUME PipelineIInv, NEW r \in Resender, ResendNext(r)
  PROVE  PipelineIInv'
<1> DEFINE m == Head(resent[r])
<1>1. /\ PipelineTypeOK /\ resent \in [Resender -> Seq(Numbered)] /\ resent[r] \in Seq(Numbered)
      /\ failed \subseteq Numbered
  BY DEF PipelineIInv, PipelineTypeOK
<1>2. /\ resent[r] # <<>> /\ resent' = [resent EXCEPT ![r] = Tail(@)]
      /\ UNCHANGED <<published, heard, order, work, output, distributing, members, buffer, phase,
                     consumed, skipped>>
      /\ \/ failed' = failed \cup {m} /\ UNCHANGED <<own, out>>
         \/ EnterOwn(r, m) /\ UNCHANGED failed
  BY DEF ResendNext, sessionVars
<1>3. m \in Numbered /\ Tail(resent[r]) \in Seq(Numbered)
  BY <1>1, <1>2, TailAscends
<1>4. resent' \in [Resender -> Seq(Numbered)]
  BY <1>1, <1>2, <1>3
<1> HIDE DEF m
<1>5. CASE failed' = failed \cup {m} /\ UNCHANGED <<own, out>>
  <2>1. PipelineParts'
    BY <1>2, <1>5, NothingMoves
  <2>2. PipelineTypeOK'
    BY <1>1, <1>2, <1>3, <1>4, <1>5 DEF PipelineTypeOK
  <2> QED BY <2>1, <2>2 DEF PipelineIInv, PipelineParts
<1>6. CASE EnterOwn(r, m) /\ UNCHANGED failed
  <2>1. \A q \in Resender : ResenderOK(q)
    BY DEF PipelineIInv
  <2>2. /\ \A q \in Resender : ResenderOK(q)' /\ own' \in [Resender -> [Chain -> ChainState]]
        /\ out' \in [Resender -> Seq(Numbered)]
    BY <1>1, <1>2, <1>3, <1>6, <2>1, EnterOwnGoes, OwnMoves
  <2>3. SessionOK' /\ \A s \in Plain : PlainOK(s)'
    BY <1>2, <1>6, OthersRest
  <2>4. \A s \in Plain \cup Resender : BufferOK(s)'
    BY <1>2, BufferSame DEF PipelineIInv
  <2>5. PipelineTypeOK'
    BY <1>1, <1>2, <1>4, <1>6, <2>2 DEF PipelineTypeOK
  <2> QED BY <2>2, <2>3, <2>4, <2>5 DEF PipelineIInv
<1> QED BY <1>2, <1>5, <1>6

LEMMA ResendEndKeeps ==
  ASSUME PipelineIInv, NEW r \in Resender, ResendEnd(r)
  PROVE  PipelineIInv'
<1>1. PipelineTypeOK
  BY DEF PipelineIInv
<1>2. /\ phase' = [phase EXCEPT ![r] = "realtime"] /\ resent' = [resent EXCEPT ![r] = <<>>]
      /\ UNCHANGED <<published, heard, order, work, output, distributing, members, buffer, own, out,
                     consumed, failed, skipped>>
  BY DEF ResendEnd, sessionVars
<1>3. PipelineTypeOK'
  <2>1. <<>> \in Seq(Numbered)
    BY EmptySeq
  <2> QED BY <1>1, <1>2, <2>1 DEF PipelineTypeOK
<1>4. PipelineParts'
  BY <1>2, NothingMoves
<1> QED BY <1>3, <1>4 DEF PipelineIInv, PipelineParts

LEMMA RealtimeKeeps ==
  ASSUME PipelineIInv, NEW r \in Resender, Realtime(r)
  PROVE  PipelineIInv'
<1> DEFINE m == Head(buffer[r])
<1>1. PipelineTypeOK /\ \A q \in Resender : ResenderOK(q)
  BY DEF PipelineIInv
<1>2. /\ Shift(r) /\ EnterOwn(r, m)
      /\ UNCHANGED <<published, heard, order, work, output, members, phase, resent, consumed, failed,
                     skipped>>
  BY DEF Realtime
<1>3. r \in Subscriber
  BY DEF Subscriber
<1>4. /\ buffer' \in [Subscriber -> Seq(Numbered)] /\ distributing' \in Distribution \cup {Nobody}
      /\ \A u \in Plain \cup Resender : BufferOK(u)'
      /\ \A u \in Subscriber : u # r => buffer'[u] = buffer[u]
      /\ buffer[r] # <<>> /\ buffer[r] \in Seq(Numbered)
  BY <1>2, <1>3, ShiftKeeps
<1>5. m \in Numbered
  BY <1>4, TailAscends
<1> HIDE DEF m
<1>6. /\ \A q \in Resender : ResenderOK(q)' /\ own' \in [Resender -> [Chain -> ChainState]]
      /\ out' \in [Resender -> Seq(Numbered)]
  BY <1>1, <1>2, <1>5, EnterOwnGoes, OwnMoves
<1>7. \A s \in Plain : buffer'[s] = buffer[s]
  BY <1>4, PipelineAssumption DEF Subscriber
<1>8. SessionOK' /\ \A s \in Plain : PlainOK(s)'
  BY <1>2, <1>7, OthersRest
<1>9. PipelineTypeOK'
  BY <1>1, <1>2, <1>4, <1>6 DEF PipelineTypeOK
<1> QED BY <1>4, <1>6, <1>8, <1>9 DEF PipelineIInv

LEMMA FillOwnGapKeeps ==
  ASSUME PipelineIInv, NEW r \in Resender, NEW c \in Chain, FillOwnGap(r, c)
  PROVE  PipelineIInv'
<1> DEFINE m == <<c, own[r][c].last + 1>>
<1>1. PipelineTypeOK /\ \A q \in Resender : ResenderOK(q)
  BY DEF PipelineIInv
<1>2. /\ EnterOwn(r, m)
      /\ UNCHANGED <<published, heard, order, work, output, distributing, members, buffer, phase,
                     resent, consumed, failed, skipped>>
  BY DEF FillOwnGap, sessionVars
<1>3. m \in Numbered
  <2>1. own[r][c].last \in Nat
    BY <1>1, PipelineTyped DEF ChainState
  <2> QED BY <2>1 DEF Numbered
<1> HIDE DEF m
<1>4. /\ \A q \in Resender : ResenderOK(q)' /\ own' \in [Resender -> [Chain -> ChainState]]
      /\ out' \in [Resender -> Seq(Numbered)]
  BY <1>1, <1>2, <1>3, EnterOwnGoes, OwnMoves
<1>5. SessionOK' /\ \A s \in Plain : PlainOK(s)'
  BY <1>2, OthersRest
<1>6. \A s \in Plain \cup Resender : BufferOK(s)'
  BY <1>2, BufferSame DEF PipelineIInv
<1>7. PipelineTypeOK'
  BY <1>1, <1>2, <1>4 DEF PipelineTypeOK
<1> QED BY <1>4, <1>5, <1>6, <1>7 DEF PipelineIInv

LEMMA LeaveOwnGapKeeps ==
  ASSUME PipelineIInv, NEW r \in Resender, NEW c \in Chain, LeaveOwnGap(r, c)
  PROVE  PipelineIInv'
<1> DEFINE on  == GiveUp(c, own[r][c])
           gap == Gap(c, own[r][c])
<1>1. /\ PipelineTypeOK /\ \A q \in Resender : ResenderOK(q)
      /\ ChainOK(own[r][c])
  BY DEF PipelineIInv, ResenderOK
<1>2. /\ own[r][c].waiting # {}
      /\ own' = [own EXCEPT ![r][c] = on.chain] /\ out' = [out EXCEPT ![r] = @ \o on.emits]
      /\ skipped' = skipped \cup gap
      /\ UNCHANGED <<published, heard, order, work, output, distributing, members, buffer, phase,
                     resent, consumed, failed>>
  BY DEF LeaveOwnGap, sessionVars
<1>3. Goes(c, own[r][c], on.chain, on.emits, gap) /\ gap \subseteq Numbered
  BY <1>1, <1>2, GiveUpGoes
<1> HIDE DEF on, gap
<1>4. OwnGoes(r, c, on.chain, on.emits, gap)
  BY <1>2, <1>3 DEF OwnGoes
<1>5. /\ \A q \in Resender : ResenderOK(q)' /\ own' \in [Resender -> [Chain -> ChainState]]
      /\ out' \in [Resender -> Seq(Numbered)] /\ skipped' \subseteq Numbered
  BY <1>1, <1>4, OwnMoves
<1>6. SessionOK' /\ \A s \in Plain : PlainOK(s)'
  BY <1>2, OthersRest
<1>7. \A s \in Plain \cup Resender : BufferOK(s)'
  BY <1>2, BufferSame DEF PipelineIInv
<1>8. PipelineTypeOK'
  BY <1>1, <1>2, <1>5 DEF PipelineTypeOK
<1> QED BY <1>5, <1>6, <1>7, <1>8 DEF PipelineIInv

LEMMA ConsumeOrderedKeeps ==
  ASSUME PipelineIInv, NEW r \in Resender, ConsumeOrdered(r)
  PROVE  PipelineIInv'
<1> DEFINE h == Head(out[r])
           C == ToSet(consumed[r])
           O == ToSet(out[r])
<1>1. PipelineTypeOK /\ ResenderOK(r) /\ r \in Subscriber
  BY DEF PipelineIInv, Subscriber
<1>2. /\ out[r] # <<>> /\ out' = [out EXCEPT ![r] = Tail(@)]
      /\ consumed' = [consumed EXCEPT ![r] = Append(@, h)]
      /\ UNCHANGED <<published, heard, order, work, output, distributing, members, buffer, phase,
                     resent, own, failed, skipped>>
  BY DEF ConsumeOrdered, sessionVars
<1>3. /\ out \in [Resender -> Seq(Numbered)] /\ out[r] \in Seq(Numbered)
      /\ consumed \in [Subscriber -> Seq(Numbered)] /\ consumed[r] \in Seq(Numbered)
  BY <1>1 DEF PipelineTypeOK
<1>4. /\ h \in Numbered /\ h \in O /\ Tail(out[r]) \in Seq(Numbered)
      /\ O = {h} \cup ToSet(Tail(out[r]))
      /\ Ascending(out[r]) => Ascending(Tail(out[r])) /\ Below({h}, ToSet(Tail(out[r])))
  BY <1>2, <1>3, TailAscends
<1> HIDE DEF h
<1>5. /\ Append(consumed[r], h) \in Seq(Numbered) /\ ToSet(Append(consumed[r], h)) = C \cup {h}
      /\ Ascending(consumed[r]) /\ Below(C, {h}) => Ascending(Append(consumed[r], h))
  BY <1>3, <1>4, AppendAscends
<1>6. /\ out' \in [Resender -> Seq(Numbered)] /\ consumed' \in [Subscriber -> Seq(Numbered)]
      /\ out'[r] = Tail(out[r]) /\ consumed'[r] = Append(consumed[r], h)
      /\ \A q \in Resender : q # r => out'[q] = out[q]
      /\ \A u \in Subscriber : u # r => consumed'[u] = consumed[u]
  BY <1>1, <1>2, <1>3, <1>4, <1>5
<1>7. /\ \A c \in Chain : ChainOK(own[r][c])
      /\ Ascending(consumed[r]) /\ Ascending(out[r]) /\ Below(C, O)
      /\ Within(C \cup O, own[r]) /\ Whole(C \cup O, own[r], skipped)
  BY <1>1 DEF ResenderOK
<1>8. C' = C \cup {h} /\ O = {h} \cup O' /\ C' \cup O' = C \cup O
  BY <1>4, <1>5, <1>6
<1>9. Below(C, {h}) /\ Below({h}, O')
  BY <1>4, <1>6, <1>7 DEF Below
<1>10. Ascending(consumed[r])' /\ Ascending(out[r])'
  BY <1>4, <1>5, <1>6, <1>7, <1>9
<1>11. Below(C, O)'
  BY <1>7, <1>8, <1>9 DEF Below
<1>12. Within(C \cup O, own[r])' /\ Whole(C \cup O, own[r], skipped)'
  BY <1>2, <1>7, <1>8
<1>13. ResenderOK(r)'
  BY <1>2, <1>7, <1>10, <1>11, <1>12 DEF ResenderOK
<1>14. ASSUME NEW q \in Resender, q # r
       PROVE  ResenderOK(q)'
  <2>1. ResenderOK(q) /\ q \in Subscriber
    BY DEF PipelineIInv, Subscriber
  <2> QED BY <1>2, <1>6, <1>14, <2>1, ResenderSame
<1>15. SessionOK' /\ InSession' = InSession
  BY <1>2, SessionSame DEF PipelineIInv
<1>16. ASSUME NEW s \in Plain
       PROVE  PlainOK(s)'
  <2>1. PlainOK(s) /\ s \in Subscriber /\ s # r
    BY PipelineAssumption DEF PipelineIInv, Subscriber
  <2> QED BY <1>2, <1>6, <1>15, <2>1, PlainSame
<1>17. \A s \in Plain \cup Resender : BufferOK(s)'
  BY <1>2, BufferSame DEF PipelineIInv
<1>18. PipelineTypeOK'
  BY <1>1, <1>2, <1>6 DEF PipelineTypeOK
<1> QED BY <1>13, <1>14, <1>15, <1>16, <1>17, <1>18 DEF PipelineIInv

-----------------------------------------------------------------------------
LEMMA PipelineStart == PipelineInit => PipelineIInv
<1> SUFFICES ASSUME PipelineInit
             PROVE  PipelineIInv
  OBVIOUS
<1> DEFINE none == [last |-> 0, waiting |-> {}]
<1>1. /\ published = [c \in Chain |-> 0] /\ heard = {} /\ order = [c \in Chain |-> none]
      /\ work = [c \in Chain |-> <<>>] /\ output = <<>> /\ distributing = Nobody
      /\ members = {} /\ buffer = [s \in Subscriber |-> <<>>]
      /\ phase = [r \in Resender |-> "new"] /\ resent = [r \in Resender |-> <<>>]
      /\ own = [r \in Resender |-> [c \in Chain |-> none]]
      /\ out = [r \in Resender |-> <<>>]
      /\ consumed = [s \in Subscriber |-> <<>>] /\ failed = {} /\ skipped = {}
  BY DEF PipelineInit
<1>2. /\ <<>> \in Seq(Numbered) /\ Len(<<>>) = 0 /\ ToSet(<<>>) = {} /\ Ascending(<<>>)
  BY EmptySeq, SetOfSeq
<1>3. none \in ChainState /\ ChainOK(none)
  <2>1. IsFiniteSet({})
    BY FS_EmptySet
  <2> QED BY <2>1 DEF ChainState, ChainOK
<1> HIDE DEF none
<1>4. PipelineTypeOK
  BY <1>1, <1>2, <1>3 DEF PipelineTypeOK
<1>5. \A c \in Chain : order[c] = none /\ work[c] = <<>>
  BY <1>1
<1>6. Working = {} /\ InSession = {}
  BY <1>1, <1>2, <1>5 DEF Working, InSession
<1>7. SessionOK
  BY <1>1, <1>2, <1>3, <1>5, <1>6 DEF SessionOK, Below, Within, Whole
<1>8. \A s \in Subscriber : consumed[s] = <<>> /\ buffer[s] = <<>>
  BY <1>1
<1>9. \A s \in Plain : PlainOK(s)
  BY <1>1, <1>2, <1>6, <1>8 DEF PlainOK, HoleFree, Below, Within, Whole, Subscriber
<1>10. ASSUME NEW r \in Resender
       PROVE  ResenderOK(r)
  <2>1. out[r] = <<>> /\ consumed[r] = <<>> /\ \A c \in Chain : own[r][c] = none
    BY <1>1, <1>8 DEF Subscriber
  <2> QED BY <1>2, <1>3, <2>1 DEF ResenderOK, Below, Within, Whole
<1>11. \A s \in Plain \cup Resender : BufferOK(s)
  <2>1. BufferSize \in Nat /\ BufferSize # 0
    BY PipelineAssumption
  <2>2. \A s \in Plain \cup Resender : Len(buffer[s]) = 0
    BY <1>2, <1>8 DEF Subscriber
  <2> QED BY <2>1, <2>2 DEF BufferOK
<1> QED BY <1>4, <1>7, <1>9, <1>10, <1>11 DEF PipelineIInv

LEMMA PipelineRests == PipelineIInv /\ UNCHANGED pipelineVars => PipelineIInv'
<1> SUFFICES ASSUME PipelineIInv, UNCHANGED pipelineVars
             PROVE  PipelineIInv'
  OBVIOUS
<1>1. UNCHANGED <<published, heard, order, work, output, distributing, members, buffer, phase, resent,
                  own, out, consumed, failed, skipped>>
  BY DEF pipelineVars, sessionVars, resendVars
<1>2. PipelineParts'
  BY <1>1, NothingMoves
<1>3. PipelineTypeOK'
  BY <1>1 DEF PipelineIInv, PipelineTypeOK
<1> QED BY <1>2, <1>3 DEF PipelineIInv, PipelineParts

LEMMA PipelineStep == PipelineIInv /\ [PipelineNext]_pipelineVars => PipelineIInv'
<1> SUFFICES ASSUME PipelineIInv, [PipelineNext]_pipelineVars
             PROVE  PipelineIInv'
  OBVIOUS
<1>1. CASE UNCHANGED pipelineVars
  BY <1>1, PipelineRests
<1>2. CASE \E c \in Chain : Publish(c)
  BY <1>2, PublishKeeps
<1>3. CASE \E m \in Msg : OnMessageInput(m)
  BY <1>3, InputKeeps
<1>4. CASE SessionStep
  BY <1>4, ProcessKeeps, ProcessFailsKeeps, FillGapKeeps, LeaveGapKeeps, DistributeKeeps,
     DistributedKeeps DEF SessionStep
<1>5. CASE \E s \in Subscriber : Join(s) \/ End(s)
  BY <1>5, MemberJoins, MemberEnds
<1>6. CASE \E s \in Subscriber : SubscriptionStep(s)
  <2>1. PICK s \in Subscriber : SubscriptionStep(s)
    BY <1>6
  <2>2. CASE Consume(s)
    BY <2>2, ConsumeKeeps
  <2>3. CASE s \in Resender /\ (ConsumeOrdered(s) \/ ResendStart(s) \/ ResendNext(s) \/ ResendEnd(s)
                                \/ Realtime(s))
    BY <2>3, ConsumeOrderedKeeps, ResendStartKeeps, ResendNextKeeps, ResendEndKeeps, RealtimeKeeps
  <2>4. CASE s \in Resender /\ \E c \in Chain : FillOwnGap(s, c) \/ LeaveOwnGap(s, c)
    BY <2>4, FillOwnGapKeeps, LeaveOwnGapKeeps
  <2> QED BY <2>1, <2>2, <2>3, <2>4 DEF SubscriptionStep
<1> QED BY <1>1, <1>2, <1>3, <1>4, <1>5, <1>6 DEF PipelineNext

\* The invariant says what the run checks.
LEMMA PipelineRight == PipelineIInv => PipelineInv
<1> SUFFICES ASSUME PipelineIInv
             PROVE  PipelineInv
  OBVIOUS
<1>1. PipelineTypeOK /\ SessionOK
  BY DEF PipelineIInv
<1>2. /\ \A c \in Chain : order[c] \in ChainState
      /\ \A s \in Subscriber : consumed[s] \in Seq(Numbered) /\ ToSet(consumed[s]) \subseteq Numbered
                               /\ ToSet(buffer[s]) \subseteq Numbered
      /\ \A r \in Resender : ToSet(out[r]) \subseteq Numbered
      /\ \A r \in Resender : \A c \in Chain : own[r][c] \in ChainState
      /\ InSession \subseteq Numbered
  BY <1>1, PipelineTyped
<1>3. ASSUME NEW s \in Plain \cup Resender
      PROVE  Ascending(consumed[s]) /\ Len(buffer[s]) <= BufferSize
  BY DEF PipelineIInv, PlainOK, ResenderOK, BufferOK
<1>4. ASSUME NEW s \in Plain \cup Resender
      PROVE  HoleFree(s)
  <2>1. CASE s \in Plain
    BY <2>1 DEF PipelineIInv, PlainOK
  <2>2. CASE s \in Resender
    <3> DEFINE C == ToSet(consumed[s])
               R == ToSet(out[s])
    <3> SUFFICES ASSUME NEW m \in C, NEW n \in C, m[1] = n[1], m[2] < n[2],
                        NEW k \in m[2] + 1 .. n[2] - 1
                 PROVE  <<m[1], k>> \in C \cup Excused
      BY DEF HoleFree
    <3>1. Below(C, R) /\ Within(C, own[s]) /\ Whole(C \cup R, own[s], skipped)
      BY <2>2 DEF PipelineIInv, ResenderOK, Within
    <3>2. C \subseteq Numbered /\ R \subseteq Numbered /\ \A c \in Chain : own[s][c] \in ChainState
      BY <1>2, <2>2 DEF Subscriber
    <3> HIDE DEF C, R
    <3>3. <<m[1], k>> \in C \cup skipped
      BY <3>1, <3>2, NoneMissing
    <3> QED BY <3>3 DEF Excused
  <2> QED BY <2>1, <2>2
<1>5. ConsumedInOrder
  BY <1>3 DEF ConsumedInOrder, Ascending
<1>6. NoHole
  <2> SUFFICES ASSUME NEW s \in Plain \cup Resender,
                      NEW i \in 1 .. Len(consumed[s]), NEW j \in 1 .. Len(consumed[s]),
                      consumed[s][i][1] = consumed[s][j][1], consumed[s][i][2] < consumed[s][j][2],
                      NEW k \in consumed[s][i][2] + 1 .. consumed[s][j][2] - 1
               PROVE  <<consumed[s][i][1], k>> \in ToSet(consumed[s]) \cup failed \cup skipped
    BY DEF NoHole
  <2>1. consumed[s] \in Seq(Numbered)
    BY <1>2 DEF Subscriber
  <2>2. consumed[s][i] \in ToSet(consumed[s]) /\ consumed[s][j] \in ToSet(consumed[s])
    BY <2>1, SetOfSeq
  <2>3. <<consumed[s][i][1], k>> \in ToSet(consumed[s]) \cup Excused
    BY <1>4, <2>2 DEF HoleFree
  <2> QED BY <2>3 DEF Excused
<1>7. FailedStayOutOfPlain
  BY DEF FailedStayOutOfPlain, PipelineIInv, PlainOK
<1>8. BufferIsBounded
  BY <1>3 DEF BufferIsBounded
<1> QED BY <1>1, <1>5, <1>6, <1>7, <1>8 DEF PipelineInv

\* However the node, a resend and the gap filler hand messages over, whoever comes,
\* goes or is slow, and whatever fails: each consumer gets the messages of a chain
\* in their order, each once, and all between them but those that failed or could not
\* be had (PipelineInv).
THEOREM StreamsStayInOrder == PipelineSpec => []PipelineInv
<1>1. PipelineIInv /\ [PipelineNext]_pipelineVars => PipelineIInv'
  BY PipelineStep
<1>2. PipelineInit => PipelineIInv
  BY PipelineStart
<1>3. PipelineIInv => PipelineInv
  BY PipelineRight
<1> QED BY <1>1, <1>2, <1>3, PTL DEF PipelineSpec

-----------------------------------------------------------------------------
(* Buffers and pipelines.                                                  *)

PushedItem == [from : Writer, n : Nat, bad : BOOLEAN]
GateState == [locked : BOOLEAN, closed : BOOLEAN]
WriterState == {"idle", "waiting", "woken", "refused", "ended"}
SourceState == {"new", "out", "waiting", "woken", "done"}

\* The ranges of the variables of a buffer.
BufferTyped ==
  /\ buffered \in Seq(PushedItem) /\ pushed \in Seq(PushedItem) /\ read \in Seq(PushedItem)
  /\ writeGate \in GateState /\ readGate \in GateState
  /\ source \in SourceState /\ writer \in [Writer -> WriterState] /\ sent \in [Writer -> Nat]

\* What was read is what was pushed first.
ReadFirst == \E k \in 0 .. Len(pushed) : read = SubSeq(pushed, 1, k)

\* Whoever sleeps has a reason to.
SleepersHaveReason ==
  /\ source = "waiting" => buffered = <<>> /\ IsWritable
  /\ \A w \in Writer : writer[w] = "waiting" => AtLimit(buffered) /\ IsWritable

Sleepers == {w \in Writer : writer[w] = "waiting"}

\* As long as it is written to, a buffer is above its limit by those that wait; a reader
\* that is done has locked it.
BufferIInv ==
  /\ BufferTyped /\ ReadFirst /\ SleepersHaveReason
  /\ source # "done" /\ ~readGate.locked => read \o buffered = pushed
  /\ source = "done" => readGate.locked
  /\ IsWritable => Len(buffered) < BufferLimit + Cardinality(Sleepers)
  /\ Len(buffered) < BufferLimit + Cardinality(Writer)

LEMMA WritersFinite ==
  /\ IsFiniteSet(Writer) /\ Cardinality(Writer) \in Nat
  /\ \A S \in SUBSET Writer : /\ IsFiniteSet(S) /\ Cardinality(S) \in Nat
                              /\ Cardinality(S) <= Cardinality(Writer)
  /\ BufferLimit \in Nat \ {0}
BY BufferAssumption, FS_Subset, FS_CardinalityType

LEMMA SleepersFinite ==
  Cardinality(Sleepers) \in Nat /\ Cardinality(Sleepers) <= Cardinality(Writer)
<1>1. Sleepers \in SUBSET Writer
  BY DEF Sleepers
<1> QED BY <1>1, WritersFinite

\* A gate that is locked stays as it is.
LEMMA GateFacts ==
  ASSUME NEW g \in GateState, NEW open \in BOOLEAN
  PROVE  /\ Open(g) \in GateState /\ Lock(g) \in GateState /\ Close(g) \in GateState
         /\ SetOpenState(g, open) \in GateState
         /\ Open(g).locked = g.locked /\ Close(g).locked = g.locked
         /\ SetOpenState(g, open).locked = g.locked
         /\ Lock(g).locked /\ ~Lock(g).closed
         /\ ~g.locked => /\ ~Open(g).closed /\ Close(g).closed
                         /\ SetOpenState(g, open).closed = ~open
BY DEF GateState, Open, Lock, Close, SetOpenState

LEMMA WokenFacts ==
  ASSUME NEW g \in GateState, NEW ws \in [Writer -> WriterState]
  PROVE  /\ WokenWriters(ws, g) \in [Writer -> WriterState]
         /\ \A w \in Writer : WokenWriters(ws, g)[w] = "waiting" <=> ws[w] = "waiting" /\ g.closed
BY DEF GateState, WriterState, Woken, WokenWriters

\* Sequences that are read at one end and pushed to at the other.
LEMMA FrontOf ==
  ASSUME NEW S, NEW s \in Seq(S), NEW t \in Seq(S)
  PROVE  Len(s) \in 0 .. Len(s \o t) /\ s = SubSeq(s \o t, 1, Len(s))
<1>1. /\ s \o t \in Seq(S) /\ Len(s \o t) = Len(s) + Len(t) /\ Len(s) \in Nat /\ Len(t) \in Nat
      /\ \A i \in 1 .. Len(s) : (s \o t)[i] = s[i]
  BY ConcatProperties, LenProperties
<1>2. \A i \in 1 .. Len(s) : (s \o t)[i] \in S
  BY <1>1, ElementOfSeq
<1> DEFINE f == SubSeq(s \o t, 1, Len(s))
<1>3. /\ f \in Seq(S) /\ Len(f) = (IF 1 <= Len(s) THEN Len(s) - 1 + 1 ELSE 0)
      /\ \A i \in 1 .. Len(s) - 1 + 1 : f[i] = (s \o t)[1 + i - 1]
  BY <1>1, <1>2, SubSeqProperties
<1> HIDE DEF f
<1>4. Len(f) = Len(s) /\ \A i \in 1 .. Len(s) : f[i] = s[i]
  BY <1>1, <1>3
<1>5. f = s
  BY <1>3, <1>4, SeqEqual
<1> QED BY <1>1, <1>5 DEF f

LEMMA FrontStays ==
  ASSUME NEW S, NEW s \in Seq(S), NEW e \in S, NEW k \in 0 .. Len(s)
  PROVE  k \in 0 .. Len(Append(s, e)) /\ SubSeq(Append(s, e), 1, k) = SubSeq(s, 1, k)
<1>1. /\ Append(s, e) \in Seq(S) /\ Len(Append(s, e)) = Len(s) + 1 /\ Len(s) \in Nat
      /\ \A i \in 1 .. Len(s) : Append(s, e)[i] = s[i]
  BY AppendProperties, LenProperties
<1>2. \A i \in 1 .. k : s[i] \in S /\ Append(s, e)[i] \in S
  BY <1>1, ElementOfSeq
<1> DEFINE f == SubSeq(Append(s, e), 1, k)
           g == SubSeq(s, 1, k)
<1>3. /\ f \in Seq(S) /\ Len(f) = (IF 1 <= k THEN k - 1 + 1 ELSE 0)
      /\ \A i \in 1 .. k - 1 + 1 : f[i] = Append(s, e)[1 + i - 1]
  BY <1>1, <1>2, SubSeqProperties
<1>4. /\ g \in Seq(S) /\ Len(g) = (IF 1 <= k THEN k - 1 + 1 ELSE 0)
      /\ \A i \in 1 .. k - 1 + 1 : g[i] = s[1 + i - 1]
  BY <1>1, <1>2, SubSeqProperties
<1> HIDE DEF f, g
<1>5. Len(f) = k /\ Len(g) = k /\ \A i \in 1 .. k : f[i] = g[i]
  BY <1>1, <1>3, <1>4
<1>6. f = g
  BY <1>3, <1>4, <1>5, SeqEqual
<1> QED BY <1>1, <1>6 DEF f, g

LEMMA AppendRight ==
  ASSUME NEW S, NEW s \in Seq(S), NEW t \in Seq(S), NEW e \in S
  PROVE  s \o Append(t, e) = Append(s \o t, e)
<1>1. <<e>> \in Seq(S)
  OBVIOUS
<1>2. s \o t \in Seq(S)
  BY ConcatProperties
<1>3. (s \o t) \o <<e>> = s \o (t \o <<e>>)
  BY <1>1, ConcatAssociative
<1>4. Append(t, e) = t \o <<e>> /\ Append(s \o t, e) = (s \o t) \o <<e>>
  BY <1>2, AppendIsConcat
<1> QED BY <1>3, <1>4

LEMMA MoveHead ==
  ASSUME NEW S, NEW s \in Seq(S), NEW t \in Seq(S), t # <<>>
  PROVE  Append(s, Head(t)) \o Tail(t) = s \o t
<1>1. /\ Head(t) \in S /\ Tail(t) \in Seq(S) /\ Len(Tail(t)) = Len(t) - 1
      /\ \A i \in 1 .. Len(Tail(t)) : Tail(t)[i] = t[i + 1]
  BY HeadTailProperties
<1>2. Len(t) \in Nat \ {0} /\ Head(t) = t[1] /\ Len(s) \in Nat
  BY EmptySeq, LenProperties
<1> DEFINE a == Append(s, Head(t))
           left  == a \o Tail(t)
           right == s \o t
<1>3. /\ a \in Seq(S) /\ Len(a) = Len(s) + 1 /\ a[Len(s) + 1] = t[1]
      /\ \A i \in 1 .. Len(s) : a[i] = s[i]
  BY <1>1, <1>2, AppendProperties
<1> HIDE DEF a
<1>4. /\ left \in Seq(S) /\ Len(left) = Len(a) + Len(Tail(t))
      /\ \A i \in 1 .. Len(a) + Len(Tail(t)) :
           left[i] = IF i <= Len(a) THEN a[i] ELSE Tail(t)[i - Len(a)]
  BY <1>1, <1>3, ConcatProperties
<1>5. /\ right \in Seq(S) /\ Len(right) = Len(s) + Len(t)
      /\ \A i \in 1 .. Len(s) + Len(t) : right[i] = IF i <= Len(s) THEN s[i] ELSE t[i - Len(s)]
  BY ConcatProperties
<1> HIDE DEF left, right
<1>6. Len(left) = Len(right)
  BY <1>1, <1>2, <1>3, <1>4, <1>5
<1>7. ASSUME NEW i \in 1 .. Len(left) PROVE left[i] = right[i]
  <2>1. CASE i <= Len(s)
    <3>1. i \in 1 .. Len(a) /\ i <= Len(a) /\ i \in 1 .. Len(s)
      BY <1>2, <1>3, <2>1
    <3>2. left[i] = a[i] /\ right[i] = s[i] /\ a[i] = s[i]
      BY <1>3, <1>4, <1>5, <1>6, <3>1, <2>1
    <3> QED BY <3>2
  <2>2. CASE i = Len(s) + 1
    BY <1>1, <1>2, <1>3, <1>4, <1>5, <1>6, <2>2
  <2>3. CASE i > Len(s) + 1
    <3>1. i - (Len(s) + 1) \in 1 .. Len(Tail(t)) /\ i - (Len(s) + 1) + 1 = i - Len(s)
      BY <1>1, <1>2, <1>3, <1>4, <2>3
    <3>2. Tail(t)[i - (Len(s) + 1)] = t[i - Len(s)]
      BY <1>1, <3>1
    <3>3. ~(i <= Len(a)) /\ ~(i <= Len(s)) /\ Len(a) = Len(s) + 1
      BY <1>2, <1>3, <2>3
    <3>4. left[i] = Tail(t)[i - (Len(s) + 1)]
      BY <1>4, <3>3
    <3>5. right[i] = t[i - Len(s)]
      BY <1>5, <1>6, <3>3
    <3> QED BY <3>2, <3>4, <3>5
  <2> QED BY <1>2, <1>4, <1>3, <2>1, <2>2, <2>3
<1>8. left = right
  BY <1>4, <1>5, <1>6, <1>7, SeqEqual
<1> QED BY <1>8 DEF left, right, a


\* What is read was pushed first, and the rest is still there.
LEMMA TakenFirst ==
  ASSUME BufferTyped, buffered # <<>>, read \o buffered = pushed
  PROVE  /\ Append(read, Head(buffered)) \in Seq(PushedItem) /\ Tail(buffered) \in Seq(PushedItem)
         /\ Len(Tail(buffered)) = Len(buffered) - 1 /\ Len(buffered) \in Nat
         /\ Append(read, Head(buffered)) \o Tail(buffered) = pushed
         /\ \E k \in 0 .. Len(pushed) : Append(read, Head(buffered)) = SubSeq(pushed, 1, k)
<1>1. buffered \in Seq(PushedItem) /\ read \in Seq(PushedItem)
  BY DEF BufferTyped
<1>2. /\ Head(buffered) \in PushedItem /\ Tail(buffered) \in Seq(PushedItem)
      /\ Len(Tail(buffered)) = Len(buffered) - 1 /\ Len(buffered) \in Nat
  BY <1>1, HeadTailProperties, LenProperties
<1> DEFINE a == Append(read, Head(buffered))
<1>3. a \in Seq(PushedItem)
  BY <1>1, <1>2, AppendProperties
<1>4. a \o Tail(buffered) = pushed
  BY <1>1, MoveHead
<1> HIDE DEF a
<1>5. Len(a) \in 0 .. Len(a \o Tail(buffered)) /\ a = SubSeq(a \o Tail(buffered), 1, Len(a))
  BY <1>2, <1>3, FrontOf
<1>6. \E k \in 0 .. Len(pushed) : a = SubSeq(pushed, 1, k)
  BY <1>4, <1>5
<1> QED BY <1>2, <1>3, <1>4, <1>6 DEF a

\* Locking both gates wakes whoever sleeps.
LEMMA LockedKeeps ==
  ASSUME BufferIInv, source' \in SourceState \ {"waiting"},
         writeGate' = Lock(writeGate), readGate' = Lock(readGate),
         writer' = WokenWriters(writer, writeGate'),
         buffered' \in {buffered, <<>>}, UNCHANGED <<pushed, sent>>,
         \/ read' = read
         \/ /\ buffered # <<>> /\ ~readGate.locked /\ source # "done"
            /\ read' = Append(read, Head(buffered))
  PROVE  BufferIInv'
<1> USE DEF BufferIInv
<1>1. /\ writeGate' \in GateState /\ writeGate'.locked /\ ~writeGate'.closed
      /\ readGate' \in GateState /\ readGate'.locked
  BY DEF GateState, Lock
<1>2. writer' \in [Writer -> WriterState] /\ \A w \in Writer : writer'[w] # "waiting"
  <2>1. writer \in [Writer -> WriterState]
    BY DEF BufferTyped
  <2> QED BY <1>1, <2>1 DEF WokenWriters, Woken, WriterState
<1>3. /\ read' \in Seq(PushedItem)
      /\ \E k \in 0 .. Len(pushed) : read' = SubSeq(pushed, 1, k)
  BY TakenFirst DEF BufferTyped, ReadFirst
<1>4. BufferTyped'
  <2>1. buffered' \in Seq(PushedItem)
    BY EmptySeq DEF BufferTyped
  <2> QED BY <1>1, <1>2, <1>3, <2>1 DEF BufferTyped
<1>5. ReadFirst'
  BY <1>3 DEF ReadFirst
<1>6. SleepersHaveReason'
  BY <1>2 DEF SleepersHaveReason
<1>7. (Len(buffered) < BufferLimit + Cardinality(Writer))'
  BY WritersFinite DEF BufferTyped
<1> QED BY <1>1, <1>4, <1>5, <1>6, <1>7 DEF IsWritable

LEMMA PushKeeps ==
  ASSUME BufferIInv, NEW w \in Writer, NEW bad \in BOOLEAN, Push(w, bad)
  PROVE  BufferIInv'
<1> USE DEF BufferIInv
<1> DEFINE item == [from |-> w, n |-> sent[w] + 1, bad |-> bad]
<1>0. /\ buffered \in Seq(PushedItem) /\ pushed \in Seq(PushedItem) /\ read \in Seq(PushedItem)
      /\ writeGate \in GateState /\ readGate \in GateState /\ sent \in [Writer -> Nat]
      /\ writer \in [Writer -> WriterState] /\ source \in SourceState
  BY DEF BufferTyped
<1>1. item \in PushedItem /\ sent' \in [Writer -> Nat]
  BY <1>0 DEF Push, PushedItem
<1>2. writer[w] \in {"idle", "refused"} /\ read' = read
  BY DEF Push
<1>3. CASE ~IsWritable
  <2>1. /\ writer' = [writer EXCEPT ![w] = "refused"]
        /\ UNCHANGED <<buffered, pushed, writeGate, readGate, source>>
    BY <1>3 DEF Push
  <2>2. BufferTyped'
    BY <1>0, <1>1, <1>2, <2>1 DEF BufferTyped, WriterState
  <2>3. ReadFirst'
    BY <1>2, <2>1 DEF ReadFirst
  <2>4. SleepersHaveReason'
    BY <1>0, <2>1 DEF SleepersHaveReason, AtLimit, IsWritable
  <2>5. ~IsWritable'
    BY <1>3, <2>1 DEF IsWritable
  <2> QED BY <1>2, <2>1, <2>2, <2>3, <2>4, <2>5
<1>4. CASE IsWritable
  <2>1. /\ buffered' = Append(buffered, item) /\ pushed' = Append(pushed, item)
        /\ writeGate' = SetOpenState(writeGate, ~AtLimit(buffered'))
        /\ readGate' = Open(readGate) /\ source' = Woken(source, readGate')
        /\ writer' = WokenWriters([writer EXCEPT ![w] = IF writeGate'.closed THEN "waiting"
                                                        ELSE "idle"], writeGate')
    BY <1>4 DEF Push
  <2> HIDE DEF item
  <2>2. /\ buffered' \in Seq(PushedItem) /\ Len(buffered') = Len(buffered) + 1
        /\ Len(buffered) \in Nat /\ pushed' \in Seq(PushedItem)
    BY <1>0, <1>1, <2>1, AppendProperties, LenProperties
  <2>3. /\ writeGate' \in GateState /\ ~writeGate'.locked
        /\ writeGate'.closed <=> AtLimit(buffered')
    BY <1>0, <1>4, <2>1 DEF GateState, SetOpenState, Open, Close, IsWritable
  <2>4. readGate' \in GateState /\ ~readGate'.locked /\ ~readGate'.closed
    BY <1>0, <1>4, <2>1 DEF GateState, Open, IsWritable
  <2>5. source' \in SourceState \ {"waiting"} /\ (source' = "done" <=> source = "done")
    BY <1>0, <2>1, <2>4 DEF Woken, SourceState
  <2>6. /\ writer' \in [Writer -> WriterState]
        /\ \A v \in Writer : writer'[v] = "waiting" <=>
             (v = w \/ writer[v] = "waiting") /\ writeGate'.closed
    <3> DEFINE ws == [writer EXCEPT ![w] = IF writeGate'.closed THEN "waiting" ELSE "idle"]
    <3>1. /\ ws \in [Writer -> WriterState]
          /\ \A v \in Writer : v # w => ws[v] = writer[v]
          /\ ws[w] = "waiting" <=> writeGate'.closed
      BY <1>0 DEF WriterState
    <3>2. writer' = WokenWriters(ws, writeGate')
      BY <2>1
    <3> HIDE DEF ws
    <3> QED BY <2>3, <3>1, <3>2, WokenFacts
  <2>7. BufferTyped'
    BY <1>0, <1>1, <1>2, <2>2, <2>3, <2>4, <2>5, <2>6 DEF BufferTyped
  <2>8. ReadFirst'
    <3>1. PICK k \in 0 .. Len(pushed) : read = SubSeq(pushed, 1, k)
      BY DEF ReadFirst
    <3>2. k \in 0 .. Len(pushed') /\ read' = SubSeq(pushed', 1, k)
      BY <1>0, <1>1, <1>2, <2>1, <3>1, FrontStays
    <3> QED BY <3>2 DEF ReadFirst
  <2>9. SleepersHaveReason' /\ IsWritable'
    BY <2>3, <2>4, <2>5, <2>6 DEF SleepersHaveReason, IsWritable
  <2>10. source' # "done" => read' \o buffered' = pushed'
    BY <1>0, <1>1, <1>2, <1>4, <2>1, <2>5, AppendRight DEF IsWritable
  <2>11. source' # "done"
    BY <1>4, <2>5 DEF IsWritable
  <2>12. Len(buffered') < BufferLimit + Cardinality(Sleepers')
    <3>1. CASE AtLimit(buffered')
      <4>1. Sleepers' = Sleepers \cup {w} /\ w \notin Sleepers
        BY <1>2, <2>3, <2>6, <3>1 DEF Sleepers
      <4>2. IsFiniteSet(Sleepers) /\ Cardinality(Sleepers) \in Nat
        BY WritersFinite DEF Sleepers
      <4>3. Cardinality(Sleepers') = Cardinality(Sleepers) + 1
        BY <4>1, <4>2, FS_AddElement
      <4> QED BY <1>4, <2>2, <4>2, <4>3, WritersFinite
    <3>2. CASE ~AtLimit(buffered')
      <4>1. Cardinality(Sleepers') \in Nat
        BY WritersFinite DEF Sleepers
      <4> QED BY <2>2, <3>2, <4>1, WritersFinite DEF AtLimit
    <3> QED BY <3>1, <3>2
  <2>13. Len(buffered') < BufferLimit + Cardinality(Writer)
    <3>1. Cardinality(Sleepers') \in Nat /\ Cardinality(Sleepers') <= Cardinality(Writer)
      BY WritersFinite DEF Sleepers
    <3> QED BY <2>2, <2>12, <3>1, WritersFinite
  <2> QED BY <2>7, <2>8, <2>9, <2>10, <2>11, <2>12, <2>13
<1> QED BY <1>3, <1>4

LEMMA PushReturnsKeeps ==
  ASSUME BufferIInv, NEW w \in Writer, PushReturns(w)
  PROVE  BufferIInv'
<1> USE DEF BufferIInv
<1>1. /\ writer[w] = "woken" /\ writer \in [Writer -> WriterState]
      /\ writer' = [writer EXCEPT ![w] = IF writeGate.locked THEN "refused" ELSE "idle"]
      /\ UNCHANGED <<buffered, writeGate, readGate, source, sent, pushed, read>>
  BY DEF PushReturns, BufferTyped
<1>2. /\ writer' \in [Writer -> WriterState]
      /\ \A v \in Writer : writer'[v] = "waiting" <=> writer[v] = "waiting"
  BY <1>1 DEF WriterState
<1>3. BufferTyped'
  BY <1>1, <1>2 DEF BufferTyped
<1>4. Sleepers' = Sleepers
  BY <1>2 DEF Sleepers
<1>5. ReadFirst' /\ (IsWritable' <=> IsWritable)
  BY <1>1 DEF ReadFirst, IsWritable
<1>6. SleepersHaveReason'
  BY <1>1, <1>2, <1>5 DEF SleepersHaveReason, AtLimit
<1> QED BY <1>1, <1>3, <1>4, <1>5, <1>6

\* endWrite, of one whose source is over or has failed.
LEMMA EndWriteKeeps ==
  ASSUME BufferIInv, NEW w \in Writer,
         readGate' = Open(readGate), writeGate' = Lock(writeGate),
         writer' = WokenWriters([writer EXCEPT ![w] = "ended"], writeGate'),
         source' = Woken(source, readGate'), UNCHANGED <<buffered, sent, pushed, read>>
  PROVE  BufferIInv'
<1> USE DEF BufferIInv
<1>0. /\ writeGate \in GateState /\ readGate \in GateState
      /\ writer \in [Writer -> WriterState] /\ source \in SourceState
  BY DEF BufferTyped
<1>1. /\ writeGate' \in GateState /\ writeGate'.locked /\ ~writeGate'.closed
      /\ readGate' \in GateState /\ readGate'.locked = readGate.locked
      /\ ~readGate.locked => ~readGate'.closed
  BY <1>0 DEF GateState, Lock, Open
<1>2. writer' \in [Writer -> WriterState] /\ \A v \in Writer : writer'[v] # "waiting"
  <2>1. [writer EXCEPT ![w] = "ended"] \in [Writer -> WriterState]
    BY <1>0 DEF WriterState
  <2> QED BY <1>1, <2>1, WokenFacts
<1>3. source' \in SourceState \ {"waiting"} /\ (source' = "done" <=> source = "done")
  BY <1>0, <1>1 DEF Woken, SourceState, SleepersHaveReason, IsWritable
<1>4. BufferTyped'
  BY <1>1, <1>2, <1>3 DEF BufferTyped
<1>5. ReadFirst' /\ SleepersHaveReason' /\ ~IsWritable'
  BY <1>1, <1>2, <1>3 DEF ReadFirst, SleepersHaveReason, IsWritable
<1> QED BY <1>1, <1>3, <1>4, <1>5

LEMMA TakeItemKeeps ==
  ASSUME BufferIInv, TakeItem
  PROVE  BufferIInv' /\ Len(read') = Len(read) + 1
<1> USE DEF BufferIInv
<1>0. /\ buffered \in Seq(PushedItem) /\ pushed \in Seq(PushedItem) /\ read \in Seq(PushedItem)
      /\ writeGate \in GateState /\ readGate \in GateState /\ sent \in [Writer -> Nat]
      /\ writer \in [Writer -> WriterState] /\ source \in SourceState
  BY DEF BufferTyped
<1>1. /\ source # "done" /\ source # "waiting" /\ ~readGate.locked /\ buffered # <<>>
      /\ source' = "out" /\ UNCHANGED <<readGate, sent, pushed>>
      /\ buffered' = Tail(buffered) /\ read' = Append(read, Head(buffered))
      /\ writeGate' = SetOpenState(writeGate, ~AtLimit(buffered'))
      /\ writer' = WokenWriters(writer, writeGate')
  BY DEF TakeItem, CanRun
<1>2. /\ read' \in Seq(PushedItem) /\ buffered' \in Seq(PushedItem)
      /\ Len(buffered') = Len(buffered) - 1 /\ Len(buffered) \in Nat
      /\ read' \o buffered' = pushed'
      /\ \E k \in 0 .. Len(pushed) : read' = SubSeq(pushed, 1, k)
  BY <1>1, TakenFirst
<1>3. /\ writeGate' \in GateState /\ writeGate'.locked = writeGate.locked
      /\ ~writeGate.locked => (writeGate'.closed <=> AtLimit(buffered'))
  BY <1>0, <1>1 DEF GateState, SetOpenState, Open, Close
<1>4. /\ writer' \in [Writer -> WriterState]
      /\ \A v \in Writer : writer'[v] = "waiting" <=> writer[v] = "waiting" /\ writeGate'.closed
  BY <1>0, <1>1, <1>3, WokenFacts
<1>5. BufferTyped' /\ ReadFirst'
  BY <1>0, <1>1, <1>2, <1>3, <1>4 DEF BufferTyped, SourceState, ReadFirst
<1>6. IsWritable' <=> IsWritable
  BY <1>1, <1>3 DEF IsWritable
<1>7. SleepersHaveReason'
  BY <1>1, <1>3, <1>4, <1>6 DEF SleepersHaveReason, IsWritable
<1>8. ASSUME IsWritable PROVE Len(buffered') < BufferLimit + Cardinality(Sleepers')
  <2>1. CASE AtLimit(buffered')
    <3>1. Sleepers' = Sleepers
      BY <1>3, <1>4, <1>8, <2>1 DEF Sleepers, IsWritable
    <3>2. Cardinality(Sleepers) \in Nat
      BY SleepersFinite
    <3> QED BY <1>2, <1>8, <3>1, <3>2, WritersFinite
  <2>2. CASE ~AtLimit(buffered')
    <3>1. Cardinality(Sleepers') \in Nat
      BY WritersFinite DEF Sleepers
    <3> QED BY <1>2, <2>2, <3>1, WritersFinite, LenProperties DEF AtLimit
  <2> QED BY <2>1, <2>2
<1>9. Len(buffered') < BufferLimit + Cardinality(Writer)
  BY <1>2, WritersFinite
<1>10. Len(read') = Len(read) + 1
  <2>1. Head(buffered) \in PushedItem
    BY <1>0, <1>1, HeadTailProperties
  <2> QED BY <1>0, <1>1, <2>1, AppendProperties
<1> QED BY <1>1, <1>2, <1>5, <1>6, <1>7, <1>8, <1>9, <1>10

LEMMA AwaitItemKeeps ==
  ASSUME BufferIInv, AwaitItem
  PROVE  BufferIInv'
<1> USE DEF BufferIInv
<1>1. /\ source # "done" /\ ~readGate.locked /\ ~writeGate.locked /\ buffered = <<>>
      /\ readGate' = Close(readGate) /\ source' = "waiting"
      /\ UNCHANGED <<buffered, writeGate, writer, sent, pushed, read>>
  BY DEF AwaitItem, CanRun
<1>2. readGate' \in GateState /\ ~readGate'.locked
  BY <1>1 DEF BufferTyped, GateState, Close
<1>3. BufferTyped'
  BY <1>1, <1>2 DEF BufferTyped, SourceState
<1>4. ReadFirst' /\ IsWritable' /\ IsWritable /\ Sleepers' = Sleepers
  BY <1>1, <1>2 DEF ReadFirst, IsWritable, Sleepers
<1>5. SleepersHaveReason'
  BY <1>1, <1>4 DEF SleepersHaveReason, AtLimit
<1> QED BY <1>1, <1>2, <1>3, <1>4, <1>5

\* The generator is left when the gates have been locked.
LEMMA ReturnedKeeps ==
  ASSUME BufferIInv, IsDone, Returned
  PROVE  BufferIInv'
<1> USE DEF BufferIInv
<1>1. /\ source' = "done" /\ buffered' \in {buffered, <<>>}
      /\ UNCHANGED <<writeGate, readGate, writer, sent, pushed, read>>
  BY DEF Returned
<1>2. BufferTyped' /\ ReadFirst'
  <2>1. buffered' \in Seq(PushedItem)
    BY <1>1, EmptySeq DEF BufferTyped
  <2> QED BY <1>1, <2>1 DEF BufferTyped, SourceState, ReadFirst
<1>3. readGate'.locked /\ ~IsWritable /\ ~IsWritable'
  BY <1>1 DEF IsDone, IsWritable
<1>4. SleepersHaveReason'
  BY <1>1, <1>3 DEF SleepersHaveReason
<1>5. Len(buffered') < BufferLimit + Cardinality(Writer)
  BY <1>1, WritersFinite
<1> QED BY <1>1, <1>2, <1>3, <1>4, <1>5


\* The ranges of the variables of the pipeline, and what holds besides PipesInv: whoever
\* awaits the buffer has locked it, and the message that triggers onMessage was read.
PipesIInv ==
  /\ BufferIInv /\ PipelineEnds
  /\ yielded \in Nat
  /\ iterator = "triggering" => yielded < Len(read)
  /\ call \in [Caller -> {"none", "source", "iterator", "cleanup", "returned"}]
  /\ \A c \in Caller : call[c] = "source" => IsDone

\* What a step of the buffer may do to the pipeline.
BufferStep == BufferIInv' /\ (IsDone => IsDone') /\ (source = "done" => source' = "done")

LEMMA WriterStepKeeps ==
  ASSUME BufferIInv, NEW w \in Writer, WriterStep(w)
  PROVE  BufferStep /\ read' = read
<1>0. /\ source \in SourceState /\ writeGate \in GateState /\ readGate \in GateState
      /\ writer \in [Writer -> WriterState]
  BY DEF BufferIInv, BufferTyped
<1>1. ASSUME NEW bad \in BOOLEAN, Push(w, bad) PROVE BufferStep /\ read' = read
  <2>1. BufferIInv' /\ read' = read
    BY <1>1, PushKeeps DEF Push
  <2>2. IsDone => UNCHANGED <<writeGate, readGate>>
    BY <1>1 DEF Push, IsDone, IsWritable
  <2>3. source = "done" => source' = "done"
    BY <1>1 DEF Push, Woken
  <2> QED BY <2>1, <2>2, <2>3 DEF BufferStep, IsDone
<1>2. CASE PushReturns(w)
  BY <1>2, PushReturnsKeeps DEF PushReturns, BufferStep, IsDone
<1>3. CASE PullEnds(w) \/ PullFails(w)
  <2>1. /\ readGate' = Open(readGate) /\ writeGate' = Lock(writeGate)
        /\ writer' = WokenWriters([writer EXCEPT ![w] = "ended"], writeGate')
        /\ source' = Woken(source, readGate') /\ UNCHANGED <<buffered, sent, pushed, read>>
    BY <1>3 DEF PullEnds, PullFails, EndWrite
  <2>2. BufferIInv'
    BY <2>1, EndWriteKeeps
  <2>3. (IsDone => IsDone') /\ (source = "done" => source' = "done")
    BY <1>0, <2>1 DEF IsDone, Open, Lock, Woken
  <2> QED BY <2>1, <2>2, <2>3 DEF BufferStep
<1> QED BY <1>1, <1>2, <1>3 DEF WriterStep

\* Both gates are locked: by the end of the buffer, by return, by the cleanup, and by the
\* reader that throws or finds nothing more.
LEMMA LockingSteps ==
  ASSUME BufferIInv
  PROVE  /\ EndBuffer => BufferStep
         /\ Return => BufferStep /\ IsDone' /\ read' = read
         /\ CleanupSource => BufferStep /\ IsDone' /\ source' = "done" /\ read' = read
         /\ TakeError => BufferStep /\ source' = "done" /\ Len(read') >= Len(read)
         /\ Exhausted => BufferStep /\ source' = "done" /\ read' = read
<1>0. /\ source \in SourceState /\ read \in Seq(PushedItem) /\ buffered \in Seq(PushedItem)
  BY DEF BufferIInv, BufferTyped
<1> DEFINE Locked == /\ writeGate' = Lock(writeGate) /\ readGate' = Lock(readGate)
                     /\ writer' = WokenWriters(writer, writeGate') /\ UNCHANGED <<pushed, sent>>
<1>1. Locked => IsDone'
  BY DEF Lock, IsDone
<1>2. ASSUME EndBuffer PROVE BufferStep
  <2>1. Locked /\ source' = Woken(source, readGate') /\ read' = read /\ buffered' = buffered
    BY <1>2 DEF EndBuffer, LockGates
  <2>2. source' \in SourceState \ {"waiting"} /\ (source = "done" => source' = "done")
    BY <1>0, <2>1 DEF Woken, SourceState, Lock
  <2> QED BY <1>1, <2>1, <2>2, LockedKeeps DEF BufferStep
<1>3. ASSUME Return PROVE BufferStep /\ IsDone' /\ read' = read
  <2>1. /\ Locked /\ source' = Woken(IF source = "new" THEN "done" ELSE source, readGate')
        /\ read' = read /\ buffered' = buffered
    BY <1>3 DEF Return, LockGates
  <2>2. source' \in SourceState \ {"waiting"} /\ (source = "done" => source' = "done")
    BY <1>0, <2>1 DEF Woken, SourceState, Lock
  <2> QED BY <1>1, <2>1, <2>2, LockedKeeps DEF BufferStep
<1>4. ASSUME CleanupSource PROVE BufferStep /\ IsDone' /\ source' = "done" /\ read' = read
  <2>1. /\ Locked /\ source' = "done" /\ read' = read /\ buffered' \in {buffered, <<>>}
    BY <1>4 DEF CleanupSource
  <2> QED BY <1>1, <2>1, LockedKeeps DEF BufferStep, SourceState
<1>5. ASSUME TakeError PROVE BufferStep /\ source' = "done" /\ Len(read') >= Len(read)
  <2>1. /\ Locked /\ source' = "done" /\ read' = Append(read, Head(buffered))
        /\ buffered # <<>> /\ ~readGate.locked /\ source # "done" /\ buffered' = <<>>
    BY <1>5 DEF TakeError, CanRun
  <2>2. Len(read') >= Len(read)
    <3>1. Head(buffered) \in PushedItem
      BY <1>0, <2>1, HeadTailProperties
    <3> QED BY <1>0, <2>1, <3>1, AppendProperties, LenProperties
  <2> QED BY <1>1, <2>1, <2>2, LockedKeeps DEF BufferStep, SourceState
<1>6. ASSUME Exhausted PROVE BufferStep /\ source' = "done" /\ read' = read
  <2>1. /\ Locked /\ source' = "done" /\ read' = read /\ buffered' = <<>>
    BY <1>6 DEF Exhausted
  <2> QED BY <1>1, <2>1, LockedKeeps DEF BufferStep, SourceState
<1> QED BY <1>2, <1>3, <1>4, <1>5, <1>6

\* A step of the buffer in which the pipeline and its callers stay as they are.
LEMMA PipesKept ==
  ASSUME PipesIInv, BufferStep, Len(read') >= Len(read), Len(read') \in Nat,
         UNCHANGED <<iterVars, call>>
  PROVE  PipesIInv'
<1>1. Len(read) \in Nat
  BY LenProperties DEF PipesIInv, BufferIInv, BufferTyped
<1> QED BY <1>1 DEF PipesIInv, BufferStep, PipelineEnds, iterVars

LEMMA ReadingKeeps ==
  ASSUME PipesIInv, ReadItem \/ ReadAwaits \/ ReadThrows \/ ReadEnds
  PROVE  PipesIInv'
<1>0. BufferIInv /\ read \in Seq(PushedItem) /\ Len(read) \in Nat
  BY LenProperties DEF PipesIInv, BufferIInv, BufferTyped
<1>1. CASE ReadItem
  <2>1. /\ BufferIInv' /\ Len(read') = Len(read) + 1 /\ source # "done"
        /\ iterator = "reading" /\ iterator' = "triggering"
        /\ UNCHANGED <<isCleaningUp, cleanup, call, yielded>>
    BY <1>0, <1>1, TakeItemKeeps DEF ReadItem, TakeItem, CanRun
  <2>2. IsDone => IsDone'
    BY <1>1 DEF ReadItem, TakeItem, IsDone
  <2> QED BY <1>0, <2>1, <2>2 DEF PipesIInv, PipelineEnds
<1>2. CASE ReadAwaits
  <2>1. BufferIInv' /\ read' = read /\ source # "done" /\ ~IsDone
    BY <1>0, <1>2, AwaitItemKeeps DEF ReadAwaits, AwaitItem, CanRun, IsDone
  <2> QED BY <1>0, <1>2, <2>1, PipesKept DEF ReadAwaits, BufferStep
<1>3. CASE ReadThrows
  <2>1. /\ iterator' = "handling" /\ isCleaningUp' = TRUE /\ UNCHANGED <<cleanup, call, yielded>>
        /\ cleanup = "none"
    BY <1>3 DEF ReadThrows, PipesIInv, PipelineEnds
  <2>2. BufferIInv' /\ (IsDone => IsDone') /\ Len(read') >= Len(read) /\ Len(read') \in Nat
    <3>1. CASE TakeError \/ Exhausted
      <4>1. BufferStep /\ Len(read') >= Len(read)
        BY <1>0, <3>1, LockingSteps
      <4> QED BY <4>1, LenProperties DEF BufferStep, BufferIInv, BufferTyped
    <3>2. CASE UNCHANGED bufferVars
      BY <1>0, <3>2 DEF bufferVars, BufferIInv, BufferTyped, ReadFirst, SleepersHaveReason,
                        Sleepers, IsWritable, AtLimit, IsDone
    <3> QED BY <1>3, <3>1, <3>2 DEF ReadThrows
  <2> QED BY <1>0, <2>1, <2>2 DEF PipesIInv, PipelineEnds
<1>4. CASE ReadEnds
  <2>1. /\ iterator' = "final" /\ isCleaningUp' = TRUE /\ UNCHANGED <<cleanup, call, yielded>>
        /\ cleanup = "none"
    BY <1>4 DEF ReadEnds, PipesIInv, PipelineEnds
  <2>2. BufferIInv' /\ (IsDone => IsDone') /\ read' = read
    <3>1. CASE Exhausted
      BY <1>0, <3>1, LockingSteps DEF BufferStep
    <3>2. CASE UNCHANGED bufferVars
      BY <1>0, <3>2 DEF bufferVars, BufferIInv, BufferTyped, ReadFirst, SleepersHaveReason,
                        Sleepers, IsWritable, AtLimit, IsDone
    <3> QED BY <1>4, <3>1, <3>2 DEF ReadEnds
  <2> QED BY <1>0, <2>1, <2>2 DEF PipesIInv, PipelineEnds
<1> QED BY <1>1, <1>2, <1>3, <1>4

\* Steps in which the buffer stays as it is.
LEMMA BufferLeft ==
  ASSUME BufferIInv, UNCHANGED bufferVars
  PROVE  BufferStep /\ read' = read
BY DEF bufferVars, BufferIInv, BufferTyped, ReadFirst, SleepersHaveReason, Sleepers, IsWritable,
       AtLimit, IsDone, BufferStep

LEMMA IteratorKeeps ==
  ASSUME PipesIInv,
         Next \/ Yield \/ Handled \/ Finally \/ IteratorEnds \/ CleanupError \/ CleanupSignals
  PROVE  PipesIInv'
<1>0. BufferIInv /\ Len(read) \in Nat
  BY LenProperties DEF PipesIInv, BufferIInv, BufferTyped
<1>1. UNCHANGED bufferVars /\ UNCHANGED call
  BY DEF Next, Yield, Handled, Finally, IteratorEnds, CleanupError, CleanupSignals
<1>2. BufferIInv' /\ (IsDone' <=> IsDone) /\ source' = source /\ read' = read
  BY <1>0, <1>1, BufferLeft DEF BufferStep, bufferVars, IsDone
<1>3. PipelineEnds'
  BY <1>0, <1>2 DEF PipesIInv, PipelineEnds, Next, Yield, Handled, Finally, IteratorEnds,
                    CleanupError, CleanupSignals, CleanupStarted
<1>4. yielded' \in Nat /\ (iterator' = "triggering" => yielded' < Len(read))
  BY <1>0 DEF PipesIInv, Next, Yield, Handled, Finally, IteratorEnds, CleanupError,
              CleanupSignals
<1> QED BY <1>1, <1>2, <1>3, <1>4 DEF PipesIInv

LEMMA ReturningKeeps ==
  ASSUME PipesIInv, NEW c \in Caller, PipelineReturn(c) \/ ReturnStep(c)
  PROVE  PipesIInv'
<1>0. BufferIInv /\ Len(read) \in Nat /\ PipelineEnds
  BY LenProperties DEF PipesIInv, BufferIInv, BufferTyped
<1> DEFINE Called == \E s \in {"source", "iterator", "cleanup", "returned"} :
                       /\ call' = [call EXCEPT ![c] = s]
                       /\ s = "source" => IsDone'
<1>1. CASE PipelineReturn(c)
  <2>1. BufferStep /\ read' = read /\ UNCHANGED iterVars /\ Called
    <3>1. CASE isCleaningUp
      BY <1>0, <1>1, <3>1, BufferLeft DEF PipelineReturn
    <3>2. CASE ~isCleaningUp
      BY <1>0, <1>1, <3>2, LockingSteps DEF PipelineReturn
    <3> QED BY <3>1, <3>2
  <2>2. PipelineEnds' /\ yielded' = yielded /\ iterator' = iterator
    BY <1>0, <2>1 DEF PipelineEnds, BufferStep, iterVars
  <2> QED BY <2>1, <2>2 DEF PipesIInv, BufferStep
<1>2. CASE SourceReturned(c)
  <2>1. /\ call[c] = "source" /\ Returned /\ yielded' = yielded /\ IsDone
        /\ Called
    BY <1>2 DEF SourceReturned, PipesIInv
  <2>2. BufferIInv' /\ IsDone' /\ source' = "done" /\ read' = read
    BY <1>0, <2>1, ReturnedKeeps DEF Returned, IsDone
  <2>3. PipelineEnds'
    BY <1>0, <1>2, <2>2, <2>1 DEF SourceReturned, PipelineEnds, CleanupStarted
  <2>4. iterator' \in {iterator, "done"}
    BY <1>2 DEF SourceReturned
  <2> QED BY <2>1, <2>2, <2>3, <2>4 DEF PipesIInv
<1>3. CASE IteratorReturn(c) \/ CleanedUp(c)
  <2>1. UNCHANGED bufferVars /\ UNCHANGED <<cleanup, yielded>> /\ (Called \/ UNCHANGED call)
    BY <1>3 DEF IteratorReturn, CleanedUp, iterVars
  <2>2. BufferIInv' /\ (IsDone' <=> IsDone) /\ source' = source /\ read' = read
    BY <1>0, <2>1, BufferLeft DEF BufferStep, bufferVars, IsDone
  <2>3. PipelineEnds' /\ (iterator' = "triggering" => iterator = "triggering")
    BY <1>0, <1>3, <2>1, <2>2 DEF IteratorReturn, CleanedUp, iterVars, PipelineEnds
  <2> QED BY <2>1, <2>2, <2>3 DEF PipesIInv
<1> QED BY <1>1, <1>2, <1>3 DEF ReturnStep

LEMMA PipesStep ==
  ASSUME PipesIInv, [PipesNext]_pipeVars
  PROVE  PipesIInv'
<1>0. BufferIInv /\ Len(read) \in Nat
  BY LenProperties DEF PipesIInv, BufferIInv, BufferTyped
<1>1. ASSUME NEW w \in Writer, WriterStep(w), UNCHANGED <<iterVars, call>> PROVE PipesIInv'
  BY <1>0, <1>1, WriterStepKeeps, PipesKept
<1>2. CASE Next \/ IterStep
  BY <1>2, IteratorKeeps, ReadingKeeps DEF IterStep
<1>3. CASE CleanupStep
  <2>1. CASE CleanupSource
    <3>1. BufferStep /\ IsDone' /\ source' = "done" /\ read' = read
      BY <1>0, <2>1, LockingSteps
    <3> QED BY <2>1, <3>1 DEF CleanupSource, PipesIInv, PipelineEnds, BufferStep
  <2> QED BY <1>3, <2>1, IteratorKeeps DEF CleanupStep
<1>4. ASSUME NEW c \in Caller, PipelineReturn(c) \/ ReturnStep(c) PROVE PipesIInv'
  BY <1>4, ReturningKeeps
<1>5. CASE EndBuffer
  <2>1. BufferStep
    BY <1>0, <1>5, LockingSteps
  <2> QED BY <1>0, <1>5, <2>1, PipesKept DEF EndBuffer, iterVars
<1>6. CASE UNCHANGED pipeVars
  <2>1. BufferStep /\ read' = read
    BY <1>0, <1>6, BufferLeft DEF pipeVars
  <2> QED BY <1>0, <1>6, <2>1, PipesKept DEF pipeVars
<1> QED BY <1>1, <1>2, <1>3, <1>4, <1>5, <1>6 DEF PipesNext

LEMMA PipesStart == PipesInit => PipesIInv
<1> SUFFICES ASSUME PipesInit PROVE PipesIInv
  OBVIOUS
<1> USE DEF PipesInit, BufferInit
<1>1. BufferTyped
  BY EmptySeq DEF BufferTyped, GateState, SourceState, WriterState
<1>2. Len(pushed) = 0 /\ Len(read) = 0 /\ Len(buffered) = 0
  BY EmptySeq
<1>3. ReadFirst
  BY <1>2, FrontOf, EmptySeq DEF ReadFirst
<1>4. SleepersHaveReason
  BY DEF SleepersHaveReason
<1>5. read \o buffered = pushed
  BY ConcatEmptySeq, EmptySeq
<1>6. Len(buffered) < BufferLimit + Cardinality(Sleepers)
  BY <1>2, SleepersFinite, WritersFinite
<1>7. Len(buffered) < BufferLimit + Cardinality(Writer)
  BY <1>2, WritersFinite
<1> QED BY <1>1, <1>2, <1>3, <1>4, <1>5, <1>6, <1>7 DEF BufferIInv, PipesIInv, PipelineEnds

\* However those that push, the reader, errors, end, return and the cleanup meet: items
\* come out in their order, none is lost or read twice, whoever sleeps has a reason to,
\* and the pipeline ends only once it has cleaned up (PipesInv).
THEOREM PipelinesStayInOrder == PipesSpec => []PipesInv
<1>1. PipesIInv /\ [PipesNext]_pipeVars => PipesIInv'
  BY PipesStep
<1>2. PipesInit => PipesIInv
  BY PipesStart
<1>3. PipesIInv => PipesInv
  BY DEF PipesIInv, PipesInv, BufferIInv, BufferInv, ReadFirst, SleepersHaveReason
<1> QED BY <1>1, <1>2, <1>3, PTL DEF PipesSpec


-----------------------------------------------------------------------------
(* Signals.                                                                *)

Thrown == Arg \cup {NoArg}
OneTrigger == [arg : Arg, at : {"queued", "next", "task", "done", "failed"}, tasks : Seq(Listener),
               had : SUBSET Listener, throws : Thrown]

\* The ranges of the variables of a signal.
SignalsTyped ==
  /\ triggerType \in {"ONCE", "QUEUE", "PARALLEL", "ERROR"} /\ ended \in BOOLEAN
  /\ attached \in Seq(Listener) /\ lastValue \in Thrown /\ triggers \in Seq(OneTrigger)
  /\ called \in [Listener -> Seq(Thrown)]
  /\ DOMAIN late \subseteq Listener /\ late = [l \in DOMAIN late |-> late[l]]

\* Only a ONCE signal ends, and only a QUEUE makes triggers wait.
TypeTells ==
  /\ ended => triggerType = "ONCE"
  /\ \A k \in DOMAIN triggers : triggers[k].at = "queued" => triggerType = "QUEUE"

OneEach(s) == \A i, j \in DOMAIN s : i # j => s[i] # s[j]

\* A ONCE signal ends with its only trigger, and takes its listeners with it.
OnceEnds ==
  /\ Len(triggers) <= 1
  /\ ended <=> triggers # <<>>
  /\ ended => attached = <<>>
  /\ ~ended => DOMAIN late = {} /\ \A l \in Listener : called[l] = <<>>
  /\ \A k \in DOMAIN triggers : triggers[k].arg = lastValue /\ triggers[k].throws = NoArg

\* Who is still to be called was not called yet, and is to be called once.
OncePending ==
  /\ OneEach(attached) /\ \A l \in ToSet(attached) : called[l] = <<>>
  /\ \A k \in DOMAIN triggers : OneEach(triggers[k].tasks)
  /\ \A k \in DOMAIN triggers : \A l \in ToSet(triggers[k].tasks) :
       called[l] = <<>> /\ l \notin DOMAIN late
  /\ \A l \in DOMAIN late : late[l] \in {"now", "task"} => called[l] = <<>>

OnceCalled == \A l \in Listener : called[l] \in {<<>>, <<lastValue>>}

OnceInv == triggerType = "ONCE" => OnceEnds /\ OncePending /\ OnceCalled

\* A trigger of a QUEUE starts when those before it are over.
QueueInTurn ==
  triggerType = "QUEUE" =>
    \A j, k \in DOMAIN triggers : j < k /\ triggers[k].at # "queued" => Settled(j)

\* A listener that is told of an error is told before the error is ignored.
ListenerHeard(t) == \E l \in Listener : t.arg \in ToSet(called[l])
Telling(t) ==
  t.at \in {"next", "task"} /\ t.had # {} =>
    ListenerHeard(t) \/ (t.at = "next" /\ t.tasks # <<>> /\ t.throws = NoArg)

ErrorsTold ==
  /\ triggerType = "ERROR" => \A k \in DOMAIN triggers : Telling(triggers[k])
  /\ \A e \in ignoredErrors : \E l \in Listener : e \in ToSet(called[l])

SignalsIInv == SignalsTyped /\ TypeTells /\ OnceInv /\ QueueInTurn /\ ErrorsTold

\* What a sequence holds.
LEMMA SetOf ==
  ASSUME NEW S, NEW s \in Seq(S)
  PROVE  /\ ToSet(s) = {s[i] : i \in 1 .. Len(s)} /\ ToSet(s) \subseteq S /\ Len(s) \in Nat
         /\ DOMAIN s = 1 .. Len(s) /\ ToSet(<<>>) = {} /\ (s # <<>> => ToSet(s) # {})
         /\ OneEach(<<>>)
<1>1. DOMAIN s = 1 .. Len(s) /\ \A i \in 1 .. Len(s) : s[i] \in S
  BY ElementOfSeq, LenProperties
<1>2. s # <<>> => 1 \in 1 .. Len(s)
  BY EmptySeq, LenProperties
<1>3. DOMAIN <<>> = {}
  OBVIOUS
<1> QED BY <1>1, <1>2, <1>3, LenProperties DEF ToSet, OneEach

LEMMA SetOfMore ==
  ASSUME NEW S, NEW s \in Seq(S), NEW e \in S
  PROVE  /\ Append(s, e) \in Seq(S) /\ ToSet(Append(s, e)) = ToSet(s) \cup {e}
         /\ OneEach(s) /\ e \notin ToSet(s) => OneEach(Append(s, e))
<1> DEFINE t == Append(s, e)
<1>1. /\ t \in Seq(S) /\ Len(t) = Len(s) + 1 /\ t[Len(s) + 1] = e
      /\ \A i \in 1 .. Len(s) : t[i] = s[i]
  BY AppendProperties
<1> HIDE DEF t
<1>2. /\ DOMAIN s = 1 .. Len(s) /\ Len(s) \in Nat /\ DOMAIN t = 1 .. Len(t)
      /\ ToSet(s) = {s[i] : i \in 1 .. Len(s)} /\ ToSet(t) = {t[i] : i \in 1 .. Len(t)}
  BY <1>1, SetOf
<1>3. ASSUME NEW x \in ToSet(t) PROVE x \in ToSet(s) \cup {e}
  <2>1. PICK i \in 1 .. Len(s) + 1 : x = t[i]
    BY <1>1, <1>2, <1>3
  <2> QED BY <1>1, <1>2, <2>1
<1>4. ASSUME NEW x \in ToSet(s) PROVE x \in ToSet(t)
  <2>1. PICK i \in 1 .. Len(s) : x = s[i]
    BY <1>2, <1>4
  <2>2. i \in 1 .. Len(t) /\ t[i] = x
    BY <1>1, <1>2, <2>1
  <2> QED BY <1>2, <2>2
<1>5. e \in ToSet(t)
  BY <1>1, <1>2
<1>6. ASSUME OneEach(s), e \notin ToSet(s), NEW i \in DOMAIN t, NEW j \in DOMAIN t, i # j
      PROVE  t[i] # t[j]
  <2>1. \A m \in 1 .. Len(s) : s[m] # e
    BY <1>2, <1>6
  <2> QED BY <1>1, <1>2, <1>6, <2>1 DEF OneEach
<1>7. ToSet(t) = ToSet(s) \cup {e}
  BY <1>3, <1>4, <1>5
<1>8. OneEach(s) /\ e \notin ToSet(s) => OneEach(t)
  BY <1>6 DEF OneEach
<1> QED BY <1>1, <1>7, <1>8 DEF t

LEMMA SetOfRest ==
  ASSUME NEW S, NEW s \in Seq(S), s # <<>>
  PROVE  /\ Head(s) \in S /\ Head(s) \in ToSet(s)
         /\ Tail(s) \in Seq(S) /\ ToSet(Tail(s)) \subseteq ToSet(s)
         /\ OneEach(s) => OneEach(Tail(s)) /\ Head(s) \notin ToSet(Tail(s))
<1> DEFINE t == Tail(s)
<1>1. /\ Head(s) \in S /\ t \in Seq(S) /\ Len(t) = Len(s) - 1
      /\ \A i \in 1 .. Len(t) : t[i] = s[i + 1]
  BY HeadTailProperties
<1>9. Len(s) \in Nat \ {0} /\ Head(s) = s[1]
  BY EmptySeq, LenProperties
<1> HIDE DEF t
<1>10. /\ DOMAIN s = 1 .. Len(s) /\ DOMAIN t = 1 .. Len(t)
      /\ ToSet(s) = {s[i] : i \in 1 .. Len(s)} /\ ToSet(t) = {t[i] : i \in 1 .. Len(t)}
  BY <1>1, SetOf
<1>2. /\ DOMAIN s = 1 .. Len(s) /\ DOMAIN t = 1 .. Len(t) /\ Len(s) \in Nat \ {0}
      /\ ToSet(s) = {s[i] : i \in 1 .. Len(s)} /\ ToSet(t) = {t[i] : i \in 1 .. Len(t)}
      /\ Head(s) = s[1]
  BY <1>9, <1>10
<1>3. ASSUME NEW i \in 1 .. Len(t)
      PROVE  i + 1 \in 1 .. Len(s) /\ t[i] = s[i + 1]
  BY <1>1, <1>2
<1>4. Head(s) \in ToSet(s)
  BY <1>2
<1>5. ToSet(t) \subseteq ToSet(s)
  BY <1>2, <1>3
<1>6. ASSUME OneEach(s) PROVE OneEach(t) /\ Head(s) \notin ToSet(t)
  <2>1. ASSUME NEW i \in DOMAIN t, NEW j \in DOMAIN t, i # j PROVE t[i] # t[j]
    <3>1. i + 1 \in DOMAIN s /\ j + 1 \in DOMAIN s /\ i + 1 # j + 1
      BY <1>2, <1>3, <2>1
    <3>2. t[i] = s[i + 1] /\ t[j] = s[j + 1]
      BY <1>2, <1>3
    <3> QED BY <1>6, <3>1, <3>2 DEF OneEach
  <2>2. ASSUME NEW i \in 1 .. Len(t) PROVE t[i] # Head(s)
    <3>1. 1 \in DOMAIN s /\ i + 1 \in DOMAIN s /\ i + 1 # 1 /\ t[i] = s[i + 1]
      BY <1>2, <1>3
    <3> QED BY <1>2, <1>6, <3>1 DEF OneEach
  <2> QED BY <1>2, <2>1, <2>2 DEF OneEach
<1> QED BY <1>1, <1>4, <1>5, <1>6 DEF t


LEMMA TriggersTyped ==
  ASSUME SignalsTyped
  PROVE  /\ DOMAIN triggers = 1 .. Len(triggers) /\ Len(triggers) \in Nat
         /\ \A k \in DOMAIN triggers : triggers[k] \in OneTrigger
BY ElementOfSeq, LenProperties DEF SignalsTyped

\* One of some triggers is changed to t.
LEMMA OneChanges ==
  ASSUME NEW ts \in Seq(OneTrigger), NEW k \in DOMAIN ts, NEW t \in OneTrigger,
         triggers' = [ts EXCEPT ![k] = t]
  PROVE  /\ triggers' \in Seq(OneTrigger) /\ Len(triggers') = Len(ts)
         /\ DOMAIN triggers' = DOMAIN ts /\ triggers'[k] = t
         /\ \A j \in DOMAIN ts : j # k => triggers'[j] = ts[j]
<1>1. DOMAIN ts = 1 .. Len(ts)
  BY LenProperties
<1>2. /\ [ts EXCEPT ![k] = t] \in Seq(OneTrigger) /\ Len([ts EXCEPT ![k] = t]) = Len(ts)
      /\ \A j \in 1 .. Len(ts) : [ts EXCEPT ![k] = t][j] = IF j = k THEN t ELSE ts[j]
  BY <1>1, ExceptSeq
<1>3. DOMAIN [ts EXCEPT ![k] = t] = DOMAIN ts
  OBVIOUS
<1> QED BY <1>1, <1>2, <1>3

LEMMA CalledMore ==
  ASSUME SignalsTyped, NEW l \in Listener, NEW v \in Thrown,
         called' = [called EXCEPT ![l] = Append(@, v)]
  PROVE  /\ called' \in [Listener -> Seq(Thrown)]
         /\ \A m \in Listener : ToSet(called[m]) \subseteq ToSet(called'[m])
         /\ v \in ToSet(called'[l]) /\ (called[l] = <<>> => called'[l] = <<v>>)
         /\ \A m \in Listener : m # l => called'[m] = called[m]
<1>1. called \in [Listener -> Seq(Thrown)] /\ called[l] \in Seq(Thrown)
  BY DEF SignalsTyped
<1>2. /\ Append(called[l], v) \in Seq(Thrown)
      /\ ToSet(Append(called[l], v)) = ToSet(called[l]) \cup {v}
  BY <1>1, SetOfMore
<1>3. called'[l] = Append(called[l], v)
  BY <1>1
<1>4. called[l] = <<>> => called'[l] = <<v>>
  BY <1>3
<1> QED BY <1>1, <1>2, <1>3, <1>4

\* execTrigger.
LEMMA ExecFacts ==
  ASSUME SignalsTyped, NEW ts \in Seq(OneTrigger), NEW k \in DOMAIN ts, Exec(ts, k)
  PROVE  /\ triggers' \in Seq(OneTrigger) /\ Len(triggers') = Len(ts)
         /\ DOMAIN triggers' = DOMAIN ts
         /\ \A j \in DOMAIN ts : j # k => triggers'[j] = ts[j]
         /\ triggers'[k].arg = ts[k].arg /\ triggers'[k].throws = ts[k].throws
         /\ triggers'[k].at = (IF ended THEN "done" ELSE "next")
         /\ triggers'[k].tasks = attached /\ triggers'[k].had = ToSet(attached)
<1>1. ts[k] \in OneTrigger
  BY ElementOfSeq, LenProperties
<1>2. ToSet(attached) \subseteq Listener /\ attached \in Seq(Listener)
  BY SetOf DEF SignalsTyped
<1> DEFINE r == [ts[k] EXCEPT !.at = IF ended THEN "done" ELSE "next", !.tasks = attached,
                              !.had = ToSet(attached)]
<1>3. /\ r \in OneTrigger /\ r.arg = ts[k].arg /\ r.throws = ts[k].throws
      /\ r.at = (IF ended THEN "done" ELSE "next")
      /\ r.tasks = attached /\ r.had = ToSet(attached)
  BY <1>1, <1>2 DEF OneTrigger
<1>4. triggers' = [ts EXCEPT ![k] = r]
  BY <1>1 DEF Exec, OneTrigger
<1> HIDE DEF r
<1>5. PICK t \in OneTrigger : t = r
  BY <1>3
<1>6. /\ triggers' \in Seq(OneTrigger) /\ Len(triggers') = Len(ts)
      /\ DOMAIN triggers' = DOMAIN ts /\ triggers'[k] = t
      /\ \A j \in DOMAIN ts : j # k => triggers'[j] = ts[j]
  BY <1>4, <1>5, OneChanges
<1> QED BY <1>3, <1>5, <1>6

LEMMA ListenKeeps ==
  ASSUME SignalsIInv, NEW l \in Listener, Listen(l)
  PROVE  SignalsIInv'
<1> USE DEF SignalsIInv
<1>1. /\ l \notin ToSet(attached) /\ l \notin DOMAIN late /\ called[l] = <<>>
      /\ \A k \in DOMAIN triggers : l \notin ToSet(triggers[k].tasks)
      /\ UNCHANGED <<triggerType, ended, lastValue, triggers, called, ignoredErrors>>
  BY DEF Listen, Known
<1>2. CASE ended
  <2>1. /\ UNCHANGED attached /\ DOMAIN late' = DOMAIN late \cup {l}
        /\ late' = [m \in DOMAIN late' |-> late'[m]]
        /\ \A m \in DOMAIN late : late'[m] = late[m]
    BY <1>1, <1>2 DEF Listen
  <2>2. SignalsTyped' /\ TypeTells' /\ QueueInTurn' /\ ErrorsTold'
    BY <1>1, <2>1 DEF SignalsTyped, TypeTells, QueueInTurn, Settled, ErrorsTold, Telling, ListenerHeard
  <2>3. triggerType = "ONCE" => OnceEnds'
    BY <1>1, <1>2, <2>1 DEF OnceInv, OnceEnds
  <2>4. triggerType = "ONCE" => OncePending'
    BY <1>1, <1>2, <2>1 DEF OnceInv, OncePending
  <2>5. triggerType = "ONCE" => OnceCalled'
    BY <1>1 DEF OnceInv, OnceCalled
  <2> QED BY <1>1, <2>2, <2>3, <2>4, <2>5 DEF OnceInv
<1>3. CASE ~ended
  <2>1. UNCHANGED late /\ attached' = Append(attached, l)
    BY <1>3 DEF Listen
  <2>2. /\ attached' \in Seq(Listener) /\ ToSet(attached') = ToSet(attached) \cup {l}
        /\ OneEach(attached) => OneEach(attached')
    BY <1>1, <2>1, SetOfMore DEF SignalsTyped
  <2>3. SignalsTyped' /\ TypeTells' /\ QueueInTurn' /\ ErrorsTold'
    BY <1>1, <2>1, <2>2 DEF SignalsTyped, TypeTells, QueueInTurn, Settled, ErrorsTold, Telling,
                            ListenerHeard
  <2>4. triggerType = "ONCE" => OnceEnds'
    BY <1>1, <1>3, <2>1 DEF OnceInv, OnceEnds
  <2>5. triggerType = "ONCE" => OncePending'
    BY <1>1, <2>1, <2>2 DEF OnceInv, OncePending
  <2>6. triggerType = "ONCE" => OnceCalled'
    BY <1>1 DEF OnceInv, OnceCalled
  <2> QED BY <1>1, <2>3, <2>4, <2>5, <2>6 DEF OnceInv
<1> QED BY <1>2, <1>3

LEMMA LateCallKeeps ==
  ASSUME SignalsIInv, NEW l \in Listener, LateCall(l)
  PROVE  SignalsIInv'
<1> USE DEF SignalsIInv
<1>1. /\ l \in DOMAIN late /\ late[l] = "now" /\ late' = [late EXCEPT ![l] = "called"]
      /\ called' = [called EXCEPT ![l] = Append(@, lastValue)]
      /\ UNCHANGED <<triggerType, attached, ended, lastValue, triggers, ignoredErrors>>
  BY DEF LateCall
<1>2. /\ called' \in [Listener -> Seq(Thrown)]
      /\ \A m \in Listener : ToSet(called[m]) \subseteq ToSet(called'[m])
      /\ called[l] = <<>> => called'[l] = <<lastValue>>
      /\ \A m \in Listener : m # l => called'[m] = called[m]
  BY <1>1, CalledMore DEF SignalsTyped
<1>3. DOMAIN late' = DOMAIN late /\ late' = [m \in DOMAIN late' |-> late'[m]]
      /\ \A m \in DOMAIN late : late'[m] = IF m = l THEN "called" ELSE late[m]
  BY <1>1
<1>4. SignalsTyped' /\ TypeTells' /\ QueueInTurn'
  BY <1>1, <1>2, <1>3 DEF SignalsTyped, TypeTells, QueueInTurn, Settled
<1>5. ErrorsTold'
  BY <1>1, <1>2 DEF ErrorsTold, Telling, ListenerHeard
<1>6. ASSUME triggerType = "ONCE" PROVE OnceEnds' /\ OncePending' /\ OnceCalled'
  <2>1. OnceEnds /\ OncePending /\ OnceCalled /\ ended /\ called[l] = <<>>
    BY <1>1, <1>6 DEF OnceInv, OnceEnds, OncePending
  <2>2. OnceEnds'
    BY <1>1, <2>1 DEF OnceEnds
  <2>3. OnceCalled'
    BY <1>1, <1>2, <2>1 DEF OnceCalled
  <2>4. \A m \in ToSet(attached) : m \in Listener /\ m # l
    BY <2>1, SetOf DEF OnceEnds, SignalsTyped
  <2>5. \A k \in DOMAIN triggers : \A m \in ToSet(triggers[k].tasks) : m \in Listener /\ m # l
    <3>1. \A k \in DOMAIN triggers : triggers[k].tasks \in Seq(Listener)
      BY TriggersTyped DEF OneTrigger
    <3>2. \A k \in DOMAIN triggers : ToSet(triggers[k].tasks) \subseteq Listener
      BY <3>1, SetOf
    <3> QED BY <1>1, <2>1, <3>2 DEF OncePending
  <2>6. OncePending'
    BY <1>1, <1>2, <1>3, <2>1, <2>4, <2>5 DEF OncePending, SignalsTyped
  <2> QED BY <2>2, <2>3, <2>6
<1> QED BY <1>1, <1>4, <1>5, <1>6 DEF OnceInv


LEMMA TriggerKeeps ==
  ASSUME SignalsIInv, NEW v \in Arg, Trigger(v)
  PROVE  SignalsIInv'
<1> USE DEF SignalsIInv
<1> DEFINE t == [arg |-> v, at |-> "queued", tasks |-> <<>>, had |-> {}, throws |-> NoArg]
           ts == Append(triggers, t)
<1>1. /\ UNCHANGED <<triggerType, late, called, ignoredErrors>>
      /\ triggerType = "ONCE" => triggers = <<>>
      /\ IF Waits THEN triggers' = ts /\ UNCHANGED <<attached, ended, lastValue>>
         ELSE Exec(ts, Len(ts))
  BY DEF Trigger
<1>2. t \in OneTrigger /\ t.arg = v /\ t.at = "queued" /\ t.throws = NoArg
  BY EmptySeq DEF OneTrigger, Thrown
<1> HIDE DEF t
<1>3. /\ ts \in Seq(OneTrigger) /\ Len(ts) = Len(triggers) + 1 /\ ts[Len(triggers) + 1] = t
      /\ \A k \in 1 .. Len(triggers) : ts[k] = triggers[k]
  BY <1>2, AppendProperties DEF SignalsTyped
<1> HIDE DEF ts
<1>4. /\ DOMAIN ts = 1 .. Len(triggers) + 1 /\ DOMAIN triggers = 1 .. Len(triggers)
      /\ Len(triggers) \in Nat
  BY <1>3, TriggersTyped, LenProperties
<1>5. CASE Waits
  <2>1. triggers' = ts /\ UNCHANGED <<attached, ended, lastValue>> /\ triggerType = "QUEUE"
    BY <1>1, <1>5 DEF Waits
  <2>2. SignalsTyped' /\ TypeTells' /\ OnceInv'
    BY <1>1, <1>2, <1>3, <1>4, <2>1 DEF SignalsTyped, TypeTells, OnceInv
  <2>3. ErrorsTold'
    BY <1>1, <2>1 DEF ErrorsTold
  <2>4. ASSUME NEW j \in DOMAIN ts, NEW k \in DOMAIN ts, j < k, ts[k].at # "queued"
        PROVE  ts[j].at \in {"done", "failed"}
    <3>1. j \in DOMAIN triggers /\ k \in DOMAIN triggers
      BY <1>2, <1>3, <1>4, <2>4
    <3> QED BY <1>3, <1>4, <2>1, <2>4, <3>1 DEF QueueInTurn, Settled
  <2>5. QueueInTurn'
    BY <2>1, <2>4 DEF QueueInTurn, Settled
  <2> QED BY <2>2, <2>3, <2>5
<1>6. CASE ~Waits
  <2> DEFINE n == Len(triggers) + 1
  <2>1. Exec(ts, n) /\ n \in DOMAIN ts
    BY <1>1, <1>3, <1>4, <1>6
  <2>2. /\ triggers' \in Seq(OneTrigger) /\ Len(triggers') = n /\ DOMAIN triggers' = 1 .. n
        /\ \A j \in DOMAIN triggers : triggers'[j] = triggers[j]
        /\ triggers'[n].arg = v /\ triggers'[n].throws = NoArg
        /\ triggers'[n].at = (IF ended THEN "done" ELSE "next")
        /\ triggers'[n].tasks = attached /\ triggers'[n].had = ToSet(attached)
    BY <1>2, <1>3, <1>4, <2>1, ExecFacts
  <2>3. IF triggerType = "ONCE" /\ ~ended
        THEN attached' = <<>> /\ ended' = TRUE /\ lastValue' = v
        ELSE UNCHANGED <<attached, ended, lastValue>>
    BY <1>2, <1>3, <2>1 DEF Exec
  <2>4. SignalsTyped'
    BY <1>1, <2>2, <2>3, EmptySeq DEF SignalsTyped, Thrown
  <2>5. TypeTells'
    BY <1>1, <1>4, <2>2, <2>3 DEF TypeTells
  <2>6. OnceInv'
    <3> SUFFICES ASSUME triggerType = "ONCE" PROVE OnceEnds' /\ OncePending' /\ OnceCalled'
      BY <1>1 DEF OnceInv
    <3>1. OnceEnds /\ OncePending /\ triggers = <<>> /\ ~ended /\ DOMAIN triggers' = {1}
      BY <1>1, <1>4, <2>2 DEF OnceInv, OnceEnds
    <3>2. /\ attached' = <<>> /\ ended' = TRUE /\ lastValue' = v /\ DOMAIN late' = {}
          /\ \A l \in Listener : called'[l] = <<>>
          /\ triggers'[1].arg = v /\ triggers'[1].throws = NoArg /\ triggers'[1].tasks = attached
          /\ Len(triggers') = 1
      BY <1>1, <2>2, <2>3, <3>1, EmptySeq DEF OnceEnds
    <3>3. triggers' # <<>>
      BY <3>1
    <3>4. OnceEnds'
      BY <3>1, <3>2, <3>3 DEF OnceEnds
    <3>5. ToSet(attached) \subseteq Listener /\ ToSet(<<>>) = {} /\ OneEach(<<>>)
      BY SetOf DEF SignalsTyped
    <3>6. OncePending'
      BY <3>1, <3>2, <3>5 DEF OncePending
    <3>7. OnceCalled'
      BY <3>2 DEF OnceCalled
    <3> QED BY <3>4, <3>6, <3>7
  <2>7. QueueInTurn'
    <3>1. triggerType = "QUEUE" => \A j \in DOMAIN triggers : triggers[j].at \in {"done", "failed"}
      BY <1>6 DEF Waits, Settled
    <3>2. ASSUME NEW j \in DOMAIN triggers', NEW k \in DOMAIN triggers', j < k
          PROVE  j \in DOMAIN triggers
      BY <1>4, <2>2, <3>2
    <3> QED BY <1>1, <2>2, <3>1, <3>2 DEF QueueInTurn, Settled
  <2>8. ErrorsTold'
    <3>1. ASSUME triggerType = "ERROR", NEW k \in DOMAIN triggers' PROVE Telling(triggers[k])'
      <4>1. CASE k = n
        <5>1. ToSet(attached) # {} => attached # <<>>
          BY SetOf DEF SignalsTyped
        <5>2. ~ended
          BY <3>1 DEF TypeTells
        <5> QED BY <2>2, <4>1, <5>1, <5>2 DEF Telling
      <4>2. CASE k # n
        <5>1. k \in DOMAIN triggers /\ triggers'[k] = triggers[k]
          BY <1>4, <2>2, <4>2
        <5> QED BY <1>1, <3>1, <5>1 DEF ErrorsTold, Telling, ListenerHeard
      <4> QED BY <4>1, <4>2
    <3> QED BY <1>1, <3>1 DEF ErrorsTold
  <2> QED BY <2>4, <2>5, <2>6, <2>7, <2>8
<1> QED BY <1>5, <1>6

LEMMA DequeueKeeps ==
  ASSUME SignalsIInv, NEW k \in DOMAIN triggers, Dequeue(k)
  PROVE  SignalsIInv'
<1> USE DEF SignalsIInv
<1>1. /\ triggers[k].at = "queued" /\ \A j \in 1 .. k - 1 : Settled(j) /\ Exec(triggers, k)
      /\ UNCHANGED <<triggerType, late, called, ignoredErrors>>
  BY DEF Dequeue
<1>2. triggerType = "QUEUE" /\ ~ended
  BY <1>1 DEF TypeTells
<1>3. UNCHANGED <<attached, ended, lastValue>> /\ Exec(triggers, k)
  BY <1>2 DEF Dequeue, Exec
<1>4. /\ triggers' \in Seq(OneTrigger) /\ DOMAIN triggers' = DOMAIN triggers
      /\ \A j \in DOMAIN triggers : j # k => triggers'[j] = triggers[j]
      /\ triggers'[k].at = "next"
  BY <1>2, <1>3, ExecFacts DEF SignalsTyped
<1>5. SignalsTyped' /\ TypeTells' /\ OnceInv' /\ ErrorsTold'
  BY <1>1, <1>2, <1>3, <1>4 DEF SignalsTyped, TypeTells, OnceInv, ErrorsTold
<1>6. \A j \in DOMAIN triggers : j < k => Settled(j)
  BY TriggersTyped DEF Dequeue
<1>7. \A j \in DOMAIN triggers : k < j => triggers[j].at = "queued"
  BY <1>1, <1>2 DEF QueueInTurn, Settled
<1>8. ASSUME NEW i \in DOMAIN triggers, NEW j \in DOMAIN triggers, i < j,
             triggers'[j].at # "queued"
      PROVE  triggers'[i].at \in {"done", "failed"}
  <2>1. i \in Nat /\ j \in Nat /\ k \in Nat
    BY TriggersTyped
  <2>2. i # k
    BY <1>4, <1>7, <1>8, <2>1
  <2>3. CASE j = k
    BY <1>4, <1>6, <1>8, <2>2, <2>3 DEF Settled
  <2>4. CASE j # k
    BY <1>2, <1>4, <1>8, <2>2, <2>4 DEF QueueInTurn, Settled
  <2> QED BY <2>3, <2>4
<1> QED BY <1>4, <1>5, <1>8 DEF QueueInTurn, Settled

\* A trigger that has started goes on or ends: those of a QUEUE stay in turn.
LEMMA StaysInTurn ==
  ASSUME SignalsIInv, NEW k \in DOMAIN triggers, triggers[k].at \in {"next", "task"},
         UNCHANGED triggerType, DOMAIN triggers' = DOMAIN triggers,
         \A j \in DOMAIN triggers : j # k => triggers'[j] = triggers[j]
  PROVE  QueueInTurn'
<1> SUFFICES ASSUME triggerType = "QUEUE", NEW i \in DOMAIN triggers, NEW j \in DOMAIN triggers,
                    i < j, triggers'[j].at # "queued"
             PROVE  triggers'[i].at \in {"done", "failed"}
  BY DEF QueueInTurn, Settled
<1>1. i \in Nat /\ j \in Nat
  BY TriggersTyped DEF SignalsIInv
<1>2. triggers[j].at # "queued"
  OBVIOUS
<1>3. Settled(i)
  BY <1>2 DEF SignalsIInv, QueueInTurn
<1> QED BY <1>3 DEF Settled

LEMMA RunTaskKeeps ==
  ASSUME SignalsIInv, NEW k \in DOMAIN triggers, RunTask(k)
  PROVE  SignalsIInv'
<1> USE DEF SignalsIInv
<1> DEFINE t == triggers[k]
           l == Head(t.tasks)
           v == IF t.throws = NoArg THEN t.arg ELSE t.throws
           r == [t EXCEPT !.at = "task", !.tasks = Tail(t.tasks)]
<1>1. /\ t.at = "next" /\ t.tasks # <<>> /\ called' = [called EXCEPT ![l] = Append(@, v)]
      /\ UNCHANGED <<triggerType, attached, ended, lastValue, late, ignoredErrors>>
  BY DEF RunTask
<1>2. t \in OneTrigger /\ t.tasks \in Seq(Listener) /\ t.arg \in Arg /\ t.throws \in Thrown
  BY TriggersTyped DEF OneTrigger
<1>3. triggers' = [triggers EXCEPT ![k] = r]
  BY <1>2 DEF RunTask, OneTrigger
<1>4. /\ l \in Listener /\ l \in ToSet(t.tasks) /\ Tail(t.tasks) \in Seq(Listener)
      /\ ToSet(Tail(t.tasks)) \subseteq ToSet(t.tasks) /\ ToSet(t.tasks) \subseteq Listener
      /\ OneEach(t.tasks) => OneEach(Tail(t.tasks)) /\ l \notin ToSet(Tail(t.tasks))
  BY <1>1, <1>2, SetOf, SetOfRest
<1>5. /\ r \in OneTrigger /\ r.arg = t.arg /\ r.throws = t.throws /\ r.had = t.had
      /\ r.at = "task" /\ r.tasks = Tail(t.tasks)
  BY <1>2, <1>4 DEF OneTrigger
<1> HIDE DEF r
<1>6. /\ triggers' \in Seq(OneTrigger) /\ Len(triggers') = Len(triggers)
      /\ DOMAIN triggers' = DOMAIN triggers /\ triggers'[k] = r
      /\ \A j \in DOMAIN triggers : j # k => triggers'[j] = triggers[j]
  <2>1. PICK e \in OneTrigger : e = r
    BY <1>5
  <2> QED BY <1>3, <2>1, OneChanges DEF SignalsTyped
<1>7. v \in Thrown
  BY <1>2 DEF Thrown
<1> HIDE DEF v
<1>8. /\ called' \in [Listener -> Seq(Thrown)]
      /\ \A m \in Listener : ToSet(called[m]) \subseteq ToSet(called'[m])
      /\ v \in ToSet(called'[l]) /\ (called[l] = <<>> => called'[l] = <<v>>)
      /\ \A m \in Listener : m # l => called'[m] = called[m]
  <2>1. PICK e \in Thrown : e = v
    BY <1>7
  <2>2. PICK m \in Listener : m = l
    BY <1>4
  <2>3. called' = [called EXCEPT ![m] = Append(@, e)]
    BY <1>1, <2>1, <2>2
  <2> HIDE DEF l
  <2> QED BY <2>1, <2>2, <2>3, CalledMore
<1> HIDE DEF l
<1>9. SignalsTyped'
  BY <1>1, <1>6, <1>8 DEF SignalsTyped
<1>10. TypeTells' /\ QueueInTurn'
  <2>1. TypeTells'
    BY <1>1, <1>5, <1>6 DEF TypeTells
  <2> QED BY <1>1, <1>6, <2>1, StaysInTurn
<1>11. ErrorsTold'
  <2>1. ASSUME triggerType = "ERROR" PROVE Telling(triggers[k])'
    <3>1. CASE ListenerHeard(t)
      BY <1>5, <1>6, <1>8, <3>1 DEF Telling, ListenerHeard
    <3>2. CASE ~ListenerHeard(t)
      <4>1. t.had # {} => t.throws = NoArg
        BY <1>1, <2>1, <3>2 DEF ErrorsTold, Telling
      <4>2. t.had # {} => t.arg \in ToSet(called'[l])
        BY <1>8, <4>1 DEF v
      <4> QED BY <1>4, <1>5, <1>6, <4>2 DEF Telling, ListenerHeard
    <3> QED BY <3>1, <3>2
  <2>2. ASSUME triggerType = "ERROR", NEW j \in DOMAIN triggers, j # k PROVE Telling(triggers[j])'
    BY <1>6, <1>8, <2>2 DEF ErrorsTold, Telling, ListenerHeard
  <2> QED BY <1>1, <1>6, <1>8, <2>1, <2>2 DEF ErrorsTold
<1>12. ASSUME triggerType = "ONCE" PROVE OnceEnds' /\ OncePending' /\ OnceCalled'
  <2>1. OnceEnds /\ OncePending /\ OnceCalled /\ ended /\ attached = <<>>
    <3>1. triggers # <<>>
      BY SetOf, EmptySeq, TriggersTyped, LenProperties
    <3> QED BY <1>12, <3>1 DEF OnceInv, OnceEnds
  <2>2. v = lastValue /\ called[l] = <<>> /\ l \notin DOMAIN late
        /\ l \notin ToSet(Tail(t.tasks)) /\ OneEach(Tail(t.tasks)) /\ DOMAIN triggers = {k}
    <3>1. DOMAIN triggers = {k}
      BY <2>1, TriggersTyped DEF OnceEnds
    <3> QED BY <1>4, <2>1, <3>1 DEF OnceEnds, OncePending, v
  <2>3. OnceEnds'
    <3>1. triggers' # <<>>
      BY <1>6, <2>2
    <3> QED BY <1>1, <1>5, <1>6, <2>1, <2>2, <3>1 DEF OnceEnds
  <2>4. OncePending'
    <3>1. ToSet(attached) = {} /\ OneEach(attached)
      BY <2>1, SetOf DEF SignalsTyped
    <3> QED BY <1>1, <1>4, <1>5, <1>6, <1>8, <1>9, <2>1, <2>2, <3>1 DEF OncePending, SignalsTyped
  <2>5. OnceCalled'
    BY <1>1, <1>8, <2>1, <2>2 DEF OnceCalled
  <2> QED BY <2>3, <2>4, <2>5
<1> QED BY <1>1, <1>9, <1>10, <1>11, <1>12 DEF OnceInv


\* A listener has returned, or, in an ErrorSignal, thrown.
Back(k, e) == triggers' = [triggers EXCEPT ![k].at = "next", ![k].throws = e]

LEMMA ListenerBack ==
  ASSUME SignalsIInv, NEW k \in DOMAIN triggers, NEW e \in Thrown, triggers[k].at = "task",
         Back(k, e), triggerType = "ONCE" => e = NoArg,
         UNCHANGED <<triggerType, attached, ended, lastValue, late, called, ignoredErrors>>
  PROVE  SignalsIInv'
<1> USE DEF SignalsIInv
<1> DEFINE t == triggers[k]
           r == [t EXCEPT !.at = "next", !.throws = e]
<1>2. t \in OneTrigger
  BY TriggersTyped
<1>3. triggers' = [triggers EXCEPT ![k] = r]
  BY <1>2 DEF Back, OneTrigger
<1>5. /\ r \in OneTrigger /\ r.arg = t.arg /\ r.throws = e /\ r.had = t.had
      /\ r.at = "next" /\ r.tasks = t.tasks
  BY <1>2 DEF OneTrigger
<1> HIDE DEF r
<1>6. /\ triggers' \in Seq(OneTrigger) /\ Len(triggers') = Len(triggers)
      /\ DOMAIN triggers' = DOMAIN triggers /\ triggers'[k] = r
      /\ \A j \in DOMAIN triggers : j # k => triggers'[j] = triggers[j]
  <2>1. PICK x \in OneTrigger : x = r
    BY <1>5
  <2> QED BY <1>3, <2>1, OneChanges DEF SignalsTyped
<1>9. SignalsTyped'
  BY <1>6 DEF SignalsTyped
<1>10. TypeTells' /\ QueueInTurn'
  <2>1. TypeTells'
    BY <1>5, <1>6 DEF TypeTells
  <2> QED BY <1>6, <2>1, StaysInTurn
<1>11. ErrorsTold'
  <2>1. ASSUME triggerType = "ERROR" PROVE Telling(triggers[k])'
    <3>1. t.had # {} => ListenerHeard(t)
      BY <2>1 DEF ErrorsTold, Telling
    <3> QED BY <1>5, <1>6, <3>1 DEF Telling, ListenerHeard
  <2>2. ASSUME triggerType = "ERROR", NEW j \in DOMAIN triggers, j # k PROVE Telling(triggers[j])'
    BY <1>6, <2>2 DEF ErrorsTold, Telling, ListenerHeard
  <2> QED BY <1>6, <2>1, <2>2 DEF ErrorsTold
<1>12. ASSUME triggerType = "ONCE" PROVE OnceEnds' /\ OncePending' /\ OnceCalled'
  <2>1. OnceEnds /\ OncePending /\ OnceCalled
    BY <1>12 DEF OnceInv
  <2>2. triggers # <<>> /\ triggers' # <<>>
    <3>1. DOMAIN triggers # {} /\ DOMAIN triggers' # {}
      BY <1>6
    <3> QED BY <3>1
  <2>3. OnceEnds'
    BY <1>5, <1>6, <1>12, <2>1, <2>2 DEF OnceEnds
  <2>4. \A j \in DOMAIN triggers : triggers'[j].tasks = triggers[j].tasks
    BY <1>5, <1>6
  <2>5. OncePending' /\ OnceCalled'
    BY <1>6, <2>1, <2>4 DEF OncePending, OnceCalled
  <2> QED BY <2>3, <2>5
<1> QED BY <1>9, <1>10, <1>11, <1>12 DEF OnceInv

LEMMA SettleKeeps ==
  ASSUME SignalsIInv, NEW k \in DOMAIN triggers, NEW err \in Thrown,
         triggers[k].at \in {"next", "task"}, Settle(k, err),
         triggerType = "ERROR" /\ err = NoArg => ListenerHeard(triggers[k])
  PROVE  SignalsIInv'
<1> USE DEF SignalsIInv
<1> DEFINE t == triggers[k]
           r == [t EXCEPT !.at = IF err = NoArg THEN "done" ELSE "failed", !.tasks = <<>>]
<1>1. /\ UNCHANGED <<triggerType, attached, ended, lastValue, called>>
      /\ late' = [l \in DOMAIN late |-> IF late[l] # "task" THEN late[l]
                                        ELSE IF err = NoArg THEN "now" ELSE "dropped"]
      /\ \/ UNCHANGED ignoredErrors
         \/ /\ ignoredErrors' = ignoredErrors \cup {t.arg}
            /\ triggerType = "ERROR" /\ err = NoArg
  BY DEF Settle
<1>2. t \in OneTrigger
  BY TriggersTyped
<1>3. triggers' = [triggers EXCEPT ![k] = r]
  BY <1>2 DEF Settle, OneTrigger
<1>5. /\ r \in OneTrigger /\ r.arg = t.arg /\ r.throws = t.throws /\ r.had = t.had
      /\ r.at \in {"done", "failed"} /\ r.tasks = <<>>
  BY <1>2, EmptySeq DEF OneTrigger
<1> HIDE DEF r
<1>6. /\ triggers' \in Seq(OneTrigger) /\ Len(triggers') = Len(triggers)
      /\ DOMAIN triggers' = DOMAIN triggers /\ triggers'[k] = r
      /\ \A j \in DOMAIN triggers : j # k => triggers'[j] = triggers[j]
  <2>1. PICK x \in OneTrigger : x = r
    BY <1>5
  <2> QED BY <1>3, <2>1, OneChanges DEF SignalsTyped
<1>7. /\ DOMAIN late' = DOMAIN late /\ late' = [l \in DOMAIN late' |-> late'[l]]
      /\ \A l \in DOMAIN late : late'[l] \in {"now", "task"} => late[l] \in {"now", "task"}
  BY <1>1
<1>9. SignalsTyped'
  BY <1>1, <1>6, <1>7 DEF SignalsTyped
<1>10. TypeTells' /\ QueueInTurn'
  <2>1. TypeTells'
    BY <1>1, <1>5, <1>6 DEF TypeTells
  <2> QED BY <1>1, <1>6, <2>1, StaysInTurn
<1>11. ErrorsTold'
  <2>1. Telling(triggers[k])'
    BY <1>5, <1>6 DEF Telling
  <2>2. ASSUME triggerType = "ERROR", NEW j \in DOMAIN triggers, j # k PROVE Telling(triggers[j])'
    BY <1>1, <1>6, <2>2 DEF ErrorsTold, Telling, ListenerHeard
  <2>3. \A e \in ignoredErrors' : \E l \in Listener : e \in ToSet(called[l])
    BY <1>1 DEF ErrorsTold, ListenerHeard
  <2> QED BY <1>1, <1>6, <2>1, <2>2, <2>3 DEF ErrorsTold
<1>12. ASSUME triggerType = "ONCE" PROVE OnceEnds' /\ OncePending' /\ OnceCalled'
  <2>1. OnceEnds /\ OncePending /\ OnceCalled
    BY <1>12 DEF OnceInv
  <2>2. triggers # <<>> /\ triggers' # <<>>
    <3>1. DOMAIN triggers # {} /\ DOMAIN triggers' # {}
      BY <1>6
    <3> QED BY <3>1
  <2>3. OnceEnds'
    BY <1>1, <1>5, <1>6, <1>7, <2>1, <2>2 DEF OnceEnds
  <2>4. ToSet(<<>>) = {} /\ OneEach(<<>>)
    BY SetOf DEF SignalsTyped
  <2>5. OncePending'
    BY <1>1, <1>5, <1>6, <1>7, <2>1, <2>4 DEF OncePending
  <2>6. OnceCalled'
    BY <1>1, <2>1 DEF OnceCalled
  <2> QED BY <2>3, <2>5, <2>6
<1> QED BY <1>1, <1>9, <1>10, <1>11, <1>12 DEF OnceInv

LEMMA TriggerStepKeeps ==
  ASSUME SignalsIInv, SignalAssumption, NEW k \in DOMAIN triggers, TriggerStep(k)
  PROVE  SignalsIInv'
<1>1. /\ SignalsTyped /\ triggers[k] \in OneTrigger /\ NoArg \notin Arg
      /\ NoArg \in Thrown /\ Arg \subseteq Thrown
  BY TriggersTyped, SignalAssumption DEF SignalsIInv, Thrown
<1>2. CASE TaskReturns(k)
  BY <1>1, <1>2, ListenerBack DEF TaskReturns, Back
<1>3. ASSUME NEW e \in Arg, TaskThrows(k, e) PROVE SignalsIInv'
  <2>1. CASE triggerType = "ERROR"
    BY <1>1, <1>3, <2>1, ListenerBack DEF TaskThrows, Back
  <2>2. CASE triggerType # "ERROR"
    BY <1>1, <1>3, <2>2, SettleKeeps DEF TaskThrows
  <2> QED BY <2>1, <2>2
<1>4. CASE TriggerEnds(k)
  <2>1. triggers[k].at = "next" /\ triggers[k].tasks = <<>> /\ Settle(k, Outcome(k))
    BY <1>4 DEF TriggerEnds
  <2>2. PICK err : err = Outcome(k)
    OBVIOUS
  <2>3. err \in Thrown /\ Settle(k, err)
    BY <1>1, <2>1, <2>2 DEF Outcome, OneTrigger, Thrown
  <2>4. ASSUME triggerType = "ERROR", err = NoArg PROVE ListenerHeard(triggers[k])
    <3>1. triggers[k].had # {}
      BY <1>1, <2>2, <2>4 DEF Outcome, OneTrigger
    <3> QED BY <2>1, <2>4, <3>1 DEF SignalsIInv, ErrorsTold, Telling
  <2> QED BY <2>1, <2>3, <2>4, SettleKeeps
<1> QED BY <1>2, <1>3, <1>4, DequeueKeeps, RunTaskKeeps DEF TriggerStep

LEMMA SignalsStep ==
  ASSUME SignalsIInv, [SignalsNext]_signalVars
  PROVE  SignalsIInv'
<1>1. CASE SignalsNext
  BY <1>1, SignalAssumption, ListenKeeps, LateCallKeeps, TriggerKeeps, TriggerStepKeeps
  DEF SignalsNext
<1>2. CASE UNCHANGED signalVars
  <2>1. SignalsTyped' /\ TypeTells' /\ QueueInTurn' /\ ErrorsTold'
    BY <1>2 DEF signalVars, SignalsIInv, SignalsTyped, TypeTells, QueueInTurn, Settled,
                ErrorsTold, Telling, ListenerHeard
  <2>2. OnceInv'
    BY <1>2 DEF signalVars, SignalsIInv, OnceInv, OnceEnds, OncePending, OnceCalled
  <2> QED BY <2>1, <2>2 DEF SignalsIInv
<1> QED BY <1>1, <1>2

LEMMA SignalsStart == SignalsInit => SignalsIInv
<1> SUFFICES ASSUME SignalsInit PROVE SignalsIInv
  OBVIOUS
<1> USE DEF SignalsInit
<1>1. /\ DOMAIN triggers = {} /\ DOMAIN late = {} /\ Len(triggers) = 0
      /\ \A l \in Listener : called[l] = <<>>
  BY EmptySeq
<1>2. SignalsTyped
  BY <1>1, EmptySeq DEF SignalsTyped, Thrown
<1>3. ToSet(attached) = {} /\ OneEach(attached)
  BY <1>2, SetOf DEF SignalsTyped
<1>4. OnceInv
  BY <1>1, <1>3 DEF OnceInv, OnceEnds, OncePending, OnceCalled
<1> QED BY <1>1, <1>2, <1>4 DEF SignalsIInv, TypeTells, QueueInTurn, ErrorsTold

\* However calls of trigger and listen, listeners that return or throw, and late calls
\* meet, each type of signal keeps its promise (SignalInv).
THEOREM SignalsKeepPromises == SignalsSpec => []SignalInv
<1>1. SignalsIInv /\ [SignalsNext]_signalVars => SignalsIInv'
  BY SignalsStep
<1>2. SignalsInit => SignalsIInv
  BY SignalsStart
<1>3. SignalsIInv => SignalInv
  BY DEF SignalsIInv, SignalInv, OnceInv, OnceCalled, QueueInTurn, ErrorsTold
<1> QED BY <1>1, <1>2, <1>3, PTL DEF SignalsSpec

\* The buffers and pipelines of the subscriptions and the signals of the client, for any
\* number of writers, callers, listeners and triggers (StreamsInv).
THEOREM StreamUtilitiesGoRight == PipesSpec /\ SignalsSpec => []StreamsInv
<1>1. PipesInv /\ SignalInv => StreamsInv
  BY DEF StreamsInv
<1> QED BY <1>1, PipelinesStayInOrder, SignalsKeepPromises, PTL
==============================================================================
