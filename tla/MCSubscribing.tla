----------------------------- MODULE MCSubscribing -----------------------------
(* The life of subscriptions, the way of messages to their consumers, the      *)
(* pipeline and its buffer that each subscription is, and the signals they     *)
(* trigger.  The machines share no state; a behaviour is one of a single one.  *)
EXTENDS Subscriptions, MessagePipeline, Pipelines

VARIABLE machine

MCLengthOf == [c \in Chain |-> 3]

MCBad == Chain \X {2}

\* One signal type stands for all where the signals do not move.
MCInit ==
  /\ SubscriptionsInit /\ PipelineInit /\ PipesInit /\ SignalsInit
  /\ machine \in {"subscriptions", "pipeline", "pipes", "signals"}
  /\ machine # "signals" => triggerType = "ONCE"

\* A raw subscription is not there before, with or after the one that resends.
NotBoth ==
  \A r \in Resender, w \in Raw :
    r \in members' \/ phase'[r] # "new" => w \notin members' /\ consumed'[w] = <<>>

\* Only the last item of a writer is an Error.
OnlyLastIsBad == \A i \in DOMAIN pushed' : pushed'[i].bad => pushed'[i].n = MaxItems

MCNext ==
  \/ machine = "subscriptions" /\ SubscriptionsNext /\ UNCHANGED <<pipelineVars, pipeVars, signalVars>>
  \/ machine = "pipeline" /\ PipelineNext /\ NotBoth
     /\ UNCHANGED <<subscriptionVars, pipeVars, signalVars>>
  \/ machine = "pipes" /\ PipesNext /\ OnlyLastIsBad
     /\ UNCHANGED <<subscriptionVars, pipelineVars, signalVars>>
  \/ machine = "signals" /\ SignalsNext /\ UNCHANGED <<subscriptionVars, pipelineVars, pipeVars>>

MCvars == <<subscriptionVars, pipelineVars, pipeVars, signalVars, machine>>

\* What is fair in one machine is disabled in the initial state of the others.
MCSpec ==
  /\ MCInit /\ [][MCNext /\ UNCHANGED machine]_MCvars
  /\ SubscriptionsFairness /\ PipelineFairness /\ PipesFairness
  /\ SignalsFairness

\* The invariants of the buffers, pipelines and signals.
StreamsInv == PipesInv /\ SignalInv

\* Calls of the subscriber, of buffers and pipelines and of signals end, and no
\* subscription holds up the others.
EverythingGoesOn == CallsSettle /\ DistributionGoesOn /\ PipesSettle /\ SignalsSettle
=============================================================================
