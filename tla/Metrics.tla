------------------------------- MODULE Metrics --------------------------------
(***************************************************************************)
(* Metrics and their reports: a metric, its sampler and the producer of    *)
(* reports of Metric.ts, on the timer of scheduleAtFixedRate.ts; and the   *)
(* publishing of the reports by MetricsPublisher.ts.                       *)
(*                                                                         *)
(* A value is aggregated as its sum, count and the time it took; a count,  *)
(* an average and a rate are made of those.                                *)
(***************************************************************************)
EXTENDS Integers, Sequences

CONSTANTS
  Period,    \* between reports
  MaxDelay,    \* maxPublishDelay
  MaxLate,     \* bound: how late a timer may fire
  MaxRecords,  \* bound of the values recorded, each of which is 1
  MaxClock,    \* bound of the clock
  NoValue      \* undefined

Sample == [sum : Nat, count : Nat, start : Nat]
Value == [sum : Nat, count : Nat, elapsed : Nat]

ASSUME MetricsAssumption ==
  /\ Period \in Nat \ {0} /\ MaxDelay \in 0 .. Period - 1
  /\ NoValue \notin Nat /\ NoValue \notin Sample /\ NoValue \notin Value

VARIABLES
  now,
  started,     \* ensureStarted: "no", "yes" or "failed"
  invocation,  \* invocationTime
  aborted,     \* when the client was destroyed, or NoValue
  kind,        \* of the metric: "count", "average", "level" or "rate"
  added,       \* addMetrics was called
  latestValue,
  sample,      \* the ongoing sample, or NoValue
  reports,     \* those produced
  delayed,     \* those that wait to be published: their ends and when they are due
  reported,        \* the ends of those published, in that order
  recorded,    \* history: the sum of the values, from the first sample on
  upTo,        \* history: what that was when each of the reports was made
  late         \* history: a timer fired late

metricsVars == <<now, started, invocation, aborted, kind, added, latestValue, sample,
                 reports, delayed, reported, recorded, upTo, late>>

MetricsInit ==
  /\ now = 0 /\ started = "no" /\ invocation = 0 /\ aborted = NoValue
  /\ kind \in {"count", "average", "level", "rate"}
  /\ added = FALSE /\ sample = NoValue
  /\ latestValue \in {NoValue} \cup {v \in {0} : kind = "level"}
  /\ reports = <<>> /\ delayed = {} /\ reported = <<>>
  /\ recorded = 0 /\ upTo = <<>> /\ late = FALSE

-----------------------------------------------------------------------------
(* Samplers.                                                               *)

OnRecord(s, value) == [s EXCEPT !.sum = @ + value, !.count = @ + 1]

\* createSampler and start: that of a level starts with the current one.
StartSample(time) ==
  LET s == [sum |-> 0, count |-> 0, start |-> time]
  IN  IF kind = "level" /\ latestValue # NoValue THEN OnRecord(s, latestValue) ELSE s

\* getAggregatedValue of a sample that stops.
Aggregated(s, time) ==
  IF \/ kind \in {"average", "level"} /\ s.count = 0
     \/ kind = "rate" /\ s.start = time
  THEN NoValue
  ELSE [sum |-> s.sum, count |-> s.count, elapsed |-> time - s.start]

-----------------------------------------------------------------------------
(* Metrics.                                                                *)

AddMetrics ==
  /\ ~added
  /\ added' = TRUE
  /\ UNCHANGED <<now, started, invocation, aborted, kind, latestValue, sample, reports,
                 delayed, reported, recorded, upTo, late>>

Record ==
  /\ recorded < MaxRecords
  /\ latestValue' = 1
  /\ sample' = IF sample = NoValue THEN NoValue ELSE OnRecord(sample, 1)
  /\ recorded' = recorded + (IF sample = NoValue THEN 0 ELSE 1)
  /\ UNCHANGED <<now, started, invocation, aborted, kind, added, reports, delayed, reported,
                 upTo, late>>

-----------------------------------------------------------------------------
(* The producer.                                                           *)

\* The first publish or subscribe event starts the node, which may fail (for good), and
\* then the producer, whose first task is due at the next multiple of the interval.
EnsureStarted ==
  /\ started = "no"
  /\ \/ /\ started' = "yes"
        /\ invocation' = now - (now % Period) + Period
     \/ started' = "failed" /\ UNCHANGED invocation
  /\ UNCHANGED <<now, aborted, kind, added, latestValue, sample, reports, delayed, reported,
                 recorded, upTo, late>>

\* A timer fires when it is due, or later.
Passes ==
  /\ now < MaxClock
  /\ started = "yes" /\ aborted = NoValue => now < invocation + MaxLate
  /\ \A r \in delayed : now < r.due
  /\ now' = now + 1
  /\ UNCHANGED <<started, invocation, aborted, kind, added, latestValue, sample, reports,
                 delayed, reported, recorded, upTo, late>>

\* The next invocation: those whose time has passed already are skipped.
NextInvocation == IF now < invocation + Period THEN invocation + Period
                  ELSE now - (now % Period) + Period

\* The task of the producer: a report of the ongoing sample, if there is one, and a new
\* sample of the metric.  The report is published after a random delay.
Task ==
  /\ started = "yes" /\ now >= invocation /\ aborted = NoValue
  /\ invocation' = NextInvocation
  /\ IF sample = NoValue THEN UNCHANGED <<reports, delayed, upTo>>
     ELSE /\ reports' = Append(reports, [start |-> invocation - Period, end |-> invocation,
                                         value |-> Aggregated(sample, invocation)])
          /\ upTo' = Append(upTo, recorded)
          /\ \E delay \in 0 .. MaxDelay :
               delayed' = delayed \cup {[end |-> invocation, due |-> now + delay]}
  /\ sample' = IF added THEN StartSample(invocation) ELSE NoValue
  /\ late' = (late \/ now > invocation)
  /\ UNCHANGED <<now, started, aborted, kind, added, latestValue, reported, recorded>>

\* The report is published, or that fails, as it does when the client is destroyed.
PublishReport ==
  \E r \in delayed :
    /\ now >= r.due
    /\ delayed' = delayed \ {r}
    /\ \/ aborted = NoValue /\ reported' = Append(reported, r.end)
       \/ UNCHANGED reported
    /\ UNCHANGED <<now, started, invocation, aborted, kind, added, latestValue, sample,
                   reports, recorded, upTo, late>>

\* destroy(): the timer is cleared.
Abort ==
  /\ aborted = NoValue
  /\ aborted' = now
  /\ UNCHANGED <<now, started, invocation, kind, added, latestValue, sample, reports,
                 delayed, reported, recorded, upTo, late>>

MetricsNext ==
  AddMetrics \/ Record \/ EnsureStarted \/ Passes \/ Task \/ PublishReport \/ Abort

MetricsSpec == MetricsInit /\ [][MetricsNext]_metricsVars

-----------------------------------------------------------------------------
(* Properties.                                                             *)

Sum(r) == IF r.value = NoValue THEN 0 ELSE r.value.sum

\* Every value recorded since the first sample is counted in the next report that is
\* made and in no other, and until then in the ongoing sample.
UpTo(i) == IF i = 0 THEN 0 ELSE upTo[i]

EachCountedOnce ==
  kind # "level" =>
    /\ Len(upTo) = Len(reports)
    /\ \A i \in DOMAIN reports : Sum(reports[i]) = UpTo(i) - UpTo(i - 1)
    /\ recorded - UpTo(Len(reports)) = (IF sample = NoValue THEN 0 ELSE sample.sum)

\* The periods of the reports do not overlap, end in the past and before the client is
\* destroyed; a rate is always defined, and a level once there was one; and unless a
\* timer was late a value covers exactly the period that is reported.
PeriodsFit ==
  /\ \A i \in DOMAIN reports :
       /\ i > 1 => reports[i - 1].end <= reports[i].start
       /\ reports[i].end <= (IF aborted = NoValue THEN now ELSE aborted)
       /\ kind = "rate" => reports[i].value # NoValue
       /\ reports[i].value # NoValue /\ ~late => reports[i].value.elapsed = Period
       /\ kind = "level" /\ i > 1 /\ reports[i - 1].value # NoValue => reports[i].value # NoValue

\* The reports are published in order, unless a timer was late.
SentInOrder == late \/ \A i, j \in DOMAIN reported : i < j => reported[i] < reported[j]

MetricsInv == EachCountedOnce /\ PeriodsFit /\ SentInOrder
=============================================================================
