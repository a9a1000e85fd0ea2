----------------------------- MODULE Pipelines -----------------------------
(***************************************************************************)
(* A PushBuffer (PushBuffer.ts) with its two gates (Gate.ts), those that   *)
(* push into it and those that pull a source into it.  The reader is the   *)
(* generator iterate; Pipelines says when it runs.  One step is the code   *)
(* between two awaits.                                                     *)
(*                                                                         *)
(* A PushPipeline (Pipeline.ts, PushPipeline.ts) over a PushBuffer: its    *)
(* generator iterate in the wrapper of iteratorFinally (iterators.ts), the *)
(* consumer that calls next, the callers of return, and the cleanup that   *)
(* runs once however the pipeline ends, even if it was never iterated.     *)
(* Transforms pass messages on one by one and have no state here.          *)
(***************************************************************************)
EXTENDS Naturals, Sequences, FiniteSets, SequencesExt

CONSTANTS
  Pusher,      \* those that push and look only at the buffer: distributeMessage
  Puller,      \* those that pull a generator into the buffer
  BufferLimit,  \* bufferSize
  MaxItems     \* bound: items that each of them pushes

Writer == Pusher \cup Puller

ASSUME BufferAssumption == BufferLimit \in Nat \ {0} /\ IsFiniteSet(Writer) /\ MaxItems \in Nat

VARIABLES
  buffered,     \* buffer: items [from, n, bad]; bad: an Error
  writeGate,  \* writeGate: [locked, closed]
  readGate,   \* readGate
  deferred,   \* error is set: thrown when the buffer has been flushed
  source,     \* the generator iterate: "new", "out" at its yield, "waiting" for the
              \* read gate, "woken", or "done"
  writer,     \* each writer: "idle", "waiting" for the write gate, "woken", "refused"
              \* by the last push, or "ended"
  sent,       \* the number of items each has pushed
  pushed,     \* history: the items put into the buffer
  read        \* history: the items taken out of it

bufferVars == <<buffered, writeGate, readGate, deferred, source, writer, sent, pushed, read>>

BufferInit ==
  /\ buffered = <<>> /\ deferred = FALSE
  /\ writeGate = [locked |-> FALSE, closed |-> TRUE]
  /\ readGate = [locked |-> FALSE, closed |-> TRUE]
  /\ source = "new" /\ writer = [w \in Writer |-> "idle"] /\ sent = [w \in Writer |-> 0]
  /\ pushed = <<>> /\ read = <<>>

-----------------------------------------------------------------------------
(* Gates.  What waits at a gate is woken when it opens or is locked, and   *)
(* looks again at the lock when it goes on.                                *)

Open(gate) == IF gate.locked THEN gate ELSE [gate EXCEPT !.closed = FALSE]
Lock(gate) == [locked |-> TRUE, closed |-> FALSE]
Close(gate) == IF gate.locked THEN gate ELSE [gate EXCEPT !.closed = TRUE]
SetOpenState(gate, open) == IF open THEN Open(gate) ELSE Close(gate)

\* clearPending: those that wait at a gate that has become gate.
Woken(at, gate) == IF at = "waiting" /\ ~gate.closed THEN "woken" ELSE at
WokenWriters(ws, gate) == [w \in Writer |-> Woken(ws[w], gate)]

AtLimit(items) == Len(items) >= BufferLimit
IsDone == writeGate.locked /\ readGate.locked
IsWritable == ~writeGate.locked /\ ~readGate.locked

-----------------------------------------------------------------------------
(* Writing.                                                                *)

\* end, lock: nothing is read or written any more; src: the generator.
LockGates(src) ==
  /\ writeGate' = Lock(writeGate) /\ readGate' = Lock(readGate)
  /\ writer' = WokenWriters(writer, writeGate')
  /\ source' = Woken(src, readGate')

\* Mutant: a reader that waits stays asleep.
EndWrite_NoWake(ws, err) ==
  /\ deferred' = (deferred \/ err)
  /\ readGate' = readGate
  /\ writeGate' = Lock(writeGate)
  /\ writer' = WokenWriters(ws, writeGate')
  /\ source' = source

\* endWrite: what is in the buffer can still be read.
EndWrite(ws, err) ==
  /\ deferred' = (deferred \/ err)
  /\ readGate' = Open(readGate)
  /\ writeGate' = Lock(writeGate)
  /\ writer' = WokenWriters(ws, writeGate')
  /\ source' = Woken(source, readGate')

\* push of an item, or of an Error.
Push(w, bad) ==
  LET item == [from |-> w, n |-> sent[w] + 1, bad |-> bad]
  IN  /\ writer[w] = "idle" \/ (w \in Pusher /\ writer[w] = "refused")
      /\ sent[w] < MaxItems
      /\ sent' = [sent EXCEPT ![w] = @ + 1]
      /\ IF IsWritable
         THEN /\ buffered' = Append(buffered, item) /\ pushed' = Append(pushed, item)
              /\ writeGate' = SetOpenState(writeGate, ~AtLimit(buffered'))
              /\ readGate' = Open(readGate)
              /\ source' = Woken(source, readGate')
              /\ writer' = WokenWriters([writer EXCEPT ![w] = IF writeGate'.closed THEN "waiting"
                                                              ELSE "idle"], writeGate')
         ELSE /\ writer' = [writer EXCEPT ![w] = "refused"]
              /\ UNCHANGED <<buffered, pushed, writeGate, readGate, source>>
      /\ UNCHANGED <<deferred, read>>

\* push goes on: whether the gate is locked now decides what it returns.
PushReturns(w) ==
  /\ writer[w] = "woken"
  /\ writer' = [writer EXCEPT ![w] = IF writeGate.locked THEN "refused" ELSE "idle"]
  /\ UNCHANGED <<buffered, writeGate, readGate, deferred, source, sent, pushed, read>>

\* pull: the source is over, or the last push was refused.
PullEnds(w) ==
  /\ w \in Puller /\ writer[w] \in {"idle", "refused"}
  /\ EndWrite([writer EXCEPT ![w] = "ended"], FALSE)
  /\ UNCHANGED <<buffered, sent, pushed, read>>

\* The source throws.
PullFails(w) ==
  /\ w \in Puller /\ writer[w] = "idle"
  /\ EndWrite([writer EXCEPT ![w] = "ended"], TRUE)
  /\ UNCHANGED <<buffered, sent, pushed, read>>

-----------------------------------------------------------------------------
(* Reading: the loop of iterate, from its start, its yield or the gate.    *)

CanRun == source \in {"new", "out", "woken"}

\* The next item is yielded.
TakeItem ==
  /\ CanRun /\ ~readGate.locked /\ buffered # <<>> /\ ~Head(buffered).bad
  /\ buffered' = Tail(buffered) /\ read' = Append(read, Head(buffered))
  /\ writeGate' = SetOpenState(writeGate, ~AtLimit(buffered'))
  /\ writer' = WokenWriters(writer, writeGate')
  /\ source' = "out"
  /\ UNCHANGED <<readGate, deferred, sent, pushed>>

\* It is an Error: thrown, with what is left behind it dropped.
TakeError ==
  /\ CanRun /\ ~readGate.locked /\ buffered # <<>> /\ Head(buffered).bad
  /\ buffered' = <<>> /\ read' = Append(read, Head(buffered))
  /\ writeGate' = Lock(writeGate) /\ readGate' = Lock(readGate)
  /\ writer' = WokenWriters(writer, writeGate')
  /\ source' = "done"
  /\ UNCHANGED <<deferred, sent, pushed>>

\* Nothing to read yet.
AwaitItem ==
  /\ CanRun /\ ~readGate.locked /\ buffered = <<>> /\ ~writeGate.locked
  /\ readGate' = Close(readGate)
  /\ source' = "waiting"
  /\ UNCHANGED <<buffered, writeGate, deferred, writer, sent, pushed, read>>

\* Nothing to read any more; a deferred error is thrown.
Exhausted ==
  /\ CanRun /\ (readGate.locked \/ (buffered = <<>> /\ writeGate.locked))
  /\ buffered' = <<>> /\ deferred' = FALSE
  /\ writeGate' = Lock(writeGate) /\ readGate' = Lock(readGate)
  /\ writer' = WokenWriters(writer, writeGate')
  /\ source' = "done"
  /\ UNCHANGED <<sent, pushed, read>>

\* return: the gates are locked; a generator that was never started just ends, ...
Return ==
  /\ LockGates(IF source = "new" THEN "done" ELSE source)
  /\ UNCHANGED <<buffered, deferred, sent, pushed, read>>

\* ... one at its yield leaves through finally, others when next has returned.
Returned ==
  /\ source \in {"out", "done"}
  /\ source' = "done"
  /\ buffered' = IF source = "out" THEN <<>> ELSE buffered
  /\ UNCHANGED <<writeGate, readGate, deferred, writer, sent, pushed, read>>

WriterStep(w) ==
  \/ Push(w, FALSE) \/ (w \in Pusher /\ Push(w, TRUE))
  \/ PushReturns(w) \/ PullEnds(w) \/ PullFails(w)

-----------------------------------------------------------------------------
\* Items come out in the order they went in, none is lost while the buffer can be
\* read, and none that is refused comes out; a reader or a writer that sleeps has
\* a reason to; slow reading holds each writer up after one item.
BufferInv ==
  /\ source # "done" /\ ~readGate.locked => read \o buffered = pushed
  /\ \E k \in 0 .. Len(pushed) : read = SubSeq(pushed, 1, k)
  /\ source = "waiting" => buffered = <<>> /\ IsWritable
  /\ \A w \in Writer : writer[w] = "waiting" => AtLimit(buffered) /\ IsWritable
  /\ Len(buffered) < BufferLimit + Cardinality(Writer)

-----------------------------------------------------------------------------
(* The pipeline.                                                           *)

CONSTANT Caller   \* the callers of return: unsubscribe, destroy, the end of a loop

VARIABLES
  iterator,      \* the wrapped generator: "new", "reading", "triggering" the
                 \* listeners of onMessage, "yielded", "handling" an error, "final",
                 \* "cleaning", "done"
  isCleaningUp,  \* isCleaningUp
  cleanup,       \* the task of cleanup: "none", "error", "source", "before",
                 \* "finally", "done"
  erroneous,        \* the generator ends with an error
  call,          \* each caller of return: "none", "source" awaiting the buffer,
                 \* "iterator" queued at the generator, "cleanup", "returned"
  yielded       \* history: the number of messages yielded to the consumer

iterVars == <<iterator, isCleaningUp, cleanup, erroneous, yielded>>
pipeVars == <<bufferVars, iterVars, call>>

PipesInit ==
  /\ BufferInit
  /\ iterator = "new" /\ isCleaningUp = FALSE /\ cleanup = "none" /\ erroneous = FALSE
  /\ call = [c \in Caller |-> "none"] /\ yielded = 0

-----------------------------------------------------------------------------
(* The generator.                                                          *)

\* The consumer calls next: the source is asked for its next item, unless a return
\* is ahead in the queue of the generator.
Next ==
  /\ iterator \in {"new", "yielded"} /\ \A c \in Caller : call[c] # "iterator"
  /\ iterator' = "reading"
  /\ UNCHANGED <<bufferVars, isCleaningUp, cleanup, erroneous, call, yielded>>

\* An item: the listeners of onMessage are triggered ...
ReadItem ==
  /\ iterator = "reading" /\ TakeItem
  /\ iterator' = "triggering"
  /\ UNCHANGED <<isCleaningUp, cleanup, erroneous, call, yielded>>

ReadAwaits ==
  /\ iterator = "reading" /\ AwaitItem
  /\ UNCHANGED <<iterVars, call>>

\* ... and it is yielded when they are through.
Yield ==
  /\ iterator = "triggering"
  /\ iterator' = "yielded" /\ yielded' = yielded + 1
  /\ UNCHANGED <<bufferVars, isCleaningUp, cleanup, erroneous, call>>

\* The source throws, or a listener does.
ReadThrows ==
  /\ \/ iterator = "reading" /\ (TakeError \/ (deferred /\ Exhausted))
     \/ iterator = "triggering" /\ UNCHANGED bufferVars
  /\ iterator' = "handling" /\ isCleaningUp' = TRUE
  /\ UNCHANGED <<cleanup, erroneous, call, yielded>>

\* The source is over, or had been returned.
ReadEnds ==
  /\ iterator = "reading"
  /\ (~deferred /\ Exhausted) \/ (source = "done" /\ UNCHANGED bufferVars)
  /\ iterator' = "final" /\ isCleaningUp' = TRUE
  /\ UNCHANGED <<cleanup, erroneous, call, yielded>>

\* handleError: the listeners of onError suppress the error, or there are none.
Handled ==
  /\ iterator = "handling"
  /\ iterator' = "final" /\ erroneous' \in BOOLEAN
  /\ UNCHANGED <<bufferVars, isCleaningUp, cleanup, call, yielded>>

-----------------------------------------------------------------------------
(* cleanup, behind pOnce and onFinallyOnce.                                *)

\* It runs if it does not yet.
CleanupStarted == cleanup' = IF cleanup # "none" THEN cleanup ELSE IF erroneous THEN "error" ELSE "source"

\* The finally of the wrapper.
Finally ==
  /\ iterator = "final"
  /\ iterator' = "cleaning" /\ isCleaningUp' = TRUE
  /\ CleanupStarted
  /\ UNCHANGED <<bufferVars, erroneous, call, yielded>>

\* onError was told; the source is returned whatever came of it.
CleanupError ==
  /\ cleanup = "error"
  /\ cleanup' = "source"
  /\ UNCHANGED <<bufferVars, iterator, isCleaningUp, erroneous, call, yielded>>

\* source.return: the gates are locked, and the generator of the source is left.
CleanupSource ==
  /\ cleanup = "source" /\ source \in {"new", "out", "done"}
  /\ cleanup' = "before"
  /\ writeGate' = Lock(writeGate) /\ readGate' = Lock(readGate)
  /\ writer' = WokenWriters(writer, writeGate')
  /\ source' = "done" /\ buffered' = IF source = "out" THEN <<>> ELSE buffered
  /\ UNCHANGED <<deferred, sent, pushed, read, iterator, isCleaningUp, erroneous, call, yielded>>

\* onBeforeFinally has been triggered, then onFinally.
CleanupSignals ==
  /\ cleanup \in {"before", "finally"}
  /\ cleanup' = IF cleanup = "before" THEN "finally" ELSE "done"
  /\ UNCHANGED <<bufferVars, iterator, isCleaningUp, erroneous, call, yielded>>

\* The generator ends with its cleanup.
IteratorEnds ==
  /\ iterator = "cleaning" /\ cleanup = "done"
  /\ iterator' = "done"
  /\ UNCHANGED <<bufferVars, isCleaningUp, cleanup, erroneous, call, yielded>>

-----------------------------------------------------------------------------
(* return, and the end and handleError of PushPipeline.                    *)

\* The pipeline's return: nothing to do while it is cleaned up.  Its test for
\* onBeforeFinally never holds.
PipelineReturn(c) ==
  /\ call[c] = "none"
  /\ IF isCleaningUp
     THEN call' = [call EXCEPT ![c] = "returned"] /\ UNCHANGED bufferVars
     ELSE call' = [call EXCEPT ![c] = "source"] /\ Return
  /\ UNCHANGED iterVars

\* The source is ended: the wrapper's return.  A generator that was not started
\* ends at once, and its cleanup is run here.
SourceReturned(c) ==
  /\ call[c] = "source" /\ Returned
  /\ IF iterator = "new" \/ (iterator = "done" /\ cleanup # "done")
     THEN /\ iterator' = "done" /\ isCleaningUp' = TRUE
          /\ call' = [call EXCEPT ![c] = "cleanup"]
          /\ CleanupStarted
     ELSE /\ call' = [call EXCEPT ![c] = "iterator"]
          /\ UNCHANGED <<iterator, isCleaningUp, cleanup>>
  /\ UNCHANGED <<erroneous, yielded>>

\* The generator takes up the return: at its yield it leaves through finally.
IteratorReturn(c) ==
  /\ call[c] = "iterator" /\ iterator \in {"yielded", "done"}
  /\ IF iterator = "yielded"
     THEN iterator' = "final" /\ isCleaningUp' = TRUE /\ UNCHANGED call
     ELSE call' = [call EXCEPT ![c] = "returned"] /\ UNCHANGED <<iterator, isCleaningUp>>
  /\ UNCHANGED <<bufferVars, cleanup, erroneous, yielded>>

CleanedUp(c) ==
  /\ call[c] = "cleanup" /\ cleanup = "done"
  /\ call' = [call EXCEPT ![c] = "returned"]
  /\ UNCHANGED <<bufferVars, iterVars>>

\* end: of Subscription.unsubscribe, before its return.
EndBuffer ==
  /\ ~IsDone
  /\ LockGates(source)
  /\ UNCHANGED <<buffered, deferred, sent, pushed, read, iterVars, call>>

-----------------------------------------------------------------------------
IterStep ==
  \/ ReadItem \/ ReadAwaits \/ ReadThrows \/ ReadEnds
  \/ Yield \/ Handled \/ Finally \/ IteratorEnds

CleanupStep == CleanupError \/ CleanupSource \/ CleanupSignals

ReturnStep(c) == SourceReturned(c) \/ IteratorReturn(c) \/ CleanedUp(c)

\* What a writer does leaves the pipeline alone.
PipesNext ==
  \/ \E w \in Writer : WriterStep(w) /\ UNCHANGED <<iterVars, call>>
  \/ Next \/ IterStep \/ CleanupStep
  \/ \E c \in Caller : PipelineReturn(c) \/ ReturnStep(c)
  \/ EndBuffer

PipesSpec == PipesInit /\ [][PipesNext]_pipeVars

\* Promise callbacks run, the listeners return (none of them waits for the return of
\* this pipeline), and a consumer that has started calls next until the end.
PipesFairness ==
  /\ WF_pipeVars(IterStep) /\ WF_pipeVars(CleanupStep) /\ WF_pipeVars(iterator # "new" /\ Next)
  /\ \A c \in Caller : WF_pipeVars(ReturnStep(c))
  /\ \A w \in Writer : WF_pipeVars(PushReturns(w) /\ UNCHANGED <<iterVars, call>>)

-----------------------------------------------------------------------------
\* The generator ends only when it is cleaned up, cleaning up closes the buffer
\* before anybody is told, and the consumer gets what was read, in order.
PipelineEnds ==
  /\ iterator = "done" => cleanup # "none"
  /\ cleanup \in {"before", "finally", "done"} => IsDone /\ source = "done"
  /\ cleanup # "none" => isCleaningUp /\ iterator \in {"cleaning", "done"}
  /\ yielded <= Len(read)

PipesInv == BufferInv /\ PipelineEnds

\* However pushes, reads, errors, end and return fall together, every return
\* returns, and in a pipeline that is iterated every push returns, and cleaning up
\* follows the end of the buffer.
PipesSettle ==
  []<>(/\ \A c \in Caller : call[c] \in {"none", "returned"}
       /\ iterator = "new" \/ \A w \in Writer : writer[w] # "waiting"
       /\ IsDone => iterator = "new" \/ cleanup = "done")

-----------------------------------------------------------------------------
(***************************************************************************)
(* A Signal and an ErrorSignal (Signal.ts), of the trigger types the       *)
(* client uses or tests: ONCE (pOnce), QUEUE (pLimitFn), PARALLEL, and an  *)
(* ErrorSignal, which is PARALLEL.  Listeners of one trigger are called in *)
(* sequence, each when the one before has returned; triggers and calls of  *)
(* listen interleave with them.                                            *)
(***************************************************************************)
CONSTANTS
  Listener,     \* the listeners, each added at most once
  Arg,          \* the arguments, or the errors, of triggers
  NoArg,        \* lastValue before the signal has ended
  MaxTriggers   \* bound: calls of trigger

ASSUME SignalAssumption == NoArg \notin Arg /\ MaxTriggers \in Nat

VARIABLES
  triggerType,  \* "ONCE", "QUEUE", "PARALLEL", or "ERROR" for an ErrorSignal
  attached,    \* listeners
  ended,        \* isEnded
  lastValue,    \* lastValue
  triggers,     \* the calls of trigger: [arg, at, tasks, had, throws]; at: "queued",
                \* "next" before the next task, "task" in it, "done" or "failed"; had:
                \* the listeners there were
  currentTask,  \* currentTask: a trigger, or 0
  late,         \* the listeners added after the end: "called", "dropped", or the
                \* trigger they wait for
  called,       \* history: the arguments each listener was called with
  seenErrors, ignoredErrors

signalVars == <<triggerType, attached, ended, lastValue, triggers, currentTask, late, called,
                seenErrors, ignoredErrors>>

SignalsInit ==
  /\ triggerType \in {"ONCE", "QUEUE", "PARALLEL", "ERROR"}
  /\ attached = <<>> /\ ended = FALSE /\ lastValue = NoArg /\ triggers = <<>> /\ currentTask = 0
  /\ late = [l \in {} |-> 0] /\ called = [l \in Listener |-> <<>>]
  /\ seenErrors = {} /\ ignoredErrors = {}

Known == ToSet(attached) \cup DOMAIN late
Settled(k) == triggers[k].at \in {"done", "failed"}

\* listen: after the end, the listener waits for the task that runs and is then
\* called with its value, or is forgotten.
Listen(l) ==
  /\ l \notin Known /\ called[l] = <<>>
  /\ \A k \in DOMAIN triggers : l \notin ToSet(triggers[k].tasks)
  /\ IF ended
     THEN /\ late' = [m \in DOMAIN late \cup {l} |->
                       IF m # l THEN late[m] ELSE IF currentTask = 0 THEN "now" ELSE "task"]
          /\ UNCHANGED attached
     ELSE attached' = Append(attached, l) /\ UNCHANGED late
  /\ UNCHANGED <<triggerType, ended, lastValue, triggers, currentTask, called, seenErrors,
                 ignoredErrors>>

\* execTrigger of trigger k, up to its first task.
Exec(ts, k) ==
  /\ triggers' = [ts EXCEPT ![k].at = IF ended THEN "done" ELSE "next", ![k].tasks = attached,
                            ![k].had = ToSet(attached)]
  /\ currentTask' = k
  /\ IF triggerType = "ONCE" /\ ~ended
     THEN attached' = <<>> /\ ended' = TRUE /\ lastValue' = ts[k].arg
     ELSE UNCHANGED <<attached, ended, lastValue>>

\* pLimitFn: another trigger runs.
Waits == triggerType = "QUEUE" /\ \E k \in DOMAIN triggers : ~Settled(k)

\* trigger.  Later calls of a ONCE signal get the promise of the first; an error that
\* was seen is thrown again, or ignored.
Trigger(v) ==
  LET ts == Append(triggers, [arg |-> v, at |-> "queued", tasks |-> <<>>, had |-> {},
                              throws |-> NoArg])
  IN  /\ Len(triggers) < MaxTriggers
      /\ triggerType = "ONCE" => triggers = <<>>
      /\ triggerType = "ERROR" => v \notin seenErrors
      /\ seenErrors' = IF triggerType = "ERROR" THEN seenErrors \cup {v} ELSE seenErrors
      /\ IF Waits THEN triggers' = ts /\ UNCHANGED <<currentTask, attached, ended, lastValue>>
         ELSE Exec(ts, Len(ts))
      /\ UNCHANGED <<triggerType, late, called, ignoredErrors>>

\* The queue goes on with the next trigger.
Dequeue(k) ==
  /\ triggers[k].at = "queued" /\ \A j \in 1 .. k - 1 : Settled(j)
  /\ Exec(triggers, k)
  /\ UNCHANGED <<triggerType, late, called, seenErrors, ignoredErrors>>

\* The next listener is called: with the argument, or with what the last one threw.
RunTask(k) ==
  LET t == triggers[k]
      v == IF t.throws = NoArg THEN t.arg ELSE t.throws
  IN  /\ t.at = "next" /\ t.tasks # <<>>
      /\ triggers' = [triggers EXCEPT ![k].at = "task", ![k].tasks = Tail(@)]
      /\ called' = [called EXCEPT ![Head(t.tasks)] = Append(@, v)]
      /\ UNCHANGED <<triggerType, attached, ended, lastValue, currentTask, late, seenErrors,
                     ignoredErrors>>

\* It returns.
TaskReturns(k) ==
  /\ triggers[k].at = "task"
  /\ triggers' = [triggers EXCEPT ![k].at = "next", ![k].throws = NoArg]
  /\ UNCHANGED <<triggerType, attached, ended, lastValue, currentTask, late, called, seenErrors,
                 ignoredErrors>>

\* trigger is over, with the error err or with NoArg.  Those that listened late are
\* called if they waited for a task that did not fail.
Settle(k, err) ==
  /\ triggers' = [triggers EXCEPT ![k].at = IF err = NoArg THEN "done" ELSE "failed",
                                  ![k].tasks = <<>>]
  /\ currentTask' = IF currentTask = k THEN 0 ELSE currentTask
  /\ late' = [l \in DOMAIN late |-> IF late[l] # "task" THEN late[l]
                                    ELSE IF err = NoArg THEN "now" ELSE "dropped"]
  /\ IF triggerType # "ERROR" THEN UNCHANGED <<seenErrors, ignoredErrors>>
     ELSE IF err = NoArg
     THEN ignoredErrors' = ignoredErrors \cup {triggers[k].arg} /\ UNCHANGED seenErrors
     ELSE seenErrors' = seenErrors \cup {err} /\ UNCHANGED ignoredErrors
  /\ UNCHANGED <<triggerType, attached, ended, lastValue, called>>

\* It throws: a Signal calls no more listeners, an ErrorSignal tells the next.
TaskThrows(k, e) ==
  /\ triggers[k].at = "task"
  /\ IF triggerType = "ERROR"
     THEN /\ triggers' = [triggers EXCEPT ![k].at = "next", ![k].throws = e]
          /\ UNCHANGED <<triggerType, attached, ended, lastValue, currentTask, late, called,
                         seenErrors, ignoredErrors>>
     ELSE Settle(k, e)

\* What the listeners leave: an ErrorSignal without listeners throws the error.
Outcome(k) ==
  IF triggerType = "ERROR" /\ triggers[k].had = {} THEN triggers[k].arg ELSE triggers[k].throws

TriggerEnds(k) ==
  /\ triggers[k].at = "next" /\ triggers[k].tasks = <<>>
  /\ Settle(k, Outcome(k))

\* A listener that was added after the end is called.
LateCall(l) ==
  /\ l \in DOMAIN late /\ late[l] = "now"
  /\ late' = [late EXCEPT ![l] = "called"]
  /\ called' = [called EXCEPT ![l] = Append(@, lastValue)]
  /\ UNCHANGED <<triggerType, attached, ended, lastValue, triggers, currentTask, seenErrors,
                 ignoredErrors>>

TriggerStep(k) ==
  \/ Dequeue(k) \/ RunTask(k) \/ TriggerEnds(k)
  \/ TaskReturns(k) \/ \E e \in Arg : TaskThrows(k, e)

SignalsNext ==
  \/ \E l \in Listener : Listen(l) \/ LateCall(l)
  \/ \E v \in Arg : Trigger(v)
  \/ \E k \in DOMAIN triggers : TriggerStep(k)

SignalsSpec == SignalsInit /\ [][SignalsNext]_signalVars

\* Listeners return.
SignalsFairness ==
  /\ \A k \in 1 .. MaxTriggers : WF_signalVars(k \in DOMAIN triggers /\ TriggerStep(k))
  /\ \A l \in Listener : WF_signalVars(LateCall(l))

-----------------------------------------------------------------------------
\* Whatever runs at the same time: a ONCE signal calls a listener once, with the value
\* it was triggered with; a QUEUE runs its triggers one after the other, in order, so
\* that all listeners hear the arguments in the order of the triggers; an error is
\* ignored only after a listener has suppressed it.
SignalInv ==
  /\ triggerType = "ONCE" => \A l \in Listener : called[l] \in {<<>>, <<lastValue>>}
  /\ triggerType = "QUEUE" =>
       \A j, k \in DOMAIN triggers : j < k /\ triggers[k].at # "queued" => Settled(j)
  /\ \A e \in ignoredErrors : \E l \in Listener : e \in ToSet(called[l])

\* Every trigger ends, and whoever listens to a ONCE signal is called, before or after
\* it was triggered, unless a listener has thrown.
SignalsSettle ==
  []<>(/\ \A k \in DOMAIN triggers : Settled(k)
       /\ ended => \/ \E k \in DOMAIN triggers : triggers[k].at = "failed"
                   \/ \A l \in Known \cup UNION {triggers[k].had : k \in DOMAIN triggers} :
                        called[l] # <<>>)
=============================================================================
