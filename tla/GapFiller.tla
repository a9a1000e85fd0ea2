------------------------------ MODULE GapFiller ------------------------------
(***************************************************************************)
(* Gap filling of a message chain in the client                            *)
(* (client/src/subscribe/ordering/GapFiller.ts, with the chain and the     *)
(* resend of OrderMessages.ts around it).                                  *)
(*                                                                         *)
(* Each gap found starts a task.  Between its awaits a task runs without   *)
(* interruption; at an await the real-time stream, other tasks and the     *)
(* destruction of the subscription may come in between.  An aborted task   *)
(* ends at once when it waits for a timer, but it goes on after            *)
(* getStorageNodeAddresses or a resend.                                    *)
(***************************************************************************)
EXTENDS OrderedMessageChain, Functions

CONSTANT MaxRequestsPerGap  \* maxRequestsPerGap

ASSUME GapFillerAssumption == MaxRequestsPerGap \in Nat

VARIABLES
  full,       \* whether the strategy of the subscription is 'full' or 'light'
  tasks,      \* the running tasks, by the number at which their gap ends
  current,    \* currentTask, or NoRef
  destroyed,  \* the abort signal of the subscription
  lost        \* history: the lookup of storage nodes threw in the current gap's task

vars == <<chainVars, full, tasks, current, destroyed, lost>>

Task == [from : Nat, pc : {"initialWait", "addresses", "resend", "retryWait"},
         aborted : BOOLEAN, requests : 0 .. MaxRequestsPerGap]

-----------------------------------------------------------------------------
\* The tasks in set once t is aborted: a timer rejects at once.
Aborted(set, t) ==
  IF t \notin DOMAIN set THEN set
  ELSE IF set[t].pc \in {"initialWait", "retryWait"}
       THEN Restrict(set, DOMAIN set \ {t})
       ELSE [set EXCEPT ![t].aborted = TRUE]

NewTask(g) == [from |-> g.from, pc |-> "initialWait", aborted |-> FALSE, requests |-> 0]

\* What remains of the tasks in set, and the one that is started, after the
\* chain's step.
TasksAfter(set, resolved, found) ==
  LET left == IF resolved THEN Aborted(set, current) ELSE set
  IN  IF found
      THEN [t \in DOMAIN left \cup {gap'.to} |->
              IF t = gap'.to THEN NewTask(gap') ELSE left[t]]
      ELSE left

\* The listeners of the chain's events, after its step left the tasks in set:
\* onGapResolved, then onGapFound.  destroy() has removed the listeners.
React(set) ==
  LET resolved == gap # NoRef /\ gap' # gap
      found    == gap' # NoRef /\ gap' # gap
  IN  IF destroyed
      THEN tasks' = set /\ UNCHANGED current
      ELSE /\ tasks' = TasksAfter(set, resolved, found)
           /\ current' = IF found THEN gap'.to
                         ELSE IF resolved THEN NoRef ELSE current

\* A message of the real-time stream (addMessages stops reading once destroyed).
Receive(m) ==
  /\ ~destroyed
  /\ AddMessage(m)
  /\ React(tasks)
  /\ lost' = (lost /\ gap' = gap)
  /\ UNCHANGED <<full, destroyed>>

\* The task t moves to the await at pc, the chain is left alone.
MoveTo(t, pc) ==
  /\ tasks' = [tasks EXCEPT ![t].pc = pc]
  /\ UNCHANGED <<chainVars, full, current, destroyed, lost>>

\* The task t ends without a word to the chain.
End(t) ==
  /\ tasks' = Restrict(tasks, DOMAIN tasks \ {t})
  /\ UNCHANGED <<chainVars, full, current, destroyed, lost>>

\* Mutant: the task resolves the gap that is open by then.
GiveUp_OpenGap(t) ==
  /\ IF full /\ gap # NoRef THEN ResolveMessages(gap.to, TRUE) ELSE ResolveMessages(NoRef, FALSE)
  /\ React(Restrict(tasks, DOMAIN tasks \ {t}))
  /\ lost' = (lost /\ gap' = gap)
  /\ UNCHANGED <<full, destroyed>>

\* The task gives its gap up: resolveMessages, by the strategy.
GiveUp(t) ==
  /\ IF full THEN ResolveMessages(t, TRUE) ELSE ResolveMessages(NoRef, FALSE)
  /\ React(Restrict(tasks, DOMAIN tasks \ {t}))
  /\ lost' = (lost /\ gap' = gap)
  /\ UNCHANGED <<full, destroyed>>

\* wait(initialWaitTime)
InitialWaitOver(t) ==
  /\ tasks[t].pc = "initialWait"
  /\ IF MaxRequestsPerGap > 0 THEN MoveTo(t, "addresses") ELSE GiveUp(t)

\* The request number k to a storage node is under way.
Request(t, k) ==
  /\ tasks' = [tasks EXCEPT ![t].pc = "resend", ![t].requests = k]
  /\ UNCHANGED <<chainVars, full, current, destroyed, lost>>

\* getStorageNodeAddresses answers with some nodes, with none, or throws.
AddressesFound(t) ==
  /\ tasks[t].pc = "addresses"
  /\ Request(t, 1)

NoAddresses(t) ==
  /\ tasks[t].pc = "addresses"
  /\ GiveUp(t)

AddressesFailed(t) ==
  /\ tasks[t].pc = "addresses"
  /\ tasks' = Restrict(tasks, DOMAIN tasks \ {t})
  /\ lost' = (lost \/ t = current)
  /\ UNCHANGED <<chainVars, full, current, destroyed>>

\* The messages a resend for the gap of t may bring: after gap.from, up to the
\* predecessor of the message that ends the gap.
Resendable(t) ==
  {m \in Message : /\ m.number > tasks[t].from
                   /\ \E n \in Message : n.number = t /\ m.number <= n.prev}

ResendMessage(t, m) ==
  /\ tasks[t].pc = "resend"
  /\ m \in Resendable(t)
  /\ AddMessage(m)
  /\ React(tasks)
  /\ lost' = (lost /\ gap' = gap)
  /\ UNCHANGED <<full, destroyed>>

AfterRequest(t) == IF tasks[t].aborted THEN End(t) ELSE MoveTo(t, "retryWait")

\* Mutant: nothing is resolved.
ResendOver_NoGiveUp(t) ==
  /\ tasks[t].pc = "resend"
  /\ IF tasks[t].requests < MaxRequestsPerGap THEN AfterRequest(t) ELSE End(t)

\* The resend ends or fails.  The next wait throws if the task was aborted
\* meanwhile; after the last request there is no wait.
ResendOver(t) ==
  /\ tasks[t].pc = "resend"
  /\ IF tasks[t].requests < MaxRequestsPerGap THEN AfterRequest(t) ELSE GiveUp(t)

\* wait(retryWaitTime)
RetryWaitOver(t) ==
  /\ tasks[t].pc = "retryWait"
  /\ Request(t, tasks[t].requests + 1)

\* destroy() of the subscription's OrderMessages.
Destroy ==
  /\ ~destroyed
  /\ destroyed' = TRUE
  /\ tasks' = IF current = NoRef THEN tasks ELSE Aborted(tasks, current)
  /\ UNCHANGED <<chainVars, full, current, lost>>

Progress(t) ==
  \/ InitialWaitOver(t)
  \/ AddressesFound(t)
  \/ NoAddresses(t)
  \/ ResendOver(t)
  \/ RetryWaitOver(t)

Init ==
  /\ ChainInit
  /\ full \in BOOLEAN
  /\ tasks = [t \in {} |-> {}]
  /\ current = NoRef
  /\ destroyed = FALSE
  /\ lost = FALSE

Next ==
  \/ \E m \in Message : Receive(m)
  \/ \E t \in DOMAIN tasks :
       \/ Progress(t)
       \/ AddressesFailed(t)
       \/ \E m \in Message : ResendMessage(t, m)
  \/ Destroy

\* Timers expire, and lookups and resends are answered sooner or later; nothing
\* makes the publisher send or the storage deliver.
Fairness ==
  \A n \in Numbers(Message) : WF_vars(n \in DOMAIN tasks /\ Progress(n))

Spec == Init /\ [][Next]_vars /\ Fairness

-----------------------------------------------------------------------------
(* Properties.                                                             *)

TypeOK ==
  /\ ChainTypeOK
  /\ DOMAIN tasks \subseteq Numbers(Message)
  /\ tasks \in [DOMAIN tasks -> Task]
  /\ current \in Numbers(Message) \cup {NoRef}
  /\ full \in BOOLEAN /\ destroyed \in BOOLEAN /\ lost \in BOOLEAN

\* The current gap is the business of the current task, which is not aborted,
\* and every other task that still runs was aborted: while a gap is open, one
\* task works on it, unless its lookup of the storage nodes threw.
CurrentTaskOwnsGap ==
  ~destroyed =>
    /\ (current = NoRef) <=> (gap = NoRef)
    /\ gap # NoRef => current = gap.to /\ (lost \/ current \in DOMAIN tasks)
    /\ \A t \in DOMAIN tasks : tasks[t].aborted <=> t # current

\* "if this task has not been aborted by either of these reasons, we resolve the gap
\* manually" (the comment in onGapFound): a gap is dropped only by a task that ends, on its
\* last request or because there are no storage nodes to ask.  With the strategy 'full' it
\* is the gap's own task, whatever gap is open when an aborted one resolves what it was
\* started for; with 'light', which resolves all that waits, it may also be a task aborted
\* during that last request.  Once the subscription is destroyed no new task starts.
DroppedAfterLastRequest ==
  [][/\ unfillable' # unfillable /\ ~destroyed =>
          \E t \in DOMAIN tasks \ DOMAIN tasks' :
            /\ tasks[t].pc = "addresses" \/ tasks[t].requests = MaxRequestsPerGap
            /\ t = current \/ (~full /\ tasks[t].aborted)
     /\ destroyed => DOMAIN tasks' \subseteq DOMAIN tasks]_vars

\* The tasks, the gap and what is pending agree: the invariant of the chain, which is
\* blocked by its gap alone, and of the tasks, one of which works on that gap.
TasksAndGapsAgree ==
  TypeOK /\ CurrentTaskOwnsGap /\ GapIsOpen /\ NothingDeliverableWaits

\* "giving up and proceeding forwards" (Config.ts): what waits is delivered in the end, by filling the gaps or by dropping them,
\* unless the storage nodes cannot be looked up.
EventuallyDelivered ==
  \A m \in Message : m \in pending ~> (m \notin pending \/ destroyed \/ lost)
=============================================================================
