------------------------- MODULE InstructionHandling -------------------------
(***************************************************************************)
(* How a node handles the tracker's instructions for one stream part:      *)
(* network/src/logic/InstructionThrottler.ts, InstructionRetryManager.ts   *)
(* and handleTrackerInstruction of TrackerManager.ts, with the state of    *)
(* StreamPartManager.ts they work on.                                      *)
(*                                                                         *)
(* A run is one call of handleTrackerInstruction.  It is suspended while   *)
(* it connects to the neighbours it was told.  Its end, and its caller's   *)
(* next step, are microtasks: they come before the next message, timer or  *)
(* connection event, but in any order among each other and with calls of   *)
(* the application.                                                        *)
(***************************************************************************)
EXTENDS Integers, FiniteSets

CONSTANTS
  Peer,         \* the other nodes
  Instruction,  \* the instructions: [counter, nodes, expected]; expected is
                \* FALSE when they come from a tracker of other stream parts
  None,         \* no instruction, and no run
  StatusSendCounterLimit,
  MaxSlots       \* bound: the runs that exist at a time

Run == [instr : Instruction, by : {"throttler", "retry", "nobody"},
        reattempt : BOOLEAN, pending : SUBSET Peer, failed : BOOLEAN, over : BOOLEAN]

ASSUME InstructionAssumption ==
  /\ Instruction \subseteq [counter : Nat \ {0}, nodes : SUBSET Peer, expected : BOOLEAN]
  /\ None \notin Instruction \cup Run

ASSUME BoundAssumption == StatusSendCounterLimit \in Nat /\ MaxSlots \in Nat

VARIABLES
  setUp, neighbors, counter,  \* the stream part in StreamPartManager
  queue,       \* the queued instruction
  highest,     \* instructionCounter, 0 when undefined
  lock,        \* ongoingPromises: "none", or whether it is "handling" or "free"
  timer,       \* the instruction that will be retried
  retryCount,  \* the counter of the retry interval
  runs,        \* the runs
  latest,      \* history: the last instruction given to InstructionRetryManager.add
  silent       \* history: retries since the last status was sent

subscription == <<setUp, neighbors, counter>>
throttler == <<queue, highest, lock>>
retrier == <<timer, retryCount, latest>>
handlingVars == <<subscription, throttler, retrier, runs, silent>>

Slot == 1 .. MaxSlots

-----------------------------------------------------------------------------
FreeSlots == {s \in Slot : runs[s] = None}
FreeSlot(s) == s \in FreeSlots /\ \A r \in FreeSlots : s <= r

\* No microtask is due: every run waits for a connection.
NoMicrotask == \A s \in Slot : runs[s] # None => runs[s].pending # {}

NewRun(i, by, reattempt, ends) ==
  [instr |-> i, by |-> by, reattempt |-> reattempt,
   pending |-> IF ends THEN {} ELSE i.nodes, failed |-> FALSE, over |-> ends]

\* handleTrackerInstruction up to its await: the retry is set, and the other
\* neighbours are unsubscribed from, unless the tracker is the wrong one.
Start(s, i, by, reattempt) ==
  /\ runs' = [runs EXCEPT ![s] = NewRun(i, by, reattempt, ~setUp \/ ~i.expected)]
  /\ IF setUp
     THEN timer' = i /\ retryCount' = 0 /\ latest' = i
     ELSE UNCHANGED retrier
  /\ neighbors' = IF setUp /\ i.expected THEN neighbors \cap i.nodes ELSE neighbors
  /\ UNCHANGED <<setUp, counter>>

\* connectToNode succeeds: the neighbour is added if the stream part is set up.
Connected(s, p) ==
  /\ NoMicrotask
  /\ runs[s] # None
  /\ p \in runs[s].pending
  /\ runs' = [runs EXCEPT ![s].pending = @ \ {p}, ![s].failed = @ \/ ~setUp]
  /\ neighbors' = IF setUp THEN neighbors \cup {p} ELSE neighbors
  /\ UNCHANGED <<setUp, counter, throttler, retrier, silent>>

\* connectToNode fails or times out.
ConnectFailed(s, p) ==
  /\ NoMicrotask
  /\ runs[s] # None
  /\ p \in runs[s].pending
  /\ runs' = [runs EXCEPT ![s].pending = @ \ {p}, ![s].failed = TRUE]
  /\ UNCHANGED <<subscription, throttler, retrier, silent>>

\* The rest of handleTrackerInstruction: the counter, and the status.
End(s) ==
  /\ runs[s] # None
  /\ runs[s].pending = {}
  /\ ~runs[s].over
  /\ runs' = [runs EXCEPT ![s].over = TRUE]
  /\ counter' = IF setUp THEN runs[s].instr.counter ELSE counter
  /\ silent' = IF ~runs[s].reattempt \/ runs[s].failed THEN 0
               ELSE IF silent <= StatusSendCounterLimit THEN silent + 1 ELSE silent
  /\ UNCHANGED <<setUp, neighbors, throttler, retrier>>

-----------------------------------------------------------------------------
(* InstructionThrottler.                                                   *)

\* add: an instruction that is not older than the newest one is queued while
\* another is handled, and otherwise handled at once.
AddInstruction(i) ==
  /\ NoMicrotask
  /\ highest <= i.counter
  /\ highest' = i.counter
  /\ IF lock = "handling"
     THEN queue' = i /\ UNCHANGED <<lock, runs, subscription, retrier>>
     ELSE /\ lock' = "handling"
          /\ \E s \in Slot : FreeSlot(s) /\ Start(s, i, "throttler", FALSE)
          /\ UNCHANGED queue
  /\ UNCHANGED silent

\* Mutant: after a failure the queue is not looked at again.
Continue_Stops(s) ==
  /\ runs[s] # None /\ runs[s].over /\ runs[s].by = "throttler"
  /\ ~runs[s].failed
  /\ IF queue = None
     THEN /\ lock' = "free"
          /\ runs' = [runs EXCEPT ![s] = None]
          /\ UNCHANGED <<queue, subscription, retrier>>
     ELSE /\ queue' = None
          /\ Start(s, queue, "throttler", FALSE)
          /\ UNCHANGED lock
  /\ UNCHANGED <<highest, silent>>

\* invokeHandleFnWithLock after the run: the queued instruction is next.
Continue(s) ==
  /\ runs[s] # None /\ runs[s].over /\ runs[s].by = "throttler"
  /\ IF queue = None
     THEN /\ lock' = "free"
          /\ runs' = [runs EXCEPT ![s] = None]
          /\ UNCHANGED <<queue, subscription, retrier>>
     ELSE /\ queue' = None
          /\ Start(s, queue, "throttler", FALSE)
          /\ UNCHANGED lock
  /\ UNCHANGED <<highest, silent>>

-----------------------------------------------------------------------------
(* InstructionRetryManager.                                                *)

\* The interval is over: retryFunction calls the handler directly.
RetryFunction ==
  /\ NoMicrotask
  /\ timer # None
  /\ \E s \in Slot : FreeSlot(s) /\ Start(s, timer, "retry", retryCount # 0)
  /\ UNCHANGED <<throttler, silent>>

\* retryFunction after the run: the same instruction again, if the stream part
\* was not removed meanwhile.
Rearm(s) ==
  /\ runs[s] # None /\ runs[s].over /\ runs[s].by = "retry"
  /\ runs' = [runs EXCEPT ![s] = None]
  /\ IF timer # None
     THEN /\ timer' = runs[s].instr
          /\ retryCount' = IF retryCount >= StatusSendCounterLimit THEN 0
                           ELSE retryCount + 1
     ELSE UNCHANGED <<timer, retryCount>>
  /\ UNCHANGED <<subscription, throttler, latest, silent>>

-----------------------------------------------------------------------------
(* The node.                                                               *)

SetUpStreamPart ==
  /\ ~setUp
  /\ setUp' = TRUE
  /\ UNCHANGED <<neighbors, counter, throttler, retrier, runs, silent>>

\* The run of the throttler goes on, but nobody waits for it any more.
Cancelled == [s \in Slot |-> IF runs[s] # None /\ runs[s].by = "throttler"
                             THEN [runs[s] EXCEPT !.by = "nobody"]
                             ELSE runs[s]]

\* unsubscribeFromStream
RemoveStreamPart ==
  /\ setUp
  /\ setUp' = FALSE /\ neighbors' = {} /\ counter' = 0
  /\ queue' = None /\ highest' = 0 /\ lock' = "none"
  /\ runs' = Cancelled
  /\ timer' = None /\ retryCount' = 0 /\ latest' = None
  /\ silent' = 0

\* A cancelled run is over.
Forgotten(s) ==
  /\ runs[s] # None /\ runs[s].over /\ runs[s].by = "nobody"
  /\ runs' = [runs EXCEPT ![s] = None]
  /\ UNCHANGED <<subscription, throttler, retrier, silent>>

\* onNodeDisconnected
PeerLost(p) ==
  /\ NoMicrotask
  /\ p \in neighbors
  /\ neighbors' = neighbors \ {p}
  /\ UNCHANGED <<setUp, counter, throttler, retrier, runs, silent>>

HandlingInit ==
  /\ setUp = FALSE /\ neighbors = {} /\ counter = 0
  /\ queue = None /\ highest = 0 /\ lock = "none"
  /\ timer = None /\ retryCount = 0 /\ latest = None
  /\ runs = [s \in Slot |-> None]
  /\ silent = 0

RunStep(s) ==
  \/ \E p \in Peer : Connected(s, p) \/ ConnectFailed(s, p)
  \/ End(s)
  \/ Continue(s)
  \/ Rearm(s)
  \/ Forgotten(s)

HandlingNext ==
  \/ \E i \in Instruction : AddInstruction(i)
  \/ RetryFunction
  \/ SetUpStreamPart
  \/ RemoveStreamPart
  \/ \E p \in Peer : PeerLost(p)
  \/ \E s \in Slot : RunStep(s)

\* Every connection attempt ends, by its time limit if not before: strongly
\* fair, since the event loop gets to the timer between microtasks.
HandlingFairness == \A s \in Slot : SF_handlingVars(RunStep(s))

HandlingSpec == HandlingInit /\ [][HandlingNext]_handlingVars /\ HandlingFairness

-----------------------------------------------------------------------------
(* Properties.                                                             *)

Of(by) == {s \in Slot : runs[s] # None /\ runs[s].by = by}

HandlingTypeOK ==
  /\ setUp \in BOOLEAN /\ neighbors \subseteq Peer /\ counter \in Nat
  /\ queue \in Instruction \cup {None} /\ highest \in Nat
  /\ lock \in {"none", "free", "handling"}
  /\ timer \in Instruction \cup {None}
  /\ latest \in Instruction \cup {None}
  /\ retryCount \in 0 .. StatusSendCounterLimit
  /\ runs \in [Slot -> Run \cup {None}]
  /\ silent \in 0 .. StatusSendCounterLimit + 1

\* The throttler's lock is held by exactly one run, through cancellations and
\* new subscriptions; an instruction is queued only behind a run that will look
\* at the queue when it is over.
LockHeld ==
  /\ Cardinality(Of("throttler")) = (IF lock = "handling" THEN 1 ELSE 0)
  /\ queue # None => lock = "handling"

\* "only the most latest instruction per stream part is kept in queue": the
\* queued instruction is the newest, and the one being handled is not newer.
NewestIsQueued ==
  /\ queue # None => queue.counter = highest
  /\ \A s \in Of("throttler") : runs[s].instr.counter <= highest

\* A removed stream part is not retried, whichever runs are still under way.
NoRetryUnlessSetUp == timer # None => setUp

\* Throttler, retry manager and runs stay in step through cancellations and new
\* subscriptions (InstructionThrottler.ts, InstructionRetryManager.ts).
HandlingInv == HandlingTypeOK /\ LockHeld /\ NewestIsQueued /\ NoRetryUnlessSetUp

\* A queued instruction is handled sooner or later, or dropped with the
\* stream part.
QueueDrains == queue # None ~> queue = None

\* "First and every nth instruction retries will always send status messages
\* to tracker" (the comment in retryFunction).
RetriesReport == silent <= StatusSendCounterLimit

\* "Instruction reattempts are updated properly per stream" (a test of
\* InstructionRetryManager): what is retried is the last instruction added.
LatestIsRetried == timer = latest
=============================================================================
