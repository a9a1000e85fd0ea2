---------------------- MODULE DuplicateMessageDetector ----------------------
(***************************************************************************)
(* Duplicate detection of one message chain in a network node              *)
(* (network/src/logic/DuplicateMessageDetector.ts).                        *)
(*                                                                         *)
(* A message number is a pair <<timestamp, sequenceNumber>>.  The detector *)
(* keeps the half-closed intervals (lower, upper] that may still hold      *)
(* unseen numbers, in ascending order; the last one is open-ended.  The    *)
(* model plays every order of deliveries of the messages in Messages,      *)
(* repeated deliveries included: all of them, whatever references they     *)
(* carry, or only those of one publisher that numbers its chain properly.  *)
(***************************************************************************)
EXTENDS Integers, Sequences

CONSTANTS
  Number,    \* the message numbers that occur, pairs of integers
  Messages,  \* the messages that may be delivered: [prev, number]
  MaxGaps,   \* maxNumberOfGaps
  Infinity,  \* a bound above every timestamp, JavaScript's Infinity
  NoRef      \* the absent previous reference (null)

ASSUME NumberAssumption ==
  /\ Number \subseteq Int \X Int
  /\ Infinity \in Int
  /\ \A n \in Number : n[1] < Infinity

ASSUME MessagesAssumption ==
  /\ NoRef \notin Number
  /\ Messages \subseteq [prev : Number \cup {NoRef}, number : Number]

ASSUME MaxGapsAssumption == MaxGaps \in Nat \ {0}

VARIABLES
  gaps,      \* the intervals, a sequence of [lower, upper]
  result,    \* the outcome of the last markAndCheck
  accepted,  \* history: how often a number was reported unseen (capped at 2)
  forgotten, \* history: a gap was dropped, or a null reference skipped over one
  forkless   \* the publisher numbers its chain properly

vars == <<gaps, result, accepted, forgotten, forkless>>

-----------------------------------------------------------------------------
(* NumberPair: the lexicographic order on pairs.                           *)

Less(p, q) == p[1] < q[1] \/ (p[1] = q[1] /\ p[2] < q[2])

LessEq(p, q) == Less(p, q) \/ p = q

Top == <<Infinity, Infinity>>

Bound == Number \cup {Top}

Gap == [lower : Bound, upper : Bound]

\* The number n lies in the half-closed interval g.
Covers(g, n) == Less(g.lower, n) /\ LessEq(n, g.upper)

\* The sequence s with its i-th element replaced by the elements of new.
Splice(s, i, new) ==
  [k \in 1 .. (Len(s) - 1 + Len(new)) |->
     IF k < i THEN s[k]
     ELSE IF k < i + Len(new) THEN new[k - i + 1]
     ELSE s[k - Len(new) + 1]]

-----------------------------------------------------------------------------
TypeOK ==
  /\ gaps \in Seq(Gap)
  /\ result \in {"none", "unseen", "duplicate", "invalid", "mismatch"}
  /\ accepted \in [Number -> 0 .. 2]
  /\ forgotten \in BOOLEAN
  /\ forkless \in BOOLEAN

Init ==
  /\ gaps = << >>
  /\ result = "none"
  /\ accepted = [n \in Number |-> 0]
  /\ forgotten = FALSE
  /\ forkless \in BOOLEAN

\* The caller is told that n is unseen, and the history records it.
ReportUnseen(n) ==
  /\ result' = "unseen"
  /\ accepted' = [accepted EXCEPT ![n] = IF @ = 0 THEN 1 ELSE 2]

\* The caller is told something else: the intervals stay as they are.
Report(verdict) ==
  /\ result' = verdict
  /\ UNCHANGED <<gaps, accepted, forgotten>>

InvalidNumbering(m) == m.prev # NoRef /\ LessEq(m.number, m.prev)

\* markAndCheck throws InvalidNumberingError.
RejectInvalid(m) ==
  /\ InvalidNumbering(m)
  /\ Report("invalid")

\* The first message of the chain opens the only interval.
First(m) ==
  /\ ~InvalidNumbering(m)
  /\ gaps = << >>
  /\ gaps' = <<[lower |-> m.number, upper |-> Top]>>
  /\ ReportUnseen(m.number)
  /\ UNCHANGED forgotten

\* Mutant: the latest number itself passes for a newer one.
WithoutRef_OrEqual(m) ==
  /\ gaps # << >>
  /\ m.prev = NoRef
  /\ IF LessEq(gaps[Len(gaps)].lower, m.number)
     THEN /\ gaps' = [gaps EXCEPT ![Len(gaps)].lower = m.number]
          /\ ReportUnseen(m.number)
          /\ forgotten' = TRUE
     ELSE Report("duplicate")

\* A message without a previous reference is compared with the latest number.
WithoutRef(m) ==
  /\ gaps # << >>
  /\ m.prev = NoRef
  /\ IF Less(gaps[Len(gaps)].lower, m.number)
     THEN /\ gaps' = [gaps EXCEPT ![Len(gaps)].lower = m.number]
          /\ ReportUnseen(m.number)
          /\ forgotten' = TRUE
     ELSE Report("duplicate")

\* Mutant: the part below the reference is forgotten.
Remainder_ForgetsLowPart(g, m) ==
  IF m.number = g.upper
  THEN << >>
  ELSE <<[lower |-> m.number, upper |-> g.upper]>>

\* The intervals that replace g when the message m falls into it.
Remainder(g, m) ==
  IF m.prev = g.lower
  THEN IF m.number = g.upper
       THEN << >>
       ELSE <<[lower |-> m.number, upper |-> g.upper]>>
  ELSE IF m.number = g.upper
       THEN <<[lower |-> g.lower, upper |-> m.prev]>>
       ELSE <<[lower |-> g.lower, upper |-> m.prev],
              [lower |-> m.number, upper |-> g.upper]>>

\* dropLowestGapIfOverMaxNumberOfGaps
DropLowestGap(s) == IF Len(s) > MaxGaps THEN Tail(s) ELSE s

\* An iteration of the search at interval g ends the search.
Decides(g, m) == LessEq(g.lower, m.prev) \/ Less(g.lower, m.number)

\* The search from the highest interval down ends at the i-th interval.
SearchAt(i, m) ==
  LET g    == gaps[i]
      left == Splice(gaps, i, Remainder(g, m))
  IN  /\ Decides(g, m)
      /\ \A j \in (i + 1) .. Len(gaps) : ~Decides(gaps[j], m)
      /\ \/ /\ LessEq(g.upper, m.prev)
            /\ Report("duplicate")
         \/ /\ Less(m.prev, g.upper)
            /\ LessEq(g.lower, m.prev)
            /\ LessEq(m.number, g.upper)
            /\ gaps' = DropLowestGap(left)
            /\ ReportUnseen(m.number)
            /\ forgotten' = (forgotten \/ Len(left) > MaxGaps)
         \/ /\ Less(m.prev, g.upper)
            /\ \/ Less(m.prev, g.lower)
               \/ Less(g.upper, m.number)
            /\ Report("mismatch")

\* The search passes every interval: the number is below all of them.
SearchExhausted(m) ==
  /\ \A i \in 1 .. Len(gaps) : ~Decides(gaps[i], m)
  /\ Report("duplicate")

WithRef(m) ==
  /\ gaps # << >>
  /\ m.prev # NoRef
  /\ ~InvalidNumbering(m)
  /\ \/ \E i \in 1 .. Len(gaps) : SearchAt(i, m)
     \/ SearchExhausted(m)

MarkAndCheck(m) ==
  \/ RejectInvalid(m)
  \/ First(m)
  \/ WithoutRef(m)
  \/ WithRef(m)

\* The reference of m is the number just before its own on the chain that has
\* all of Number; the first message of the chain has none.
InChain(m) ==
  IF m.prev = NoRef
  THEN \A n \in Number : LessEq(m.number, n)
  ELSE /\ Less(m.prev, m.number)
       /\ \A n \in Number : ~(Less(m.prev, n) /\ Less(n, m.number))

Deliverable == IF forkless THEN {m \in Messages : InChain(m)} ELSE Messages

Next ==
  /\ \E m \in Deliverable : MarkAndCheck(m)
  /\ UNCHANGED forkless

Spec == Init /\ [][Next]_vars

-----------------------------------------------------------------------------
(* Properties.                                                             *)

\* The class comment's invariants after an update: no interval is empty, the
\* intervals ascend and do not overlap, the last one is open-ended, and there
\* are at most maxNumberOfGaps of them.
GapsWellFormed ==
  /\ \A i \in 1 .. Len(gaps) : Less(gaps[i].lower, gaps[i].upper)
  /\ \A i, j \in 1 .. Len(gaps) : i < j => LessEq(gaps[i].upper, gaps[j].lower)
  /\ gaps # << >> => gaps[Len(gaps)].upper = Top
  /\ Len(gaps) <= MaxGaps

\* A message is reported unseen at most once, whatever references the copies
\* carry and whatever gaps were dropped: markAndCheck never lets a node
\* propagate the same number twice.
AcceptedAtMostOnce == \A n \in Number : accepted[n] <= 1

\* Whatever references are received: the gaps are well formed, nothing is unseen twice.
DetectorInv == GapsWellFormed /\ AcceptedAtMostOnce

\* Nothing already accepted lies in a remaining interval.
AcceptedNotCovered ==
  \A n \in Number : accepted[n] > 0 => \A i \in 1 .. Len(gaps) : ~Covers(gaps[i], n)

\* The comment "anything not covered by a gap is considered seen", read as the
\* promise it makes for the numbers of the chain: past the first one, a number
\* left uncovered was accepted, unless a gap was given up.
UncoveredWasAccepted ==
  (gaps # << >> /\ ~forgotten) =>
    \A n \in Number :
      \/ \E i \in 1 .. Len(gaps) : Covers(gaps[i], n)
      \/ accepted[n] > 0
      \/ \A q \in Number : accepted[q] > 0 => Less(n, q)

\* The detector meets no contradiction (GapMisMatchError, InvalidNumberingError).
NoContradiction == result \notin {"invalid", "mismatch"}

\* On a chain that one publisher numbers without forks, in whatever order and
\* how often its messages come: nothing is taken for seen that was not, and the
\* detector never meets a contradiction.
ForklessInv == forkless => NoContradiction /\ UncoveredWasAccepted
=============================================================================
