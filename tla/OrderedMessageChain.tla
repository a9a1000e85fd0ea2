------------------------- MODULE OrderedMessageChain -------------------------
(***************************************************************************)
(* The ordering of one message chain in the client                         *)
(* (client/src/subscribe/ordering/OrderedMessageChain.ts).                 *)
(*                                                                         *)
(* A message has a number and the number of its predecessor.  The chain    *)
(* delivers a message once its predecessor is the latest delivered one and *)
(* keeps the others pending; the lowest pending message that cannot be     *)
(* delivered marks the current gap.                                        *)
(***************************************************************************)
EXTENDS Integers, FiniteSetsExt

CONSTANTS
  Message,  \* the messages: [number, prev], number positive
  NoRef     \* a missing previous reference; also the absence of a gap

ASSUME MessageAssumption ==
  /\ \A m \in Message :
       /\ m \in [number : Nat \ {0}, prev : Nat \cup {NoRef}]
       /\ m.prev # NoRef => m.prev < m.number
  /\ \A m, n \in Message : m.number = n.number => m = n
  /\ NoRef \notin Nat /\ NoRef \notin [from : Nat, to : Nat]

VARIABLES
  last,        \* the number of lastOrderedMsg, 0 before the first message
  gap,         \* currentGap: [from, to], or NoRef
  pending,     \* pendingMsgs
  delivered,   \* history: the numbers passed to orderedMessageAdded
  unfillable   \* history: the gaps passed to unfillableGap

chainVars == <<last, gap, pending, delivered, unfillable>>

-----------------------------------------------------------------------------
Numbers(set) == {m.number : m \in set}

\* The number delivered just before m when pool is consumed in order.
Before(pool, m) == Max({last} \cup {n \in Numbers(pool) : n < m.number})

\* Mutant: any newer predecessor will do.
IsNext_AnyNewer(m, prior) == prior = 0 \/ m.prev = NoRef \/ m.prev >= prior

\* isNextOrderedMessage(m) when the latest delivered number is prior.
IsNext(m, prior) == prior = 0 \/ m.prev = NoRef \/ m.prev = prior

\* m is at or before the message number "to", or that is undefined (NoRef).
UpTo(m, to) == to = NoRef \/ m.number <= to

\* The messages taken off the head of the queue pool: each follows the one
\* before it, or is not above "to".
Consumed(pool, to) ==
  {m \in pool : \A n \in pool : n.number <= m.number =>
                  IsNext(n, Before(pool, n)) \/ UpTo(n, to)}

\* Mutant: a gap is resolved only when the latest delivered message closes it.
GapAfter_LatestOnly(taken) ==
  IF gap # NoRef /\ taken # {} /\ gap.to = Max(taken) THEN NoRef ELSE gap

\* checkGapResolved once the numbers in taken are delivered.
GapAfter(taken) == IF gap # NoRef /\ gap.to \in taken THEN NoRef ELSE gap

\* checkGapFound when prior is the latest number and rest is still pending.
GapFound(open, prior, rest) ==
  IF open = NoRef /\ rest # {}
  THEN [from |-> prior, to |-> Min(Numbers(rest))]
  ELSE open

\* consumePendingOrderedMessages over the queue pool.
Consume(pool, to, gapCheckEnabled) ==
  LET consumed == Consumed(pool, to)
      rest     == pool \ consumed
      open     == GapAfter(Numbers(consumed))
  IN  /\ pending' = rest
      /\ last' = Max({last} \cup Numbers(consumed))
      /\ delivered' = delivered \cup Numbers(consumed)
      /\ gap' = IF gapCheckEnabled THEN GapFound(open, last', rest) ELSE open
      /\ unfillable' = unfillable \cup
           {[from |-> Before(pool, m), to |-> m.number] :
              m \in {n \in consumed : ~IsNext(n, Before(pool, n))}}

\* isStaleMessage
IsStale(m) == m.number <= last \/ m \in pending

\* addMessage: a stale message is dropped.
AddMessage(m) ==
  IF IsStale(m) THEN UNCHANGED chainVars ELSE Consume(pending \cup {m}, 0, TRUE)

\* resolveMessages(to, gapCheckEnabled)
ResolveMessages(to, gapCheckEnabled) == Consume(pending, to, gapCheckEnabled)

-----------------------------------------------------------------------------
(* The chain on its own: messages and resolutions in any order.            *)

ChainInit ==
  /\ last = 0
  /\ gap = NoRef
  /\ pending = {}
  /\ delivered = {}
  /\ unfillable = {}

\* An external component resolves messages of a gap that it was told about.
Resolve ==
  /\ last # 0
  /\ \/ \E m \in Message : ResolveMessages(m.number, TRUE)
     \/ ResolveMessages(NoRef, FALSE)

ChainNext == (\E m \in Message : AddMessage(m)) \/ Resolve

ChainSpec == ChainInit /\ [][ChainNext]_chainVars

-----------------------------------------------------------------------------
(* Properties.                                                             *)

Gap == [from : Nat, to : Nat]

ChainTypeOK ==
  /\ last \in Nat
  /\ gap \in Gap \cup {NoRef}
  /\ pending \subseteq Message
  /\ delivered \subseteq Numbers(Message)
  /\ unfillable \subseteq Gap

\* There is a gap while messages wait, and the message at its end waits: "the
\* 'to' message is guaranteed to have prevMsgRef" (the comment on Gap), and its
\* predecessor is not the message before the gap.
GapIsOpen ==
  /\ gap = NoRef => pending = {}
  /\ gap # NoRef =>
       /\ gap.from <= last /\ last < gap.to
       /\ \E m \in pending : m.number = gap.to /\ m.prev # NoRef /\ m.prev # gap.from

\* A message whose predecessor was not delivered is delivered only as the end
\* of a gap reported unfillable, or as the first one.
NoSilentLoss ==
  \A m \in Message :
    (m.number \in delivered /\ m.prev # NoRef /\ m.number # Min(delivered)) =>
      m.prev \in delivered \/ \E g \in unfillable : g.to = m.number

\* A message that can be delivered does not wait.
NothingDeliverableWaits ==
  \A m \in pending :
    /\ m.number > last
    /\ m.number = Min(Numbers(pending)) => ~IsNext(m, last)

\* The chain keeps the promise of OrderedDelivery to its reader: messages come in
\* ascending order, each one once, and none comes without its predecessor unless its
\* gap was reported to the listeners of unfillableGap.
Delivery == INSTANCE OrderedDelivery WITH skipped <- {g.to : g \in unfillable}

DeliversInOrder == Delivery!DeliverySpec
=============================================================================
