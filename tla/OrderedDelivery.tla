--------------------------- MODULE OrderedDelivery ---------------------------
(***************************************************************************)
(* What a subscription that orders its messages promises to the reader of  *)
(* one message chain: whatever arrives, from the network or by a resend,   *)
(* and whatever is given up, a message is delivered after all that were    *)
(* delivered before it have a lower number, and it comes right after its   *)
(* predecessor or its gap was declared unfillable.                         *)
(***************************************************************************)
EXTENDS Integers

CONSTANTS
  Message,  \* the messages: [number, prev]
  NoRef     \* a missing previous reference

VARIABLES
  delivered,  \* the numbers of the messages handed to the reader
  skipped     \* those of them whose gap was declared unfillable

deliveryVars == <<delivered, skipped>>

-----------------------------------------------------------------------------
Excused(m, done, unfilled) ==
  \/ m.prev = NoRef
  \/ m.prev \in done
  \/ m.number \in unfilled

DeliveryInit == delivered = {} /\ skipped = {}

\* Some messages are delivered, one after the other: above all earlier ones, and only
\* the very first of the chain may come without its predecessor.
Deliver ==
  LET new == delivered' \ delivered
  IN  /\ delivered \subseteq delivered' /\ skipped \subseteq skipped'
      /\ new \subseteq {m.number : m \in Message}
      /\ skipped' \ skipped \subseteq new
      /\ \A n \in new : \A k \in delivered : k < n
      /\ \A m \in Message :
           m.number \in new =>
             \/ Excused(m, delivered', skipped')
             \/ \A k \in delivered' : m.number <= k

DeliverySpec == DeliveryInit /\ [][Deliver]_deliveryVars
=============================================================================
