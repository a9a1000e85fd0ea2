------------------------------ MODULE MCMessages ------------------------------
(* What becomes of messages between the publisher's chain and the neighbours of  *)
(* a node: the duplicate detector of a chain, the propagation to neighbours, and *)
(* publishing with the exchange of keys.  The machines share no state; a         *)
(* behaviour is one of them.                                                     *)
EXTENDS DuplicateMessageDetector, Propagation, Publishing

CONSTANTS MaxTime, MaxSeqNo, m1, m2, m3, s, t

VARIABLE machine

-----------------------------------------------------------------------------
(* The numbers of the chain.  Its messages carry any references, or, on a    *)
(* forkless chain, those of InChain.                                         *)
MCNumber == (1 .. MaxTime) \X (0 .. MaxSeqNo)

AnyMessages == [prev : MCNumber \cup {NoRef}, number : MCNumber]

-----------------------------------------------------------------------------
MCPartOf == m1 :> s @@ m2 :> t @@ m3 :> s

Symmetry == Permutations(Node) \cup Permutations({m1, m3})

MessagesInit ==
  /\ Init /\ PropagationInit /\ PublishInit
  /\ \/ machine = "detector"
     \/ machine \in {"propagation", "publishing"} /\ forkless = FALSE

\* The subscriber's side, which only reads what was published, runs when no
\* publish or update is under way, and the publisher's before it has begun.
Published == task = Idle /\ updates = {} /\ waiting = <<>>
PublishingStep ==
  \/ pipe = [p \in Pipeline |-> [next |-> 1, phase |-> "idle"]] /\ PublisherNext
  \/ Published /\ SubscriberNext

\* This node publishes at most m2; the others come from a neighbour.
OwnIsM2 == \A m \in Fed' \ {m2} : source'[m] # Local

MessagesNext ==
  /\ \/ machine = "detector" /\ Next /\ UNCHANGED <<propagationVars, publishVars>>
     \/ /\ machine = "propagation" /\ PropagationNext /\ OwnIsM2
        /\ UNCHANGED <<vars, publishVars>>
     \/ /\ machine = "publishing" /\ PublishingStep
        /\ UNCHANGED <<vars, propagationVars>>
  /\ UNCHANGED machine

MessagesSpec ==
  MessagesInit
  /\ [][MessagesNext]_<<vars, propagationVars, publishVars, machine>>
=============================================================================
