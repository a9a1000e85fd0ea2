----------------------------- MODULE MCConnections -----------------------------
(* A node's sockets to trackers, its connections to proxies, and the assignments *)
(* of a storage node.  The machines share no state; a behaviour is one of them.  *)
EXTENDS TrackerConnections, ProxyConnections, StorageAssignments

CONSTANTS a, b, s, t  \* two proxies, two streams

VARIABLE machine

MCDefinitions ==
  {[nodes |-> {a, b}, direction |-> "publish", count |-> 1],
   [nodes |-> {a, b}, direction |-> "subscribe", count |-> 2],
   [nodes |-> {}, direction |-> "publish", count |-> 0]}

\* Of the stream s two partitions fall to this node, of t one.
MCPartsOf == [stream \in Stream |-> IF stream = s THEN {1, 2} ELSE {3}]

MCInit ==
  /\ SocketsInit /\ ProxyInit /\ AssignmentsInit
  /\ \/ machine \in {"sockets", "assignments"} /\ serving = {}
     \/ machine = "proxy"

MCNext ==
  /\ \/ machine = "sockets" /\ SocketsNext /\ UNCHANGED <<proxyVars, assignmentVars>>
     \/ machine = "proxy" /\ ProxyNext /\ UNCHANGED <<socketVars, assignmentVars>>
     \/ machine = "assignments" /\ AssignmentsNext /\ UNCHANGED <<socketVars, proxyVars>>
  /\ UNCHANGED machine

\* What is fair in one machine is disabled in the initial states of the others.
MCSpec ==
  /\ MCInit /\ [][MCNext]_<<socketVars, proxyVars, assignmentVars, machine>>
  /\ SocketsFairness /\ ProxyFairness /\ AssignmentsFairness
\* The two ends of a socket, and of a proxy connection, come to agree.
ConnectionsInv == ServerKeepsOne /\ EndsAgree

\* Attempts to connect to a tracker end, and so do connections that nobody uses.
SocketsSettle == PendingSettles /\ LeavesIdleTracker
=============================================================================
