----------------------------- MODULE TrackerNodes -----------------------------
(***************************************************************************)
(* The tracker of Tracker.tla together with the nodes it instructs: one    *)
(* stream part, with Node.ts, TrackerManager.ts, StreamPartManager.ts,     *)
(* InstructionThrottler.ts, InstructionRetryManager.ts and                 *)
(* DisconnectionManager.ts of every node, the web sockets between the nodes*)
(* and the tracker, and the connections among the nodes.                   *)
(*                                                                         *)
(* A handler of a node runs with the microtasks it leaves behind before the*)
(* next message, timer or connection event of that node; InstructionHandling*)
(* studies their order.  The tracker's handlers do not overlap with        *)
(* anything (NoHandler).                                                   *)
(***************************************************************************)
EXTENDS Tracker, SequencesExt

CONSTANTS
  Offers,     \* the ordered pairs of nodes whose first sends the WebRTC offer
  Nothing,    \* no instruction
  Leaving,    \* the status of a node without the stream part
  MaxFaults,  \* bound: the stream part unsubscribed from, lost sockets, broken
              \* connections, failed attempts and deliveries in a behaviour
  MaxRuns     \* bound: the runs of a node at a time

VARIABLES
  node,    \* the state of each node, see Fresh
  view,    \* the peers each node has a connection to, as far as it knows
  links,   \* the connections that exist
  closing, \* the peers each node will disconnect from (disconnectionTimers)
  up,      \* the statuses on their way to the tracker; Nothing with no socket
  down,    \* the instructions on their way to each node
  closed,  \* the nodes whose socket the tracker has yet to see closed
  told,    \* the neighbours in the buffered instruction of each node
  faults   \* how many there were

trackerSide == <<trackerVars, told>>
wires == <<up, down, closed>>
peers == <<view, links, closing>>
allVars == <<trackerSide, node, peers, wires, faults>>

\* The throttler's queue, counter and lock, the retry timer, and the runs of
\* handleTrackerInstruction that wait for connections.
Fresh == [joined |-> FALSE, nbrs |-> {}, cnt |-> 0,
          queue |-> Nothing, highest |-> 0, handling |-> FALSE,
          timer |-> Nothing, tries |-> 0, runs |-> <<>>]

Others(n) == Node \ {n}

-----------------------------------------------------------------------------
(* The handlers of a node, as functions of its state.                      *)

\* getStreamPartStatus
StatusOf(r) == IF r.joined THEN [nbrs |-> r.nbrs, counter |-> r.cnt] ELSE Leaving

\* sendStatus: fails without a socket.
Sent(n, statuses) == up' = IF up[n] = Nothing THEN up ELSE [up EXCEPT ![n] = @ \o statuses]

\* A new run.  Without the stream part it is over before it does anything.
RunOf(n, r, i, by, again) ==
  [instr |-> i, by |-> by, again |-> again, early |-> ~r.joined, failed |-> FALSE,
   pending |-> IF r.joined THEN i.nodes \ view[n] ELSE {}]

\* handleTrackerInstruction up to its await: the neighbours connected to are
\* added at once, the others when their connection is there.
Started(n, r, i, by, again) ==
  LET s == [r EXCEPT !.runs = Append(@, RunOf(n, r, i, by, again))]
  IN  IF r.joined
      THEN [s EXCEPT !.timer = i, !.tries = 0,
                     !.nbrs = (@ \cap i.nodes) \cup (i.nodes \cap view[n])]
      ELSE s

\* The disconnection timers then: those of the peers that were taken away are
\* set, those of connected peers are cancelled.
ClosingAfter(n, r, i) ==
  [closing EXCEPT ![n] =
     IF r.joined THEN (@ \cup (r.nbrs \ i.nodes)) \ (i.nodes \cap view[n]) ELSE @]

\* A run is over, and its end is due.
Due(n) == \E k \in DOMAIN node[n].runs : node[n].runs[k].pending = {}

\* A node may handle its next event.
Free(n) == NoHandler /\ ~Due(n)

Waits(n, p) == \E k \in DOMAIN node[n].runs : p \in node[n].runs[k].pending

\* The attempts to connect to p succeed, or fail, in every run that waits.
SettledRun(run, p, ok) ==
  IF p \in run.pending
  THEN [run EXCEPT !.pending = @ \ {p}, !.failed = @ \/ ~ok]
  ELSE run

Settled(r, p, ok) ==
  [r EXCEPT !.runs = [k \in DOMAIN r.runs |-> SettledRun(r.runs[k], p, ok)]]

\* addNeighbor
With(r, p) == [r EXCEPT !.nbrs = @ \cup {p}]

\* Nobody waits for a run of the throttler any more.
Abandoned(run) == [run EXCEPT !.by = IF run.by = "throttler" THEN "nobody" ELSE run.by]

\* The end of a run: the counter and a status; then the queued instruction, or
\* the next retry, unless the stream part was removed meanwhile.
EndRun(n) ==
  /\ NoHandler
  /\ \E k \in DOMAIN node[n].runs :
       LET run  == node[n].runs[k]
           old  == [node[n] EXCEPT !.runs = RemoveAt(@, k)]
           r    == IF run.early \/ ~old.joined THEN old ELSE [old EXCEPT !.cnt = run.instr.counter]
           next == IF run.by = "throttler" THEN r.queue ELSE Nothing
       IN  /\ run.pending = {}
           /\ Sent(n, IF ~run.early /\ (~run.again \/ run.failed) THEN <<StatusOf(r)>> ELSE <<>>)
           /\ closing' = IF next # Nothing THEN ClosingAfter(n, r, next) ELSE closing
           /\ node' = [node EXCEPT ![n] =
                IF next # Nothing
                THEN Started(n, [r EXCEPT !.queue = Nothing], next, "throttler", FALSE)
                ELSE IF run.by = "throttler" THEN [r EXCEPT !.handling = FALSE]
                ELSE IF run.by = "retry" /\ r.timer # Nothing
                THEN [r EXCEPT !.timer = run.instr, !.tries = @ + 1]
                ELSE r]
  /\ UNCHANGED <<trackerSide, view, links, down, closed, faults>>

-----------------------------------------------------------------------------
(* The events of a node.                                                   *)

\* No message, reconnection to the tracker or connection event is under way:
\* the timeouts of attempts and retries are longer than those.
Quiet ==
  /\ NoHandler /\ buffer = [n \in {} |-> {}] /\ closed = {}
  /\ \A n \in Node : /\ up[n] \in {<<>>, Nothing} /\ down[n] = <<>>
                     /\ up[n] = Nothing => ~node[n].joined
                     /\ \A p \in Others(n) : p \in view[n] <=> {n, p} \in links

\* TRACKER_INSTRUCTION_RECEIVED and InstructionThrottler.add: an instruction
\* with a lower counter than the last one is ignored.
Receive(n) ==
  /\ Free(n) /\ down[n] # <<>> /\ Len(node[n].runs) < MaxRuns
  /\ down' = [down EXCEPT ![n] = Tail(@)]
  /\ LET i == Head(down[n])
         r == [node[n] EXCEPT !.highest = i.counter]
     IN  IF node[n].highest > i.counter THEN UNCHANGED <<node, closing>>
         ELSE IF r.handling
         THEN node' = [node EXCEPT ![n] = [r EXCEPT !.queue = i]] /\ UNCHANGED closing
         ELSE /\ node' = [node EXCEPT ![n] =
                            Started(n, [r EXCEPT !.handling = TRUE], i, "throttler", FALSE)]
              /\ closing' = ClosingAfter(n, r, i)
  /\ UNCHANGED <<trackerSide, view, links, up, closed, faults>>

\* retryFunction, some minutes after the last instruction: by then the messages
\* have arrived and the runs are over.
Retry(n) ==
  /\ Free(n) /\ node[n].timer # Nothing /\ node[n].runs = <<>>
  /\ Quiet
  /\ LET i == node[n].timer
     IN  /\ node' = [node EXCEPT ![n] = Started(n, @, i, "retry", @.tries # 0)]
         /\ closing' = ClosingAfter(n, node[n], i)
  /\ UNCHANGED <<trackerSide, view, links, wires, faults>>

\* subscribeToStreamIfHaveNotYet.  Without a socket the status is not sent; it
\* is when there is one.
Subscribe(n) ==
  /\ NoHandler /\ ~node[n].joined
  /\ node' = [node EXCEPT ![n] = [@ EXCEPT !.joined = TRUE, !.nbrs = {}, !.cnt = 0]]
  /\ Sent(n, <<StatusOf(node'[n])>>)
  /\ UNCHANGED <<trackerSide, peers, down, closed, faults>>

\* unsubscribeFromStream: the throttler forgets its queue and counter, the
\* timer is cleared; the runs go on, but nobody waits for them.
Unsubscribe(n) ==
  /\ NoHandler /\ node[n].joined /\ faults < MaxFaults
  /\ faults' = faults + 1
  /\ node' = [node EXCEPT ![n] =
       [Fresh EXCEPT !.runs = [k \in DOMAIN node[n].runs |-> Abandoned(node[n].runs[k])]]]
  /\ Sent(n, <<Leaving>>)
  /\ UNCHANGED <<trackerSide, peers, down, closed>>

\* Mutant: no status is sent.
SocketOpened_Silent(n) ==
  /\ Free(n) /\ up[n] = Nothing /\ n \notin closed
  /\ node[n].joined
  /\ up' = [up EXCEPT ![n] = <<>>]
  /\ UNCHANGED <<trackerSide, node, peers, down, closed, faults>>

\* CONNECTED_TO_TRACKER: a status for the stream part.
SocketOpened(n) ==
  /\ Free(n) /\ up[n] = Nothing /\ n \notin closed
  /\ node[n].joined
  /\ up' = [up EXCEPT ![n] = <<StatusOf(node[n])>>]
  /\ UNCHANGED <<trackerSide, node, peers, down, closed, faults>>

\* The socket closes, and what is under way is lost: idle sockets are closed by
\* the node's TrackerConnector, others by a fault.
SocketLost(n) ==
  /\ NoHandler /\ up[n] # Nothing
  /\ IF node[n].joined THEN faults < MaxFaults /\ faults' = faults + 1
     ELSE up[n] = <<>> /\ UNCHANGED faults
  /\ up' = [up EXCEPT ![n] = Nothing]
  /\ down' = [down EXCEPT ![n] = <<>>]
  /\ closed' = closed \cup {n}
  /\ UNCHANGED <<trackerSide, node, peers>>

-----------------------------------------------------------------------------
(* The connections among the nodes.                                        *)

\* An attempt gets through: n sends the offer, or has told the other end to, or
\* the other end tries as well.
CanConnect(n, p) ==
  \/ <<n, p>> \in Offers
  \/ p \in view[n] \/ n \in view[p] \/ Waits(p, n)
  \/ \E k \in DOMAIN node[n].runs : p \in node[n].runs[k].pending /\ node[n].runs[k].again

Connects(n, p) ==
  /\ NoHandler /\ Waits(n, p) /\ CanConnect(n, p)
  /\ p \notin view[n] /\ n \notin view[p] /\ {n, p} \notin links
  /\ links' = links \cup {{n, p}}
  /\ UNCHANGED <<trackerSide, node, view, closing, wires, faults>>

\* The connection opens at n.  A run that waits for it adds the neighbour, or
\* fails when the stream part is gone.
Opened(n, p) ==
  /\ Free(n) /\ {n, p} \in links /\ p \notin view[n]
  /\ view' = [view EXCEPT ![n] = @ \cup {p}]
  /\ IF Waits(n, p)
     THEN /\ node' = [node EXCEPT ![n] = IF @.joined
                        THEN With(Settled(@, p, TRUE), p)
                        ELSE Settled(@, p, FALSE)]
          /\ closing' = [closing EXCEPT ![n] = @ \ {p}]
     ELSE UNCHANGED <<node, closing>>
  /\ UNCHANGED <<trackerSide, links, wires, faults>>

\* The attempt times out when nothing comes of it, and may fail otherwise.
Fails(n, p) ==
  /\ Free(n) /\ Waits(n, p)
  /\ IF CanConnect(n, p) \/ {n, p} \in links
     THEN faults < MaxFaults /\ faults' = faults + 1
     ELSE Quiet /\ UNCHANGED faults
  /\ node' = [node EXCEPT ![n] = Settled(@, p, FALSE)]
  /\ UNCHANGED <<trackerSide, peers, wires>>

Breaks(n, p) ==
  /\ NoHandler /\ {n, p} \in links /\ faults < MaxFaults
  /\ faults' = faults + 1
  /\ links' = links \ {{n, p}}
  /\ UNCHANGED <<trackerSide, node, view, closing, wires>>

\* Mutant: the neighbour stays, as long as its messages do not fail.
Without_Keeps(r, p) == r

\* removeNodeFromAllStreamParts
Without(r, p) == [r EXCEPT !.nbrs = @ \ {p}]

\* NODE_DISCONNECTED at n: onNodeDisconnected, with a status if it was a
\* neighbour.
Lost(n, p) ==
  /\ Free(n) /\ p \in view[n] /\ {n, p} \notin links
  /\ view' = [view EXCEPT ![n] = @ \ {p}]
  /\ node' = [node EXCEPT ![n] = Without(@, p)]
  /\ Sent(n, IF p \in node[n].nbrs THEN <<StatusOf(node'[n])>> ELSE <<>>)
  /\ UNCHANGED <<trackerSide, links, closing, down, closed, faults>>

\* A hundred deliveries in a row failed: onNodeDisconnected, connected or not.
DeliveriesFail(n, p) ==
  /\ Free(n) /\ p \in node[n].nbrs /\ faults < MaxFaults
  /\ faults' = faults + 1
  /\ node' = [node EXCEPT ![n] = Without(@, p)]
  /\ Sent(n, <<StatusOf(node'[n])>>)
  /\ UNCHANGED <<trackerSide, peers, down, closed>>

\* The disconnection timer: the connection, or the attempt, is closed if the
\* peer is not a neighbour.
DisconnectionTimer(n, p) ==
  /\ Free(n) /\ p \in closing[n]
  /\ closing' = [closing EXCEPT ![n] = @ \ {p}]
  /\ IF p \in node[n].nbrs THEN UNCHANGED <<links, view, node>>
     ELSE /\ links' = links \ {{n, p}}
          /\ view' = [view EXCEPT ![n] = @ \ {p}]
          /\ node' = [node EXCEPT ![n] = Settled(@, p, FALSE)]
  /\ UNCHANGED <<trackerSide, wires, faults>>

-----------------------------------------------------------------------------
(* The tracker's events: the handlers of Tracker.tla.                      *)

\* NODE_STATUS_RECEIVED
StatusArrives(n) ==
  /\ NoHandler /\ up[n] \notin {<<>>, Nothing}
  /\ up' = [up EXCEPT ![n] = Tail(@)]
  /\ LET s == Head(up[n])
     IN  \/ s # Leaving /\ Status(n, s.nbrs, s.counter)
         \/ /\ s # Leaving /\ n \in DOMAIN counters /\ s.counter < counters[n]
            /\ UNCHANGED trackerVars
         \/ s = Leaving /\ Gone(n)
         \/ s = Leaving /\ n \notin DOMAIN nodes /\ UNCHANGED trackerVars
  /\ UNCHANGED <<told, node, peers, down, closed, faults>>

\* NODE_DISCONNECTED
SocketClosed(n) ==
  /\ NoHandler /\ n \in closed
  /\ closed' = closed \ {n}
  /\ \/ Gone(n)
     \/ n \notin DOMAIN nodes /\ UNCHANGED trackerVars
  /\ UNCHANGED <<told, node, peers, up, down, faults>>

Instruct ==
  /\ \/ \E n \in Node : Call(n) /\ UNCHANGED told
     \/ Form /\ UNCHANGED told
     \/ Return /\ told' = [n \in Node |-> IF n \in updated THEN nodes[n] ELSE told[n]]
  /\ UNCHANGED <<node, peers, wires, faults>>

\* The buffer is sent, to those with a socket.  An ack tells nothing here.
SendBuffer ==
  /\ Send
  /\ down' = [n \in Node |->
       IF n \in DOMAIN buffer /\ up[n] # Nothing /\ buffer[n] # Ack
       THEN Append(down[n], [nodes |-> told[n], counter |-> buffer[n]])
       ELSE down[n]]
  /\ UNCHANGED <<told, node, peers, up, closed, faults>>

-----------------------------------------------------------------------------
\* The state before anything happened, but for the sockets.
NothingHappened ==
  /\ TrackerInit /\ told = [n \in Node |-> {}]
  /\ node = [n \in Node |-> Fresh]
  /\ view = [n \in Node |-> {}] /\ links = {} /\ closing = [n \in Node |-> {}]
  /\ down = [n \in Node |-> <<>>] /\ closed = {}
  /\ faults = 0

NodesInit == NothingHappened /\ up = [n \in Node |-> Nothing]

NodeEvent(n) ==
  \/ EndRun(n) \/ Receive(n) \/ SocketOpened(n) \/ SocketClosed(n) \/ StatusArrives(n)

PeerEvent(n, p) == Connects(n, p) \/ Opened(n, p) \/ Lost(n, p) \/ DisconnectionTimer(n, p)

NodesNext ==
  \/ \E n \in Node : \/ NodeEvent(n) \/ Retry(n)
                     \/ Subscribe(n) \/ Unsubscribe(n) \/ SocketLost(n)
  \/ \E n \in Node : \E p \in Others(n) :
       PeerEvent(n, p) \/ Fails(n, p) \/ Breaks(n, p) \/ DeliveriesFail(n, p)
  \/ Instruct
  \/ SendBuffer

\* What the event loops, the timers and the network do sooner or later.
NodesFairness ==
  /\ \A n \in Node :
       /\ WF_allVars(SocketOpened(n)) /\ WF_allVars(NodeEvent(n)) /\ WF_allVars(Retry(n))
       /\ \A p \in Others(n) : WF_allVars(PeerEvent(n, p)) /\ WF_allVars(Fails(n, p) /\ UNCHANGED faults)
  /\ WF_allVars(Instruct)
  /\ WF_allVars(SendBuffer)

NodesSpec == NodesInit /\ [][NodesNext]_allVars /\ NodesFairness

-----------------------------------------------------------------------------
(* Properties.                                                             *)

Instr == [nodes : SUBSET Node, counter : Nat]

NodeStatus == [nbrs : SUBSET Node, counter : Nat] \cup {Leaving}

NodeRun == [instr : Instr, by : {"throttler", "retry", "nobody"}, again : BOOLEAN,
            early : BOOLEAN, failed : BOOLEAN, pending : SUBSET Node]

NodeState == [joined : BOOLEAN, nbrs : SUBSET Node, cnt : Nat,
              queue : Instr \cup {Nothing}, highest : Nat, handling : BOOLEAN,
              timer : Instr \cup {Nothing}, tries : Nat, runs : Seq(NodeRun)]

NodesTypeOK ==
  /\ node \in [Node -> NodeState]
  /\ view \in [Node -> SUBSET Node] /\ closing \in [Node -> SUBSET Node]
  /\ links \subseteq SUBSET Node
  /\ up \in [Node -> Seq(NodeStatus) \cup {Nothing}]
  /\ down \in [Node -> Seq(Instr)]
  /\ closed \subseteq Node /\ told \in [Node -> SUBSET Node] /\ faults \in Nat

\* A neighbour is a peer the node has a connection to, as far as it knows.
NeighborsAreConnected == \A n \in Node : node[n].nbrs \subseteq view[n]

Ahead(n) == n \in DOMAIN counters /\ node[n].highest > counters[n]

\* A run of an earlier subscription that goes on in a later one.
Stray(n) == node[n].joined /\ \E k \in DOMAIN node[n].runs : node[n].runs[k].by = "nobody"

\* Subscribed nodes end up as neighbours of each other, after lost sockets,
\* broken connections, failed attempts and deliveries, and a subscription that
\* was given up and taken again, unless the last instruction of a node has a
\* higher counter than the tracker's or a run of its earlier subscription went
\* on in the later one.
LinkedInTheEnd ==
  <>[](\A n \in Node : node[n].joined /\ ~Ahead(n)) /\ [](\A n \in Node : ~Stray(n)) =>
    []<>(\A n \in Node : node[n].nbrs = Others(n))

\* "a clean up interval is ran periodically in which any node without shared
\* streams gets disconnected from" (DisconnectionManager).
CleansUp ==
  \A n \in Node : \A p \in Others(n) :
    [](p \in view[n] => <>(p \notin view[n] \/ p \in node[n].nbrs))

\* The tracker updates "its node set and neighbor lists accordingly"
\* (tracker-algorithm.md): at rest it knows the neighbours of every node.
AtRest ==
  Quiet /\ \A n \in Node : node[n].runs = <<>>

TrackerKnows ==
  AtRest => \A n \in DOMAIN nodes : nodes[n] = node[n].nbrs
=============================================================================
