---------------------------- MODULE TrackerReports ----------------------------
(***************************************************************************)
(* What a tracker tells of the network over HTTP: the state that Tracker.ts*)
(* keeps of its nodes with their statuses, LocationManager.ts, and the     *)
(* views of it in trackerSummaryUtils.ts and trackerHttpEndpoints.ts.      *)
(*                                                                         *)
(* The instructions of OverlayTopology link the nodes of a stream part in  *)
(* any way; that the links go both ways is proved there (AlwaysSymmetric). *)
(***************************************************************************)
EXTENDS Integers, FiniteSets

CONSTANTS
  Peers,      \* the nodes
  Stream,
  Part,      \* the stream parts
  StreamOf,  \* the stream of each
  Within,    \* pairs of streams, the name of the first within that of the second
  Malformed, \* an empty stream id, or a partition that is not a positive integer
  Unknown,   \* no stream, partition, round-trip time, location or page
  MaxAge,    \* of the page of connections
  MaxTime    \* bound of the clock

ASSUME ReportsAssumption ==
  /\ StreamOf \in [Part -> Stream]
  /\ \A s \in Stream : <<s, s>> \in Within
  /\ {Unknown, Malformed} \cap (Peers \cup Stream \cup Part) = {} /\ Unknown # Malformed
  /\ MaxAge \in Nat /\ MaxTime \in Nat

VARIABLES
  online,    \* getNodeIds: the connected nodes
  overlays,  \* the neighbours of each node of each stream part
  rtts,      \* overlayConnectionRtts: the peers whose round-trip time a node reported
  located,   \* nodeLocations: reported by the node, or looked up by its address
  extras,    \* the nodes with extra metadata
  clock,
  page,      \* the cached answer of /node-connections/
  answer,    \* that answer while it is sent
  changed,   \* history: when the connections last changed
  reporters  \* history: the nodes that reported a location since they connected

reportsVars ==
  <<online, overlays, rtts, located, extras, clock, page, answer, changed, reporters>>

Empty == [n \in {} |-> {}]
Members(p) == DOMAIN overlays[p]

-----------------------------------------------------------------------------
(* trackerSummaryUtils.                                                    *)

\* The value a node measured for a peer, if any, or the peer's; without a record of
\* either node the lookup throws, which counts as none.
ConnectionRtt(n, m) ==
  IF n \notin DOMAIN rtts THEN Unknown
  ELSE IF m \in rtts[n] THEN n
  ELSE IF m \in DOMAIN rtts /\ n \in rtts[m] THEN m
  ELSE Unknown

ConnectionsWithRtts(n, neighbors) == [m \in neighbors |-> ConnectionRtt(n, m)]

\* The stream parts of a request: a stream is looked for within their names, unless
\* the partition is given.
StreamPartsFor(s, p) ==
  {q \in Part : /\ overlays[q] # Empty
                /\ \/ s = Unknown
                   \/ p = Unknown /\ <<s, StreamOf[q]>> \in Within
                   \/ p = q}

Topology(s, p) ==
  [q \in StreamPartsFor(s, p) |->
     [n \in Members(q) |-> ConnectionsWithRtts(n, overlays[q][n])]]

Sizes(s, p) == [q \in StreamPartsFor(s, p) |-> Cardinality(Members(q))]

\* The requests for those: 422 for malformed parameters.
Unprocessable == [q \in {} |-> 422]
IsValid(s, p) == Malformed \notin {s, p}
GetTopology(s, p) == IF IsValid(s, p) THEN Topology(s, p) ELSE Unprocessable
GetSizes(s, p) == IF IsValid(s, p) THEN Sizes(s, p) ELSE Unprocessable

StreamPartsOfNode(n) == {q \in Part : n \in Members(q)}

Neighbors(n) == UNION {overlays[q][n] : q \in StreamPartsOfNode(n)}

\* The connected nodes and those with neighbours, over all stream parts.
NodeConnections ==
  [n \in online \cup {m \in Peers : Neighbors(m) # {}} |-> Neighbors(n)]

Locations == [n \in online |-> IF n \in DOMAIN located THEN located[n] ELSE Unknown]

-----------------------------------------------------------------------------
(* The tracker's handlers.                                                 *)

\* The page after a handler is the one before; the connections may have changed.
Handled ==
  /\ answer' = Unknown
  /\ changed' = IF NodeConnections' = NodeConnections THEN changed ELSE clock
  /\ UNCHANGED <<clock, page>>

NodeConnected(n) ==
  /\ n \notin online
  /\ online' = online \cup {n}
  /\ UNCHANGED <<overlays, rtts, located, extras, reporters>>
  /\ Handled

Recorded(f, n, v) == [m \in DOMAIN f \cup {n} |-> IF m = n THEN v ELSE f[m]]

\* updateLocation: a location the node reports is taken; else, if there is none yet, the
\* one of its address, if it is found.
UpdateLocation(n, reported, found) ==
  located' = IF reported THEN Recorded(located, n, "reported")
             ELSE IF n \notin DOMAIN located /\ found THEN Recorded(located, n, "looked up")
             ELSE located

Pairs(members) == {{n, m} : n, m \in members} \ {{n} : n \in members}

\* A stream part with these nodes, linked like this.
Linked(members, pairs) == [n \in members |-> {m \in members : {n, m} \in pairs}]

\* processNodeStatus.  (An outdated status changes nothing.)
StatusReceived(n, p, measured, leaves, reported, found) ==
  /\ n \in online
  /\ rtts' = IF measured = Unknown THEN rtts ELSE Recorded(rtts, n, measured)
  /\ UpdateLocation(n, reported, found)
  /\ extras' = extras \cup {n}
  /\ reporters' = reporters \cup {m \in {n} : reported}
  /\ LET members == IF leaves THEN Members(p) \ {n} ELSE Members(p) \cup {n}
     IN  \E pairs \in SUBSET Pairs(members) :
           overlays' = [overlays EXCEPT ![p] = Linked(members, pairs)]
  /\ UNCHANGED online
  /\ Handled

\* removeNode: what is known of the node ...
RemoveNode(n) ==
  /\ rtts' = [m \in DOMAIN rtts \ {n} |-> rtts[m]]
  /\ located' = [m \in DOMAIN located \ {n} |-> located[m]]
  /\ extras' = extras \ {n}

\* ... and its place in every stream part, whose other nodes are instructed.
NodeDisconnected(n) ==
  /\ n \in online
  /\ online' = online \ {n}
  /\ reporters' = reporters \ {n}
  /\ RemoveNode(n)
  /\ \E pairs \in [Part -> SUBSET Pairs(Peers \ {n})] :
       overlays' = [p \in Part |-> IF n \in Members(p) THEN Linked(Members(p) \ {n}, pairs[p])
                                   ELSE overlays[p]]
  /\ Handled

-----------------------------------------------------------------------------
(* cachedJsonGet: /node-connections/                                       *)

\* Mutant: the cached page starts to count again with each request.
GetConnections_Renews ==
  /\ page' = IF page = Unknown \/ clock > page.timestamp + MaxAge
             THEN [json |-> NodeConnections, timestamp |-> clock]
             ELSE [page EXCEPT !.timestamp = clock]
  /\ answer' = page'.json
  /\ UNCHANGED <<online, overlays, rtts, located, extras, clock, changed, reporters>>

GetConnections ==
  /\ page' = IF page = Unknown \/ clock > page.timestamp + MaxAge
             THEN [json |-> NodeConnections, timestamp |-> clock]
             ELSE page
  /\ answer' = page'.json
  /\ UNCHANGED <<online, overlays, rtts, located, extras, clock, changed, reporters>>

ReportsTick ==
  /\ clock < MaxTime
  /\ clock' = clock + 1 /\ answer' = Unknown
  /\ UNCHANGED <<online, overlays, rtts, located, extras, page, changed, reporters>>

ReportsInit ==
  /\ online = {} /\ overlays = [p \in Part |-> Empty]
  /\ rtts = Empty /\ located = Empty /\ extras = {}
  /\ clock = 0 /\ page = Unknown /\ answer = Unknown /\ changed = 0
  /\ reporters = {}

ReportsNext ==
  \/ \E n \in Peers : NodeConnected(n) \/ NodeDisconnected(n)
  \/ \E n \in Peers, p \in Part, leaves, reported, found \in BOOLEAN :
       \E measured \in SUBSET (Peers \ {n}) \cup {Unknown} :
         StatusReceived(n, p, measured, leaves, reported, found)
  \/ GetConnections
  \/ ReportsTick

ReportsSpec == ReportsInit /\ [][ReportsNext]_reportsVars

-----------------------------------------------------------------------------
(* Properties.                                                             *)

\* The views agree with each other whatever statuses and disconnections went before: a
\* connection is shown at both its ends, in the topology of some stream part as in the
\* list of all, with a round-trip time at both or at neither once both ends reported
\* some; nothing is told of a node that left.
ViewsAgree ==
  LET all == GetTopology(Unknown, Unknown)
  IN  /\ DOMAIN NodeConnections = online
      /\ \A n, m \in online :
           /\ m \in NodeConnections[n] <=> n \in NodeConnections[m]
           /\ m \in NodeConnections[n] <=>
                \E p \in DOMAIN all : n \in DOMAIN all[p] /\ m \in DOMAIN all[p][n]
           /\ {n, m} \subseteq DOMAIN rtts =>
                (ConnectionRtt(n, m) = Unknown <=> ConnectionRtt(m, n) = Unknown)
      /\ UNION {DOMAIN all[p] : p \in DOMAIN all} \subseteq online
      /\ DOMAIN rtts \cup DOMAIN located \cup extras \subseteq online
      /\ \A p \in DOMAIN all : p \in DOMAIN GetTopology(StreamOf[p], Unknown)
      /\ \A s \in Stream \cup {Unknown, Malformed}, p \in Part \cup {Unknown, Malformed} :
           GetSizes(s, p) = [q \in DOMAIN GetTopology(s, p) |->
                               Cardinality({n \in online : q \in StreamPartsOfNode(n)})]

\* The cached page is what the tracker knew at most MaxAge ago.
PageIsRecent ==
  answer # Unknown => answer = NodeConnections \/ clock - changed <= MaxAge

\* A location that a node reported is not replaced by that of its address.
ReportedLocationStays == \A n \in reporters : Locations[n] = "reported"

ReportsInv == ViewsAgree /\ PageIsRecent /\ ReportedLocationStays
=============================================================================
