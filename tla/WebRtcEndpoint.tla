---------------------------- MODULE WebRtcEndpoint ----------------------------
(***************************************************************************)
(* How two nodes make a WebRTC connection to each other                    *)
(* (network/src/connection/webrtc/WebRtcEndpoint.ts with the life of a     *)
(* connection in WebRtcConnection.ts and NodeWebRtcConnection.ts,          *)
(* logic/RtcSignaller.ts, and the relaying by trackers,                    *)
(* network-tracker/src/logic/attachMessageRelaying.ts).                    *)
(*                                                                         *)
(* Each end has at most one connection to the other in its table.  The     *)
(* offerer describes its connection first.  The messages of one connection *)
(* go through one tracker, in order; those of different connections may    *)
(* go through different trackers and overtake each other.  The library     *)
(* (node-datachannel) is external: its callbacks are actions.              *)
(***************************************************************************)
EXTENDS Integers, Sequences, FiniteSets

CONSTANTS
  Offerer, Answerer,  \* isOffering: the order of the hashes of the two ids
  None,               \* null, and the connection id 'none'
  MaxConnections      \* bound: connection objects ever created

ASSUME EndpointAssumption ==
  Offerer # Answerer /\ None \notin Nat /\ MaxConnections \in Nat

VARIABLES
  owner,       \* the ID counter: the peer that created each connection object
  live,        \* the connection objects that are not finished, of each peer
  current,     \* connections[other]: a number of an object, or None
  attempts,    \* the DeferredConnectionAttempts that are not settled
  relay,       \* for each connection: the messages on their way through a tracker
  rtcErrors,   \* peers that a tracker has sent an UNKNOWN_PEER error to
  negotiated,  \* negotiatedProtocolVersions has an entry for the other peer
  announced,   \* history: the last event was PEER_CONNECTED
  stopped

endpointVars == <<owner, live, current, attempts, relay, rtcErrors, negotiated, announced, stopped>>

Peer == {Offerer, Answerer}
Other(p) == IF p = Offerer THEN Answerer ELSE Offerer
Serial == 1 .. MaxConnections

\* A connection object.  remote is the object its remote description is of, to the
\* object that description was made for; attempt is null once it was resolved.
Connection ==
  [serial : Serial, id : Serial \cup {None}, state : {"new", "connecting", "connected"},
   timer : BOOLEAN, remote : Serial \cup {None}, to : Serial \cup {None},
   sent : {"nothing", "description", "candidate"}, open : BOOLEAN,
   attempt : Serial \cup {None}]

Message ==
  [type : {"offer", "answer", "candidate", "connect"}, id : Serial \cup {None},
   to : Serial \cup {None}]

\* connections[other], as a set of at most one.
Current(p) == {c \in live[p] : c.serial = current[p]}

EndpointInit ==
  /\ owner = <<>>
  /\ live = [p \in Peer |-> {}]
  /\ current = [p \in Peer |-> None]
  /\ attempts = [p \in Peer |-> {}]
  /\ relay = <<>>
  /\ rtcErrors = {}
  /\ negotiated = [p \in Peer |-> FALSE]
  /\ announced = [p \in Peer |-> FALSE]
  /\ stopped = [p \in Peer |-> FALSE]

-----------------------------------------------------------------------------
(* Creating and closing connection objects.                                *)

New == Len(owner) + 1

\* createConnection and connect: the connection timer runs.
Created(id, attempt) ==
  [serial |-> New, id |-> id, state |-> "new", timer |-> TRUE, remote |-> None, to |-> None,
   sent |-> "nothing", open |-> FALSE,
   attempt |-> IF attempt = None THEN New ELSE attempt]

\* Mutant: the new object gets an attempt of its own.
Attempt_Fresh(p) == None

\* replaceConnection: the attempt that is stolen from the current connection.
Attempt(p) == IF current[p] = None THEN None ELSE (CHOOSE c \in Current(p) : TRUE).attempt

\* createConnection and replaceConnection: c takes the place of the current connection
\* of p, which is closed if there is one.  out are the messages c sends at once, queues
\* those of the other connections.
Install(p, c, out, queues) ==
  /\ New <= MaxConnections
  /\ owner' = Append(owner, p)
  /\ live' = [live EXCEPT ![p] = (@ \ Current(p)) \cup {c}]
  /\ current' = [current EXCEPT ![p] = New]
  /\ attempts' = [attempts EXCEPT ![p] = @ \cup {c.attempt}]
  /\ relay' = Append(queues, out)
  /\ negotiated' = [negotiated EXCEPT ![p] = @ /\ Current(p) = {}]
  /\ announced' = [announced EXCEPT ![p] = @ /\ Current(p) = {}]

\* WebRtcConnection.close with the endpoint's 'close' listener.
Close(p, c) ==
  /\ live' = [live EXCEPT ![p] = @ \ {c}]
  /\ current' = [current EXCEPT ![p] = IF @ = c.serial THEN None ELSE @]
  /\ attempts' = [attempts EXCEPT ![p] = @ \ {c.attempt}]
  /\ negotiated' = [negotiated EXCEPT ![p] = FALSE]
  /\ announced' = [announced EXCEPT ![p] = FALSE]

CloseOnly(p, c) == Close(p, c) /\ UNCHANGED <<owner, relay, rtcErrors, stopped>>

\* An assignment to fields of c.
Update(p, c, d) == live' = [live EXCEPT ![p] = (@ \ {c}) \cup {d}]

-----------------------------------------------------------------------------
(* Calls from the node.                                                    *)

\* connect, when there is no connection yet (otherwise it resolves at once or joins
\* the attempt).  An answerer that no tracker has instructed asks for an offer.
Connect(p, trackerInstructed) ==
  /\ ~stopped[p]
  /\ current[p] = None
  /\ Install(p, Created(IF p = Offerer THEN New ELSE None, None),
             IF trackerInstructed \/ p = Offerer THEN <<>>
             ELSE <<[type |-> "connect", id |-> None, to |-> None]>>,
             relay)
  /\ UNCHANGED <<rtcErrors, stopped>>

\* close(receiverPeerId)
Disconnect(p) == \E c \in Current(p) : CloseOnly(p, c)

\* stop: the connections are closed, their events are no longer heard.
Stop(p) ==
  /\ ~stopped[p]
  /\ stopped' = [stopped EXCEPT ![p] = TRUE]
  /\ live' = [live EXCEPT ![p] = @ \ Current(p)]
  /\ current' = [current EXCEPT ![p] = None]
  /\ attempts' = [attempts EXCEPT ![p] = @ \ {c.attempt : c \in Current(p)}]
  /\ negotiated' = [negotiated EXCEPT ![p] = @ /\ Current(p) = {}]
  /\ announced' = [announced EXCEPT ![p] = FALSE]
  /\ UNCHANGED <<owner, relay, rtcErrors>>

-----------------------------------------------------------------------------
(* Callbacks of the library.                                               *)

\* 'localDescription', once: it is sent, and the protocol versions are validated
\* (the two ends share one: close would follow otherwise).
LocalDescription(p, c) ==
  /\ c.sent = "nothing"
  /\ p = Offerer \/ c.remote # None
  /\ Update(p, c, [c EXCEPT !.sent = "description"])
  /\ relay' = [relay EXCEPT ![c.serial] =
       Append(@, [type |-> IF p = Offerer THEN "offer" ELSE "answer", id |-> c.id,
                  to |-> c.remote])]
  /\ negotiated' = [negotiated EXCEPT ![p] = TRUE]
  /\ UNCHANGED <<owner, current, attempts, rtcErrors, announced, stopped>>

\* 'localCandidate'; one stands for all.
LocalCandidate(p, c) ==
  /\ c.sent = "description"
  /\ Update(p, c, [c EXCEPT !.sent = "candidate"])
  /\ relay' = [relay EXCEPT ![c.serial] =
                 Append(@, [type |-> "candidate", id |-> c.id, to |-> None])]
  /\ UNCHANGED <<owner, current, attempts, rtcErrors, negotiated, announced, stopped>>

\* The object at the other end that c has a session with: each has the other's
\* description.
Counterpart(p, c) == {d \in live[Other(p)] : d.serial = c.remote /\ d.remote = c.serial}

libraryUnchanged == <<owner, current, relay, rtcErrors, negotiated, stopped>>

\* onStateChange: 'connecting' restarts the connection timer.
Connecting(p, c) ==
  /\ c.state = "new" /\ c.remote # None
  /\ Update(p, c, [c EXCEPT !.state = "connecting", !.timer = TRUE])
  /\ UNCHANGED <<libraryUnchanged, attempts, announced>>

Connected(p, c) ==
  /\ c.state = "connecting" /\ Counterpart(p, c) # {}
  /\ Update(p, c, [c EXCEPT !.state = "connected"])
  /\ UNCHANGED <<libraryUnchanged, attempts, announced>>

\* The data channel opens: emitOpen.
Open(p, c) ==
  /\ c.state = "connected" /\ ~c.open
  /\ \E d \in Counterpart(p, c) : d.state = "connected"
  /\ Update(p, c, [c EXCEPT !.open = TRUE, !.timer = FALSE, !.attempt = None])
  /\ attempts' = [attempts EXCEPT ![p] = @ \ {c.attempt}]
  /\ announced' = [announced EXCEPT ![p] = TRUE]
  /\ UNCHANGED libraryUnchanged

\* The state becomes disconnected, closed or failed, or the channel is closed, or
\* pings are not answered.
Break(p, c) == c.state \in {"connecting", "connected"} /\ CloseOnly(p, c)

\* The connection timer.
ConnectionTimeout(p, c) == c.timer /\ CloseOnly(p, c)

-----------------------------------------------------------------------------
(* Messages that the tracker relays.                                       *)

\* The queues without the next message of connection s.
Taken(s) == [relay EXCEPT ![s] = Tail(@)]

\* onRtcOfferFromSignaller: the current connection takes the offer, unless it has
\* been used for another one and is replaced.
OnOffer(p, s, m) ==
  IF \E c \in Current(p) : c.id = None
  THEN /\ \E c \in Current(p) : Update(p, c, [c EXCEPT !.id = m.id, !.remote = s])
       /\ relay' = Taken(s)
       /\ UNCHANGED <<owner, current, attempts, negotiated, announced>>
  ELSE Install(p, [Created(m.id, Attempt(p)) EXCEPT !.remote = s], <<>>, Taken(s))

\* Mutant: the connection id of an answer is not looked at.
OnAnswer_AnyId(p, s, m) ==
  /\ IF \E c \in Current(p) : TRUE
     THEN /\ \E c \in Current(p) : Update(p, c, [c EXCEPT !.remote = s, !.to = m.to])
          /\ negotiated' = [negotiated EXCEPT ![p] = TRUE]
     ELSE UNCHANGED <<live, negotiated>>
  /\ relay' = Taken(s)
  /\ UNCHANGED <<owner, current, attempts, announced>>

\* onRtcAnswerFromSignaller: an answer that is not for the current connection is ignored.
OnAnswer(p, s, m) ==
  /\ IF \E c \in Current(p) : c.id = m.id
     THEN /\ \E c \in Current(p) : Update(p, c, [c EXCEPT !.remote = s, !.to = m.to])
          /\ negotiated' = [negotiated EXCEPT ![p] = TRUE]
     ELSE UNCHANGED <<live, negotiated>>
  /\ relay' = Taken(s)
  /\ UNCHANGED <<owner, current, attempts, announced>>

\* onIceCandidateFromSignaller and addRemoteCandidate: a candidate before the remote
\* description closes the connection.
OnCandidate(p, s, m) ==
  /\ IF \E c \in Current(p) : c.id = m.id /\ c.remote = None
     THEN \E c \in Current(p) : Close(p, c)
     ELSE UNCHANGED <<live, current, attempts, negotiated, announced>>
  /\ relay' = Taken(s)
  /\ UNCHANGED owner

\* onConnectFromSignaller: the offerer offers again.
OnConnect(p, s) == Install(p, Created(New, Attempt(p)), <<>>, Taken(s))

\* The next message of connection s arrives at the other peer, whose listeners do
\* nothing after stop.
Receive(s) ==
  LET m == Head(relay[s])
      p == Other(owner[s])
  IN  /\ relay[s] # <<>>
      /\ IF stopped[p]
         THEN relay' = Taken(s)
              /\ UNCHANGED <<owner, live, current, attempts, negotiated, announced>>
         ELSE \/ m.type = "offer" /\ OnOffer(p, s, m)
              \/ m.type = "answer" /\ OnAnswer(p, s, m)
              \/ m.type = "candidate" /\ OnCandidate(p, s, m)
              \/ m.type = "connect" /\ OnConnect(p, s)
      /\ UNCHANGED <<rtcErrors, stopped>>

\* The tracker cannot relay it, or it is lost with the connection to the tracker.
\* The sender is told when its peer is unknown.
Lose(s, unknownPeer) ==
  /\ relay[s] # <<>>
  /\ relay' = Taken(s)
  /\ rtcErrors' = IF unknownPeer THEN rtcErrors \cup {owner[s]} ELSE rtcErrors
  /\ UNCHANGED <<owner, live, current, attempts, negotiated, announced, stopped>>

\* onErrorFromSignaller: the current connection is closed, whichever the error is about.
OnError(p) ==
  /\ p \in rtcErrors
  /\ rtcErrors' = rtcErrors \ {p}
  /\ IF current[p] = None \/ stopped[p]
     THEN UNCHANGED <<live, current, attempts, negotiated, announced>>
     ELSE \E c \in Current(p) : Close(p, c)
  /\ UNCHANGED <<owner, relay, stopped>>

-----------------------------------------------------------------------------
EndpointNext ==
  \/ \E p \in Peer :
       \/ \E trackerInstructed \in BOOLEAN : Connect(p, trackerInstructed)
       \/ Disconnect(p) \/ Stop(p) \/ OnError(p)
       \/ \E c \in live[p] :
            \/ LocalDescription(p, c) \/ LocalCandidate(p, c)
            \/ Connecting(p, c) \/ Connected(p, c) \/ Open(p, c)
            \/ Break(p, c) \/ ConnectionTimeout(p, c)
  \/ \E s \in DOMAIN relay : Receive(s) \/ \E unknownPeer \in BOOLEAN : Lose(s, unknownPeer)

EndpointSpec == EndpointInit /\ [][EndpointNext]_endpointVars

\* Timers expire.
EndpointFairness ==
  \A p \in Peer : WF_endpointVars(\E c \in live[p] : ConnectionTimeout(p, c))

-----------------------------------------------------------------------------
(* Properties.                                                             *)

EndpointTypeOK ==
  /\ owner \in Seq(Peer) /\ Len(owner) <= MaxConnections
  /\ live \in [Peer -> SUBSET Connection]
  /\ current \in [Peer -> Serial \cup {None}]
  /\ attempts \in [Peer -> SUBSET Serial]
  /\ relay \in Seq(Seq(Message)) /\ Len(relay) = Len(owner)
  /\ rtcErrors \subseteq Peer
  /\ negotiated \in [Peer -> BOOLEAN] /\ announced \in [Peer -> BOOLEAN]
  /\ stopped \in [Peer -> BOOLEAN]

\* Every connection object that is not finished is the one in the endpoint's table,
\* whatever is replaced, closed or stopped: no timer or callback of another one
\* announces a disconnection or removes the protocol versions.  What the node was
\* told last agrees with it, and the versions of an open connection are known.
OneConnection ==
  \A p \in Peer :
    /\ {c.serial : c \in live[p]} = {current[p]} \ {None}
    /\ announced[p] <=> \E c \in live[p] : c.open
    /\ negotiated[p] <=> \E c \in live[p] : c.sent # "nothing"

\* The promise of a connect is in the hands of a connection that will settle it:
\* it moves with replaceConnection and leaves only when the connection opens or is
\* closed ("unexpected deferedConnectionAttempt == null" is never thrown).
AttemptsAreHeld ==
  \A p \in Peer :
    /\ attempts[p] = {c.attempt : c \in live[p]} \ {None}
    /\ \A c \in live[p] : c.attempt = None <=> c.open

\* The answer that a connection of the offerer has taken was made for its offer.
AnswersMatch == \A c \in live[Offerer] : c.remote # None => c.to = c.serial

\* One connection object counts, it holds the promise of connect, and what it has
\* taken was meant for it.
EndpointInv == EndpointTypeOK /\ OneConnection /\ AttemptsAreHeld /\ AnswersMatch

\* Every call of connect settles.
ConnectSettles == []<>(\A p \in Peer : attempts[p] = {})
=============================================================================
