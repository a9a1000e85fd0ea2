-------------------------- MODULE TrackerConnections --------------------------
(***************************************************************************)
(* The WebSocket connections of a node to one tracker: the node's          *)
(* TrackerConnector.ts on NodeToTracker.ts and the client endpoint         *)
(* (AbstractClientWsEndpoint.ts, NodeClientWsEndpoint.ts, AbstractWs...),  *)
(* and the tracker's ServerWsEndpoint.ts, with the handshake between them. *)
(*                                                                         *)
(* A socket has two ends, each with a readyState, and a first in, first    *)
(* out queue in each direction.  The server greets the client with a uuid, *)
(* which the client returns with its id.  An end that closes is "closing"  *)
(* until its 'close' event, which may be late.                             *)
(***************************************************************************)
EXTENDS Integers, Sequences, FiniteSets

CONSTANTS
  None,       \* undefined
  Reason,     \* why a tracker may be active: stream parts, signalling only sessions
  MaxSockets  \* bound: sockets ever created

ASSUME SocketAssumption == None \notin Nat /\ MaxSockets \in Nat

VARIABLES
  client,     \* the client's end of each socket
  server,     \* the server's end of each socket
  toClient,   \* the queues
  toServer,
  setUp,      \* sockets with the listeners of doSetUpConnection
  known,      \* the client's connectionById, connectionsByServerUrl and
              \* serverUrlByPeerId of the tracker: a socket or None
  pending,    \* pendingConnections: the socket of the promise, or None
  timers,     \* sockets with a running handshake timer at the client
  timerRef,   \* the client's handshakeTimeoutRefs[tracker]
  accepted,   \* the server's connectionById of the node
  greeting,   \* sockets with a running handshake timer at the server
  uses        \* why the tracker is active

socketVars ==
  <<client, server, toClient, toServer, setUp, known, pending, timers, timerRef, accepted,
    greeting, uses>>

Socket == 1 .. Len(client)
New == Len(client) + 1

SocketsInit ==
  /\ client = <<>> /\ server = <<>> /\ toClient = <<>> /\ toServer = <<>>
  /\ setUp = {} /\ known = None /\ pending = None /\ timers = {} /\ timerRef = None
  /\ accepted = None /\ greeting = {} /\ uses = {}

-----------------------------------------------------------------------------
(* The node's calls.                                                       *)

\* The client's end s is closed or terminated by the client.
ClientClosing(s) ==
  /\ client' = [client EXCEPT ![s] = "closing"]
  /\ toServer' = [toServer EXCEPT ![s] = Append(@, "close")]

\* connect: an open connection is enough, a pending one is waited for; one that is
\* closing is closed again, which does nothing, and another one is made.
ConnectTo ==
  IF (known # None /\ client[known] = "open") \/ pending # None
  THEN UNCHANGED <<client, server, toClient, toServer, pending>>
  ELSE /\ New <= MaxSockets
       /\ client' = Append(client, "connecting")
       /\ server' = Append(server, "none")
       /\ toClient' = Append(toClient, <<>>)
       /\ toServer' = Append(toServer, <<>>)
       /\ pending' = New

\* disconnectFromTracker: close.
DisconnectFrom ==
  /\ IF known # None /\ client[known] = "open"
     THEN ClientClosing(known)
     ELSE UNCHANGED <<client, toServer>>
  /\ UNCHANGED <<server, toClient, pending>>

nodeUnchanged == <<setUp, known, timers, timerRef, accepted, greeting>>

\* onNewStreamPart and addSignallingOnlySession: connect at once.
Use(why) ==
  /\ why \notin uses
  /\ uses' = uses \cup {why}
  /\ ConnectTo
  /\ UNCHANGED nodeUnchanged

\* A stream part is removed, removeSignallingOnlySession.
Unuse(why) ==
  /\ why \in uses
  /\ uses' = uses \ {why}
  /\ UNCHANGED <<nodeUnchanged, client, server, toClient, toServer, pending>>

\* isActiveTracker
IsActiveTracker == uses # {}

\* Mutant: trackers that are not active any more are not left.
Maintain_NeverLeaves ==
  /\ IsActiveTracker /\ ConnectTo
  /\ UNCHANGED <<nodeUnchanged, uses>>

\* The maintenance timer: maintainConnections.
Maintain ==
  /\ IF IsActiveTracker THEN ConnectTo ELSE DisconnectFrom
  /\ UNCHANGED <<nodeUnchanged, uses>>

-----------------------------------------------------------------------------
(* The client's end.                                                       *)

\* The promise of the pending connection is rejected, if it is that of s.
Rejected(s) == pending' = IF pending = s THEN None ELSE pending

\* 'open': handshakeInit.
ClientOpen(s) ==
  /\ client[s] = "connecting" /\ server[s] # "none"
  /\ client' = [client EXCEPT ![s] = "open"]
  /\ timers' = timers \cup {s}
  /\ timerRef' = s
  /\ UNCHANGED <<server, toClient, toServer, setUp, known, pending, accepted, greeting, uses>>

\* The socket cannot be opened: onHandshakeError.
ClientFails(s) ==
  /\ client[s] = "connecting"
  /\ client' = [client EXCEPT ![s] = "closed"]
  /\ server' = [server EXCEPT ![s] = IF @ = "none" THEN "closed" ELSE @]
  /\ toServer' = [toServer EXCEPT ![s] = <<"close">>]
  /\ Rejected(s)
  /\ UNCHANGED <<toClient, setUp, known, timers, timerRef, accepted, greeting, uses>>

\* The timer that the reference names is cleared.
ClearHandshake ==
  /\ timers' = timers \ {timerRef}
  /\ timerRef' = None

\* The socket is the tracker's connection from now on.
SetUpConnection(s) ==
  /\ setUp' = setUp \cup {s}
  /\ known' = s

\* The server's greeting: handshakeListener, clearHandshake, setUpConnection.  It is
\* also heard by a socket that the handshake timer has closed; the answer is not sent then.
ClientHello(s) ==
  /\ client[s] \in {"open", "closing"} /\ toClient[s] # <<>> /\ Head(toClient[s]) = "hello"
  /\ toClient' = [toClient EXCEPT ![s] = Tail(@)]
  /\ ClearHandshake
  /\ toServer' = [toServer EXCEPT ![s] = IF client[s] = "open" THEN Append(@, "hello") ELSE @]
  /\ SetUpConnection(s)
  /\ pending' = IF pending = s THEN None ELSE pending
  /\ UNCHANGED <<client, server, accepted, greeting, uses>>

\* The handshake timer: the reference that is deleted may be that of a later socket.
ClientHandshakeTimeout(s) ==
  /\ s \in timers
  /\ timers' = timers \ {s}
  /\ timerRef' = None
  /\ IF client[s] = "open" THEN ClientClosing(s) ELSE UNCHANGED <<client, toServer>>
  /\ Rejected(s)
  /\ UNCHANGED <<server, toClient, setUp, known, accepted, greeting, uses>>

\* PingPongWs, a failed send or an error of the socket: terminate.
ClientTerminates ==
  /\ known # None /\ client[known] = "open"
  /\ ClientClosing(known)
  /\ UNCHANGED <<server, toClient, setUp, known, pending, timers, timerRef, accepted,
                 greeting, uses>>

\* The server closes.
ClientHearsClose(s) ==
  /\ client[s] # "closed" /\ toClient[s] # <<>> /\ Head(toClient[s]) = "close"
  /\ toClient' = [toClient EXCEPT ![s] = <<>>]
  /\ client' = [client EXCEPT ![s] = "closing"]
  /\ toServer' = [toServer EXCEPT ![s] = IF client[s] = "closing" THEN @ ELSE Append(@, "close")]
  /\ UNCHANGED <<server, setUp, known, pending, timers, timerRef, accepted, greeting, uses>>

\* The 'close' event: onHandshakeClosed and, for a socket that was set up, onClose,
\* which forgets the tracker's connection, whichever that is.
ClientCloseEvent(s) ==
  /\ client[s] = "closing"
  /\ client' = [client EXCEPT ![s] = "closed"]
  /\ known' = IF s \in setUp THEN None ELSE known
  /\ Rejected(s)
  /\ UNCHANGED <<server, toClient, toServer, setUp, timers, timerRef, accepted, greeting, uses>>

-----------------------------------------------------------------------------
(* The server's end.                                                       *)

serverUnchanged == <<client, setUp, known, pending, timers, timerRef, uses>>

ServerClosing(s) ==
  /\ server' = [server EXCEPT ![s] = "closing"]
  /\ toClient' = [toClient EXCEPT ![s] = Append(@, "close")]

\* 'connection': the greeting and a timer.
ServerConnection(s) ==
  /\ server[s] = "none"
  /\ server' = [server EXCEPT ![s] = "open"]
  /\ toClient' = [toClient EXCEPT ![s] = Append(@, "hello")]
  /\ greeting' = greeting \cup {s}
  /\ UNCHANGED <<serverUnchanged, toServer, accepted>>

\* The client returns the uuid: acceptConnection, or a duplicate is rejected.
ServerHello(s) ==
  /\ server[s] = "open" /\ toServer[s] # <<>> /\ Head(toServer[s]) = "hello"
  /\ toServer' = [toServer EXCEPT ![s] = Tail(@)]
  /\ greeting' = greeting \ {s}
  /\ IF accepted = None
     THEN accepted' = s /\ UNCHANGED <<server, toClient>>
     ELSE ServerClosing(s) /\ UNCHANGED accepted
  /\ UNCHANGED serverUnchanged

\* The server's handshake timer.
ServerHandshakeTimeout(s) ==
  /\ s \in greeting
  /\ greeting' = greeting \ {s}
  /\ IF server[s] = "open" THEN ServerClosing(s) ELSE UNCHANGED <<server, toClient>>
  /\ UNCHANGED <<serverUnchanged, toServer, accepted>>

\* The tracker disconnects the node, or pings are not answered.
ServerTerminates ==
  /\ accepted # None /\ server[accepted] = "open"
  /\ ServerClosing(accepted)
  /\ UNCHANGED <<serverUnchanged, toServer, accepted, greeting>>

\* The client closes.
ServerHearsClose(s) ==
  /\ server[s] \in {"open", "closing"} /\ toServer[s] # <<>> /\ Head(toServer[s]) = "close"
  /\ toServer' = [toServer EXCEPT ![s] = <<>>]
  /\ server' = [server EXCEPT ![s] = "closing"]
  /\ toClient' = [toClient EXCEPT ![s] = IF server[s] = "closing" THEN @ ELSE Append(@, "close")]
  /\ UNCHANGED <<serverUnchanged, accepted, greeting>>

\* The 'close' event, which only accepted sockets listen to.
ServerCloseEvent(s) ==
  /\ server[s] = "closing"
  /\ server' = [server EXCEPT ![s] = "closed"]
  /\ accepted' = IF accepted = s THEN None ELSE accepted
  /\ UNCHANGED <<serverUnchanged, toClient, toServer, greeting>>

-----------------------------------------------------------------------------
ClientStep(s) ==
  \/ ClientOpen(s) \/ ClientHello(s) \/ ClientHandshakeTimeout(s)
  \/ ClientHearsClose(s) \/ ClientCloseEvent(s)

ServerStep(s) ==
  \/ ServerConnection(s) \/ ServerHello(s) \/ ServerHandshakeTimeout(s)
  \/ ServerHearsClose(s) \/ ServerCloseEvent(s)

SocketsNext ==
  \/ \E why \in Reason : Use(why) \/ Unuse(why)
  \/ Maintain
  \/ \E s \in Socket : ClientStep(s) \/ ServerStep(s) \/ ClientFails(s)
  \/ ClientTerminates \/ ServerTerminates

\* Timers expire, what is sent arrives, and sockets open or fail.
SocketsFairness ==
  /\ WF_socketVars(Maintain)
  /\ \A s \in 1 .. MaxSockets :
       /\ WF_socketVars(s \in Socket /\ (ClientStep(s) \/ ClientFails(s)))
       /\ WF_socketVars(s \in Socket /\ ServerStep(s))

SocketsSpec == SocketsInit /\ [][SocketsNext]_socketVars /\ SocketsFairness

-----------------------------------------------------------------------------
(* Properties.                                                             *)

\* The server has one accepted socket of a node, until its 'close' event; every
\* other socket that it has answered is on its way out.
ServerKeepsOne ==
  \A s \in Socket :
    server[s] = "open" => s = accepted \/ s \in greeting

\* Every promise of connect settles.
PendingSettles == []<>(pending = None)

\* An open socket of the client that the client has forgotten: the late 'close'
\* event of an earlier socket has removed it from the maps.
Orphan == \E s \in setUp : client[s] = "open" /\ s # known

\* A tracker that is not active is left in the end, unless a socket is forgotten.
LeavesIdleTracker ==
  <>[](uses = {}) => <>[](accepted = None \/ Orphan)

\* "maintains no tracker connections if no streams" (TrackerConnector.test.ts).
NoConnectionIfNoStreams ==
  <>[](uses = {}) => <>[](accepted = None)
=============================================================================
