--------------------------- MODULE ConnectionsProofs ---------------------------
(***************************************************************************)
(* Proofs about the connections of a node, for any number of sockets, of   *)
(* proxies, tasks and calls: a tracker keeps one socket of a node, and the *)
(* two ends of a proxy connection agree at rest.                           *)
(*                                                                         *)
(* The latter is proved of the time in which no connection was lost and no *)
(* call has left an attempt behind: then one task runs at a time, has at   *)
(* most one operation per server, and what is on its way to and from a     *)
(* server tells what the server will know when it has arrived.             *)
(***************************************************************************)
EXTENDS MCConnections, SequenceTheorems, TLAPS

-----------------------------------------------------------------------------
(* The sockets of a tracker.                                               *)

\* Every socket has two ends, and the server accepts no other.
ReadyState == {"none", "connecting", "open", "closing", "closed"}
Ends == client \in Seq(ReadyState) /\ server \in Seq(ReadyState) /\ Len(client) = Len(server)
SocketsGood == Ends /\ accepted \in Socket \cup {None} /\ ServerKeepsOne

\* The server's end is not opened, and nothing that is accepted or greeted is given up.
ServerEndKept ==
  /\ accepted' = accepted /\ greeting \subseteq greeting' /\ Len(client') >= Len(client)
  /\ \A m \in Socket' : server'[m] = "open" => m \in Socket /\ server[m] = "open"

LEMMA ServerEndFramed ==
  ASSUME SocketsGood, Ends', ServerEndKept
  PROVE  SocketsGood'
<1>1. Len(client) \in Nat /\ Len(client') \in Nat
  BY LenProperties DEF SocketsGood, Ends
<1>2. accepted' \in Socket' \cup {None}
  BY <1>1 DEF SocketsGood, Socket, ServerEndKept
<1>3. ServerKeepsOne'
  BY DEF SocketsGood, ServerKeepsOne, ServerEndKept
<1> QED
  BY <1>2, <1>3 DEF SocketsGood

\* A socket is made, which is neither open nor answered.
LEMMA ConnectToKeeps ==
  ASSUME SocketsGood, ConnectTo, UNCHANGED <<accepted, greeting>>
  PROVE  SocketsGood'
<1>1. CASE UNCHANGED <<client, server>>
  BY <1>1 DEF SocketsGood, Ends, Socket, ServerKeepsOne
<1>2. CASE client' = Append(client, "connecting") /\ server' = Append(server, "none")
  <2>1. Ends' /\ Len(client') = Len(client) + 1 /\ Len(client) \in Nat
    <3>1. "connecting" \in ReadyState /\ "none" \in ReadyState
      BY DEF ReadyState
    <3> QED
      BY <1>2, <3>1, AppendProperties, LenProperties DEF SocketsGood, Ends
  <2>2. \A m \in 1 .. Len(server) : server'[m] = server[m]
    BY <1>2, AppendProperties DEF SocketsGood, Ends
  <2>3. server'[Len(server) + 1] = "none"
    BY <1>2, AppendProperties DEF SocketsGood, Ends
  <2>4. ServerEndKept
    BY <2>1, <2>2, <2>3 DEF SocketsGood, Ends, ServerEndKept, Socket
  <2> QED
    BY <2>1, <2>4, ServerEndFramed
<1> QED
  BY <1>1, <1>2 DEF ConnectTo

\* One end of a socket gets into another state.
LEMMA EndChanged ==
  ASSUME NEW f \in Seq(ReadyState), NEW m \in 1 .. Len(f), NEW v \in ReadyState
  PROVE  /\ [f EXCEPT ![m] = v] \in Seq(ReadyState) /\ Len([f EXCEPT ![m] = v]) = Len(f)
         /\ \A n \in 1 .. Len(f) : [f EXCEPT ![m] = v][n] = IF n = m THEN v ELSE f[n]
BY ExceptSeq

\* The client's steps change the server's end only where it was never opened.
LEMMA ClientKeeps ==
  ASSUME SocketsGood, accepted' = accepted, greeting' = greeting,
         NEW m \in Socket, NEW v \in ReadyState,
         client' \in {client, [client EXCEPT ![m] = v]},
         server' = server \/ (server[m] = "none" /\ server' = [server EXCEPT ![m] = "closed"])
  PROVE  SocketsGood'
<1>1. client' \in Seq(ReadyState) /\ Len(client') = Len(client)
  BY EndChanged DEF SocketsGood, Ends, Socket
<1>2. server' \in Seq(ReadyState) /\ Len(server') = Len(server)
      /\ \A n \in 1 .. Len(server) : server'[n] = "open" => server[n] = "open"
  <2>1. CASE server' = server
    BY <2>1 DEF SocketsGood, Ends
  <2>2. CASE server' = [server EXCEPT ![m] = "closed"]
    <3>1. "closed" \in ReadyState /\ "closed" # "open"
      BY DEF ReadyState
    <3> QED
      BY <2>2, <3>1, EndChanged DEF SocketsGood, Ends, Socket
  <2> QED
    BY <2>1, <2>2
<1>3. Ends' /\ ServerEndKept
  <2>1. Len(client) \in Nat
    BY LenProperties DEF SocketsGood, Ends
  <2> QED
    BY <1>1, <1>2, <2>1 DEF SocketsGood, Ends, ServerEndKept, Socket
<1> QED
  BY <1>3, ServerEndFramed

\* The server's end m gets into state v, and is accepted or greeted if that is open.
LEMMA ServerKeeps ==
  ASSUME SocketsGood, client' = client, NEW m \in Socket, NEW v \in ReadyState,
         server' = [server EXCEPT ![m] = v],
         accepted' \in {accepted, m} \/ (accepted' = None /\ accepted = m),
         accepted = None \/ accepted' = accepted \/ accepted = m,
         \A n \in Socket : n # m /\ n \in greeting => n \in greeting',
         v = "open" => m \in greeting' \/ accepted' = m
  PROVE  SocketsGood'
<1>1. server' \in Seq(ReadyState) /\ Len(server') = Len(server) /\ server'[m] = v
      /\ \A n \in 1 .. Len(server) : n # m => server'[n] = server[n]
  BY EndChanged DEF SocketsGood, Ends, Socket
<1>2. \A n \in Socket : n # m /\ server[n] = "open" => n = accepted \/ n \in greeting
  BY DEF SocketsGood, ServerKeepsOne
<1>3. None \notin Socket
  BY SocketAssumption DEF Socket
<1>4. ServerKeepsOne'
  BY <1>1, <1>2, <1>3 DEF SocketsGood, Ends, ServerKeepsOne, Socket
<1> QED
  BY <1>1, <1>4 DEF SocketsGood, Ends, Socket


\* Nothing of the two ends changes.
LEMMA EndsUnchanged ==
  ASSUME SocketsGood, UNCHANGED <<client, server, accepted, greeting>>
  PROVE  SocketsGood'
BY DEF SocketsGood, Ends, Socket, ServerKeepsOne

\* The client closes or loses the socket that it knows.
LEMMA KnownClosingKeeps ==
  ASSUME SocketsGood, ClientClosing(known), UNCHANGED <<server, accepted, greeting>>
  PROVE  SocketsGood'
<1>1. client' = [client EXCEPT ![known] = "closing"] /\ "closing" \in ReadyState
  BY DEF ClientClosing, ReadyState
<1>2. CASE known \in Socket
  BY <1>1, <1>2, ClientKeeps
<1>3. CASE known \notin Socket
  <2>1. client = [m \in 1 .. Len(client) |-> client[m]]
    BY LenProperties DEF SocketsGood, Ends
  <2>2. client' = client
    BY <1>1, <1>3, <2>1 DEF Socket
  <2> QED
    BY <2>2, EndsUnchanged
<1> QED
  BY <1>2, <1>3

\* Every step of the node, of the client and of the server keeps it.
LEMMA SocketsStepKeeps ==
  ASSUME SocketsGood, [SocketsNext]_socketVars
  PROVE  SocketsGood'
<1>0. {"open", "closing", "closed"} \subseteq ReadyState
      /\ "closing" # "open" /\ "closed" # "open"
  BY DEF ReadyState
<1>1. CASE \/ \E why \in Reason : Use(why) \/ Unuse(why)
           \/ Maintain \/ ClientTerminates \/ UNCHANGED socketVars
  <2>1. UNCHANGED <<accepted, greeting>>
    BY <1>1 DEF Use, Unuse, Maintain, ClientTerminates, nodeUnchanged, socketVars
  <2>2. \/ ConnectTo
        \/ ClientClosing(known) /\ server' = server
        \/ UNCHANGED <<client, server>>
    BY <1>1 DEF Use, Unuse, Maintain, DisconnectFrom, ClientTerminates, nodeUnchanged, socketVars
  <2> QED
    BY <2>1, <2>2, ConnectToKeeps, KnownClosingKeeps, EndsUnchanged
<1>2. ASSUME NEW m \in Socket, ClientStep(m) \/ ClientFails(m)
      PROVE  SocketsGood'
  <2>1. accepted' = accepted /\ greeting' = greeting
    BY <1>2 DEF ClientStep, ClientOpen, ClientHello, ClientHandshakeTimeout, ClientHearsClose,
                ClientCloseEvent, ClientFails
  <2>2. \E v \in {"open", "closing", "closed"} : client' \in {client, [client EXCEPT ![m] = v]}
    BY <1>2 DEF ClientStep, ClientOpen, ClientHello, ClientHandshakeTimeout, ClientHearsClose,
                ClientCloseEvent, ClientFails, ClientClosing
  <2>3. server' = server \/ (server[m] = "none" /\ server' = [server EXCEPT ![m] = "closed"])
    <3>1. CASE ClientStep(m)
      BY <3>1 DEF ClientStep, ClientOpen, ClientHello, ClientHandshakeTimeout, ClientHearsClose,
                  ClientCloseEvent
    <3>2. CASE ClientFails(m)
      <4>1. server' = [server EXCEPT ![m] = IF server[m] = "none" THEN "closed" ELSE server[m]]
        BY <3>2 DEF ClientFails
      <4>2. server = [n \in 1 .. Len(server) |-> server[n]] /\ m \in 1 .. Len(server)
        BY LenProperties DEF SocketsGood, Ends, Socket
      <4> QED
        BY <4>1, <4>2
    <3> QED
      BY <1>2, <3>1, <3>2
  <2> QED
    BY <1>0, <2>1, <2>2, <2>3, ClientKeeps
<1>3. ASSUME NEW m \in Socket, ServerConnection(m) \/ ServerHello(m) \/ ServerHandshakeTimeout(m)
                               \/ ServerHearsClose(m) \/ ServerCloseEvent(m)
      PROVE  SocketsGood'
  <2>1. client' = client
    BY <1>3 DEF ServerConnection, ServerHello, ServerHandshakeTimeout, ServerHearsClose,
                ServerCloseEvent, serverUnchanged
  <2>2. server = [n \in 1 .. Len(server) |-> server[n]] /\ m \in 1 .. Len(server)
    BY LenProperties DEF SocketsGood, Ends, Socket
  <2>3. CASE ServerConnection(m)
    <3>1. server' = [server EXCEPT ![m] = "open"] /\ greeting' = greeting \cup {m}
          /\ accepted' = accepted
      BY <2>3 DEF ServerConnection
    <3> QED
      BY <1>0, <2>1, <3>1, ServerKeeps
  <2>4. CASE ServerHello(m)
    <3>1. server[m] = "open" /\ greeting' = greeting \ {m}
      BY <2>4 DEF ServerHello
    <3>2. CASE accepted = None
      <4>1. accepted' = m /\ server' = [server EXCEPT ![m] = "open"]
        BY <2>2, <2>4, <3>1, <3>2 DEF ServerHello
      <4> QED
        BY <1>0, <2>1, <3>1, <3>2, <4>1, ServerKeeps
    <3>3. CASE accepted # None
      <4>1. accepted' = accepted /\ server' = [server EXCEPT ![m] = "closing"]
        BY <2>4, <3>3 DEF ServerHello, ServerClosing
      <4> QED
        BY <1>0, <2>1, <3>1, <4>1, ServerKeeps
    <3> QED
      BY <3>2, <3>3
  <2>5. CASE ServerHandshakeTimeout(m)
    <3>1. greeting' = greeting \ {m} /\ accepted' = accepted
      BY <2>5 DEF ServerHandshakeTimeout
    <3>2. CASE server[m] = "open"
      <4>1. server' = [server EXCEPT ![m] = "closing"]
        BY <2>5, <3>2 DEF ServerHandshakeTimeout, ServerClosing
      <4> QED
        BY <1>0, <2>1, <3>1, <4>1, ServerKeeps
    <3>3. CASE server[m] # "open"
      <4>1. server' = [server EXCEPT ![m] = server[m]]
        BY <2>2, <2>5, <3>3 DEF ServerHandshakeTimeout
      <4>2. server[m] \in ReadyState
        BY <2>2, ElementOfSeq DEF SocketsGood, Ends
      <4> QED
        BY <2>1, <3>1, <3>3, <4>1, <4>2, ServerKeeps
    <3> QED
      BY <3>2, <3>3
  <2>6. CASE ServerHearsClose(m)
    BY <1>0, <2>1, <2>6, ServerKeeps DEF ServerHearsClose, serverUnchanged
  <2>7. CASE ServerCloseEvent(m)
    <3>1. server' = [server EXCEPT ![m] = "closed"] /\ greeting' = greeting
          /\ accepted' = IF accepted = m THEN None ELSE accepted
      BY <2>7 DEF ServerCloseEvent
    <3> QED
      BY <1>0, <2>1, <3>1, ServerKeeps
  <2> QED
    BY <1>3, <2>3, <2>4, <2>5, <2>6, <2>7
<1>4. CASE ServerTerminates
  <2>1. accepted \in Socket
    BY <1>4 DEF ServerTerminates, SocketsGood
  <2> QED
    BY <1>0, <1>4, <2>1, ServerKeeps DEF ServerTerminates, ServerClosing, serverUnchanged
<1> QED
  BY <1>1, <1>2, <1>3, <1>4 DEF SocketsNext, ServerStep

\* The server keeps at most one socket of a node that is neither new nor on its way out,
\* however many the node opens at the same time (ServerWsEndpoint.acceptConnection).
THEOREM ServerKeepsOneSocket == SocketsSpec => []ServerKeepsOne
<1>1. SocketsInit => SocketsGood
  <2> SUFFICES ASSUME SocketsInit PROVE SocketsGood
    OBVIOUS
  <2>1. client = <<>> /\ server = <<>> /\ accepted = None
    BY DEF SocketsInit
  <2>2. Ends
    BY <2>1, EmptySeq DEF Ends
  <2>3. Socket = {}
    BY <2>1 DEF Socket
  <2> QED
    BY <2>1, <2>2, <2>3 DEF SocketsGood, ServerKeepsOne
<1>2. SocketsGood /\ [SocketsNext]_socketVars => SocketsGood'
  BY SocketsStepKeeps
<1>3. SocketsGood => ServerKeepsOne
  BY DEF SocketsGood
<1> QED
  BY <1>1, <1>2, <1>3, PTL DEF SocketsSpec


-----------------------------------------------------------------------------
(* A node and its proxies.                                                 *)

Direction == {"publish", "subscribe"}

Active(k) == tasks[k].phase # "none"

Op == [task : 1 .. MaxTasks, kind : {"leave", "open"}, server : Server,
       direction : Direction \cup {"any"}, handshake : {"none", "waiting", "accepted", "failed"},
       connects : BOOLEAN]

\* What an operation is doing: leaving a server, getting connected, or waiting for
\* the answer to its request.
Leaving(o) == o.kind = "leave" /\ o.handshake = "none" /\ ~o.connects
Connecting(o) == o.kind = "open" /\ o.handshake = "waiting" /\ o.connects
Asking(o) == o.kind = "open" /\ o.handshake = "waiting" /\ ~o.connects

Asked(m) == \E o \in ops : Asking(o) /\ o.server = m

\* One task at a time: it is behind the proxies that it wants.
OneTask ==
  /\ tasks = [k \in 1 .. MaxTasks |-> tasks[k]]
  /\ \A k, l \in DOMAIN tasks : Active(k) /\ Active(l) => k = l
  /\ \A k \in DOMAIN tasks :
       /\ tasks[k].phase \in {"none", "user", "close", "balance"} /\ tasks[k].retried = FALSE
       /\ tasks[k].phase = "user" =>
            /\ tasks[k].arguments \in Definition
            /\ tasks[k].arguments.nodes # {} => behindProxy
       /\ tasks[k].phase # "user" => tasks[k] = [phase |-> tasks[k].phase, retried |-> FALSE]
       /\ tasks[k].phase \in {"close", "balance"} =>
            definition \in Definition /\ (definition.nodes # {} => behindProxy)

\* Its operations, one for a server: leave a proxy, or make one of a node it wants.
GoodOps ==
  /\ ops \subseteq Op
  /\ \A o \in ops :
       /\ tasks[o.task].phase \in {"close", "balance"}
       /\ \/ Leaving(o) /\ o.server \in DOMAIN proxies
          \/ /\ Connecting(o) \/ Asking(o)
             /\ o.direction = definition.direction
             /\ o.server \in definition.nodes /\ o.server \notin DOMAIN proxies
  /\ \A o, u \in ops : o.server = u.server => o = u

\* The directions in which a server is a one-way neighbour.
Ways(m) == {d \in Direction : <<m, d>> \in oneway}

\* The server does not count the client, or will not when the leave message arrives.
Left(m) ==
  \/ requests[m] = <<>> /\ clients[m] = {}
  \/ requests[m] = <<"leave">> /\ (records[m] = {} => clients[m] = {})

\* The request d is on its way, after the leave message of the call before, or the
\* answer is.
Asks(m, d) ==
  \/ /\ replies[m] = <<>>
     /\ \/ requests[m] = <<d>> /\ clients[m] = {}
        \/ requests[m] = <<"leave", d>> /\ (records[m] = {} => clients[m] = {})
  \/ /\ requests[m] = <<>>
     /\ \/ /\ replies[m] = <<[accepted |-> TRUE, direction |-> d]>>
           /\ clients[m] = {d} /\ records[m] = {d}
        \/ replies[m] = <<[accepted |-> FALSE, direction |-> d]>> /\ clients[m] = {}

\* A server that is a proxy knows it, others do not, and what is under way agrees.
Agreed(m) ==
  IF m \in DOMAIN proxies
  THEN /\ m \in joined /\ requests[m] = <<>> /\ replies[m] = <<>>
       /\ clients[m] = {proxies[m]} /\ records[m] = {proxies[m]}
       /\ Ways(m) = {proxies[m]}
  ELSE /\ Ways(m) = {}
       /\ IF Asked(m) THEN m \in joined /\ Asks(m, definition.direction)
          ELSE replies[m] = <<>> /\ Left(m)

Tables ==
  /\ requests = [m \in Server |-> requests[m]] /\ replies = [m \in Server |-> replies[m]]
  /\ records = [m \in Server |-> records[m]] /\ clients = [m \in Server |-> clients[m]]
  /\ proxies = [m \in DOMAIN proxies |-> proxies[m]] /\ DOMAIN proxies \subseteq Server

Orderly == losses = 0 /\ ~abandoned

\* What an orderly state has, of which the steps below make use.
Good == immediates = {} /\ Tables /\ OneTask /\ GoodOps /\ \A m \in Server : Agreed(m)

AgreeInv == losses \in Nat /\ (Orderly => Good)

\* A server of which nothing changes.
Same(m) ==
  /\ m \in DOMAIN proxies' <=> m \in DOMAIN proxies
  /\ (m \in DOMAIN proxies => proxies'[m] = proxies[m]) /\ Ways(m)' = Ways(m)
  /\ requests'[m] = requests[m] /\ replies'[m] = replies[m]
  /\ clients'[m] = clients[m] /\ records'[m] = records[m]
  /\ m \in joined => m \in joined'

LEMMA AgreedFramed ==
  ASSUME NEW m \in Server, Agreed(m), Same(m), Asked(m)' <=> Asked(m),
         Asked(m) => definition'.direction = definition.direction
  PROVE  Agreed(m)'
<1>1. Left(m)' <=> Left(m)
  BY DEF Same, Left
<1>2. \A d : Asks(m, d)' <=> Asks(m, d)
  BY DEF Same, Asks
<1>3. CASE m \in DOMAIN proxies
  <2>1. Agreed(m)' <=> /\ m \in joined' /\ requests'[m] = <<>> /\ replies'[m] = <<>>
                       /\ clients'[m] = {proxies'[m]} /\ records'[m] = {proxies'[m]}
                       /\ Ways(m)' = {proxies'[m]}
    BY <1>3 DEF Agreed, Same
  <2> QED
    BY <1>3, <2>1 DEF Agreed, Same
<1>4. CASE m \notin DOMAIN proxies
  <2>1. CASE Asked(m)
    <3>1. m \in joined /\ Asks(m, definition.direction)
      BY <1>4, <2>1 DEF Agreed
    <3>2. Asks(m, definition.direction)'
      BY <1>2, <2>1, <3>1 DEF Asks
    <3> QED
      BY <1>4, <2>1, <3>2 DEF Agreed, Same
  <2>2. CASE ~Asked(m)
    BY <1>1, <1>4, <2>2 DEF Agreed, Same
  <2> QED
    BY <2>1, <2>2
<1> QED
  BY <1>3, <1>4


\* The operations are all of the task that runs; in its first phase there are none.
LEMMA OpsOfTask ==
  ASSUME Good, NEW k \in DOMAIN tasks, Active(k)
  PROVE  /\ \A o \in ops : o.task = k
         /\ tasks[k].phase = "user" \/ ~Busy(k) => ops = {}
<1>1. \A o \in ops : o.task \in DOMAIN tasks /\ Active(o.task)
  BY DEF Good, GoodOps, OneTask, Active, Op
<1>2. \A o \in ops : o.task = k
  BY <1>1 DEF Good, OneTask
<1>3. \A o \in ops : tasks[o.task].phase # "user"
  BY DEF Good, GoodOps
<1> QED
  BY <1>2, <1>3 DEF Busy

serverVars == <<proxies, oneway, requests, replies, clients, records, joined>>

LEMMA ServersUnchanged ==
  ASSUME Good, UNCHANGED serverVars, ops = {}, ops' \subseteq Op, \A o \in ops' : ~Asking(o)
  PROVE  Tables' /\ \A m \in Server : Agreed(m)'
<1>1. ASSUME NEW m \in Server
      PROVE  Agreed(m)'
  <2>1. Same(m)
    BY DEF serverVars, Same, Ways
  <2>2. ~Asked(m)
    BY DEF Asked
  <2>3. ~Asked(m)'
    BY DEF Asked, Asking
  <2> QED
    BY <2>1, <2>2, <2>3, AgreedFramed DEF Good
<1> QED
  BY <1>1 DEF Good, Tables, serverVars

\* A call begins when no other is under way.
LEMMA SetProxiesKeeps ==
  ASSUME Good, NEW k \in DOMAIN tasks, NEW d \in Definition, SetProxies(k, d)
  PROVE  Good'
<1>1. /\ \A l \in DOMAIN tasks : tasks[l].phase = "none" \/ tasks[l].retried
      /\ tasks' = [tasks EXCEPT ![k] = [phase |-> "user", retried |-> FALSE, arguments |-> d]]
      /\ behindProxy' = (behindProxy \/ d.nodes # {})
      /\ ops' = ops /\ immediates' = immediates /\ UNCHANGED serverVars
  BY DEF SetProxies, serverSide, network, serverVars
<1>2. \A l \in DOMAIN tasks : tasks[l].phase = "none"
  BY <1>1 DEF Good, OneTask
<1>3. ops = {}
  <2>1. \A o \in ops : o.task \in DOMAIN tasks /\ tasks[o.task].phase # "none"
    BY DEF Good, OneTask, GoodOps, Op
  <2> QED
    BY <1>2, <2>1
<1>4. DOMAIN tasks' = DOMAIN tasks /\ \A l \in DOMAIN tasks :
        tasks'[l] = IF l = k THEN [phase |-> "user", retried |-> FALSE, arguments |-> d] ELSE tasks[l]
  BY <1>1
<1>5. OneTask'
  <2>1. tasks' = [l \in 1 .. MaxTasks |-> tasks'[l]]
    BY <1>1 DEF Good, OneTask
  <2>2. \A l \in DOMAIN tasks' : Active(l)' => l = k
    BY <1>2, <1>4 DEF Active
  <2>3. \A l \in DOMAIN tasks' :
          /\ tasks'[l].phase \in {"none", "user"} /\ tasks'[l].retried = FALSE
          /\ tasks'[l].phase = "user" => tasks'[l].arguments = d
          /\ tasks'[l].phase # "user" => tasks'[l] = [phase |-> tasks'[l].phase, retried |-> FALSE]
    BY <1>2, <1>4 DEF Good, OneTask
  <2>4. d.nodes # {} => behindProxy'
    BY <1>1
  <2> QED
    BY <2>1, <2>2, <2>3, <2>4 DEF OneTask
<1>6. GoodOps'
  BY <1>1, <1>3 DEF GoodOps
<1> QED
  BY <1>1, <1>3, <1>5, <1>6, ServersUnchanged DEF Good

\* The task goes on to a phase in which the definition is set.
LEMMA TaskAdvances ==
  ASSUME Good, NEW k \in DOMAIN tasks, Active(k), NEW p \in {"none", "close", "balance"},
         tasks' = [tasks EXCEPT ![k] = [phase |-> p, retried |-> FALSE]],
         p # "none" => definition' \in Definition /\ (definition'.nodes # {} => behindProxy')
  PROVE  OneTask'
<1>1. DOMAIN tasks' = DOMAIN tasks /\ \A l \in DOMAIN tasks : tasks'[l] = IF l = k THEN [phase |-> p, retried |-> FALSE] ELSE tasks[l]
  OBVIOUS
<1>2. \A l \in DOMAIN tasks : l # k => tasks[l] = [phase |-> "none", retried |-> FALSE]
  BY DEF Good, OneTask, Active
<1>3. tasks' = [l \in 1 .. MaxTasks |-> tasks'[l]]
  BY DEF Good, OneTask
<1>4. \A l \in DOMAIN tasks' : Active(l)' => l = k
  BY <1>1, <1>2 DEF Active
<1>5. \A l \in DOMAIN tasks' :
        /\ tasks'[l].phase \in {"none", "close", "balance"} /\ tasks'[l].retried = FALSE
        /\ tasks'[l].phase # "none" => l = k /\ p # "none"
        /\ tasks'[l] = [phase |-> tasks'[l].phase, retried |-> FALSE]
  <2> SUFFICES ASSUME NEW l \in DOMAIN tasks'
               PROVE  /\ tasks'[l].phase \in {"none", "close", "balance"} /\ tasks'[l].retried = FALSE
                      /\ tasks'[l].phase # "none" => l = k /\ p # "none"
                      /\ tasks'[l] = [phase |-> tasks'[l].phase, retried |-> FALSE]
    OBVIOUS
  <2>1. CASE l = k
    BY <1>1, <2>1
  <2>2. CASE l # k
    BY <1>1, <1>2, <2>2
  <2> QED
    BY <2>1, <2>2
<1> QED
  BY <1>3, <1>4, <1>5 DEF OneTask

\* The operations that a task begins with: leave some of the proxies.
LEMMA LeaveOpsGood ==
  ASSUME NEW k \in 1 .. MaxTasks, NEW S \in SUBSET Server,
         ops' = {LeaveOp(k, m) : m \in S}, S \subseteq DOMAIN proxies',
         tasks'[k].phase \in {"close", "balance"}
  PROVE  GoodOps' /\ \A o \in ops' : ~Asking(o)
<1>1. \A m : /\ LeaveOp(k, m).kind = "leave" /\ LeaveOp(k, m).server = m
             /\ LeaveOp(k, m).task = k /\ ~Asking(LeaveOp(k, m)) /\ Leaving(LeaveOp(k, m))
  BY DEF LeaveOp, Asking, Leaving
<1>2. \A m \in Server : LeaveOp(k, m) \in Op
  BY DEF LeaveOp, Op
<1>3. ops' \subseteq Op
  BY <1>2
<1>4. \A o \in ops' : /\ Leaving(o) /\ o.server \in S /\ o.task = k /\ ~Asking(o)
                      /\ o = LeaveOp(k, o.server)
  BY <1>1
<1>5. \A o, u \in ops' : o.server = u.server => o = u
  BY <1>4
<1> QED
  BY <1>3, <1>4, <1>5 DEF GoodOps

\* The definition is set, and what does not fit it is left.
LEMMA DefinedKeeps ==
  ASSUME Good, NEW k \in DOMAIN tasks, Defined(k)
  PROVE  Good'
<1>1. /\ tasks[k].phase = "user" /\ definition' = tasks[k].arguments
      /\ tasks' = [tasks EXCEPT ![k] = [phase |-> "close", retried |-> FALSE]]
      /\ ops' = ops \cup {LeaveOp(k, m) : m \in {x \in Invalid(proxies, tasks[k].arguments) : Closable(x)}}
      /\ behindProxy' = behindProxy /\ immediates' = immediates /\ UNCHANGED serverVars
  BY DEF Defined, Updates, serverSide, network, serverVars
<1>2. ops = {} /\ Active(k)
  BY <1>1, OpsOfTask DEF Active
<1>3. OneTask'
  <2>1. definition' \in Definition /\ (definition'.nodes # {} => behindProxy')
    BY <1>1 DEF Good, OneTask
  <2> QED
    BY <1>1, <1>2, <2>1, TaskAdvances
<1>4. k \in 1 .. MaxTasks /\ tasks'[k].phase = "close"
  BY <1>1 DEF Good, OneTask
<1> DEFINE S == {x \in Invalid(proxies, tasks[k].arguments) : Closable(x)}
<1>5. S \subseteq DOMAIN proxies /\ DOMAIN proxies \subseteq Server /\ proxies' = proxies
  BY <1>1 DEF Invalid, Good, Tables, serverVars
<1>6. ops' = {LeaveOp(k, m) : m \in S}
  BY <1>1, <1>2
<1> HIDE DEF S
<1>7. GoodOps' /\ \A o \in ops' : ~Asking(o)
  BY <1>4, <1>5, <1>6, LeaveOpsGood
<1> QED
  BY <1>1, <1>2, <1>3, <1>7, ServersUnchanged DEF Good, GoodOps


\* The operations by which proxies are made.
LEMMA OpenOpsGood ==
  ASSUME NEW k \in 1 .. MaxTasks, NEW S \in SUBSET Server, definition' \in Definition,
         ops' = {OpenOp(k, m, definition'.direction) : m \in S},
         S \subseteq definition'.nodes \ DOMAIN proxies',
         tasks'[k].phase \in {"close", "balance"}
  PROVE  GoodOps' /\ \A o \in ops' : ~Asking(o)
<1>1. definition'.direction \in Direction
  BY ProxyAssumption DEF Direction
<1> DEFINE d == definition'.direction
<1> HIDE DEF d
<1>2. \A m : /\ OpenOp(k, m, d).kind = "open" /\ OpenOp(k, m, d).server = m
             /\ OpenOp(k, m, d).task = k /\ OpenOp(k, m, d).handshake = "waiting"
             /\ OpenOp(k, m, d).connects /\ OpenOp(k, m, d).direction = d
  BY DEF OpenOp
<1>3. \A m \in Server : OpenOp(k, m, d) \in Op
  BY <1>1 DEF OpenOp, Op, d
<1>4. ops' = {OpenOp(k, m, d) : m \in S}
  BY DEF d
<1>5. ops' \subseteq Op
  BY <1>3, <1>4
<1>6. \A o \in ops' : /\ o.kind = "open" /\ o.server \in S /\ o.task = k
                      /\ o.handshake = "waiting" /\ o.connects /\ o.direction = d
                      /\ o = OpenOp(k, o.server, d)
  BY <1>2, <1>4
<1>7. \A o, u \in ops' : o.server = u.server => o = u
  BY <1>6
<1>8. \A o \in ops' : Connecting(o) /\ ~Asking(o)
  BY <1>6 DEF Connecting, Asking
<1> QED
  BY <1>5, <1>6, <1>7, <1>8 DEF GoodOps, d

LEMMA PhaseChanged ==
  ASSUME NEW p, NEW q, NEW r, NEW u, u = [phase |-> p, retried |-> r]
  PROVE  [u EXCEPT !.phase = q] = [phase |-> q, retried |-> r]
OBVIOUS

\* Connections are opened or closed up to the count.
LEMMA BalanceKeeps ==
  ASSUME Good, NEW k \in DOMAIN tasks, Balance(k)
  PROVE  Good'
<1>1. /\ tasks[k].phase = "close" /\ ~Busy(k)
      /\ tasks' = [tasks EXCEPT ![k].phase = "balance"]
      /\ definition' = definition /\ behindProxy' = behindProxy /\ immediates' = immediates
      /\ UNCHANGED serverVars
  BY DEF Balance, serverSide, network, serverVars
<1>2. ops = {} /\ Active(k)
  BY <1>1, OpsOfTask DEF Active
<1>3. definition \in Definition /\ (definition.nodes # {} => behindProxy)
  BY <1>1 DEF Good, OneTask
<1>4. tasks' = [tasks EXCEPT ![k] = [phase |-> "balance", retried |-> FALSE]]
  <2>1. tasks[k] = [phase |-> "close", retried |-> FALSE]
    BY <1>1 DEF Good, OneTask
  <2>2. tasks' = [tasks EXCEPT ![k] = [tasks[k] EXCEPT !.phase = "balance"]]
    BY <1>1
  <2>3. [tasks[k] EXCEPT !.phase = "balance"] = [phase |-> "balance", retried |-> FALSE]
    <3> DEFINE r == tasks[k].retried
    <3>1. tasks[k] = [phase |-> "close", retried |-> r] /\ r = FALSE
      BY <2>1
    <3> HIDE DEF r
    <3>2. [tasks[k] EXCEPT !.phase = "balance"] = [phase |-> "balance", retried |-> r]
      BY <3>1, PhaseChanged
    <3> QED
      BY <3>1, <3>2
  <2> QED
    BY <2>2, <2>3
<1>5. OneTask'
  BY <1>1, <1>2, <1>3, <1>4, TaskAdvances
<1>6. k \in 1 .. MaxTasks /\ tasks'[k].phase = "balance"
  BY <1>4 DEF Good, OneTask
<1>7. definition.nodes \subseteq Server /\ DOMAIN proxies \subseteq Server /\ proxies' = proxies
  BY <1>1, <1>3, ProxyAssumption DEF Good, Tables, serverVars
<1>8. GoodOps' /\ \A o \in ops' : ~Asking(o)
  <2>1. ASSUME NEW S \in SUBSET (definition.nodes \ DOMAIN proxies),
               ops' = ops \cup {OpenOp(k, m, definition.direction) : m \in S}
        PROVE  GoodOps' /\ \A o \in ops' : ~Asking(o)
    <3>1. ops' = {OpenOp(k, m, definition'.direction) : m \in S}
      BY <1>1, <1>2, <2>1
    <3> QED
      BY <1>1, <1>3, <1>6, <1>7, <3>1, OpenOpsGood
  <2>2. ASSUME NEW S \in SUBSET DOMAIN proxies,
               ops' = ops \cup {LeaveOp(k, m) : m \in {x \in S : Closable(x)}}
        PROVE  GoodOps' /\ \A o \in ops' : ~Asking(o)
    <3> DEFINE R == {x \in S : Closable(x)}
    <3>1. R \subseteq S /\ ops' = {LeaveOp(k, m) : m \in R}
      BY <1>2, <2>2
    <3> HIDE DEF R
    <3> QED
      BY <1>6, <1>7, <3>1, LeaveOpsGood
  <2>3. CASE ops' = ops
    BY <1>2, <2>3 DEF GoodOps
  <2>4. \/ \E S \in SUBSET (definition.nodes \ DOMAIN proxies) :
             ops' = ops \cup {OpenOp(k, m, definition.direction) : m \in S}
        \/ \E S \in SUBSET DOMAIN proxies :
             ops' = ops \cup {LeaveOp(k, m) : m \in {x \in S : Closable(x)}}
        \/ ops' = ops
    BY DEF Balance
  <2> QED
    BY <2>1, <2>2, <2>3, <2>4
<1> QED
  BY <1>1, <1>2, <1>5, <1>8, ServersUnchanged DEF Good, GoodOps

\* A task ends with its operations.
LEMMA DoneKeeps ==
  ASSUME Good, NEW k \in DOMAIN tasks, Done(k)
  PROVE  Good'
<1>1. /\ tasks[k].phase = "balance" /\ ~Busy(k)
      /\ tasks' = [tasks EXCEPT ![k] = [phase |-> "none", retried |-> FALSE]]
      /\ ops' = ops /\ immediates' = immediates /\ UNCHANGED serverVars
  BY DEF Done, Unused, serverSide, network, serverVars
<1>2. ops = {} /\ Active(k)
  BY <1>1, OpsOfTask DEF Active
<1>3. OneTask'
  BY <1>1, <1>2, TaskAdvances
<1> QED
  BY <1>1, <1>2, <1>3, ServersUnchanged DEF Good, GoodOps


-----------------------------------------------------------------------------
(* The operations of the task, and the servers.                            *)

\* Operations that go on when no task fails.
LEMMA NoneFails ==
  ASSUME NEW S \in SUBSET Op
  PROVE  FailAll(S, {}) = {o \in S : Awaited(o)}
<1>1. \A o \in S : [o EXCEPT !.task = o.task] = o
  BY DEF Op
<1> QED
  BY <1>1 DEF FailAll

\* A proxy is left: what waits for the server's answer is not concerned.
LEMMA LeavesKeeps ==
  ASSUME Good, NEW o \in ops, Leaves(o)
  PROVE  Good'
<1>1. o.kind = "leave" /\ o.server \in DOMAIN proxies
  BY DEF Good, GoodOps, Leaves, Leaving, Connecting, Asking
<1> DEFINE m == o.server
<1>2. /\ m \in Server /\ m \in joined /\ requests[m] = <<>> /\ replies[m] = <<>>
      /\ clients[m] = {proxies[m]} /\ records[m] = {proxies[m]}
  BY <1>1 DEF Good, Tables, Agreed
<1>3. /\ requests' = [requests EXCEPT ![m] = Append(@, "leave")] /\ ops' = ops \ {o}
      /\ proxies' = Restricted(proxies, Server \ {m}) /\ oneway' = {x \in oneway : x[1] # m}
      /\ behindProxy' = (behindProxy /\ (definition.nodes # {} \/ proxies' # << >>))
      /\ UNCHANGED <<definition, tasks, immediates, records, clients, joined, replies>>
  BY <1>2 DEF Leaves, ConnectionRemoved, serverSide
<1>4. /\ DOMAIN proxies' = DOMAIN proxies \ {m}
      /\ \A n \in DOMAIN proxies' : proxies'[n] = proxies[n]
      /\ proxies' = [n \in DOMAIN proxies' |-> proxies'[n]]
  BY <1>3 DEF Restricted, Good, Tables
<1>5. requests' = [n \in Server |-> requests'[n]]
      /\ \A n \in Server : requests'[n] = IF n = m THEN <<"leave">> ELSE requests[n]
  BY <1>2, <1>3 DEF Good, Tables
<1>6. OneTask'
  <2>1. tasks[o.task].phase \in {"close", "balance"} /\ o.task \in DOMAIN tasks
    BY DEF Good, GoodOps, OneTask, Op
  <2>2. \A k \in DOMAIN tasks : tasks[k].phase # "user"
    BY <2>1 DEF Good, OneTask, Active
  <2> QED
    BY <1>3, <2>2 DEF Good, OneTask, Active
<1>7. \A u \in ops' : u \in ops /\ u.server # m
  BY <1>3 DEF Good, GoodOps
<1>8. GoodOps'
  <2>1. \A u \in ops' :
          /\ tasks'[u.task].phase \in {"close", "balance"}
          /\ \/ Leaving(u) /\ u.server \in DOMAIN proxies'
             \/ /\ Connecting(u) \/ Asking(u)
                /\ u.direction = definition'.direction
                /\ u.server \in definition'.nodes /\ u.server \notin DOMAIN proxies'
    BY <1>3, <1>4, <1>7 DEF Good, GoodOps
  <2> QED
    BY <1>7, <2>1 DEF Good, GoodOps, Leaving, Connecting, Asking
<1>9. ASSUME NEW n \in Server
      PROVE  Agreed(n)'
  <2>1. CASE n = m
    <3>1. Ways(n)' = {} /\ ~Asked(n)'
      BY <1>3, <1>7, <2>1 DEF Ways, Asked
    <3>2. Left(n)' /\ replies'[n] = <<>>
      BY <1>2, <1>3, <1>5, <2>1 DEF Left
    <3> QED
      BY <1>4, <2>1, <3>1, <3>2 DEF Agreed
  <2>2. CASE n # m
    <3>1. Ways(n)' = Ways(n)
      BY <1>3, <2>2 DEF Ways
    <3>2. proxies'[n] = proxies[n] \/ n \notin DOMAIN proxies
      BY <1>4, <2>2
    <3>3. Asked(n)' <=> Asked(n)
      BY <1>3, <2>2 DEF Asked, Asking
    <3> QED
      BY <1>3, <1>4, <1>5, <2>2, <3>1, <3>2, <3>3, AgreedFramed DEF Same, Good
  <2> QED
    BY <2>1, <2>2
<1>10. Tables'
  BY <1>3, <1>4, <1>5 DEF Good, Tables
<1> QED
  BY <1>3, <1>6, <1>8, <1>9, <1>10 DEF Good

\* What a good operation waits for, by its kind.
LEMMA KindsOfOps ==
  ASSUME GoodOps, NEW o \in ops
  PROVE  /\ o \in Op /\ Awaited(o)
         /\ o.connects => Connecting(o)
         /\ o.handshake = "waiting" /\ ~o.connects => Asking(o)
         /\ o.kind = "open" => /\ o.direction = definition.direction
                               /\ o.server \in definition.nodes /\ o.server \notin DOMAIN proxies
                               /\ o.handshake = "waiting"
<1>1. o \in Op /\ \/ Leaving(o) /\ o.server \in DOMAIN proxies
                  \/ /\ Connecting(o) \/ Asking(o)
                     /\ o.direction = definition.direction
                     /\ o.server \in definition.nodes /\ o.server \notin DOMAIN proxies
  BY DEF GoodOps
<1>2. o.connects => Connecting(o)
  BY <1>1 DEF Leaving, Asking, Connecting, Op
<1> QED
  BY <1>1, <1>2 DEF Leaving, Connecting, Asking, Awaited, Op

LEMMA SecondRequest ==
  ASSUME NEW x, NEW y
  PROVE  Append(<<x>>, y) = <<x, y>>
<1> DEFINE S == {x, y}
           q == Append(<<x>>, y)
<1>1. <<x>> \in Seq(S) /\ Len(<<x>>) = 1 /\ <<x>>[1] = x /\ y \in S
  OBVIOUS
<1>2. q \in Seq(S) /\ Len(q) = 2 /\ q[1] = x /\ q[2] = y
  BY <1>1, AppendProperties
<1>3. <<x, y>> \in Seq(S) /\ Len(<<x, y>>) = 2 /\ <<x, y>>[1] = x /\ <<x, y>>[2] = y
  OBVIOUS
<1> HIDE DEF q
<1>4. \A n \in 1 .. 2 : q[n] = <<x, y>>[n]
  BY <1>2, <1>3
<1>5. q = <<x, y>>
  BY <1>2, <1>3, <1>4, SeqEqual
<1> QED
  BY <1>5 DEF q

\* A server is asked to accept the client.
LEMMA RequestsKeeps ==
  ASSUME Good, NEW o \in ops, Requests(o)
  PROVE  Good'
<1> DEFINE m == o.server
           d == o.direction
           v == [o EXCEPT !.connects = FALSE]
<1>1. o \in Op /\ m \in Server /\ Connecting(o) /\ d = definition.direction
      /\ m \in definition.nodes /\ m \notin DOMAIN proxies
  BY KindsOfOps DEF Requests, Connecting, Op, Good
<1>2. /\ v \in Op /\ Asking(v) /\ v.server = m /\ v.direction = d /\ v.task = o.task
      /\ v.kind = "open"
  BY <1>1 DEF Op, Connecting, Asking
<1>3. /\ joined' = joined \cup {m} /\ requests' = [requests EXCEPT ![m] = Append(@, d)]
      /\ ops' = FailAll((ops \ {o}) \cup {v}, {})
      /\ UNCHANGED <<definition, behindProxy, proxies, oneway, tasks, immediates, records,
                     clients, replies>>
  BY DEF Requests, serverSide
<1> HIDE DEF v
<1>4. ops' = (ops \ {o}) \cup {v}
  <2>1. (ops \ {o}) \cup {v} \in SUBSET Op
    BY <1>2 DEF Good, GoodOps
  <2>2. \A u \in (ops \ {o}) \cup {v} : Awaited(u)
    BY <1>2, KindsOfOps DEF Good, Awaited, Asking
  <2> QED
    BY <1>3, <2>1, <2>2, NoneFails
<1>5. \A u \in ops : u # o => u.server # m
  BY DEF Good, GoodOps
<1>6. ~Asked(m)
  BY <1>1, <1>5 DEF Asked, Asking, Connecting
<1>7. /\ replies[m] = <<>> /\ Left(m) /\ Ways(m) = {}
  BY <1>1, <1>6 DEF Good, Agreed
<1>8. requests' = [n \in Server |-> requests'[n]]
      /\ \A n \in Server : n # m => requests'[n] = requests[n]
  BY <1>3 DEF Good, Tables
<1>9. Asks(m, d)'
  <2>1. requests'[m] = Append(requests[m], d)
    BY <1>1, <1>3 DEF Good, Tables
  <2>2. requests[m] = <<>> => requests'[m] = <<d>>
    BY <2>1
  <2>3. requests[m] = <<"leave">> => requests'[m] = <<"leave", d>>
    BY <2>1, SecondRequest
  <2> QED
    BY <1>3, <1>7, <2>2, <2>3 DEF Asks, Left
<1>10. GoodOps'
  <2>1. \A u \in ops' : u # v => u \in ops /\ u.server # m
    BY <1>4, <1>5
  <2>2. \A u \in ops' :
          /\ u \in Op /\ tasks'[u.task].phase \in {"close", "balance"}
          /\ \/ Leaving(u) /\ u.server \in DOMAIN proxies'
             \/ /\ Connecting(u) \/ Asking(u)
                /\ u.direction = definition'.direction
                /\ u.server \in definition'.nodes /\ u.server \notin DOMAIN proxies'
    <3> SUFFICES ASSUME NEW u \in ops'
                 PROVE  /\ u \in Op /\ tasks'[u.task].phase \in {"close", "balance"}
                        /\ \/ Leaving(u) /\ u.server \in DOMAIN proxies'
                           \/ /\ Connecting(u) \/ Asking(u)
                              /\ u.direction = definition'.direction
                              /\ u.server \in definition'.nodes /\ u.server \notin DOMAIN proxies'
      OBVIOUS
    <3>1. CASE u = v
      BY <1>1, <1>2, <1>3, <3>1 DEF Good, GoodOps
    <3>2. CASE u # v
      BY <1>3, <2>1, <3>2 DEF Good, GoodOps
    <3> QED
      BY <3>1, <3>2
  <2>3. \A u, w \in ops' : u.server = w.server => u = w
    BY <1>2, <2>1 DEF Good, GoodOps
  <2> QED
    BY <2>2, <2>3 DEF GoodOps, Leaving, Connecting, Asking
<1>11. ASSUME NEW n \in Server
       PROVE  Agreed(n)'
  <2>1. CASE n = m
    <3>1. Asked(m)'
      BY <1>2, <1>4 DEF Asked, Asking
    <3> QED
      BY <1>1, <1>3, <1>7, <1>9, <2>1, <3>1 DEF Agreed, Ways
  <2>2. CASE n # m
    <3>1. Asked(n)' <=> Asked(n)
      BY <1>1, <1>2, <1>4, <2>2 DEF Asked, Asking
    <3>2. Same(n)
      BY <1>3, <1>8, <2>2 DEF Same, Ways
    <3> QED
      BY <1>3, <3>1, <3>2, AgreedFramed DEF Good
  <2> QED
    BY <2>1, <2>2
<1>12. OneTask' /\ Tables' /\ immediates' = {}
  BY <1>3, <1>8 DEF Good, OneTask, Tables, Active
<1> QED
  BY <1>10, <1>11, <1>12 DEF Good

\* An answer is awaited only while it is on its way, or the request is.
LEMMA NoTimeout ==
  ASSUME Good, NEW o \in ops
  PROVE  ~HandshakeTimeout(o)
<1> SUFFICES ASSUME HandshakeTimeout(o) PROVE FALSE
  OBVIOUS
<1>1. Asking(o) /\ o.server \in Server /\ o.server \notin DOMAIN proxies
  BY KindsOfOps DEF HandshakeTimeout, Good, Asking, Op
<1>2. Asks(o.server, definition.direction)
  BY <1>1 DEF Asked, Good, Agreed
<1>3. requests[o.server] = <<>> /\ replies[o.server] = <<>>
  BY DEF HandshakeTimeout
<1> QED
  BY <1>2, <1>3 DEF Asks

\* A message is taken from a queue.
LEMMA MessageTaken ==
  ASSUME NEW x, NEW y
  PROVE  /\ Head(<<x>>) = x /\ Tail(<<x>>) = <<>>
         /\ Head(<<x, y>>) = x /\ Tail(<<x, y>>) = <<y>> /\ Append(<<>>, x) = <<x>>
OBVIOUS

\* What is on its way to a server and from it.
LEMMA OnItsWay ==
  ASSUME Good, NEW n \in Server, requests[n] # <<>> \/ replies[n] # <<>>
  PROVE  /\ n \notin DOMAIN proxies /\ Ways(n) = {}
         /\ IF Asked(n) THEN n \in joined /\ Asks(n, definition.direction)
            ELSE replies[n] = <<>> /\ Left(n)
BY DEF Good, Agreed

\* The operation that asks a server.
LEMMA AskingOp ==
  ASSUME Good, NEW o \in ops, Asking(o)
  PROVE  /\ o \in Op /\ o.task \in DOMAIN tasks /\ Active(o.task) /\ definition.direction \in Direction
         /\ o.direction = definition.direction /\ o.server \in definition.nodes
         /\ behindProxy
<1>1. o \in Op /\ o.direction = definition.direction /\ o.server \in definition.nodes
  BY KindsOfOps DEF Good, Asking
<1>2. o.task \in DOMAIN tasks /\ tasks[o.task].phase \in {"close", "balance"}
  BY <1>1 DEF Good, GoodOps, OneTask, Op
<1>3. definition \in Definition /\ behindProxy
  BY <1>1, <1>2 DEF Good, OneTask
<1>4. definition.direction \in Direction
  BY <1>3, ProxyAssumption DEF Direction
<1> QED
  BY <1>1, <1>2, <1>3, <1>4 DEF Active

\* The direction that is asked for, while something is asked.
LEMMA AskedDirection ==
  ASSUME Good, NEW n \in Server, Asked(n)
  PROVE  definition.direction \in Direction /\ definition.direction # "leave"
BY AskingOp DEF Asked, Direction

\* The task and its operations stay as they are.
LEMMA TaskUnchanged ==
  ASSUME Good, UNCHANGED <<definition, behindProxy, proxies, tasks, ops>>
  PROVE  OneTask' /\ GoodOps'
<1>1. OneTask'
  BY DEF Good, OneTask, Active
<1>2. GoodOps'
  BY DEF Good, GoodOps, Leaving, Connecting, Asking
<1> QED
  BY <1>1, <1>2

\* A server accepts the client, if it has the stream part.
LEMMA RequestKeeps ==
  ASSUME Good, NEW n \in Server, Request(n)
  PROVE  Good'
<1> DEFINE d == definition.direction
<1>1. requests[n] # <<>> /\ Head(requests[n]) # "leave"
  BY DEF Request
<1>2. /\ n \notin DOMAIN proxies /\ Ways(n) = {}
      /\ IF Asked(n) THEN n \in joined /\ Asks(n, d) ELSE replies[n] = <<>> /\ Left(n)
  BY <1>1, OnItsWay
<1>3. Asked(n)
  BY <1>1, <1>2, MessageTaken DEF Left
<1>4. requests[n] = <<d>> /\ clients[n] = {} /\ replies[n] = <<>>
  BY <1>1, <1>2, <1>3, MessageTaken DEF Asks
<1>5. /\ requests' = [requests EXCEPT ![n] = Tail(requests[n])]
      /\ replies' = [replies EXCEPT ![n] = Append(replies[n], [accepted |-> n \in serving,
                                                               direction |-> Head(requests[n])])]
      /\ IF n \in serving
         THEN /\ records' = [records EXCEPT ![n] = {Head(requests[n])}]
              /\ clients' = [clients EXCEPT ![n] = clients[n] \cup {Head(requests[n])}]
         ELSE UNCHANGED <<records, clients>>
      /\ UNCHANGED <<definition, behindProxy, proxies, oneway, tasks, ops, immediates, joined>>
  BY DEF Request, Answer, clientSide
<1>6. Head(requests[n]) = d /\ requests'[n] = <<>>
      /\ replies'[n] = <<[accepted |-> n \in serving, direction |-> d]>>
  BY <1>4, <1>5, MessageTaken DEF Good, Tables
<1>7. n \in serving => clients'[n] = {d} /\ records'[n] = {d}
  BY <1>4, <1>5, <1>6 DEF Good, Tables
<1>8. n \notin serving => clients'[n] = {}
  BY <1>4, <1>5
<1>9. Asks(n, d)'
  <2>1. CASE n \in serving
    <3>1. (n \in serving) = TRUE
      BY <2>1
    <3>2. replies'[n] = <<[accepted |-> TRUE, direction |-> d]>>
      BY <1>6, <3>1
    <3> QED
      BY <1>5, <1>6, <1>7, <2>1, <3>2 DEF Asks
  <2>2. CASE n \notin serving
    <3>1. (n \in serving) = FALSE
      BY <2>2
    <3>2. replies'[n] = <<[accepted |-> FALSE, direction |-> d]>>
      BY <1>6, <3>1
    <3> QED
      BY <1>5, <1>6, <1>8, <2>2, <3>2 DEF Asks
  <2> QED
    BY <2>1, <2>2
<1>10. /\ requests' = [l \in Server |-> requests'[l]] /\ replies' = [l \in Server |-> replies'[l]]
       /\ records' = [l \in Server |-> records'[l]] /\ clients' = [l \in Server |-> clients'[l]]
  BY <1>5 DEF Good, Tables
<1>11. \A l \in Server : l # n => /\ requests'[l] = requests[l] /\ replies'[l] = replies[l]
                                  /\ records'[l] = records[l] /\ clients'[l] = clients[l]
  BY <1>5 DEF Good, Tables
<1>12. ASSUME NEW l \in Server
       PROVE  Agreed(l)'
  <2>1. Asked(l)' <=> Asked(l)
    BY <1>5 DEF Asked, Asking
  <2>2. CASE l = n
    BY <1>2, <1>3, <1>5, <1>9, <2>1, <2>2 DEF Agreed, Ways
  <2>3. CASE l # n
    <3>1. Same(l)
      BY <1>5, <1>11, <2>3 DEF Same, Ways
    <3> QED
      BY <1>5, <2>1, <3>1, AgreedFramed DEF Good
  <2> QED
    BY <2>2, <2>3
<1>13. OneTask' /\ GoodOps'
  BY <1>5, TaskUnchanged
<1>14. Tables'
  BY <1>5, <1>10 DEF Good, Tables
<1> QED
  BY <1>5, <1>12, <1>13, <1>14 DEF Good

\* A server forgets the client that leaves.
LEMMA LeaveRequestKeeps ==
  ASSUME Good, NEW n \in Server, LeaveRequest(n)
  PROVE  Good'
<1> DEFINE d == definition.direction
<1>1. requests[n] # <<>> /\ Head(requests[n]) = "leave"
  BY DEF LeaveRequest
<1>2. /\ n \notin DOMAIN proxies /\ Ways(n) = {}
      /\ IF Asked(n) THEN n \in joined /\ Asks(n, d) ELSE replies[n] = <<>> /\ Left(n)
  BY <1>1, OnItsWay
<1>3. /\ requests' = [requests EXCEPT ![n] = Tail(requests[n])]
      /\ records' = [records EXCEPT ![n] = {}]
      /\ clients' = IF records[n] # {} THEN [clients EXCEPT ![n] = {}] ELSE clients
      /\ UNCHANGED <<definition, behindProxy, proxies, oneway, tasks, ops, immediates, joined,
                     replies>>
  BY DEF LeaveRequest, clientSide
<1>4. requests'[n] = Tail(requests[n])
      /\ ((records[n] = {} => clients[n] = {}) => clients'[n] = {})
  BY <1>3 DEF Good, Tables
<1>5. Asked(n) => Asks(n, d)'
  <2> SUFFICES ASSUME Asked(n) PROVE Asks(n, d)'
    OBVIOUS
  <2>1. d # "leave"
    BY AskedDirection
  <2>2. requests[n] = <<"leave", d>> /\ (records[n] = {} => clients[n] = {}) /\ replies[n] = <<>>
    BY <1>1, <1>2, <2>1, MessageTaken DEF Asks
  <2> QED
    BY <1>3, <1>4, <2>2, MessageTaken DEF Asks
<1>6. ~Asked(n) => Left(n)'
  BY <1>1, <1>2, <1>4, MessageTaken DEF Left
<1>7. /\ requests' = [l \in Server |-> requests'[l]]
      /\ records' = [l \in Server |-> records'[l]] /\ clients' = [l \in Server |-> clients'[l]]
  BY <1>3 DEF Good, Tables
<1>8. \A l \in Server : l # n => /\ requests'[l] = requests[l]
                                 /\ records'[l] = records[l] /\ clients'[l] = clients[l]
  BY <1>3 DEF Good, Tables
<1>9. ASSUME NEW l \in Server
      PROVE  Agreed(l)'
  <2>1. Asked(l)' <=> Asked(l)
    BY <1>3 DEF Asked, Asking
  <2>2. CASE l = n
    BY <1>2, <1>3, <1>5, <1>6, <2>1, <2>2 DEF Agreed, Ways
  <2>3. CASE l # n
    <3>1. Same(l)
      BY <1>3, <1>8, <2>3 DEF Same, Ways
    <3> QED
      BY <1>3, <2>1, <3>1, AgreedFramed DEF Good
  <2> QED
    BY <2>2, <2>3
<1>10. OneTask' /\ GoodOps'
  BY <1>3, TaskUnchanged
<1>11. Tables'
  BY <1>3, <1>7 DEF Good, Tables
<1> QED
  BY <1>3, <1>9, <1>10, <1>11 DEF Good

\* A server gets the stream part.
LEMMA ServesKeeps ==
  ASSUME Good, NEW n \in Server, Serves(n)
  PROVE  Good'
<1>1. UNCHANGED <<definition, behindProxy, proxies, oneway, tasks, ops, immediates, records,
                  clients, joined, requests, replies>>
  BY DEF Serves, clientSide, network
<1>2. ASSUME NEW l \in Server
      PROVE  Agreed(l)'
  <2>1. Same(l) /\ (Asked(l)' <=> Asked(l))
    BY <1>1 DEF Same, Ways, Asked, Asking
  <2> QED
    BY <1>1, <2>1, AgreedFramed DEF Good
<1>3. OneTask' /\ GoodOps'
  BY <1>1, TaskUnchanged
<1>4. Tables'
  BY <1>1 DEF Good, Tables
<1> QED
  BY <1>1, <1>2, <1>3, <1>4 DEF Good

\* The operation that a response answers.
LEMMA Answered ==
  ASSUME Good, NEW n \in Server, replies[n] # <<>>
  PROVE  /\ n \notin DOMAIN proxies /\ Ways(n) = {} /\ n \in joined /\ requests[n] = <<>>
         /\ \E o \in ops : /\ Asking(o) /\ o.server = n
                           /\ \A u \in ops : WaitsFor(u, n, definition.direction) <=> u = o
         /\ \/ /\ replies[n] = <<[accepted |-> TRUE, direction |-> definition.direction]>>
               /\ clients[n] = {definition.direction} /\ records[n] = {definition.direction}
            \/ /\ replies[n] = <<[accepted |-> FALSE, direction |-> definition.direction]>>
               /\ clients[n] = {}
<1>1. /\ n \notin DOMAIN proxies /\ Ways(n) = {}
      /\ IF Asked(n) THEN n \in joined /\ Asks(n, definition.direction)
         ELSE replies[n] = <<>> /\ Left(n)
  BY OnItsWay
<1>2. Asked(n)
  BY <1>1
<1>3. PICK o \in ops : Asking(o) /\ o.server = n
  BY <1>2 DEF Asked
<1>4. \A u \in ops : WaitsFor(u, n, definition.direction) <=> u = o
  <2>1. o.direction = definition.direction
    BY <1>3, AskingOp
  <2>2. WaitsFor(o, n, definition.direction)
    BY <1>3, <2>1 DEF WaitsFor, Asking
  <2>3. \A u \in ops : u.server = n => u = o
    BY <1>3 DEF Good, GoodOps
  <2> QED
    BY <2>2, <2>3 DEF WaitsFor
<1>5. Asks(n, definition.direction)
  BY <1>1, <1>2
<1> QED
  BY <1>1, <1>2, <1>3, <1>4, <1>5 DEF Asks

\* The server has accepted the client, which is still behind the proxy.
LEMMA AcceptedKeeps ==
  ASSUME Good, NEW n \in Server, Response(n), Head(replies[n]).accepted
  PROVE  Good'
<1> DEFINE d == definition.direction
<1>1. replies[n] # <<>>
  BY DEF Response
<1>2. /\ n \notin DOMAIN proxies /\ Ways(n) = {} /\ n \in joined /\ requests[n] = <<>>
      /\ \/ /\ replies[n] = <<[accepted |-> TRUE, direction |-> d]>>
            /\ clients[n] = {d} /\ records[n] = {d}
         \/ replies[n] = <<[accepted |-> FALSE, direction |-> d]>>
  BY <1>1, Answered
<1>3. PICK o \in ops : /\ Asking(o) /\ o.server = n
                       /\ \A u \in ops : WaitsFor(u, n, d) <=> u = o
  BY <1>1, Answered
<1>4. /\ replies[n] = <<[accepted |-> TRUE, direction |-> d]>>
      /\ clients[n] = {d} /\ records[n] = {d}
  BY <1>2, MessageTaken
<1>5. Head(replies[n]).direction = d /\ Tail(replies[n]) = <<>>
  BY <1>4, MessageTaken
<1>6. /\ o \in Op /\ o.task \in DOMAIN tasks /\ d \in Direction /\ behindProxy
  BY <1>3, AskingOp
<1> DEFINE answered(u) == IF WaitsFor(u, n, d) THEN [u EXCEPT !.handshake = "accepted"] ELSE u
<1>7. /\ replies' = [replies EXCEPT ![n] = <<>>]
      /\ proxies' = Directed(proxies, n, d) /\ oneway' = oneway \cup {<<n, d>>}
      /\ ops' = FailAll({answered(u) : u \in ops}, {})
      /\ UNCHANGED <<definition, behindProxy, tasks, immediates, records, clients, joined, requests>>
  BY <1>5, <1>6 DEF Response, serverSide
<1> DEFINE w == [o EXCEPT !.handshake = "accepted"]
<1>8. w \in Op /\ ~Awaited(w)
  BY <1>3, <1>6 DEF Op, Asking, Awaited
<1>9. {answered(u) : u \in ops} = (ops \ {o}) \cup {w}
  BY <1>3
<1> HIDE DEF answered, w
<1>10. ops' = ops \ {o}
  <2>1. (ops \ {o}) \cup {w} \in SUBSET Op
    BY <1>8 DEF Good, GoodOps
  <2>2. \A u \in ops : Awaited(u)
    BY KindsOfOps DEF Good
  <2>3. ops' = {u \in (ops \ {o}) \cup {w} : Awaited(u)}
    BY <1>7, <1>9, <2>1, NoneFails
  <2>4. w # o
    BY <1>8, <2>2
  <2>5. w \notin ops
    BY <1>8, <2>2
  <2> QED
    BY <1>8, <2>2, <2>3, <2>5
<1>11. \A u \in ops' : u \in ops /\ u.server # n
  BY <1>3, <1>10 DEF Good, GoodOps
<1>12. /\ DOMAIN proxies' = DOMAIN proxies \cup {n} /\ proxies'[n] = d
       /\ \A l \in DOMAIN proxies : proxies'[l] = proxies[l]
       /\ proxies' = [l \in DOMAIN proxies' |-> proxies'[l]]
  BY <1>2, <1>7 DEF Directed
<1>13. OneTask'
  BY <1>7 DEF Good, OneTask, Active
<1>14. GoodOps'
  <2>1. \A u \in ops' :
          /\ tasks'[u.task].phase \in {"close", "balance"}
          /\ \/ Leaving(u) /\ u.server \in DOMAIN proxies'
             \/ /\ Connecting(u) \/ Asking(u)
                /\ u.direction = definition'.direction
                /\ u.server \in definition'.nodes /\ u.server \notin DOMAIN proxies'
    BY <1>7, <1>11, <1>12 DEF Good, GoodOps
  <2> QED
    BY <1>11, <2>1 DEF Good, GoodOps, Leaving, Connecting, Asking
<1>15. replies' = [l \in Server |-> replies'[l]]
       /\ \A l \in Server : replies'[l] = IF l = n THEN <<>> ELSE replies[l]
  BY <1>7 DEF Good, Tables
<1>16. ASSUME NEW l \in Server
       PROVE  Agreed(l)'
  <2>1. CASE l = n
    <3>1. Ways(l)' = {d}
      BY <1>2, <1>6, <1>7, <2>1 DEF Ways
    <3> QED
      BY <1>2, <1>4, <1>7, <1>12, <1>15, <2>1, <3>1 DEF Agreed
  <2>2. CASE l # n
    <3>1. Ways(l)' = Ways(l)
      BY <1>7, <2>2 DEF Ways
    <3>2. Asked(l)' <=> Asked(l)
      BY <1>3, <1>10, <2>2 DEF Asked, Asking
    <3>3. Same(l)
      BY <1>7, <1>12, <1>15, <2>2, <3>1 DEF Same
    <3> QED
      BY <1>7, <3>2, <3>3, AgreedFramed DEF Good
  <2> QED
    BY <2>1, <2>2
<1>17. Tables'
  BY <1>7, <1>12, <1>15 DEF Good, Tables
<1> QED
  BY <1>7, <1>13, <1>14, <1>16, <1>17 DEF Good

\* The server has not the stream part: the call fails, and its task ends with it if
\* nothing else goes on.
LEMMA RejectedKeeps ==
  ASSUME Good, NEW n \in Server, Response(n), ~Head(replies[n]).accepted, ~abandoned'
  PROVE  Good'
<1> DEFINE d == definition.direction
<1>1. replies[n] # <<>>
  BY DEF Response
<1>2. /\ n \notin DOMAIN proxies /\ Ways(n) = {} /\ n \in joined /\ requests[n] = <<>>
      /\ \/ replies[n] = <<[accepted |-> TRUE, direction |-> d]>>
         \/ /\ replies[n] = <<[accepted |-> FALSE, direction |-> d]>>
            /\ clients[n] = {}
  BY <1>1, Answered
<1>3. PICK o \in ops : /\ Asking(o) /\ o.server = n
                       /\ \A u \in ops : WaitsFor(u, n, d) <=> u = o
  BY <1>1, Answered
<1>4. replies[n] = <<[accepted |-> FALSE, direction |-> d]>> /\ clients[n] = {}
  BY <1>2, MessageTaken
<1>5. Head(replies[n]).direction = d /\ Tail(replies[n]) = <<>>
  BY <1>4, MessageTaken
<1>6. o \in Op /\ o.task \in DOMAIN tasks /\ Active(o.task)
  BY <1>3, AskingOp
<1>7. replies' = [replies EXCEPT ![n] = <<>>] /\ HandshakeRejected(ops, n, d)
      /\ UNCHANGED <<definition, behindProxy, proxies, oneway, immediates, records, clients, joined,
                     requests>>
  BY <1>5 DEF Response, serverSide
<1> DEFINE k == o.task
           answered(u) == IF WaitsFor(u, n, d) THEN [u EXCEPT !.handshake = "failed"] ELSE u
           set == {answered(u) : u \in ops}
<1>8. k # 0
  BY <1>6 DEF Op
<1>9. {u.task : u \in {x \in ops : WaitsFor(x, n, d)}} \ {0} = {k}
  BY <1>3, <1>8
<1>10. /\ ops' = FailAll(set, {k}) /\ tasks' = AfterFailure({k})
       /\ \A u \in set : ~(Awaited(u) /\ u.task \in {k})
  BY <1>7, <1>9 DEF HandshakeRejected, Fail
<1>11. \A u \in ops : u.task = k
  BY <1>6, OpsOfTask
<1>12. \A u \in set : u.task = k
  BY <1>11 DEF GoodOps, Good, Op
<1>13. ops' = {}
  BY <1>10, <1>12 DEF FailAll
<1>14. ASSUME NEW u \in ops
       PROVE  u = o
  <2> SUFFICES ASSUME u # o PROVE FALSE
    OBVIOUS
  <2>1. answered(u) = u /\ answered(u) \in set
    BY <1>3
  <2>2. Awaited(u)
    BY KindsOfOps DEF Good
  <2> QED
    BY <1>10, <1>12, <2>1, <2>2
<1> HIDE DEF set, answered
<1>15. tasks' = [tasks EXCEPT ![k] = [phase |-> "none", retried |-> FALSE]]
  <2>1. ~tasks[k].retried
    BY <1>6 DEF Good, OneTask
  <2>2. tasks' = [l \in DOMAIN tasks |-> IF l = k THEN Unused ELSE tasks[l]]
    BY <1>10, <2>1 DEF AfterFailure
  <2> QED
    BY <2>2 DEF Unused
<1>16. OneTask'
  BY <1>6, <1>15, TaskAdvances
<1>17. GoodOps'
  BY <1>13 DEF GoodOps
<1>18. replies' = [l \in Server |-> replies'[l]]
       /\ \A l \in Server : replies'[l] = IF l = n THEN <<>> ELSE replies[l]
  BY <1>7 DEF Good, Tables
<1>19. ASSUME NEW l \in Server
       PROVE  Agreed(l)'
  <2>1. ~Asked(l)'
    BY <1>13 DEF Asked
  <2>2. CASE l = n
    <3>1. Left(l)' /\ Ways(l)' = {}
      BY <1>2, <1>4, <1>7, <2>2 DEF Left, Ways
    <3> QED
      BY <1>2, <1>7, <1>18, <2>1, <2>2, <3>1 DEF Agreed
  <2>3. CASE l # n
    <3>1. Same(l)
      BY <1>7, <1>18, <2>3 DEF Same, Ways
    <3>2. ~Asked(l)
      BY <1>3, <1>14, <2>3 DEF Asked
    <3> QED
      BY <2>1, <3>1, <3>2, AgreedFramed DEF Good
  <2> QED
    BY <2>2, <2>3
<1>20. Tables'
  BY <1>7, <1>18 DEF Good, Tables
<1> QED
  BY <1>7, <1>16, <1>17, <1>19, <1>20 DEF Good

-----------------------------------------------------------------------------
(* The whole machine.                                                      *)

LEMMA NothingHappens ==
  ASSUME Good, UNCHANGED proxyVars
  PROVE  Good'
<1>1. OneTask' /\ GoodOps'
  BY TaskUnchanged DEF proxyVars
<1>2. Tables' /\ immediates' = {}
  BY DEF proxyVars, Good, Tables
<1>3. ASSUME NEW l \in Server
      PROVE  Agreed(l)'
  <2>1. Same(l) /\ (Asked(l)' <=> Asked(l)) /\ definition' = definition
    BY DEF proxyVars, Same, Ways, Asked, Asking
  <2> QED
    BY <2>1, AgreedFramed DEF Good
<1> QED
  BY <1>1, <1>2, <1>3 DEF Good

LEMMA FailureRemains ==
  ASSUME NEW S, NEW T, Fail(S, T)
  PROVE  ~abandoned' => ~abandoned
BY DEF Fail

\* Whether losses and failed calls are counted.
LEMMA DisorderLasts ==
  ASSUME losses \in Nat, [ProxyNext]_proxyVars
  PROVE  losses' \in Nat /\ (losses' = 0 => losses' = losses) /\ (~abandoned' => ~abandoned)
<1>1. CASE UNCHANGED proxyVars
  BY <1>1 DEF proxyVars
<1>2. ASSUME NEW k \in DOMAIN tasks, (\E d \in Definition : SetProxies(k, d)) \/ TaskStep(k)
      PROVE  losses' = losses /\ abandoned' = abandoned
  BY <1>2 DEF SetProxies, TaskStep, Defined, Balance, Done, RetryDelay, history
<1>3. ASSUME NEW o \in ops, OpStep(o)
      PROVE  losses' = losses /\ (~abandoned' => ~abandoned)
  BY <1>3, FailureRemains DEF OpStep, Leaves, Requests, HandshakeTimeout, history
<1>4. ASSUME NEW o \in ops, AttemptFails(o)
      PROVE  losses' = losses + 1 /\ (~abandoned' => ~abandoned)
  BY <1>4, FailureRemains DEF AttemptFails, HandshakeRejected
<1>5. ASSUME NEW n \in Server, MessageStep(n)
      PROVE  losses' = losses /\ (~abandoned' => ~abandoned)
  <2>1. CASE Response(n)
    <3>1. losses' = losses
      BY <2>1 DEF Response
    <3>2. abandoned' = abandoned \/ \E d : HandshakeRejected(ops, n, d)
      BY <2>1 DEF Response
    <3>3. ASSUME NEW d, HandshakeRejected(ops, n, d)
          PROVE  ~abandoned' => ~abandoned
      BY <3>3, FailureRemains DEF HandshakeRejected
    <3> QED
      BY <3>1, <3>2, <3>3
  <2>2. CASE Request(n)
    BY <2>2 DEF Request, history
  <2>3. CASE LeaveRequest(n)
    BY <2>3 DEF LeaveRequest, history
  <2>4. CASE Disconnected(n)
    BY <2>4 DEF Disconnected, history
  <2> QED
    BY <1>5, <2>1, <2>2, <2>3, <2>4 DEF MessageStep
<1>6. ASSUME NEW n \in Server, ConnectionLost(n)
      PROVE  losses' = losses + 1 /\ abandoned' = abandoned
  BY <1>6 DEF ConnectionLost
<1>7. ASSUME NEW n \in Server, Serves(n)
      PROVE  losses' = losses /\ abandoned' = abandoned
  BY <1>7 DEF Serves, history
<1> QED
  BY <1>1, <1>2, <1>3, <1>4, <1>5, <1>6, <1>7 DEF ProxyNext

\* No step of a disorderly state is orderly, and the steps of an orderly one agree.
LEMMA ProxyStepKeeps ==
  ASSUME AgreeInv, [ProxyNext]_proxyVars
  PROVE  AgreeInv'
<1>1. losses' \in Nat /\ (losses' = 0 => losses' = losses) /\ (~abandoned' => ~abandoned)
  BY DisorderLasts DEF AgreeInv
<1> SUFFICES ASSUME Orderly' PROVE Good'
  BY <1>1 DEF AgreeInv
<1>2. Good /\ losses \in Nat /\ losses' = losses /\ ~abandoned'
  BY <1>1 DEF AgreeInv, Orderly
<1>3. CASE UNCHANGED proxyVars
  BY <1>2, <1>3, NothingHappens
<1>4. ASSUME NEW k \in DOMAIN tasks, NEW d \in Definition, SetProxies(k, d)
      PROVE  Good'
  BY <1>2, <1>4, SetProxiesKeeps
<1>5. ASSUME NEW k \in DOMAIN tasks, TaskStep(k)
      PROVE  Good'
  <2>1. tasks[k].phase # "delay"
    BY <1>2 DEF Good, OneTask
  <2> QED
    BY <1>2, <1>5, <2>1, DefinedKeeps, BalanceKeeps, DoneKeeps DEF TaskStep, RetryDelay
<1>6. ASSUME NEW o \in ops, OpStep(o)
      PROVE  Good'
  BY <1>2, <1>6, LeavesKeeps, RequestsKeeps, NoTimeout DEF OpStep
<1>7. ASSUME NEW o \in ops, AttemptFails(o)
      PROVE  Good'
  <2>1. losses' = losses + 1
    BY <1>7 DEF AttemptFails
  <2> QED
    BY <1>2, <2>1
<1>8. ASSUME NEW n \in Server, MessageStep(n)
      PROVE  Good'
  <2>1. n \notin immediates
    BY <1>2 DEF Good
  <2> QED
    BY <1>2, <1>8, <2>1, AcceptedKeeps, RejectedKeeps, RequestKeeps, LeaveRequestKeeps
       DEF MessageStep, Disconnected
<1>9. ASSUME NEW n \in Server, ConnectionLost(n)
      PROVE  Good'
  <2>1. losses' = losses + 1
    BY <1>9 DEF ConnectionLost
  <2> QED
    BY <1>2, <2>1
<1>10. ASSUME NEW n \in Server, Serves(n)
       PROVE  Good'
  BY <1>2, <1>10, ServesKeeps
<1> QED
  BY <1>3, <1>4, <1>5, <1>6, <1>7, <1>8, <1>9, <1>10 DEF ProxyNext

LEMMA ProxyStart ==
  ASSUME ProxyInit
  PROVE  AgreeInv
<1>1. /\ proxies = << >> /\ oneway = {} /\ immediates = {} /\ ops = {} /\ losses = 0
      /\ tasks = [k \in 1 .. MaxTasks |-> [phase |-> "none", retried |-> FALSE]]
      /\ records = [m \in Server |-> {}] /\ clients = [m \in Server |-> {}]
      /\ requests = [m \in Server |-> <<>>] /\ replies = [m \in Server |-> <<>>]
  BY DEF ProxyInit, Unused
<1>2. DOMAIN proxies = {} /\ proxies = [m \in DOMAIN proxies |-> proxies[m]]
  BY <1>1
<1>3. Tables
  BY <1>1, <1>2 DEF Tables
<1>4. OneTask /\ GoodOps
  BY <1>1 DEF OneTask, GoodOps, Active
<1>5. ASSUME NEW m \in Server
      PROVE  Agreed(m)
  <2>1. Ways(m) = {} /\ ~Asked(m) /\ Left(m)
    BY <1>1 DEF Ways, Asked, Left
  <2> QED
    BY <1>1, <1>2, <2>1 DEF Agreed
<1> QED
  BY <1>1, <1>3, <1>4, <1>5 DEF AgreeInv, Good

LEMMA AtRestAgreed ==
  ASSUME AgreeInv
  PROVE  EndsAgree
<1> SUFFICES ASSUME ProxyAtRest, losses = 0, ~abandoned, NEW m \in Server
             PROVE  clients[m] = {d \in {"publish", "subscribe"} : <<m, d>> \in oneway}
  BY DEF EndsAgree
<1>1. Agreed(m)
  BY DEF AgreeInv, Orderly, Good
<1>2. requests[m] = <<>> /\ replies[m] = <<>> /\ ~Asked(m)
  BY DEF ProxyAtRest, QuietProxies, Asked
<1>3. clients[m] = Ways(m)
  <2>1. <<"leave">> # <<>>
    OBVIOUS
  <2> QED
    BY <1>1, <1>2, <2>1 DEF Agreed, Left
<1> QED
  BY <1>3 DEF Ways, Direction

\* Calls of setProxies that do not fail leave the client and its proxies in agreement
\* about who is connected and in which direction, in whatever order the leave messages,
\* the handshakes and their answers are handled (ProxyStreamConnectionClient).
THEOREM ProxyEndsAgree == ProxySpec => []EndsAgree
<1>1. ProxyInit => AgreeInv
  BY ProxyStart
<1>2. AgreeInv /\ [ProxyNext]_proxyVars => AgreeInv'
  BY ProxyStepKeeps
<1>3. AgreeInv => EndsAgree
  BY AtRestAgreed
<1> QED
  BY <1>1, <1>2, <1>3, PTL DEF ProxySpec

\* What the run of connections checks: a tracker keeps one socket of a node, and the
\* two ends of a proxy connection agree (ServerWsEndpoint, ProxyStreamConnectionClient).
THEOREM ConnectionsKeepInvariants == SocketsSpec /\ ProxySpec => []ConnectionsInv
<1>1. ServerKeepsOne /\ EndsAgree => ConnectionsInv
  BY DEF ConnectionsInv
<1> QED
  BY <1>1, ServerKeepsOneSocket, ProxyEndsAgree, PTL
==============================================================================
