------------------------------ MODULE WebRtcProofs ------------------------------
(***************************************************************************)
(* Proofs about WebRTC connections between two peers, for any number of    *)
(* connections.                                                            *)
(*                                                                         *)
(* That one connection object counts follows from what the messages on     *)
(* their way were made for: an answer is for an offer that was sent, so    *)
(* the connection that takes it has described itself.                      *)
(***************************************************************************)
EXTENDS WebRtcEndpoint, WebRtcConnection, SequenceTheorems, TLAPS

-----------------------------------------------------------------------------
(* The invariant of the endpoint.                                          *)

\* The offer of the offerer's connection k has been sent.
OfferSent(k) ==
  /\ k \in 1 .. Len(owner)
  /\ \A c \in live[Offerer] : c.serial = k => c.sent # "nothing"

\* A connection object of p has its id and its descriptions from the right objects.
Sound(p, c) ==
  /\ c.serial \in 1 .. Len(owner) /\ owner[c.serial] = p
  /\ c.attempt = None <=> c.open
  /\ p = Offerer => c.id = c.serial /\ (c.remote # None => c.to = c.serial)
  /\ p = Answerer => c.id = c.remote /\ (c.id # None => OfferSent(c.id))

\* p has no connection object, and nothing of one.
NoConnection(p) ==
  live[p] = {} /\ current[p] = None /\ attempts[p] = {} /\ ~announced[p] /\ ~negotiated[p]

\* c is the one connection object of p.
Holds(p, c) ==
  /\ live[p] = {c} /\ current[p] = c.serial /\ attempts[p] = {c.attempt} \ {None}
  /\ announced[p] <=> c.open
  /\ negotiated[p] <=> c.sent # "nothing"
  /\ Sound(p, c)

PeerInv(p) == NoConnection(p) \/ \E c \in Connection : Holds(p, c)

\* A message of connection s was made by the right peer, for the right connection.
Meant(s, m) ==
  /\ m.type = "offer" => owner[s] = Offerer /\ m.id = s /\ OfferSent(s)
  /\ m.type = "answer" => owner[s] = Answerer /\ m.to = m.id /\ m.id # None /\ OfferSent(m.id)
  /\ m.type = "connect" => owner[s] = Answerer

\* The messages of connection s that are on their way.
Of(queues, s) == {queues[s][i] : i \in 1 .. Len(queues[s])}
On(s) == Of(relay, s)

RelayInv == \A s \in 1 .. Len(relay) : \A m \in On(s) : Meant(s, m)

PeersInv == \A p \in Peer : PeerInv(p)

\* The inductive invariant of the endpoint.
TableInv == EndpointTypeOK /\ PeersInv /\ RelayInv

-----------------------------------------------------------------------------
(* What every step keeps.                                                  *)

OwnerGrows ==
  Len(owner') \in Nat /\ Len(owner) <= Len(owner') /\ \A k \in 1 .. Len(owner) : owner'[k] = owner[k]

\* A connection of the offerer that has described itself stays so.
SentStays ==
  \A d \in live'[Offerer] :
    d.serial \in 1 .. Len(owner) /\ d.sent = "nothing" =>
      \E c \in live[Offerer] : c.serial = d.serial /\ c.sent = "nothing"

\* Each message on its way was on its way before, or is meant.
RelayGrows ==
  \A s \in 1 .. Len(relay') : \A m \in On(s)' :
    (s \in 1 .. Len(relay) /\ m \in On(s)) \/ Meant(s, m)'

LEMMA OfferStays ==
  ASSUME Len(owner) \in Nat, OwnerGrows, SentStays
  PROVE  \A k : OfferSent(k) => OfferSent(k)'
<1> SUFFICES ASSUME NEW k, OfferSent(k)
             PROVE  OfferSent(k)'
  OBVIOUS
<1>1. k \in 1 .. Len(owner')
  BY DEF OfferSent, OwnerGrows
<1>2. ASSUME NEW d \in live'[Offerer], d.serial = k
      PROVE  d.sent # "nothing"
  BY <1>2 DEF OfferSent, SentStays
<1> QED
  BY <1>1, <1>2 DEF OfferSent

LEMMA SoundStays ==
  ASSUME Len(owner) \in Nat, OwnerGrows, SentStays, NEW p \in Peer, NEW c \in Connection,
         Sound(p, c)
  PROVE  Sound(p, c)'
<1>1. c.serial \in 1 .. Len(owner') /\ owner'[c.serial] = p
  BY DEF Sound, OwnerGrows
<1>2. c.id # None /\ p = Answerer => OfferSent(c.id)'
  BY OfferStays DEF Sound
<1> QED
  BY <1>1, <1>2 DEF Sound

\* A peer whose tables do not change.
LEMMA OtherKeeps ==
  ASSUME Len(owner) \in Nat, OwnerGrows, SentStays, NEW p \in Peer, PeerInv(p),
         live'[p] = live[p], current'[p] = current[p], attempts'[p] = attempts[p],
         announced'[p] = announced[p], negotiated'[p] = negotiated[p]
  PROVE  PeerInv(p)'
<1>1. CASE NoConnection(p)
  BY <1>1 DEF NoConnection, PeerInv
<1>2. CASE \E c \in Connection : Holds(p, c)
  <2>1. PICK c \in Connection : Holds(p, c)
    BY <1>2
  <2>2. Sound(p, c)'
    BY <2>1, SoundStays DEF Holds
  <2>3. Holds(p, c)'
    BY <2>1, <2>2 DEF Holds
  <2> QED
    BY <2>3 DEF PeerInv
<1> QED
  BY <1>1, <1>2 DEF PeerInv

LEMMA RelayKeeps ==
  ASSUME Len(owner) \in Nat, Len(relay) = Len(owner), OwnerGrows, SentStays, RelayInv, RelayGrows
  PROVE  RelayInv'
<1> SUFFICES ASSUME NEW s \in 1 .. Len(relay'), NEW m \in On(s)'
             PROVE  Meant(s, m)'
  BY DEF RelayInv
<1>1. CASE s \in 1 .. Len(relay) /\ m \in On(s)
  <2>1. Meant(s, m) /\ s \in 1 .. Len(owner)
    BY <1>1 DEF RelayInv
  <2>2. owner'[s] = owner[s]
    BY <2>1 DEF OwnerGrows
  <2>3. m.type = "offer" => OfferSent(s)'
    BY <2>1, OfferStays DEF Meant
  <2>4. m.type = "answer" => OfferSent(m.id)'
    BY <2>1, OfferStays DEF Meant
  <2> QED
    BY <2>1, <2>2, <2>3, <2>4 DEF Meant
<1> QED
  BY <1>1 DEF RelayGrows

-----------------------------------------------------------------------------
(* The queues of messages.                                                 *)

\* Queues with no message that is not on its way.
Fewer(queues) ==
  /\ queues \in Seq(Seq(Message)) /\ Len(queues) = Len(relay)
  /\ \A t \in 1 .. Len(relay) : Of(queues, t) \subseteq On(t)

LEMMA TakenIsFewer ==
  ASSUME relay \in Seq(Seq(Message)), NEW s \in DOMAIN relay, relay[s] # <<>>
  PROVE  Fewer(Taken(s)) /\ Head(relay[s]) \in On(s) /\ Head(relay[s]) \in Message
<1>1. s \in 1 .. Len(relay) /\ relay[s] \in Seq(Message)
  BY LenProperties, ElementOfSeq
<1>2. /\ Head(relay[s]) \in Message /\ Tail(relay[s]) \in Seq(Message)
      /\ Len(relay[s]) \in Nat \ {0} /\ Len(Tail(relay[s])) = Len(relay[s]) - 1
      /\ \A i \in 1 .. Len(Tail(relay[s])) : Tail(relay[s])[i] = relay[s][i + 1]
  BY <1>1, HeadTailProperties, EmptySeq
<1>3. Head(relay[s]) = relay[s][1]
  BY <1>1
<1>4. /\ Taken(s) \in Seq(Seq(Message)) /\ Len(Taken(s)) = Len(relay)
      /\ \A t \in 1 .. Len(relay) : Taken(s)[t] = IF t = s THEN Tail(relay[s]) ELSE relay[t]
  BY <1>1, <1>2, ExceptSeq DEF Taken
<1>5. ASSUME NEW t \in 1 .. Len(relay)
      PROVE  Of(Taken(s), t) \subseteq On(t)
  <2>1. CASE t = s
    <3>1. Taken(s)[t] = Tail(relay[s])
      BY <1>4, <2>1
    <3>2. \A i \in 1 .. Len(Tail(relay[s])) : i + 1 \in 1 .. Len(relay[s])
      BY <1>2
    <3> QED
      BY <3>1, <3>2, <1>2, <2>1 DEF Of, On
  <2>2. CASE t # s
    BY <1>4, <2>2 DEF Of, On
  <2> QED
    BY <2>1, <2>2
<1>6. Head(relay[s]) \in On(s)
  BY <1>2, <1>3 DEF On, Of
<1> QED
  BY <1>2, <1>4, <1>5, <1>6 DEF Fewer

\* What is on its way is fewer than before.
LEMMA FewerGrows ==
  ASSUME Fewer(relay')
  PROVE  relay' \in Seq(Seq(Message)) /\ Len(relay') = Len(relay) /\ RelayGrows
<1>1. ASSUME NEW s \in 1 .. Len(relay'), NEW m \in On(s)'
      PROVE  s \in 1 .. Len(relay) /\ m \in On(s)
  BY DEF Fewer, On, Of
<1> QED
  BY <1>1 DEF RelayGrows, Fewer

\* A new connection, whose own messages are meant.
LEMMA AppendGrows ==
  ASSUME relay \in Seq(Seq(Message)), NEW queues, Fewer(queues), NEW out \in Seq(Message),
         relay' = Append(queues, out),
         NEW k, k = Len(relay) + 1, \A i \in 1 .. Len(out) : Meant(k, out[i])'
  PROVE  relay' \in Seq(Seq(Message)) /\ Len(relay') = Len(relay) + 1 /\ RelayGrows
<1>1. Len(relay) \in Nat
  BY LenProperties
<1>2. /\ relay' \in Seq(Seq(Message)) /\ Len(relay') = Len(relay) + 1
      /\ \A t \in 1 .. Len(relay) : relay'[t] = queues[t]
      /\ relay'[Len(relay) + 1] = out
  BY AppendProperties DEF Fewer
<1>3. ASSUME NEW s \in 1 .. Len(relay'), NEW m \in On(s)'
      PROVE  (s \in 1 .. Len(relay) /\ m \in On(s)) \/ Meant(s, m)'
  <2>1. CASE s \in 1 .. Len(relay)
    BY <1>2, <2>1 DEF Fewer, On, Of
  <2>2. CASE s = Len(relay) + 1
    <3>1. PICK i \in 1 .. Len(out) : m = out[i]
      BY <1>2, <2>2 DEF On, Of
    <3>2. Meant(k, m)'
      BY <3>1
    <3> QED
      BY <3>2, <2>2
  <2> QED
    BY <1>1, <1>2, <2>1, <2>2
<1> QED
  BY <1>2, <1>3 DEF RelayGrows

\* Connection k sends a message that is meant.
LEMMA SentGrows ==
  ASSUME relay \in Seq(Seq(Message)), NEW k \in 1 .. Len(relay), NEW sent \in Message,
         relay' = [relay EXCEPT ![k] = Append(@, sent)], Meant(k, sent)'
  PROVE  relay' \in Seq(Seq(Message)) /\ Len(relay') = Len(relay) /\ RelayGrows
<1>1. relay[k] \in Seq(Message)
  BY ElementOfSeq
<1>2. /\ Append(relay[k], sent) \in Seq(Message)
      /\ Len(relay[k]) \in Nat /\ Len(Append(relay[k], sent)) = Len(relay[k]) + 1
      /\ \A i \in 1 .. Len(relay[k]) : Append(relay[k], sent)[i] = relay[k][i]
      /\ Append(relay[k], sent)[Len(relay[k]) + 1] = sent
  BY <1>1, AppendProperties, LenProperties
<1>3. /\ relay' \in Seq(Seq(Message)) /\ Len(relay') = Len(relay)
      /\ \A t \in 1 .. Len(relay) :
           relay'[t] = IF t = k THEN Append(relay[k], sent) ELSE relay[t]
  BY <1>1, <1>2, ExceptSeq
<1>4. ASSUME NEW s \in 1 .. Len(relay'), NEW m \in On(s)'
      PROVE  (s \in 1 .. Len(relay) /\ m \in On(s)) \/ Meant(s, m)'
  <2>1. CASE s = k
    <3>1. PICK i \in 1 .. Len(relay[k]) + 1 : m = Append(relay[k], sent)[i]
      BY <1>2, <1>3, <2>1 DEF On, Of
    <3>2. CASE i = Len(relay[k]) + 1
      BY <3>1, <3>2, <1>2, <2>1
    <3>3. CASE i \in 1 .. Len(relay[k])
      BY <3>1, <3>3, <1>2, <2>1 DEF On, Of
    <3> QED
      BY <3>2, <3>3, <1>2
  <2>2. CASE s # k
    BY <1>3, <2>2 DEF On, Of
  <2> QED
    BY <2>1, <2>2
<1> QED
  BY <1>3, <1>4 DEF RelayGrows

-----------------------------------------------------------------------------
(* The tables.                                                             *)

TablesTyped ==
  /\ live \in [Peer -> SUBSET Connection]
  /\ current \in [Peer -> Serial \cup {None}]
  /\ attempts \in [Peer -> SUBSET Serial]
  /\ negotiated \in [Peer -> BOOLEAN] /\ announced \in [Peer -> BOOLEAN]

LEMMA Two == Offerer # Answerer /\ Offerer \in Peer /\ Answerer \in Peer /\ None \notin Serial
BY EndpointAssumption DEF Peer, Serial

LEMMA OwnerLen == ASSUME TableInv PROVE Len(owner) \in Nat /\ New \in Nat /\ New \notin 1 .. Len(owner)
BY LenProperties DEF TableInv, EndpointTypeOK, New

\* The connection objects of a peer: its current one.
LEMMA HeldIs ==
  ASSUME TableInv, NEW p \in Peer
  PROVE  /\ Current(p) = live[p]
         /\ \A c \in live[p] : c \in Connection /\ Holds(p, c)
         /\ live[p] = {} => NoConnection(p)
         /\ current[p] = None <=> live[p] = {}
<1>1. PeerInv(p)
  BY DEF TableInv, PeersInv
<1>2. CASE NoConnection(p)
  BY <1>2 DEF NoConnection, Current
<1>3. CASE \E c \in Connection : Holds(p, c)
  <2>1. PICK c \in Connection : Holds(p, c)
    BY <1>3
  <2>2. live[p] = {c} /\ current[p] = c.serial /\ c.serial \in Serial
    BY <2>1 DEF Holds, Connection
  <2>3. Current(p) = live[p]
    BY <2>2 DEF Current
  <2>4. current[p] # None
    BY <2>2, Two
  <2> QED
    BY <2>1, <2>2, <2>3, <2>4
<1> QED
  BY <1>1, <1>2, <1>3 DEF PeerInv

\* close leaves nothing of the connection.
LEMMA Closes ==
  ASSUME TableInv, NEW p \in Peer, NEW c \in live[p], Close(p, c), owner' = owner
  PROVE  OwnerGrows /\ SentStays /\ PeersInv' /\ TablesTyped'
<1> USE DEF TableInv, EndpointTypeOK
<1>1. c \in Connection /\ Holds(p, c)
  BY HeldIs
<1>2. /\ live' = [live EXCEPT ![p] = {}]
      /\ current' = [current EXCEPT ![p] = None]
      /\ attempts' = [attempts EXCEPT ![p] = {}]
      /\ negotiated' = [negotiated EXCEPT ![p] = FALSE]
      /\ announced' = [announced EXCEPT ![p] = FALSE]
  BY <1>1 DEF Close, Holds
<1>3. TablesTyped'
  BY <1>2 DEF TablesTyped
<1>4. OwnerGrows
  BY OwnerLen DEF OwnerGrows
<1>5. SentStays
  BY <1>2 DEF SentStays
<1>6. ASSUME NEW q \in Peer
      PROVE  PeerInv(q)'
  <2>1. CASE q = p
    BY <1>2, <2>1 DEF PeerInv, NoConnection
  <2>2. CASE q # p
    <3>1. PeerInv(q)
      BY DEF PeersInv
    <3>2. /\ live'[q] = live[q] /\ current'[q] = current[q] /\ attempts'[q] = attempts[q]
          /\ announced'[q] = announced[q] /\ negotiated'[q] = negotiated[q]
      BY <1>2, <2>2
    <3> QED
      BY <3>1, <3>2, <1>4, <1>5, OwnerLen, OtherKeeps
  <2> QED
    BY <2>1, <2>2
<1> QED
  BY <1>3, <1>4, <1>5, <1>6 DEF PeersInv

\* An assignment to fields of the connection.
LEMMA Updates ==
  ASSUME TableInv, NEW p \in Peer, NEW c \in live[p], NEW d \in Connection, Update(p, c, d),
         owner' = owner, current' = current,
         d.serial = c.serial, d.sent = "nothing" => c.sent = "nothing",
         \A q \in Peer : q # p =>
           /\ attempts'[q] = attempts[q] /\ announced'[q] = announced[q]
           /\ negotiated'[q] = negotiated[q],
         attempts'[p] = {d.attempt} \ {None}, announced'[p] <=> d.open,
         negotiated'[p] <=> d.sent # "nothing",
         d.attempt = None <=> d.open,
         p = Offerer => d.id = d.serial /\ (d.remote # None => d.to = d.serial),
         p = Answerer => d.id = d.remote /\ (d.id # None => OfferSent(d.id))
  PROVE  OwnerGrows /\ SentStays /\ PeersInv' /\ live' \in [Peer -> SUBSET Connection]
<1> USE DEF TableInv, EndpointTypeOK
<1>1. c \in Connection /\ Holds(p, c)
  BY HeldIs
<1>2. live' = [live EXCEPT ![p] = {d}]
  BY <1>1 DEF Update, Holds
<1>4. OwnerGrows
  BY OwnerLen DEF OwnerGrows
<1>5. SentStays
  BY <1>2, <1>1 DEF SentStays
<1>6. ASSUME NEW q \in Peer
      PROVE  PeerInv(q)'
  <2>1. CASE q = p
    <3>1. p = Answerer => d.id = d.remote /\ (d.id # None => OfferSent(d.id)')
      BY <1>4, <1>5, OwnerLen, OfferStays
    <3>2. Sound(p, d)'
      BY <1>1, <3>1 DEF Sound, Holds
    <3>3. Holds(p, d)'
      BY <1>1, <1>2, <3>2 DEF Holds
    <3> QED
      BY <2>1, <3>3 DEF PeerInv
  <2>2. CASE q # p
    <3>1. PeerInv(q)
      BY DEF PeersInv
    <3>2. /\ live'[q] = live[q] /\ current'[q] = current[q] /\ attempts'[q] = attempts[q]
          /\ announced'[q] = announced[q] /\ negotiated'[q] = negotiated[q]
      BY <1>2, <2>2
    <3> QED
      BY <3>1, <3>2, <1>4, <1>5, OwnerLen, OtherKeeps
  <2> QED
    BY <2>1, <2>2
<1> QED
  BY <1>2, <1>4, <1>5, <1>6 DEF PeersInv

\* A new connection object takes the place, and the attempt, of the current one.
LEMMA Installs ==
  ASSUME TableInv, NEW p \in Peer, NEW c \in Connection, NEW out, NEW queues,
         Install(p, c, out, queues),
         c.serial = New, c.sent = "nothing", ~c.open,
         c.attempt = IF Attempt(p) = None THEN New ELSE Attempt(p),
         p = Offerer => c.id = New /\ c.remote = None,
         p = Answerer => c.id = c.remote /\ (c.id # None => OfferSent(c.id))
  PROVE  /\ OwnerGrows /\ SentStays /\ PeersInv' /\ TablesTyped'
         /\ owner' \in Seq(Peer) /\ Len(owner') = Len(owner) + 1 /\ Len(owner') <= MaxConnections
         /\ owner'[New] = p
<1> USE DEF TableInv, EndpointTypeOK
<1>1. /\ owner' \in Seq(Peer) /\ Len(owner') = Len(owner) + 1 /\ Len(owner') <= MaxConnections
      /\ owner'[New] = p
      /\ \A k \in 1 .. Len(owner) : owner'[k] = owner[k]
  BY AppendProperties, OwnerLen DEF Install, New
<1>2. OwnerGrows
  BY <1>1, OwnerLen DEF OwnerGrows
<1>3. c.attempt \in Serial /\ attempts[p] \cup {c.attempt} = {c.attempt}
  <2>1. New \in Serial
    BY <1>1, OwnerLen DEF New, Serial, Install
  <2>2. CASE live[p] = {}
    <3>1. current[p] = None /\ attempts[p] = {}
      BY <2>2, HeldIs DEF NoConnection
    <3> QED
      BY <2>1, <3>1, Two DEF Attempt
  <2>3. CASE live[p] # {}
    <3>1. PICK e \in live[p] : e \in Connection /\ Holds(p, e)
      BY <2>3, HeldIs
    <3>2. Current(p) = {e} /\ current[p] # None
      BY <2>3, <3>1, HeldIs DEF Holds
    <3>3. Attempt(p) = e.attempt
      BY <3>2 DEF Attempt
    <3>4. attempts[p] = {e.attempt} \ {None} /\ e.attempt \in Serial \cup {None}
      BY <3>1 DEF Holds, Connection
    <3> QED
      BY <2>1, <3>3, <3>4
  <2> QED
    BY <2>2, <2>3
<1>4. ~(negotiated[p] /\ Current(p) = {}) /\ ~(announced[p] /\ Current(p) = {})
  BY HeldIs DEF NoConnection
<1>5. /\ live' = [live EXCEPT ![p] = {c}]
      /\ current' = [current EXCEPT ![p] = c.serial]
      /\ attempts' = [attempts EXCEPT ![p] = {c.attempt}]
      /\ negotiated' = [negotiated EXCEPT ![p] = FALSE]
      /\ announced' = [announced EXCEPT ![p] = FALSE]
  <2>1. (live[p] \ Current(p)) \cup {c} = {c}
    BY HeldIs
  <2>2. live' = [live EXCEPT ![p] = {c}] /\ current' = [current EXCEPT ![p] = c.serial]
    BY <2>1 DEF Install
  <2>3. attempts' = [attempts EXCEPT ![p] = {c.attempt}]
    BY <1>3 DEF Install
  <2>4. /\ negotiated' = [negotiated EXCEPT ![p] = negotiated[p] /\ Current(p) = {}]
        /\ announced' = [announced EXCEPT ![p] = announced[p] /\ Current(p) = {}]
    BY Zenon DEF Install
  <2> QED
    BY <2>2, <2>3, <2>4, <1>4
<1>6. TablesTyped'
  BY <1>3, <1>5 DEF TablesTyped, Connection
<1>7. SentStays
  BY <1>5, OwnerLen DEF SentStays
<1>8. ASSUME NEW q \in Peer
      PROVE  PeerInv(q)'
  <2>1. CASE q = p
    <3>1. p = Answerer => c.id = c.remote /\ (c.id # None => OfferSent(c.id)')
      BY <1>2, <1>7, OwnerLen, OfferStays
    <3>2. c.serial \in 1 .. Len(owner') /\ owner'[c.serial] = p
      BY <1>1, OwnerLen DEF New
    <3>3. c.attempt # None
      BY <1>3, Two
    <3>4. Sound(p, c)'
      BY <3>1, <3>2, <3>3 DEF Sound
    <3>5. Holds(p, c)'
      BY <1>5, <3>3, <3>4 DEF Holds
    <3> QED
      BY <2>1, <3>5 DEF PeerInv
  <2>2. CASE q # p
    <3>1. PeerInv(q)
      BY DEF PeersInv
    <3>2. /\ live'[q] = live[q] /\ current'[q] = current[q] /\ attempts'[q] = attempts[q]
          /\ announced'[q] = announced[q] /\ negotiated'[q] = negotiated[q]
      BY <1>5, <2>2
    <3> QED
      BY <3>1, <3>2, <1>2, <1>7, OwnerLen, OtherKeeps
  <2> QED
    BY <2>1, <2>2
<1> QED
  BY <1>1, <1>2, <1>6, <1>7, <1>8 DEF PeersInv

\* c is a new connection object.
Fresh(c, id, attempt, remote) ==
  /\ {id, attempt, remote} \subseteq Serial \cup {None}
  /\ \/ c = [Created(id, attempt) EXCEPT !.remote = remote]
     \/ c = Created(id, attempt) /\ remote = None

LEMMA CreatedIs ==
  ASSUME TableInv, New <= MaxConnections
  PROVE  \A c, id, attempt, remote : Fresh(c, id, attempt, remote) =>
           /\ c \in Connection /\ c.serial = New /\ c.sent = "nothing" /\ ~c.open
           /\ c.attempt = IF attempt = None THEN New ELSE attempt
           /\ c.id = id /\ c.remote = remote
<1>1. New \in Serial
  BY OwnerLen DEF New, Serial, EndpointAssumption
<1> SUFFICES ASSUME NEW c, NEW id, NEW attempt, NEW remote, Fresh(c, id, attempt, remote)
             PROVE  /\ c \in Connection /\ c.serial = New /\ c.sent = "nothing" /\ ~c.open
                    /\ c.attempt = IF attempt = None THEN New ELSE attempt
                    /\ c.id = id /\ c.remote = remote
  OBVIOUS
<1>2. CASE c = [Created(id, attempt) EXCEPT !.remote = remote]
  BY <1>1, <1>2 DEF Created, Connection, Fresh
<1>3. CASE c = Created(id, attempt) /\ remote = None
  BY <1>1, <1>3 DEF Created, Connection, Fresh
<1> QED
  BY <1>2, <1>3 DEF Fresh

LEMMA AttemptTyped == ASSUME TableInv, NEW p \in Peer PROVE Attempt(p) \in Serial \cup {None}
<1>1. CASE current[p] = None
  BY <1>1 DEF Attempt
<1>2. CASE current[p] # None
  <2>1. PICK e \in live[p] : e \in Connection /\ Holds(p, e)
    BY <1>2, HeldIs
  <2>2. Current(p) = {e}
    BY <2>1, HeldIs DEF Holds
  <2> QED
    BY <1>2, <2>1, <2>2 DEF Attempt, Connection
<1> QED
  BY <1>1, <1>2

-----------------------------------------------------------------------------
(* The actions.                                                            *)

LEMMA Together ==
  ASSUME TableInv, OwnerGrows, SentStays, PeersInv', TablesTyped', RelayGrows,
         relay' \in Seq(Seq(Message)), Len(relay') = Len(owner'),
         owner' \in Seq(Peer), Len(owner') <= MaxConnections,
         rtcErrors' \subseteq Peer, stopped' \in [Peer -> BOOLEAN]
  PROVE  TableInv'
<1>1. RelayInv'
  BY RelayKeeps, OwnerLen DEF TableInv, EndpointTypeOK
<1> QED
  BY <1>1 DEF TableInv, EndpointTypeOK, TablesTyped

LEMMA SameRelay == ASSUME relay' = relay PROVE RelayGrows
BY DEF RelayGrows, On, Of

LEMMA AllFewer == ASSUME TableInv PROVE Fewer(relay)
BY DEF Fewer, On, TableInv, EndpointTypeOK

LEMMA ConnectKeeps ==
  ASSUME TableInv, NEW p \in Peer, NEW trackerInstructed \in BOOLEAN, Connect(p, trackerInstructed)
  PROVE  TableInv'
<1> DEFINE id == IF p = Offerer THEN New ELSE None
           c == Created(id, None)
           ask == [type |-> "connect", id |-> None, to |-> None]
           out == IF trackerInstructed \/ p = Offerer THEN <<>> ELSE <<ask>>
<1>1. /\ current[p] = None /\ Install(p, c, out, relay)
      /\ rtcErrors' = rtcErrors /\ stopped' = stopped
  BY DEF Connect
<1>2. New <= MaxConnections /\ relay' = Append(relay, out)
  BY <1>1 DEF Install
<1>3. New \in Serial
  BY <1>2, OwnerLen, EndpointAssumption DEF New, Serial
<1>4. Attempt(p) = None
  BY <1>1 DEF Attempt
<1>6. id \in Serial \cup {None}
  BY <1>3
<1>7. /\ c \in Connection /\ c.serial = New /\ c.sent = "nothing" /\ ~c.open
      /\ c.attempt = New /\ c.id = id /\ c.remote = None
  <2>1. Fresh(c, id, None, None)
    BY <1>6 DEF Fresh
  <2> HIDE DEF id, c
  <2> QED
    BY <1>2, <2>1, CreatedIs
<1>8. p = Offerer \/ p = Answerer
  BY DEF Peer
<1>9. /\ p = Offerer => c.id = New
      /\ p = Answerer => c.id = None
  BY <1>7, Two
<1>10. ask \in Message /\ out \in Seq(Message)
  <2>1. ask \in Message
    BY DEF Message
  <2> HIDE DEF ask
  <2>2. <<ask>> \in Seq(Message) /\ <<>> \in Seq(Message)
    BY <2>1
  <2> QED
    BY <2>1, <2>2
<1> HIDE DEF c, id
<1>11. /\ OwnerGrows /\ SentStays /\ PeersInv' /\ TablesTyped'
       /\ owner' \in Seq(Peer) /\ Len(owner') = Len(owner) + 1 /\ Len(owner') <= MaxConnections
       /\ owner'[New] = p
  BY <1>1, <1>4, <1>7, <1>9, Installs
<1>12. ASSUME NEW i \in 1 .. Len(out)
       PROVE  out[i] = ask /\ p = Answerer
  BY <1>8
<1>13. New = Len(relay) + 1
  BY DEF New, TableInv, EndpointTypeOK
<1>14. \A k : k = Len(relay) + 1 => \A i \in 1 .. Len(out) : Meant(k, out[i])'
  <2> SUFFICES ASSUME NEW k, k = Len(relay) + 1, NEW i \in 1 .. Len(out)
               PROVE  Meant(k, out[i])'
    OBVIOUS
  <2>1. owner'[k] = Answerer
    BY <1>11, <1>12, <1>13
  <2>2. Meant(k, ask)'
    BY <2>1 DEF Meant
  <2> QED
    BY <2>2, <1>12
<1> HIDE DEF out
<1>15. relay' \in Seq(Seq(Message)) /\ Len(relay') = Len(relay) + 1 /\ RelayGrows
  BY <1>2, <1>10, <1>14, AppendGrows, AllFewer DEF TableInv, EndpointTypeOK
<1> QED
  BY <1>1, <1>11, <1>15, Together DEF TableInv, EndpointTypeOK

\* Steps that close the connection, or leave the tables alone.
LEMMA CloseOnlyKeeps ==
  ASSUME TableInv, NEW p \in Peer, NEW c \in live[p], CloseOnly(p, c)
  PROVE  TableInv'
<1>1. Close(p, c) /\ owner' = owner /\ relay' = relay /\ rtcErrors' = rtcErrors /\ stopped' = stopped
  BY DEF CloseOnly
<1>2. OwnerGrows /\ SentStays /\ PeersInv' /\ TablesTyped'
  BY <1>1, Closes
<1> QED
  BY <1>1, <1>2, SameRelay, Together DEF TableInv, EndpointTypeOK

tablesUnchanged == UNCHANGED <<owner, live, current, attempts, negotiated, announced>>

LEMMA TablesSame ==
  ASSUME TableInv, tablesUnchanged
  PROVE  OwnerGrows /\ SentStays /\ PeersInv' /\ TablesTyped'
<1>1. /\ owner' = owner /\ live' = live /\ current' = current /\ attempts' = attempts
      /\ negotiated' = negotiated /\ announced' = announced
  BY DEF tablesUnchanged
<1>2. OwnerGrows /\ SentStays
  BY <1>1, OwnerLen DEF OwnerGrows, SentStays
<1>3. ASSUME NEW q \in Peer PROVE PeerInv(q)'
  BY <1>1, <1>2, OtherKeeps, OwnerLen DEF TableInv, PeersInv
<1> QED
  BY <1>1, <1>2, <1>3 DEF PeersInv, TablesTyped, TableInv, EndpointTypeOK

LEMMA DisconnectKeeps == ASSUME TableInv, NEW p \in Peer, Disconnect(p) PROVE TableInv'
<1>1. PICK c \in Current(p) : CloseOnly(p, c)
  BY DEF Disconnect
<1> QED
  BY <1>1, HeldIs, CloseOnlyKeeps

LEMMA StopKeeps == ASSUME TableInv, NEW p \in Peer, Stop(p) PROVE TableInv'
<1>1. /\ stopped' = [stopped EXCEPT ![p] = TRUE] /\ owner' = owner /\ relay' = relay
      /\ rtcErrors' = rtcErrors
  BY DEF Stop
<1>2. /\ attempts[p] \ {c.attempt : c \in Current(p)} = {}
      /\ ~(negotiated[p] /\ Current(p) = {})
      /\ live[p] \ Current(p) = {}
  <2>1. CASE live[p] = {}
    BY <2>1, HeldIs DEF NoConnection
  <2>2. CASE live[p] # {}
    <3>1. PICK e \in live[p] : e \in Connection /\ Holds(p, e)
      BY <2>2, HeldIs
    <3>2. Current(p) = {e} /\ live[p] = {e} /\ attempts[p] \subseteq {e.attempt}
      BY <3>1, HeldIs DEF Holds
    <3> QED
      BY <3>2
  <2> QED
    BY <2>1, <2>2
<1>3. /\ live' = [live EXCEPT ![p] = {}]
      /\ current' = [current EXCEPT ![p] = None]
      /\ attempts' = [attempts EXCEPT ![p] = {}]
      /\ negotiated' = [negotiated EXCEPT ![p] = FALSE]
      /\ announced' = [announced EXCEPT ![p] = FALSE]
  <2>1. negotiated' = [negotiated EXCEPT ![p] = negotiated[p] /\ Current(p) = {}]
    BY Zenon DEF Stop
  <2> QED
    BY <1>2, <2>1 DEF Stop
<1>4. TablesTyped' /\ SentStays /\ OwnerGrows
  BY <1>1, <1>3, OwnerLen DEF TablesTyped, SentStays, OwnerGrows, TableInv, EndpointTypeOK
<1>5. ASSUME NEW q \in Peer
      PROVE  PeerInv(q)'
  <2>1. CASE q = p
    BY <1>3, <2>1 DEF PeerInv, NoConnection, TableInv, EndpointTypeOK
  <2>2. CASE q # p
    <3>1. PeerInv(q)
      BY DEF PeersInv, TableInv
    <3>2. /\ live'[q] = live[q] /\ current'[q] = current[q] /\ attempts'[q] = attempts[q]
          /\ announced'[q] = announced[q] /\ negotiated'[q] = negotiated[q]
      BY <1>3, <2>2 DEF TableInv, EndpointTypeOK
    <3> QED
      BY <3>1, <3>2, <1>4, OwnerLen, OtherKeeps
  <2> QED
    BY <2>1, <2>2
<1>6. stopped' \in [Peer -> BOOLEAN]
  BY <1>1 DEF TableInv, EndpointTypeOK
<1> QED
  BY <1>1, <1>4, <1>5, <1>6, SameRelay, Together DEF TableInv, EndpointTypeOK, PeersInv

LEMMA LocalDescriptionKeeps ==
  ASSUME TableInv, NEW p \in Peer, NEW c \in live[p], LocalDescription(p, c)
  PROVE  TableInv'
<1> DEFINE d == [c EXCEPT !.sent = "description"]
           m == [type |-> IF p = Offerer THEN "offer" ELSE "answer", id |-> c.id, to |-> c.remote]
<1>1. c \in Connection /\ Holds(p, c) /\ Sound(p, c) /\ c.serial \in 1 .. Len(owner) /\ owner[c.serial] = p
  BY HeldIs DEF Holds, Sound
<1>2. /\ p = Offerer \/ c.remote # None
      /\ Update(p, c, d) /\ relay' = [relay EXCEPT ![c.serial] = Append(@, m)]
      /\ negotiated' = [negotiated EXCEPT ![p] = TRUE]
      /\ owner' = owner /\ current' = current /\ attempts' = attempts /\ rtcErrors' = rtcErrors
      /\ announced' = announced /\ stopped' = stopped
  BY DEF LocalDescription
<1>3. /\ d \in Connection /\ d.serial = c.serial /\ d.sent = "description" /\ d.attempt = c.attempt
      /\ d.open = c.open /\ d.id = c.id /\ d.remote = c.remote /\ d.to = c.to
  BY <1>1 DEF Connection
<1>4. m \in Message /\ m.id = c.id /\ m.to = c.remote
      /\ m.type = IF p = Offerer THEN "offer" ELSE "answer"
  BY <1>1 DEF Message, Connection
<1> HIDE DEF d, m
<1>5. OwnerGrows /\ SentStays /\ PeersInv' /\ live' \in [Peer -> SUBSET Connection]
  BY <1>1, <1>2, <1>3, Updates DEF Holds, Sound, TableInv, EndpointTypeOK
<1>6. live'[Offerer] = IF p = Offerer THEN {d} ELSE live[Offerer]
  BY <1>1, <1>2, Two DEF Update, Holds, TableInv, EndpointTypeOK
<1>7. p = Offerer => OfferSent(c.serial)'
  BY <1>1, <1>2, <1>3, <1>6 DEF OfferSent
<1>8. p # Offerer => p = Answerer /\ c.id # None /\ OfferSent(c.id)'
  <2>1. p # Offerer => p = Answerer /\ c.id # None /\ OfferSent(c.id)
    BY <1>1, <1>2 DEF Sound, Peer
  <2> QED
    BY <2>1, <1>5, OwnerLen, OfferStays
<1>9. Meant(c.serial, m)'
  <2>1. /\ m.type = "offer" => owner'[c.serial] = Offerer /\ m.id = c.serial /\ OfferSent(c.serial)'
        /\ m.type = "answer" =>
             owner'[c.serial] = Answerer /\ m.to = m.id /\ m.id # None /\ OfferSent(m.id)'
        /\ m.type # "connect"
    BY <1>1, <1>2, <1>4, <1>7, <1>8, Two DEF Sound
  <2> QED
    BY <2>1 DEF Meant
<1>10. relay' \in Seq(Seq(Message)) /\ Len(relay') = Len(relay) /\ RelayGrows
  BY <1>1, <1>2, <1>4, <1>9, SentGrows DEF TableInv, EndpointTypeOK
<1>11. TablesTyped'
  BY <1>2, <1>5 DEF TablesTyped, TableInv, EndpointTypeOK
<1> QED
  BY <1>2, <1>5, <1>10, <1>11, Together DEF TableInv, EndpointTypeOK

LEMMA LocalCandidateKeeps ==
  ASSUME TableInv, NEW p \in Peer, NEW c \in live[p], LocalCandidate(p, c)
  PROVE  TableInv'
<1> DEFINE d == [c EXCEPT !.sent = "candidate"]
           m == [type |-> "candidate", id |-> c.id, to |-> None]
<1>1. c \in Connection /\ Holds(p, c) /\ Sound(p, c) /\ c.serial \in 1 .. Len(owner) /\ owner[c.serial] = p
  BY HeldIs DEF Holds, Sound
<1>2. /\ c.sent = "description"
      /\ Update(p, c, d) /\ relay' = [relay EXCEPT ![c.serial] = Append(@, m)]
      /\ negotiated' = negotiated
      /\ owner' = owner /\ current' = current /\ attempts' = attempts /\ rtcErrors' = rtcErrors
      /\ announced' = announced /\ stopped' = stopped
  BY DEF LocalCandidate
<1>3. /\ d \in Connection /\ d.serial = c.serial /\ d.sent = "candidate" /\ d.attempt = c.attempt
      /\ d.open = c.open /\ d.id = c.id /\ d.remote = c.remote /\ d.to = c.to
  BY <1>1 DEF Connection
<1>4. m \in Message /\ m.type = "candidate"
  BY <1>1 DEF Message, Connection
<1> HIDE DEF d, m
<1>5. OwnerGrows /\ SentStays /\ PeersInv' /\ live' \in [Peer -> SUBSET Connection]
  BY <1>1, <1>2, <1>3, Updates DEF Holds, Sound
<1>6. Meant(c.serial, m)'
  BY <1>4 DEF Meant
<1>7. relay' \in Seq(Seq(Message)) /\ Len(relay') = Len(relay) /\ RelayGrows
  BY <1>1, <1>2, <1>4, <1>6, SentGrows DEF TableInv, EndpointTypeOK
<1>8. TablesTyped'
  BY <1>2, <1>5 DEF TablesTyped, TableInv, EndpointTypeOK
<1> QED
  BY <1>2, <1>5, <1>7, <1>8, Together DEF TableInv, EndpointTypeOK

\* The callbacks that change the state of the library's connection, or open it.
LEMMA LibraryKeeps ==
  ASSUME TableInv, NEW p \in Peer, NEW c \in live[p],
         Connecting(p, c) \/ Connected(p, c) \/ Open(p, c)
  PROVE  TableInv'
<1>1. c \in Connection /\ Holds(p, c) /\ Sound(p, c)
  BY HeldIs DEF Holds
<1>2. owner' = owner /\ current' = current /\ relay' = relay /\ rtcErrors' = rtcErrors
      /\ negotiated' = negotiated /\ stopped' = stopped
  BY DEF Connecting, Connected, Open, libraryUnchanged
<1>3. PICK d \in Connection :
        /\ Update(p, c, d) /\ d.serial = c.serial /\ d.sent = c.sent
        /\ d.id = c.id /\ d.remote = c.remote /\ d.to = c.to
        /\ \/ /\ d.open = c.open /\ d.attempt = c.attempt
              /\ attempts' = attempts /\ announced' = announced
           \/ /\ d.open /\ d.attempt = None
              /\ attempts' = [attempts EXCEPT ![p] = @ \ {c.attempt}]
              /\ announced' = [announced EXCEPT ![p] = TRUE]
  <2>1. CASE Connecting(p, c)
    <3> DEFINE d == [c EXCEPT !.state = "connecting", !.timer = TRUE]
    <3>1. /\ d \in Connection /\ d.serial = c.serial /\ d.sent = c.sent
          /\ d.id = c.id /\ d.remote = c.remote /\ d.to = c.to
          /\ d.open = c.open /\ d.attempt = c.attempt
      BY <1>1 DEF Connection
    <3>2. Update(p, c, d) /\ attempts' = attempts /\ announced' = announced
      BY <2>1 DEF Connecting
    <3> HIDE DEF d
    <3> QED
      BY <3>1, <3>2
  <2>2. CASE Connected(p, c)
    <3> DEFINE d == [c EXCEPT !.state = "connected"]
    <3>1. /\ d \in Connection /\ d.serial = c.serial /\ d.sent = c.sent
          /\ d.id = c.id /\ d.remote = c.remote /\ d.to = c.to
          /\ d.open = c.open /\ d.attempt = c.attempt
      BY <1>1 DEF Connection
    <3>2. Update(p, c, d) /\ attempts' = attempts /\ announced' = announced
      BY <2>2 DEF Connected
    <3> HIDE DEF d
    <3> QED
      BY <3>1, <3>2
  <2>3. CASE Open(p, c)
    <3> DEFINE d == [c EXCEPT !.open = TRUE, !.timer = FALSE, !.attempt = None]
    <3>1. /\ d \in Connection /\ d.serial = c.serial /\ d.sent = c.sent
          /\ d.id = c.id /\ d.remote = c.remote /\ d.to = c.to
          /\ d.open /\ d.attempt = None
      BY <1>1 DEF Connection
    <3>2. /\ Update(p, c, d)
          /\ attempts' = [attempts EXCEPT ![p] = @ \ {c.attempt}]
          /\ announced' = [announced EXCEPT ![p] = TRUE]
      BY <2>3 DEF Open
    <3> HIDE DEF d
    <3> QED
      BY <3>1, <3>2
  <2> QED
    BY <2>1, <2>2, <2>3
<1>4. /\ attempts' \in [Peer -> SUBSET Serial] /\ announced' \in [Peer -> BOOLEAN]
      /\ \A q \in Peer : q # p => attempts'[q] = attempts[q] /\ announced'[q] = announced[q]
      /\ attempts'[p] = {d.attempt} \ {None} /\ (announced'[p] <=> d.open)
      /\ (d.attempt = None <=> d.open)
  <2>1. CASE attempts' = attempts /\ announced' = announced /\ d.open = c.open /\ d.attempt = c.attempt
    BY <1>1, <2>1 DEF Holds, Sound, TableInv, EndpointTypeOK
  <2>2. CASE /\ d.open /\ d.attempt = None
             /\ attempts' = [attempts EXCEPT ![p] = @ \ {c.attempt}]
             /\ announced' = [announced EXCEPT ![p] = TRUE]
    BY <1>1, <2>2 DEF Holds, TableInv, EndpointTypeOK
  <2> QED
    BY <1>3, <2>1, <2>2
<1>5. OwnerGrows /\ SentStays /\ PeersInv' /\ live' \in [Peer -> SUBSET Connection]
  BY <1>1, <1>2, <1>3, <1>4, Updates DEF Holds, Sound
<1>6. TablesTyped'
  BY <1>2, <1>4, <1>5 DEF TablesTyped, TableInv, EndpointTypeOK
<1> QED
  BY <1>2, <1>5, <1>6, SameRelay, Together DEF TableInv, EndpointTypeOK

-----------------------------------------------------------------------------
(* Messages that arrive.                                                   *)

\* A message that is taken from its queue.
LEMMA TakenKeeps ==
  ASSUME TableInv, NEW s \in DOMAIN relay, relay[s] # <<>>, relay' = Taken(s)
  PROVE  relay' \in Seq(Seq(Message)) /\ Len(relay') = Len(relay) /\ RelayGrows
BY TakenIsFewer, FewerGrows DEF TableInv, EndpointTypeOK

\* The message at the head of a queue, its sender and its receiver.
LEMMA HeadIs ==
  ASSUME TableInv, NEW s \in DOMAIN relay, relay[s] # <<>>
  PROVE  /\ Fewer(Taken(s)) /\ Head(relay[s]) \in Message /\ Meant(s, Head(relay[s]))
         /\ s \in 1 .. Len(owner) /\ s \in Serial
         /\ owner[s] \in Peer /\ Other(owner[s]) \in Peer /\ Other(owner[s]) # owner[s]
<1>1. s \in 1 .. Len(relay) /\ s \in 1 .. Len(owner)
  BY LenProperties DEF TableInv, EndpointTypeOK
<1>2. Fewer(Taken(s)) /\ Head(relay[s]) \in Message /\ Head(relay[s]) \in On(s)
  BY TakenIsFewer DEF TableInv, EndpointTypeOK
<1>3. Meant(s, Head(relay[s]))
  BY <1>1, <1>2 DEF TableInv, RelayInv
<1>4. owner[s] \in Peer
  BY <1>1, ElementOfSeq DEF TableInv, EndpointTypeOK
<1>5. s \in Serial
  BY <1>1, OwnerLen, EndpointAssumption DEF Serial, TableInv, EndpointTypeOK
<1> QED
  BY <1>1, <1>2, <1>3, <1>4, <1>5, Two DEF Other, Peer

\* A new connection that sends nothing at once.
LEMMA ReplaceKeeps ==
  ASSUME TableInv, NEW p \in Peer, NEW s \in DOMAIN relay, relay[s] # <<>>,
         NEW id \in Serial \cup {None}, NEW remote \in Serial \cup {None},
         NEW c, c.id = id, c.remote = remote,
         Fresh(c, id, Attempt(p), remote),
         p = Offerer => id = New /\ remote = None,
         p = Answerer => id = remote /\ (id # None => OfferSent(id)),
         Install(p, c, <<>>, Taken(s)), rtcErrors' = rtcErrors, stopped' = stopped
  PROVE  TableInv'
<1>1. New <= MaxConnections /\ relay' = Append(Taken(s), <<>>)
  BY DEF Install
<1>2. /\ c \in Connection /\ c.serial = New /\ c.sent = "nothing" /\ ~c.open
      /\ c.attempt = IF Attempt(p) = None THEN New ELSE Attempt(p)
  <2> DEFINE a == Attempt(p)
  <2>1. Fresh(c, id, a, remote)
    OBVIOUS
  <2> HIDE DEF a
  <2>2. /\ c \in Connection /\ c.serial = New /\ c.sent = "nothing" /\ ~c.open
        /\ c.attempt = IF a = None THEN New ELSE a
    BY <1>1, <2>1, CreatedIs
  <2> QED
    BY <2>2 DEF a
<1>3. /\ OwnerGrows /\ SentStays /\ PeersInv' /\ TablesTyped'
      /\ owner' \in Seq(Peer) /\ Len(owner') = Len(owner) + 1 /\ Len(owner') <= MaxConnections
  BY <1>2, Installs
<1>4. <<>> \in Seq(Message) /\ Len(<<>>) = 0
  BY EmptySeq
<1>5. \A k : k = Len(relay) + 1 => \A i \in 1 .. 0 : Meant(k, <<>>[i])'
  OBVIOUS
<1>6. relay' \in Seq(Seq(Message)) /\ Len(relay') = Len(relay) + 1 /\ RelayGrows
  BY <1>1, <1>4, <1>5, HeadIs, AppendGrows DEF TableInv, EndpointTypeOK
<1> QED
  BY <1>3, <1>6, Together DEF TableInv, EndpointTypeOK

\* An offer comes from the offerer, and has been sent.
LEMMA OnOfferKeeps ==
  ASSUME TableInv, NEW s \in DOMAIN relay, relay[s] # <<>>,
         NEW m, m = Head(relay[s]), m.type = "offer",
         NEW p \in Peer, p = Other(owner[s]), OnOffer(p, s, m),
         rtcErrors' = rtcErrors, stopped' = stopped
  PROVE  TableInv'
<1>1. m \in Message /\ owner[s] = Offerer /\ m.id = s /\ OfferSent(s) /\ s \in Serial
  BY HeadIs DEF Meant
<1>2. p = Answerer /\ p # Offerer
  BY <1>1, Two DEF Other
<1>3. CASE \E c \in Current(p) : c.id = None
  <2>1. PICK c \in Current(p) : Update(p, c, [c EXCEPT !.id = m.id, !.remote = s])
    BY <1>3 DEF OnOffer
  <2>2. relay' = Taken(s) /\ owner' = owner /\ current' = current /\ attempts' = attempts
        /\ negotiated' = negotiated /\ announced' = announced
    BY <1>3 DEF OnOffer
  <2> DEFINE d == [c EXCEPT !.id = m.id, !.remote = s]
  <2>3. c \in live[p] /\ c \in Connection /\ Holds(p, c) /\ Sound(p, c)
    BY HeldIs DEF Holds
  <2>4. /\ d \in Connection /\ d.serial = c.serial /\ d.sent = c.sent /\ d.open = c.open
        /\ d.attempt = c.attempt /\ d.id = s /\ d.remote = s
    BY <1>1, <2>3 DEF Connection
  <2> HIDE DEF d
  <2>5. Update(p, c, d)
    BY <2>1 DEF d
  <2>6. OwnerGrows /\ SentStays /\ PeersInv' /\ live' \in [Peer -> SUBSET Connection]
    BY <1>1, <1>2, <2>2, <2>3, <2>4, <2>5, Updates DEF Holds, Sound
  <2>7. TablesTyped'
    BY <2>2, <2>6 DEF TablesTyped, TableInv, EndpointTypeOK
  <2> QED
    BY <2>2, <2>6, <2>7, TakenKeeps, Together DEF TableInv, EndpointTypeOK
<1>4. CASE ~ \E c \in Current(p) : c.id = None
  <2> DEFINE c == [Created(m.id, Attempt(p)) EXCEPT !.remote = s]
  <2>1. Install(p, c, <<>>, Taken(s))
    BY <1>4 DEF OnOffer
  <2>2. c.id = s /\ c.remote = s
    BY <1>1 DEF Created
  <2>3. Fresh(c, s, Attempt(p), s)
    BY <1>1, AttemptTyped DEF Fresh
  <2> HIDE DEF c
  <2> QED
    BY <1>1, <1>2, <2>1, <2>2, <2>3, ReplaceKeeps
<1> QED
  BY <1>3, <1>4

\* An answer was made for an offer that was sent.
LEMMA OnAnswerKeeps ==
  ASSUME TableInv, NEW s \in DOMAIN relay, relay[s] # <<>>,
         NEW m, m = Head(relay[s]), m.type = "answer",
         NEW p \in Peer, p = Other(owner[s]), OnAnswer(p, s, m),
         rtcErrors' = rtcErrors, stopped' = stopped
  PROVE  TableInv'
<1>1. m \in Message /\ owner[s] = Answerer /\ m.to = m.id /\ OfferSent(m.id) /\ s \in Serial
      /\ s \in 1 .. Len(owner)
  BY HeadIs DEF Meant
<1>2. p = Offerer /\ p # Answerer
  BY <1>1, Two DEF Other
<1>3. relay' = Taken(s) /\ owner' = owner /\ current' = current /\ attempts' = attempts
      /\ announced' = announced
  BY DEF OnAnswer
<1>4. CASE \E c \in Current(p) : c.id = m.id
  <2>1. PICK c \in Current(p) : Update(p, c, [c EXCEPT !.remote = s, !.to = m.to])
    BY <1>4 DEF OnAnswer
  <2>2. negotiated' = [negotiated EXCEPT ![p] = TRUE]
    BY <1>4 DEF OnAnswer
  <2> DEFINE d == [c EXCEPT !.remote = s, !.to = m.to]
  <2>3. c \in live[p] /\ c \in Connection /\ Holds(p, c) /\ Sound(p, c) /\ Current(p) = {c}
    BY HeldIs DEF Holds
  <2>4. /\ d \in Connection /\ d.serial = c.serial /\ d.sent = c.sent /\ d.open = c.open
        /\ d.attempt = c.attempt /\ d.id = c.id /\ d.remote = s /\ d.to = m.to
    BY <1>1, <2>3 DEF Connection, Message
  <2>5. c.id = m.id /\ c.id = c.serial /\ c.sent # "nothing"
    BY <1>1, <1>2, <1>4, <2>3 DEF Sound, OfferSent
  <2> HIDE DEF d
  <2>6. Update(p, c, d)
    BY <2>1 DEF d
  <2>7. negotiated' \in [Peer -> BOOLEAN] /\ negotiated'[p]
        /\ \A q \in Peer : q # p => negotiated'[q] = negotiated[q]
    BY <2>2 DEF TableInv, EndpointTypeOK
  <2>8. OwnerGrows /\ SentStays /\ PeersInv' /\ live' \in [Peer -> SUBSET Connection]
    BY <1>1, <1>2, <1>3, <2>3, <2>4, <2>5, <2>6, <2>7, Updates DEF Holds, Sound
  <2>9. TablesTyped'
    BY <1>3, <2>7, <2>8 DEF TablesTyped, TableInv, EndpointTypeOK
  <2> QED
    BY <1>3, <2>8, <2>9, TakenKeeps, Together DEF TableInv, EndpointTypeOK
<1>5. CASE ~ \E c \in Current(p) : c.id = m.id
  <2>1. live' = live /\ negotiated' = negotiated
    BY <1>5 DEF OnAnswer
  <2> QED
    BY <1>3, <2>1, TablesSame, TakenKeeps, Together
    DEF TableInv, EndpointTypeOK, tablesUnchanged
<1> QED
  BY <1>4, <1>5

LEMMA OnCandidateKeeps ==
  ASSUME TableInv, NEW s \in DOMAIN relay, relay[s] # <<>>,
         NEW m, NEW p \in Peer, OnCandidate(p, s, m),
         rtcErrors' = rtcErrors, stopped' = stopped
  PROVE  TableInv'
<1>1. relay' = Taken(s) /\ owner' = owner
  BY DEF OnCandidate
<1>2. OwnerGrows /\ SentStays /\ PeersInv' /\ TablesTyped'
  <2>1. CASE \E c \in Current(p) : Close(p, c)
    BY <1>1, <2>1, HeldIs, Closes
  <2>2. CASE UNCHANGED <<live, current, attempts, negotiated, announced>>
    BY <1>1, <2>2, TablesSame DEF tablesUnchanged
  <2> QED
    BY <2>1, <2>2 DEF OnCandidate
<1> QED
  BY <1>1, <1>2, TakenKeeps, Together DEF TableInv, EndpointTypeOK

LEMMA OnConnectKeeps ==
  ASSUME TableInv, NEW s \in DOMAIN relay, relay[s] # <<>>,
         NEW m, m = Head(relay[s]), m.type = "connect",
         NEW p \in Peer, p = Other(owner[s]), OnConnect(p, s),
         rtcErrors' = rtcErrors, stopped' = stopped
  PROVE  TableInv'
<1>1. owner[s] = Answerer
  BY HeadIs DEF Meant
<1>2. p = Offerer /\ p # Answerer
  BY <1>1, Two DEF Other
<1> DEFINE c == Created(New, Attempt(p))
<1>3. Install(p, c, <<>>, Taken(s))
  BY DEF OnConnect
<1>4. c.id = New /\ c.remote = None
  BY DEF Created
<1>5. New \in Serial
  BY <1>3, OwnerLen, EndpointAssumption DEF Install, New, Serial
<1> HIDE DEF c
<1>6. Fresh(c, New, Attempt(p), None)
  BY <1>5, AttemptTyped DEF c, Fresh
<1> QED
  BY <1>2, <1>3, <1>4, <1>5, <1>6, ReplaceKeeps

LEMMA ReceiveKeeps == ASSUME TableInv, NEW s \in DOMAIN relay, Receive(s) PROVE TableInv'
<1> DEFINE m == Head(relay[s])
           p == Other(owner[s])
<1>1. relay[s] # <<>> /\ rtcErrors' = rtcErrors /\ stopped' = stopped
  BY DEF Receive
<1>2. p \in Peer
  BY <1>1, HeadIs
<1>3. CASE stopped[p]
  <2>1. relay' = Taken(s) /\ tablesUnchanged
    BY <1>3 DEF Receive, tablesUnchanged
  <2> QED
    BY <1>1, <2>1, TablesSame, TakenKeeps, Together DEF TableInv, EndpointTypeOK, tablesUnchanged
<1>4. CASE ~stopped[p]
  <2>1. \/ m.type = "offer" /\ OnOffer(p, s, m)
        \/ m.type = "answer" /\ OnAnswer(p, s, m)
        \/ m.type = "candidate" /\ OnCandidate(p, s, m)
        \/ m.type = "connect" /\ OnConnect(p, s)
    BY <1>4 DEF Receive
  <2>2. CASE m.type = "offer" /\ OnOffer(p, s, m)
    BY <1>1, <1>2, <2>2, OnOfferKeeps
  <2>3. CASE m.type = "answer" /\ OnAnswer(p, s, m)
    BY <1>1, <1>2, <2>3, OnAnswerKeeps
  <2>4. CASE OnCandidate(p, s, m)
    BY <1>1, <1>2, <2>4, OnCandidateKeeps
  <2>5. CASE m.type = "connect" /\ OnConnect(p, s)
    BY <1>1, <1>2, <2>5, OnConnectKeeps
  <2> QED
    BY <2>1, <2>2, <2>3, <2>4, <2>5
<1> QED
  BY <1>3, <1>4

LEMMA LoseKeeps ==
  ASSUME TableInv, NEW s \in DOMAIN relay, NEW unknownPeer \in BOOLEAN, Lose(s, unknownPeer)
  PROVE  TableInv'
<1>1. relay[s] # <<>> /\ relay' = Taken(s) /\ stopped' = stopped /\ tablesUnchanged
  BY DEF Lose, tablesUnchanged
<1>2. rtcErrors' \subseteq Peer
  BY <1>1, HeadIs DEF Lose, TableInv, EndpointTypeOK
<1> QED
  BY <1>1, <1>2, TablesSame, TakenKeeps, Together DEF TableInv, EndpointTypeOK, tablesUnchanged

LEMMA OnErrorKeeps == ASSUME TableInv, NEW p \in Peer, OnError(p) PROVE TableInv'
<1>1. owner' = owner /\ relay' = relay /\ stopped' = stopped /\ rtcErrors' \subseteq Peer
  BY DEF OnError, TableInv, EndpointTypeOK
<1>2. OwnerGrows /\ SentStays /\ PeersInv' /\ TablesTyped'
  <2>1. CASE \E c \in Current(p) : Close(p, c)
    BY <1>1, <2>1, HeldIs, Closes
  <2>2. CASE UNCHANGED <<live, current, attempts, negotiated, announced>>
    BY <1>1, <2>2, TablesSame DEF tablesUnchanged
  <2> QED
    BY <2>1, <2>2 DEF OnError
<1> QED
  BY <1>1, <1>2, SameRelay, Together DEF TableInv, EndpointTypeOK

-----------------------------------------------------------------------------
(* The theorem.                                                            *)

\* At the start there is nothing.
LEMMA InitTable == EndpointInit => TableInv
<1> SUFFICES ASSUME EndpointInit PROVE TableInv
  OBVIOUS
<1> USE DEF EndpointInit
<1>1. <<>> \in Seq(Peer) /\ <<>> \in Seq(Seq(Message)) /\ Len(<<>>) = 0
  BY EmptySeq
<1>2. EndpointTypeOK
  BY <1>1, EndpointAssumption DEF EndpointTypeOK
<1>3. PeersInv
  BY DEF PeersInv, PeerInv, NoConnection
<1>4. RelayInv
  BY <1>1 DEF RelayInv
<1> QED
  BY <1>2, <1>3, <1>4 DEF TableInv

\* Every step of the endpoints keeps the tables and the messages in agreement.
THEOREM NextTable == TableInv /\ [EndpointNext]_endpointVars => TableInv'
<1> SUFFICES ASSUME TableInv, [EndpointNext]_endpointVars
             PROVE  TableInv'
  OBVIOUS
<1>1. ASSUME NEW p \in Peer, NEW trackerInstructed \in BOOLEAN, Connect(p, trackerInstructed)
      PROVE  TableInv'
  BY <1>1, ConnectKeeps
<1>2. ASSUME NEW p \in Peer, Disconnect(p) \/ Stop(p) \/ OnError(p)
      PROVE  TableInv'
  BY <1>2, DisconnectKeeps, StopKeeps, OnErrorKeeps
<1>3. ASSUME NEW p \in Peer, NEW c \in live[p], LocalDescription(p, c) \/ LocalCandidate(p, c)
      PROVE  TableInv'
  BY <1>3, LocalDescriptionKeeps, LocalCandidateKeeps
<1>4. ASSUME NEW p \in Peer, NEW c \in live[p], Connecting(p, c) \/ Connected(p, c) \/ Open(p, c)
      PROVE  TableInv'
  BY <1>4, LibraryKeeps
<1>5. ASSUME NEW p \in Peer, NEW c \in live[p], Break(p, c) \/ ConnectionTimeout(p, c)
      PROVE  TableInv'
  BY <1>5, CloseOnlyKeeps DEF Break, ConnectionTimeout
<1>6. ASSUME NEW s \in DOMAIN relay, Receive(s)
      PROVE  TableInv'
  BY <1>6, ReceiveKeeps
<1>7. ASSUME NEW s \in DOMAIN relay, NEW unknownPeer \in BOOLEAN, Lose(s, unknownPeer)
      PROVE  TableInv'
  BY <1>7, LoseKeeps
<1>8. CASE UNCHANGED endpointVars
  <2>1. /\ tablesUnchanged
        /\ relay' = relay /\ rtcErrors' = rtcErrors /\ stopped' = stopped
    BY <1>8 DEF endpointVars, tablesUnchanged
  <2> QED
    BY <2>1, TablesSame, SameRelay, Together DEF TableInv, EndpointTypeOK, tablesUnchanged
<1> QED
  BY <1>1, <1>2, <1>3, <1>4, <1>5, <1>6, <1>7, <1>8 DEF EndpointNext

LEMMA TableParts == TableInv => EndpointInv
<1> SUFFICES ASSUME TableInv PROVE EndpointInv
  OBVIOUS
<1>1. ASSUME NEW p \in Peer
      PROVE  /\ {c.serial : c \in live[p]} = {current[p]} \ {None}
             /\ announced[p] <=> \E c \in live[p] : c.open
             /\ negotiated[p] <=> \E c \in live[p] : c.sent # "nothing"
             /\ attempts[p] = {c.attempt : c \in live[p]} \ {None}
             /\ \A c \in live[p] : c.attempt = None <=> c.open
  <2>1. CASE live[p] = {}
    BY <2>1, HeldIs DEF NoConnection
  <2>2. CASE live[p] # {}
    <3>1. PICK c \in live[p] : c \in Connection /\ Holds(p, c)
      BY <2>2, HeldIs
    <3>2. c.serial \in Serial
      BY <3>1 DEF Connection
    <3> QED
      BY <3>1, <3>2, Two DEF Holds, Sound
  <2> QED
    BY <2>1, <2>2
<1>2. AnswersMatch
  BY HeldIs, Two DEF AnswersMatch, Holds, Sound
<1> QED
  BY <1>1, <1>2 DEF EndpointInv, OneConnection, AttemptsAreHeld, TableInv

\* At each of two peers one connection object counts: it is the one in the endpoint's
\* table, it agrees with what the node was told, it holds the promise of connect until that
\* settles, and the answer that the offerer's took was made for its own offer, whatever is
\* replaced, closed, stopped, lost or overtaken (WebRtcEndpoint.ts).
THEOREM OneConnectionCounts == EndpointSpec => []EndpointInv
<1>1. EndpointSpec => []TableInv
  BY InitTable, NextTable, PTL DEF EndpointSpec
<1> QED
  BY <1>1, TableParts, PTL

-----------------------------------------------------------------------------
(* Sending over the connections to one peer.                               *)

Entry == [message : Payload, tries : 0 .. MaxTries - 1]

\* A pause ends with an event that is due, and belongs to a connection that was open.
PauseInv ==
  /\ channelOpen => phase = "open"
  /\ phase = "connecting" => ~paused
  /\ paused /\ channelOpen => lowEvent \/ buffered > Low

\* A message is in a queue once.
Once(entries) ==
  \A i, j \in 1 .. Len(entries) : entries[i].message = entries[j].message => i = j

\* The messages of a queue were sent in its order.
InOrder(entries, sentOrder) ==
  /\ \A i \in 1 .. Len(entries) :
       \E a \in 1 .. Len(sentOrder) : sentOrder[a] = entries[i].message
  /\ \A i, j \in 1 .. Len(entries) : i < j =>
       \E a, b \in 1 .. Len(sentOrder) :
         a < b /\ sentOrder[a] = entries[i].message /\ sentOrder[b] = entries[j].message

\* The queue has the messages that are queued.
HasQueued(entries, states) ==
  \A m \in Payload :
    states[m] = "queued" <=> \E i \in 1 .. Len(entries) : entries[i].message = m

HoldsInv == Once(queue) /\ InOrder(queue, order) /\ HasQueued(queue, settled)

\* The inductive invariant of the sending.
SendingInv == ConnectionTypeOK /\ PauseInv /\ FlushIsDue /\ HoldsInv

LEMMA Bounds ==
  /\ MaxSize \in Nat \ {0} /\ MaxTries \in Nat \ {0} /\ MaxBurst \in Nat \ {0}
  /\ High \in Nat /\ Low \in Nat /\ Low < High /\ MaxPingAttempts \in Nat
BY ConnectionAssumption

LEMMA QueueTyped ==
  ASSUME ConnectionTypeOK
  PROVE  /\ queue \in Seq(Entry) /\ Len(queue) \in Nat /\ DOMAIN queue = 1 .. Len(queue)
         /\ order \in Seq(Payload) /\ Len(order) \in Nat /\ DOMAIN order = 1 .. Len(order)
         /\ \A i \in 1 .. Len(queue) : queue[i] \in Entry /\ queue[i].message \in Payload
         /\ queue # <<>> =>
              /\ Len(queue) > 0 /\ Head(queue) = queue[1]
              /\ Tail(queue) \in Seq(Entry) /\ Len(Tail(queue)) = Len(queue) - 1
              /\ \A i \in 1 .. Len(queue) - 1 : Tail(queue)[i] = queue[i + 1]
<1>1. queue \in Seq(Entry) /\ order \in Seq(Payload)
  BY DEF ConnectionTypeOK, Entry
<1>2. /\ Len(queue) \in Nat /\ DOMAIN queue = 1 .. Len(queue)
      /\ Len(order) \in Nat /\ DOMAIN order = 1 .. Len(order)
  BY <1>1, LenProperties
<1>3. ASSUME NEW i \in 1 .. Len(queue)
      PROVE  queue[i] \in Entry /\ queue[i].message \in Payload
  <2>1. queue[i] \in Entry
    BY <1>1, ElementOfSeq
  <2> QED
    BY <2>1 DEF Entry
<1>4. ASSUME queue # <<>>
      PROVE  /\ Len(queue) > 0 /\ Head(queue) = queue[1]
             /\ Tail(queue) \in Seq(Entry) /\ Len(Tail(queue)) = Len(queue) - 1
             /\ \A i \in 1 .. Len(queue) - 1 : Tail(queue)[i] = queue[i + 1]
  <2>1. /\ Tail(queue) \in Seq(Entry) /\ Len(Tail(queue)) = Len(queue) - 1
        /\ \A i \in 1 .. Len(Tail(queue)) : Tail(queue)[i] = queue[i + 1]
    BY <1>1, <1>4, HeadTailProperties
  <2>2. Len(queue) > 0
    BY <1>1, <1>4, EmptySeq
  <2> QED
    BY <1>1, <2>1, <2>2
<1> QED
  BY <1>1, <1>2, <1>3, <1>4

\* The head of the queue ends.
LEMMA PopKeeps ==
  ASSUME ConnectionTypeOK, HoldsInv, queue # <<>>, NEW how \in {"delivered", "failed"},
         queue' = Tail(queue), settled' = [settled EXCEPT ![Head(queue).message] = how],
         order' = order
  PROVE  /\ HoldsInv'
         /\ queue' \in Seq(Entry) /\ Len(queue') <= MaxSize
         /\ settled' \in [Payload -> {"no", "queued", "delivered", "failed"}]
<1>1. /\ Len(queue) \in Nat /\ Len(queue) > 0 /\ Head(queue) = queue[1]
      /\ queue' \in Seq(Entry) /\ Len(queue') = Len(queue) - 1
      /\ \A i \in 1 .. Len(queue') : i + 1 \in 1 .. Len(queue) /\ queue'[i] = queue[i + 1]
      /\ 1 \in 1 .. Len(queue) /\ queue[1].message \in Payload
  BY QueueTyped
<1>2. settled' = [settled EXCEPT ![queue[1].message] = how]
  BY <1>1
<1>3. Once(queue')
  <2> SUFFICES ASSUME NEW i \in 1 .. Len(queue'), NEW j \in 1 .. Len(queue'),
                      queue'[i].message = queue'[j].message
               PROVE  i = j
    BY DEF Once
  <2>1. i + 1 = j + 1
    BY <1>1 DEF HoldsInv, Once
  <2> QED
    BY <1>1, <2>1
<1>4. InOrder(queue', order')
  <2>1. \A i \in 1 .. Len(queue') : \E a \in 1 .. Len(order) : order[a] = queue'[i].message
    BY <1>1 DEF HoldsInv, InOrder
  <2>2. ASSUME NEW i \in 1 .. Len(queue'), NEW j \in 1 .. Len(queue'), i < j
        PROVE  \E a, b \in 1 .. Len(order) :
                 a < b /\ order[a] = queue'[i].message /\ order[b] = queue'[j].message
    <3>1. i + 1 \in 1 .. Len(queue) /\ j + 1 \in 1 .. Len(queue) /\ i + 1 < j + 1
      BY <1>1, <2>2
    <3> QED
      BY <1>1, <3>1 DEF HoldsInv, InOrder
  <2> QED
    BY <2>1, <2>2 DEF InOrder
<1>5. HasQueued(queue', settled')
  <2> SUFFICES ASSUME NEW m \in Payload
               PROVE  settled'[m] = "queued" <=> \E i \in 1 .. Len(queue') : queue'[i].message = m
    BY DEF HasQueued
  <2>1. settled[m] = "queued" <=> \E i \in 1 .. Len(queue) : queue[i].message = m
    BY DEF HoldsInv, HasQueued
  <2>2. settled'[m] = IF m = queue[1].message THEN how ELSE settled[m]
    BY <1>1, <1>2 DEF ConnectionTypeOK
  <2>3. CASE m = queue[1].message
    <3>1. ~ \E i \in 1 .. Len(queue') : queue'[i].message = m
      <4> SUFFICES ASSUME NEW i \in 1 .. Len(queue'), queue'[i].message = m
                   PROVE  FALSE
        OBVIOUS
      <4>1. i + 1 = 1
        BY <1>1, <2>3 DEF HoldsInv, Once
      <4> QED
        BY <1>1, <4>1
    <3> QED
      BY <2>2, <2>3, <3>1
  <2>4. CASE m # queue[1].message
    <3>1. ASSUME NEW i \in 1 .. Len(queue), queue[i].message = m
          PROVE  i - 1 \in 1 .. Len(queue') /\ queue'[i - 1].message = m
      <4>1. i # 1
        BY <2>4, <3>1
      <4>2. i - 1 \in 1 .. Len(queue') /\ (i - 1) + 1 = i
        BY <1>1, <4>1
      <4> QED
        BY <1>1, <3>1, <4>2
    <3>2. \A i \in 1 .. Len(queue') : queue'[i].message = m =>
            \E j \in 1 .. Len(queue) : queue[j].message = m
      BY <1>1
    <3> QED
      BY <2>1, <2>2, <2>4, <3>1, <3>2
  <2> QED
    BY <2>3, <2>4
<1>6. settled' \in [Payload -> {"no", "queued", "delivered", "failed"}]
  BY <1>1, <1>2 DEF ConnectionTypeOK
<1> QED
  BY <1>1, <1>3, <1>4, <1>5, <1>6, Bounds DEF HoldsInv, ConnectionTypeOK

\* A retry counts the tries of the head.
LEMMA RetryKeeps ==
  ASSUME ConnectionTypeOK, HoldsInv, queue # <<>>, NEW tries, tries = Head(queue).tries + 1,
         tries < MaxTries, queue' = [queue EXCEPT ![1].tries = tries],
         settled' = settled, order' = order
  PROVE  HoldsInv' /\ queue' \in Seq(Entry) /\ Len(queue') = Len(queue)
<1>1. 1 \in 1 .. Len(queue) /\ queue[1] \in Entry /\ Head(queue) = queue[1] /\ queue \in Seq(Entry)
  BY QueueTyped
<1> DEFINE e == [queue[1] EXCEPT !.tries = tries]
<1>2. e \in Entry /\ e.message = queue[1].message
  <2>1. tries \in 0 .. MaxTries - 1
    BY <1>1, Bounds DEF Entry
  <2> QED
    BY <1>1, <2>1 DEF Entry
<1>3. queue' = [queue EXCEPT ![1] = e]
  BY <1>1
<1> HIDE DEF e
<1>4. /\ queue' \in Seq(Entry) /\ Len(queue') = Len(queue)
      /\ \A j \in 1 .. Len(queue) : queue'[j] = IF j = 1 THEN e ELSE queue[j]
  BY <1>1, <1>2, <1>3, ExceptSeq
<1>5. \A j \in 1 .. Len(queue) : queue'[j].message = queue[j].message
  BY <1>2, <1>4
<1>6. Once(queue')
  BY <1>4, <1>5 DEF HoldsInv, Once
<1>7. InOrder(queue', order')
  BY <1>4, <1>5 DEF HoldsInv, InOrder
<1>8. HasQueued(queue', settled')
  BY <1>4, <1>5 DEF HoldsInv, HasQueued
<1> QED
  BY <1>4, <1>6, <1>7, <1>8 DEF HoldsInv

\* A message is sent for the first time; a full queue drops its oldest one.
LEMMA SendKeeps ==
  ASSUME ConnectionTypeOK, HoldsInv, NEW m \in Payload, settled[m] = "no", Add(m),
         order' = Append(order, m)
  PROVE  /\ HoldsInv'
         /\ queue' \in Seq(Entry) /\ Len(queue') <= MaxSize
         /\ settled' \in [Payload -> {"no", "queued", "delivered", "failed"}]
         /\ order' \in Seq(Payload)
<1> DEFINE full == Len(queue) = MaxSize
           rest == IF full THEN Tail(queue) ELSE queue
           new == [message |-> m, tries |-> 0]
           cut == IF full THEN 1 ELSE 0
<1>1. Len(queue) \in Nat /\ Len(queue) <= MaxSize /\ (full => queue # <<>>)
  BY Bounds, QueueTyped, EmptySeq DEF ConnectionTypeOK
<1>2. /\ cut \in {0, 1} /\ cut <= Len(queue)
      /\ rest \in Seq(Entry) /\ Len(rest) = Len(queue) - cut /\ Len(rest) \in Nat
      /\ Len(rest) < MaxSize
      /\ \A i \in 1 .. Len(rest) : i + cut \in 1 .. Len(queue) /\ rest[i] = queue[i + cut]
  <2>1. CASE full
    BY <1>1, <2>1, QueueTyped, Bounds
  <2>2. CASE ~full
    BY <1>1, <2>2, QueueTyped, Bounds DEF ConnectionTypeOK
  <2> QED
    BY <2>1, <2>2
<1>3. new \in Entry /\ new.message = m
  BY Bounds DEF Entry
<1>4. /\ queue' = Append(rest, new)
      /\ settled' = [n \in Payload |-> IF n = m THEN "queued"
                                       ELSE IF full /\ n = Head(queue).message THEN "failed"
                                       ELSE settled[n]]
  BY DEF Add
<1>5. full <=> cut = 1
  OBVIOUS
<1> HIDE DEF rest, new, cut, full
<1>6. /\ queue' \in Seq(Entry) /\ Len(queue') = Len(rest) + 1
      /\ \A i \in 1 .. Len(rest) : queue'[i] = queue[i + cut]
      /\ queue'[Len(rest) + 1].message = m
  BY <1>2, <1>3, <1>4, AppendProperties
<1>7. /\ order' \in Seq(Payload) /\ Len(order) \in Nat /\ Len(order') = Len(order) + 1
      /\ \A a \in 1 .. Len(order) : order'[a] = order[a]
      /\ order'[Len(order) + 1] = m
  BY QueueTyped, AppendProperties
<1>8. \A i \in 1 .. Len(queue) : queue[i].message # m
  BY DEF HoldsInv, HasQueued
<1>9. ASSUME NEW i \in 1 .. Len(rest)
      PROVE  /\ i \in 1 .. Len(queue') /\ i \in Nat /\ cut \in Nat
             /\ i + cut \in 1 .. Len(queue) /\ queue'[i].message = queue[i + cut].message
  BY <1>2, <1>6
<1>10. ASSUME NEW i \in 1 .. Len(queue'), i \notin 1 .. Len(rest)
       PROVE  i = Len(rest) + 1 /\ queue'[i].message = m
  <2>1. i = Len(rest) + 1
    BY <1>2, <1>6, <1>10
  <2> QED
    BY <1>6, <2>1
<1>11. /\ \A a \in 1 .. Len(order) : a \in 1 .. Len(order') /\ a < Len(order) + 1
       /\ Len(order) + 1 \in 1 .. Len(order')
  BY <1>7
<1>12. Once(queue')
  <2> SUFFICES ASSUME NEW i \in 1 .. Len(queue'), NEW j \in 1 .. Len(queue'),
                      queue'[i].message = queue'[j].message
               PROVE  i = j
    BY DEF Once
  <2>1. CASE i \in 1 .. Len(rest) /\ j \in 1 .. Len(rest)
    <3>1. queue[i + cut].message = queue[j + cut].message
      BY <1>9, <2>1
    <3>2. i + cut = j + cut
      BY <1>9, <2>1, <3>1 DEF HoldsInv, Once
    <3> QED
      BY <1>9, <2>1, <3>2
  <2>2. CASE i \in 1 .. Len(rest) /\ j \notin 1 .. Len(rest)
    BY <1>8, <1>9, <1>10, <2>2
  <2>3. CASE i \notin 1 .. Len(rest) /\ j \in 1 .. Len(rest)
    BY <1>8, <1>9, <1>10, <2>3
  <2>4. CASE i \notin 1 .. Len(rest) /\ j \notin 1 .. Len(rest)
    BY <1>10, <2>4
  <2> QED
    BY <2>1, <2>2, <2>3, <2>4
<1>13. InOrder(queue', order')
  <2>1. ASSUME NEW i \in 1 .. Len(rest)
        PROVE  \E a \in 1 .. Len(order) : order'[a] = queue'[i].message
    <3>1. PICK a \in 1 .. Len(order) : order[a] = queue[i + cut].message
      BY <1>9 DEF HoldsInv, InOrder
    <3> QED
      BY <1>7, <1>9, <3>1
  <2>2. ASSUME NEW i \in 1 .. Len(queue')
        PROVE  \E a \in 1 .. Len(order') : order'[a] = queue'[i].message
    <3>1. CASE i \in 1 .. Len(rest)
      BY <1>11, <2>1, <3>1
    <3>2. CASE i \notin 1 .. Len(rest)
      BY <1>7, <1>10, <1>11, <3>2
    <3> QED
      BY <3>1, <3>2
  <2>3. ASSUME NEW i \in 1 .. Len(queue'), NEW j \in 1 .. Len(queue'), i < j
        PROVE  \E a, b \in 1 .. Len(order') :
                 a < b /\ order'[a] = queue'[i].message /\ order'[b] = queue'[j].message
    <3>1. CASE j \in 1 .. Len(rest)
      <4>1. i \in 1 .. Len(rest)
        BY <2>3, <3>1
      <4>2. i + cut < j + cut
        BY <1>9, <2>3, <3>1, <4>1
      <4>3. PICK a \in 1 .. Len(order), b \in 1 .. Len(order) :
              a < b /\ order[a] = queue[i + cut].message /\ order[b] = queue[j + cut].message
        BY <1>9, <3>1, <4>1, <4>2 DEF HoldsInv, InOrder
      <4>4. a \in 1 .. Len(order') /\ b \in 1 .. Len(order')
            /\ order'[a] = queue'[i].message /\ order'[b] = queue'[j].message
        BY <1>7, <1>9, <1>11, <3>1, <4>1, <4>3
      <4> QED
        BY <4>3, <4>4
    <3>2. CASE j \notin 1 .. Len(rest)
      <4>1. j = Len(rest) + 1 /\ queue'[j].message = m
        BY <1>10, <3>2
      <4>2. i \in 1 .. Len(rest)
        BY <1>2, <2>3, <4>1
      <4>3. PICK a \in 1 .. Len(order) : order'[a] = queue'[i].message
        BY <2>1, <4>2
      <4> QED
        BY <1>7, <1>11, <4>1, <4>3
    <3> QED
      BY <3>1, <3>2
  <2> QED
    BY <2>2, <2>3 DEF InOrder
<1>14. HasQueued(queue', settled')
  <2> SUFFICES ASSUME NEW n \in Payload
               PROVE  settled'[n] = "queued" <=> \E i \in 1 .. Len(queue') : queue'[i].message = n
    BY DEF HasQueued
  <2>1. settled[n] = "queued" <=> \E i \in 1 .. Len(queue) : queue[i].message = n
    BY DEF HoldsInv, HasQueued
  <2>2. CASE n = m
    BY <1>2, <1>4, <1>6, <2>2
  <2>3. CASE n # m /\ cut = 1 /\ n = queue[1].message
    <3>1. settled'[n] = "failed"
      BY <1>1, <1>4, <1>5, <2>3, QueueTyped
    <3>2. ASSUME NEW i \in 1 .. Len(queue'), queue'[i].message = n
          PROVE  FALSE
      <4>1. i \in 1 .. Len(rest)
        BY <1>2, <1>6, <2>3, <3>2
      <4>2. i + 1 \in 1 .. Len(queue) /\ queue[i + 1].message = n /\ 1 \in 1 .. Len(queue)
        BY <1>2, <1>6, <2>3, <3>2, <4>1
      <4>3. i + 1 = 1
        BY <2>3, <4>2 DEF HoldsInv, Once
      <4> QED
        BY <4>1, <4>3
    <3> QED
      BY <3>1, <3>2
  <2>4. CASE n # m /\ (cut = 1 => n # queue[1].message)
    <3>1. settled'[n] = settled[n]
      BY <1>1, <1>4, <1>5, <2>4, QueueTyped
    <3>2. ASSUME NEW i \in 1 .. Len(queue), queue[i].message = n
          PROVE  \E j \in 1 .. Len(queue') : queue'[j].message = n
      <4>1. i - cut \in 1 .. Len(rest) /\ (i - cut) + cut = i
        BY <1>2, <2>4, <3>2
      <4>2. i - cut \in 1 .. Len(queue') /\ queue'[i - cut] = queue[i]
        BY <1>2, <1>6, <4>1
      <4> QED
        BY <3>2, <4>2
    <3>3. ASSUME NEW i \in 1 .. Len(queue'), queue'[i].message = n
          PROVE  \E j \in 1 .. Len(queue) : queue[j].message = n
      <4>1. i \in 1 .. Len(rest)
        BY <1>2, <1>6, <2>4, <3>3
      <4> QED
        BY <1>2, <1>6, <3>3, <4>1
    <3> QED
      BY <2>1, <3>1, <3>2, <3>3
  <2> QED
    BY <1>2, <2>2, <2>3, <2>4
<1>15. settled' \in [Payload -> {"no", "queued", "delivered", "failed"}]
  BY <1>4 DEF ConnectionTypeOK
<1> QED
  BY <1>2, <1>6, <1>7, <1>12, <1>13, <1>14, <1>15, Bounds DEF HoldsInv

\* Steps that leave the queue alone.
LEMMA QueueSame ==
  ASSUME HoldsInv, UNCHANGED queueVars
  PROVE  HoldsInv'
<1>1. queue' = queue /\ settled' = settled /\ order' = order
  BY DEF queueVars
<1> QED
  <2> HIDE DEF Once, InOrder, HasQueued
  <2> QED
    BY <1>1 DEF HoldsInv

\* The rest of the invariant: the flushing and its bounds.
FlushTypeOK ==
  /\ phase \in {"none", "connecting", "open"}
  /\ buffered \in Nat
  /\ pingAttempts \in 0 .. MaxPingAttempts
  /\ burst \in -1 .. MaxBurst

FlushInv == FlushTypeOK /\ PauseInv /\ FlushIsDue

LEMMA SendingParts ==
  SendingInv <=>
    /\ FlushInv /\ HoldsInv
    /\ queue \in Seq(Entry) /\ Len(queue) <= MaxSize
    /\ settled \in [Payload -> {"no", "queued", "delivered", "failed"}]
    /\ order \in Seq(Payload)
BY DEF SendingInv, ConnectionTypeOK, FlushInv, FlushTypeOK, Entry

\* The life of a connection.
LEMMA LifeKeeps ==
  ASSUME FlushInv,
         \/ NewConnection \/ EmitOpen \/ CloseConnection \/ OnChannelClosed
         \/ EmitLowBackpressure \/ Ping \/ Pong
  PROVE  FlushInv'
<1> USE Bounds DEF FlushInv, FlushTypeOK, PauseInv, FlushIsDue, Quiet, queueVars, pingVars, channelVars
<1>1. CASE NewConnection
  <2>1. FlushTypeOK'
    BY <1>1 DEF NewConnection
  <2>2. PauseInv'
    BY <1>1 DEF NewConnection
  <2>3. FlushIsDue'
    BY <1>1 DEF NewConnection
  <2> QED
    BY <2>1, <2>2, <2>3
<1>2. CASE EmitOpen
  BY <1>2 DEF EmitOpen
<1>3. CASE CloseConnection
  BY <1>3 DEF CloseConnection, Closed
<1>4. CASE OnChannelClosed
  BY <1>4 DEF OnChannelClosed, Closed
<1>5. CASE EmitLowBackpressure
  BY <1>5 DEF EmitLowBackpressure
<1>6. CASE Ping
  <2>1. FlushTypeOK'
    BY <1>6 DEF Ping, Closed
  <2>2. PauseInv'
    BY <1>6 DEF Ping, Closed
  <2>3. FlushIsDue'
    BY <1>6 DEF Ping, Closed
  <2> QED
    BY <2>1, <2>2, <2>3
<1>7. CASE Pong
  BY <1>7 DEF Pong
<1> QED
  BY <1>1, <1>2, <1>3, <1>4, <1>5, <1>6, <1>7

\* Sending, and the flushing.
LEMMA FlushKeeps ==
  ASSUME FlushInv,
         \/ \E m \in Payload : Send(m)
         \/ \E byTimer \in BOOLEAN : FlushStart(byTimer)
         \/ Flush
  PROVE  FlushInv'
<1> USE Bounds DEF FlushInv, FlushTypeOK, PauseInv, FlushIsDue, Quiet, queueVars, pingVars, channelVars,
                   flushUnchanged, FlushOn
<1>1. ASSUME NEW m \in Payload, Send(m)
      PROVE  FlushInv'
  BY <1>1 DEF Send
<1>2. ASSUME NEW byTimer \in BOOLEAN, FlushStart(byTimer)
      PROVE  FlushInv'
  BY <1>2 DEF FlushStart
<1>3. CASE FlushEnd
  BY <1>3 DEF FlushEnd
<1>4. CASE FlushYield
  BY <1>4 DEF FlushYield
<1>5. CASE FlushLarge
  BY <1>5 DEF FlushLarge
<1>6. CASE FlushPause
  BY <1>6 DEF FlushPause, CanSend, MustPause
<1>7. CASE FlushSent
  BY <1>7 DEF FlushSent, CanSend, MustPause
<1>8. CASE FlushFailed
  BY <1>8 DEF FlushFailed, CanSend, MustPause, ProcessFailed
<1> QED
  BY <1>1, <1>2, <1>3, <1>4, <1>5, <1>6, <1>7, <1>8 DEF Flush

\* The data channel.
LEMMA ChannelKeeps ==
  ASSUME FlushInv, Drain \/ ChannelCloses \/ PeerDies
  PROVE  FlushInv'
<1> USE Bounds DEF FlushInv, FlushTypeOK, PauseInv, FlushIsDue, Quiet, queueVars, pingVars
<1>1. CASE Drain
  <2>1. FlushTypeOK'
    BY <1>1 DEF Drain
  <2> DEFINE low == buffered' = Low
  <2>2. lowEvent' <=> lowEvent \/ low
    BY <1>1, Zenon DEF Drain
  <2>3. buffered' = buffered - 1 /\ buffered > 0
        /\ UNCHANGED <<queue, phase, channelOpen, paused, flushRef, flushTimeout, burst>>
    BY <1>1 DEF Drain
  <2>4. PauseInv'
    BY <2>2, <2>3
  <2>5. FlushIsDue'
    BY <2>2, <2>3
  <2> QED
    BY <2>1, <2>4, <2>5
<1>2. CASE ChannelCloses
  BY <1>2 DEF ChannelCloses
<1>3. CASE PeerDies
  BY <1>3 DEF PeerDies
<1> QED
  BY <1>1, <1>2, <1>3

\* The steps that change the queue.
LEMMA EntriesKeep ==
  ASSUME SendingInv,
         \/ \E m \in Payload : Send(m)
         \/ FlushLarge \/ FlushSent \/ FlushFailed
  PROVE  /\ HoldsInv' /\ queue' \in Seq(Entry) /\ Len(queue') <= MaxSize
         /\ settled' \in [Payload -> {"no", "queued", "delivered", "failed"}]
         /\ order' \in Seq(Payload)
<1> USE DEF SendingInv
<1>1. ASSUME NEW m \in Payload, Send(m)
      PROVE  /\ HoldsInv' /\ queue' \in Seq(Entry) /\ Len(queue') <= MaxSize
             /\ settled' \in [Payload -> {"no", "queued", "delivered", "failed"}]
             /\ order' \in Seq(Payload)
  <2>1. settled[m] = "no" /\ Add(m) /\ order' = Append(order, m)
    BY <1>1 DEF Send
  <2> QED
    BY <2>1, SendKeeps
<1>2. ASSUME NEW how \in {"delivered", "failed"}, Popped(how), queue # <<>>, order' = order
      PROVE  /\ HoldsInv' /\ queue' \in Seq(Entry) /\ Len(queue') <= MaxSize
             /\ settled' \in [Payload -> {"no", "queued", "delivered", "failed"}]
             /\ order' \in Seq(Payload)
  <2>1. queue' = Tail(queue) /\ settled' = [settled EXCEPT ![Head(queue).message] = how]
    BY <1>2 DEF Popped
  <2> QED
    BY <1>2, <2>1, PopKeeps DEF ConnectionTypeOK
<1>3. CASE FlushLarge
  BY <1>2, <1>3 DEF FlushLarge, FlushOn, flushUnchanged
<1>4. CASE FlushSent
  BY <1>2, <1>4 DEF FlushSent, CanSend, FlushOn, flushUnchanged
<1>5. CASE FlushFailed
  <2> DEFINE tries == Head(queue).tries + 1
  <2>1. queue # <<>> /\ order' = order /\ ProcessFailed
    BY <1>5 DEF FlushFailed, CanSend, FlushOn
  <2>2. CASE tries >= MaxTries
    <3>1. Popped("failed")
      BY <2>1, <2>2 DEF ProcessFailed
    <3> QED
      BY <1>2, <2>1, <3>1
  <2>3. CASE ~(tries >= MaxTries)
    <3>1. queue' = [queue EXCEPT ![1].tries = tries] /\ settled' = settled
      BY <2>1, <2>3 DEF ProcessFailed
    <3>2. tries < MaxTries
      <4>1. Head(queue) \in Entry
        BY <2>1, QueueTyped
      <4> QED
        BY <2>3, <4>1, Bounds DEF Entry
    <3>3. HoldsInv' /\ queue' \in Seq(Entry) /\ Len(queue') = Len(queue)
      BY <2>1, <3>1, <3>2, RetryKeeps
    <3> QED
      BY <2>1, <3>1, <3>3 DEF ConnectionTypeOK
  <2> QED
    BY <2>2, <2>3
<1> QED
  BY <1>1, <1>3, <1>4, <1>5

\* At the start nothing waits.
LEMMA InitSending == ConnectionInit => SendingInv
<1> SUFFICES ASSUME ConnectionInit PROVE SendingInv
  OBVIOUS
<1>1. <<>> \in Seq(Entry) /\ <<>> \in Seq(Payload) /\ Len(<<>>) = 0
  BY EmptySeq
<1>2. FlushInv
  <2>1. FlushTypeOK
    BY Bounds DEF ConnectionInit, FlushTypeOK
  <2>2. PauseInv /\ FlushIsDue
    BY DEF ConnectionInit, PauseInv, FlushIsDue
  <2> QED
    BY <2>1, <2>2 DEF FlushInv
<1>3. HoldsInv
  BY <1>1 DEF ConnectionInit, HoldsInv, Once, InOrder, HasQueued
<1> QED
  BY <1>1, <1>2, <1>3, SendingParts, Bounds DEF ConnectionInit

\* Every step of a connection keeps its queue whole and its flushing due.
THEOREM NextSending == SendingInv /\ [ConnectionNext]_connectionVars => SendingInv'
<1> SUFFICES ASSUME SendingInv, [ConnectionNext]_connectionVars
             PROVE  SendingInv'
  OBVIOUS
<1> DEFINE entriesInv ==
             /\ HoldsInv /\ queue \in Seq(Entry) /\ Len(queue) <= MaxSize
             /\ settled \in [Payload -> {"no", "queued", "delivered", "failed"}]
             /\ order \in Seq(Payload)
<1>1. FlushInv'
  <2>1. FlushInv
    BY SendingParts
  <2>2. CASE UNCHANGED connectionVars
    BY <2>1, <2>2 DEF connectionVars, FlushInv, FlushTypeOK, PauseInv, FlushIsDue, Quiet
  <2> QED
    BY <2>1, <2>2, LifeKeeps, FlushKeeps, ChannelKeeps DEF ConnectionNext
<1>2. entriesInv'
  <2>1. CASE (\E m \in Payload : Send(m)) \/ FlushLarge \/ FlushSent \/ FlushFailed
    BY <2>1, EntriesKeep
  <2>2. CASE UNCHANGED queueVars
    <3>1. HoldsInv'
      BY <2>2, QueueSame DEF SendingInv
    <3>2. entriesInv
      BY SendingParts
    <3> QED
      BY <2>2, <3>1, <3>2 DEF queueVars
  <2>3. CASE UNCHANGED connectionVars
    BY <2>2, <2>3 DEF connectionVars, queueVars
  <2>4. CASE \/ NewConnection \/ EmitOpen \/ CloseConnection \/ OnChannelClosed
             \/ EmitLowBackpressure \/ Ping \/ Pong \/ Drain \/ ChannelCloses \/ PeerDies
             \/ \E byTimer \in BOOLEAN : FlushStart(byTimer)
    BY <2>2, <2>4 DEF NewConnection, EmitOpen, CloseConnection, OnChannelClosed, Closed,
         EmitLowBackpressure, Ping, Pong, Drain, ChannelCloses, PeerDies, FlushStart
  <2>5. CASE FlushEnd \/ FlushYield \/ FlushPause
    BY <2>2, <2>5 DEF FlushEnd, FlushYield, FlushPause, flushUnchanged, queueVars
  <2> QED
    BY <2>1, <2>3, <2>4, <2>5 DEF ConnectionNext, Flush
<1> QED
  BY <1>1, <1>2, SendingParts DEF FlushInv, FlushTypeOK, PauseInv, FlushIsDue, Quiet, SendingInv,
     ConnectionTypeOK, Entry

LEMMA SendingIsQueueInv == SendingInv => QueueInv
<1> SUFFICES ASSUME SendingInv PROVE QueueInv
  OBVIOUS
<1>1. DOMAIN queue = 1 .. Len(queue) /\ DOMAIN order = 1 .. Len(order)
  BY QueueTyped DEF SendingInv
<1> QED
  BY <1>1 DEF SendingInv, HoldsInv, InOrder, HasQueued, QueueInv, QueueHoldsUnsettled

\* No message is left behind in the queue of a peer: across connections, retries, pauses and
\* overflow the queue holds what is not settled, in the order of the calls of send, and while
\* it waits on an open connection something is due that will flush it
\* (NodeWebRtcConnection.ts, MessageQueue.ts).
THEOREM NoMessageIsStuck == ConnectionSpec => []QueueInv
<1>1. ConnectionSpec => []SendingInv
  BY InitSending, NextSending, PTL DEF ConnectionSpec
<1> QED
  BY <1>1, SendingIsQueueInv, PTL
=============================================================================
