---------------------------- MODULE StreamMessages -----------------------------
(***************************************************************************)
(* What a message is and what happens to it on its way: StreamMessage.ts   *)
(* with its serializer, the keys it carries (EncryptedGroupKey.ts), the    *)
(* control message around it and the versions nodes agree on, and what a   *)
(* subscriber does with it (validateStreamMessage.ts, decrypt.ts).         *)
(*                                                                         *)
(* A text is kept as its form and what it says: "canonical" is what        *)
(* JSON.stringify writes, "spaced" another JSON text, "cipher" an          *)
(* encrypted one, "plain" no JSON at all.                                  *)
(***************************************************************************)
EXTENDS Integers

CONSTANTS
  Receiver,    \* subscriptions of one client that get the same object
  MaxHops,     \* how many nodes relay the message
  MaxChanges   \* how often the permissions or the partitions change

Side == {"sender", "receiver"}
Layer == {"control", "message"}
Versions(layer) == IF layer = "control" THEN {1, 2} ELSE {31, 32}

NoPrev == [t |-> 0, s |-> 0]
NoNewKey == [id |-> "none", under |-> "none", text |-> "none"]
Text(form) == [form |-> form, says |-> "content"]

\* What another implementation may do that this one does not.
Quirks == {"none", "spaced", "plain", "empty", "prevSame", "prevLater", "unknownType",
           "signatureType", "unknownVersion", "noKeyId", "keyText", "badKey", "otherSignature"}
Kinds == {"open", "encrypted", "announcing", "request", "response"}

VARIABLES
  original,   \* the array that was sent first, with the payload that was signed
  packet,     \* what is on its way: its control version, type and array
  speaks,     \* the versions of both ends of the connection
  agreed,     \* what they negotiated, 0 if nothing
  held,       \* the object of the node that has the message
  dropped,    \* the node could not make one
  hops,
  receivers,  \* how far each subscription is, and the object it made
  publishers, subscribers, partitions, \* what the registry says
  seen,       \* history: what each of them has said since a validation began
  store,      \* the ids of the keys that were announced
  over,       \* the client is destroyed
  changes

journeyVars == <<original, packet, speaks, agreed, held, dropped, hops, receivers, publishers,
                 subscribers, partitions, seen, store, over, changes>>

-----------------------------------------------------------------------------
(* The data.                                                               *)

\* MessageRef.compareTo(other) < 0
Precedes(a, b) == a.t < b.t \/ (a.t = b.t /\ a.s < b.s)

\* The text of an announced key: the one it came with, if it came with one.
KeyText(k) == IF k = NoNewKey THEN "none" ELSE IF k.text # "none" THEN k.text ELSE "canonical"

\* createSignaturePayload
Payload(m) ==
  <<m.partition, m.ref, m.publisher, m.prev, m.text, <<m.newKey.id, m.newKey.under, KeyText(m.newKey)>>>>

\* The message as its publisher makes it.
Original(kind, quirk) ==
  LET encrypted == kind \in {"encrypted", "announcing"}
      m == [version |-> IF quirk = "unknownVersion" THEN 30 ELSE 32,
            signatureType |-> IF quirk = "signatureType" THEN 1 ELSE 2,
            partition |-> 1, ref |-> [t |-> 2, s |-> 1], publisher |-> "pub",
            prev |-> CASE quirk = "prevSame" -> [t |-> 2, s |-> 1]
                       [] quirk = "prevLater" -> [t |-> 2, s |-> 2]
                       [] kind = "encrypted" -> NoPrev
                       [] OTHER -> [t |-> 1, s |-> 2],
            type |-> IF quirk = "unknownType" THEN "unknown"
                     ELSE IF kind \in {"request", "response"} THEN kind ELSE "message",
            enc |-> IF encrypted THEN "AES" ELSE IF kind = "response" THEN "RSA" ELSE "NONE",
            keyId |-> IF encrypted /\ quirk # "noKeyId" THEN "k1" ELSE "none",
            text |-> IF quirk \in {"empty", "plain"} THEN Text(quirk)
                     ELSE IF encrypted THEN Text("cipher")
                     ELSE IF quirk = "spaced" THEN Text("spaced") ELSE Text("canonical"),
            newKey |-> IF kind # "announcing" THEN NoNewKey
                       ELSE [id |-> "k2", under |-> IF quirk = "badKey" THEN "k0" ELSE "k1",
                             text |-> IF quirk = "keyText" THEN "spaced" ELSE "none"],
            parsed |-> FALSE,
            signed |-> <<>>]
  IN  IF quirk = "otherSignature" THEN m ELSE [m EXCEPT !.signed = Payload(m)]

\* validateMessageType
ValidType(a) == a.type \in {"message", "request", "response"}

\* validateSequence: the previous message is an older one.
ValidSequence(a) == a.prev = NoPrev \/ Precedes(a.prev, a.ref)

\* What the constructor of StreamMessage throws at.
Constructible(a) ==
  /\ ValidType(a) /\ ValidSequence(a)
  /\ a.enc = "AES" => a.keyId # "none"
  /\ a.text.form # "empty"

\* toArray, the text of the announced key being that of the key.
ToArray(m) ==
  [m EXCEPT !.version = 32, !.signatureType = 2, !.parsed = FALSE,
            !.newKey = IF @ = NoNewKey THEN @ ELSE [@ EXCEPT !.text = KeyText(m.newKey)]]

\* EncryptedGroupKey.deserialize: a key keeps the text it came with.
DeserializedKey(k) == k

\* fromArray
FromArray(a) == [a EXCEPT !.newKey = DeserializedKey(@)]

\* StreamMessage.deserialize
Deserializable(a, versions) == a.version \in versions /\ a.signatureType = 2 /\ Constructible(a)

\* The broadcast message around it, and what can be decoded of one.
Broadcast(m, versions) ==
  [version |-> versions["control"], array |-> [ToArray(m) EXCEPT !.version = versions["message"]]]
Decodes(p, versions) == p.version \in versions["control"] /\ Deserializable(p.array, versions["message"])

\* The signature is that of the publisher for what the message says.
SignatureIsValid(m) == m.signed = Payload(m)

\* Whether a text is JSON.
Parses(m) == m.text.form \in {"canonical", "spaced"}

\* clone: a message that is not encrypted is written anew from what it says.
Clone(m) ==
  [m EXCEPT !.text = IF m.enc = "NONE" THEN Text("canonical") ELSE @, !.parsed = m.enc = "NONE"]

\* EncryptionUtil.decryptStreamMessage, when the key is that of the message.
Decrypted(m) ==
  [m EXCEPT !.enc = "NONE", !.text = Text("canonical"), !.parsed = TRUE,
            !.newKey = IF @ = NoNewKey THEN @ ELSE [@ EXCEPT !.text = "groupKey"]]
KeyIsBad(m) == m.newKey # NoNewKey /\ m.newKey.under # m.keyId

-----------------------------------------------------------------------------
NoPacket == [version |-> 0, array |-> [version |-> 0]]
NoMessage == [version |-> 0]
Speaks == [side \in Side |-> [l \in Layer |-> IF l = "control" THEN {2} ELSE {32}]]
Waiting == [step |-> "idle", object |-> NoMessage, own |-> FALSE]

JourneyInit ==
  /\ \E kind \in Kinds, quirk \in Quirks : original = Original(kind, quirk)
  /\ packet = [version |-> 2, array |-> original]
  /\ speaks = Speaks
  /\ agreed = [l \in Layer |-> 0]
  /\ held = NoMessage /\ dropped = FALSE /\ hops = 0
  /\ receivers = [r \in Receiver |-> Waiting]
  /\ publishers = {"pub", "other"} /\ subscribers = {"pub", "other"} /\ partitions = 2
  /\ seen = [r \in Receiver |-> {}]
  /\ store = {} /\ over = FALSE /\ changes = 0

\* What the registry says at a time, and from then on.
Says == [publishers |-> publishers, subscribers |-> subscribers, partitions |-> partitions]

-----------------------------------------------------------------------------
(* From node to node.                                                      *)

\* NodeToNode.onMessageReceived: what cannot be decoded is dropped.
OnMessageReceived ==
  /\ packet # NoPacket
  /\ packet' = NoPacket /\ speaks' = Speaks
  /\ IF Decodes(packet, speaks["receiver"])
     THEN held' = FromArray(packet.array) /\ UNCHANGED dropped
     ELSE dropped' = TRUE /\ UNCHANGED held
  /\ UNCHANGED <<original, agreed, hops, receivers, publishers, subscribers, partitions, seen, store,
                 over, changes>>

\* NegotiatedProtocolVersions.validateProtocolVersions: the latest that both have.
Negotiated(layer, ours, theirs) ==
  LET shared == ours \cap theirs
  IN  IF shared = {} THEN 0 ELSE CHOOSE v \in shared : \A w \in shared : w <= v

\* The node that has the message is connected to another one, maybe of another release;
\* the connection is closed if they share no versions.
Negotiate(ours, theirs) ==
  /\ held # NoMessage /\ packet = NoPacket /\ hops < MaxHops
  /\ agreed = [l \in Layer |-> 0]
  /\ \A r \in Receiver : receivers[r] = Waiting
  /\ speaks' = [side \in Side |-> IF side = "sender" THEN ours ELSE theirs]
  /\ LET versions == [l \in Layer |-> Negotiated(l, ours[l], theirs[l])]
     IN  agreed' = IF \E l \in Layer : versions[l] = 0 THEN [l \in Layer |-> 0] ELSE versions
  /\ UNCHANGED <<original, packet, held, dropped, hops, receivers, publishers, subscribers, partitions,
                 seen, store, over, changes>>

\* NodeToNode.sendData, in the versions that were negotiated.
SendData ==
  /\ \A l \in Layer : agreed[l] # 0
  /\ packet' = Broadcast(held, agreed)
  /\ held' = NoMessage /\ hops' = hops + 1 /\ agreed' = [l \in Layer |-> 0]
  /\ UNCHANGED <<original, speaks, dropped, receivers, publishers, subscribers, partitions, seen, store,
                 over, changes>>

-----------------------------------------------------------------------------
(* What a subscription does with it: validateStreamMessage.                *)

Step(r, step) == receivers' = [receivers EXCEPT ![r].step = step]
Reject(r) == Step(r, "rejected")
Open(r) == seen' = [seen EXCEPT ![r] = {Says}]
subscriptionUnchanged == <<original, packet, speaks, agreed, dropped, hops, publishers, subscribers,
                           partitions, store, over, changes>>

\* The signature is checked first, then who a key message is for; a key message that
\* cannot be read is rejected without saying which message it was.
Validate(r) ==
  /\ receivers[r] = Waiting /\ held # NoMessage /\ packet = NoPacket
  /\ agreed = [l \in Layer |-> 0]
  /\ Open(r)
  /\ IF ~SignatureIsValid(held) \/ (held.type # "message" /\ ~Parses(held)) THEN Reject(r)
     ELSE Step(r, IF held.type = "message" THEN "stream" ELSE "publisher")
  /\ UNCHANGED <<subscriptionUnchanged, held>>

\* The stream has the partition, unless it cannot be looked up.
GetStream(r) ==
  /\ receivers[r].step = "stream"
  /\ \/ held.partition < partitions /\ Step(r, "publisher")
     \/ Reject(r)
  /\ UNCHANGED <<subscriptionUnchanged, held, seen>>

\* The two ends of a message: a request is for a publisher and from a subscriber.
ExpectedPublisher == IF held.type = "request" THEN "other" ELSE held.publisher
ExpectedSubscriber == IF held.type = "request" THEN held.publisher ELSE "other"

CheckPublisher(r) ==
  /\ receivers[r].step = "publisher"
  /\ \/ /\ ExpectedPublisher \in publishers
        /\ Step(r, IF held.type = "message" THEN "valid" ELSE "subscriber")
     \/ Reject(r)
  /\ UNCHANGED <<subscriptionUnchanged, held, seen>>

CheckSubscriber(r) ==
  /\ receivers[r].step = "subscriber"
  /\ \/ ExpectedSubscriber \in subscribers /\ Step(r, "valid")
     \/ Reject(r)
  /\ UNCHANGED <<subscriptionUnchanged, held, seen>>

-----------------------------------------------------------------------------
(* ... and decrypt.                                                        *)

\* An encrypted message is left as it is once the client is destroyed.
StartDecrypt(r) ==
  /\ receivers[r].step = "valid"
  /\ Step(r, IF held.enc # "AES" \/ over THEN "parsing" ELSE "fetching")
  /\ UNCHANGED <<subscriptionUnchanged, held, seen>>

FetchFails(r) ==
  /\ receivers[r].step = "fetching"
  /\ IF over THEN Step(r, "parsing") ELSE Reject(r)
  /\ UNCHANGED <<subscriptionUnchanged, held, seen>>

\* Mutant: the message itself is decrypted.
KeyFetched_InPlace(r) ==
  /\ receivers[r].step = "fetching"
  /\ ~over /\ ~KeyIsBad(held) /\ held' = Decrypted(held)
  /\ receivers' = [receivers EXCEPT ![r].step = "storing", ![r].object = held', ![r].own = TRUE]
  /\ UNCHANGED <<subscriptionUnchanged, seen>>

\* The key is there: a clone is decrypted, since other subscriptions have the same object.
KeyFetched(r) ==
  /\ receivers[r].step = "fetching"
  /\ IF over THEN Step(r, "parsing")
     ELSE IF held.text.form # "cipher" \/ KeyIsBad(held) THEN Reject(r)
     ELSE receivers' = [receivers EXCEPT ![r].step = IF held.newKey = NoNewKey THEN "parsing" ELSE "storing",
                                         ![r].object = Decrypted(Clone(held)), ![r].own = TRUE]
  /\ UNCHANGED <<subscriptionUnchanged, held, seen>>

\* The key that it announces is stored before the message goes on.
KeyStored(r) ==
  /\ receivers[r].step = "storing"
  /\ store' = store \cup {receivers[r].object.newKey.id}
  /\ Step(r, "parsing")
  /\ UNCHANGED <<original, packet, speaks, agreed, dropped, hops, publishers, subscribers, partitions,
                 over, changes, held, seen>>

\* getParsedContent: the content is parsed when somebody asks for it; that of an
\* encrypted message never is.
Parse(r) ==
  LET object == IF receivers[r].own THEN receivers[r].object ELSE held
      left == object.parsed \/ (object.type = "message" /\ object.enc # "NONE")
  IN  /\ receivers[r].step = "parsing"
      /\ IF left \/ Parses(object) THEN Step(r, "done") ELSE Reject(r)
      /\ held' = IF left \/ ~Parses(object) THEN held ELSE [held EXCEPT !.parsed = TRUE]
      /\ UNCHANGED <<subscriptionUnchanged, seen>>

DestroyClient ==
  /\ ~over /\ held # NoMessage
  /\ over' = TRUE
  /\ UNCHANGED <<original, packet, speaks, agreed, dropped, hops, publishers, subscribers, partitions,
                 store, changes, held, seen, receivers>>

\* Somebody changes the stream, of which both are publishers and subscribers at first.
RegistryChanges ==
  /\ changes < MaxChanges /\ held # NoMessage
  /\ changes' = changes + 1
  /\ \/ publishers' \in {{"pub"}, {"other"}} /\ UNCHANGED <<subscribers, partitions>>
     \/ subscribers' \in {{"pub"}, {"other"}} /\ UNCHANGED <<publishers, partitions>>
     \/ partitions' = 1 /\ UNCHANGED <<publishers, subscribers>>
  /\ seen' = [r \in Receiver |-> IF receivers[r] = Waiting THEN {} ELSE seen[r] \cup {Says'}]
  /\ UNCHANGED <<original, packet, speaks, agreed, dropped, hops, store, over, held, receivers>>

Releases == [Layer -> SUBSET {1, 2, 31, 32}]
ReleasesOf == {v \in Releases : \A l \in Layer : v[l] \subseteq Versions(l) /\ v[l] # {}}

JourneyNext ==
  \/ OnMessageReceived \/ SendData \/ DestroyClient \/ RegistryChanges
  \/ \E ours, theirs \in ReleasesOf : Negotiate(ours, theirs)
  \/ \E r \in Receiver : \/ Validate(r) \/ GetStream(r) \/ CheckPublisher(r) \/ CheckSubscriber(r)
                         \/ StartDecrypt(r) \/ FetchFails(r) \/ KeyFetched(r) \/ KeyStored(r) \/ Parse(r)

JourneySpec == JourneyInit /\ [][JourneyNext]_journeyVars

-----------------------------------------------------------------------------
(* Properties.                                                             *)

\* Whatever hands a message goes through, and whoever reads it, the object a node holds is
\* the message that was signed.
StaysVerifiable == held # NoMessage => Payload(held) = Payload(original)

\* A message a node has follows the one it names as its predecessor.
PredecessorIsOlder == held # NoMessage => held.prev = NoPrev \/ Precedes(held.prev, held.ref)

\* After a negotiation each side understands the other: a message that one node could
\* read is dropped at no later one.
NegotiatedIsUnderstood == dropped => hops = 0

\* A message is accepted only if the stream had its partition, its publisher and its
\* subscriber, each at some time since it was looked at, and if it was signed.
AcceptedWasAllowed ==
  \A r \in Receiver : receivers[r].step \in {"valid", "fetching", "storing", "parsing", "done"} =>
    /\ held.signed = Payload(original)
    /\ \E s \in seen[r] : ExpectedPublisher \in s.publishers
    /\ held.type = "message" => \E s \in seen[r] : held.partition < s.partitions
    /\ held.type # "message" => \E s \in seen[r] : ExpectedSubscriber \in s.subscribers

\* What a subscription hands on is readable, unless the client was destroyed, and the key
\* that the message announces is known by then.
HandedOnIsReadable ==
  \A r \in Receiver : receivers[r].step = "done" /\ ~over =>
    /\ original.enc = "AES" => receivers[r].own /\ receivers[r].object.parsed
    /\ original.newKey # NoNewKey => original.newKey.id \in store

StreamMessagesInv ==
  /\ StaysVerifiable /\ PredecessorIsOlder /\ NegotiatedIsUnderstood
  /\ AcceptedWasAllowed /\ HandedOnIsReadable
=============================================================================
