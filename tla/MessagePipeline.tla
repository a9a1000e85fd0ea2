---------------------------- MODULE MessagePipeline ----------------------------
(***************************************************************************)
(* The way of messages from the node to the consumers of the subscriptions *)
(* of one stream part: onMessageInput and distributeMessage of             *)
(* SubscriptionSession.ts, the pipeline of messagePipeline.ts              *)
(* (OrderMessages.ts, MsgChainUtil.ts), the buffer of each subscription    *)
(* (PushPipeline.ts, Pipeline.ts, PushBuffer.ts) and a subscription that   *)
(* starts with a resend (resendSubscription.ts, Resends.ts).               *)
(*                                                                         *)
(* Only distributeMessage waits for the buffers it pushes to; all other    *)
(* stages take what they are given.  Ordering is the one of                *)
(* OrderedMessageChain and GapFiller, seen from outside.                   *)
(***************************************************************************)
EXTENDS Integers, Sequences, FiniteSets, SequencesExt

CONSTANTS
  Chain,       \* message chains: publisher and msgChainId
  LengthOf,    \* the number of messages ever published in each chain
  Bad,         \* the messages that fail validateStreamMessage or decrypt
  Plain,       \* the subscriptions without a resend
  Resender,    \* the subscriptions with one
  Raw,         \* the raw subscriptions
  BufferSize,  \* DEFAULT_BUFFER_SIZE
  Nobody       \* distributeMessage has no message

Subscriber == Plain \cup Resender \cup Raw
Msg == UNION {{c} \X (1 .. LengthOf[c]) : c \in Chain}
Numbered == Chain \X (Nat \ {0})
Distribution == [msg : Numbered, to : SUBSET Subscriber]

ASSUME PipelineAssumption ==
  /\ IsFiniteSet(Chain) /\ LengthOf \in [Chain -> Nat] /\ BufferSize \in Nat \ {0}
  /\ Plain \cap (Resender \cup Raw) = {} /\ Resender \cap Raw = {}
  /\ Nobody \notin Distribution

VARIABLES
  published,     \* the messages of each chain that are published, and stored
  heard,         \* history: the messages the node has handed over
  order,         \* OrderMessages of the session: [last, waiting] of each chain
  work,          \* MsgChainProcessor.inputBuffer of each chain, with the one in process
  output,        \* MsgChainUtil.outputBuffer
  distributing,  \* distributeMessage: [msg, to], to the subscriptions it waits for
  members,       \* SubscriptionSession.subscriptions
  buffer,        \* the PushBuffer of each subscription
  phase,         \* resendThenRealtime: "new", "resend", "realtime"
  resent,        \* the messages still to come from the resend
  own,           \* OrderMessages of each resend subscription
  out,           \* its outBuffer
  consumed,      \* history: what the consumer of each subscription was given
  failed,        \* history: the messages that failed, in the session or in a resend
  skipped        \* history: the messages of gaps that were given up

sessionVars == <<order, work, output, distributing>>
resendVars == <<phase, resent, own, out>>
pipelineVars == <<published, heard, sessionVars, members, buffer, resendVars, consumed,
                  failed, skipped>>

PipelineInit ==
  /\ published = [c \in Chain |-> 0] /\ heard = {}
  /\ order = [c \in Chain |-> [last |-> 0, waiting |-> {}]]
  /\ work = [c \in Chain |-> <<>>] /\ output = <<>> /\ distributing = Nobody
  /\ members = {} /\ buffer = [s \in Subscriber |-> <<>>]
  /\ phase = [r \in Resender |-> "new"] /\ resent = [r \in Resender |-> <<>>]
  /\ own = [r \in Resender |-> [c \in Chain |-> [last |-> 0, waiting |-> {}]]]
  /\ out = [r \in Resender |-> <<>>]
  /\ consumed = [s \in Subscriber |-> <<>>] /\ failed = {}
  /\ skipped = {}

-----------------------------------------------------------------------------
(* One OrderedMessageChain, with what it emits.                            *)

\* The last of the numbers that follow n without a gap among ns.
LastInRow(n, ns) == CHOOSE k \in n .. n + Cardinality(ns) :
                      n + 1 .. k \subseteq ns /\ k + 1 \notin ns

\* checkQueue from the last ordered number n: the chain and the messages it emits.
CheckQueue(c, n, ns) ==
  LET k == LastInRow(n, ns)
  IN  [chain |-> [last |-> k, waiting |-> {i \in ns : i > k}],
       emits |-> [i \in 1 .. k - n |-> <<c, n + i>>]]

\* Mutant: every message that is not stale is emitted at once.
AddToChain_OverGaps(chain, m) ==
  IF m[2] <= chain.last THEN [chain |-> chain, emits |-> <<>>]
  ELSE CheckQueue(m[1], m[2] - 1, {m[2]})

\* addMessage: stale messages are ignored, the first is emitted whatever it is.
AddToChain(chain, m) ==
  IF m[2] <= chain.last THEN [chain |-> chain, emits |-> <<>>]
  ELSE IF chain.last = 0 THEN CheckQueue(m[1], m[2] - 1, {m[2]})
  ELSE CheckQueue(m[1], chain.last, chain.waiting \cup {m[2]})

\* resolveMessages of a gap that is not filled: on from the first message that waits.
First(ns) == CHOOSE i \in ns : \A j \in ns : i <= j
GiveUp(c, chain) == CheckQueue(c, First(chain.waiting) - 1, chain.waiting)
Gap(c, chain) == {c} \X (chain.last + 1 .. First(chain.waiting) - 1)

-----------------------------------------------------------------------------
(* The session.                                                            *)

Publish(c) ==
  /\ published[c] < LengthOf[c]
  /\ published' = [published EXCEPT ![c] = @ + 1]
  /\ UNCHANGED <<heard, sessionVars, members, buffer, resendVars, consumed, failed, skipped>>

\* A message enters the pipeline: what the chain emits goes to its processor.
Enter(m) ==
  LET add == AddToChain(order[m[1]], m)
  IN  /\ order' = [order EXCEPT ![m[1]] = add.chain]
      /\ work' = [work EXCEPT ![m[1]] = @ \o add.emits]

\* onMessageInput: raw subscriptions get the message at once, the others through
\* the pipeline.  The node hands over messages in any order, or never.
OnMessageInput(m) ==
  /\ m \notin heard /\ m[2] <= published[m[1]] /\ members # {}
  /\ heard' = heard \cup {m}
  /\ buffer' = [s \in Subscriber |-> IF s \in members \cap Raw THEN Append(buffer[s], m)
                                     ELSE buffer[s]]
  /\ IF members \ Raw # {} THEN Enter(m) ELSE UNCHANGED <<order, work>>
  /\ UNCHANGED <<published, output, distributing, members, resendVars, consumed, failed, skipped>>

\* The gap filler of the session's chain gets the next missing message from storage.
FillGap(c) ==
  /\ order[c].waiting # {}
  /\ Enter(<<c, order[c].last + 1>>)
  /\ UNCHANGED <<published, heard, output, distributing, members, buffer, resendVars, consumed,
                 failed, skipped>>

\* It gives up.
LeaveGap(c) ==
  /\ order[c].waiting # {}
  /\ LET on == GiveUp(c, order[c])
     IN  /\ order' = [order EXCEPT ![c] = on.chain]
         /\ work' = [work EXCEPT ![c] = @ \o on.emits]
  /\ skipped' = skipped \cup Gap(c, order[c])
  /\ UNCHANGED <<published, heard, output, distributing, members, buffer, resendVars, consumed,
                 failed>>

\* processMessageFn has validated and decrypted the message.
Process(c) ==
  /\ work[c] # <<>> /\ Head(work[c]) \notin Bad
  /\ output' = Append(output, Head(work[c]))
  /\ work' = [work EXCEPT ![c] = Tail(@)]
  /\ UNCHANGED <<published, heard, order, distributing, members, buffer, resendVars, consumed,
                 failed, skipped>>

\* It fails, perhaps for the moment only (no key in time): onError of the session
\* tells the subscriptions, and it is not passed on.
ProcessFails(c) ==
  /\ work[c] # <<>>
  /\ work' = [work EXCEPT ![c] = Tail(@)]
  /\ failed' = failed \cup {Head(work[c])}
  /\ UNCHANGED <<published, heard, order, output, distributing, members, buffer, resendVars,
                 consumed, skipped>>

\* PushBuffer.push waits until there is room again, or until the buffer is ended.
IsFull(items) == Len(items) >= BufferSize

\* distributeMessage pushes the next message to every subscription ...
Distribute ==
  /\ output # <<>> /\ distributing = Nobody
  /\ LET to == members \ Raw
     IN  /\ buffer' = [s \in Subscriber |-> IF s \in to THEN Append(buffer[s], Head(output))
                                            ELSE buffer[s]]
         /\ distributing' = [msg |-> Head(output), to |-> {s \in to : IsFull(buffer'[s])}]
  /\ output' = Tail(output)
  /\ UNCHANGED <<published, heard, order, work, members, resendVars, consumed, failed, skipped>>

\* ... and goes on when all pushes have returned.
Distributed ==
  /\ distributing # Nobody /\ distributing.to = {}
  /\ distributing' = Nobody
  /\ UNCHANGED <<published, heard, order, work, output, members, buffer, resendVars, consumed,
                 failed, skipped>>

-----------------------------------------------------------------------------
(* The subscriptions.                                                      *)

Join(s) ==
  /\ s \notin members /\ consumed[s] = <<>> /\ buffer[s] = <<>>
  /\ s \in Resender => phase[s] = "new"
  /\ members' = members \cup {s}
  /\ UNCHANGED <<published, heard, sessionVars, buffer, resendVars, consumed, failed, skipped>>

\* A message is taken out of the buffer of s; a push that waits for room returns.
Released(s) ==
  IF distributing # Nobody THEN [distributing EXCEPT !.to = @ \ {s}] ELSE Nobody

Shift(s) ==
  /\ buffer[s] # <<>>
  /\ buffer' = [buffer EXCEPT ![s] = Tail(@)]
  /\ distributing' = IF IsFull(Tail(buffer[s])) THEN distributing ELSE Released(s)

\* The consumer of s takes the next message.
Consume(s) ==
  /\ s \in members \ Resender
  /\ Shift(s)
  /\ consumed' = [consumed EXCEPT ![s] = Append(@, Head(buffer[s]))]
  /\ UNCHANGED <<published, heard, order, work, output, members, resendVars, failed, skipped>>

ConsumeOrdered(r) ==
  /\ r \in members /\ out[r] # <<>>
  /\ out' = [out EXCEPT ![r] = Tail(@)]
  /\ consumed' = [consumed EXCEPT ![r] = Append(@, Head(out[r]))]
  /\ UNCHANGED <<published, heard, sessionVars, members, buffer, phase, resent, own, failed, skipped>>

\* Mutant: the pushes to the buffer of the subscription go on waiting.
End_NoRelease(s) ==
  /\ s \in members
  /\ members' = members \ {s}
  /\ buffer' = [buffer EXCEPT ![s] = <<>>]
  /\ UNCHANGED <<published, heard, sessionVars, resendVars, consumed, failed, skipped>>

\* The subscription is ended: its buffer is locked and emptied, pushes to it return.
End(s) ==
  /\ s \in members
  /\ members' = members \ {s}
  /\ buffer' = [buffer EXCEPT ![s] = <<>>]
  /\ distributing' = Released(s)
  /\ UNCHANGED <<published, heard, order, work, output, resendVars, consumed, failed, skipped>>

\* Messages of the resend subscription r go through its own OrderMessages.
EnterOwn(r, m) ==
  LET add == AddToChain(own[r][m[1]], m)
  IN  /\ own' = [own EXCEPT ![r][m[1]] = add.chain]
      /\ out' = [out EXCEPT ![r] = @ \o add.emits]

\* The storage sends the messages in the order of each chain.
Orders(ms) ==
  {f \in [1 .. Cardinality(ms) -> ms] :
     \A i, j \in 1 .. Cardinality(ms) : i < j =>
       f[i] # f[j] /\ (f[i][1] = f[j][1] => f[i][2] < f[j][2])}

\* The consumer of r starts to iterate: what is stored is requested.
ResendStart(r) ==
  /\ r \in members /\ phase[r] = "new"
  /\ phase' = [phase EXCEPT ![r] = "resend"]
  /\ \E stored \in Orders({m \in Msg : m[2] <= published[m[1]]}) :
       resent' = [resent EXCEPT ![r] = stored]
  /\ UNCHANGED <<published, heard, sessionVars, members, buffer, own, out, consumed, failed,
                 skipped>>

\* The pipeline of the resend yields its next message, without those that fail.
ResendNext(r) ==
  /\ r \in members /\ resent[r] # <<>>
  /\ resent' = [resent EXCEPT ![r] = Tail(@)]
  /\ IF Head(resent[r]) \in Bad
     THEN failed' = failed \cup {Head(resent[r])} /\ UNCHANGED <<own, out>>
     ELSE EnterOwn(r, Head(resent[r])) /\ UNCHANGED failed
  /\ UNCHANGED <<published, heard, sessionVars, members, buffer, phase, consumed, skipped>>

\* The resend is complete, or it fails on its way and the rest is not resent.
ResendEnd(r) ==
  /\ r \in members /\ phase[r] = "resend"
  /\ phase' = [phase EXCEPT ![r] = "realtime"]
  /\ resent' = [resent EXCEPT ![r] = <<>>]
  /\ UNCHANGED <<published, heard, sessionVars, members, buffer, own, out, consumed, failed,
                 skipped>>

\* After the resend, the messages of the session.
Realtime(r) ==
  /\ r \in members /\ phase[r] = "realtime"
  /\ Shift(r)
  /\ EnterOwn(r, Head(buffer[r]))
  /\ UNCHANGED <<published, heard, order, work, output, members, phase, resent, consumed, failed,
                 skipped>>

\* The gap filler of r gets the next missing message from storage: a raw message,
\* which goes to the consumer as it is.
FillOwnGap(r, c) ==
  /\ r \in members /\ own[r][c].waiting # {}
  /\ EnterOwn(r, <<c, own[r][c].last + 1>>)
  /\ UNCHANGED <<published, heard, sessionVars, members, buffer, phase, resent, consumed, failed,
                 skipped>>

LeaveOwnGap(r, c) ==
  /\ r \in members /\ own[r][c].waiting # {}
  /\ LET on == GiveUp(c, own[r][c])
     IN  /\ own' = [own EXCEPT ![r][c] = on.chain]
         /\ out' = [out EXCEPT ![r] = @ \o on.emits]
  /\ skipped' = skipped \cup Gap(c, own[r][c])
  /\ UNCHANGED <<published, heard, sessionVars, members, buffer, phase, resent, consumed, failed>>

-----------------------------------------------------------------------------
SubscriptionStep(s) ==
  \/ Consume(s)
  \/ s \in Resender /\ (\/ ConsumeOrdered(s) \/ ResendStart(s) \/ ResendNext(s) \/ ResendEnd(s)
                        \/ Realtime(s)
                        \/ \E c \in Chain : FillOwnGap(s, c) \/ LeaveOwnGap(s, c))

SessionStep ==
  \/ \E c \in Chain : Process(c) \/ ProcessFails(c) \/ FillGap(c) \/ LeaveGap(c)
  \/ Distribute \/ Distributed

PipelineNext ==
  \/ \E c \in Chain : Publish(c)
  \/ \E m \in Msg : OnMessageInput(m)
  \/ SessionStep
  \/ \E s \in Subscriber : Join(s) \/ SubscriptionStep(s) \/ End(s)

PipelineSpec == PipelineInit /\ [][PipelineNext]_pipelineVars

\* Consumers consume, storage and key requests end in some way.
PipelineFairness ==
  /\ \A c \in Chain : WF_pipelineVars(Process(c) \/ ProcessFails(c))
  /\ \A c \in Chain : WF_pipelineVars(FillGap(c) \/ LeaveGap(c))
  /\ WF_pipelineVars(Distribute) /\ WF_pipelineVars(Distributed)
  /\ \A s \in Subscriber : WF_pipelineVars(SubscriptionStep(s))

-----------------------------------------------------------------------------
(* Properties.                                                             *)

ChainState == [last : Nat, waiting : SUBSET Nat]

\* The type invariant.
PipelineTypeOK ==
  /\ published \in [Chain -> Nat] /\ heard \subseteq Msg
  /\ order \in [Chain -> ChainState] /\ work \in [Chain -> Seq(Numbered)]
  /\ output \in Seq(Numbered) /\ distributing \in Distribution \cup {Nobody}
  /\ members \subseteq Subscriber /\ buffer \in [Subscriber -> Seq(Numbered)]
  /\ phase \in [Resender -> {"new", "resend", "realtime"}]
  /\ resent \in [Resender -> Seq(Numbered)] /\ out \in [Resender -> Seq(Numbered)]
  /\ own \in [Resender -> [Chain -> ChainState]]
  /\ consumed \in [Subscriber -> Seq(Numbered)]
  /\ failed \subseteq Numbered /\ skipped \subseteq Numbered

\* No consumer sees a message of a chain twice or after a later one, whether it
\* comes from the node, from a resend or from a gap fill, in whatever order.
ConsumedInOrder ==
  \A s \in Plain \cup Resender : \A i, j \in 1 .. Len(consumed[s]) :
    (i < j /\ consumed[s][i][1] = consumed[s][j][1]) => consumed[s][i][2] < consumed[s][j][2]

\* The change from the resend to realtime leaves no hole: between two consecutive
\* messages of a chain a consumer misses only what failed, or what
\* could not be got from storage either.
NoHole ==
  \A s \in Plain \cup Resender : \A i, j \in 1 .. Len(consumed[s]) :
    LET m == consumed[s][i]
        n == consumed[s][j]
    IN  (m[1] = n[1] /\ m[2] < n[2]) =>
          \A k \in m[2] + 1 .. n[2] - 1 :
            \/ <<m[1], k>> \in ToSet(consumed[s]) \cup failed \cup skipped

\* "collect messages that fail validation/parsing, do not push out of pipeline"
\* (messagePipeline.ts): no message that fails reaches a consumer.
FailedStayOut == \A s \in Plain \cup Resender : ToSet(consumed[s]) \cap Bad = {}

\* The same for the subscriptions without a resend.
FailedStayOutOfPlain == \A s \in Plain : ToSet(consumed[s]) \cap Bad = {}

\* Slow consumers hold up distributeMessage, but they do not lose messages, and
\* what they hold up is bounded.
BufferIsBounded == \A s \in Plain \cup Resender : Len(buffer[s]) <= BufferSize

\* Order, nothing left out, the messages that fail and the bound together.
PipelineInv == PipelineTypeOK /\ ConsumedInOrder /\ NoHole /\ FailedStayOutOfPlain /\ BufferIsBounded

\* No subscription holds up the others forever, whenever it is ended.
DistributionGoesOn == []<>(distributing = Nobody /\ output = <<>>)
=============================================================================
