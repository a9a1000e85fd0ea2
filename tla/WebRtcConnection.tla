--------------------------- MODULE WebRtcConnection ---------------------------
(***************************************************************************)
(* Sending over WebRTC connections to one peer: WebRtcConnection.ts with   *)
(* NodeWebRtcConnection.ts and connection/MessageQueue.ts.                 *)
(*                                                                         *)
(* The endpoint keeps one message queue for a peer, which its connections  *)
(* use one after the other.  Messages are flushed from the queue by an     *)
(* immediate or by a retry timer; a full buffer of the data channel pauses *)
(* the flushing until the library reports that the buffer is low.  Pings   *)
(* close a connection whose peer does not answer.  The data channel is     *)
(* external and changes on a thread of the library.                        *)
(***************************************************************************)
EXTENDS Integers, Sequences, FiniteSets

CONSTANTS
  Payload,          \* the messages sent
  Large,            \* those longer than getMaxMessageSize()
  MaxSize,          \* the queue's maxSize
  MaxTries,         \* MessageQueue.MAX_TRIES
  MaxBurst,         \* the messages sent in one busy loop
  High, Low,        \* bufferThresholdHigh, bufferThresholdLow, in messages
  MaxPingAttempts,  \* maxPingPongAttempts
  MaxOpened         \* bound: connections created

ASSUME ConnectionAssumption ==
  /\ Large \subseteq Payload /\ Low < High
  /\ {MaxSize, MaxTries, MaxBurst, High, Low, MaxPingAttempts, MaxOpened} \subseteq Nat
  /\ 0 \notin {MaxSize, MaxTries, MaxBurst}

VARIABLES
  queue,         \* messageQueue: [message, tries] in the order of their numbers
  phase,         \* the connection: none (finished), connecting, open (emitOpen)
  channelOpen,   \* external: dataChannel.isOpen()
  peerAlive,     \* external: the other end answers
  buffered,      \* external: dataChannel.bufferedAmount()
  lowEvent,      \* external: a bufferedAmountLow callback is queued
  pongEvent,     \* external: a pong has arrived
  paused,
  flushRef,      \* a flush is scheduled by setImmediate
  flushTimeout,  \* a flush is scheduled by the retry timer
  burst,         \* numOfSuccessSends of the flush that runs, or -1
  pingAttempts,
  settled,       \* history: how the promise of send ended, per message
  order,         \* history: messages in the order of their first call of send
  opened         \* connections created

connectionVars ==
  <<queue, phase, channelOpen, peerAlive, buffered, lowEvent, pongEvent, paused, flushRef,
    flushTimeout, burst, pingAttempts, settled, order, opened>>
queueVars == <<queue, settled, order>>
pingVars == <<pongEvent, pingAttempts>>
channelVars == <<channelOpen, peerAlive, buffered, lowEvent>>

ConnectionInit ==
  /\ queue = <<>> /\ phase = "none" /\ channelOpen = FALSE /\ peerAlive = TRUE
  /\ buffered = 0 /\ lowEvent = FALSE /\ pongEvent = FALSE /\ paused = FALSE
  /\ flushRef = FALSE /\ flushTimeout = FALSE /\ burst = -1 /\ pingAttempts = 0
  /\ settled = [m \in Payload |-> "no"] /\ order = <<>> /\ opened = 0

\* No synchronous code runs.
Quiet == burst = -1

-----------------------------------------------------------------------------
(* The life of a connection.                                               *)

\* The constructor and connect, in createConnection with the peer's queue.
NewConnection ==
  /\ Quiet /\ phase = "none" /\ opened < MaxOpened
  /\ opened' = opened + 1
  /\ phase' = "connecting"
  /\ paused' = FALSE /\ flushRef' = FALSE /\ flushTimeout' = FALSE /\ pingAttempts' = 0
  /\ channelOpen' = FALSE /\ peerAlive' = TRUE /\ buffered' = 0
  /\ lowEvent' = FALSE /\ pongEvent' = FALSE
  /\ UNCHANGED <<queueVars, burst>>

\* openDataChannel and emitOpen.
EmitOpen ==
  /\ Quiet /\ phase = "connecting"
  /\ phase' = "open" /\ channelOpen' = TRUE /\ flushRef' = TRUE
  /\ UNCHANGED <<queueVars, pingVars, peerAlive, buffered, lowEvent, paused, flushTimeout,
                 burst, opened>>

\* close and doClose: the timers are cleared; the queue stays.
Closed ==
  /\ phase' = "none" /\ channelOpen' = FALSE
  /\ flushRef' = FALSE /\ flushTimeout' = FALSE
  /\ lowEvent' = FALSE /\ pongEvent' = FALSE
  /\ UNCHANGED <<queueVars, peerAlive, buffered, paused, burst, pingAttempts, opened>>

\* The connection timer, or close by the endpoint.
CloseConnection == Quiet /\ phase # "none" /\ Closed

\* The library's callback after the data channel has closed.
OnChannelClosed == Quiet /\ phase = "open" /\ ~channelOpen /\ Closed

-----------------------------------------------------------------------------
(* Sending.                                                                *)

\* Mutant: the oldest message is dropped without being failed.
Add_Forgets(m) ==
  LET rest == IF Len(queue) = MaxSize THEN Tail(queue) ELSE queue
  IN  /\ queue' = Append(rest, [message |-> m, tries |-> 0])
      /\ settled' = [settled EXCEPT ![m] = "queued"]

\* MessageQueue.add: a full queue discards its oldest message.
Add(m) ==
  LET full == Len(queue) = MaxSize
      rest == IF full THEN Tail(queue) ELSE queue
  IN  /\ queue' = Append(rest, [message |-> m, tries |-> 0])
      /\ settled' = [n \in Payload |-> IF n = m THEN "queued"
                                       ELSE IF full /\ n = Head(queue).message THEN "failed"
                                       ELSE settled[n]]

\* send, on the connection in the endpoint's table (without one it throws).
Send(m) ==
  /\ Quiet /\ phase # "none" /\ settled[m] = "no"
  /\ flushRef' = TRUE
  /\ Add(m)
  /\ order' = Append(order, m)
  /\ UNCHANGED <<pingVars, channelVars, phase, paused, flushTimeout, burst, opened>>

\* The immediate or the retry timer calls attemptToFlushMessages.
FlushStart(byTimer) ==
  /\ Quiet
  /\ IF byTimer THEN flushTimeout ELSE flushRef
  /\ flushTimeout' = (flushTimeout /\ ~byTimer)
  /\ flushRef' = (flushRef /\ byTimer)
  /\ burst' = 0
  /\ UNCHANGED <<queueVars, pingVars, channelVars, phase, paused, opened>>

flushUnchanged == <<pingVars, channelOpen, peerAlive, lowEvent, phase, opened, order>>

\* The loop ends: nothing to send, or the channel is not open.
FlushEnd ==
  /\ ~Quiet /\ (queue = <<>> \/ ~channelOpen)
  /\ burst' = -1
  /\ UNCHANGED <<flushUnchanged, queue, settled, buffered, paused, flushRef, flushTimeout>>

FlushOn == ~Quiet /\ queue # <<>> /\ channelOpen

\* MaxBurst messages were sent: the rest waits for another immediate.
FlushYield ==
  /\ FlushOn /\ burst >= MaxBurst
  /\ flushRef' = TRUE /\ burst' = -1
  /\ UNCHANGED <<flushUnchanged, queue, settled, buffered, paused, flushTimeout>>

\* pop, and the end of the promise.
Popped(how) ==
  /\ queue' = Tail(queue)
  /\ settled' = [settled EXCEPT ![Head(queue).message] = how]

\* A message that is too large is dropped.
FlushLarge ==
  /\ FlushOn /\ burst < MaxBurst /\ Head(queue).message \in Large
  /\ Popped("failed")
  /\ UNCHANGED <<flushUnchanged, burst, buffered, paused, flushRef, flushTimeout>>

CanSend == FlushOn /\ burst < MaxBurst /\ Head(queue).message \notin Large
MustPause == paused \/ buffered >= High

\* Backpressure: the flush goes on after onBufferedAmountLow.
FlushPause ==
  /\ CanSend /\ MustPause
  /\ paused' = TRUE /\ burst' = -1
  /\ UNCHANGED <<flushUnchanged, queue, settled, buffered, flushRef, flushTimeout>>

\* doSendMessage succeeds, and the channel is open after it.
FlushSent ==
  /\ CanSend /\ ~MustPause
  /\ Popped("delivered")
  /\ burst' = burst + 1
  /\ buffered' = buffered + 1
  /\ UNCHANGED <<flushUnchanged, paused, flushRef, flushTimeout>>

\* processFailedMessage
ProcessFailed ==
  LET tries == Head(queue).tries + 1
  IN  /\ IF tries >= MaxTries THEN Popped("failed")
         ELSE queue' = [queue EXCEPT ![1].tries = tries] /\ UNCHANGED settled
      /\ flushTimeout' = TRUE

\* doSendMessage throws, or the channel is found closed after it.
FlushFailed ==
  /\ CanSend /\ ~MustPause
  /\ ProcessFailed
  /\ burst' = -1
  /\ \E open \in BOOLEAN : channelOpen' = open
  /\ UNCHANGED <<pingVars, peerAlive, lowEvent, phase, opened, order, buffered, paused, flushRef>>

\* The bufferedAmountLow callback: emitLowBackpressure.
EmitLowBackpressure ==
  /\ Quiet /\ lowEvent
  /\ lowEvent' = FALSE /\ paused' = FALSE
  /\ flushRef' = (flushRef \/ paused)
  /\ UNCHANGED <<queueVars, pingVars, channelOpen, peerAlive, buffered, phase, flushTimeout,
                 burst, opened>>

-----------------------------------------------------------------------------
(* Pings.                                                                  *)

\* The ping timer: ping.  A peer that is alive answers.
Ping ==
  /\ Quiet /\ phase # "none"
  /\ IF channelOpen /\ pingAttempts >= MaxPingAttempts THEN Closed
     ELSE /\ channelOpen
          /\ pingAttempts' = pingAttempts + 1
          /\ pongEvent' = (pongEvent \/ peerAlive)
          /\ UNCHANGED <<queueVars, channelVars, phase, paused, flushRef, flushTimeout, burst, opened>>

\* emitMessage("pong")
Pong ==
  /\ Quiet /\ pongEvent
  /\ pongEvent' = FALSE /\ pingAttempts' = 0
  /\ UNCHANGED <<queueVars, channelVars, phase, paused, flushRef, flushTimeout, burst, opened>>

-----------------------------------------------------------------------------
(* The data channel, at any moment, also while a flush runs.               *)

\* A message leaves the buffer; the callback is queued when it gets low.
Drain ==
  /\ channelOpen /\ peerAlive /\ buffered > 0
  /\ buffered' = buffered - 1
  /\ lowEvent' = (lowEvent \/ buffered' = Low)
  /\ UNCHANGED <<queueVars, pingVars, phase, channelOpen, peerAlive, paused, flushRef,
                 flushTimeout, burst, opened>>

ChannelCloses ==
  /\ channelOpen /\ channelOpen' = FALSE
  /\ UNCHANGED <<queueVars, pingVars, phase, peerAlive, buffered, lowEvent, paused, flushRef,
                 flushTimeout, burst, opened>>

PeerDies ==
  /\ peerAlive /\ phase # "none" /\ peerAlive' = FALSE
  /\ UNCHANGED <<queueVars, pingVars, phase, channelOpen, buffered, lowEvent, paused, flushRef,
                 flushTimeout, burst, opened>>

Flush ==
  FlushEnd \/ FlushYield \/ FlushLarge \/ FlushPause \/ FlushSent \/ FlushFailed

ConnectionNext ==
  \/ NewConnection \/ EmitOpen \/ CloseConnection \/ OnChannelClosed
  \/ \E m \in Payload : Send(m)
  \/ \E byTimer \in BOOLEAN : FlushStart(byTimer)
  \/ Flush
  \/ EmitLowBackpressure
  \/ Ping \/ Pong
  \/ Drain \/ ChannelCloses \/ PeerDies

ConnectionSpec == ConnectionInit /\ [][ConnectionNext]_connectionVars

\* Timers and immediates expire, loops end, callbacks arrive, and a channel to a
\* peer that is alive drains.
ConnectionFairness ==
  /\ \A byTimer \in BOOLEAN : WF_connectionVars(FlushStart(byTimer))
  /\ WF_connectionVars(Flush)
  /\ WF_connectionVars(EmitLowBackpressure)
  /\ WF_connectionVars(OnChannelClosed)
  /\ WF_connectionVars(Ping) /\ WF_connectionVars(Pong)
  /\ WF_connectionVars(Drain)

-----------------------------------------------------------------------------
(* Properties.                                                             *)

ConnectionTypeOK ==
  /\ queue \in Seq([message : Payload, tries : 0 .. MaxTries - 1]) /\ Len(queue) <= MaxSize
  /\ phase \in {"none", "connecting", "open"}
  /\ buffered \in Nat
  /\ pingAttempts \in 0 .. MaxPingAttempts
  /\ burst \in -1 .. MaxBurst
  /\ settled \in [Payload -> {"no", "queued", "delivered", "failed"}]
  /\ order \in Seq(Payload)

\* While messages wait in the queue of an open connection, something will flush it:
\* an immediate, the retry timer, or the end of the backpressure; or the connection
\* is about to notice that its channel is closed.
FlushIsDue ==
  (phase = "open" /\ Quiet /\ queue # <<>>) =>
    flushRef \/ flushTimeout \/ ~channelOpen \/ (paused /\ (lowEvent \/ buffered > Low))

\* No promise of send is left behind: the queue holds exactly the messages that are
\* not settled, in the order of the calls, across connections, retries and overflow.
QueueHoldsUnsettled ==
  /\ \A m \in Payload :
       settled[m] = "queued" <=> \E i \in DOMAIN queue : queue[i].message = m
  /\ \A i, j \in DOMAIN queue : i < j =>
       \E a, b \in DOMAIN order :
         a < b /\ order[a] = queue[i].message /\ order[b] = queue[j].message

\* The queue of a connection holds what is not settled, and something will flush it.
QueueInv == ConnectionTypeOK /\ FlushIsDue /\ QueueHoldsUnsettled

\* Again and again every message is settled or there is no connection: a peer that
\* does not answer, or a buffer that never drains, does not keep a message forever.
MessagesSettle ==
  []<>(phase # "open" \/ queue = <<>>)
=============================================================================
