------------------------------ MODULE Session ------------------------------
(***************************************************************************)
(* The run loop of a session with its timer, the queues in front of it,    *)
(* and the closing protocol between the loop, the goroutine of the crypto  *)
(* stream, and the goroutines that call Close.                             *)
(*                                                                         *)
(* Time is a counter that starts at 1; 0 is the zero time.  The loop is    *)
(* faster than the clock.  What packets hold is abstracted to what         *)
(* handlePacketImpl makes of them (Kinds); whether sending is allowed and  *)
(* whether there is data to send is open.  Channels of capacity 1 are      *)
(* sequences of at most one element; a send to a full one blocks.          *)
(***************************************************************************)
EXTENDS Integers, Sequences, FiniteSets, FiniteSetsExt

CONSTANTS
    Callers,                       \* goroutines that may call Session.Close
    StreamIDs,                     \* streams that packets or OpenStream may open
    AckSendDelay, InitialIdleTimeout, IdleTimeout, MaxTimeForCryptoHandshake,
    RTO,                           \* getRTO(), without its backoff
    MaxSessionUnprocessedPackets,  \* capacity of receivedPackets
    MaxUndecryptablePackets,
    MaxPackets, MaxTime            \* bounds of the model

ASSUME SessionAssumption ==
    {AckSendDelay, InitialIdleTimeout, IdleTimeout, MaxTimeForCryptoHandshake, RTO,
     MaxSessionUnprocessedPackets, MaxUndecryptablePackets, MaxPackets, MaxTime} \subseteq Nat

\* What becomes of a packet: it is new, opens a stream, is a duplicate or too
\* old, has an error, has a CONNECTION_CLOSE, can be decrypted once the keys
\* are there, or never.
Kinds == {"new", "opens", "duplicate", "bad", "close", "early", "garbage"}

VARIABLES
    now, pc,
    timerAt,                       \* when the timer expires; 0 if its value has been read
    timerRead, currentDeadline,
    lastNetworkActivityTime, delayedAckOriginTime,
    stateChanged,                  \* receivedPacketHandler has an ACK to send
    rtoTime,                       \* sentPacketHandler.TimeOfFirstRTO()
    refused,                       \* SendingAllowed was false when there was an ACK to send
    handshakeComplete, aeadChanged,
    keys,                          \* the crypto stream has derived the keys
    receivedPackets, undecryptablePackets,
    closed, closeChan, runClosed,
    callers,                       \* where each caller is in Close
    streams,                       \* id -> "none", "open", or "late": opened when closed was set
    errored,                       \* streams with an error registered
    sentClose,                     \* CONNECTION_CLOSEs and public resets sent
    packets                        \* how many packets arrived

timeVars == <<timerAt, timerRead, currentDeadline>>
ackVars == <<delayedAckOriginTime, stateChanged, rtoTime, refused>>
closeVars == <<closed, closeChan, errored, sentClose>>
queueVars == <<receivedPackets, undecryptablePackets, packets>>
vars == <<now, pc, timeVars, lastNetworkActivityTime, ackVars, handshakeComplete, aeadChanged, keys, queueVars,
          closeVars, runClosed, callers, streams>>

Init ==
    /\ now = 1 /\ pc = "top"
    /\ timerAt = 1 /\ timerRead = FALSE /\ currentDeadline = 0
    /\ lastNetworkActivityTime = 1 /\ delayedAckOriginTime = 0 /\ stateChanged = FALSE
    /\ rtoTime = 0 /\ refused = FALSE
    /\ handshakeComplete = FALSE /\ aeadChanged = <<>> /\ keys = FALSE
    /\ receivedPackets = <<>> /\ undecryptablePackets = <<>>
    /\ closed = FALSE /\ closeChan = <<>> /\ runClosed = <<>>
    /\ callers = [c \in Callers |-> "out"]
    /\ streams = [id \in StreamIDs |-> "none"] /\ errored = {}
    /\ sentClose = <<>>
    /\ packets = 0

-----------------------------------------------------------------------------
(* The other goroutines.  What fills the loop's queues commutes with every *)
(* step of the loop but those of its select, and is taken there.           *)

\* Server.handlePacket hands a packet to the session, which drops it if the
\* channel is full.
handlePacket(queue, p) ==
    IF Len(queue) < MaxSessionUnprocessedPackets THEN Append(queue, p) ELSE queue
\* handlePacket for one packet after the other: those for which there is room.
handlePackets(queue, ps) ==
    queue \o SubSeq(ps, 1, Min({Len(ps), MaxSessionUnprocessedPackets - Len(queue)}))

Arrives(kind) ==
    /\ packets < MaxPackets /\ packets' = packets + 1
    /\ receivedPackets' = handlePacket(receivedPackets, [kind |-> kind, rcvTime |-> now])
    /\ UNCHANGED <<now, pc, timeVars, lastNetworkActivityTime, ackVars, handshakeComplete, aeadChanged, keys,
                   undecryptablePackets, closeVars, runClosed, callers, streams>>
PacketArrives(kind) == pc = "select" /\ Arrives(kind)

\* The crypto stream's goroutine derives the keys.
BugKeysDerived ==
    /\ pc = "select"
    /\ ~keys /\ keys' = TRUE
    /\ aeadChanged' = aeadChanged
    /\ UNCHANGED <<now, pc, timeVars, lastNetworkActivityTime, ackVars, handshakeComplete, queueVars, closeVars,
                   runClosed, callers, streams>>
KeysDerived ==
    /\ pc = "select"
    /\ ~keys /\ keys' = TRUE
    /\ aeadChanged' = <<"token">>
    /\ UNCHANGED <<now, pc, timeVars, lastNetworkActivityTime, ackVars, handshakeComplete, queueVars, closeVars,
                   runClosed, callers, streams>>

Opened(id) == [streams EXCEPT ![id] = IF closed THEN "late" ELSE "open"]
OpenStream(id) ==
    /\ pc # "ended"
    /\ streams[id] = "none"
    /\ streams' = Opened(id)
    /\ UNCHANGED <<now, pc, timeVars, lastNetworkActivityTime, ackVars, handshakeComplete, aeadChanged, keys,
                   queueVars, closeVars, runClosed, callers>>

OpenIDs == {id \in StreamIDs : streams[id] # "none"}

\* Close: closeImpl in three steps, and the wait for the loop's end.
CloseCall(c) ==
    /\ callers[c] = "out"
    /\ callers' = [callers EXCEPT ![c] = IF closed THEN "returned" ELSE "errors"]
    /\ closed' = TRUE
    /\ UNCHANGED <<now, pc, timeVars, lastNetworkActivityTime, ackVars, handshakeComplete, aeadChanged, keys,
                   queueVars, closeChan, errored, sentClose, runClosed, streams>>
CloseStreams(c) ==
    /\ callers[c] = "errors"
    /\ errored' = errored \cup OpenIDs
    /\ callers' = [callers EXCEPT ![c] = "signal"]
    /\ UNCHANGED <<now, pc, timeVars, lastNetworkActivityTime, ackVars, handshakeComplete, aeadChanged, keys,
                   queueVars, closed, closeChan, sentClose, runClosed, streams>>
CloseSignals(c) ==
    /\ callers[c] = "signal"
    /\ closeChan = <<>> /\ closeChan' = <<"error">>
    /\ callers' = [callers EXCEPT ![c] = "wait"]
    /\ UNCHANGED <<now, pc, timeVars, lastNetworkActivityTime, ackVars, handshakeComplete, aeadChanged, keys,
                   queueVars, closed, errored, sentClose, runClosed, streams>>
CloseReturns(c) ==
    /\ callers[c] = "wait"
    /\ runClosed # <<>> /\ runClosed' = <<>>
    /\ callers' = [callers EXCEPT ![c] = "returned"]
    /\ UNCHANGED <<now, pc, timeVars, lastNetworkActivityTime, ackVars, handshakeComplete, aeadChanged, keys,
                   queueVars, closeVars, streams>>

-----------------------------------------------------------------------------
(* The clock *)

\* The timer's channel holds a value.
TimerC == timerAt # 0 /\ timerAt < now

\* The loop has nothing to do.
Waits ==
    /\ pc = "select" /\ ~TimerC
    /\ closeChan = <<>> /\ receivedPackets = <<>> /\ aeadChanged = <<>>
Tick ==
    /\ Waits
    /\ now < MaxTime /\ now' = now + 1
    /\ UNCHANGED <<pc, timeVars, lastNetworkActivityTime, ackVars, handshakeComplete, aeadChanged, keys, queueVars,
                   closeVars, runClosed, callers, streams>>

-----------------------------------------------------------------------------
(* The loop: from its top to the select, an event, and what follows it *)

idleTimeout == IF handshakeComplete THEN IdleTimeout ELSE InitialIdleTimeout

NextDeadline ==
    Min({lastNetworkActivityTime + idleTimeout}
        \cup (IF delayedAckOriginTime = 0 THEN {} ELSE {delayedAckOriginTime + AckSendDelay})
        \cup (IF rtoTime = 0 THEN {} ELSE {rtoTime})
        \cup (IF handshakeComplete THEN {} ELSE {1 + MaxTimeForCryptoHandshake}))

\* Stop returns false and the value has not been read: the value is drained.
MustDrain == timerAt < now /\ ~timerRead

BugMaybeResetTimer ==
    IF NextDeadline = currentDeadline THEN UNCHANGED timeVars
    ELSE /\ timerAt' = IF timerAt = 0 THEN NextDeadline ELSE timerAt
         /\ timerRead' = FALSE
         /\ currentDeadline' = NextDeadline
maybeResetTimer ==
    IF NextDeadline = currentDeadline THEN UNCHANGED timeVars
    ELSE /\ timerAt' = NextDeadline
         /\ timerRead' = FALSE
         /\ currentDeadline' = NextDeadline

\* closeImpl, called by the loop.  A reason that is nil is not announced.
BugCloseFromLoop(reason) ==
    IF closed THEN UNCHANGED closeVars
    ELSE /\ closed' = TRUE
         /\ errored' = IF reason = "nil" THEN errored ELSE errored \cup OpenIDs
         /\ closeChan = <<>> /\ closeChan' = <<reason>>
         /\ sentClose' = IF reason = "reset" THEN Append(sentClose, "PublicReset") ELSE sentClose
CloseFromLoop(reason) ==
    IF closed THEN UNCHANGED closeVars
    ELSE /\ closed' = TRUE
         /\ errored' = errored \cup OpenIDs
         /\ closeChan = <<>> /\ closeChan' = <<reason>>
         /\ sentClose' = IF reason = "reset" THEN Append(sentClose, "PublicReset") ELSE sentClose

\* The loop leaves, from its top or from the select.
LoopTakesClose ==
    /\ pc \in {"top", "select"} /\ closeChan # <<>>
    /\ closeChan' = <<>>
    /\ sentClose' = IF Head(closeChan) \in {"error", "idle"} THEN Append(sentClose, "ConnectionClose")
                  ELSE sentClose
    /\ pc' = "ending"
    /\ UNCHANGED <<now, timeVars, lastNetworkActivityTime, ackVars, handshakeComplete, aeadChanged, keys, queueVars,
                   closed, errored, runClosed, callers, streams>>
\* The closeCallback of the server; module Server gives it its effect.
CallsBack ==
    /\ pc = "ending" /\ pc' = "reporting"
    /\ UNCHANGED <<now, timeVars, lastNetworkActivityTime, ackVars, handshakeComplete, aeadChanged, keys, queueVars,
                   closeVars, runClosed, callers, streams>>
BugLoopEnds ==
    /\ pc = "reporting" /\ pc' = "ended"
    /\ runClosed' = runClosed
    /\ UNCHANGED <<now, timeVars, lastNetworkActivityTime, ackVars, handshakeComplete, aeadChanged, keys, queueVars,
                   closeVars, callers, streams>>
LoopEnds ==
    /\ pc = "reporting" /\ pc' = "ended"
    /\ runClosed = <<>> /\ runClosed' = <<"token">>
    /\ UNCHANGED <<now, timeVars, lastNetworkActivityTime, ackVars, handshakeComplete, aeadChanged, keys, queueVars,
                   closeVars, callers, streams>>

LoopTop ==
    /\ pc = "top" /\ closeChan = <<>>
    /\ maybeResetTimer
    /\ pc' = IF NextDeadline # currentDeadline /\ MustDrain /\ ~TimerC THEN "blocked" ELSE "select"
    /\ UNCHANGED <<now, lastNetworkActivityTime, ackVars, handshakeComplete, aeadChanged, keys, queueVars, closeVars,
                   runClosed, callers, streams>>

TakesTimer ==
    /\ pc = "select" /\ TimerC
    /\ timerAt' = 0 /\ timerRead' = TRUE
    /\ pc' = "tail"
    /\ UNCHANGED <<now, currentDeadline, lastNetworkActivityTime, ackVars, handshakeComplete, aeadChanged,
                   keys, queueVars, closeVars, runClosed, callers, streams>>
\* The application may have written at any time; module StreamSend models the
\* token in sendingScheduled.
TakesScheduled ==
    /\ pc = "select" /\ pc' = "tail"
    /\ UNCHANGED <<now, timeVars, lastNetworkActivityTime, ackVars, handshakeComplete, aeadChanged, keys, queueVars,
                   closeVars, runClosed, callers, streams>>

Undecryptable(p) == p.kind = "garbage" \/ (p.kind = "early" /\ ~keys)

TooManyUndecryptable == Len(undecryptablePackets) + 1 >= MaxUndecryptablePackets

\* tryQueueingUndecryptablePacket; the loop then continues at its top.
QueuesUndecryptable ==
    /\ pc = "select" /\ receivedPackets # <<>> /\ Undecryptable(Head(receivedPackets))
    /\ receivedPackets' = Tail(receivedPackets)
    /\ lastNetworkActivityTime' = Head(receivedPackets).rcvTime
    /\ undecryptablePackets' = IF handshakeComplete THEN undecryptablePackets
                               ELSE Append(undecryptablePackets, Head(receivedPackets))
    /\ IF ~handshakeComplete /\ TooManyUndecryptable
       THEN CloseFromLoop("reset") ELSE UNCHANGED closeVars
    /\ pc' = "top"
    /\ UNCHANGED <<now, timeVars, ackVars, handshakeComplete, aeadChanged, keys, packets, runClosed, callers, streams>>

\* handlePacketImpl of a packet that can be decrypted: what its frames do to
\* the streams and to the session.  A packet may be the first forward secure one.
handlePacketImpl ==
    /\ pc = "select" /\ receivedPackets # <<>> /\ ~Undecryptable(Head(receivedPackets))
    /\ receivedPackets' = Tail(receivedPackets)
    /\ LET p == Head(receivedPackets) IN
       /\ lastNetworkActivityTime' = p.rcvTime
       /\ delayedAckOriginTime' = IF delayedAckOriginTime = 0 THEN p.rcvTime ELSE delayedAckOriginTime
       /\ stateChanged' \in CASE p.kind = "duplicate" -> {stateChanged}
                              [] p.kind = "bad" -> {stateChanged, TRUE}
                              [] OTHER -> {TRUE}
       /\ streams' \in IF p.kind = "opens" /\ OpenIDs # StreamIDs
                       THEN {Opened(id) : id \in StreamIDs \ OpenIDs} ELSE {streams}
       /\ CASE p.kind = "close" -> CloseFromLoop("nil")
            [] p.kind = "bad" -> CloseFromLoop("error")
            [] OTHER -> UNCHANGED closeVars
    /\ handshakeComplete' \in {handshakeComplete, keys}
    /\ pc' = "tail"
    /\ UNCHANGED <<now, timeVars, rtoTime, refused, aeadChanged, keys, undecryptablePackets,
                   packets, runClosed, callers>>

\* tryDecryptingQueuedPackets
TakesAeadChanged ==
    /\ pc = "select" /\ aeadChanged # <<>>
    /\ aeadChanged' = <<>>
    /\ receivedPackets' = handlePackets(receivedPackets, undecryptablePackets)
    /\ undecryptablePackets' = <<>>
    /\ pc' = "tail"
    /\ UNCHANGED <<now, timeVars, lastNetworkActivityTime, ackVars, handshakeComplete, keys, packets,
                   closeVars, runClosed, callers, streams>>

maySendOnlyAck == delayedAckOriginTime = 0 \/ now - delayedAckOriginTime > AckSendDelay

\* sendPacket, by how its last round ends: sending is refused or fails, or
\* there is nothing (more) to send, after some packets or none.
sendPacket(outcome) ==
    /\ rtoTime' = IF outcome = "sent" \/ rtoTime <= now THEN now + RTO ELSE rtoTime
    /\ refused' = (outcome = "refused" /\ stateChanged)
    /\ outcome = "nothing" => ~(stateChanged /\ maySendOnlyAck)
    /\ stateChanged' = (stateChanged /\ outcome # "sent")
    /\ delayedAckOriginTime' = IF outcome = "sent" THEN 0 ELSE delayedAckOriginTime

IdleTooLong == now - lastNetworkActivityTime >= idleTimeout
HandshakeTooLong == ~handshakeComplete /\ now - 1 >= MaxTimeForCryptoHandshake

\* What follows the select: sendPacket and the two timeouts.
LoopTail ==
    /\ pc = "tail" /\ pc' = "top"
    /\ \E outcome \in {"refused", "nothing", "sent", "fails"} :
         /\ sendPacket(outcome)
         /\ CASE outcome = "fails" -> CloseFromLoop("error")
              [] outcome # "fails" /\ (IdleTooLong \/ HandshakeTooLong) -> CloseFromLoop("idle")
              [] OTHER -> UNCHANGED closeVars
    /\ UNCHANGED <<now, timeVars, lastNetworkActivityTime, handshakeComplete, aeadChanged, keys, queueVars,
                   runClosed, callers, streams>>

\* The steps of the loop before its end.
Running == \/ LoopTakesClose \/ LoopTop \/ TakesTimer \/ TakesScheduled
           \/ QueuesUndecryptable \/ handlePacketImpl \/ TakesAeadChanged \/ LoopTail
Loop == Running \/ CallsBack \/ LoopEnds

Closing(c) == CloseStreams(c) \/ CloseSignals(c) \/ CloseReturns(c)

Next ==
    \/ Loop
    \/ \E kind \in Kinds : PacketArrives(kind)
    \/ KeysDerived
    \/ \E id \in StreamIDs : OpenStream(id)
    \/ \E c \in Callers : CloseCall(c) \/ Closing(c)
    \/ Tick

Spec == Init /\ [][Next]_vars /\ WF_vars(Loop) /\ \A c \in Callers : WF_vars(Closing(c))

-----------------------------------------------------------------------------
(* Properties *)

\* An ACK whose delay has passed and that could not be sent.
AckOverdue == delayedAckOriginTime # 0 /\ delayedAckOriginTime + AckSendDelay < now

\* While the loop waits, none of the deadlines of maybeResetTimer has passed,
\* unless the delay of an ACK has passed and sendPacket sent nothing; and that
\* happens to an ACK that is to be sent only when sending was refused.  And the
\* drain of maybeResetTimer only receives from a channel that has a value: the
\* loop never blocks there, past every deadline.
DeadlinesAreMet ==
    /\ Waits /\ ~closed =>
        /\ NextDeadline >= now \/ AckOverdue
        /\ stateChanged /\ ~refused => ~AckOverdue /\ delayedAckOriginTime # 0
    /\ pc # "blocked"

\* When the loop waits and the keys are there, no packet that arrived before
\* them is still queued as undecryptable.
EarlyPacketsAreRetried ==
    Waits /\ keys => \A i \in 1..Len(undecryptablePackets) : undecryptablePackets[i].kind # "early"

\* When the loop has ended, every stream opened before the session was closed
\* has an error, so that its readers and writers return, and the peer was told
\* of the end at most once, by a CONNECTION_CLOSE or by a public reset.
EveryoneIsTold ==
    pc = "ended" =>
        /\ \A id \in StreamIDs : streams[id] = "open" => id \in errored
        /\ Len(sentClose) <= 1

\* A session that is closed, by whomever, ends its loop, and every call of Close
\* returns.
ClosingEnds == closed ~> pc = "ended" /\ \A c \in Callers : callers[c] \in {"out", "returned"}

\* A session without network activity is closed when its idle timeout has
\* passed (session_test.go:761 "times out due to no network activity").
TimesOut == Waits => now <= lastNetworkActivityTime + idleTimeout \/ closed
=============================================================================
