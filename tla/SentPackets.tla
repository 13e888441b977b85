---------------------------- MODULE SentPackets ----------------------------
(***************************************************************************)
(* The loss detection of the server: sentPacketHandler, its                *)
(* stopWaitingManager, and the part of Session.sendPacket that drives them *)
(* (drain the retransmission queue into the stream framer, ask for a       *)
(* STOP_WAITING, pack, register the packet).  All of it runs in the        *)
(* session's goroutine, so a handler is one action.                        *)
(*                                                                         *)
(* The packet history, a list in ascending order, is a set of packets; the *)
(* retransmission queue, which sendPacket drains completely, is a set too. *)
(* A frame is a model value: the frames of the streams, and the control    *)
(* frames that travel through packetPacker.controlFrames.  An ACK frame is *)
(* the nonempty set of numbers it acknowledges.  Time and the congestion   *)
(* window are abstracted: the RTO timer may expire, and sending be refused *)
(* for congestion, at any time.  A turn of sendPacket whose timer expired  *)
(* is then MaybeQueueRTOs followed by a turn whose timer has not.          *)
(***************************************************************************)
EXTENDS Integers, FiniteSets, FiniteSetsExt

CONSTANTS
    StreamFrames,             \* the stream data of the connection
    ControlFrames,            \* its WINDOW_UPDATE frames
    MaxFramesPerPacket,       \* bound of the model: packet size in frames
    MaxPacketNumber,          \* bound of the model
    MaxAcks,                  \* bound of the model: packets with an ACK
    RetransmissionThreshold,  \* protocol.RetransmissionThreshold
    MaxTrackedSentPackets,    \* protocol.MaxTrackedSentPackets
    MaxTrackedSkippedPackets  \* protocol.MaxTrackedSkippedPackets

ASSUME SentPacketsAssumption ==
    /\ IsFiniteSet(StreamFrames) /\ IsFiniteSet(ControlFrames) /\ StreamFrames \cap ControlFrames = {}
    /\ MaxFramesPerPacket \in Nat /\ MaxAcks \in Nat /\ MaxPacketNumber \in Nat /\ RetransmissionThreshold \in Nat
    /\ MaxTrackedSentPackets \in Nat /\ MaxTrackedSkippedPackets \in Nat

VARIABLES
    lastSentPacketNumber, skippedPackets, LargestAcked, largestReceivedPacketWithAck,
    packetHistory, retransmissionQueue, bytesInFlight,
    largestLeastUnackedSent, nextLeastUnacked, lastStopWaitingFrame, \* stopWaitingManager
    unsent,        \* frames that the streams or the flow controllers did not hand out yet
    framerQueue,   \* streamFramer.retransmissionQueue, with the number of the packet lost
    controlFrames, \* packetPacker.controlFrames
    closed,        \* an ACK was refused: the session closes
    acked,         \* frames of acknowledged packets
    lastPacket     \* the packet sent by the last step, for the properties

handlerVars == <<lastSentPacketNumber, skippedPackets, LargestAcked, largestReceivedPacketWithAck,
                 packetHistory, retransmissionQueue, bytesInFlight>>
stopWaitingVars == <<largestLeastUnackedSent, nextLeastUnacked, lastStopWaitingFrame>>
vars == <<handlerVars, stopWaitingVars, unsent, framerQueue, controlFrames, closed, acked, lastPacket>>

PacketNumbers == 1 .. MaxPacketNumber

\* 0 stands for "no STOP_WAITING" and "no packet".
NoPacket == [PacketNumber |-> 0, LeastUnacked |-> 0, Resent |-> {}]

Init ==
    /\ lastSentPacketNumber = 0 /\ skippedPackets = {}
    /\ LargestAcked = 0 /\ largestReceivedPacketWithAck = 0
    /\ packetHistory = {} /\ retransmissionQueue = {} /\ bytesInFlight = 0
    /\ largestLeastUnackedSent = 0 /\ nextLeastUnacked = 0 /\ lastStopWaitingFrame = 0
    /\ unsent = StreamFrames \cup ControlFrames /\ framerQueue = {} /\ controlFrames = {}
    /\ closed = FALSE /\ acked = {}
    /\ lastPacket = NoPacket

Numbers(packets) == {p.PacketNumber : p \in packets}
FramesOf(packets) == UNION {p.Frames : p \in packets}
Length(frames) == 1 + Cardinality(frames)

largestInOrderAcked ==
    IF packetHistory = {} THEN LargestAcked ELSE Min(Numbers(packetHistory)) - 1

-----------------------------------------------------------------------------
(* stopWaitingManager *)

StopWaitingIsNew == nextLeastUnacked > largestLeastUnackedSent

\* The LeastUnacked of the frame returned, 0 for nil.
BugStopWaitingFrame(force) == IF StopWaitingIsNew THEN nextLeastUnacked ELSE 0
StopWaitingFrame(force) ==
    IF StopWaitingIsNew THEN nextLeastUnacked ELSE IF force THEN lastStopWaitingFrame ELSE 0

GetStopWaitingFrame ==
    /\ largestLeastUnackedSent' = IF StopWaitingIsNew THEN nextLeastUnacked ELSE largestLeastUnackedSent
    /\ lastStopWaitingFrame' = IF StopWaitingIsNew THEN nextLeastUnacked ELSE lastStopWaitingFrame
    /\ UNCHANGED nextLeastUnacked

\* ReceivedAck and QueuedRetransmissionForPacketNumber for the numbers seen.
LeastUnackedAfter(seen) == Max({nextLeastUnacked} \cup {n + 1 : n \in seen})

-----------------------------------------------------------------------------
(* Session.sendPacket *)

Tracked == Cardinality(retransmissionQueue) + Cardinality(packetHistory)
SendingAllowed == Tracked < MaxTrackedSentPackets

\* The queues of the framer and of the packer after sendPacket has dequeued
\* every packet: GetStreamFramesForRetransmission and GetControlFramesForRetransmission.
Drained ==
    framerQueue \cup UNION {{[Frame |-> f, Lost |-> p.PacketNumber] : f \in p.Frames \cap StreamFrames}
                               : p \in retransmissionQueue}
DrainedControl == controlFrames \cup (FramesOf(retransmissionQueue) \cap ControlFrames)

\* The data that the streams still have to hand to the framer.
BugUnpopped == StreamFrames
Unpopped == unsent \cap StreamFrames

\* composeNextPacket: control frames first, then retransmissions, then new
\* data, while there is room.
Packed(control, resent, new, windowUpdates) ==
    LET queued == DrainedControl \cup windowUpdates
    IN  /\ control \subseteq queued /\ resent \subseteq Drained /\ new \subseteq Unpopped
        /\ Cardinality(control) + Cardinality(resent) + Cardinality(new) <= MaxFramesPerPacket
        /\ resent # {} => control = queued
        /\ new # {} => control = queued /\ resent = Drained

\* The skipped numbers are remembered, the oldest dropped beyond the limit.
Remembered(skipped) ==
    {p \in skipped : Cardinality({q \in skipped : q >= p}) <= MaxTrackedSkippedPackets}

\* SentPacket with number n and the given frames.
SentPacket(n, frames) ==
    /\ n > lastSentPacketNumber
    /\ skippedPackets' = Remembered(skippedPackets \cup (lastSentPacketNumber + 1 .. n - 1))
    /\ bytesInFlight' = bytesInFlight + Length(frames)
    /\ lastSentPacketNumber' = n
    /\ packetHistory' = packetHistory \cup
          {[PacketNumber |-> n, Frames |-> frames, Length |-> Length(frames), MissingReports |-> 0]}

\* One turn of the loop that sends packet n, with an ACK frame or without.
\* Window updates go into this packet and once more into the next.
SendPacket(n, control, resent, new, windowUpdates, withAck) ==
    LET hasRetransmission == Drained # {}
        frames == control \cup {r.Frame : r \in resent} \cup new
    IN  /\ ~closed
        /\ SendingAllowed
        /\ SentPacket(n, frames)
        /\ windowUpdates \subseteq unsent \cap ControlFrames
        /\ Packed(control, resent, new, windowUpdates)
        /\ frames # {} \/ withAck
        /\ retransmissionQueue' = {}
        /\ framerQueue' = Drained \ resent
        /\ controlFrames' = ((DrainedControl \cup windowUpdates) \ control) \cup windowUpdates
        /\ unsent' = unsent \ (new \cup windowUpdates)
        /\ IF withAck \/ hasRetransmission THEN GetStopWaitingFrame ELSE UNCHANGED stopWaitingVars
        /\ lastPacket' = [PacketNumber |-> n, Resent |-> {r.Lost : r \in resent},
                          LeastUnacked |-> IF withAck \/ hasRetransmission
                                           THEN StopWaitingFrame(hasRetransmission) ELSE 0]
        /\ UNCHANGED <<LargestAcked, largestReceivedPacketWithAck, closed, acked>>

\* One turn that packs nothing: there is nothing to send but an ACK that may
\* not go alone yet.  The STOP_WAITING asked for is dropped but counts as sent.
SendNothing(withAck) ==
    /\ ~closed
    /\ SendingAllowed
    /\ Drained = {} /\ DrainedControl = {}
    /\ retransmissionQueue' = {}
    /\ IF withAck THEN GetStopWaitingFrame ELSE UNCHANGED stopWaitingVars
    /\ lastPacket' = NoPacket
    /\ UNCHANGED <<lastSentPacketNumber, skippedPackets, LargestAcked, largestReceivedPacketWithAck,
                   packetHistory, bytesInFlight, unsent, framerQueue, controlFrames, closed, acked>>

-----------------------------------------------------------------------------
(* Loss detection *)

Flight(packets) == MapThenSumSet(LAMBDA p : p.Length, packets)

\* ackPacket and queuePacketForRetransmission for sets of packets.
BugForget(ackedPackets, lost, kept) ==
    /\ bytesInFlight' = bytesInFlight - Flight(ackedPackets) - Flight(lost)
    /\ retransmissionQueue' = lost
    /\ packetHistory' = kept
    /\ acked' = acked \cup FramesOf(ackedPackets)
Forget(ackedPackets, lost, kept) ==
    /\ bytesInFlight' = bytesInFlight - Flight(ackedPackets) - Flight(lost)
    /\ retransmissionQueue' = retransmissionQueue \cup lost
    /\ packetHistory' = kept
    /\ acked' = acked \cup FramesOf(ackedPackets)

\* MaybeQueueRTOs, when the timer has expired: the two oldest packets.
BugMaybeQueueRTOs ==
    LET oldest == {p \in packetHistory :
                      Cardinality({q \in packetHistory : q.PacketNumber <= p.PacketNumber}) <= 2}
    IN  /\ ~closed
        /\ Cardinality(packetHistory) > 1
        /\ Forget({}, oldest, packetHistory \ oldest)
        /\ nextLeastUnacked' = LeastUnackedAfter(Numbers(oldest))
        /\ lastPacket' = NoPacket
        /\ UNCHANGED <<lastSentPacketNumber, skippedPackets, LargestAcked, largestReceivedPacketWithAck,
                       largestLeastUnackedSent, lastStopWaitingFrame, unsent, framerQueue, controlFrames, closed>>
MaybeQueueRTOs ==
    LET oldest == {p \in packetHistory :
                      Cardinality({q \in packetHistory : q.PacketNumber <= p.PacketNumber}) <= 2}
    IN  /\ ~closed
        /\ packetHistory # {}
        /\ Forget({}, oldest, packetHistory \ oldest)
        /\ nextLeastUnacked' = LeastUnackedAfter(Numbers(oldest))
        /\ lastPacket' = NoPacket
        /\ UNCHANGED <<lastSentPacketNumber, skippedPackets, LargestAcked, largestReceivedPacketWithAck,
                       largestLeastUnackedSent, lastStopWaitingFrame, unsent, framerQueue, controlFrames, closed>>

Nacked(packets) == {[p EXCEPT !.MissingReports = @ + 1] : p \in packets}
IsLost(p) == p.MissingReports > RetransmissionThreshold

\* Why an ACK frame is refused: it names a packet that was never sent, or
\* one that was skipped on purpose.
Refused(ack, with) ==
    \/ Max(ack) > lastSentPacketNumber
    \/ /\ with > largestReceivedPacketWithAck
       /\ Max(ack) > largestInOrderAcked
       /\ ack \cap skippedPackets # {}

\* The session closes.  A packet never sent is noticed before the number of
\* the packet with the ACK is stored, a skipped one after.
ReceivedAckFails(ack, with) ==
    /\ ~closed
    /\ Refused(ack, with)
    /\ closed' = TRUE
    /\ lastPacket' = NoPacket
    /\ largestReceivedPacketWithAck' =
          IF Max(ack) > lastSentPacketNumber THEN largestReceivedPacketWithAck ELSE with
    /\ UNCHANGED <<lastSentPacketNumber, skippedPackets, LargestAcked, packetHistory, retransmissionQueue,
                   bytesInFlight, stopWaitingVars, unsent, framerQueue, controlFrames, acked>>

\* A repeated ACK only moves largestReceivedPacketWithAck.  An older one, for
\* which ErrDuplicateOrOutOfOrderAck is returned, changes nothing.
ReceivedAckRepeated(ack, with) ==
    /\ ~closed
    /\ ~Refused(ack, with)
    /\ with > largestReceivedPacketWithAck
    /\ Max(ack) <= largestInOrderAcked
    /\ largestReceivedPacketWithAck' = with
    /\ lastPacket' = NoPacket
    /\ UNCHANGED <<lastSentPacketNumber, skippedPackets, LargestAcked, packetHistory,
                   retransmissionQueue, bytesInFlight, stopWaitingVars, unsent, framerQueue, controlFrames, closed, acked>>

\* The packets of the history that the frame's ranges contain.
BugFound(ack) == {p \in packetHistory : p.PacketNumber <= Max(ack) /\ p.PacketNumber >= Min(ack)}
Found(ack) == {p \in packetHistory : p.PacketNumber \in ack}

\* Packets below LargestAcked that the frame does not name are reported
\* missing, and queued once they were missing too often.
ReceivedAck(ack, with) ==
    LET below   == {p \in packetHistory : p.PacketNumber <= Max(ack)}
        found   == Found(ack)
        missing == Nacked(below \ found)
        lost    == {p \in missing : IsLost(p)}
        kept    == (packetHistory \ below) \cup (missing \ lost)
    IN  /\ ~closed
        /\ ~Refused(ack, with)
        /\ with > largestReceivedPacketWithAck
        /\ Max(ack) > largestInOrderAcked
        /\ largestReceivedPacketWithAck' = with
        /\ LargestAcked' = Max(ack)
        /\ Forget(found, lost, kept)
        /\ skippedPackets' = {s \in skippedPackets : s > largestInOrderAcked'}
        /\ nextLeastUnacked' = LeastUnackedAfter(Numbers(lost) \cup {Max(ack)})
        /\ lastPacket' = NoPacket
        /\ UNCHANGED <<lastSentPacketNumber, largestLeastUnackedSent, lastStopWaitingFrame, unsent,
                       framerQueue, controlFrames, closed>>

-----------------------------------------------------------------------------
\* A step against a peer that acknowledges anything, with packet numbers and
\* numbers of packets with an ACK taken from the given sets.
Step(numbers, withs) ==
    \/ \E n \in numbers, control \in SUBSET ControlFrames, resent \in SUBSET Drained,
          new \in SUBSET Unpopped, windowUpdates \in SUBSET (unsent \cap ControlFrames), withAck \in BOOLEAN :
          SendPacket(n, control, resent, new, windowUpdates, withAck)
    \/ \E withAck \in BOOLEAN : SendNothing(withAck)
    \/ MaybeQueueRTOs
    \/ \E ack \in (SUBSET numbers) \ {{}}, with \in withs :
          \/ ReceivedAckFails(ack, with)
          \/ ReceivedAckRepeated(ack, with)
          \/ ReceivedAck(ack, with)

Next == Step(PacketNumbers, 1 .. MaxAcks)

Spec == Init /\ [][Next]_vars

-----------------------------------------------------------------------------
(* Properties *)

\* Where a frame of a stream is: not sent yet, waiting in the framer to be
\* resent, acknowledged, or in a packet that the handler tracks.
Places(f) ==
    {<<"unsent", u>> : u \in unsent \cap {f}}
    \cup {<<"framer", r>> : r \in {q \in framerQueue : q.Frame = f}}
    \cup {<<"acked", a>> : a \in acked \cap {f}}
    \cup {<<"history", p>> : p \in {q \in packetHistory : f \in q.Frames}}
    \cup {<<"queue", p>> : p \in {q \in retransmissionQueue : f \in q.Frames}}

\* No acknowledgement, loss report or timeout, in whatever order they hit a
\* packet, loses stream data or retransmits data whose acknowledgement the
\* handler has seen: every frame is always in exactly one place.
EachFrameInOnePlace == \A f \in StreamFrames : \E p \in Places(f) : Places(f) = {p}

\* A packet that resends stream data carries a STOP_WAITING that covers the
\* packets lost, and that the frame's Write accepts (LeastUnacked at most the
\* number of the packet).
ResentDataStopsWaiting ==
    /\ \A n \in lastPacket.Resent : n < lastPacket.LeastUnacked
    /\ lastPacket.LeastUnacked <= lastPacket.PacketNumber

\* The handler implements ReliableFrames: a frame is in flight while a packet
\* of the history carries it, and lost while it waits in one of the queues.
Phase(f) ==
    IF f \in unsent THEN "unsent" ELSE IF f \in FramesOf(packetHistory) THEN "flying"
    ELSE IF f \in acked THEN "acked" ELSE "lost"
Reliable == INSTANCE ReliableFrames WITH phase <- [f \in StreamFrames |-> Phase(f)]

\* Acknowledgements, losses and timeouts move the frames only along the
\* life cycle of ReliableFrames; nothing acknowledged is sent again.
FramesAreReliable == Reliable!Spec
=============================================================================
