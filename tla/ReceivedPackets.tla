--------------------------- MODULE ReceivedPackets ---------------------------
(***************************************************************************)
(* The receiving half of package ackhandler: receivedPacketHandler         *)
(* (received_packet_handler.go) on top of receivedPacketHistory            *)
(* (received_packet_history.go).  It decides which packets are handed to   *)
(* the frame handlers, keeps the received packet numbers both as a set and *)
(* as an ordered list of intervals, and builds the ACK frames.             *)
(*                                                                         *)
(* The caller is the session's run loop: handlePacketImpl calls            *)
(* ReceivedPacket and, only if that succeeded, ReceivedStopWaiting for the *)
(* STOP_WAITING frames of that packet; sendPacket calls GetAckFrame.       *)
(* ParseStopWaitingFrame computes LeastUnacked as the packet's own number  *)
(* minus an unsigned delta, so LeastUnacked never exceeds it.              *)
(*                                                                         *)
(* Abstracted: packet contents and receive times.                          *)
(***************************************************************************)
EXTENDS Integers, Sequences, FiniteSets, FiniteSetsExt

CONSTANTS
    MaxPacketNumber,             \* bound of the model: packet numbers 0..MaxPacketNumber
    MaxTrackedReceivedAckRanges, \* protocol.MaxTrackedReceivedAckRanges
    MaxTrackedReceivedPackets    \* protocol.MaxTrackedReceivedPackets

ASSUME BoundsAssumption ==
    /\ MaxPacketNumber \in Nat
    /\ MaxTrackedReceivedAckRanges \in Nat
    /\ MaxTrackedReceivedPackets \in Nat

VARIABLES
    largestObserved,
    ignorePacketsBelow,
    currentAckFrame,               \* the cached frame, or NoFrame
    stateChanged,
    ranges,                        \* the PacketIntervalList, front to back
    receivedPacketNumbers,         \* the map used as a set
    lowestInReceivedPacketNumbers,
    processing,                    \* number of the packet whose frames are being handled, 0 if none
    closed,                        \* ReceivedPacket returned an error the session closes on
    sentAck,                       \* the last frame dequeued by GetAckFrame(true)
    accepted                       \* history: how often each packet number was accepted

vars == <<largestObserved, ignorePacketsBelow, currentAckFrame, stateChanged,
          ranges, receivedPacketNumbers, lowestInReceivedPacketNumbers,
          processing, closed, sentAck, accepted>>

PacketNumbers == 0..MaxPacketNumber

Interval == [Start: PacketNumbers, End: PacketNumbers]

AckFrame == [LargestAcked: PacketNumbers, LowestAcked: PacketNumbers, AckRanges: Seq(Interval)]

NoFrame == [nil |-> TRUE]

Init ==
    /\ largestObserved = 0
    /\ ignorePacketsBelow = 0
    /\ currentAckFrame = NoFrame
    /\ stateChanged = FALSE
    /\ ranges = <<>>
    /\ receivedPacketNumbers = {}
    /\ lowestInReceivedPacketNumbers = 0
    /\ processing = 0
    /\ closed = FALSE
    /\ sentAck = NoFrame
    /\ accepted = [p \in PacketNumbers |-> 0]

-----------------------------------------------------------------------------
(* receivedPacketHistory *)

\* The list's InsertAfter and InsertBefore, with the position of the new element, and Remove.
InsertAt(list, i, r) == SubSeq(list, 1, i - 1) \o <<r>> \o SubSeq(list, i, Len(list))
RemoveAt(list, i) == SubSeq(list, 1, i - 1) \o SubSeq(list, i + 1, Len(list))

\* The loop over the list stops at the element r (walking from the back) when
\* p lies inside it, touches it on either side, or lies behind it.
StopsAt(r, p) ==
    \/ p >= r.Start /\ p <= r.End
    \/ r.End = p - 1
    \/ r.Start = p + 1
    \/ p > r.End

\* The position of that element; 0 when the loop runs through the list.
StopIndex(rs, p) ==
    LET I == {i \in 1..Len(rs) : StopsAt(rs[i], p)}
    IN  IF I # {} THEN Max(I) ELSE 0

\* Two neighbours in the list touch, so that the code merges them.
BugTouch(prev, r) == prev.End = r.Start
Touch(prev, r) == prev.End + 1 = r.Start

\* The element r with p added at its end or at its beginning.
Extend(r, p) ==
    IF r.End = p - 1 THEN [Start |-> r.Start, End |-> p] ELSE [Start |-> p, End |-> r.End]

\* The list after ReceivedPacket(p): p is absorbed, or extends the range the
\* loop stopped at (which is then merged with its predecessor if they touch),
\* or becomes a range of its own behind that element or at the front.
AddToRanges(rs, p) ==
    LET el       == StopIndex(rs, p)
        single   == [Start |-> p, End |-> p]
        extended == Extend(rs[el], p)
    IN  IF el = 0 THEN <<single>> \o rs
        ELSE IF p >= rs[el].Start /\ p <= rs[el].End THEN rs
        ELSE IF rs[el].End # p - 1 /\ rs[el].Start # p + 1 THEN InsertAt(rs, el + 1, single)
        ELSE IF el > 1 /\ Touch(rs[el - 1], extended)
             THEN RemoveAt([rs EXCEPT ![el - 1] =
                               [Start |-> rs[el - 1].Start, End |-> extended.End]], el)
             ELSE [rs EXCEPT ![el] = extended]

\* The list after DeleteBelow(leastUnacked): ranges that end below it go, the
\* first range that does not is cut at it.  (The list is sorted, see
\* RangesMatchReceived, so the loop of the code changes nothing behind that one.)
DropBelow(rs, leastUnacked) ==
    LET kept  == {i \in 1..Len(rs) : ~(rs[i].End < leastUnacked)}
        first == Min(kept)
    IN  IF kept = {} THEN <<>>
        ELSE [i \in 1..(Len(rs) - first + 1) |->
                IF i = 1 /\ leastUnacked > rs[first].Start
                THEN [Start |-> leastUnacked, End |-> rs[first].End]
                ELSE rs[first + i - 1]]

\* The packet numbers of the intervals of rs.
Covered(rs) == UNION {rs[i].Start .. rs[i].End : i \in DOMAIN rs}

\* What DeleteBelow(leastUnacked) removes from the map.
Forgotten(leastUnacked) == {n \in Covered(ranges) : n < leastUnacked}

BugIsDuplicate(p) == p < lowestInReceivedPacketNumbers
IsDuplicate(p) == p < lowestInReceivedPacketNumbers \/ p \in receivedPacketNumbers

TooManyOutstanding ==
    \/ Len(ranges) >= MaxTrackedReceivedAckRanges
    \/ Cardinality(receivedPacketNumbers) >= MaxTrackedReceivedPackets

-----------------------------------------------------------------------------
(* receivedPacketHandler *)

\* ReceivedPacket returns an error that makes the session close.
ReceivedPacketFails(p) ==
    /\ ~closed
    /\ \/ p = 0
       \/ p > ignorePacketsBelow /\ ~IsDuplicate(p) /\ TooManyOutstanding
    /\ closed' = TRUE
    /\ processing' = 0
    /\ UNCHANGED <<largestObserved, ignorePacketsBelow, currentAckFrame, stateChanged, ranges,
                   receivedPacketNumbers, lowestInReceivedPacketNumbers, sentAck, accepted>>

\* ReceivedPacket returns ErrDuplicatePacket or ErrPacketSmallerThanLastStopWaiting:
\* handlePacketImpl drops the packet without looking at its frames.
ReceivedPacketIgnored(p) ==
    /\ ~closed
    /\ p # 0
    /\ p <= ignorePacketsBelow \/ IsDuplicate(p)
    /\ processing' = 0
    /\ UNCHANGED <<largestObserved, ignorePacketsBelow, currentAckFrame, stateChanged, ranges,
                   receivedPacketNumbers, lowestInReceivedPacketNumbers, closed, sentAck, accepted>>

BugLargest(p) == p
Largest(p) == IF p > largestObserved THEN p ELSE largestObserved

\* ReceivedPacket registers the packet; its frames are handled next.
ReceivedPacketAccepted(p) ==
    /\ ~closed
    /\ p # 0
    /\ p > ignorePacketsBelow
    /\ ~IsDuplicate(p)
    /\ ~TooManyOutstanding
    /\ receivedPacketNumbers' = receivedPacketNumbers \cup {p}
    /\ ranges' = AddToRanges(ranges, p)
    /\ stateChanged' = TRUE
    /\ currentAckFrame' = NoFrame
    /\ largestObserved' = Largest(p)
    /\ processing' = p
    /\ accepted' = [accepted EXCEPT ![p] = @ + 1]
    /\ UNCHANGED <<ignorePacketsBelow, lowestInReceivedPacketNumbers, closed, sentAck>>

\* A STOP_WAITING with a higher LeastUnacked was received before.
StopWaitingUnneeded(leastUnacked) == ignorePacketsBelow >= leastUnacked

\* A STOP_WAITING frame of the packet being processed.
ReceivedStopWaiting(leastUnacked) ==
    /\ ~closed
    /\ processing # 0
    /\ leastUnacked <= processing
    /\ ~StopWaitingUnneeded(leastUnacked)
    /\ ignorePacketsBelow' = leastUnacked - 1
    /\ lowestInReceivedPacketNumbers' =
          IF lowestInReceivedPacketNumbers > leastUnacked
          THEN lowestInReceivedPacketNumbers ELSE leastUnacked
    /\ receivedPacketNumbers' = receivedPacketNumbers \ Forgotten(leastUnacked)
    /\ ranges' = DropBelow(ranges, leastUnacked)
    /\ UNCHANGED <<largestObserved, currentAckFrame, stateChanged, processing, closed,
                   sentAck, accepted>>

BugHasMissingRanges == Len(ranges) > 2
HasMissingRanges == Len(ranges) > 1

\* The frame GetAckFrame builds from the history.  Its LowestAcked is taken
\* from the first range; with an empty list that index is out of range.
BuildAckFrame ==
    [LargestAcked |-> largestObserved,
     LowestAcked  |-> ranges[1].Start,
     AckRanges    |-> IF HasMissingRanges THEN [i \in 1..Len(ranges) |-> ranges[Len(ranges) + 1 - i]]
                                         ELSE <<>>]

\* sendPacket asks for the frame (dequeue = FALSE) and takes it once it knows
\* that the packet goes out (dequeue = TRUE).
GetAckFrame(dequeue) ==
    /\ ~closed
    /\ stateChanged
    /\ stateChanged' = ~dequeue
    /\ currentAckFrame' = IF currentAckFrame # NoFrame THEN currentAckFrame ELSE BuildAckFrame
    /\ sentAck' = IF dequeue THEN currentAckFrame' ELSE sentAck
    /\ processing' = 0
    /\ UNCHANGED <<largestObserved, ignorePacketsBelow, ranges, receivedPacketNumbers,
                   lowestInReceivedPacketNumbers, closed, accepted>>

Next ==
    \/ \E p \in PacketNumbers :
          \/ ReceivedPacketFails(p)
          \/ ReceivedPacketIgnored(p)
          \/ ReceivedPacketAccepted(p)
          \/ ReceivedStopWaiting(p)
    \/ \E dequeue \in BOOLEAN : GetAckFrame(dequeue)

Spec == Init /\ [][Next]_vars

-----------------------------------------------------------------------------
(* Properties *)

\* The fields of both structs keep their types; intervals and frames hold
\* packet numbers in the range of the model.
TypeOK ==
    /\ largestObserved \in PacketNumbers
    /\ ignorePacketsBelow \in PacketNumbers
    /\ currentAckFrame \in AckFrame \cup {NoFrame}
    /\ stateChanged \in BOOLEAN
    /\ ranges \in Seq(Interval)
    /\ receivedPacketNumbers \subseteq PacketNumbers
    /\ lowestInReceivedPacketNumbers \in PacketNumbers
    /\ processing \in PacketNumbers
    /\ closed \in BOOLEAN
    /\ sentAck \in AckFrame \cup {NoFrame}
    /\ accepted \in [PacketNumbers -> Nat]

\* The intervals of rs are nonempty, ascending, and never touch.
Separated(rs) ==
    /\ \A i \in DOMAIN rs : rs[i].Start <= rs[i].End
    /\ \A i, j \in DOMAIN rs : i < j => rs[i].End + 1 < rs[j].Start

\* The two representations of the history agree: the interval list stays
\* sorted with a gap between neighbours (extending and merging in
\* ReceivedPacket, cutting in DeleteBelow) and covers exactly the numbers in
\* the map that IsDuplicate consults.
RangesMatchReceived ==
    /\ Separated(ranges)
    /\ Covered(ranges) = receivedPacketNumbers

\* The packet numbers an ACK frame acknowledges (AckFrame.AcksPacket).
Acks(f) ==
    IF Len(f.AckRanges) > 0 THEN Covered(f.AckRanges)
    ELSE f.LowestAcked .. f.LargestAcked

\* Whenever sendPacket would get an ACK frame, the history is not empty (the
\* index ackRanges[len-1] is in range), LargestAcked is the end of the last
\* range (AckFrame.Write rejects anything else), and the frame, cached or
\* built now, acknowledges exactly the received packets the peer still waits
\* for.  A STOP_WAITING can delete ranges after the frame was cached only if
\* a packet was accepted in between, and that drops the cache.
AckFrameIsExact ==
    stateChanged =>
        /\ ranges # <<>>
        /\ largestObserved = ranges[Len(ranges)].End
        /\ LET f == IF currentAckFrame # NoFrame THEN currentAckFrame ELSE BuildAckFrame
           IN  /\ Acks(f) = receivedPacketNumbers
               /\ f.LargestAcked = largestObserved

\* No packet number is handed to the frame handlers twice, whatever the order
\* of duplicates, late packets and STOP_WAITING frames that forget history.
AcceptedAtMostOnce == \A p \in PacketNumbers : accepted[p] <= 1

\* What was ever accepted is still in the history unless a STOP_WAITING
\* covered it: the server never forgets a packet the peer waits for.
NothingForgottenEarly ==
    \A p \in PacketNumbers :
        accepted[p] > 0 /\ p > ignorePacketsBelow => p \in receivedPacketNumbers

\* The inductive invariant behind the properties above: largestObserved is the
\* largest number in the history, the packet being processed is in the history
\* and the ACK cache is empty meanwhile, a cached frame that may still be
\* returned is exact, and what was acknowledged is in the history or was given
\* up by a STOP_WAITING.
IInv ==
    /\ TypeOK
    /\ RangesMatchReceived
    /\ \A n \in receivedPacketNumbers : n <= largestObserved
    /\ IF receivedPacketNumbers = {} THEN largestObserved = 0
                                     ELSE largestObserved \in receivedPacketNumbers
    /\ processing # 0 => processing \in receivedPacketNumbers /\ currentAckFrame = NoFrame
    /\ stateChanged => receivedPacketNumbers # {}
    /\ stateChanged /\ currentAckFrame # NoFrame =>
          /\ Acks(currentAckFrame) = receivedPacketNumbers
          /\ currentAckFrame.LargestAcked = largestObserved
    /\ sentAck # NoFrame =>
          /\ sentAck.LargestAcked <= largestObserved
          /\ \A p \in Acks(sentAck) : p \in receivedPacketNumbers \/ p <= ignorePacketsBelow
    /\ \A p \in PacketNumbers :
          /\ accepted[p] <= 1
          /\ accepted[p] > 0 => p \in receivedPacketNumbers \/ p <= ignorePacketsBelow

\* The ACKs put into packets never retreat: each one acknowledges at least as
\* high a packet as the one before, and drops only packets at or below the
\* threshold of a STOP_WAITING.
AcksNeverRetreat ==
    [][sentAck # NoFrame =>
          /\ sentAck'.LargestAcked >= sentAck.LargestAcked
          /\ \A p \in Acks(sentAck) : p \in Acks(sentAck') \/ p <= ignorePacketsBelow]_sentAck
=============================================================================
