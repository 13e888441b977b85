-------------------------------- MODULE Wire --------------------------------
(***************************************************************************)
(* What goes through a packet and must come out of it the same: the packet *)
(* number, of which the public header has only the last bytes, the         *)
(* STOP_WAITING frame, which is relative to it, the ACK frame, and the     *)
(* other frames.  A behavior writes one packet and parses it, or parses a  *)
(* packet of the peer with any ACK frame in it.                            *)
(***************************************************************************)
EXTENDS Frames

CONSTANTS
    AckNumbers,        \* packet numbers that may have been received
    MaxNumber,         \* bound of the model: packet numbers sent
    ControlFrames, StreamFrames, MaxFrames,   \* the other frames of a packet, and how many
    PeerLargest, PeerLengths, PeerGaps, MaxPeerBlocks   \* ACK frames of a peer

VARIABLES
    stage,    \* "packed", "sent", "failed", or "parsed"
    packet,   \* what was packed
    wire,     \* its bytes
    largestRcvdPacketNumber,
    result    \* what was parsed

vars == <<stage, packet, wire, largestRcvdPacketNumber, result>>

-----------------------------------------------------------------------------
(* Packet numbers *)

\* Half of what the length can tell apart; never one byte.
HeaderWidth(pn, leastUnacked) == Min({w \in {2, 4} : pn - leastUnacked < (Base ^ w) \div 2} \cup {6})

\* PublicHeader.Write and ParsePublicHeader: the flags, with a connection ID
\* and no nonce, tell the length of the packet number; GetLength counts flags, ID and number.
PublicFlags(width) == 8 + 16 * CASE width = 1 -> 0 [] width = 2 -> 1 [] width = 4 -> 2 [] width = 6 -> 3
PacketNumberLen(flags) == <<1, 2, 4, 6>>[((flags \div 16) % 4) + 1]
GetLength(width) == 1 + 8 + width

delta(a, b) == IF a < b THEN b - a ELSE a - b
closestTo(target, a, b) == IF delta(target, a) < delta(target, b) THEN a ELSE b

BugInferPacketNumber(width, last, wirePacketNumber) ==
    LET epoch == last - (last % (Base ^ width))
    IN  closestTo(last + 1, Wrap(epoch + wirePacketNumber), Wrap(epoch + Base ^ width + wirePacketNumber))
InferPacketNumber(width, last, wirePacketNumber) ==
    LET epochDelta == Base ^ width
        epoch      == last - (last % epochDelta)
        target     == last + 1
        inEpoch(e) == Wrap(Wrap(e) + wirePacketNumber)
    IN  closestTo(target, inEpoch(epoch), closestTo(target, inEpoch(epoch - epochDelta), inEpoch(epoch + epochDelta)))

-----------------------------------------------------------------------------
(* Packets to write *)

\* The frame GetAckFrame builds for a set of packets received.
Starts(S) == SetToSortSeq({n \in S : n - 1 \notin S}, >)
EndOf(S, n) == Max({m \in S : n <= m /\ n .. m \subseteq S})
AckFrameFor(S) ==
    LET ranges == [i \in DOMAIN Starts(S) |-> [first |-> Starts(S)[i], last |-> EndOf(S, Starts(S)[i])]]
    IN  [LargestAcked |-> Max(S), LowestAcked |-> Min(S), AckRanges |-> IF Len(ranges) > 1 THEN ranges ELSE <<>>]

PeerBlocks == [gap : PeerGaps, length : PeerLengths]
PeerAcks(n) ==
    {[hasMissingRanges |-> m, largestAckedLen |-> 6, deltaLen |-> 6, largestAcked |-> l, firstBlock |-> f,
      numAckBlocks |-> n, blocks |-> b] :
        m \in {n > 0, TRUE}, l \in PeerLargest, f \in PeerLengths, b \in [1 .. n -> PeerBlocks]}
NoAck == AckFrameFor({1})
Nothing == [number |-> 0]

\* composeNextPacket appends the STREAM frames to the control frames.
Payloads ==
    UNION {{c \o f : c \in [1 .. n -> ControlFrames], f \in [1 .. m -> StreamFrames]} :
               <<n, m>> \in {p \in (0 .. MaxFrames) \X (0 .. MaxFrames) : p[1] + p[2] \in 1 .. MaxFrames}}

\* The server packs a packet with an ACK, one with a number and a STOP_WAITING,
\* or one with other frames; a client has sent any ACK.
Init ==
    /\ result = Nothing
    /\ \/ \E S \in SUBSET AckNumbers :
             /\ S # {} /\ stage = "packed" /\ wire = Nothing /\ largestRcvdPacketNumber = 0
             /\ packet = [number |-> 1, leastUnacked |-> 1, stopWaiting |-> 1, ack |-> AckFrameFor(S), frames |-> <<>>]
       \/ \E n \in 1 .. MaxNumber : \E least \in 1 .. n : \E stop \in least .. n, last \in least - 1 .. MaxNumber :
             /\ stage = "packed" /\ wire = Nothing /\ largestRcvdPacketNumber = last
             /\ packet = [number |-> n, leastUnacked |-> least, stopWaiting |-> stop, ack |-> NoAck,
                         frames |-> <<>>]
       \/ \E fs \in Payloads :
             /\ stage = "packed" /\ wire = Nothing /\ largestRcvdPacketNumber = 0
             /\ packet = [number |-> 1, leastUnacked |-> 1, stopWaiting |-> 1, ack |-> NoAck, frames |-> fs]
       \/ \E n \in 0 .. MaxPeerBlocks : \E w \in PeerAcks(n) :
             /\ stage = "sent" /\ packet = Nothing /\ largestRcvdPacketNumber = 0
             /\ wire = [flags |-> PublicFlags(2), number |-> 1, stopWaiting |-> 0, ack |-> w, frames |-> <<>>]

\* StopWaitingFrame.Write uses the length of the public header.
LeastUnackedDelta(width) == Truncated(packet.number - packet.stopWaiting, width)

StopWaitingLength(width) == 1 + width

\* packPacket writes the public header, the STOP_WAITING, the ACK and the rest.
WritePacket ==
    LET width == HeaderWidth(packet.number, packet.leastUnacked)
    IN  /\ stage = "packed"
        /\ IF WriteFails(packet.ack) THEN stage' = "failed" /\ UNCHANGED wire
           ELSE /\ stage' = "sent"
                /\ wire' = [flags |-> PublicFlags(width), number |-> Truncated(packet.number, width),
                            stopWaiting |-> LeastUnackedDelta(width),
                            ack |-> Write(packet.ack), frames |-> WriteFrames(packet.frames)]
        /\ UNCHANGED <<packet, largestRcvdPacketNumber, result>>

\* The LeastUnacked, or nothing if it would be negative.
ParseStopWaitingFrame(number, unackedDelta) == IF unackedDelta > number THEN {} ELSE {number - unackedDelta}

\* handlePacketImpl infers the number, and the unpacker parses the frames.
ParsePacket ==
    LET number == InferPacketNumber(PacketNumberLen(wire.flags), largestRcvdPacketNumber, wire.number)
    IN  /\ stage = "sent"
        /\ stage' = "parsed"
        /\ result' = [number      |-> number,
                      stopWaiting |-> ParseStopWaitingFrame(number, wire.stopWaiting),
                      ack         |-> IF ParseFails(wire.ack) THEN {} ELSE {Parsed(wire.ack)},
                      frames      |-> IF UnpackFails(wire.frames) THEN {} ELSE {ParsedFrames(wire.frames)}]
        /\ UNCHANGED <<packet, wire, largestRcvdPacketNumber>>

Next == WritePacket \/ ParsePacket
Spec == Init /\ [][Next]_vars

-----------------------------------------------------------------------------
(* Properties *)

OwnPacketParsed == stage = "parsed" /\ packet # Nothing

\* A packet number is inferred right from the bytes in the public header, as
\* long as the receiver has the packets below leastUnacked and is not ahead by
\* half of what the length can tell apart; the STOP_WAITING, which is relative
\* to it, then comes out as it was written.
NumbersAreKept ==
    OwnPacketParsed /\ largestRcvdPacketNumber < packet.number + ((Base ^ PacketNumberLen(wire.flags)) \div 2) - 1 =>
        result.number = packet.number /\ result.stopWaiting = {packet.stopWaiting}

\* The ACK frame that is written can be parsed.  It acknowledges exactly the
\* packets of the frame from some packet on: long gaps and too many ranges
\* lose the lowest ranges only, and never acknowledge a lost packet.  Write
\* fails only if the blocks of the first gap alone are too many.
AckIsKept ==
    /\ stage = "failed" => BlocksFor(Gap(packet.ack, 2)) >= MaxByte
    /\ OwnPacketParsed =>
          \E f \in result.ack :
              /\ f.LargestAcked = packet.ack.LargestAcked
              /\ AckedPackets(f) = {p \in AckedPackets(packet.ack) : p >= f.LowestAcked}

\* The bytes of a packet: flags, connection ID and number, the STOP_WAITING,
\* the ACK and the other frames.
WireBytes ==
    LET width == PacketNumberLen(wire.flags)
    IN  (1 + 8 + width) + (1 + width) + BytesWritten(wire.ack)
        + Sum([i \in DOMAIN wire.frames |-> FrameBytes(wire.frames[i])])

\* The length that packPacket and composeNextPacket count, and fill a packet by.
CountedLength ==
    LET width == HeaderWidth(packet.number, packet.leastUnacked)
    IN  GetLength(width) + StopWaitingLength(width) + MinLength(packet.ack) + PayloadLength(packet.frames)

\* The other frames come out of a packet as they went in, and the packet is as
\* long as the packer counted.  The exception is a STREAM frame with nothing but
\* a FIN that is not the last frame: ParseStreamFrame takes its length, 0, for
\* no length, and the rest of the packet for its data.
FramesAreKept ==
    /\ stage = "sent" /\ packet # Nothing => WireBytes = CountedLength
    /\ OwnPacketParsed =>
          \E fs \in result.frames :
              \/ fs = packet.frames
              \/ \E i \in 1 .. Len(packet.frames) - 1 :
                    /\ IsStream(packet.frames[i]) /\ packet.frames[i].Data = 0
                    /\ Len(fs) = i /\ \A j \in 1 .. i - 1 : fs[j] = packet.frames[j]
                    /\ fs[i] = [packet.frames[i] EXCEPT !.Data = RestOf(wire.frames, i)]

\* The ranges of a frame that is accepted, whoever wrote it, are in order,
\* apart from each other, and below LargestAcked, so that no packet number has
\* wrapped around.
AcceptedRangesAreValid ==
    stage = "parsed" =>
        \A f \in result.ack :
            /\ f.LowestAcked <= f.LargestAcked \/ f.LargestAcked = 0
            /\ \A i \in DOMAIN f.AckRanges :
                  /\ 0 <= f.AckRanges[i].first /\ f.AckRanges[i].first <= f.AckRanges[i].last
                  /\ IF i = 1 THEN f.AckRanges[i].last = f.LargestAcked
                     ELSE f.AckRanges[i].last + 1 < f.AckRanges[i - 1].first
=============================================================================
