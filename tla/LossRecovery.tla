---------------------------- MODULE LossRecovery ----------------------------
(***************************************************************************)
(* sentPacketHandler and sendPacket over a network that loses a bounded    *)
(* number of packets and reorders the others, with a peer that             *)
(* acknowledges what it receives as receivedPacketHandler does: it ignores *)
(* packets below the LeastUnacked of a STOP_WAITING and forgets the ones   *)
(* it received.  Packets of the peer carry nothing but the ACK.            *)
(*                                                                         *)
(* With the honest peer the RTO timer expires only when nothing is on its  *)
(* way.  The real timer may also expire early: that happens against the    *)
(* other peer, which acknowledges whatever it likes and which needs no     *)
(* network (every step of SentPackets).  Which of the two it is, is chosen *)
(* at the start.                                                           *)
(***************************************************************************)
EXTENDS SentPackets

CONSTANTS
    Peers,                                \* "honest", "arbitrary", or both
    MaxLosses,                            \* bound of the model
    ArbitraryPackets, ArbitraryAcks       \* bounds of the model, with the arbitrary peer

ASSUME LossRecoveryAssumption ==
    /\ Peers \subseteq {"honest", "arbitrary"}
    /\ MaxLosses \in Nat
    /\ ArbitraryPackets \in 0 .. MaxPacketNumber /\ ArbitraryAcks \in 0 .. MaxAcks

VARIABLES
    peer,       \* what kind of peer it is
    wire,       \* packets on their way to the peer
    ackWire,    \* ACKs on their way back, with the number of their packet
    received,   \* packet numbers in the peer's history
    ignoreBelow,\* the peer's ignorePacketsBelow
    got,        \* frames the peer has processed
    ackDue,     \* the peer has a packet to acknowledge
    peerSent,   \* last packet number of the peer
    losses

netVars == <<peer, wire, ackWire, received, ignoreBelow, got, ackDue, peerSent, losses>>
allVars == <<vars, netVars>>

NetInit ==
    /\ Init
    /\ peer \in Peers
    /\ wire = {} /\ ackWire = {} /\ received = {} /\ ignoreBelow = 0 /\ got = {}
    /\ ackDue = FALSE /\ peerSent = 0 /\ losses = 0

\* A turn of sendPacket that fills the packet as far as the queues go; new
\* data comes when the streams have it.
Send ==
    \E control \in SUBSET ControlFrames, resent \in SUBSET Drained, new \in SUBSET Unpopped,
       windowUpdates \in SUBSET (unsent \cap ControlFrames) :
        LET frames == control \cup {r.Frame : r \in resent} \cup new
        IN  /\ peer = "honest" /\ lastSentPacketNumber < MaxPacketNumber
            /\ Cardinality(control) + Cardinality(resent)
                  = Min({MaxFramesPerPacket, Cardinality(DrainedControl \cup windowUpdates) + Cardinality(Drained)})
            /\ SendPacket(lastSentPacketNumber + 1, control, resent, new, windowUpdates, FALSE)
            /\ wire' = wire \cup {[PacketNumber |-> lastPacket'.PacketNumber, Frames |-> frames,
                                   LeastUnacked |-> lastPacket'.LeastUnacked]}
            /\ UNCHANGED <<peer, ackWire, received, ignoreBelow, got, ackDue, peerSent, losses>>

Timeout ==
    /\ peer = "honest" /\ wire = {} /\ ackWire = {} /\ ~ackDue
    /\ MaybeQueueRTOs
    /\ UNCHANGED netVars

Lose ==
    /\ losses < MaxLosses
    /\ losses' = losses + 1
    /\ \/ \E p \in wire : wire' = wire \ {p} /\ UNCHANGED ackWire
       \/ \E a \in ackWire : ackWire' = ackWire \ {a} /\ UNCHANGED wire
    /\ UNCHANGED <<vars, peer, received, ignoreBelow, got, ackDue, peerSent>>

\* The peer handles a packet, or ignores one it gave up waiting for.
PeerReceives ==
    \E p \in wire :
        /\ wire' = wire \ {p}
        /\ IF p.PacketNumber < ignoreBelow
           THEN UNCHANGED <<received, ignoreBelow, got, ackDue>>
           ELSE /\ ignoreBelow' = Max({ignoreBelow, p.LeastUnacked})
                /\ received' = {n \in received \cup {p.PacketNumber} : n >= ignoreBelow'}
                /\ got' = got \cup p.Frames
                /\ ackDue' = TRUE
        /\ UNCHANGED <<vars, peer, ackWire, peerSent, losses>>

PeerAcks ==
    /\ ackDue
    /\ peerSent < MaxAcks
    /\ peerSent' = peerSent + 1
    /\ ackWire' = ackWire \cup {[Acked |-> received, PacketNumber |-> peerSent']}
    /\ ackDue' = FALSE
    /\ UNCHANGED <<vars, peer, wire, received, ignoreBelow, got, losses>>

\* handleFrames: an ACK that arrives after a newer one is dropped.
ReceiveAck ==
    \E a \in ackWire :
        /\ ackWire' = ackWire \ {a}
        /\ \/ ReceivedAckRepeated(a.Acked, a.PacketNumber)
           \/ ReceivedAck(a.Acked, a.PacketNumber)
           \/ a.PacketNumber <= largestReceivedPacketWithAck /\ UNCHANGED vars
        /\ UNCHANGED <<peer, wire, received, ignoreBelow, got, ackDue, peerSent, losses>>

\* Any step of SentPackets, against the peer that acknowledges anything.  The
\* number of the packet with the ACK is only compared with the largest one so
\* far, so that the next number stands for all the higher ones.
ArbitraryStep ==
    /\ peer = "arbitrary"
    /\ Step(1 .. ArbitraryPackets,
            (1 .. ArbitraryAcks) \cap {largestReceivedPacketWithAck, largestReceivedPacketWithAck + 1})
    /\ UNCHANGED netVars

NetNext == Send \/ Timeout \/ Lose \/ PeerReceives \/ PeerAcks \/ ReceiveAck \/ ArbitraryStep

\* The session's goroutine runs sendPacket after every event and when its
\* timer expires; a packet that is not lost arrives, and the peer answers it.
NetSpec ==
    /\ NetInit /\ [][NetNext]_allVars
    /\ WF_allVars(Send) /\ WF_allVars(Timeout)
    /\ WF_allVars(PeerReceives) /\ WF_allVars(PeerAcks) /\ WF_allVars(ReceiveAck)

-----------------------------------------------------------------------------
AllFrames == StreamFrames \cup ControlFrames

\* An honest peer's ACKs, late, reordered or about forgotten packets, are
\* never refused, and the handler takes a frame for delivered only if the peer
\* has processed it.  Whatever the peer acknowledges, every packet is subtracted
\* from bytesInFlight once, by the ACK or by the loss that removes it, whichever
\* comes first, so that bytesInFlight is the size of the packets in the history.
AcksAreUsedRight ==
    /\ bytesInFlight = Flight(packetHistory)
    /\ \A a \in ackWire : ~Refused(a.Acked, a.PacketNumber)
    /\ peer = "honest" => acked \subseteq got

\* After finitely many losses, of packets and of ACKs, every frame is
\* delivered and the handler knows it: fast retransmission and the RTO leave
\* no packet behind, not even one the peer stopped waiting for.
EverythingIsAcked == peer = "honest" => <>(acked = AllFrames)

\* sendPacket, as its comment says, tries "until we don't have any more data,
\* or run out of the congestion window": with no byte in flight, a packet
\* queued for retransmission is sent at some time.
SendsUntilNoData == (bytesInFlight = 0 /\ retransmissionQueue # {}) ~> (retransmissionQueue = {})
=============================================================================
