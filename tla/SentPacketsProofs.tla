-------------------------- MODULE SentPacketsProofs --------------------------
(***************************************************************************)
(* Proofs about SentPackets, for any frames and any limits, and about      *)
(* LossRecovery, for any number of losses.                                 *)
(***************************************************************************)
EXTENDS LossRecovery, SetLemmas

IsPacket(p) == p = [PacketNumber |-> p.PacketNumber, Frames |-> p.Frames, Length |-> p.Length,
                    MissingReports |-> p.MissingReports]

\* The inductive invariant of the stopWaitingManager: whatever was given up
\* for lost lies below nextLeastUnacked, which never overtakes the packets sent.
StopInv ==
    /\ lastSentPacketNumber \in Nat
    /\ nextLeastUnacked \in Nat /\ nextLeastUnacked <= lastSentPacketNumber + 1
    /\ largestLeastUnackedSent \in Nat /\ largestLeastUnackedSent <= nextLeastUnacked
    /\ lastStopWaitingFrame = largestLeastUnackedSent
    /\ \A p \in packetHistory \cup retransmissionQueue : IsPacket(p) /\ p.PacketNumber \in 1 .. lastSentPacketNumber
    /\ \A p \in retransmissionQueue : p.PacketNumber < nextLeastUnacked
    /\ \A r \in framerQueue : r.Lost \in Nat /\ r.Lost < nextLeastUnacked
    /\ ResentDataStopsWaiting

LEMMA StopInit == Init => StopInv
BY DEF Init, StopInv, ResentDataStopsWaiting, NoPacket

\* nextLeastUnacked grows beyond every number seen.
LEMMA LeastUnackedGrows ==
    ASSUME StopInv, NEW seen \in SUBSET (1 .. lastSentPacketNumber)
    PROVE  /\ LeastUnackedAfter(seen) \in Nat
           /\ nextLeastUnacked <= LeastUnackedAfter(seen)
           /\ LeastUnackedAfter(seen) <= lastSentPacketNumber + 1
           /\ \A n \in seen : n < LeastUnackedAfter(seen)
<1> DEFINE S == {nextLeastUnacked} \cup {n + 1 : n \in seen}
           m == lastSentPacketNumber + 1
<1>1. m \in Nat /\ S \in SUBSET (0 .. m) /\ S # {}
    BY DEF StopInv
<1>2. LeastUnackedAfter(seen) = Max(S)
    BY DEF LeastUnackedAfter
<1>3. nextLeastUnacked \in S /\ \A n \in seen : n + 1 \in S
    OBVIOUS
<1>4. Max(S) \in S /\ \A y \in S : Max(S) >= y
    <2> HIDE DEF S, m
    <2> QED BY <1>1, MaxOfBounded
<1>5. Max(S) \in 0 .. m
    <2> HIDE DEF S
    <2> QED BY <1>1, <1>4, Zenon
<1> HIDE DEF S
<1> QED BY <1>2, <1>3, <1>4, <1>5 DEF StopInv

\* A missing report changes nothing else in a packet.
LEMMA NackedPacket ==
    ASSUME NEW p, IsPacket(p)
    PROVE  LET q == [p EXCEPT !.MissingReports = @ + 1]
           IN  IsPacket(q) /\ q.PacketNumber = p.PacketNumber /\ q.Frames = p.Frames /\ q.Length = p.Length
BY DEF IsPacket

LEMMA NackedPackets ==
    ASSUME NEW P, \A p \in P : IsPacket(p), NEW q \in Nacked(P)
    PROVE  \E p \in P : IsPacket(q) /\ q.PacketNumber = p.PacketNumber /\ q.Frames = p.Frames
                        /\ q = [p EXCEPT !.MissingReports = @ + 1]
BY NackedPacket, Zenon DEF Nacked

\* What an ACK that is not refused refers to.
LEMMA AckIsBounded ==
    ASSUME StopInv, NEW ack \in (SUBSET PacketNumbers) \ {{}}, NEW with, ~Refused(ack, with)
    PROVE  Max(ack) \in 1 .. lastSentPacketNumber
<1>1. MaxPacketNumber \in Nat /\ ack \in SUBSET (1 .. MaxPacketNumber) /\ ack # {}
    BY SentPacketsAssumption DEF PacketNumbers
<1>2. Max(ack) \in ack
    BY <1>1, MaxIsGreatest, Zenon
<1>3. ~(Max(ack) > lastSentPacketNumber)
    BY DEF Refused
<1>4. Max(ack) \in Nat /\ Max(ack) >= 1
    <2> DEFINE m == Max(ack)
    <2>1. m \in ack
        BY <1>2
    <2> HIDE DEF m
    <2>2. \A x \in ack : x \in Nat /\ x >= 1
        BY <1>1
    <2>3. m \in Nat /\ m >= 1
        BY <2>1, <2>2
    <2> QED BY <2>3 DEF m
<1>5. lastSentPacketNumber \in Nat
    BY DEF StopInv
<1> QED BY <1>3, <1>4, <1>5

LEMMA StopSendPacket ==
    ASSUME StopInv, NEW n \in PacketNumbers, NEW control, NEW resent, NEW new, NEW windowUpdates,
           NEW withAck \in BOOLEAN, SendPacket(n, control, resent, new, windowUpdates, withAck)
    PROVE  StopInv'
<1>1. n \in Nat /\ n > lastSentPacketNumber /\ lastSentPacketNumber' = n /\ n \in 1 .. n
    BY SentPacketsAssumption DEF SendPacket, SentPacket, PacketNumbers, StopInv
<1>2. \A r \in Drained : r.Lost \in Nat /\ r.Lost < nextLeastUnacked
    <2> TAKE r \in Drained
    <2>1. CASE r \in framerQueue
        BY <2>1 DEF StopInv
    <2>2. ASSUME NEW p \in retransmissionQueue, NEW f, r = [Frame |-> f, Lost |-> p.PacketNumber]
          PROVE  r.Lost \in Nat /\ r.Lost < nextLeastUnacked
        BY <2>2 DEF StopInv
    <2> QED BY <2>1, <2>2 DEF Drained
<1>3. retransmissionQueue' = {} /\ framerQueue' \subseteq Drained /\ resent \subseteq Drained
    BY DEF SendPacket, Packed
<1>4. \A p \in packetHistory' \cup retransmissionQueue' : IsPacket(p) /\ p.PacketNumber \in 1 .. n
    BY <1>1, <1>3 DEF SendPacket, SentPacket, StopInv, IsPacket
<1> DEFINE asked == withAck \/ Drained # {}
<1>5. /\ nextLeastUnacked' = nextLeastUnacked
      /\ largestLeastUnackedSent' \in Nat /\ largestLeastUnackedSent' <= nextLeastUnacked
      /\ lastStopWaitingFrame' = largestLeastUnackedSent'
    <2>1. CASE asked
        BY <2>1 DEF SendPacket, GetStopWaitingFrame, StopWaitingIsNew, StopInv
    <2>2. CASE ~asked
        BY <2>2 DEF SendPacket, stopWaitingVars, StopInv
    <2> QED BY <2>1, <2>2
<1> DEFINE least == IF asked THEN StopWaitingFrame(Drained # {}) ELSE 0
<1>6. lastPacket' = [PacketNumber |-> n, Resent |-> {r.Lost : r \in resent}, LeastUnacked |-> least]
    BY DEF SendPacket
<1>7. least \in Nat /\ least <= n /\ (Drained # {} => least = nextLeastUnacked)
    BY <1>1 DEF StopWaitingFrame, StopWaitingIsNew, StopInv
<1>8. ResentDataStopsWaiting'
    <2> HIDE DEF least
    <2>1. \A m \in {r.Lost : r \in resent} : m < least
        BY <1>2, <1>3, <1>7
    <2> QED BY <1>6, <1>7, <2>1 DEF ResentDataStopsWaiting
<1> QED BY <1>1, <1>2, <1>3, <1>4, <1>5, <1>8 DEF StopInv

LEMMA StopSendNothing ==
    ASSUME StopInv, NEW withAck \in BOOLEAN, SendNothing(withAck)
    PROVE  StopInv'
<1>1. /\ nextLeastUnacked' = nextLeastUnacked
      /\ largestLeastUnackedSent' \in Nat /\ largestLeastUnackedSent' <= nextLeastUnacked
      /\ lastStopWaitingFrame' = largestLeastUnackedSent'
    <2>1. CASE withAck
        BY <2>1 DEF SendNothing, GetStopWaitingFrame, StopWaitingIsNew, StopInv
    <2>2. CASE ~withAck
        BY <2>2 DEF SendNothing, stopWaitingVars, StopInv
    <2> QED BY <2>1, <2>2
<1>2. ResentDataStopsWaiting'
    BY DEF SendNothing, ResentDataStopsWaiting, NoPacket
<1> QED BY <1>1, <1>2 DEF SendNothing, StopInv

\* Packets leave the history, and nextLeastUnacked covers the lost ones.
LEMMA StopForget ==
    ASSUME StopInv, NEW found, NEW lost, NEW kept, Forget(found, lost, kept),
           \A q \in lost \cup kept : IsPacket(q) /\ q.PacketNumber \in 1 .. lastSentPacketNumber,
           NEW seen \in SUBSET (1 .. lastSentPacketNumber), Numbers(lost) \subseteq seen,
           nextLeastUnacked' = LeastUnackedAfter(seen), lastPacket' = NoPacket,
           UNCHANGED <<lastSentPacketNumber, largestLeastUnackedSent, lastStopWaitingFrame, framerQueue>>
    PROVE  StopInv'
<1>1. /\ nextLeastUnacked' \in Nat /\ nextLeastUnacked <= nextLeastUnacked'
      /\ nextLeastUnacked' <= lastSentPacketNumber + 1
      /\ \A n \in seen : n < nextLeastUnacked'
    BY LeastUnackedGrows
<1>2. retransmissionQueue' = retransmissionQueue \cup lost /\ packetHistory' = kept
    BY DEF Forget
<1>3. \A p \in lost : p.PacketNumber < nextLeastUnacked'
    BY <1>1 DEF Numbers
<1>4. \A p \in retransmissionQueue : p.PacketNumber < nextLeastUnacked'
    BY <1>1 DEF StopInv
<1>5. \A r \in framerQueue' : r.Lost \in Nat /\ r.Lost < nextLeastUnacked'
    BY <1>1 DEF StopInv
<1>6. ResentDataStopsWaiting'
    BY DEF ResentDataStopsWaiting, NoPacket
<1>7. largestLeastUnackedSent' \in Nat /\ largestLeastUnackedSent' <= nextLeastUnacked'
      /\ lastStopWaitingFrame' = largestLeastUnackedSent'
    BY <1>1 DEF StopInv
<1>8. \A p \in packetHistory' \cup retransmissionQueue' :
          IsPacket(p) /\ p.PacketNumber \in 1 .. lastSentPacketNumber'
    BY <1>2 DEF StopInv
<1> QED BY <1>1, <1>2, <1>3, <1>4, <1>5, <1>6, <1>7, <1>8 DEF StopInv

LEMMA StopMaybeQueueRTOs ==
    ASSUME StopInv, MaybeQueueRTOs
    PROVE  StopInv'
<1> DEFINE oldest == {p \in packetHistory :
                         Cardinality({q \in packetHistory : q.PacketNumber <= p.PacketNumber}) <= 2}
<1>1. /\ Forget({}, oldest, packetHistory \ oldest)
      /\ nextLeastUnacked' = LeastUnackedAfter(Numbers(oldest)) /\ lastPacket' = NoPacket
      /\ UNCHANGED <<lastSentPacketNumber, largestLeastUnackedSent, lastStopWaitingFrame, framerQueue>>
    BY DEF MaybeQueueRTOs
<1>2. oldest \subseteq packetHistory
    OBVIOUS
<1> HIDE DEF oldest
<1>3. \A q \in oldest \cup (packetHistory \ oldest) : IsPacket(q) /\ q.PacketNumber \in 1 .. lastSentPacketNumber
    BY <1>2 DEF StopInv
<1>4. Numbers(oldest) \in SUBSET (1 .. lastSentPacketNumber)
    BY <1>3 DEF Numbers
<1> QED BY <1>1, <1>3, <1>4, StopForget

LEMMA StopReceivedAck ==
    ASSUME StopInv, NEW ack \in (SUBSET PacketNumbers) \ {{}}, NEW with, ReceivedAck(ack, with)
    PROVE  StopInv'
<1> DEFINE below   == {p \in packetHistory : p.PacketNumber <= Max(ack)}
           missing == Nacked(below \ Found(ack))
           lost    == {p \in missing : IsLost(p)}
           kept    == (packetHistory \ below) \cup (missing \ lost)
           seen    == Numbers(lost) \cup {Max(ack)}
<1>1. /\ Forget(Found(ack), lost, kept) /\ ~Refused(ack, with)
      /\ nextLeastUnacked' = LeastUnackedAfter(seen) /\ lastPacket' = NoPacket
      /\ UNCHANGED <<lastSentPacketNumber, largestLeastUnackedSent, lastStopWaitingFrame, framerQueue>>
    BY DEF ReceivedAck
<1>2. below \subseteq packetHistory /\ lost \subseteq missing /\ kept \subseteq packetHistory \cup missing
    OBVIOUS
<1>3. \A q \in missing : IsPacket(q) /\ q.PacketNumber \in 1 .. lastSentPacketNumber
    <2>1. \A p \in below \ Found(ack) : IsPacket(p) /\ p.PacketNumber \in 1 .. lastSentPacketNumber
        BY <1>2 DEF StopInv
    <2> HIDE DEF below
    <2> QED BY <2>1, NackedPackets
<1> HIDE DEF below, missing, lost, kept
<1>4. \A q \in lost \cup kept : IsPacket(q) /\ q.PacketNumber \in 1 .. lastSentPacketNumber
    BY <1>2, <1>3 DEF StopInv
<1>5. Max(ack) \in 1 .. lastSentPacketNumber
    BY <1>1, AckIsBounded
<1>6. seen \in SUBSET (1 .. lastSentPacketNumber) /\ Numbers(lost) \subseteq seen
    BY <1>4, <1>5 DEF Numbers
<1> HIDE DEF seen
<1> QED BY <1>1, <1>4, <1>6, StopForget

LEMMA StopNext == StopInv /\ [Next]_vars => StopInv'
<1> SUFFICES ASSUME StopInv, [Next]_vars PROVE StopInv'
    OBVIOUS
<1>1. ASSUME NEW n \in PacketNumbers, NEW control, NEW resent, NEW new, NEW windowUpdates,
             NEW withAck \in BOOLEAN, SendPacket(n, control, resent, new, windowUpdates, withAck)
      PROVE  StopInv'
    BY <1>1, StopSendPacket
<1>2. ASSUME NEW withAck \in BOOLEAN, SendNothing(withAck) PROVE StopInv'
    BY <1>2, StopSendNothing
<1>3. CASE MaybeQueueRTOs
    BY <1>3, StopMaybeQueueRTOs
<1>4. ASSUME NEW ack \in (SUBSET PacketNumbers) \ {{}}, NEW with, ReceivedAck(ack, with) PROVE StopInv'
    BY <1>4, StopReceivedAck
<1>5. ASSUME NEW ack, NEW with, ReceivedAckFails(ack, with) \/ ReceivedAckRepeated(ack, with) PROVE StopInv'
    <2>1. /\ UNCHANGED <<lastSentPacketNumber, stopWaitingVars, retransmissionQueue, packetHistory, framerQueue>>
          /\ UNCHANGED LargestAcked /\ lastPacket' = NoPacket
        BY <1>5 DEF ReceivedAckFails, ReceivedAckRepeated
    <2> QED BY <2>1 DEF stopWaitingVars, StopInv, ResentDataStopsWaiting, NoPacket
<1>6. CASE UNCHANGED vars
    BY <1>6 DEF vars, handlerVars, stopWaitingVars, StopInv, ResentDataStopsWaiting
<1> QED BY <1>1, <1>2, <1>3, <1>4, <1>5, <1>6 DEF Next, Step

\* The stopWaitingManager's inductive invariant.
THEOREM StopWaitingInvariant == Spec => []StopInv
BY StopInit, StopNext, PTL DEF Spec

\* Every packet with resent stream data tells the peer not to wait for the
\* packets it replaces, in a STOP_WAITING that can be written.
THEOREM ResentDataIsAnnounced == Spec => []ResentDataStopsWaiting
<1>1. StopInv => ResentDataStopsWaiting
    BY DEF StopInv
<1> QED BY <1>1, StopWaitingInvariant, PTL

-----------------------------------------------------------------------------
(* Where frames are *)

InFramer(f) == \E r \in framerQueue : r.Frame = f
InHistory(f) == \E p \in packetHistory : f \in p.Frames
InQueue(f) == \E p \in retransmissionQueue : f \in p.Frames

\* A frame is in one of the five places, and once.
InOnePlace(f) ==
    /\ f \in unsent \/ f \in acked \/ InFramer(f) \/ InHistory(f) \/ InQueue(f)
    /\ f \in unsent => f \notin acked /\ ~InFramer(f) /\ ~InHistory(f) /\ ~InQueue(f)
    /\ f \in acked => ~InFramer(f) /\ ~InHistory(f) /\ ~InQueue(f)
    /\ InFramer(f) => ~InHistory(f) /\ ~InQueue(f)
    /\ InHistory(f) => ~InQueue(f)
    /\ \A r, s \in framerQueue : r.Frame = f /\ s.Frame = f => r = s
    /\ \A p, q \in packetHistory : f \in p.Frames /\ f \in q.Frames => p = q
    /\ \A p, q \in retransmissionQueue : f \in p.Frames /\ f \in q.Frames => p = q

\* The inductive invariant about frames.
PlaceInv == \A f \in StreamFrames : InOnePlace(f)

LEMMA PlaceInit == Init => PlaceInv
BY DEF Init, PlaceInv, InOnePlace, InFramer, InHistory, InQueue

\* Draining moves the frames of the queued packets to the framer, each once.
LEMMA DrainedFrames ==
    ASSUME NEW f \in StreamFrames, InOnePlace(f)
    PROVE  /\ (\E r \in Drained : r.Frame = f) <=> (InFramer(f) \/ InQueue(f))
           /\ \A r, s \in Drained : r.Frame = f /\ s.Frame = f => r = s
<1>1. \A r \in Drained : \/ r \in framerQueue
                        \/ \E p \in retransmissionQueue : \E g \in p.Frames \cap StreamFrames :
                              r = [Frame |-> g, Lost |-> p.PacketNumber]
    BY DEF Drained
<1>2. \A p \in retransmissionQueue : f \in p.Frames => [Frame |-> f, Lost |-> p.PacketNumber] \in Drained
    BY DEF Drained
<1>3. framerQueue \subseteq Drained
    BY DEF Drained
<1>4. \A r \in Drained : r.Frame = f =>
          \/ r \in framerQueue
          \/ \E p \in retransmissionQueue : f \in p.Frames /\ r = [Frame |-> f, Lost |-> p.PacketNumber]
    BY <1>1
<1>5. (\E r \in Drained : r.Frame = f) <=> (InFramer(f) \/ InQueue(f))
    <2>1. ASSUME NEW r \in Drained, r.Frame = f PROVE InFramer(f) \/ InQueue(f)
        BY <1>4, <2>1 DEF InFramer, InQueue
    <2>2. ASSUME InFramer(f) PROVE \E r \in Drained : r.Frame = f
        BY <1>3, <2>2 DEF InFramer
    <2>3. ASSUME InQueue(f) PROVE \E r \in Drained : r.Frame = f
        <3>1. PICK p \in retransmissionQueue : f \in p.Frames
            BY <2>3 DEF InQueue
        <3> QED BY <1>2, <3>1, Zenon
    <2> QED BY <2>1, <2>2, <2>3
<1>6. ASSUME NEW r \in Drained, NEW s \in Drained, r.Frame = f, s.Frame = f PROVE r = s
    <2>1. CASE r \in framerQueue /\ s \in framerQueue
        BY <1>6, <2>1 DEF InOnePlace
    <2>2. CASE ~InQueue(f)
        BY <1>4, <1>6, <2>1, <2>2 DEF InQueue
    <2>3. CASE InQueue(f)
        <3>1. r \notin framerQueue /\ s \notin framerQueue
            BY <1>6, <2>3 DEF InOnePlace, InFramer
        <3> QED BY <1>4, <1>6, <3>1 DEF InOnePlace
    <2> QED BY <2>2, <2>3
<1> QED BY <1>5, <1>6

\* What sending a packet does to a frame of a stream.
LEMMA SendMovesFrames ==
    ASSUME NEW n, NEW control \in SUBSET ControlFrames, NEW resent, NEW new, NEW windowUpdates, NEW withAck,
           SendPacket(n, control, resent, new, windowUpdates, withAck),
           NEW f \in StreamFrames, InOnePlace(f)
    PROVE  LET sent == f \in new \/ \E r \in resent : r.Frame = f
           IN  /\ InOnePlace(f)'
               /\ sent => f \notin unsent' /\ InHistory(f)'
                          /\ f \notin acked /\ ~InHistory(f)
               /\ ~sent => (f \in unsent' <=> f \in unsent) /\ (InHistory(f)' <=> InHistory(f))
               /\ (f \in acked' <=> f \in acked)
<1> DEFINE resentHas == \E r \in resent : r.Frame = f
           packet == [PacketNumber |-> n, Frames |-> control \cup {r.Frame : r \in resent} \cup new,
                      Length |-> Length(control \cup {r.Frame : r \in resent} \cup new), MissingReports |-> 0]
<1>1. /\ packetHistory' = packetHistory \cup {packet} /\ retransmissionQueue' = {}
      /\ framerQueue' = Drained \ resent /\ unsent' = unsent \ (new \cup windowUpdates)
      /\ acked' = acked /\ windowUpdates \subseteq ControlFrames
      /\ resent \subseteq Drained /\ new \subseteq unsent
    BY DEF SendPacket, SentPacket, Packed, Unpopped
<1>2. f \notin control /\ f \notin windowUpdates
    BY <1>1, SentPacketsAssumption
<1>3. f \in packet.Frames <=> f \in new \/ resentHas
    BY <1>2
<1>4. /\ (\E r \in Drained : r.Frame = f) <=> (InFramer(f) \/ InQueue(f))
      /\ \A r, s \in Drained : r.Frame = f /\ s.Frame = f => r = s
    BY DrainedFrames
<1> HIDE DEF packet
<1>5. ~InQueue(f)' /\ (f \in unsent' <=> f \in unsent /\ f \notin new)
    BY <1>1, <1>2 DEF InQueue
<1>6. InHistory(f)' <=> InHistory(f) \/ f \in new \/ resentHas
    BY <1>1, <1>3 DEF InHistory
<1>7. InFramer(f)' <=> (InFramer(f) \/ InQueue(f)) /\ ~resentHas
    BY <1>1, <1>4 DEF InFramer
<1>8. \A r, s \in framerQueue' : r.Frame = f /\ s.Frame = f => r = s
    BY <1>1, <1>4
<1>9. f \in new => f \in unsent
    BY <1>1
<1>10. resentHas => InFramer(f) \/ InQueue(f)
    BY <1>1, <1>4
<1>11. \A p, q \in packetHistory' : f \in p.Frames /\ f \in q.Frames => p = q
    BY <1>1, <1>3, <1>9, <1>10 DEF InOnePlace, InHistory
<1> HIDE DEF resentHas
<1>12. InOnePlace(f)'
    BY <1>1, <1>5, <1>6, <1>7, <1>8, <1>9, <1>10, <1>11 DEF InOnePlace
<1>13. f \in new \/ resentHas => f \notin unsent' /\ InHistory(f)' /\ f \notin acked /\ ~InHistory(f)
    BY <1>5, <1>6, <1>9, <1>10 DEF InOnePlace
<1> QED BY <1>1, <1>5, <1>6, <1>12, <1>13 DEF resentHas

\* What acknowledging some packets and losing others does to a frame.
Moved(f, found, lost) ==
    /\ InOnePlace(f)'
    /\ (f \in unsent' <=> f \in unsent)
    /\ f \in FramesOf(found) => f \in acked' /\ InHistory(f) /\ ~InHistory(f)' /\ f \notin FramesOf(lost)
    /\ f \in FramesOf(lost) => InHistory(f) /\ ~InHistory(f)' /\ f \notin acked'
    /\ f \notin FramesOf(found) /\ f \notin FramesOf(lost) =>
          (InHistory(f)' <=> InHistory(f)) /\ (f \in acked' <=> f \in acked)

\* g gives the packets that stay or are lost their missing reports.
Splits(found, lost, kept, g) ==
    /\ found \subseteq packetHistory
    /\ lost \cup kept = {g[p] : p \in packetHistory \ found} /\ lost \cap kept = {}
    /\ \A p \in packetHistory \ found :
          g[p].Frames = p.Frames /\ g[p].PacketNumber = p.PacketNumber /\ g[p].Length = p.Length

LEMMA ForgetMovesFrames ==
    ASSUME NEW found, NEW lost, NEW kept, NEW g, Splits(found, lost, kept, g),
           Forget(found, lost, kept), UNCHANGED <<unsent, framerQueue>>,
           NEW f \in StreamFrames, InOnePlace(f)
    PROVE  Moved(f, found, lost)
<1> DEFINE wasFound == f \in FramesOf(found)
           wasLost  == f \in FramesOf(lost)
           wasKept  == f \in FramesOf(kept)
<1>1. /\ packetHistory' = kept /\ retransmissionQueue' = retransmissionQueue \cup lost
      /\ unsent' = unsent /\ framerQueue' = framerQueue
      /\ (f \in acked' <=> f \in acked \/ wasFound)
    BY DEF Forget
<1>2. /\ (InHistory(f)' <=> wasKept)
      /\ (InQueue(f)' <=> InQueue(f) \/ wasLost)
      /\ (InFramer(f)' <=> InFramer(f))
    BY <1>1 DEF InHistory, InQueue, InFramer, FramesOf
<1>3. wasFound => InHistory(f)
    BY DEF InHistory, FramesOf, Splits
<1>4. ASSUME NEW q \in lost \cup kept, f \in q.Frames
      PROVE  \E p \in packetHistory \ found : q = g[p] /\ f \in p.Frames
    <2>1. PICK p \in packetHistory \ found : q = g[p]
        BY DEF Splits
    <2>2. f \in p.Frames
        BY <1>4, <2>1 DEF Splits
    <2> QED BY <2>1, <2>2
<1>5. wasLost \/ wasKept => InHistory(f) /\ ~wasFound
    <2> SUFFICES ASSUME wasLost \/ wasKept PROVE InHistory(f) /\ ~wasFound
        OBVIOUS
    <2>1. PICK q \in lost \cup kept : f \in q.Frames
        BY DEF FramesOf
    <2>2. PICK p \in packetHistory \ found : f \in p.Frames
        BY <1>4, <2>1
    <2>3. \A r \in found : r \in packetHistory /\ r # p
        BY <2>2 DEF Splits
    <2> QED BY <2>2, <2>3 DEF InHistory, InOnePlace, FramesOf
<1>6. InHistory(f) => wasFound \/ wasLost \/ wasKept
    <2>1. ASSUME NEW p \in packetHistory, f \in p.Frames, p \notin found
          PROVE  \E q \in lost \cup kept : f \in q.Frames
        <3>1. g[p] \in lost \cup kept /\ f \in g[p].Frames
            BY <2>1 DEF Splits
        <3> QED BY <3>1
    <2> QED BY <2>1 DEF InHistory, FramesOf
<1>7. ASSUME NEW q \in lost \cup kept, NEW r \in lost \cup kept, f \in q.Frames, f \in r.Frames
      PROVE  q = r
    <2>1. PICK p1 \in packetHistory \ found : q = g[p1] /\ f \in p1.Frames
        BY <1>4, <1>7
    <2>2. PICK p2 \in packetHistory \ found : r = g[p2] /\ f \in p2.Frames
        BY <1>4, <1>7
    <2> QED BY <2>1, <2>2 DEF InOnePlace
<1>8. ~(wasLost /\ wasKept)
    BY <1>7 DEF FramesOf, Splits
<1>9. \A q, r \in packetHistory' : f \in q.Frames /\ f \in r.Frames => q = r
    BY <1>1, <1>7
<1>10. \A q, r \in retransmissionQueue' : f \in q.Frames /\ f \in r.Frames => q = r
    <2>1. ASSUME NEW q \in lost, f \in q.Frames PROVE ~InQueue(f)
        <3>1. wasLost
            BY <2>1 DEF FramesOf
        <3> QED BY <1>5, <3>1 DEF InOnePlace
    <2>2. \A q \in retransmissionQueue : f \in q.Frames => InQueue(f)
        BY DEF InQueue, FramesOf
    <2>3. \A q, r \in retransmissionQueue : f \in q.Frames /\ f \in r.Frames => q = r
        BY DEF InOnePlace
    <2>4. \A q, r \in lost : f \in q.Frames /\ f \in r.Frames => q = r
        BY <1>7
    <2> QED BY <1>1, <2>1, <2>2, <2>3, <2>4
<1>11. \A r, s \in framerQueue' : r.Frame = f /\ s.Frame = f => r = s
    BY <1>1 DEF InOnePlace
<1> HIDE DEF wasFound, wasLost, wasKept
<1>12. InOnePlace(f)'
    BY <1>1, <1>2, <1>3, <1>5, <1>6, <1>8, <1>9, <1>10, <1>11 DEF InOnePlace
<1>13. wasLost => f \notin acked'
    BY <1>1, <1>5 DEF InOnePlace
<1>14. wasFound => ~wasLost /\ ~wasKept
    BY <1>5
<1> QED BY <1>1, <1>2, <1>3, <1>5, <1>6, <1>8, <1>12, <1>13, <1>14 DEF wasFound, wasLost, Moved

LEMMA RTOsSplit ==
    ASSUME MaybeQueueRTOs
    PROVE  \E lost, kept, g : Splits({}, lost, kept, g) /\ Forget({}, lost, kept)
<1> DEFINE oldest == {p \in packetHistory :
                         Cardinality({q \in packetHistory : q.PacketNumber <= p.PacketNumber}) <= 2}
           g == [p \in packetHistory |-> p]
<1>1. Forget({}, oldest, packetHistory \ oldest)
    BY DEF MaybeQueueRTOs
<1>2. oldest \subseteq packetHistory
    OBVIOUS
<1> HIDE DEF oldest
<1>3. Splits({}, oldest, packetHistory \ oldest, g)
    BY <1>2 DEF Splits
<1> HIDE DEF g
<1> QED BY <1>1, <1>3

LEMMA RTOsMoveFrames ==
    ASSUME MaybeQueueRTOs, PlaceInv
    PROVE  \E found, lost : \A f \in StreamFrames : Moved(f, found, lost)
<1>1. PICK lost, kept, g : Splits({}, lost, kept, g) /\ Forget({}, lost, kept)
    BY RTOsSplit
<1>2. UNCHANGED <<unsent, framerQueue>>
    BY DEF MaybeQueueRTOs
<1>3. ASSUME NEW f \in StreamFrames PROVE Moved(f, {}, lost)
    BY <1>1, <1>2, ForgetMovesFrames DEF PlaceInv
<1> QED BY <1>3

LEMMA AckSplits ==
    ASSUME StopInv, NEW ack \in (SUBSET PacketNumbers) \ {{}}, NEW with, ReceivedAck(ack, with)
    PROVE  \E lost, kept, g : Splits(Found(ack), lost, kept, g) /\ Forget(Found(ack), lost, kept)
<1> DEFINE below   == {p \in packetHistory : p.PacketNumber <= Max(ack)}
           missing == Nacked(below \ Found(ack))
           lost    == {p \in missing : IsLost(p)}
           kept    == (packetHistory \ below) \cup (missing \ lost)
           nacked(p) == [p EXCEPT !.MissingReports = @ + 1]
           g       == [p \in packetHistory |-> IF p \in below THEN nacked(p) ELSE p]
<1>1. Forget(Found(ack), lost, kept)
    BY DEF ReceivedAck
<1>2. Found(ack) \subseteq packetHistory /\ below \subseteq packetHistory
    BY DEF Found
<1>3. Found(ack) \subseteq below
    <2>1. MaxPacketNumber \in Nat /\ ack \in SUBSET (1 .. MaxPacketNumber) /\ ack # {}
        BY SentPacketsAssumption DEF PacketNumbers
    <2>2. \A n \in ack : Max(ack) >= n
        BY <2>1, MaxIsGreatest
    <2>3. \A n \in ack : n <= Max(ack)
        BY <2>2
    <2> QED BY <2>3 DEF Found
<1>4. \A p \in packetHistory :
          IsPacket(p) /\ nacked(p).Frames = p.Frames /\ nacked(p).PacketNumber = p.PacketNumber
          /\ nacked(p).Length = p.Length
    BY NackedPacket DEF StopInv
<1>5. \A q \in packetHistory \ below : ~(q.PacketNumber <= Max(ack))
    OBVIOUS
<1>6. \A p \in below : nacked(p).PacketNumber <= Max(ack)
    BY <1>4
<1>7. missing = {nacked(p) : p \in below \ Found(ack)}
    BY DEF Nacked
<1> HIDE DEF below, missing, nacked
<1>8. missing \cap (packetHistory \ below) = {}
    BY <1>5, <1>6, <1>7
<1>9. lost \cup kept = missing \cup (packetHistory \ below) /\ lost \cap kept = {}
    BY <1>8
<1>10. {g[p] : p \in packetHistory \ Found(ack)} = missing \cup (packetHistory \ below)
    <2>1. \A p \in below \ Found(ack) : g[p] = nacked(p)
        BY <1>2
    <2>2. \A p \in packetHistory \ below : g[p] = p
        OBVIOUS
    <2>3. packetHistory \ Found(ack) = (below \ Found(ack)) \cup (packetHistory \ below)
        BY <1>2, <1>3
    <2> HIDE DEF g
    <2>4. {g[p] : p \in below \ Found(ack)} = missing
        BY <1>7, <2>1
    <2>5. {g[p] : p \in packetHistory \ below} = packetHistory \ below
        BY <2>2
    <2> QED BY <2>3, <2>4, <2>5
<1>11. \A p \in packetHistory \ Found(ack) :
          g[p].Frames = p.Frames /\ g[p].PacketNumber = p.PacketNumber /\ g[p].Length = p.Length
    BY <1>4
<1> HIDE DEF g, lost, kept
<1>12. Splits(Found(ack), lost, kept, g)
    BY <1>2, <1>9, <1>10, <1>11 DEF Splits
<1> QED BY <1>1, <1>12

LEMMA AckMovesFrames ==
    ASSUME StopInv, NEW ack \in (SUBSET PacketNumbers) \ {{}}, NEW with, ReceivedAck(ack, with), PlaceInv
    PROVE  \E found, lost : \A f \in StreamFrames : Moved(f, found, lost)
<1>1. PICK lost, kept, g : Splits(Found(ack), lost, kept, g) /\ Forget(Found(ack), lost, kept)
    BY AckSplits
<1>2. UNCHANGED <<unsent, framerQueue>>
    BY DEF ReceivedAck
<1>3. ASSUME NEW f \in StreamFrames PROVE Moved(f, Found(ack), lost)
    BY <1>1, <1>2, ForgetMovesFrames DEF PlaceInv
<1> QED BY <1>3

\* A step that touches neither streams nor packets.
LEMMA StillMovesNothing ==
    ASSUME UNCHANGED <<unsent, acked, framerQueue, packetHistory, retransmissionQueue>>, PlaceInv
    PROVE  PlaceInv' /\ \A f \in StreamFrames : Phase(f)' = Phase(f)
BY DEF PlaceInv, InOnePlace, InFramer, InHistory, InQueue, Phase, FramesOf

\* SendNothing drains packets without frames of streams.
LEMMA NothingMovesNothing ==
    ASSUME NEW withAck, SendNothing(withAck), PlaceInv
    PROVE  PlaceInv' /\ \A f \in StreamFrames : Phase(f)' = Phase(f)
<1>1. /\ Drained = {} /\ retransmissionQueue' = {}
      /\ UNCHANGED <<unsent, acked, framerQueue, packetHistory>>
    BY DEF SendNothing
<1>2. \A f \in StreamFrames : ~InQueue(f) /\ ~InFramer(f)
    BY <1>1, DrainedFrames DEF PlaceInv
<1>3. \A f \in StreamFrames : InOnePlace(f)'
    BY <1>1, <1>2 DEF PlaceInv, InOnePlace, InFramer, InHistory, InQueue
<1>4. \A f \in StreamFrames : Phase(f)' = Phase(f)
    BY <1>1 DEF Phase, FramesOf
<1> QED BY <1>3, <1>4 DEF PlaceInv

LEMMA PlaceNext == StopInv /\ PlaceInv /\ [Next]_vars => PlaceInv'
<1> SUFFICES ASSUME StopInv, PlaceInv, [Next]_vars PROVE PlaceInv'
    OBVIOUS
<1>1. ASSUME NEW n \in PacketNumbers, NEW control \in SUBSET ControlFrames, NEW resent, NEW new,
             NEW windowUpdates, NEW withAck, SendPacket(n, control, resent, new, windowUpdates, withAck)
      PROVE  PlaceInv'
    <2>1. ASSUME NEW f \in StreamFrames PROVE InOnePlace(f)'
        BY <1>1, SendMovesFrames, Zenon DEF PlaceInv
    <2> QED BY <2>1 DEF PlaceInv
<1>2. ASSUME NEW withAck, SendNothing(withAck) PROVE PlaceInv'
    BY <1>2, NothingMovesNothing
<1>3. CASE MaybeQueueRTOs
    BY <1>3, RTOsMoveFrames DEF Moved, PlaceInv
<1>4. ASSUME NEW ack \in (SUBSET PacketNumbers) \ {{}}, NEW with, ReceivedAck(ack, with) PROVE PlaceInv'
    BY <1>4, AckMovesFrames DEF Moved, PlaceInv
<1>5. ASSUME NEW ack, NEW with, ReceivedAckFails(ack, with) \/ ReceivedAckRepeated(ack, with) PROVE PlaceInv'
    BY <1>5, StillMovesNothing DEF ReceivedAckFails, ReceivedAckRepeated, handlerVars
<1>6. CASE UNCHANGED vars
    BY <1>6, StillMovesNothing DEF vars, handlerVars
<1> QED BY <1>1, <1>2, <1>3, <1>4, <1>5, <1>6 DEF Next, Step

\* Every frame is in one place, once.
THEOREM PlaceInvariant == Spec => []PlaceInv
BY PlaceInit, PlaceNext, StopWaitingInvariant, PTL DEF Spec

\* Stream data is neither lost nor, once its acknowledgement was seen, resent.
THEOREM FramesHaveOnePlace == Spec => []EachFrameInOnePlace
<1>1. PlaceInv => EachFrameInOnePlace
    <2> SUFFICES ASSUME PlaceInv, NEW f \in StreamFrames PROVE \E x \in Places(f) : Places(f) = {x}
        BY DEF EachFrameInOnePlace
    <2>1. InOnePlace(f)
        BY DEF PlaceInv
    <2>2. CASE f \in unsent
        <3>1. Places(f) = {<<"unsent", f>>}
            BY <2>1, <2>2 DEF Places, InOnePlace, InFramer, InHistory, InQueue
        <3> QED BY <3>1
    <2>3. CASE f \in acked
        <3>1. Places(f) = {<<"acked", f>>}
            BY <2>1, <2>3 DEF Places, InOnePlace, InFramer, InHistory, InQueue
        <3> QED BY <3>1
    <2>4. ASSUME NEW r \in framerQueue, r.Frame = f PROVE Places(f) = {<<"framer", r>>}
        <3>1. {q \in framerQueue : q.Frame = f} = {r}
            BY <2>1, <2>4 DEF InOnePlace
        <3>2. f \notin unsent /\ f \notin acked /\ ~InHistory(f) /\ ~InQueue(f)
            BY <2>1, <2>4 DEF InOnePlace, InFramer
        <3> QED BY <3>1, <3>2 DEF Places, InHistory, InQueue
    <2>5. ASSUME NEW p \in packetHistory, f \in p.Frames PROVE Places(f) = {<<"history", p>>}
        <3>1. {q \in packetHistory : f \in q.Frames} = {p}
            BY <2>1, <2>5 DEF InOnePlace
        <3>2. f \notin unsent /\ f \notin acked /\ ~InFramer(f) /\ ~InQueue(f)
            BY <2>1, <2>5 DEF InOnePlace, InHistory
        <3> QED BY <3>1, <3>2 DEF Places, InFramer, InQueue
    <2>6. ASSUME NEW p \in retransmissionQueue, f \in p.Frames PROVE Places(f) = {<<"queue", p>>}
        <3>1. {q \in retransmissionQueue : f \in q.Frames} = {p}
            BY <2>1, <2>6 DEF InOnePlace
        <3>2. f \notin unsent /\ f \notin acked /\ ~InFramer(f) /\ ~InHistory(f)
            BY <2>1, <2>6 DEF InOnePlace, InQueue
        <3> QED BY <3>1, <3>2 DEF Places, InFramer, InHistory
    <2> QED BY <2>1, <2>2, <2>3, <2>4, <2>5, <2>6, Zenon DEF InOnePlace, InFramer, InHistory, InQueue
<1> QED BY <1>1, PlaceInvariant, PTL

-----------------------------------------------------------------------------
(* Refinement *)

\* The phase of a frame that sits in one place.
LEMMA PhaseOf ==
    ASSUME NEW f
    PROVE  /\ f \in unsent => Phase(f) = "unsent"
           /\ f \notin unsent /\ InHistory(f) => Phase(f) = "flying"
           /\ f \notin unsent /\ ~InHistory(f) /\ f \in acked => Phase(f) = "acked"
           /\ f \notin unsent /\ ~InHistory(f) /\ f \notin acked => Phase(f) = "lost"
BY DEF Phase, InHistory, FramesOf

LEMMA PhaseOfNext ==
    ASSUME NEW f
    PROVE  /\ f \in unsent' => Phase(f)' = "unsent"
           /\ f \notin unsent' /\ InHistory(f)' => Phase(f)' = "flying"
           /\ f \notin unsent' /\ ~InHistory(f)' /\ f \in acked' => Phase(f)' = "acked"
           /\ f \notin unsent' /\ ~InHistory(f)' /\ f \notin acked' => Phase(f)' = "lost"
BY DEF Phase, InHistory, FramesOf

LEMMA SendRefines ==
    ASSUME PlaceInv, NEW n, NEW control \in SUBSET ControlFrames, NEW resent, NEW new,
           NEW windowUpdates, NEW withAck, SendPacket(n, control, resent, new, windowUpdates, withAck)
    PROVE  Reliable!Next
<1> DEFINE sent == {f \in StreamFrames : f \in new \/ \E r \in resent : r.Frame = f}
<1>1. ASSUME NEW f \in StreamFrames
      PROVE  /\ f \in sent => Phase(f) \in {"unsent", "lost"} /\ Phase(f)' = "flying"
             /\ f \notin sent => Phase(f)' = Phase(f)
    <2>1. InOnePlace(f)
        BY DEF PlaceInv
    <2>2. f \in sent <=> (f \in new \/ \E r \in resent : r.Frame = f)
        OBVIOUS
    <2> HIDE DEF sent
    <2>3. f \in sent => f \notin unsent' /\ InHistory(f)' /\ f \notin acked /\ ~InHistory(f)
        BY <2>1, <2>2, SendMovesFrames, Zenon
    <2>4. f \notin sent => (f \in unsent' <=> f \in unsent) /\ (InHistory(f)' <=> InHistory(f))
        BY <2>1, <2>2, SendMovesFrames
    <2>5. f \in acked' <=> f \in acked
        BY <2>1, SendMovesFrames, Zenon
    <2> QED BY <2>3, <2>4, <2>5, PhaseOf, PhaseOfNext
<1>2. Reliable!Send(sent)
    <2> HIDE DEF sent
    <2>1. sent \subseteq StreamFrames
        BY DEF sent
    <2> QED BY <1>1, <2>1 DEF Reliable!Send, Reliable!In
<1>3. sent \in SUBSET StreamFrames
    OBVIOUS
<1> QED BY <1>2, <1>3 DEF Reliable!Next

LEMMA MovedRefines ==
    ASSUME PlaceInv, NEW found, NEW lost, \A f \in StreamFrames : Moved(f, found, lost)
    PROVE  Reliable!Next
<1> DEFINE A == {f \in StreamFrames : f \in FramesOf(found)}
           L == {f \in StreamFrames : f \in FramesOf(lost)}
<1>1. ASSUME NEW f \in StreamFrames
      PROVE  /\ f \in A => Phase(f) = "flying" /\ Phase(f)' = "acked" /\ f \notin L
             /\ f \in L => Phase(f) = "flying" /\ Phase(f)' = "lost"
             /\ f \notin A /\ f \notin L => Phase(f)' = Phase(f)
    <2>1. InOnePlace(f) /\ InOnePlace(f)'
        BY DEF PlaceInv, Moved
    <2>2. InHistory(f) => f \notin unsent
        BY <2>1 DEF InOnePlace
    <2>3. /\ (f \in unsent' <=> f \in unsent)
          /\ f \in A => f \in acked' /\ InHistory(f) /\ ~InHistory(f)' /\ f \notin L
          /\ f \in L => InHistory(f) /\ ~InHistory(f)' /\ f \notin acked'
          /\ f \notin A /\ f \notin L => (InHistory(f)' <=> InHistory(f)) /\ (f \in acked' <=> f \in acked)
        BY DEF Moved
    <2> HIDE DEF A, L
    <2> QED BY <2>2, <2>3, PhaseOf, PhaseOfNext
<1>2. A \subseteq StreamFrames /\ L \subseteq StreamFrames
    OBVIOUS
<1> HIDE DEF A, L
<1>3. Reliable!Report(A, L)
    BY <1>1, <1>2 DEF Reliable!Report, Reliable!In
<1> QED BY <1>2, <1>3 DEF Reliable!Next

\* sentPacketHandler implements ReliableFrames: frames move only along their
\* life cycle, and an acknowledged frame stays acknowledged.
THEOREM LossRecoveryIsReliable == Spec => FramesAreReliable
<1>1. Init => Reliable!Init
    <2> SUFFICES ASSUME Init PROVE Reliable!Init
        OBVIOUS
    <2>1. \A f \in StreamFrames : Phase(f) = "unsent"
        BY DEF Init, Phase
    <2> QED BY <2>1 DEF Reliable!Init
<1>2. StopInv /\ PlaceInv /\ [Next]_vars => [Reliable!Next]_([f \in StreamFrames |-> Phase(f)])
    <2> SUFFICES ASSUME StopInv, PlaceInv, [Next]_vars
                 PROVE  Reliable!Next \/ UNCHANGED [f \in StreamFrames |-> Phase(f)]
        OBVIOUS
    <2>1. ASSUME NEW n \in PacketNumbers, NEW control \in SUBSET ControlFrames, NEW resent, NEW new,
                 NEW windowUpdates, NEW withAck, SendPacket(n, control, resent, new, windowUpdates, withAck)
          PROVE  Reliable!Next
        BY <2>1, SendRefines
    <2>2. CASE MaybeQueueRTOs
        BY <2>2, RTOsMoveFrames, MovedRefines
    <2>3. ASSUME NEW ack \in (SUBSET PacketNumbers) \ {{}}, NEW with, ReceivedAck(ack, with) PROVE Reliable!Next
        BY <2>3, AckMovesFrames, MovedRefines
    <2>4. ASSUME NEW withAck, SendNothing(withAck) PROVE UNCHANGED [f \in StreamFrames |-> Phase(f)]
        BY <2>4, NothingMovesNothing
    <2>5. ASSUME NEW ack, NEW with, ReceivedAckFails(ack, with) \/ ReceivedAckRepeated(ack, with)
          PROVE  UNCHANGED [f \in StreamFrames |-> Phase(f)]
        BY <2>5, StillMovesNothing DEF ReceivedAckFails, ReceivedAckRepeated, handlerVars
    <2>6. CASE UNCHANGED vars
        <3>1. UNCHANGED [f \in StreamFrames |-> Phase(f)]
            BY <2>6, StillMovesNothing DEF vars, handlerVars
        <3> QED BY <3>1
    <2> QED BY <2>1, <2>2, <2>3, <2>4, <2>5, <2>6 DEF Next, Step
<1> QED BY <1>1, <1>2, StopWaitingInvariant, PlaceInvariant, PTL DEF Spec, FramesAreReliable, Reliable!Spec

-----------------------------------------------------------------------------
(* Bytes in flight *)

FlightInv ==
    /\ IsFiniteSet(packetHistory)
    /\ \A p \in packetHistory : p.Length \in Nat
    /\ \A p, q \in packetHistory : p.PacketNumber = q.PacketNumber => p = q
    /\ \A r \in framerQueue : r.Frame \in StreamFrames
    /\ bytesInFlight = Flight(packetHistory)

\* Flight as a sum, with the same weights for all sets of packets within U.
LEMMA FlightIsSum ==
    ASSUME NEW U, IsFiniteSet(U), \A p \in U : p.Length \in Int, NEW A \in SUBSET U
    PROVE  Flight(A) = Sum([p \in U |-> p.Length], A) /\ Flight(A) \in Int /\ IsFiniteSet(A)
<1> DEFINE w == [p \in U |-> p.Length]
           Eq(g) == g = [s \in SUBSET A |-> IF s = {} THEN 0 ELSE Chosen(s).Length + g[s \ {Chosen(s)}]]
           iter == CHOOSE g : Eq(g)
<1>1. IsFiniteSet(A) /\ \A p \in A : w[p] \in Int /\ w[p] = p.Length
    BY FS_Subset
<1>2. \A s \in SUBSET A : s # {} => Chosen(s) \in A
    BY ChosenIsElement
<1>3. PICK g \in [SUBSET A -> Int] : Solves(g, SUBSET A, w) /\ Sum(w, A) = g[A]
    <2> HIDE DEF w
    <2> QED BY <1>1, SumIsSolution, Zenon
<1>4. Eq(g)
    BY <1>1, <1>2, <1>3 DEF Solves
<1>5. Eq(iter)
    BY <1>4, Zenon
<1>6. Flight(A) = iter[A]
    BY DEF Flight, MapThenSumSet, MapThenFoldSet, Chosen
<1> HIDE DEF iter
<1>7. Solves(iter, SUBSET A, w)
    BY <1>1, <1>2, <1>5, Zenon DEF Solves
<1>8. iter[A] = g[A]
    <2> HIDE DEF w, Eq
    <2>1. \A s \in SUBSET A : iter[s] = g[s]
        BY <1>1, <1>3, <1>7, SolutionIsUnique
    <2> QED BY <2>1
<1> QED BY <1>1, <1>3, <1>6, <1>8

LEMMA FlightOfDisjoint ==
    ASSUME NEW A, NEW B, IsFiniteSet(A \cup B), A \cap B = {}, \A p \in A \cup B : p.Length \in Int
    PROVE  Flight(A \cup B) = Flight(A) + Flight(B) /\ Flight(A) \in Int /\ Flight(B) \in Int
<1> DEFINE U == A \cup B
           w == [p \in U |-> p.Length]
<1>1. A \in SUBSET (U \ B) /\ B \in SUBSET U /\ A \in SUBSET U /\ U \in SUBSET U /\ A \cup B = U
      /\ IsFiniteSet(U) /\ \A p \in U : p.Length \in Int /\ w[p] \in Int
    OBVIOUS
<1> HIDE DEF U
<1>2. /\ Flight(U) = Sum(w, U) /\ Flight(A) = Sum(w, A) /\ Flight(B) = Sum(w, B)
      /\ Flight(A) \in Int /\ Flight(B) \in Int
    BY <1>1, FlightIsSum
<1> HIDE DEF w
<1>3. Sum(w, A \cup B) = Sum(w, A) + Sum(w, B)
    BY <1>1, SumOfDisjoint
<1> QED BY <1>1, <1>2, <1>3, Zenon

LEMMA FlightOfImage ==
    ASSUME NEW A, IsFiniteSet(A), \A p \in A : p.Length \in Int, NEW g,
           \A p, q \in A : g[p] = g[q] => p = q, \A p \in A : g[p].Length = p.Length
    PROVE  IsFiniteSet({g[p] : p \in A}) /\ Flight({g[p] : p \in A}) = Flight(A) /\ Flight(A) \in Int
<1> DEFINE B == {g[p] : p \in A}
           w == [p \in A |-> p.Length]
           v == [p \in B |-> p.Length]
<1>1. \A p \in A : w[p] \in Int /\ v[g[p]] = w[p]
    OBVIOUS
<1>2. \A p \in B : p.Length \in Int
    OBVIOUS
<1>3. Flight(A) = Sum(w, A) /\ Flight(A) \in Int
    BY FlightIsSum
<1>4. IsFiniteSet(B) /\ Sum(v, B) = Sum(w, A)
    <2>1. Renames(g, A, B, w, v)
        BY <1>1 DEF Renames
    <2> HIDE DEF v, w, B
    <2> QED BY <2>1, SumOfImage
<1> HIDE DEF B
<1>5. Flight(B) = Sum(v, B)
    BY <1>2, <1>4, FlightIsSum
<1> QED BY <1>3, <1>4, <1>5 DEF B

LEMMA FlightIsNat ==
    ASSUME NEW A, IsFiniteSet(A), \A p \in A : p.Length \in Nat
    PROVE  Flight(A) \in Nat
<1> DEFINE w == [p \in A |-> p.Length]
<1>1. Flight(A) = Sum(w, A)
    BY FlightIsSum
<1>2. \A p \in A : w[p] \in Nat
    OBVIOUS
<1> HIDE DEF w
<1> QED BY <1>1, <1>2, SumIsNat

LEMMA FlightInit == Init => FlightInv
<1> SUFFICES ASSUME Init PROVE FlightInv
    OBVIOUS
<1>1. packetHistory = {} /\ framerQueue = {} /\ bytesInFlight = 0
    BY DEF Init
<1>2. IsFiniteSet({}) /\ {} \in SUBSET {}
    BY FS_EmptySet
<1>3. Flight({}) = Sum([p \in {} |-> p.Length], {})
    BY <1>2, FlightIsSum, Zenon
<1>4. Flight({}) = 0
    BY <1>3, SumEmpty
<1> QED BY <1>1, <1>2, <1>4 DEF FlightInv

\* Every packet leaves the sum once, acknowledged or lost.
LEMMA FlightForget ==
    ASSUME FlightInv, NEW found, NEW lost, NEW kept, NEW g, Splits(found, lost, kept, g),
           Forget(found, lost, kept), UNCHANGED framerQueue
    PROVE  FlightInv'
<1> DEFINE H == packetHistory
           rest == H \ found
<1>1. IsFiniteSet(H) /\ IsFiniteSet(rest) /\ \A p \in H : p.Length \in Nat /\ p.Length \in Int
    <2>1. IsFiniteSet(H) /\ \A p \in H : p.Length \in Nat
        BY DEF FlightInv
    <2>2. rest \subseteq H
        OBVIOUS
    <2> HIDE DEF H, rest
    <2> QED BY <2>1, <2>2, FS_Subset
<1>2. /\ found \subseteq H /\ lost \cup kept = {g[p] : p \in rest} /\ lost \cap kept = {}
      /\ \A p \in rest : g[p].PacketNumber = p.PacketNumber /\ g[p].Length = p.Length
    BY DEF Splits
<1>3. \A p, q \in rest : g[p] = g[q] => p = q
    BY <1>2 DEF FlightInv
<1>4. packetHistory' = kept /\ bytesInFlight' = Flight(H) - Flight(found) - Flight(lost)
    BY DEF Forget, FlightInv
<1>5. rest \cup found = H /\ rest \cap found = {} /\ \A p \in rest : p.Length \in Int
    BY <1>1, <1>2
<1>6. \A q \in lost \cup kept : \E p \in rest : q = g[p] /\ q.PacketNumber = p.PacketNumber /\ q.Length = p.Length
    BY <1>2
<1> HIDE DEF rest, H
<1>7. Flight(H) = Flight(rest) + Flight(found) /\ Flight(found) \in Int /\ Flight(rest) \in Int
    BY <1>1, <1>5, FlightOfDisjoint, Zenon
<1>8. IsFiniteSet(lost \cup kept) /\ Flight(lost \cup kept) = Flight(rest)
    BY <1>1, <1>2, <1>3, <1>5, FlightOfImage
<1>9. \A q \in lost \cup kept : q.Length \in Nat /\ q.Length \in Int
    BY <1>1, <1>5, <1>6
<1>10. Flight(lost \cup kept) = Flight(lost) + Flight(kept) /\ Flight(lost) \in Int /\ Flight(kept) \in Int
    BY <1>2, <1>8, <1>9, FlightOfDisjoint, Zenon
<1>11. bytesInFlight' = Flight(kept)
    BY <1>4, <1>7, <1>8, <1>10
<1>12. IsFiniteSet(kept)
    BY <1>8, FS_Subset
<1>13. \A q, r \in kept : q.PacketNumber = r.PacketNumber => q = r
    <2> SUFFICES ASSUME NEW q \in kept, NEW r \in kept, q.PacketNumber = r.PacketNumber PROVE q = r
        OBVIOUS
    <2>1. PICK p1 \in rest : q = g[p1] /\ q.PacketNumber = p1.PacketNumber
        BY <1>6
    <2>2. PICK p2 \in rest : r = g[p2] /\ r.PacketNumber = p2.PacketNumber
        BY <1>6
    <2>3. p1 = p2
        BY <2>1, <2>2 DEF FlightInv, rest, H
    <2> QED BY <2>1, <2>2, <2>3
<1>14. (bytesInFlight = Flight(packetHistory))'
    BY <1>4, <1>11
<1> QED BY <1>4, <1>9, <1>12, <1>13, <1>14 DEF FlightInv

LEMMA FlightSend ==
    ASSUME StopInv, FlightInv, NEW n \in PacketNumbers, NEW control \in SUBSET ControlFrames, NEW resent, NEW new,
           NEW windowUpdates, NEW withAck, SendPacket(n, control, resent, new, windowUpdates, withAck)
    PROVE  FlightInv'
<1> DEFINE frames == control \cup {r.Frame : r \in resent} \cup new
           packet == [PacketNumber |-> n, Frames |-> frames, Length |-> Length(frames), MissingReports |-> 0]
           H == packetHistory
<1>1. /\ n > lastSentPacketNumber
      /\ packetHistory' = H \cup {packet} /\ bytesInFlight' = Flight(H) + Length(frames)
      /\ resent \subseteq Drained /\ new \subseteq StreamFrames /\ framerQueue' \subseteq Drained
    BY Zenon DEF SendPacket, SentPacket, Packed, Unpopped, FlightInv
<1>2. \A r \in Drained : r.Frame \in StreamFrames
    <2>1. \A r \in framerQueue : r.Frame \in StreamFrames
        BY DEF FlightInv
    <2> QED BY <2>1 DEF Drained
<1>3. Length(frames) \in Nat
    <2>1. frames \subseteq StreamFrames \cup ControlFrames
        BY <1>1, <1>2
    <2> HIDE DEF frames
    <2>2. IsFiniteSet(frames)
        BY <2>1, SentPacketsAssumption, FS_Union, FS_Subset, Zenon
    <2> QED BY <2>2, FS_CardinalityType DEF Length
<1> HIDE DEF frames
<1>4. packet.PacketNumber = n /\ packet.Length = Length(frames)
    OBVIOUS
<1>5. \A p \in H : p.PacketNumber # n
    <2>1. n \in Nat /\ lastSentPacketNumber \in Nat
        BY SentPacketsAssumption DEF PacketNumbers, StopInv
    <2>2. \A p \in H : p.PacketNumber \in 1 .. lastSentPacketNumber
        BY DEF StopInv
    <2> QED BY <1>1, <2>1, <2>2
<1> HIDE DEF packet, H
<1>6. IsFiniteSet(H) /\ \A p \in H : p.Length \in Nat
    BY DEF FlightInv, H
<1>7. IsFiniteSet(H \cup {packet}) /\ IsFiniteSet({packet})
    BY <1>6, FS_AddElement, FS_Singleton, Zenon
<1>8. H \cap {packet} = {} /\ \A p \in H \cup {packet} : p.Length \in Nat /\ p.Length \in Int
    BY <1>3, <1>4, <1>5, <1>6
<1>9. Flight(H \cup {packet}) = Flight(H) + Flight({packet})
    BY <1>7, <1>8, FlightOfDisjoint
<1>10. Flight({packet}) = Length(frames)
    <2> DEFINE S == {packet}
               w == [p \in S |-> p.Length]
    <2>1. IsFiniteSet(S) /\ S \in SUBSET S /\ packet \in S /\ S \ {packet} = {}
          /\ \A p \in S : p.Length \in Int /\ w[p] \in Int
        BY <1>7, <1>8
    <2>2. w[packet] = Length(frames)
        BY <1>4
    <2> HIDE DEF S
    <2>3. Flight(S) = Sum(w, S)
        BY <2>1, FlightIsSum
    <2> HIDE DEF w
    <2>4. Sum(w, S) = w[packet] + Sum(w, S \ {packet})
        BY <2>1, SumWithout
    <2>5. Sum(w, S \ {packet}) = 0
        BY <2>1, SumEmpty
    <2> QED BY <1>3, <2>2, <2>3, <2>4, <2>5 DEF S
<1>11. (bytesInFlight = Flight(packetHistory))'
    BY <1>1, <1>9, <1>10
<1>12. \A p, q \in packetHistory' : p.PacketNumber = q.PacketNumber => p = q
    BY <1>1, <1>4, <1>5 DEF FlightInv, H
<1>13. \A r \in framerQueue' : r.Frame \in StreamFrames
    BY <1>1, <1>2
<1> QED BY <1>1, <1>7, <1>8, <1>11, <1>12, <1>13, Zenon DEF FlightInv

LEMMA FlightNext == StopInv /\ FlightInv /\ [Next]_vars => FlightInv'
<1> SUFFICES ASSUME StopInv, FlightInv, [Next]_vars PROVE FlightInv'
    OBVIOUS
<1>1. ASSUME NEW n \in PacketNumbers, NEW control \in SUBSET ControlFrames, NEW resent, NEW new,
             NEW windowUpdates, NEW withAck, SendPacket(n, control, resent, new, windowUpdates, withAck)
      PROVE  FlightInv'
    BY <1>1, FlightSend
<1>2. CASE MaybeQueueRTOs
    BY <1>2, RTOsSplit, FlightForget DEF MaybeQueueRTOs
<1>3. ASSUME NEW ack \in (SUBSET PacketNumbers) \ {{}}, NEW with, ReceivedAck(ack, with) PROVE FlightInv'
    BY <1>3, AckSplits, FlightForget DEF ReceivedAck
<1>4. CASE UNCHANGED <<packetHistory, framerQueue, bytesInFlight>>
    <2>1. (bytesInFlight = Flight(packetHistory))'
        BY <1>4 DEF FlightInv
    <2> QED BY <1>4, <2>1 DEF FlightInv
<1>5. ASSUME NEW withAck, SendNothing(withAck) PROVE FlightInv'
    BY <1>4, <1>5 DEF SendNothing
<1>6. ASSUME NEW ack, NEW with, ReceivedAckFails(ack, with) \/ ReceivedAckRepeated(ack, with) PROVE FlightInv'
    BY <1>4, <1>6 DEF ReceivedAckFails, ReceivedAckRepeated
<1>7. CASE UNCHANGED vars
    BY <1>4, <1>7 DEF vars, handlerVars
<1> QED BY <1>1, <1>2, <1>3, <1>5, <1>6, <1>7 DEF Next, Step

\* bytesInFlight is the size of the packets in the history, and so never
\* underflows: an acknowledgement and a loss report, in whatever order they hit
\* a packet, subtract it once.
THEOREM BytesInFlightIsExact ==
    Spec => [](bytesInFlight = Flight(packetHistory) /\ bytesInFlight \in Nat)
<1>1. FlightInv => bytesInFlight = Flight(packetHistory) /\ bytesInFlight \in Nat
    BY FlightIsNat DEF FlightInv
<1> QED BY <1>1, FlightInit, FlightNext, StopWaitingInvariant, PTL DEF Spec


-----------------------------------------------------------------------------
(* The network and the peer *)

\* What the peer received and acknowledges are packets that were sent, and as
\* long as the history holds such a packet the peer has processed its frames.
NetAt ==
    /\ peer \in {"honest", "arbitrary"}
    /\ peerSent \in 0 .. MaxAcks /\ ignoreBelow \in Nat /\ ackDue \in BOOLEAN
    /\ received \in SUBSET (1 .. lastSentPacketNumber) /\ (ackDue => received # {})
    /\ \A w \in wire : /\ w.PacketNumber \in 1 .. lastSentPacketNumber
                       /\ w.LeastUnacked \in Nat /\ w.LeastUnacked <= w.PacketNumber
                       /\ \A p \in packetHistory : p.PacketNumber = w.PacketNumber => p.Frames = w.Frames
    /\ \A a \in ackWire : /\ a.PacketNumber \in 1 .. MaxAcks
                          /\ a.Acked \in SUBSET (1 .. lastSentPacketNumber) /\ a.Acked # {}
                          /\ \A p \in packetHistory : p.PacketNumber \in a.Acked => p.Frames \subseteq got
    /\ \A p \in packetHistory : p.PacketNumber \in received => p.Frames \subseteq got
    /\ peer = "honest" => skippedPackets = {} /\ acked \subseteq got /\ lastSentPacketNumber <= MaxPacketNumber
    /\ peer = "arbitrary" => wire = {} /\ ackWire = {} /\ ~ackDue /\ received = {}

NetInv == StopInv /\ FlightInv /\ NetAt

LEMMA NetInvInit == NetInit => NetInv
<1> SUFFICES ASSUME NetInit PROVE NetInv
    OBVIOUS
<1>1. StopInv /\ FlightInv
    BY StopInit, FlightInit DEF NetInit
<1>2. peer \in {"honest", "arbitrary"}
    BY LossRecoveryAssumption DEF NetInit
<1>3. ~ackDue /\ ackDue \in BOOLEAN
    BY Zenon DEF NetInit
<1>4. lastSentPacketNumber = 0 /\ packetHistory = {} /\ skippedPackets = {} /\ acked = {}
    BY DEF NetInit, Init
<1> QED BY <1>1, <1>2, <1>3, <1>4, SentPacketsAssumption DEF NetInit, NetInv, NetAt

\* The handler gets ACKs of packets that were sent.
LEMMA AcksAreNumbers ==
    ASSUME NetInv, NEW a \in ackWire
    PROVE  /\ a.Acked \in (SUBSET PacketNumbers) \ {{}} /\ a.PacketNumber \in 1 .. MaxAcks
           /\ peer = "honest"
<1>1. peer = "honest"
    BY DEF NetInv, NetAt
<1>2. lastSentPacketNumber \in Nat /\ lastSentPacketNumber <= MaxPacketNumber
    BY <1>1 DEF NetInv, NetAt, StopInv
<1>3. 1 .. lastSentPacketNumber \subseteq PacketNumbers
    BY <1>2, SentPacketsAssumption DEF PacketNumbers
<1> QED BY <1>1, <1>3 DEF NetInv, NetAt

\* Every step with the network is a step of the handler, or leaves it alone.
LEMMA NetStep == NetInv /\ [NetNext]_allVars => [Next]_vars
<1> SUFFICES ASSUME NetInv, [NetNext]_allVars PROVE [Next]_vars
    OBVIOUS
<1>1. CASE UNCHANGED vars
    BY <1>1
<1>2. CASE Send
    <2>1. lastSentPacketNumber + 1 \in PacketNumbers
        <3>1. lastSentPacketNumber \in Nat
            BY DEF NetInv, StopInv
        <3>2. lastSentPacketNumber < MaxPacketNumber
            BY <1>2 DEF Send
        <3> QED BY <3>1, <3>2, SentPacketsAssumption DEF PacketNumbers
    <2>2. \E control \in SUBSET ControlFrames, resent \in SUBSET Drained, new \in SUBSET Unpopped,
             windowUpdates \in SUBSET (unsent \cap ControlFrames) :
             SendPacket(lastSentPacketNumber + 1, control, resent, new, windowUpdates, FALSE)
        BY <1>2, Zenon DEF Send
    <2>3. \E n \in PacketNumbers, control \in SUBSET ControlFrames, resent \in SUBSET Drained,
             new \in SUBSET Unpopped, windowUpdates \in SUBSET (unsent \cap ControlFrames), withAck \in BOOLEAN :
             SendPacket(n, control, resent, new, windowUpdates, withAck)
        BY <2>1, <2>2, Zenon
    <2> QED BY <2>3 DEF Next, Step
<1>3. CASE Timeout
    BY <1>3 DEF Timeout, Next, Step
<1>4. CASE ReceiveAck
    <2>1. PICK a \in ackWire : \/ ReceivedAckRepeated(a.Acked, a.PacketNumber)
                               \/ ReceivedAck(a.Acked, a.PacketNumber)
                               \/ UNCHANGED vars
        BY <1>4 DEF ReceiveAck
    <2>2. a.Acked \in (SUBSET PacketNumbers) \ {{}} /\ a.PacketNumber \in 1 .. MaxAcks
        BY AcksAreNumbers
    <2> QED BY <2>1, <2>2 DEF Next, Step
<1>5. CASE ArbitraryStep
    <2> DEFINE N == 1 .. ArbitraryPackets
               W == (1 .. ArbitraryAcks) \cap {largestReceivedPacketWithAck, largestReceivedPacketWithAck + 1}
    <2>1. Step(N, W)
        BY <1>5 DEF ArbitraryStep
    <2>2. N \subseteq PacketNumbers /\ W \subseteq 1 .. MaxAcks
        BY SentPacketsAssumption, LossRecoveryAssumption DEF PacketNumbers
    <2> HIDE DEF N, W
    <2>3. (SUBSET N) \ {{}} \subseteq (SUBSET PacketNumbers) \ {{}}
        BY <2>2
    <2> QED BY <2>1, <2>2, <2>3 DEF Next, Step
<1> QED BY <1>1, <1>2, <1>3, <1>4, <1>5, Zenon DEF NetNext, allVars, Lose, PeerReceives, PeerAcks

\* No packet of the history changes its number or its frames.
HistoryKept == \A q \in packetHistory' :
                   \E p \in packetHistory : q.PacketNumber = p.PacketNumber /\ q.Frames = p.Frames

LEMMA ForgetKeepsHistory ==
    ASSUME NEW found, NEW lost, NEW kept, NEW g, Splits(found, lost, kept, g), Forget(found, lost, kept)
    PROVE  HistoryKept
<1>1. packetHistory' = kept /\ kept \subseteq {g[p] : p \in packetHistory \ found}
    BY DEF Forget, Splits
<1> QED BY <1>1 DEF Splits, HistoryKept

\* The handler reports, with the network as it is or an ACK less on it.
LEMMA ReportKeepsNet ==
    ASSUME NetAt, HistoryKept, lastSentPacketNumber' = lastSentPacketNumber, skippedPackets' \subseteq skippedPackets,
           peer = "honest" => acked' \subseteq got, ackWire' \subseteq ackWire,
           UNCHANGED <<peer, wire, received, ignoreBelow, got, ackDue, peerSent>>
    PROVE  NetAt'
<1>1. \A w \in wire' : /\ w.PacketNumber \in 1 .. lastSentPacketNumber'
                       /\ w.LeastUnacked \in Nat /\ w.LeastUnacked <= w.PacketNumber
                       /\ \A p \in packetHistory' : p.PacketNumber = w.PacketNumber => p.Frames = w.Frames
    BY DEF NetAt, HistoryKept
<1>2. \A a \in ackWire' : /\ a.PacketNumber \in 1 .. MaxAcks
                          /\ a.Acked \in SUBSET (1 .. lastSentPacketNumber') /\ a.Acked # {}
                          /\ \A p \in packetHistory' : p.PacketNumber \in a.Acked => p.Frames \subseteq got'
    BY DEF NetAt, HistoryKept
<1>3. \A p \in packetHistory' : p.PacketNumber \in received' => p.Frames \subseteq got'
    BY DEF NetAt, HistoryKept
<1>4. peer' = "honest" => skippedPackets' = {} /\ acked' \subseteq got' /\ lastSentPacketNumber' <= MaxPacketNumber
    BY DEF NetAt
<1>5. peer' = "arbitrary" => wire' = {} /\ ackWire' = {} /\ ~ackDue' /\ received' = {}
    BY DEF NetAt
<1>6. received' \in SUBSET (1 .. lastSentPacketNumber') /\ (ackDue' => received' # {})
    BY DEF NetAt
<1> QED BY <1>1, <1>2, <1>3, <1>4, <1>5, <1>6, Zenon DEF NetAt

LEMMA TimeoutKeepsNet == NetAt /\ Timeout => NetAt'
<1> SUFFICES ASSUME NetAt, Timeout PROVE NetAt'
    OBVIOUS
<1>1. MaybeQueueRTOs /\ UNCHANGED <<peer, wire, ackWire, received, ignoreBelow, got, ackDue, peerSent>>
    BY DEF Timeout, netVars
<1>2. PICK lost, kept, g : Splits({}, lost, kept, g) /\ Forget({}, lost, kept)
    BY <1>1, RTOsSplit
<1>3. HistoryKept
    BY <1>2, ForgetKeepsHistory
<1>4. acked' = acked
    BY <1>2 DEF Forget, FramesOf
<1>5. UNCHANGED <<lastSentPacketNumber, skippedPackets>>
    BY <1>1 DEF MaybeQueueRTOs
<1> QED BY <1>1, <1>3, <1>4, <1>5, ReportKeepsNet, Zenon DEF NetAt

LEMMA ReceiveAckKeepsNet == NetInv /\ ReceiveAck => NetAt'
<1> SUFFICES ASSUME NetInv, NEW a \in ackWire, ackWire' = ackWire \ {a},
                    UNCHANGED <<peer, wire, received, ignoreBelow, got, ackDue, peerSent>>,
                    \/ ReceivedAckRepeated(a.Acked, a.PacketNumber)
                    \/ ReceivedAck(a.Acked, a.PacketNumber)
                    \/ UNCHANGED vars
             PROVE  NetAt'
    BY DEF ReceiveAck
<1> NetAt
    BY DEF NetInv
<1>1. a.Acked \in (SUBSET PacketNumbers) \ {{}}
    BY AcksAreNumbers
<1>2. CASE ReceivedAckRepeated(a.Acked, a.PacketNumber) \/ UNCHANGED vars
    <2>1. UNCHANGED <<packetHistory, lastSentPacketNumber, skippedPackets, acked>>
        BY <1>2 DEF ReceivedAckRepeated, vars, handlerVars
    <2>2. HistoryKept
        BY <2>1 DEF HistoryKept
    <2> QED BY <2>1, <2>2, ReportKeepsNet, Zenon DEF NetAt
<1>3. CASE ReceivedAck(a.Acked, a.PacketNumber)
    <2>1. PICK lost, kept, g : Splits(Found(a.Acked), lost, kept, g) /\ Forget(Found(a.Acked), lost, kept)
        BY <1>1, <1>3, AckSplits, Zenon DEF NetInv
    <2>2. HistoryKept
        BY <2>1, ForgetKeepsHistory
    <2>3. FramesOf(Found(a.Acked)) \subseteq got
        BY Zenon DEF FramesOf, Found, NetAt
    <2>4. peer = "honest" => acked' \subseteq got
        BY <2>1, <2>3, Zenon DEF Forget, NetAt
    <2>5. lastSentPacketNumber' = lastSentPacketNumber /\ skippedPackets' \subseteq skippedPackets
        BY <1>3 DEF ReceivedAck
    <2> QED BY <2>2, <2>4, <2>5, ReportKeepsNet
<1> QED BY <1>2, <1>3

LEMMA SendKeepsNet == NetInv /\ Send => NetAt'
<1> SUFFICES ASSUME NetInv, Send PROVE NetAt'
    OBVIOUS
<1> NetAt
    BY DEF NetInv
<1> DEFINE n == lastSentPacketNumber + 1
<1>1. PICK control \in SUBSET ControlFrames, resent \in SUBSET Drained, new \in SUBSET Unpopped,
           windowUpdates \in SUBSET (unsent \cap ControlFrames) :
        /\ SendPacket(n, control, resent, new, windowUpdates, FALSE)
        /\ wire' = wire \cup {[PacketNumber |-> lastPacket'.PacketNumber,
                               Frames |-> control \cup {r.Frame : r \in resent} \cup new,
                               LeastUnacked |-> lastPacket'.LeastUnacked]}
    BY Zenon DEF Send
<1>2. /\ peer = "honest" /\ lastSentPacketNumber < MaxPacketNumber
      /\ UNCHANGED <<peer, ackWire, received, ignoreBelow, got, ackDue, peerSent>>
    BY Zenon DEF Send
<1> DEFINE frames == control \cup {r.Frame : r \in resent} \cup new
           least == IF Drained # {} THEN StopWaitingFrame(Drained # {}) ELSE 0
           sent == [PacketNumber |-> n, Frames |-> frames, LeastUnacked |-> least]
           packet == [PacketNumber |-> n, Frames |-> frames, Length |-> Length(frames), MissingReports |-> 0]
<1>3. /\ lastPacket'.PacketNumber = n /\ lastPacket'.LeastUnacked = least
      /\ packetHistory' = packetHistory \cup {packet} /\ lastSentPacketNumber' = n
      /\ skippedPackets' = Remembered(skippedPackets \cup (lastSentPacketNumber + 1 .. n - 1))
      /\ acked' = acked
    BY <1>1, Zenon DEF SendPacket, SentPacket
<1>4. lastSentPacketNumber \in Nat /\ MaxPacketNumber \in Nat /\ n \in Nat /\ n <= MaxPacketNumber /\ n \in 1 .. n
      /\ 1 .. lastSentPacketNumber \subseteq 1 .. n /\ n \notin 1 .. lastSentPacketNumber
    <2>1. lastSentPacketNumber \in Nat
        BY DEF NetInv, StopInv
    <2> QED BY <1>2, <2>1, SentPacketsAssumption
<1>5. least \in Nat /\ least <= n
    BY DEF StopWaitingFrame, StopWaitingIsNew, NetInv, StopInv
<1>6. wire' = wire \cup {sent}
    BY <1>1, <1>3, Zenon
<1>7. /\ packet.PacketNumber = n /\ packet.Frames = frames
      /\ sent.PacketNumber = n /\ sent.Frames = frames /\ sent.LeastUnacked = least
    BY Zenon
<1>8. skippedPackets' = {}
    <2>1. skippedPackets \cup (lastSentPacketNumber + 1 .. n - 1) = {}
        <3>1. skippedPackets = {}
            BY <1>2, Zenon DEF NetAt
        <3>2. lastSentPacketNumber + 1 .. n - 1 = {}
            BY <1>4
        <3> QED BY <3>1, <3>2
    <2> QED BY <1>3, <2>1 DEF Remembered
<1>9. \A p \in packetHistory : p.PacketNumber \in 1 .. lastSentPacketNumber
    BY Zenon DEF NetInv, NetAt, StopInv
<1> HIDE DEF frames, least, sent, packet, n
<1>10. \A w \in wire' : /\ w.PacketNumber \in 1 .. n
                        /\ w.LeastUnacked \in Nat /\ w.LeastUnacked <= w.PacketNumber
                        /\ \A p \in packetHistory' : p.PacketNumber = w.PacketNumber => p.Frames = w.Frames
    <2>1. ASSUME NEW w \in wire
          PROVE  /\ w.PacketNumber \in 1 .. n /\ w.PacketNumber # n
                 /\ w.LeastUnacked \in Nat /\ w.LeastUnacked <= w.PacketNumber
                 /\ \A p \in packetHistory : p.PacketNumber = w.PacketNumber => p.Frames = w.Frames
        <3>1. /\ w.PacketNumber \in 1 .. lastSentPacketNumber /\ w.LeastUnacked \in Nat
              /\ w.LeastUnacked <= w.PacketNumber
              /\ \A p \in packetHistory : p.PacketNumber = w.PacketNumber => p.Frames = w.Frames
            BY Zenon DEF NetAt
        <3> QED BY <1>4, <3>1
    <2>2. \A p \in packetHistory : p.PacketNumber # n
        BY <1>4, <1>9
    <2> QED BY <1>3, <1>4, <1>5, <1>6, <1>7, <2>1, <2>2
<1>11. \A a \in ackWire : /\ a.PacketNumber \in 1 .. MaxAcks
                          /\ a.Acked \in SUBSET (1 .. n) /\ a.Acked # {}
                          /\ \A p \in packetHistory' : p.PacketNumber \in a.Acked => p.Frames \subseteq got
    <2> SUFFICES ASSUME NEW a \in ackWire
                 PROVE  /\ a.PacketNumber \in 1 .. MaxAcks
                        /\ a.Acked \in SUBSET (1 .. n) /\ a.Acked # {}
                        /\ \A p \in packetHistory' : p.PacketNumber \in a.Acked => p.Frames \subseteq got
        OBVIOUS
    <2>1. /\ a.PacketNumber \in 1 .. MaxAcks /\ a.Acked # {}
          /\ a.Acked \in SUBSET (1 .. lastSentPacketNumber)
          /\ \A p \in packetHistory : p.PacketNumber \in a.Acked => p.Frames \subseteq got
        BY DEF NetAt
    <2>2. packet.PacketNumber \notin a.Acked
        BY <1>4, <1>7, <2>1
    <2> QED BY <1>3, <1>4, <2>1, <2>2
<1>12. \A p \in packetHistory' : p.PacketNumber \in received => p.Frames \subseteq got
    BY <1>3, <1>4, <1>7 DEF NetAt
<1>13. received \in SUBSET (1 .. n)
    BY <1>4 DEF NetAt
<1> QED BY <1>2, <1>3, <1>4, <1>8, <1>10, <1>11, <1>12, <1>13, Zenon DEF NetAt

LEMMA InRangeIsNat == \A m \in Nat : \A x \in 1 .. m : x \in Nat
OBVIOUS

LEMMA PeerReceivesKeepsNet == NetInv /\ PeerReceives => NetAt'
<1> SUFFICES ASSUME NetInv, NEW w \in wire, wire' = wire \ {w},
                    IF w.PacketNumber < ignoreBelow
                    THEN UNCHANGED <<received, ignoreBelow, got, ackDue>>
                    ELSE /\ ignoreBelow' = Max({ignoreBelow, w.LeastUnacked})
                         /\ received' = {n \in received \cup {w.PacketNumber} : n >= ignoreBelow'}
                         /\ got' = got \cup w.Frames
                         /\ ackDue' = TRUE,
                    UNCHANGED <<vars, peer, ackWire, peerSent, losses>>
             PROVE  NetAt'
    BY Zenon DEF PeerReceives
<1>1. NetAt /\ peer = "honest"
    BY DEF NetInv, NetAt
<1>2. UNCHANGED <<lastSentPacketNumber, skippedPackets, packetHistory, acked>>
    BY DEF vars, handlerVars
<1>3. CASE w.PacketNumber < ignoreBelow
    BY <1>1, <1>2, <1>3, Zenon DEF NetAt
<1>4. CASE ~(w.PacketNumber < ignoreBelow)
    <2>1. /\ w.PacketNumber \in 1 .. lastSentPacketNumber /\ w.PacketNumber \in Nat /\ ignoreBelow \in Nat
          /\ w.LeastUnacked \in Nat /\ w.LeastUnacked <= w.PacketNumber /\ lastSentPacketNumber \in Nat
          /\ \A p \in packetHistory : p.PacketNumber = w.PacketNumber => p.Frames = w.Frames
        <3>1. /\ w.PacketNumber \in 1 .. lastSentPacketNumber /\ ignoreBelow \in Nat /\ w.LeastUnacked \in Nat
              /\ w.LeastUnacked <= w.PacketNumber
              /\ \A p \in packetHistory : p.PacketNumber = w.PacketNumber => p.Frames = w.Frames
            BY <1>1, Zenon DEF NetAt
        <3>2. lastSentPacketNumber \in Nat
            BY Zenon DEF NetInv, StopInv
        <3> QED BY <3>1, <3>2, InRangeIsNat, Zenon
    <2>2. ignoreBelow' \in Nat /\ ignoreBelow' <= w.PacketNumber
        <3>1. \E x \in {ignoreBelow, w.LeastUnacked} : \A y \in {ignoreBelow, w.LeastUnacked} : x >= y
            BY <2>1
        <3>2. Max({ignoreBelow, w.LeastUnacked}) \in {ignoreBelow, w.LeastUnacked}
            BY <3>1 DEF Max
        <3> QED BY <1>4, <2>1, <3>2
    <2>3. received' \in SUBSET (1 .. lastSentPacketNumber) /\ w.PacketNumber \in received'
        BY <1>1, <1>4, <2>1, <2>2, Zenon DEF NetAt
    <2>4. ackDue' \in BOOLEAN /\ ackDue'
        BY <1>4, Zenon
    <2>5. got \subseteq got' /\ w.Frames \subseteq got'
        BY <1>4
    <2>6. \A p \in packetHistory : p.PacketNumber \in received' => p.Frames \subseteq got'
        BY <1>1, <1>4, <2>1, <2>5 DEF NetAt
    <2>7. \A a \in ackWire : \A p \in packetHistory : p.PacketNumber \in a.Acked => p.Frames \subseteq got'
        BY <1>1, <2>5 DEF NetAt
    <2> QED BY <1>1, <1>2, <2>2, <2>3, <2>4, <2>5, <2>6, <2>7 DEF NetAt
<1> QED BY <1>3, <1>4

LEMMA PeerAcksKeepsNet == NetInv /\ PeerAcks => NetAt'
<1> SUFFICES ASSUME NetInv, PeerAcks PROVE NetAt'
    OBVIOUS
<1> DEFINE a == [Acked |-> received, PacketNumber |-> peerSent + 1]
<1>1. /\ ackDue /\ peerSent < MaxAcks /\ peerSent' = peerSent + 1 /\ ackWire' = ackWire \cup {a}
      /\ ackDue' = FALSE /\ UNCHANGED <<vars, peer, wire, received, ignoreBelow, got>>
    BY DEF PeerAcks
<1>2. UNCHANGED <<lastSentPacketNumber, skippedPackets, packetHistory, acked>>
    BY <1>1 DEF vars, handlerVars
<1>3. NetAt /\ peer = "honest" /\ received # {}
    BY <1>1 DEF NetInv, NetAt
<1>4. a.Acked = received /\ a.PacketNumber \in 1 .. MaxAcks /\ peerSent' \in 0 .. MaxAcks
    BY <1>1, <1>3, SentPacketsAssumption DEF NetAt
<1>5. ackDue' \in BOOLEAN /\ ~ackDue'
    BY <1>1, Zenon
<1> HIDE DEF a
<1>6. \A b \in ackWire' : /\ b.PacketNumber \in 1 .. MaxAcks
                          /\ b.Acked \in SUBSET (1 .. lastSentPacketNumber) /\ b.Acked # {}
                          /\ \A p \in packetHistory : p.PacketNumber \in b.Acked => p.Frames \subseteq got
    BY <1>1, <1>3, <1>4, Zenon DEF NetAt
<1> QED BY <1>1, <1>2, <1>3, <1>4, <1>5, <1>6 DEF NetAt

LEMMA NetInvNext == NetInv /\ [NetNext]_allVars => NetInv'
<1> SUFFICES ASSUME NetInv, [NetNext]_allVars PROVE NetInv'
    OBVIOUS
<1>1. StopInv' /\ FlightInv'
    BY NetStep, StopNext, FlightNext DEF NetInv
<1>2. NetAt /\ lastSentPacketNumber' \in Nat
    BY <1>1 DEF NetInv, StopInv
<1>3. CASE Lose
    <2>1. wire' \subseteq wire /\ ackWire' \subseteq ackWire
        BY <1>3 DEF Lose
    <2>2. UNCHANGED <<lastSentPacketNumber, skippedPackets, packetHistory, acked>>
        BY <1>3 DEF Lose, vars, handlerVars
    <2>3. UNCHANGED <<peer, received, ignoreBelow, got, ackDue, peerSent>>
        BY <1>3 DEF Lose
    <2>4. NetAt'
        BY <1>2, <2>1, <2>2, <2>3 DEF NetAt
    <2> QED BY <1>1, <2>4 DEF NetInv
<1>4. CASE ArbitraryStep
    <2>1. peer = "arbitrary" /\ UNCHANGED <<peer, wire, ackWire, received, ignoreBelow, got, ackDue, peerSent>>
        BY <1>4 DEF ArbitraryStep, netVars
    <2>2. NetAt'
        BY <1>2, <2>1, Zenon DEF NetAt
    <2> QED BY <1>1, <2>2 DEF NetInv
<1>5. CASE UNCHANGED allVars
    <2>1. UNCHANGED <<lastSentPacketNumber, skippedPackets, packetHistory, acked>>
        BY <1>5 DEF allVars, vars, handlerVars
    <2>2. UNCHANGED <<peer, wire, ackWire, received, ignoreBelow, got, ackDue, peerSent>>
        BY <1>5 DEF allVars, netVars
    <2>3. NetAt'
        BY <1>2, <2>1, <2>2 DEF NetAt
    <2> QED BY <1>1, <2>3 DEF NetInv
<1> QED BY <1>1, <1>2, <1>3, <1>4, <1>5, TimeoutKeepsNet, ReceiveAckKeepsNet, SendKeepsNet,
           PeerReceivesKeepsNet, PeerAcksKeepsNet DEF NetInv, NetNext

\* With a network and a peer the handler still behaves as it does against any
\* peer: what is proved of Spec holds of NetSpec.
THEOREM NetRefinesHandler == NetSpec => Spec
<1>1. NetInit => Init
    BY DEF NetInit
<1> QED BY <1>1, NetInvInit, NetInvNext, NetStep, PTL DEF NetSpec, Spec

\* ACKs of an honest peer are never refused and acknowledge only what the peer
\* has processed; bytesInFlight is exact against any peer.
THEOREM AcksAreHandledRight == NetSpec => []AcksAreUsedRight
<1>1. NetInv => AcksAreUsedRight
    <2> SUFFICES ASSUME NetInv PROVE AcksAreUsedRight
        OBVIOUS
    <2>1. bytesInFlight = Flight(packetHistory)
        BY DEF NetInv, FlightInv
    <2>2. peer = "honest" => acked \subseteq got
        BY DEF NetInv, NetAt
    <2>3. ASSUME NEW a \in ackWire PROVE ~Refused(a.Acked, a.PacketNumber)
        <3>1. skippedPackets = {} /\ a.Acked \in SUBSET (1 .. lastSentPacketNumber) /\ a.Acked # {}
              /\ lastSentPacketNumber \in Nat
            BY DEF NetInv, NetAt, StopInv
        <3> DEFINE ack == a.Acked
                   m == Max(ack)
        <3> HIDE DEF ack
        <3>2. m \in ack /\ ack \in SUBSET (1 .. lastSentPacketNumber)
            BY <3>1, MaxIsGreatest, Zenon DEF ack
        <3> HIDE DEF m
        <3>3. ~(m > lastSentPacketNumber)
            BY <3>1, <3>2
        <3> QED BY <3>1, <3>3 DEF Refused, m, ack
    <2> QED BY <2>1, <2>2, <2>3 DEF AcksAreUsedRight
<1> QED BY <1>1, NetInvInit, NetInvNext, PTL DEF NetSpec
=============================================================================
