-------------------------- MODULE CongestionProofs --------------------------
(***************************************************************************)
(* Proofs about Congestion for any windows, thresholds, word size, clock   *)
(* and number of packets.                                                  *)
(***************************************************************************)
EXTENDS Congestion, SetLemmas

\* The type of a state of Cubic.
CubicStates ==
    [epoch : Int, appLimitedStartTime : Int, lastUpdateTime : Int,
     lastCongestionWindow : Nat, lastMaxCongestionWindow : Nat, ackedPacketsCount : Nat,
     estimatedTCPcongestionWindow : Nat, originPointCongestionWindow : Nat, timeToOriginPoint : Nat,
     lastTargetCongestionWindow : Nat]

ClockType ==
    /\ now \in Nat /\ minRTT \in Nat
    /\ packetHistory \in [Outstanding -> Nat]

\* The inductive invariant.  The TCP estimate is the floor of what Cubic
\* returns: it is a window once Cubic has computed one or started an epoch.
WindowInv ==
    /\ ClockType /\ cubic \in CubicStates
    /\ WindowInBounds
    /\ cubic.lastCongestionWindow # 0 \/ cubic.epoch # None
          => MinCongestionWindow <= cubic.estimatedTCPcongestionWindow

LEMMA MinOfTwo ==
    ASSUME NEW a \in Int, NEW b \in Int
    PROVE  Min({a, b}) = IF a <= b THEN a ELSE b
<1>1. \E x \in {a, b} : \A y \in {a, b} : x <= y
    OBVIOUS
<1> QED BY <1>1 DEF Min

LEMMA MaxOfTwo ==
    ASSUME NEW a \in Int, NEW b \in Int
    PROVE  Max({a, b}) = IF a >= b THEN a ELSE b
<1>1. \E x \in {a, b} : \A y \in {a, b} : x >= y
    OBVIOUS
<1> QED BY <1>1 DEF Max

LEMMA CubeRootIsNatural ==
    ASSUME NEW n \in Nat
    PROVE  CubeRoot(n) \in Nat /\ CubeRoot(n) * CubeRoot(n) * CubeRoot(n) <= n
<1> DEFINE S == {r \in 0 .. n : r * r * r <= n}
<1>1. S \in SUBSET (0 .. n) /\ 0 \in S
    OBVIOUS
<1>2. Max(S) \in S
    <2> HIDE DEF S
    <2> QED BY <1>1, MaxOfBounded
<1> QED BY <1>2 DEF CubeRoot

LEMMA TargetIsNatural ==
    ASSUME ClockType, NEW c, c.timeToOriginPoint \in Nat, c.epoch \in Int, c.originPointCongestionWindow \in Nat
    PROVE  Target(c) \in Nat
<1> DEFINE offset == c.timeToOriginPoint - (now + minRTT - c.epoch)
           cube == offset * offset * offset
           delta == cube \div CubeFactor
<1>1. offset \in Int
    BY DEF ClockType
<1>2. cube \in Int
    <2> HIDE DEF offset
    <2> QED BY <1>1
<1>3. delta \in Int
    <2> HIDE DEF cube
    <2> QED BY <1>2, CongestionAssumption
<1>4. (c.originPointCongestionWindow - delta) % Word \in Nat
    <2> HIDE DEF delta
    <2> QED BY <1>3, CongestionAssumption
<1> QED BY <1>4, Zenon DEF Target

\* The window that a target and an estimate give is within the bounds.
LEMMA CappedWindow ==
    ASSUME NEW target \in Nat, NEW estimate \in Nat, MinCongestionWindow <= estimate
    PROVE  Min({MaxCongestionWindow, Max({target, estimate})}) \in MinCongestionWindow .. MaxCongestionWindow
<1>1. Max({target, estimate}) \in Nat /\ MinCongestionWindow <= Max({target, estimate})
    <2>1. Max({target, estimate}) = IF target >= estimate THEN target ELSE estimate
        BY MaxOfTwo
    <2> QED BY <2>1, CongestionAssumption
<1>2. MaxCongestionWindow \in Nat /\ MinCongestionWindow \in Nat /\ MinCongestionWindow <= MaxCongestionWindow
    BY CongestionAssumption
<1>3. ASSUME NEW m \in Nat, MinCongestionWindow <= m
      PROVE  Min({MaxCongestionWindow, m}) \in MinCongestionWindow .. MaxCongestionWindow
    <2>1. Min({MaxCongestionWindow, m}) = IF MaxCongestionWindow <= m THEN MaxCongestionWindow ELSE m
        BY <1>2, MinOfTwo
    <2> QED BY <2>1, <1>2, <1>3
<1> QED BY <1>1, <1>3

LEMMA ReducedIsBounded ==
    ASSUME NEW w \in Nat
    PROVE  Reduced(w) \in Nat /\ Reduced(w) <= w
BY DEF Reduced

LEMMA WindowAfterLossInBounds ==
    ASSUME WindowInBounds, NEW p
    PROVE  WindowAfterLoss(p) \in MinCongestionWindow .. MaxCongestionWindow
<1>1. CASE IsNewLoss(p)
    <2>1. congestionWindow \in Nat /\ MinCongestionWindow \in Nat /\ MaxCongestionWindow \in Nat
        BY CongestionAssumption DEF WindowInBounds
    <2>2. Reduced(congestionWindow) \in Nat /\ Reduced(congestionWindow) <= congestionWindow
        BY <2>1, ReducedIsBounded
    <2>3. Max({Reduced(congestionWindow), MinCongestionWindow})
              = IF Reduced(congestionWindow) >= MinCongestionWindow THEN Reduced(congestionWindow)
                ELSE MinCongestionWindow
        BY <2>1, <2>2, MaxOfTwo
    <2> QED BY <1>1, <2>1, <2>2, <2>3, CongestionAssumption DEF WindowAfterLoss, WindowInBounds
<1>2. CASE ~IsNewLoss(p)
    BY <1>2 DEF WindowAfterLoss, WindowInBounds
<1> QED BY <1>1, <1>2

\* What an ACK writes keeps the type of the state of Cubic.
EpochWritten(c, e, a, w, t, o) ==
    [c EXCEPT !.epoch = e, !.ackedPacketsCount = a, !.estimatedTCPcongestionWindow = w,
              !.timeToOriginPoint = t, !.originPointCongestionWindow = o]
TargetWritten(c, l, u, w, a, t) ==
    [c EXCEPT !.lastCongestionWindow = l, !.lastUpdateTime = u, !.estimatedTCPcongestionWindow = w,
              !.ackedPacketsCount = a, !.lastTargetCongestionWindow = t]

LEMMA EpochWrittenType ==
    ASSUME NEW c \in CubicStates, NEW e \in Int, NEW a \in Nat, NEW w \in Nat, NEW t \in Nat, NEW o \in Nat
    PROVE  EpochWritten(c, e, a, w, t, o) \in CubicStates
BY DEF CubicStates, EpochWritten

LEMMA TargetWrittenType ==
    ASSUME NEW c \in CubicStates, NEW l \in Nat, NEW u \in Int, NEW w \in Nat, NEW a \in Nat, NEW t \in Nat
    PROVE  TargetWritten(c, l, u, w, a, t) \in CubicStates
BY DEF CubicStates, TargetWritten

LEMMA WrittenEstimate ==
    ASSUME NEW c \in CubicStates, NEW v1, NEW v2, NEW w, NEW v3, NEW v4
    PROVE  /\ EpochWritten(c, v1, v2, w, v3, v4).estimatedTCPcongestionWindow = w
           /\ TargetWritten(c, v1, v2, w, v3, v4).estimatedTCPcongestionWindow = w
BY DEF CubicStates, EpochWritten, TargetWritten

LEMMA EpochIsWellFormed ==
    ASSUME WindowInv
    PROVE  Epoch \in CubicStates /\ MinCongestionWindow <= Epoch.estimatedTCPcongestionWindow
<1>1. cubic \in CubicStates /\ now \in Nat /\ None \in Int
    BY DEF WindowInv, ClockType, CubicStates, None
<1>2. congestionWindow \in Nat /\ MinCongestionWindow \in Nat /\ MinCongestionWindow <= congestionWindow
    BY CongestionAssumption DEF WindowInv, WindowInBounds
<1>3. CASE cubic.epoch = None
    <2> DEFINE max == cubic.lastMaxCongestionWindow
               time == IF max <= congestionWindow THEN 0 ELSE CubeRoot(CubeFactor * (max - congestionWindow))
               origin == IF max <= congestionWindow THEN congestionWindow ELSE max
    <2>1. max \in Nat
        BY <1>1 DEF CubicStates
    <2>2. time \in Nat
        <3>1. CASE max <= congestionWindow
            BY <3>1
        <3>2. CASE ~(max <= congestionWindow)
            <4>1. CubeFactor * (max - congestionWindow) \in Nat
                <5>1. max - congestionWindow \in Nat /\ CubeFactor \in Nat
                    BY <2>1, <1>2, <3>2, CongestionAssumption
                <5> QED BY <5>1
            <4> QED BY <4>1, <3>2, CubeRootIsNatural
        <3> QED BY <3>1, <3>2
    <2>3. origin \in Nat
        BY <2>1, <1>2
    <2>4. Epoch = EpochWritten(cubic, now, 1, congestionWindow, time, origin)
        BY <1>3, Zenon DEF Epoch, StartEpoch, EpochWritten
    <2> HIDE DEF time, origin
    <2>5. now \in Int /\ 1 \in Nat
        BY <1>1
    <2>6. Epoch \in CubicStates /\ Epoch.estimatedTCPcongestionWindow = congestionWindow
        <3>1. EpochWritten(cubic, now, 1, congestionWindow, time, origin) \in CubicStates
            BY <1>1, <1>2, <2>2, <2>3, <2>5, EpochWrittenType, Zenon
        <3>2. EpochWritten(cubic, now, 1, congestionWindow, time, origin).estimatedTCPcongestionWindow = congestionWindow
            BY <1>1, WrittenEstimate
        <3> QED BY <2>4, <3>1, <3>2
    <2> QED BY <1>2, <2>6
<1>4. CASE cubic.epoch # None
    <2> DEFINE epoch == IF cubic.appLimitedStartTime = None THEN cubic.epoch
                        ELSE cubic.epoch + (now - cubic.appLimitedStartTime)
    <2>1. epoch \in Int /\ cubic.ackedPacketsCount + 1 \in Nat
        BY <1>1 DEF CubicStates
    <2>2. Epoch = [cubic EXCEPT !.ackedPacketsCount = cubic.ackedPacketsCount + 1,
                                !.appLimitedStartTime = None, !.epoch = epoch]
        BY <1>1, <1>4 DEF Epoch, ContinueEpoch, CubicStates
    <2>3. MinCongestionWindow <= cubic.estimatedTCPcongestionWindow
        BY <1>4 DEF WindowInv
    <2> HIDE DEF epoch
    <2> QED BY <1>1, <2>1, <2>2, <2>3 DEF CubicStates
<1> QED BY <1>3, <1>4

\* CongestionWindowAfterAck returns a window, whatever its target is.
LEMMA AfterAckPreserves ==
    ASSUME WindowInv, AfterAck
    PROVE  /\ cubic' \in CubicStates
           /\ congestionWindow' \in MinCongestionWindow .. MaxCongestionWindow
           /\ MinCongestionWindow <= cubic'.estimatedTCPcongestionWindow
<1>1. cubic \in CubicStates /\ now \in Nat
    BY DEF WindowInv, ClockType, CubicStates
<1>2. congestionWindow \in Nat /\ MinCongestionWindow \in Nat /\ 2 <= MinCongestionWindow /\ MinCongestionWindow <= congestionWindow
    BY CongestionAssumption DEF WindowInv, WindowInBounds
<1>3. CASE JustUpdated
    <2>1. MinCongestionWindow <= cubic.estimatedTCPcongestionWindow
        BY <1>2, <1>3 DEF JustUpdated, WindowInv
    <2>2. /\ cubic' = [cubic EXCEPT !.ackedPacketsCount = cubic.ackedPacketsCount + 1]
          /\ congestionWindow' = Min({MaxCongestionWindow, Max({cubic.lastTargetCongestionWindow,
                                                                cubic.estimatedTCPcongestionWindow})})
        BY <1>1, <1>3 DEF AfterAck, CubicStates
    <2>3. cubic.lastTargetCongestionWindow \in Nat /\ cubic.estimatedTCPcongestionWindow \in Nat
        BY <1>1 DEF CubicStates
    <2>4. congestionWindow' \in MinCongestionWindow .. MaxCongestionWindow
        BY <2>1, <2>2, <2>3, CappedWindow
    <2> QED BY <1>1, <2>1, <2>2, <2>4 DEF CubicStates
<1>4. CASE ~JustUpdated
    <2>1. Epoch \in CubicStates /\ MinCongestionWindow <= Epoch.estimatedTCPcongestionWindow
        BY EpochIsWellFormed
    <2>2. PICK left \in 0 .. Epoch.ackedPacketsCount :
             \E estimate \in Epoch.estimatedTCPcongestionWindow
                             .. (Epoch.estimatedTCPcongestionWindow + Epoch.ackedPacketsCount) :
                /\ cubic' = TargetWritten(Epoch, congestionWindow, now, estimate, left, Target(Epoch))
                /\ congestionWindow' = Min({MaxCongestionWindow, Max({Target(Epoch), estimate})})
        BY <1>4, Zenon DEF AfterAck, TargetWritten
    <2>3. PICK estimate \in Epoch.estimatedTCPcongestionWindow
                             .. (Epoch.estimatedTCPcongestionWindow + Epoch.ackedPacketsCount) :
                /\ cubic' = TargetWritten(Epoch, congestionWindow, now, estimate, left, Target(Epoch))
                /\ congestionWindow' = Min({MaxCongestionWindow, Max({Target(Epoch), estimate})})
        BY <2>2, Zenon
    <2>4. Epoch.estimatedTCPcongestionWindow \in Nat /\ Epoch.ackedPacketsCount \in Nat
        BY <2>1 DEF CubicStates
    <2>5. estimate \in Nat /\ MinCongestionWindow <= estimate /\ left \in Nat
        BY <2>1, <2>4, <1>2
    <2>6. Target(Epoch) \in Nat
        <3>1. Epoch.timeToOriginPoint \in Nat /\ Epoch.epoch \in Int /\ Epoch.originPointCongestionWindow \in Nat
            BY <2>1 DEF CubicStates
        <3>2. ClockType
            BY DEF WindowInv
        <3> QED BY <3>1, <3>2, TargetIsNatural
    <2>7. congestionWindow' \in MinCongestionWindow .. MaxCongestionWindow
        BY <2>3, <2>5, <2>6, CappedWindow
    <2>8. cubic' \in CubicStates /\ cubic'.estimatedTCPcongestionWindow = estimate
        <3>1. now \in Int
            BY <1>1
        <3>2. TargetWritten(Epoch, congestionWindow, now, estimate, left, Target(Epoch)) \in CubicStates
            BY <3>1, <1>2, <2>1, <2>5, <2>6, TargetWrittenType, Zenon
        <3>3. TargetWritten(Epoch, congestionWindow, now, estimate, left, Target(Epoch)).estimatedTCPcongestionWindow
                  = estimate
            BY <2>1, WrittenEstimate
        <3> QED BY <2>3, <3>2, <3>3
    <2> QED BY <2>5, <2>7, <2>8
<1> QED BY <1>3, <1>4

LEMMA WindowInit == Init => WindowInv
<1> SUFFICES ASSUME Init PROVE WindowInv
    OBVIOUS
<1>1. ClockType
    BY DEF Init, ClockType, Outstanding
<1>2. cubic \in CubicStates /\ cubic.lastCongestionWindow = 0 /\ cubic.epoch = None
    BY DEF Init, Reset, CubicStates, None
<1>3. WindowInBounds
    BY CongestionAssumption DEF Init, WindowInBounds
<1> QED BY <1>1, <1>2, <1>3 DEF WindowInv

\* A step that neither computes a window nor samples an RTT.
LEMMA WindowUnchanged ==
    ASSUME WindowInv, UNCHANGED <<now, packetHistory, minRTT, congestionWindow, cubic>>
    PROVE  WindowInv'
BY DEF WindowInv, ClockType, WindowInBounds, Outstanding, CubicStates, None

LEMMA RestrictedHistory ==
    ASSUME ClockType, NEW S \in SUBSET Outstanding, packetHistory' = Restrict(packetHistory, S)
    PROVE  packetHistory' \in [Outstanding' -> Nat]
BY DEF ClockType, Restrict, Outstanding

LEMMA UpdateRTTPreserves ==
    ASSUME minRTT \in Nat, NEW sendDelta \in Int, NEW ackDelay, UpdateRTT(sendDelta, ackDelay)
    PROVE  minRTT' \in Nat
<1>1. CASE sendDelta <= 0
    BY <1>1 DEF UpdateRTT, rttVars
<1>2. CASE ~(sendDelta <= 0)
    <2>1. minRTT' = IF minRTT = 0 THEN sendDelta ELSE Min({minRTT, sendDelta})
        BY <1>2 DEF UpdateRTT
    <2>2. Min({minRTT, sendDelta}) \in {minRTT, sendDelta}
        BY MinOfTwo
    <2> QED BY <1>2, <2>1, <2>2
<1> QED BY <1>1, <1>2

LEMMA WindowReceivedAck ==
    ASSUME WindowInv, NEW LargestAcked, NEW newlyAcked, NEW lostUpTo, NEW ackDelay,
           ReceivedAck(LargestAcked, newlyAcked, lostUpTo, ackDelay)
    PROVE  WindowInv'
<1> DEFINE lost == {p \in Outstanding \ newlyAcked : p <= lostUpTo}
<1>1. ClockType
    BY DEF WindowInv
<1>2. packetHistory' \in [Outstanding' -> Nat]
    <2>1. packetHistory' = Restrict(packetHistory, Outstanding \ (newlyAcked \cup lost))
        BY Zenon DEF ReceivedAck
    <2>2. Outstanding \ (newlyAcked \cup lost) \in SUBSET Outstanding
        OBVIOUS
    <2> HIDE DEF lost
    <2> QED BY <1>1, <2>1, <2>2, RestrictedHistory
<1>3. minRTT' \in Nat
    <2>1. CASE LargestAcked \in Outstanding
        <3>1. UpdateRTT(now - packetHistory[LargestAcked], ackDelay)
            BY <2>1, Zenon DEF ReceivedAck
        <3>2. now - packetHistory[LargestAcked] \in Int
            BY <1>1, <2>1 DEF ClockType
        <3> QED BY <1>1, <3>1, <3>2, UpdateRTTPreserves DEF ClockType
    <2>2. CASE LargestAcked \notin Outstanding
        BY <1>1, <2>2 DEF ReceivedAck, rttVars, ClockType
    <2> QED BY <2>1, <2>2
<1>4. UNCHANGED <<now, congestionWindow, cubic>>
    BY Zenon DEF ReceivedAck
<1>5. ClockType'
    BY <1>1, <1>2, <1>3, <1>4 DEF ClockType
<1> QED BY <1>4, <1>5 DEF WindowInv, WindowInBounds, CubicStates, None

LEMMA WindowOnPacketLost ==
    ASSUME WindowInv, OnPacketLost
    PROVE  WindowInv'
<1> DEFINE packetNumber == Min(lostPackets)
<1>1. ClockType'
    BY DEF WindowInv, ClockType, OnPacketLost, rttVars, Outstanding
<1>2. WindowInBounds'
    <2>1. congestionWindow' = WindowAfterLoss(packetNumber)
        BY Zenon DEF OnPacketLost
    <2> HIDE DEF packetNumber
    <2>2. congestionWindow' \in MinCongestionWindow .. MaxCongestionWindow
        BY <2>1, WindowAfterLossInBounds DEF WindowInv
    <2> QED BY <2>2 DEF WindowInBounds
<1>3. cubic' \in CubicStates /\ (cubic'.lastCongestionWindow # 0 \/ cubic'.epoch # None
                                    => MinCongestionWindow <= cubic'.estimatedTCPcongestionWindow)
    <2>1. CASE cubic' = cubic
        BY <2>1 DEF WindowInv
    <2>2. CASE cubic' = AfterPacketLoss
        <3> DEFINE max == IF congestionWindow < cubic.lastMaxCongestionWindow THEN Reduced(congestionWindow)
                          ELSE congestionWindow
        <3>1. cubic \in CubicStates /\ None \in Int
            BY DEF WindowInv, None
        <3>2. congestionWindow \in Nat
            BY CongestionAssumption DEF WindowInv, WindowInBounds
        <3>3. max \in Nat
            BY <3>2, ReducedIsBounded
        <3>4. cubic' = [cubic EXCEPT !.epoch = None, !.lastMaxCongestionWindow = max]
            BY <2>2, <3>1 DEF AfterPacketLoss, CubicStates
        <3> HIDE DEF max
        <3>5. /\ cubic' \in CubicStates
              /\ cubic'.lastCongestionWindow = cubic.lastCongestionWindow
              /\ cubic'.epoch = None
              /\ cubic'.estimatedTCPcongestionWindow = cubic.estimatedTCPcongestionWindow
            BY <3>1, <3>3, <3>4 DEF CubicStates
        <3> QED BY <3>5 DEF WindowInv
    <2> QED BY <2>1, <2>2, Zenon DEF OnPacketLost
<1> QED BY <1>1, <1>2, <1>3 DEF WindowInv

LEMMA WindowOnPacketAcked ==
    ASSUME WindowInv, OnPacketAcked
    PROVE  WindowInv'
<1>1. UNCHANGED <<now, packetHistory, minRTT>>
    BY DEF OnPacketAcked, rttVars
<1>2. ClockType'
    BY <1>1 DEF WindowInv, ClockType, Outstanding
<1>3. CASE UNCHANGED <<cubic, congestionWindow>>
    BY <1>1, <1>3, WindowUnchanged
<1>4. CASE cubic' = OnApplicationLimited /\ UNCHANGED congestionWindow
    <2> DEFINE start == IF cubic.appLimitedStartTime = None THEN now ELSE cubic.appLimitedStartTime
    <2>1. cubic \in CubicStates /\ start \in Int
        BY DEF WindowInv, ClockType, CubicStates
    <2>2. cubic' = [cubic EXCEPT !.appLimitedStartTime = start]
        BY <1>4, <2>1 DEF OnApplicationLimited, CubicStates
    <2> HIDE DEF start
    <2>3. /\ cubic' \in CubicStates
          /\ cubic'.lastCongestionWindow = cubic.lastCongestionWindow /\ cubic'.epoch = cubic.epoch
          /\ cubic'.estimatedTCPcongestionWindow = cubic.estimatedTCPcongestionWindow
        BY <2>1, <2>2 DEF CubicStates
    <2> QED BY <1>2, <1>4, <2>3 DEF WindowInv, WindowInBounds
<1>5. CASE congestionWindow < MaxCongestionWindow /\ congestionWindow' = congestionWindow + 1 /\ UNCHANGED cubic
    <2>1. WindowInBounds'
        BY <1>5, CongestionAssumption DEF WindowInv, WindowInBounds
    <2> QED BY <1>2, <1>5, <2>1 DEF WindowInv
<1>6. CASE AfterAck
    <2>1. /\ cubic' \in CubicStates
          /\ congestionWindow' \in MinCongestionWindow .. MaxCongestionWindow
          /\ MinCongestionWindow <= cubic'.estimatedTCPcongestionWindow
        BY <1>6, AfterAckPreserves
    <2> QED BY <1>2, <2>1 DEF WindowInv, WindowInBounds
<1> QED BY <1>3, <1>4, <1>5, <1>6, Zenon DEF OnPacketAcked, MaybeIncreaseCwnd

LEMMA WindowQueueRTO ==
    ASSUME WindowInv, QueueRTO
    PROVE  WindowInv'
<1> DEFINE packetNumber == Min(Outstanding)
<1>1. packetHistory' \in [Outstanding' -> Nat]
    <2>1. packetHistory' = Restrict(packetHistory, Outstanding \ {packetNumber})
        BY Zenon DEF QueueRTO
    <2>2. ClockType /\ Outstanding \ {packetNumber} \in SUBSET Outstanding
        BY DEF WindowInv
    <2> HIDE DEF packetNumber
    <2> QED BY <2>1, <2>2, RestrictedHistory
<1>2. UNCHANGED <<now, minRTT>> /\ congestionWindow' = MinCongestionWindow /\ cubic' = Reset
    BY DEF QueueRTO, rttVars
<1>3. ClockType'
    BY <1>1, <1>2 DEF WindowInv, ClockType
<1>4. cubic' \in CubicStates /\ cubic'.lastCongestionWindow = 0 /\ cubic'.epoch = None
    BY <1>2 DEF Reset, CubicStates, None
<1>5. WindowInBounds'
    BY <1>2, CongestionAssumption DEF WindowInBounds
<1> QED BY <1>3, <1>4, <1>5 DEF WindowInv

LEMMA WindowSendPacket ==
    ASSUME WindowInv, SendPacket
    PROVE  WindowInv'
<1>1. packetHistory' \in [Outstanding' -> Nat]
    BY DEF WindowInv, ClockType, SendPacket, Outstanding
<1>2. UNCHANGED <<now, minRTT, congestionWindow, cubic>>
    BY DEF SendPacket, rttVars
<1>3. ClockType'
    BY <1>1, <1>2 DEF WindowInv, ClockType
<1> QED BY <1>2, <1>3 DEF WindowInv, WindowInBounds

LEMMA WindowNext == WindowInv /\ [Next]_vars => WindowInv'
<1> SUFFICES ASSUME WindowInv, [Next]_vars PROVE WindowInv'
    OBVIOUS
<1>1. CASE Tick
    <2>1. ClockType'
        BY <1>1 DEF WindowInv, ClockType, Tick, rttVars, Outstanding
    <2>2. UNCHANGED <<congestionWindow, cubic>>
        BY <1>1 DEF Tick, senderVars
    <2> QED BY <2>1, <2>2 DEF WindowInv, WindowInBounds
<1>2. CASE SendPacket
    BY <1>2, WindowSendPacket
<1>3. ASSUME NEW LargestAcked, NEW newlyAcked, NEW lostUpTo, NEW ackDelay,
             ReceivedAck(LargestAcked, newlyAcked, lostUpTo, ackDelay)
      PROVE  WindowInv'
    BY <1>3, WindowReceivedAck
<1>4. CASE OnPacketLost
    BY <1>4, WindowOnPacketLost
<1>5. CASE OnPacketAcked
    BY <1>5, WindowOnPacketAcked
<1>6. CASE MaybeQueueRTOs
    BY <1>6, WindowUnchanged DEF MaybeQueueRTOs, senderVars, rttVars
<1>7. CASE QueueRTO
    BY <1>7, WindowQueueRTO
<1>8. CASE UNCHANGED vars
    BY <1>8, WindowUnchanged DEF vars, senderVars, rttVars
<1> QED BY <1>1, <1>2, <1>3, <1>4, <1>5, <1>6, <1>7, <1>8, Zenon DEF Next

THEOREM CongestionInvariant == Spec => []WindowInv
BY WindowInit, WindowNext, PTL DEF Spec

\* The window stays within its bounds for every choice of the constants: the
\* floor comes from the TCP estimate and from MinCongestionWindow, and no
\* value of the cubic target, wrapped or not, matters for it.
THEOREM WindowStaysInBounds == Spec => []WindowInBounds
<1>1. WindowInv => WindowInBounds
    BY DEF WindowInv
<1> QED BY <1>1, CongestionInvariant, PTL

-----------------------------------------------------------------------------
(* One cutback per loss event *)

\* Without a timeout since, largestSentAtLastCutback remembers the last cut.
CutbackInv == cutback.timeout \/ cutback.at = largestSentAtLastCutback

LEMMA CutbackInit == Init => CutbackInv
BY DEF Init, CutbackInv

LEMMA CutbackNext == CutbackInv /\ [Next]_vars => CutbackInv'
<1> SUFFICES ASSUME CutbackInv, [Next]_vars PROVE CutbackInv'
    OBVIOUS
<1>1. CASE UNCHANGED <<cutback, largestSentAtLastCutback>>
    BY <1>1, Zenon DEF CutbackInv
<1>2. CASE OnPacketLost
    BY <1>2 DEF OnPacketLost, CutbackInv
<1>3. CASE QueueRTO
    BY <1>3 DEF QueueRTO, CutbackInv
<1>4. CASE Tick \/ SendPacket \/ OnPacketAcked \/ MaybeQueueRTOs \/ UNCHANGED vars
    BY <1>1, <1>4, Zenon DEF Tick, SendPacket, OnPacketAcked, MaybeQueueRTOs, vars, senderVars
<1>5. ASSUME NEW LargestAcked, NEW newlyAcked, NEW lostUpTo, NEW ackDelay,
             ReceivedAck(LargestAcked, newlyAcked, lostUpTo, ackDelay)
      PROVE  UNCHANGED <<cutback, largestSentAtLastCutback>>
    BY <1>5, Zenon DEF ReceivedAck
<1> QED BY <1>1, <1>2, <1>3, <1>4, <1>5, Zenon DEF Next

THEOREM CutbackInvariant == Spec => []CutbackInv
BY CutbackInit, CutbackNext, PTL DEF Spec

\* The losses of one flight lower the window once: what onPacketLost compares
\* with is the largest packet sent at the last cut, unless a timeout reset it.
THEOREM OneCutPerLossEvent == Spec => SingleLossEvent
<1>1. ASSUME WindowInv, CutbackInv, OnPacketLost, congestionWindow' < congestionWindow
      PROVE  Min(lostPackets) > cutback.at \/ cutback.timeout
    <2> DEFINE packetNumber == Min(lostPackets)
    <2>1. congestionWindow' = WindowAfterLoss(packetNumber)
        BY <1>1, Zenon DEF OnPacketLost
    <2>2. congestionWindow \in Nat
        BY <1>1, CongestionAssumption DEF WindowInv, WindowInBounds
    <2>3. IsNewLoss(packetNumber)
        <3> HIDE DEF packetNumber
        <3> QED BY <1>1, <2>1, <2>2 DEF WindowAfterLoss
    <2> QED BY <1>1, <2>3 DEF IsNewLoss, CutbackInv
<1>2. WindowInv /\ CutbackInv /\ [Next]_vars
        => [OnPacketLost /\ congestionWindow' < congestionWindow
               => Min(lostPackets) > cutback.at \/ cutback.timeout]_vars
    BY <1>1
<1> QED BY <1>2, CongestionInvariant, CutbackInvariant, PTL DEF Spec, SingleLossEvent

-----------------------------------------------------------------------------
(* Arithmetic of the cubic curve *)

LEMMA ProductsGrow ==
    ASSUME NEW a \in Int, NEW b \in Int, NEW c \in Nat, a <= b
    PROVE  a * c <= b * c
OBVIOUS

LEMMA CubesGrow ==
    ASSUME NEW a \in Nat, NEW b \in Nat, a <= b
    PROVE  a * a * a <= b * b * b
<1>1. a * a \in Nat /\ b * b \in Nat /\ a * b \in Nat
    OBVIOUS
<1>2. a * a <= b * a /\ a * b <= b * b /\ a * b = b * a
    BY ProductsGrow
<1>3. a * a <= b * b
    BY <1>1, <1>2
<1>4. (a * a) * a <= (b * b) * a
    BY <1>1, <1>3, ProductsGrow
<1>5. a * (b * b) <= b * (b * b)
    BY <1>1, ProductsGrow
<1>6. (b * b) * a = a * (b * b) /\ (b * b) * b = b * (b * b)
    OBVIOUS
<1>7. (a * a) * a \in Int /\ (b * b) * a \in Int /\ (b * b) * b \in Int
    BY <1>1
<1> QED BY <1>4, <1>5, <1>6, <1>7

LEMMA QuotientBounds ==
    ASSUME NEW n \in Int, NEW f \in Nat \ {0}, NEW u \in Int, NEW k \in Nat, n <= f * u, -k <= n
    PROVE  n \div f \in Int /\ n \div f <= u /\ -k <= n \div f
<1> DEFINE q == n \div f
<1>1. q \in Int /\ f * q <= n /\ n < f * (q + 1)
    OBVIOUS
<1> HIDE DEF q
<1>2. ASSUME u + 1 <= q PROVE FALSE
    <2>1. (u + 1) * f <= q * f
        BY <1>1, <1>2, ProductsGrow
    <2>2. (u + 1) * f = f * u + f /\ q * f = f * q
        BY <1>1
    <2>3. f * u \in Int /\ f * q \in Int
        BY <1>1
    <2> QED BY <1>1, <2>1, <2>2, <2>3
<1>3. ASSUME q + 1 <= -k PROVE FALSE
    <2>1. (q + 1) * f <= (-k) * f
        BY <1>1, <1>3, ProductsGrow
    <2>2. 1 * k <= f * k
        BY ProductsGrow
    <2>3. (-k) * f = -(f * k) /\ (q + 1) * f = f * (q + 1) /\ f * k \in Int /\ f * (q + 1) \in Int
        BY <1>1
    <2> QED BY <1>1, <2>1, <2>2, <2>3
<1>4. q <= u /\ -k <= q
    BY <1>1, <1>2, <1>3
<1> QED BY <1>1, <1>4 DEF q

\* A point of the curve, t ticks before its origin at the start and e ticks later.
LEMMA CurveBounds ==
    ASSUME NEW t \in Nat, NEW e \in Nat, NEW m \in Nat, e <= m, NEW f \in Nat \ {0}, NEW u \in Nat, t * t * t <= f * u
    PROVE  LET d == t - e IN /\ (d * d * d) \div f \in Int
                             /\ (d * d * d) \div f <= u
                             /\ -(m * m * m) <= (d * d * d) \div f
<1> DEFINE d == t - e
           n == d * d * d
           k == m * m * m
<1>1. d \in Int /\ d <= t /\ -m <= d
    OBVIOUS
<1>2. t * t * t \in Nat /\ m * m * m \in Nat /\ f * u \in Nat
    OBVIOUS
<1> HIDE DEF d
<1>3. n \in Int
    BY <1>1
<1>4. n <= t * t * t /\ -k <= n
    <2>1. CASE d >= 0
        <3>1. d \in Nat
            BY <1>1, <2>1
        <3>2. d * d * d <= t * t * t /\ d * d * d \in Nat
            BY <1>1, <3>1, CubesGrow
        <3> QED BY <1>2, <3>2
    <2>2. CASE d < 0
        <3> DEFINE c == -d
        <3>1. c \in Nat /\ c <= m /\ d = -c
            BY <1>1, <2>2
        <3> HIDE DEF c
        <3>2. c * c * c <= m * m * m /\ c * c * c \in Nat
            BY <3>1, CubesGrow
        <3>3. d * d * d = -(c * c * c)
            BY <3>1
        <3> QED BY <1>2, <3>2, <3>3
    <2> QED BY <1>1, <2>1, <2>2
<1> HIDE DEF n, k
<1>5. k \in Nat /\ n <= f * u
    BY <1>2, <1>3, <1>4 DEF k
<1>6. n \div f \in Int /\ n \div f <= u /\ -k <= n \div f
    BY <1>3, <1>4, <1>5, QuotientBounds
<1> QED BY <1>6 DEF n, k, d
-----------------------------------------------------------------------------
(* The target of Cubic *)

\* A state of Cubic in the present: its curve starts at a window within the
\* bounds, and neither its epoch nor an application-limited period begins before
\* the clock does; the latter not in the future either.
CurveAt(c) ==
    /\ c.appLimitedStartTime # None => c.appLimitedStartTime \in 0 .. now
    /\ c.lastMaxCongestionWindow <= MaxCongestionWindow
    /\ c.epoch # None =>
        /\ 0 <= c.epoch
        /\ c.originPointCongestionWindow \in MinCongestionWindow .. MaxCongestionWindow
        /\ c.timeToOriginPoint * c.timeToOriginPoint * c.timeToOriginPoint
              <= CubeFactor * (c.originPointCongestionWindow - MinCongestionWindow)

CurveInv == now <= MaxTime /\ minRTT <= MaxTime /\ CurveAt(cubic) /\ TargetOnCurve

LEMMA TargetIsOnCurve ==
    ASSUME WindowInv, CurveInv, NEW c \in CubicStates, CurveAt(c), c.epoch # None, c.epoch <= now
    PROVE  Target(c) \in MinCongestionWindow .. (Word \div 2)
<1> DEFINE t == c.timeToOriginPoint
           e == now + minRTT - c.epoch
           m == 2 * MaxTime
           o == c.originPointCongestionWindow
           u == o - MinCongestionWindow
           q == ((t - e) * (t - e) * (t - e)) \div CubeFactor
<1>1. now \in Nat /\ minRTT \in Nat /\ MaxTime \in Nat /\ now <= MaxTime /\ minRTT <= MaxTime
    BY CongestionAssumption DEF WindowInv, ClockType, CurveInv
<1>2. /\ MinCongestionWindow \in Nat /\ MaxCongestionWindow \in Nat /\ CubeFactor \in Nat \ {0}
      /\ Word \in Nat \ {0}
    BY CongestionAssumption
<1>3. t \in Nat /\ c.epoch \in Int /\ 0 <= c.epoch /\ o \in Nat
    BY DEF CubicStates, CurveAt
<1>4. e \in Nat /\ m \in Nat /\ e <= m
    BY <1>1, <1>3
<1>5. u \in Nat /\ o <= MaxCongestionWindow /\ t * t * t <= CubeFactor * u
    BY <1>2, <1>3 DEF CurveAt
<1>6. MaxCongestionWindow + m * m * m <= Word \div 2
    BY CurveAssumption
<1> HIDE DEF t, e, m, u
<1>7. q \in Int /\ q <= u /\ -(m * m * m) <= q
    BY <1>2, <1>3, <1>4, <1>5, CurveBounds
<1>8. Target(c) = (o - q) % Word
    BY Zenon DEF Target, t, e
<1> HIDE DEF q
<1>9. MinCongestionWindow <= o - q /\ o - q <= Word \div 2
    <2>1. m * m * m \in Nat
        BY <1>4
    <2>2. u = o - MinCongestionWindow
        BY DEF u
    <2> HIDE DEF o
    <2> QED BY <1>2, <1>3, <1>5, <1>6, <1>7, <2>1, <2>2
<1> HIDE DEF o
<1>10. o - q \in 0 .. (Word - 1)
    BY <1>2, <1>3, <1>7, <1>9
<1>11. (o - q) % Word = o - q
    BY <1>2, <1>10
<1> QED BY <1>2, <1>3, <1>7, <1>8, <1>9, <1>11

LEMMA WrittenFields ==
    ASSUME NEW c \in CubicStates, NEW v1, NEW v2, NEW v3, NEW v4, NEW v5
    PROVE  LET e == EpochWritten(c, v1, v2, v3, v4, v5)
               t == TargetWritten(c, v1, v2, v3, v4, v5)
           IN  /\ e.epoch = v1 /\ e.timeToOriginPoint = v4 /\ e.originPointCongestionWindow = v5
               /\ e.appLimitedStartTime = c.appLimitedStartTime
               /\ e.lastMaxCongestionWindow = c.lastMaxCongestionWindow
               /\ t.lastUpdateTime = v2 /\ t.lastTargetCongestionWindow = v5
               /\ t.epoch = c.epoch /\ t.timeToOriginPoint = c.timeToOriginPoint
               /\ t.originPointCongestionWindow = c.originPointCongestionWindow
               /\ t.appLimitedStartTime = c.appLimitedStartTime
               /\ t.lastMaxCongestionWindow = c.lastMaxCongestionWindow
BY DEF CubicStates, EpochWritten, TargetWritten

\* A new epoch starts the curve at the current window; one that goes on keeps it.
LEMMA EpochIsOnCurve ==
    ASSUME WindowInv, CurveInv
    PROVE  CurveAt(Epoch) /\ Epoch.epoch # None
<1>1. cubic \in CubicStates /\ now \in Nat /\ None = -1
    BY DEF WindowInv, ClockType, None
<1>2. /\ congestionWindow \in Nat /\ MinCongestionWindow \in Nat /\ MinCongestionWindow <= congestionWindow
      /\ MaxCongestionWindow \in Nat /\ congestionWindow <= MaxCongestionWindow /\ CubeFactor \in Nat \ {0}
    BY CongestionAssumption DEF WindowInv, WindowInBounds
<1>3. CASE cubic.epoch = None
    <2> DEFINE max == cubic.lastMaxCongestionWindow
               time == IF max <= congestionWindow THEN 0 ELSE CubeRoot(CubeFactor * (max - congestionWindow))
               origin == IF max <= congestionWindow THEN congestionWindow ELSE max
    <2>1. max \in Nat /\ max <= MaxCongestionWindow
        BY <1>1 DEF CubicStates, CurveInv, CurveAt
    <2>2. Epoch = EpochWritten(cubic, now, 1, congestionWindow, time, origin)
        BY <1>3, Zenon DEF Epoch, StartEpoch, EpochWritten
    <2>3. origin \in MinCongestionWindow .. MaxCongestionWindow
        BY <1>2, <2>1
    <2>4. time * time * time <= CubeFactor * (origin - MinCongestionWindow)
        <3>1. CASE max <= congestionWindow
            <4>1. origin - MinCongestionWindow \in Nat /\ time = 0
                BY <1>2, <3>1
            <4>2. CubeFactor * (origin - MinCongestionWindow) \in Nat
                <5> HIDE DEF origin
                <5> QED BY <1>2, <4>1
            <4> QED BY <4>1, <4>2
        <3>2. CASE ~(max <= congestionWindow)
            <4> DEFINE d == max - congestionWindow
            <4>1. d \in Nat /\ max - MinCongestionWindow \in Nat /\ d <= max - MinCongestionWindow
                BY <1>2, <2>1, <3>2
            <4>2. time = CubeRoot(CubeFactor * d) /\ origin = max
                BY <3>2
            <4> HIDE DEF d, time, origin
            <4>3. CubeFactor * d \in Nat /\ d * CubeFactor <= (max - MinCongestionWindow) * CubeFactor
                BY <1>2, <4>1, ProductsGrow
            <4>4. d * CubeFactor = CubeFactor * d
                  /\ (max - MinCongestionWindow) * CubeFactor = CubeFactor * (max - MinCongestionWindow)
                  /\ CubeFactor * (max - MinCongestionWindow) \in Nat
                BY <1>2, <4>1
            <4>5. time \in Nat /\ time * time * time <= CubeFactor * d
                BY <4>2, <4>3, CubeRootIsNatural
            <4>6. time * time * time \in Nat
                BY <4>5
            <4> QED BY <4>2, <4>3, <4>4, <4>5, <4>6
        <3> QED BY <3>1, <3>2
    <2> HIDE DEF time, origin
    <2>5. /\ Epoch.epoch = now /\ Epoch.timeToOriginPoint = time /\ Epoch.originPointCongestionWindow = origin
          /\ Epoch.appLimitedStartTime = cubic.appLimitedStartTime
          /\ Epoch.lastMaxCongestionWindow = cubic.lastMaxCongestionWindow
        BY <1>1, <2>2, WrittenFields
    <2> QED BY <1>1, <2>3, <2>4, <2>5 DEF CurveInv, CurveAt
<1>4. CASE cubic.epoch # None
    <2> DEFINE epoch == IF cubic.appLimitedStartTime = None THEN cubic.epoch
                        ELSE cubic.epoch + (now - cubic.appLimitedStartTime)
    <2>1. epoch \in Int /\ 0 <= epoch
        BY <1>1, <1>4 DEF CubicStates, CurveInv, CurveAt
    <2>2. Epoch = [cubic EXCEPT !.ackedPacketsCount = cubic.ackedPacketsCount + 1,
                                !.appLimitedStartTime = None, !.epoch = epoch]
        BY <1>1, <1>4 DEF Epoch, ContinueEpoch, CubicStates
    <2> HIDE DEF epoch
    <2>3. /\ Epoch.epoch = epoch /\ Epoch.timeToOriginPoint = cubic.timeToOriginPoint
          /\ Epoch.originPointCongestionWindow = cubic.originPointCongestionWindow
          /\ Epoch.appLimitedStartTime = None
          /\ Epoch.lastMaxCongestionWindow = cubic.lastMaxCongestionWindow
        BY <1>1, <2>2 DEF CubicStates
    <2> QED BY <1>1, <1>4, <2>1, <2>3 DEF CurveInv, CurveAt
<1> QED BY <1>3, <1>4

\* A step that leaves Cubic alone.
LEMMA CurveKept ==
    ASSUME WindowInv, CurveInv, cubic' = cubic, now' \in Nat, now <= now', now' <= MaxTime, minRTT' <= MaxTime
    PROVE  CurveInv'
<1>1. cubic.appLimitedStartTime \in Int /\ now \in Nat
    BY DEF WindowInv, ClockType, CubicStates
<1>2. CurveAt(cubic)'
    BY <1>1 DEF CurveInv, CurveAt, None
<1> QED BY <1>2 DEF CurveInv, TargetOnCurve, None

\* onPacketLost, and an RTO, end the epoch.
LEMMA EpochEnded ==
    ASSUME CurveInv, now' = now, minRTT' = minRTT, cubic'.epoch = None,
           cubic'.appLimitedStartTime # None => cubic'.appLimitedStartTime \in 0 .. now,
           cubic'.lastMaxCongestionWindow <= MaxCongestionWindow
    PROVE  CurveInv'
<1>1. CurveAt(cubic)'
    BY DEF CurveAt, None
<1> QED BY <1>1 DEF CurveInv, TargetOnCurve, None

LEMMA CurveOnPacketLost == WindowInv /\ CurveInv /\ OnPacketLost => CurveInv'
<1> SUFFICES ASSUME WindowInv, CurveInv, OnPacketLost PROVE CurveInv'
    OBVIOUS
<1>1. UNCHANGED <<now, minRTT>>
    BY DEF OnPacketLost, rttVars
<1>2. /\ cubic \in CubicStates /\ now \in Nat
      /\ congestionWindow \in Nat /\ congestionWindow <= MaxCongestionWindow /\ MaxCongestionWindow \in Nat
    BY CongestionAssumption DEF WindowInv, WindowInBounds, ClockType
<1>3. CASE cubic' = cubic
    BY <1>1, <1>2, <1>3, CurveKept DEF CurveInv
<1>4. CASE cubic' = AfterPacketLoss
    <2> DEFINE max == IF congestionWindow < cubic.lastMaxCongestionWindow THEN Reduced(congestionWindow)
                      ELSE congestionWindow
    <2>1. max \in Nat /\ max <= MaxCongestionWindow
        BY <1>2, ReducedIsBounded
    <2>2. cubic' = [cubic EXCEPT !.epoch = None, !.lastMaxCongestionWindow = max]
        BY <1>2, <1>4 DEF AfterPacketLoss, CubicStates
    <2> HIDE DEF max
    <2>3. /\ cubic'.epoch = None /\ cubic'.lastMaxCongestionWindow = max
          /\ cubic'.appLimitedStartTime = cubic.appLimitedStartTime
        BY <1>2, <2>2 DEF CubicStates
    <2> QED BY <1>1, <2>1, <2>3, EpochEnded DEF CurveInv, CurveAt
<1> QED BY <1>3, <1>4, Zenon DEF OnPacketLost

LEMMA CurveAfterAck ==
    ASSUME WindowInv, CurveInv, AfterAck, UNCHANGED <<now, minRTT>>
    PROVE  CurveInv'
<1>1. cubic \in CubicStates /\ now \in Nat
    BY DEF WindowInv, ClockType
<1>2. CASE JustUpdated
    <2>1. cubic' = [cubic EXCEPT !.ackedPacketsCount = cubic.ackedPacketsCount + 1]
        BY <1>1, <1>2 DEF AfterAck, CubicStates
    <2>2. /\ cubic'.epoch = cubic.epoch /\ cubic'.timeToOriginPoint = cubic.timeToOriginPoint
          /\ cubic'.originPointCongestionWindow = cubic.originPointCongestionWindow
          /\ cubic'.appLimitedStartTime = cubic.appLimitedStartTime
          /\ cubic'.lastMaxCongestionWindow = cubic.lastMaxCongestionWindow
          /\ cubic'.lastUpdateTime = cubic.lastUpdateTime
          /\ cubic'.lastTargetCongestionWindow = cubic.lastTargetCongestionWindow
        BY <1>1, <2>1 DEF CubicStates
    <2>3. CurveAt(cubic)'
        BY <2>2 DEF CurveInv, CurveAt, None
    <2> QED BY <2>2, <2>3 DEF CurveInv, TargetOnCurve, None
<1>3. CASE ~JustUpdated
    <2>1. PICK left, estimate :
             cubic' = TargetWritten(Epoch, congestionWindow, now, estimate, left, Target(Epoch))
        BY <1>3, Zenon DEF AfterAck, TargetWritten
    <2>2. Epoch \in CubicStates /\ CurveAt(Epoch) /\ Epoch.epoch # None
        BY EpochIsWellFormed, EpochIsOnCurve
    <2>3. Epoch.epoch <= now => Target(Epoch) \in MinCongestionWindow .. (Word \div 2)
        BY <2>2, TargetIsOnCurve
    <2> DEFINE c == Epoch
               g == Target(Epoch)
    <2> HIDE DEF c, g
    <2>4. c \in CubicStates /\ cubic' = TargetWritten(c, congestionWindow, now, estimate, left, g)
        BY <2>1, <2>2 DEF c, g
    <2>5. /\ cubic'.lastUpdateTime = now /\ cubic'.lastTargetCongestionWindow = g
          /\ cubic'.epoch = c.epoch /\ cubic'.timeToOriginPoint = c.timeToOriginPoint
          /\ cubic'.originPointCongestionWindow = c.originPointCongestionWindow
          /\ cubic'.appLimitedStartTime = c.appLimitedStartTime
          /\ cubic'.lastMaxCongestionWindow = c.lastMaxCongestionWindow
        BY <2>4, WrittenFields
    <2>6. CurveAt(cubic)'
        BY <2>2, <2>5 DEF CurveAt, None, c
    <2>7. TargetOnCurve'
        BY <2>2, <2>3, <2>5 DEF TargetOnCurve, None, c, g
    <2> QED BY <2>6, <2>7 DEF CurveInv
<1> QED BY <1>2, <1>3

LEMMA CurveOnPacketAcked == WindowInv /\ CurveInv /\ OnPacketAcked => CurveInv'
<1> SUFFICES ASSUME WindowInv, CurveInv, OnPacketAcked PROVE CurveInv'
    OBVIOUS
<1>1. UNCHANGED <<now, minRTT>>
    BY DEF OnPacketAcked, rttVars
<1>2. cubic \in CubicStates /\ now \in Nat
    BY DEF WindowInv, ClockType
<1>3. CASE cubic' = cubic
    BY <1>1, <1>2, <1>3, CurveKept DEF CurveInv
<1>4. CASE cubic' = OnApplicationLimited
    <2> DEFINE start == IF cubic.appLimitedStartTime = None THEN now ELSE cubic.appLimitedStartTime
    <2>1. start \in 0 .. now
        BY <1>2 DEF CurveInv, CurveAt
    <2>2. cubic' = [cubic EXCEPT !.appLimitedStartTime = start]
        BY <1>2, <1>4 DEF OnApplicationLimited, CubicStates
    <2> HIDE DEF start
    <2>3. /\ cubic'.epoch = cubic.epoch /\ cubic'.timeToOriginPoint = cubic.timeToOriginPoint
          /\ cubic'.originPointCongestionWindow = cubic.originPointCongestionWindow
          /\ cubic'.appLimitedStartTime = start
          /\ cubic'.lastMaxCongestionWindow = cubic.lastMaxCongestionWindow
          /\ cubic'.lastUpdateTime = cubic.lastUpdateTime
          /\ cubic'.lastTargetCongestionWindow = cubic.lastTargetCongestionWindow
        BY <1>2, <2>2 DEF CubicStates
    <2>4. CurveAt(cubic)'
        BY <1>1, <2>1, <2>3 DEF CurveInv, CurveAt, None
    <2> QED BY <1>1, <2>3, <2>4 DEF CurveInv, TargetOnCurve, None
<1>5. CASE AfterAck
    BY <1>1, <1>5, CurveAfterAck
<1> QED BY <1>3, <1>4, <1>5, Zenon DEF OnPacketAcked, MaybeIncreaseCwnd

\* A sample is the age of a packet, which is not older than the clock.
LEMMA CurveReceivedAck ==
    ASSUME WindowInv, CurveInv, NEW LargestAcked, NEW newlyAcked, NEW lostUpTo, NEW ackDelay,
           ReceivedAck(LargestAcked, newlyAcked, lostUpTo, ackDelay)
    PROVE  CurveInv'
<1>1. UNCHANGED <<now, cubic>>
    BY Zenon DEF ReceivedAck
<1>2. now \in Nat /\ minRTT \in Nat /\ MaxTime \in Nat /\ now <= MaxTime /\ minRTT <= MaxTime
      /\ packetHistory \in [Outstanding -> Nat]
    BY CongestionAssumption DEF WindowInv, ClockType, CurveInv
<1>3. minRTT' <= MaxTime
    <2>1. CASE LargestAcked \in Outstanding
        <3> DEFINE d == now - packetHistory[LargestAcked]
        <3>1. UpdateRTT(d, ackDelay)
            BY <2>1, Zenon DEF ReceivedAck
        <3>2. d \in Int /\ d <= now
            BY <1>2, <2>1
        <3> HIDE DEF d
        <3>3. CASE d <= 0
            BY <1>2, <3>1, <3>3 DEF UpdateRTT, rttVars
        <3>4. CASE ~(d <= 0)
            <4>1. minRTT' = IF minRTT = 0 THEN d ELSE Min({minRTT, d})
                BY <3>1, <3>4 DEF UpdateRTT
            <4>2. Min({minRTT, d}) \in {minRTT, d}
                BY <1>2, <3>2, MinOfTwo
            <4> QED BY <1>2, <3>2, <4>1, <4>2
        <3> QED BY <3>3, <3>4
    <2>2. CASE LargestAcked \notin Outstanding
        BY <1>2, <2>2 DEF ReceivedAck, rttVars
    <2> QED BY <2>1, <2>2
<1> QED BY <1>1, <1>2, <1>3, CurveKept

LEMMA CurveNext == WindowInv /\ CurveInv /\ [Next]_vars => CurveInv'
<1> SUFFICES ASSUME WindowInv, CurveInv, [Next]_vars PROVE CurveInv'
    OBVIOUS
<1>1. now \in Nat /\ MaxTime \in Nat /\ now <= MaxTime /\ minRTT <= MaxTime
    BY CongestionAssumption DEF WindowInv, ClockType, CurveInv
<1>2. CASE Tick
    <2>1. now' = now + 1 /\ now < MaxTime /\ UNCHANGED <<minRTT, cubic>>
        BY <1>2 DEF Tick, senderVars, rttVars
    <2>2. now' \in Nat /\ now <= now' /\ now' <= MaxTime
        BY <1>1, <2>1
    <2> QED BY <1>1, <2>1, <2>2, CurveKept
<1>3. CASE SendPacket \/ MaybeQueueRTOs \/ UNCHANGED vars
    <2>1. UNCHANGED <<now, minRTT, cubic>>
        BY <1>3 DEF SendPacket, MaybeQueueRTOs, vars, senderVars, rttVars
    <2> QED BY <1>1, <2>1, CurveKept
<1>4. ASSUME NEW LargestAcked, NEW newlyAcked, NEW lostUpTo, NEW ackDelay,
             ReceivedAck(LargestAcked, newlyAcked, lostUpTo, ackDelay)
      PROVE  CurveInv'
    BY <1>4, CurveReceivedAck
<1>5. CASE QueueRTO
    <2>1. UNCHANGED <<now, minRTT>> /\ cubic' = Reset
        BY <1>5 DEF QueueRTO, rttVars
    <2>2. cubic'.epoch = None /\ cubic'.appLimitedStartTime = None /\ cubic'.lastMaxCongestionWindow = 0
        BY <2>1 DEF Reset
    <2> QED BY <2>1, <2>2, CongestionAssumption, EpochEnded
<1> QED BY <1>2, <1>3, <1>4, <1>5, CurveOnPacketLost, CurveOnPacketAcked, Zenon DEF Next

\* Within the range of the clock, Cubic's target neither wraps around nor falls
\* below the minimum window, except in an epoch that lies in the future.
THEOREM TargetStaysOnCurve == Spec => []TargetOnCurve
<1>1. Init => CurveInv
    <2> SUFFICES ASSUME Init PROVE CurveInv
        OBVIOUS
    <2>1. cubic.epoch = None /\ cubic.appLimitedStartTime = None /\ cubic.lastMaxCongestionWindow = 0
        BY DEF Init, Reset
    <2>2. CurveAt(cubic) /\ TargetOnCurve
        BY <2>1, CongestionAssumption DEF CurveAt, TargetOnCurve
    <2> QED BY <2>2, CongestionAssumption DEF Init, CurveInv
<1>2. CurveInv => TargetOnCurve
    BY DEF CurveInv
<1> QED BY <1>1, <1>2, WindowInit, WindowNext, CurveNext, PTL DEF Spec
=============================================================================
