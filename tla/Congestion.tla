----------------------------- MODULE Congestion -----------------------------
(***************************************************************************)
(* Congestion control: cubicSender with its Cubic and HybridSlowStart, fed *)
(* by sentPacketHandler (SentPacket, ReceivedAck, MaybeQueueRTOs) and by   *)
(* the minimum and the latest sample of RTTStats.                          *)
(*                                                                         *)
(* A window and the bytes in flight are counted in full packets of         *)
(* DefaultTCPMSS.  A tick of the clock is many maxCubicTimeIntervals, and  *)
(* the cubic curve is scaled to ticks: CubeFactor stands for cubeFactor.   *)
(* The float32 factors of Cubic, for two emulated connections, are the     *)
(* fractions 85/100 (beta, betaLastMax) and 36/37 (alpha).                 *)
(*                                                                         *)
(* A call of OnCongestionEvent is a sequence of steps, one per packet lost *)
(* or acknowledged, in the order of the code; nothing else happens between *)
(* them.  Loss detection is abstracted to what it may report: of the       *)
(* unacknowledged packets below the largest acknowledged one, the oldest.  *)
(* PrrSender only answers TimeUntilSend, which the server never calls.     *)
(***************************************************************************)
EXTENDS Integers, FiniteSets, FiniteSetsExt, Functions

CONSTANTS
    MinCongestionWindow,      \* defaultMinimumCongestionWindow
    InitialCongestionWindow,  \* protocol.InitialCongestionWindow
    MaxCongestionWindow,      \* protocol.DefaultMaxCongestionWindow
    MaxBurst,                 \* maxBurstBytes, in packets
    CubeFactor,               \* cubeFactor, in ticks
    Word,                     \* 2^64, the range of a PacketNumber
    HybridStartLowWindow, HybridStartMinSamples,
    DelayMinThreshold, DelayMaxThreshold,  \* of HybridSlowStart, in ticks
    AckDelays,                \* values of AckFrame.DelayTime
    MaxPacketNumber, MaxTime  \* bounds of the model

ASSUME CongestionAssumption ==
    /\ {MinCongestionWindow, InitialCongestionWindow, MaxCongestionWindow, MaxBurst, MaxPacketNumber, MaxTime,
        HybridStartLowWindow, HybridStartMinSamples, DelayMinThreshold, DelayMaxThreshold} \subseteq Nat
    /\ AckDelays \subseteq Nat
    /\ CubeFactor \in Nat \ {0} /\ Word \in Nat \ {0}
    /\ 2 <= MinCongestionWindow
    /\ MinCongestionWindow <= InitialCongestionWindow /\ InitialCongestionWindow <= MaxCongestionWindow

\* The clock stays in the range in which the cube of a time fits a word with room
\* for a window: the arithmetic of the curve is exact.
ASSUME CurveAssumption ==
    MaxCongestionWindow + (2 * MaxTime) * (2 * MaxTime) * (2 * MaxTime) <= Word \div 2

VARIABLES
    now,
    packetHistory,    \* send times of the packets in flight, by packet number
    lostPackets, ackedPackets, \* what is left of the congestion event being handled
    queuedRTOs,       \* calls of queueRTO still to come in MaybeQueueRTOs
    congestionWindow, slowstartThreshold,
    largestSentPacketNumber, largestAckedPacketNumber, largestSentAtLastCutback,
    hybridSlowStart, cubic,
    minRTT, latestRTT,
    cutback           \* history: the largest packet sent when the window was last cut

senderVars == <<congestionWindow, slowstartThreshold, largestSentPacketNumber, largestAckedPacketNumber,
                largestSentAtLastCutback, hybridSlowStart, cubic, cutback>>
rttVars == <<minRTT, latestRTT>>
eventVars == <<lostPackets, ackedPackets, queuedRTOs>>
vars == <<now, packetHistory, eventVars, senderVars, rttVars>>

None == -1   \* the zero time

Outstanding == DOMAIN packetHistory
InFlight == Cardinality(Outstanding)
Idle == lostPackets = {} /\ ackedPackets = {} /\ queuedRTOs = 0

\* Cubic.Reset
Reset ==
    [epoch |-> None, appLimitedStartTime |-> None, lastUpdateTime |-> None,
     lastCongestionWindow |-> 0, lastMaxCongestionWindow |-> 0, ackedPacketsCount |-> 0,
     estimatedTCPcongestionWindow |-> 0, originPointCongestionWindow |-> 0, timeToOriginPoint |-> 0,
     lastTargetCongestionWindow |-> 0]

Init ==
    /\ now = 0 /\ packetHistory = [p \in {} |-> 0]
    /\ lostPackets = {} /\ ackedPackets = {} /\ queuedRTOs = 0
    /\ congestionWindow = InitialCongestionWindow /\ slowstartThreshold = MaxCongestionWindow
    /\ largestSentPacketNumber = 0 /\ largestAckedPacketNumber = 0 /\ largestSentAtLastCutback = 0
    /\ hybridSlowStart = [endPacketNumber |-> 0, started |-> FALSE, currentMinRTT |-> 0,
                          rttSampleCount |-> 0, hystartFound |-> FALSE]
    /\ cubic = Reset
    /\ minRTT = 0 /\ latestRTT = 0
    /\ cutback = [at |-> 0, timeout |-> FALSE]

InSlowStart == congestionWindow < slowstartThreshold

-----------------------------------------------------------------------------
(* HybridSlowStart *)

\* The threshold is an eighth of minRTT, clamped.
DelayThreshold(min) == Max({Min({min \div 8, DelayMaxThreshold}), DelayMinThreshold})

\* The state of HybridSlowStart after ShouldExitSlowStart, for an RTT sample.
AfterSample(latest, min) ==
    LET h == IF hybridSlowStart.started THEN hybridSlowStart
             ELSE [hybridSlowStart EXCEPT !.endPacketNumber = largestSentPacketNumber, !.currentMinRTT = 0,
                                          !.rttSampleCount = 0, !.started = TRUE]
        count == h.rttSampleCount + 1
        current == IF count <= HybridStartMinSamples /\ (h.currentMinRTT = 0 \/ h.currentMinRTT > latest)
                   THEN latest ELSE h.currentMinRTT
    IN  IF h.hystartFound THEN h
        ELSE [h EXCEPT !.rttSampleCount = count, !.currentMinRTT = current,
                       !.hystartFound = count = HybridStartMinSamples /\ current > min + DelayThreshold(min)]

\* Once the delay has increased, a later call exits at any window.
ShouldExitSlowStart(latest, min) ==
    /\ AfterSample(latest, min).hystartFound
    /\ hybridSlowStart.hystartFound \/ congestionWindow >= HybridStartLowWindow

-----------------------------------------------------------------------------
(* Cubic *)

\* Multiplicative decrease, by beta and by betaLastMax.
Reduced(window) == (85 * window) \div 100

AfterPacketLoss ==
    [cubic EXCEPT !.epoch = None,
                  !.lastMaxCongestionWindow = IF congestionWindow < @ THEN Reduced(congestionWindow)
                                              ELSE congestionWindow]

OnApplicationLimited ==
    [cubic EXCEPT !.appLimitedStartTime = IF @ = None THEN now ELSE @]

\* Cubic recomputes the window at most once per maxCubicTimeInterval.
JustUpdated == cubic.lastCongestionWindow = congestionWindow /\ cubic.lastUpdateTime = now

CubeRoot(n) == Max({r \in 0 .. n : r * r * r <= n})

\* The epoch for this ACK: the first one after a loss starts it, another one
\* shifts it through the application-limited period.
StartEpoch ==
    LET max == cubic.lastMaxCongestionWindow
    IN  [cubic EXCEPT !.epoch = now, !.ackedPacketsCount = 1, !.estimatedTCPcongestionWindow = congestionWindow,
                      !.timeToOriginPoint = IF max <= congestionWindow THEN 0
                                            ELSE CubeRoot(CubeFactor * (max - congestionWindow)),
                      !.originPointCongestionWindow = IF max <= congestionWindow THEN congestionWindow ELSE max]
ContinueEpoch ==
    [cubic EXCEPT !.ackedPacketsCount = @ + 1, !.appLimitedStartTime = None,
                  !.epoch = IF cubic.appLimitedStartTime = None THEN @ ELSE @ + (now - cubic.appLimitedStartTime)]
Epoch == IF cubic.epoch = None THEN StartEpoch ELSE ContinueEpoch

\* The cubic curve, in the unsigned arithmetic of a PacketNumber.
BugTarget(c) ==
    LET offset == (now + minRTT - c.epoch) - c.timeToOriginPoint
    IN  (c.originPointCongestionWindow - ((offset * offset * offset) \div CubeFactor)) % Word
Target(c) ==
    LET offset == c.timeToOriginPoint - (now + minRTT - c.epoch)
    IN  (c.originPointCongestionWindow - ((offset * offset * offset) \div CubeFactor)) % Word

\* The TCP estimate grows by one for every RequiredAckCount packets: the loop
\* stops at window with left packets, too few to pay for another one.
RequiredAckCount(window) == (37 * window) \div 36
Paid(from, to) == MapThenSumSet(RequiredAckCount, from .. (to - 1))
StopsAt(c, window, left) ==
    /\ left < RequiredAckCount(window)
    /\ c.ackedPacketsCount = Paid(c.estimatedTCPcongestionWindow, window) + left

-----------------------------------------------------------------------------
(* The handler and the sender *)

Tick ==
    /\ Idle /\ now < MaxTime
    /\ now' = now + 1
    /\ UNCHANGED <<packetHistory, eventVars, senderVars, rttVars>>

\* SendingAllowed, then SentPacket and OnPacketSent.
SendPacket ==
    /\ Idle /\ largestSentPacketNumber < MaxPacketNumber
    /\ InFlight <= congestionWindow
    /\ largestSentPacketNumber' = largestSentPacketNumber + 1
    /\ packetHistory' = [p \in Outstanding \cup {largestSentPacketNumber'} |->
                            IF p \in Outstanding THEN packetHistory[p] ELSE now]
    /\ UNCHANGED <<now, eventVars, rttVars, congestionWindow, slowstartThreshold, largestAckedPacketNumber,
                   largestSentAtLastCutback, hybridSlowStart, cubic, cutback>>

\* UpdateRTT ignores a sample that is not positive, and corrects the latest
\* one, not the minimum, for the delay of the ACK.
UpdateRTT(sendDelta, ackDelay) ==
    IF sendDelta <= 0 THEN UNCHANGED rttVars
    ELSE /\ minRTT' = IF minRTT = 0 THEN sendDelta ELSE Min({minRTT, sendDelta})
         /\ latestRTT' = IF sendDelta > ackDelay THEN sendDelta - ackDelay ELSE sendDelta

\* ReceivedAck, up to the first part of OnCongestionEvent: the ACK has a
\* LargestAcked and ranges that hold some packets of the history, newlyAcked, and
\* makes the oldest of the others lost, the ones up to lostUpTo: a packet was
\* reported missing at least as often as one sent after it.
ReceivedAck(LargestAcked, newlyAcked, lostUpTo, ackDelay) ==
    LET rttUpdated == LargestAcked \in Outstanding
        lost == {p \in Outstanding \ newlyAcked : p <= lostUpTo}
    IN  /\ Idle
        /\ rttUpdated => LargestAcked \in newlyAcked
        /\ IF rttUpdated THEN UpdateRTT(now - packetHistory[LargestAcked], ackDelay) ELSE UNCHANGED rttVars
        /\ packetHistory' = Restrict(packetHistory, Outstanding \ (newlyAcked \cup lost))
        /\ lostPackets' = lost /\ ackedPackets' = newlyAcked
        /\ hybridSlowStart' = IF rttUpdated /\ InSlowStart THEN AfterSample(latestRTT', minRTT')
                              ELSE hybridSlowStart
        /\ slowstartThreshold' = IF rttUpdated /\ InSlowStart /\ ShouldExitSlowStart(latestRTT', minRTT')
                                 THEN congestionWindow ELSE slowstartThreshold
        /\ UNCHANGED <<now, queuedRTOs, congestionWindow, largestSentPacketNumber, largestAckedPacketNumber,
                       largestSentAtLastCutback, cubic, cutback>>

\* The window after the loss of a packet; one sent before the last cutback
\* belongs to a loss event already handled.
BugIsNewLoss(packetNumber) == packetNumber > largestAckedPacketNumber
IsNewLoss(packetNumber) == packetNumber > largestSentAtLastCutback
BugWindowAfterLoss(packetNumber) ==
    IF IsNewLoss(packetNumber) THEN Reduced(congestionWindow) ELSE congestionWindow
WindowAfterLoss(packetNumber) ==
    IF IsNewLoss(packetNumber) THEN Max({Reduced(congestionWindow), MinCongestionWindow}) ELSE congestionWindow

OnPacketLost ==
    LET packetNumber == Min(lostPackets)
    IN  /\ lostPackets # {}
        /\ lostPackets' = lostPackets \ {packetNumber}
        /\ congestionWindow' = WindowAfterLoss(packetNumber)
        /\ IF IsNewLoss(packetNumber)
           THEN /\ cubic' = AfterPacketLoss
                /\ slowstartThreshold' = congestionWindow'
                /\ largestSentAtLastCutback' = largestSentPacketNumber
                /\ cutback' = [at |-> largestSentPacketNumber, timeout |-> FALSE]
           ELSE UNCHANGED <<cubic, slowstartThreshold, largestSentAtLastCutback, cutback>>
        /\ UNCHANGED <<now, packetHistory, ackedPackets, queuedRTOs, largestSentPacketNumber,
                       largestAckedPacketNumber, hybridSlowStart, rttVars>>

\* isCwndLimited: the bytes in flight are those after the event.
IsCwndLimited ==
    \/ InFlight >= congestionWindow
    \/ congestionWindow - InFlight <= MaxBurst
    \/ InSlowStart /\ 2 * InFlight > congestionWindow

\* CongestionWindowAfterAck
AfterAck ==
    IF JustUpdated
    THEN /\ cubic' = [cubic EXCEPT !.ackedPacketsCount = @ + 1]
         /\ congestionWindow' = Min({MaxCongestionWindow, Max({cubic.lastTargetCongestionWindow,
                                                               cubic.estimatedTCPcongestionWindow})})
    ELSE \E left \in 0 .. Epoch.ackedPacketsCount :
         \E estimate \in Epoch.estimatedTCPcongestionWindow
                         .. (Epoch.estimatedTCPcongestionWindow + Epoch.ackedPacketsCount) :
            /\ StopsAt(Epoch, estimate, left)
            /\ cubic' = [Epoch EXCEPT !.lastCongestionWindow = congestionWindow, !.lastUpdateTime = now,
                                      !.estimatedTCPcongestionWindow = estimate, !.ackedPacketsCount = left,
                                      !.lastTargetCongestionWindow = Target(Epoch)]
            /\ congestionWindow' = Min({MaxCongestionWindow, Max({Target(Epoch), estimate})})

MaybeIncreaseCwnd ==
    \/ ~IsCwndLimited /\ cubic' = OnApplicationLimited /\ UNCHANGED congestionWindow
    \/ IsCwndLimited /\ congestionWindow >= MaxCongestionWindow /\ UNCHANGED <<cubic, congestionWindow>>
    \/ IsCwndLimited /\ congestionWindow < MaxCongestionWindow /\ InSlowStart
       /\ congestionWindow' = congestionWindow + 1 /\ UNCHANGED cubic
    \/ IsCwndLimited /\ congestionWindow < MaxCongestionWindow /\ ~InSlowStart /\ AfterAck

OnPacketAcked ==
    LET packetNumber == Min(ackedPackets)
        InRecovery == largestAckedPacketNumber' <= largestSentAtLastCutback
        EndOfRound == hybridSlowStart.endPacketNumber < packetNumber
    IN  /\ lostPackets = {} /\ ackedPackets # {}
        /\ ackedPackets' = ackedPackets \ {packetNumber}
        /\ largestAckedPacketNumber' = Max({packetNumber, largestAckedPacketNumber})
        /\ \/ InRecovery /\ UNCHANGED <<cubic, congestionWindow, hybridSlowStart>>
           \/ /\ ~InRecovery /\ MaybeIncreaseCwnd
              /\ hybridSlowStart' = IF congestionWindow' < slowstartThreshold /\ EndOfRound
                                    THEN [hybridSlowStart EXCEPT !.started = FALSE] ELSE hybridSlowStart
        /\ UNCHANGED <<now, packetHistory, lostPackets, queuedRTOs, slowstartThreshold, largestSentPacketNumber,
                       largestSentAtLastCutback, rttVars, cutback>>

\* The RTO timer expires: the two oldest packets are queued, each as a loss
\* followed by OnRetransmissionTimeout.
MaybeQueueRTOs ==
    /\ Idle /\ Outstanding # {}
    /\ queuedRTOs' = Min({2, InFlight})
    /\ UNCHANGED <<now, packetHistory, lostPackets, ackedPackets, senderVars, rttVars>>

QueueRTO ==
    LET packetNumber == Min(Outstanding)
    IN  /\ queuedRTOs > 0
        /\ queuedRTOs' = queuedRTOs - 1
        /\ packetHistory' = Restrict(packetHistory, Outstanding \ {packetNumber})
        /\ slowstartThreshold' = WindowAfterLoss(packetNumber) \div 2
        /\ congestionWindow' = MinCongestionWindow
        /\ largestSentAtLastCutback' = 0
        /\ cubic' = Reset
        /\ hybridSlowStart' = [hybridSlowStart EXCEPT !.started = FALSE, !.hystartFound = FALSE]
        /\ cutback' = [at |-> largestSentPacketNumber, timeout |-> TRUE]
        /\ UNCHANGED <<now, lostPackets, ackedPackets, largestSentPacketNumber, largestAckedPacketNumber, rttVars>>

Next ==
    \/ Tick \/ SendPacket
    \/ \E LargestAcked \in 1 .. largestSentPacketNumber, newlyAcked \in SUBSET Outstanding,
          lostUpTo \in {0} \cup Outstanding, ackDelay \in AckDelays :
          /\ Outstanding # {} /\ LargestAcked >= Min(Outstanding)
          /\ newlyAcked \subseteq 1 .. LargestAcked /\ lostUpTo < LargestAcked
          /\ ReceivedAck(LargestAcked, newlyAcked, lostUpTo, ackDelay)
    \/ OnPacketLost \/ OnPacketAcked
    \/ MaybeQueueRTOs \/ QueueRTO

Spec == Init /\ [][Next]_vars

-----------------------------------------------------------------------------
\* The window stays between its minimum and its maximum through losses,
\* timeouts and the unsigned arithmetic of Cubic, whose target may be
\* anything: a sender is neither stopped nor let loose.
WindowInBounds == congestionWindow \in MinCongestionWindow .. MaxCongestionWindow

\* The losses of one flight are a single loss event: a lost packet lowers the
\* window only if it was sent after the window was last cut.  A timeout
\* forgets the cut (largestSentAtLastCutback = 0), so a late loss may cut again.
SingleLossEvent ==
    [][OnPacketLost /\ congestionWindow' < congestionWindow
          => Min(lostPackets) > cutback.at \/ cutback.timeout]_vars

\* The target of Cubic lies on its curve: it does not wrap around, and is not
\* below the minimum window.  The exception is an epoch in the future.
\* CongestionWindowAfterAck makes one when it starts an epoch, keeps an
\* appLimitedStartTime from before it, and shifts the epoch by all of it.
TargetOnCurve ==
    cubic.epoch # None /\ cubic.epoch <= cubic.lastUpdateTime
        => cubic.lastTargetCongestionWindow \in MinCongestionWindow .. (Word \div 2)
=============================================================================
