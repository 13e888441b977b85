CONSTANTS
    MinCongestionWindow = 2
    InitialCongestionWindow = 4
    MaxCongestionWindow = 6
    MaxBurst = 3
    CubeFactor = 1
    Word = 4096
    HybridStartLowWindow = 5
    HybridStartMinSamples = 2
    DelayMinThreshold = 0
    DelayMaxThreshold = 1
    AckDelays = {0}
    MaxPacketNumber = 5
    MaxTime = 4
SPECIFICATION Spec
CHECK_DEADLOCK FALSE
INVARIANTS WindowInBounds TargetOnCurve
PROPERTIES SingleLossEvent
