SPECIFICATION Spec
CONSTANTS
    MaxPacketNumber = 7
    MaxTrackedReceivedAckRanges = 3
    MaxTrackedReceivedPackets = 5
CHECK_DEADLOCK FALSE
INVARIANTS RangesMatchReceived AckFrameIsExact AcceptedAtMostOnce
PROPERTIES AcksNeverRetreat
