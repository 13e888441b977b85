CONSTANTS
    StreamFrames = {s1, s2, s3}
    ControlFrames = {}
    MaxFramesPerPacket = 1
    MaxPacketNumber = 14
    MaxAcks = 14
    RetransmissionThreshold = 1
    MaxTrackedSentPackets = 2
    MaxTrackedSkippedPackets = 1
    Peers = {"honest"}
    MaxLosses = 2
    ArbitraryPackets = 0
    ArbitraryAcks = 0
SPECIFICATION NetSpec
PROPERTIES SendsUntilNoData
CHECK_DEADLOCK FALSE
