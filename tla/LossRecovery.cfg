CONSTANTS
    StreamFrames = {s1, s2}
    ControlFrames = {w}
    MaxFramesPerPacket = 2
    MaxPacketNumber = 14
    MaxAcks = 14
    RetransmissionThreshold = 1
    MaxTrackedSentPackets = 6
    MaxTrackedSkippedPackets = 1
    Peers = {"honest", "arbitrary"}
    MaxLosses = 2
    ArbitraryPackets = 4
    ArbitraryAcks = 3
SPECIFICATION NetSpec
CHECK_DEADLOCK FALSE
INVARIANTS EachFrameInOnePlace ResentDataStopsWaiting AcksAreUsedRight
PROPERTIES FramesAreReliable EverythingIsAcked
