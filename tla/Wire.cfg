SPECIFICATION Spec
CONSTANTS
    Base = 4
    WordSize <- Words
    AckNumbers <- Numbers
    MaxNumber = 20
    ControlFrames <- Control
    StreamFrames <- Streams
    MaxFrames = 3
    PeerLargest <- Largest
    PeerLengths <- Lengths
    PeerGaps <- Gaps
    MaxPeerBlocks = 3
CHECK_DEADLOCK FALSE
INVARIANTS NumbersAreKept AckIsKept FramesAreKept AcceptedRangesAreValid
