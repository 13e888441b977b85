CONSTANTS
    MaxByteCount = 9
    MaxOffset = 4
    MaxStreamFrameSorterGaps = 2
    PeerFrames <- AnyFrames
    ReadSizes = {1, 3}
SPECIFICATION Spec
CHECK_DEADLOCK FALSE
INVARIANTS BytesPartitioned DeliveredInOrder
PROPERTIES ReaderIsWoken
