CONSTANTS
    Streams = {3, 5}
    NonContributing = {3}
    DefaultWindow <- FirstWindows
    Announced <- LastWindows
    Rooms = {1, 3}
    HeaderLen = 1
    DataLenBytes = 1
    MaxOffered <- Offers
    MaxLosses = 1
    MaxEnded = 1
SPECIFICATION SendSpec
CHECK_DEADLOCK FALSE
INVARIANTS FramesTile SendCountersExact
PROPERTIES WrittenIsDelivered
