CONSTANTS
    ClientIDs = {1, 3, 5}
    ServerIDs = {2}
    MaxNewStreamIDDelta = 2
    MaxIncomingStreams = 3
    MaxOutgoingStreams = 1
    MaxOpened = 5
SPECIFICATION MapSpec
CHECK_DEADLOCK FALSE
INVARIANTS BookkeepingExact
PROPERTIES RecentlyClosedStaysClosed NoStarvation FinishedAreRemoved
