CONSTANTS
    Streams = {3, 5, 7}
    NonContributing = {3}
    InitialWindow <- Windows
    MaxIncrement <- Increments
    MaxBytes = 5
    Total <- Transfers
SPECIFICATION PeerSpec
CHECK_DEADLOCK FALSE
INVARIANTS ConnectionIsSum CreditBounded HonestPeerIsAccepted
PROPERTIES EverythingFlows
