SPECIFICATION Spec
CONSTANTS
    Callers = {app}
    StreamIDs = {s}
    AckSendDelay = 1
    InitialIdleTimeout = 3
    IdleTimeout = 4
    MaxTimeForCryptoHandshake = 6
    RTO = 2
    MaxSessionUnprocessedPackets = 1
    MaxUndecryptablePackets = 2
    MaxPackets = 1
    MaxTime = 6
INVARIANTS TimesOut
CHECK_DEADLOCK FALSE
