SPECIFICATION ServerSpec
CONSTANTS
    Callers = {app, srv}
    ServerCloser = srv
    MaxEvents = 2
    StreamIDs = {s}
    AckSendDelay = 1
    InitialIdleTimeout = 3
    IdleTimeout = 2
    MaxTimeForCryptoHandshake = 1
    RTO = 1
    MaxSessionUnprocessedPackets = 1
    MaxUndecryptablePackets = 2
    MaxPackets = 2
    MaxTime = 3
CHECK_DEADLOCK FALSE
INVARIANTS DeadlinesAreMet EarlyPacketsAreRetried EveryoneIsTold
PROPERTIES ClosingEnds OneSessionPerConnection ServerCloses
