SPECIFICATION Spec
CONSTANTS
    Hellos <- MCHellos
    Limit <- MCLimit
    Default <- MCDefault
    Slack = 1
    MaxUndecryptable = 3
    MaxHellos = 3
    MaxLosses = 2
CHECK_DEADLOCK FALSE
INVARIANTS ClientCanOpen ParametersAgreed
PROPERTIES HandshakeCompletes CryptoGoroutineEnds
