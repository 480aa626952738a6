SPECIFICATION Spec
CONSTANTS
    Proxied = TRUE
    SockCap = 1
    AddrCap = 1
    BodyCap = 2
    BodyLens = {0, 1, 2, 3}
    AddrLens = {1, 2}
    NRPCs <- MCNRPCs
    Modulus = 4
INVARIANTS
    FailuresHaveCauses
    FramesAreAligned
    RepliesAreEchoes
PROPERTIES
    EveryoneConnectedEnds
    EchoSpec
CHECK_DEADLOCK FALSE
