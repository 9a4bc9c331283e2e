SPECIFICATION Spec
CONSTANTS
    a = a
    b = b
    Party <- MCParty
    Peer <- MCPeer
    Msg = {m1, m2}
    NoMsg = NoMsg
    Garbled = Garbled
    Script <- StreamScript
    ServerVersion <- BothV2
    Window = 3
    ClusterMode = ""
    ThreeFactors = FALSE
    MaxRetry = 3
    MaxBreaks = 2
    MayTimeOut = FALSE
    ConnectMayFail = TRUE
    RedisMayLose = FALSE
SYMMETRY MCSymmetry
INVARIANTS TypeOK InOrder AckMatchesFront NothingLost NoGap JoinEnds FlushDelivers
PROPERTY IsFifo
