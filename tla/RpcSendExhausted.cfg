SPECIFICATION Spec
CONSTANTS
    a = a
    b = b
    Party <- MCParty
    Peer <- MCPeer
    Msg = {m1, m2}
    NoMsg = NoMsg
    Garbled = Garbled
    Script <- TwoScript
    ServerVersion <- BothV2
    Window = 3
    ClusterMode = ""
    ThreeFactors = FALSE
    MaxRetry = 2
    MaxBreaks = 2
    MayTimeOut = FALSE
    ConnectMayFail = FALSE
    RedisMayLose = FALSE
INVARIANT InOrder
