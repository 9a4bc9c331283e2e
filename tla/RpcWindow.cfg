SPECIFICATION Spec
CONSTANTS
    a = a
    b = b
    Party <- MCParty
    Peer <- MCPeer
    Msg = {m1}
    NoMsg = NoMsg
    Garbled = Garbled
    Script <- FourScript
    ServerVersion <- BothV2
    Window = 1
    ClusterMode = ""
    ThreeFactors = FALSE
    MaxRetry = 3
    MaxBreaks = 2
    MayTimeOut = FALSE
    ConnectMayFail = FALSE
    RedisMayLose = FALSE
INVARIANT ResendNeverStuck
