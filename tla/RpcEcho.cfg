SPECIFICATION FairSpec
CONSTANTS
    a = a
    b = b
    Party <- MCParty
    Peer <- MCPeer
    Msg = {m1}
    NoMsg = NoMsg
    Garbled = Garbled
    Script <- EchoScript
    ServerVersion <- BothV2
    Window = 3
    ClusterMode = ""
    ThreeFactors = FALSE
    MaxRetry = 2
    MaxBreaks = 1
    MayTimeOut = FALSE
    ConnectMayFail = FALSE
    RedisMayLose = FALSE
PROPERTY AllCallsReturn
