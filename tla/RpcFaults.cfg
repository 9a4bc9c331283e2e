SPECIFICATION Spec
CONSTANTS
    a = a
    b = b
    Party <- MCParty
    Peer <- MCPeer
    Msg = {m1, m2}
    NoMsg = NoMsg
    Garbled = Garbled
    Script <- RepliesScript
    ServerVersion <- MixedVersions
    Window = 3
    ClusterMode = "sentinel"
    ThreeFactors = TRUE
    MaxRetry = 3
    MaxBreaks = 1
    MayTimeOut = TRUE
    ConnectMayFail = TRUE
    RedisMayLose = TRUE
SYMMETRY MCSymmetry
INVARIANTS NoSilentLoss PlainInOrder
