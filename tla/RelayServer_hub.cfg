CONSTANTS
    Keys = {k1}
    Conns = {c1, c2}
    RuleIds = {r1}
    Admins = {a1}
    InitKeys = {k1}
    Ops = {"send", "list", "shutdown"}
    MaxPackets = 1
    MaxOps = 1
    HubCap = 1
    BroadcastCap = 1
    SendCap = 1
    NoKey = NoKey
    NoConn = NoConn
    InitRules <- AllBidirectional
SPECIFICATION FairSpec
INVARIANTS NoPanic NoOrphan HubInv GhostOnlyByOvertaking
PROPERTIES GoneIsReleased RequestsReturn
