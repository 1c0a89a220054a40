CONSTANTS
    Keys = {k1, k2}
    Conns = {c1, c2}
    RuleIds = {r1}
    Admins = {a1}
    InitKeys = {k1}
    Ops = {"assign", "unassign", "toggle", "update", "delete", "create", "revoke"}
    MaxPackets = 2
    MaxOps = 1
    HubCap = 1
    BroadcastCap = 2
    SendCap = 1
    NoKey = NoKey
    NoConn = NoConn
    InitRules <- AllBidirectional
SPECIFICATION Spec
INVARIANTS ClientToldItsRules RulesSettled
PROPERTY ServiceSpec
SYMMETRY Symmetry
