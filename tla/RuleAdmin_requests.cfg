CONSTANTS
    RuleIds = {r1, r2}
    Ports = {p1, p2}
    CaptureIds = {i1, i2, i3}
    NoCapture = NoCapture
    Admins = {a1, a2}
    InitRules = {r1}
    MaxRequests = 2
    MaxRestarts = 1
SPECIFICATION Spec
INVARIANTS CapturesFollowTable HasRuleFollowsTable EveryCaptureIsHeld
SYMMETRY Symmetry
