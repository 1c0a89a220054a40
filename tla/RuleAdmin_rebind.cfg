CONSTANTS
    RuleIds = {r1}
    Ports = {p1, p2}
    CaptureIds = {i1, i2, i3}
    NoCapture = NoCapture
    Admins = {a1}
    InitRules = {r1}
    MaxRequests = 2
    MaxRestarts = 0
SPECIFICATION Spec
INVARIANT CapturedRulesListen
