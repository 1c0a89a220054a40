CONSTANTS
    Keys = {k1, k2, k3}
    NoKey = NoKey
    Torn = Torn
    MaxBackoff = 5
    MaxUpdates = 2
    MaxLate = 2
SPECIFICATION FairSpec
INVARIANTS TypeOK OneKeyPerLogin SaveUndisturbed KeyIsSaved
PROPERTY Reconnects
