CONSTANTS
    Versions <- ThreeVersions
    Tasks = {t1, t2}
    Shared = Shared
    Files = {f1, f2, f3, f4}
    Depth = 2
    NoFile = NoFile
    NoRelease = NoRelease
    CanFail = {"download", "backup", "replace", "rollback"}
    MaxCrashes = 1
    MaxUpdates = 3
SPECIFICATION Spec
INVARIANTS TypeOK LostOnlyByOverlap ExeIsUsable
PROPERTIES NeverDowngrades 
SYMMETRY Symmetry
