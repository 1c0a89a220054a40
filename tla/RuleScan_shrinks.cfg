CONSTANTS
    Lists <- Assignments
    MaxPushes = 1
SPECIFICATION Spec
INVARIANT DecidesByOneList
CHECK_DEADLOCK FALSE
