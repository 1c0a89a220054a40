CONSTANTS
    MaxAttempts = 2
    MaxRuns = 2
SPECIFICATION FairSpec
INVARIANTS ToldIsTrue FailedIsRepeatable EndsOnSuccess NothingLeftBehind
PROPERTIES StartsConfigured WizardEnds
\* When the runs are used up nothing more happens.
CHECK_DEADLOCK FALSE
