CONSTANTS
    MaxHeight = 3
    Weights = {1, 3}
    NumSubCaches = 2
    Configurations <- BothConfigurations
    MaxCrashes = 3
SPECIFICATION FairSpec
INVARIANTS NodeConsistent RecoverySucceeds ReplicaFollows
PROPERTIES CommitIsAtomic ComesBack
CONSTRAINT OutsideWindows
CHECK_DEADLOCK FALSE
