CONSTANTS
    MaxHeight = 3
    Weights = {1, 3}
    NumSubCaches = 2
    Configurations <- DatabaseOnly
    MaxCrashes = 1
SPECIFICATION Spec
INVARIANT IgnoredMessagesAreSafe
CHECK_DEADLOCK FALSE
