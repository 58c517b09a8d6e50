SPECIFICATION Spec
CONSTANTS
    t1 = t1
    s1 = s1
    s2 = s2
    s3 = s3
    Transactions = {t1}
    Signers = {s1, s2, s3}
    ChainStates <- OneExcluded
    InitialState <- AllRequired
    MaxCacheSize = 1
    MaxTasks = 4
    MaxChainChanges = 1
INVARIANT EligibleKept
SYMMETRY Symmetry
CHECK_DEADLOCK FALSE
