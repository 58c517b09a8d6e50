SPECIFICATION Spec
CONSTANTS
    t1 = t1
    t2 = t2
    s1 = s1
    s2 = s2
    Transactions = {t1, t2}
    Signers = {s1, s2}
    ChainStates <- States
    InitialState <- AllRequired
    MaxCacheSize = 1
    MaxTasks = 5
    MaxChainChanges = 1
SYMMETRY Symmetry
INVARIANTS HandedOnce LastAdderCompletes
CHECK_DEADLOCK FALSE
