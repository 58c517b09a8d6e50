SPECIFICATION FairSpec
CONSTANTS
    Blocks <- ForkOfFour
    BranchScore <- Uniform
    MaxBlocksPerSyncAttempt = 2
    BlocksPerAnswer = 2
    MaxRollbackBlocks = 1
    MaxUnprocessed = 2
    DisruptorSize = 2
    NumIds = 3
    MaxPushes = 1
INVARIANT CompletionsMatch
PROPERTIES NoRangeBehindFailure CatchesUp
CHECK_DEADLOCK TRUE
