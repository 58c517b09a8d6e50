SPECIFICATION FairSpec
CONSTANTS
    t1 = t1
    t2 = t2
    t3 = t3
    Threads <- ThreeThreads
    ReaderField = 2
    WriterField = 4
INVARIANTS
    TypeOK
    MutualExclusion
    WordCountsGuards
PROPERTIES
    ImplementsLock
    PromotionServed
