SPECIFICATION FairSpec
CONSTANTS
    Producers = {p1, p2}
    NumConsumers = 2
    Capacity = 3
    MaxElements = 5
    None = None
INVARIANTS
    TypeOK
    NoSlotRace
    SlotHoldsPosition
    ActiveCount
PROPERTIES
    ImplementsPipeline
    EveryInputCompletes
    ShutdownJoins
CHECK_DEADLOCK FALSE
