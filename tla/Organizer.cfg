SPECIFICATION FairSpec
CONSTANTS
    Blocks <- TreeBlocks
    Genesis = "g"
    NullHash = "null"
    Parent <- TreeParent
    Work <- TreeWork
    CumWork <- TreeCumWork
    Height <- TreeHeight
    Bad <- TreeBad
    Early <- TreeEarly
    PoolSize = 3
    FlushInterval = 2
    MaxBoots = 1
INVARIANTS
    OrganizerConsistent
    AnswerTrue
    NoHeavierWeighedOrphan
    ReplacedReturnToPool
PROPERTIES
    KeepsPromise
    StoreEnds
