SPECIFICATION FairSpec
CONSTANTS
    Nodes = {"n1", "n2"}
    Txs = {"t1", "t2", "t3"}
    Packets <- MCPackets
    MaxSize = 2
    FirstDepth = 1
    MaxDepth = 3
    Budgets <- MCBudgets
INVARIANTS
    SessionConsistent
    AnnouncesAll
PROPERTIES
    StartDepthFollows
    OfferAnswered
CHECK_DEADLOCK FALSE
