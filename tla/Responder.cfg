SPECIFICATION ServeSpec
CONSTANTS
    Block <- MCBlock
    Tx <- MCTx
    Genesis = "g"
    Bip30Depths = {4}
    Maturity = 2
    Window = 3
    Interval = 2
    Timespan = 4
    TimeModulus = 1000
    MaxTarget = 16
    WorkUnit = 1000
    LockThreshold = 100
    Reward = 8
    RewardInterval = 3
    MaxMoney = 100
    MaxSigops = 6
    Checkpoints <- MCCheckpoints
    BadScripts <- MCBadScripts
    BadBlocks = {"bad2"}
    Requests <- MCRequests
    Offered <- MCOffered
INVARIANTS
    
    LedgerSound
    HeadersFollow
    ServedWhole
PROPERTIES
    CommitsForward
    Served
