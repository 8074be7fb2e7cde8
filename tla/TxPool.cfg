SPECIFICATION Spec
CONSTANTS
    Blocks <- TwiceBlocks
    Genesis = "g"
    Parent <- TwiceParent
    CumWork <- TwiceCumWork
    Height <- TwiceHeight
    BlockTxs <- TwiceBlockTxs
    Txs <- TwiceTxs
    Inputs <- TwiceInputs
    Outputs <- TwiceOutputs
    Coinbases <- Base
    Malformed <- None
    BadInputs <- TwiceScripts
    Calls <- TwiceCalls
    Tx <- TwiceTx
    Capacity = 2
    Maturity = 0
    SizeModulus = 16
INVARIANTS
    PoolConsistent
    Accounted
    OneSubscription
CHECK_DEADLOCK FALSE
