SPECIFICATION FairSpec
CONSTANTS
    Blocks <- OddBlocks
    Genesis = "g"
    Parent <- OddParent
    CumWork <- OddCumWork
    Height <- OddHeight
    BlockTxs <- OddBlockTxs
    Txs <- OddTxs
    Inputs <- OddInputs
    Outputs <- OddOutputs
    Coinbases <- Base
    Malformed <- None
    BadInputs <- None
    Calls <- OddCalls
    Tx <- OddTx
    Capacity = 1
    Maturity = 0
    SizeModulus = 16
INVARIANTS
    AcceptedSound
PROPERTIES
    StoreAnswered
CHECK_DEADLOCK FALSE
