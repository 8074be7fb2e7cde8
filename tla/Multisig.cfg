SPECIFICATION Spec
CHECK_DEADLOCK FALSE
CONSTANTS
    Spends <- Multisigs
    Redeem <- MCRedeem
    Radix = 4
    NumberBytes = 2
    MaxItem = 80
    MaxStack = 8
    MaxOps = 5
    MaxSize = 300
PROPERTIES
    MultisigAdvances
