SPECIFICATION Spec
CONSTANTS
    Dense = 3
    Radix = 4
    Subsidy = 8
    Halving = 3
    Base = 8
    MaxSpecial = 2
    RawData = 7
    MaxNumber = 520
    MaxRaw = 6
INVARIANTS
    BlockRulesSound
    
    ScriptsReturn
CHECK_DEADLOCK FALSE
