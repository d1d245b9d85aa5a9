CONSTANTS
    chat1 = chat1  chat2 = chat2  compact1 = compact1  new1 = new1  new2 = new2
    NoTurn = NoTurn
    Turn <- ChatTurn
    KindOf <- ChatKindOf
    KeepLines = 1
    MaxFaults = 0
    MaxSecond = 2
SPECIFICATION Spec
INVARIANT MetaCountsCompactions
CHECK_DEADLOCK FALSE
