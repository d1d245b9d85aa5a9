CONSTANTS
    chat1 = chat1  chat2 = chat2  compact1 = compact1  new1 = new1  new2 = new2
    NoTurn = NoTurn
    Turn <- TwoNewTurn
    KindOf <- TwoNewKindOf
    KeepLines = 1
    MaxFaults = 0
    MaxSecond = 2
SPECIFICATION Spec
INVARIANT HistoryIsArchived
CHECK_DEADLOCK FALSE
