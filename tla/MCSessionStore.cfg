CONSTANTS
    chat1 = chat1  chat2 = chat2  compact1 = compact1  new1 = new1  new2 = new2
    NoTurn = NoTurn
    Turn <- MCTurn
    KindOf <- MCKindOf
    KeepLines = 1
    MaxFaults = 1
    MaxSecond = 2
SPECIFICATION FairSpec
INVARIANTS LinesAreKept OnePlaceUnlessFault MissedOnlyAfterFault
PROPERTIES EveryTurnSettles ImplementsJournal
CHECK_DEADLOCK FALSE
