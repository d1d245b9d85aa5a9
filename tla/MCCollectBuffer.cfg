CONSTANTS
    k1 = k1  k2 = k2
    m1 = m1  m2 = m2  m3 = m3  m4 = m4
    Key <- MCKey
    Msg <- MCMsg
    KeyOf <- MCKeyOf
    CollectCap = 2
SPECIFICATION FairSpec
INVARIANTS NoStrandedBuffer ExactlyOnePlace
PROPERTIES EnqueuedIsEventuallyFlushed ImplementsBatching
CHECK_DEADLOCK FALSE
