CONSTANTS
    u1 = u1  s1 = s1  s2 = s2  m1 = m1  m2 = m2  m3 = m3
    r1 = r1  r2 = r2  r3 = r3  r4 = r4  d1 = d1  d2 = d2  k1 = k1
    NoKey = NoKey
    Request <- CRequest
    Msg <- CMsg
    MsgOf <- CMsgOf
    Session <- MCSession
    SessionOf <- CSessionOf
    User <- MCUser
    UserOf <- MCUserOf
    DedupKey <- MCDedupKey
    DedupKeyOf <- CDedupKeyOf
    Cron <- CCron
    Collecting <- CCollecting
    Interrupting = {}
    CollectKey <- MCCollectKey
    CollectKeyOf <- CCollectKeyOf
    CollectCap = 2
    QueueCap = 1
    Window = 1
    MaxTime = 1
    MaxFaults = 1
SPECIFICATION FairSpec
INVARIANTS RepliesStayInSession AlignedUnlessDisturbed
PROPERTY AcceptedIsAnswered
CHECK_DEADLOCK FALSE
