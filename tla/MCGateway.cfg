CONSTANTS
    u1 = u1  s1 = s1  s2 = s2  m1 = m1  m2 = m2  m3 = m3
    r1 = r1  r2 = r2  r3 = r3  r4 = r4  d1 = d1  d2 = d2  k1 = k1
    NoKey = NoKey
    Request <- QRequest
    Msg <- QMsg
    MsgOf <- QMsgOf
    Session <- MCSession
    SessionOf <- QSessionOf
    User <- MCUser
    UserOf <- MCUserOf
    DedupKey <- MCDedupKey
    DedupKeyOf <- QDedupKeyOf
    Cron = {}
    Collecting = {}
    Interrupting <- QInterrupting
    CollectKey <- MCCollectKey
    CollectKeyOf <- QCollectKeyOf
    CollectCap = 2
    QueueCap = 1
    Window = 1
    MaxTime = 3
    MaxFaults = 1
SPECIFICATION Spec
INVARIANT OneReplyPerContext
PROPERTY OncePerWindow
CHECK_DEADLOCK FALSE
