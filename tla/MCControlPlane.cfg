CONSTANTS
    u1 = u1  a1 = a1  p1 = p1  p2 = p2  t1 = t1  t2 = t2
    User = {u1}
    Agent = {a1}
    UserOf <- MCUserOf
    Proc = {p1, p2}
    AgentOf <- MCAgentOf
    Token = {t1, t2}
    LimitKey = {t1, t2}
    NoToken = NoToken
    NoProc = NoProc
    Window = 1
    MaxEvents = 1
    MaxTrouble = 2
    FirstToken <- MCFirstToken
SPECIFICATION Spec
INVARIANTS AtMostMaxPerWindow NoOrphanAccount OldConnectionsAreCut
PROPERTIES RevocationSticks LoneAgentConnects
CHECK_DEADLOCK FALSE
