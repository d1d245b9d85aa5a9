\* The retry of an MCP tool call after its reconnect.
SPECIFICATION Spec
CONSTANTS
    Checked = {"loader"}
    MaxLosses = 0
    ChannelUser = {u1}
    InboxUser = u1
    CMsg = {m1}
    MaxChannelFaults = 0
    Owner = {o1}
    OverdueAfter = 1
    MaxChanges = 0
    MaxReadFaults = 0
    Server = {1, 2}
    Remote = {1}
    Worker = {w1, w2}
    MaxSession = 4
    MaxDrops = 1
    MaxMishaps = 1
INVARIANTS
    RetryIsFresh
CHECK_DEADLOCK FALSE
