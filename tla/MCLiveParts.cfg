\* What keeps connections and services going, one part at a time.  They stop for
\* good when they are shut down or reach their bounds.
SPECIFICATION Spec
CONSTANTS
    Checked = {"broker", "channels", "loader", "lifecycle", "monitor", "heartbeat"}
    MaxLosses = 3
    ChannelUser = {u1, u2}
    InboxUser = u1
    CMsg = {m1}
    MaxChannelFaults = 3
    Owner = {o1, o2}
    OverdueAfter = 1
    MaxChanges = 3
    MaxReadFaults = 1
    Server = {1, 2}
    Remote = {1}
    Worker = {w1, w2}
    MaxSession = 3
    MaxDrops = 1
    MaxMishaps = 1
INVARIANTS
    ClosedExceptLate
    AckedMeansRouted
    UsedPartsRun
    ToolsAreLive
PROPERTIES
    BrokerRecovers
    ChannelRecovers
    ShutdownEnds
    HealthViewCatchesUp
    ServersComeBack
CHECK_DEADLOCK FALSE
