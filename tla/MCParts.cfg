\* Parts of the gateway and of the agent, one at a time.  They stop for good when
\* they are shut down, have answered what they were asked or reach their bounds.
SPECIFICATION Spec
CONSTANTS
    Job = {"j1", "j2"}
    AtJob = {"j1"}
    ConfigJob = {"j2"}
    Client = {c1, c2}
    MaxInstance = 2
    MaxStops = 2
    MaxTurns = 2
    MaxText = 3
    ChunkLen = 2
    MaxRetries = 2
    MaxPostFaults = 1
    Person = {"ana", "bo"}
    Room = {"r1", "r2"}
    SlackUser = {"U1", "U2"}
    Conversation = {"C1", "C2"}
    Thread = {"T1"}
    User = {"u1", "u2"}
    Address = {"reply", "other"}
    Native = {"skill_exec"}
    MaxStep = 3
    MaxAsked = 2
    Goroutine = {g1, g2}
    MaxGrant = 3
    MaxTokenFaults = 1
    Execution = {e1, e2}
    Secret = {"SSH_KEY", "CERT"}
    Process = {p1, p2}
    KeepLines = 1
    MaxLine = 3
    MaxFile = 3
    MaxUpset = 1
    WindowMax = 10
    TrainedMax = 20
    Configured = 8
    ThresholdPct = 60
    Bases = {1, 2}
    CompactKeep = 2
    CommandKeep = 3
    Size = {1, 3}
    MaxHistory = 8
INVARIANTS
    AtFiresAtMostOnce
    WhatFiresIsStored
    AnswersArriveWhole
    TypingEnds
    AnswersGoHome
    OneOutcomePerTurn
    RepeatsAreBounded
    KeptTokensAreHonoured
    NothingLeftBehind
    SecretsReachTheSkill
    LinesOutliveProcesses
    PromptsFitTheWindow
CONSTRAINT Claimed
CHECK_DEADLOCK FALSE
