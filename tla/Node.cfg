\* The threads of one node: its manager's, its emitter's, a pool's and its servers'.
SPECIFICATION NodePartsSpec
CONSTANTS
    e1 = e1  e2 = e2  a = a  b = b  c1 = c1  c2 = c2  s1 = s1  t1 = t1
    None = None  Stop = Stop  NoServer = NoServer
    Event <- MCEvent
    Endpoint <- MCEndpoint
    Unsigned <- MCUnsigned
    MaxAttempts = 2
    Caller <- TwoCallers
    MaxRuns = 2
    MaxShutdowns = 2
    Server = {s1, t1}
    Tray = t1
    PortPlans <- TwoPlans
    Supervised = {s1}
    NodeEvents = {"serve", "disk", "lock", "stop", "fault", "kill", "revoke", "tray", "slow"}
    MaxNodeEvents = 4
    MaxTokens = 3
    Chunks = 3
    Workers = 2
    Stubborn = {3}
    SlowLaunch = FALSE
INVARIANTS
    NodePartsTypeOK
    ThreadsHold
    NothingLostOrReordered
    OutcomeIsTrue
    NodeFilesHold
PROPERTIES
    FlushTellsTheTruth
    NodeAnswers
CHECK_DEADLOCK FALSE
