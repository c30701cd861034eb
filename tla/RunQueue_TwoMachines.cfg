\* Owners that cannot be probed (the heartbeat decides), tapes that go away.
SPECIFICATION Spec
CONSTANTS
    m1 = m1  m2 = m2  p1 = p1  p2 = p2  c1 = c1  c2 = c2
    hostA = hostA  hostB = hostB  None = None
    Meeting <- OneMeeting
    Process <- TwoProcesses
    Client <- OneClient
    Home <- ClientOfP1
    Machine <- OtherMachines
    HostName <- OtherMachines
    Build <- SameBuild
    MaxRuns = 2
    MaxPid = 2
    PidReuse = FALSE
    MaxClock = 2
    StaleAfter = 1
    MaxErrors = 0
    TapesMayGo = TRUE
INVARIANTS
    StoppedWasAsked
PROPERTIES
    ReapsOnlyTheSilent
    FollowsLifecycle
