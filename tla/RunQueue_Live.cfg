\* Two claimants, crashes, restarts, lost claims, cancels across processes.
SPECIFICATION FairSpec
CONSTANTS
    m1 = m1  m2 = m2  p1 = p1  p2 = p2  c1 = c1  c2 = c2
    hostA = hostA  hostB = hostB  None = None
    Meeting <- TwoMeetings
    Process <- TwoProcesses
    Client <- OneClient
    Home <- ClientOfP1
    Machine <- SameMachine
    HostName <- SameMachine
    Build <- SameBuild
    MaxRuns = 2
    MaxPid = 2
    PidReuse = FALSE
    MaxClock = 0
    StaleAfter = 1
    MaxErrors = 0
    TapesMayGo = FALSE
INVARIANTS
    OneRunningRow
PROPERTIES
    NoRunWaitsForEver
