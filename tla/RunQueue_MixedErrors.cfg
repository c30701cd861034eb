\* An older and a newer build over one registry, two registry errors anywhere.
SPECIFICATION Spec
CONSTANTS
    m1 = m1  m2 = m2  p1 = p1  p2 = p2  c1 = c1  c2 = c2
    hostA = hostA  hostB = hostB  None = None
    Meeting <- TwoMeetings
    Process <- TwoProcesses
    Client <- OneClient
    Home <- ClientOfP2
    Machine <- SameMachine
    HostName <- SameMachine
    Build <- OlderBuild
    MaxRuns = 2
    MaxPid = 2
    PidReuse = FALSE
    MaxClock = 0
    StaleAfter = 1
    MaxErrors = 2
    TapesMayGo = FALSE
SYMMETRY MeetingSymmetry
INVARIANTS
    FinishedMeansDone
PROPERTIES
    FirstComeFirstServed
CHECK_DEADLOCK FALSE
