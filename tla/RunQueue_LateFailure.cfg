\* An error after the terminal write.
SPECIFICATION Spec
CONSTANTS
    m1 = m1  m2 = m2  p1 = p1  p2 = p2  c1 = c1  c2 = c2
    hostA = hostA  hostB = hostB  None = None
    Meeting <- OneMeeting
    Process <- OneProcess
    Client <- OneClient
    Home <- ClientOfP1
    Machine <- SameMachine
    HostName <- SameMachine
    Build <- SameBuild
    MaxRuns = 1
    MaxPid = 1
    PidReuse = FALSE
    MaxClock = 0
    StaleAfter = 1
    MaxErrors = 1
    TapesMayGo = FALSE
PROPERTIES
    OnlyInFlightRunsFail
CHECK_DEADLOCK FALSE
