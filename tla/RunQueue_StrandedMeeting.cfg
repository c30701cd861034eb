\* A crash between the end of a run and the write of its meeting.
SPECIFICATION Spec
CONSTANTS
    m1 = m1  m2 = m2  p1 = p1  p2 = p2  c1 = c1  c2 = c2
    hostA = hostA  hostB = hostB  None = None
    Meeting <- OneMeeting
    Process <- OneProcess
    Client <- OneClient
    Home <- ClientOfP1
    Machine <- SameMachine
    HostName <- SameMachine
    Build <- SameBuild
    MaxRuns = 1
    MaxPid = 2
    PidReuse = FALSE
    MaxClock = 0
    StaleAfter = 1
    MaxErrors = 0
    TapesMayGo = FALSE
INVARIANTS
    RunningMeetingHasRun
CHECK_DEADLOCK FALSE
