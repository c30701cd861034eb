\* Two processes that can probe each other (the host was renamed between them), any number of crashes, process ids handed out again.
SPECIFICATION Spec
CONSTANTS
    m1 = m1  m2 = m2  p1 = p1  p2 = p2  c1 = c1  c2 = c2
    hostA = hostA  hostB = hostB  None = None
    Meeting <- OneMeeting
    Process <- TwoProcesses
    Client <- TwoClients
    Home <- ClientsOfOne
    Machine <- SameMachine
    HostName <- OtherMachines
    Build <- SameBuild
    MaxRuns = 2
    MaxPid = 2
    PidReuse = TRUE
    MaxClock = 0
    StaleAfter = 1
    MaxErrors = 0
    TapesMayGo = FALSE
SYMMETRY ClientSymmetry
INVARIANTS
    TypeOK
    OneActivePerMeeting
    OnePipeline
    ExecutesWhatItHolds
PROPERTIES
    EndedRunsStayEnded
    ReapsOnlyOrphans
