\* A start that meets a drain thread on its way out.
SPECIFICATION DrainSpec
CONSTANTS
    c1 = c1  c2 = c2
    Caller <- TwoCallers
    MaxRuns = 1
    MaxShutdowns = 1
PROPERTIES
    StartedQueueDrains
CHECK_DEADLOCK FALSE
