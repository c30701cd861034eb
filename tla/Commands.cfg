\* The processes around a node.
SPECIFICATION CommandsSpec
CONSTANTS
    Follower = {c1}
    Client = {c2}
    MaxStream = 2
    AheadAtFirst = 1
    NeverRead = NeverRead
    Command = {c1, c2}
    Stranger = stranger
    NoNode = nonode
    Deadline = 3
    Grace = 2
    Startup = 1
    StartEvents = {"dies", "nospawn", "lost"}
    MaxStartEvents = 1
    MaxNow = 6
    Console = {c1, c2}
    Operator = operator
    NoOwner = noowner
    MappingEvents = {"daemon", "operator", "noname", "slow", "stubborn", "end", "signal", "error", "kill"}
    MaxMappingEvents = 4
    Tester = {c1}
    Tokens = 2
    EmptyProbes = 1
    MaxSurplus = 1
    MaxInits = 2
    MaxKeepers = 2
    MaxKills = 2
INVARIANTS
    CommandsTypeOK
    CommandsHold
    ChildrenHold
PROPERTIES
    CommandsAnswer
CHECK_DEADLOCK FALSE
