\* What is kept: tapes, drafts, sessions, tokens, registry, runs, glossary, tracker.
SPECIFICATION StoresSpec
CONSTANTS
    u1 = u1  u2 = u2  old = old  new = new  f1 = f1  f2 = f2
    Uploader <- TwoUploaders
    Wants <- TwoNames
    Deleter = {d1}
    Archiver = {a1, a2}
    UploadId = {id}
    MaxUploads = 2
    MaxArchives = 2
    TapeScenarios <- Scenarios
    DraftRequest = {r1, r2}
    Text = {x, y}
    MaxChains = 1
    MaxVersions = 3
    MaxDraftCrashes = 1
    Browser = {b1, b2}
    Form = {w1, w2}
    NewPassword = new1
    NoPassword = NoPassword
    IdleTimeout = 3
    AbsoluteLifetime = 5
    MaxNow = 4
    MaxSessions = 2
    MaxLocks = 1
    Script = {s1, s2}
    Page = {p1, p2}
    TouchInterval = 2
    MaxTokenNow = 3
    MaxMints = 2
    MaxTokenLocks = 1
    NoDraft = NoDraft
    Nobody = Nobody
    Opener = {old, new}
    HeadOf <- TwoHeads
    Registries <- LeftRegistries
    MeetingRow = {1}
    MaxRunRows = 3
    MaxOpens = 4
    NotReserved = NotReserved
    Surface = {x1, x2}
    Folder = {f1, f2}
    NameOf <- OneName
    MaxCalls = 3
    MaxRefusals = 1
    Unset = Unset
    Ladder <- OneLadder
    Fitting = 2
    Roomy = TRUE
    Preference <- OnePreference
    Asks <- SomeAsks
    Environs <- SomeEnvirons
    Workspaces <- SomeWorkspaces
    Fetches <- SomeFetches
    Installs <- SomeInstalls
    Worlds <- SomeWorlds
    MaxRequests = 2
    MaxChanges = 1
    Term = {1, 2}
    Spelling = {g1, g2}
    Editor = {e1, e2}
    MaxTermEdits = 3
    MaxFileEdits = 1
    MaxRunsHeard = 2
    Tickets = {1, 2}
    Commented = {1}
    Closing = {1}
    BlockedBy <- FirstBlockedBySecond
    Pages = {q1}
    MaxImports = 3
    MaxFaults = 2
    MaxEdits = 1
    Numbers = {1, 2, 3, 4}
    Sample = 1
    PageNames = {q2}
    MaxDrills = 2
    MaxWork = 1
INVARIANTS
    StoresTypeOK
    TapesHold
    ReviewsHold
    RegistryHolds
    RequestsHold
    ScriptsHold
PROPERTIES
    StepsHold
CHECK_DEADLOCK FALSE
