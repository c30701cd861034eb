\* The stages of the pipeline over one workspace, each interrupted anywhere.
SPECIFICATION PipelineSpec
CONSTANTS
    k1 = k1  k2 = k2  t1 = t1  t2 = t2  large = large  turbo = turbo  None = None
    x = x  y = y  NoDoc = NoDoc
    Documents = 2
    Bytes <- TwoBytes
    MaxRuns = 2
    Chunk <- TwoChunks
    Term <- TwoTerms
    Plan <- TwoPlans
    Workers = 2
    MaxPasses = 3
    FileName <- TapeNames
    Proposes <- TapeProposes
    Stamped = {"take-2.wav"}
    SourceTape = {"A", "B", "C"}
    ChannelsOf <- TapeChannels
    Folders <- TapeFolders
    NoTape = NoTape
    MaxIngests = 2
    MaxDirEdits = 1
    MaxDeclarations = 1
    Microphone = {1, 2}
    Piece = {1, 2}
    MaxNamingPasses = 3
    Recordings = {1, 2}
    LengthOf <- TwoLengths
    ChunkTicks = 2
    OverlapTicks = 1
    JoinGap = 1
    MaxCue = 3
    MaxLag = 4
    AlignWindow = 1
    VoteTolerance = 0
    MinVotes = 2
    Strong = 2
    Peaks = {1, 2}
    MaxVotes = 2
    Words = {"a", "b"}
    Noise = "noise"
    Confidences <- TwoConfidences
    Lags <- TwoLags
    Gaps = {3}
    u1 = u1  u2 = u2  u3 = u3  m1 = m1  m2 = m2  pinned = pinned  custom = custom
    Process = {m1, m2}
    Asker = {u1, u2, u3}
    ProcessOf <- ProcessOfEach
    Model = {pinned, custom}
    Pinned = {pinned}
    Helper = helper
    Nobody = nobody
    FetchEvents = {"cut", "fails", "kill"}
    MaxFetchEvents = 2
    MaxAsks = 3
    Checker = {u1, u2, u3}
    NodeOf <- ProcessOfEach
    NoChecker = nochecker
    CheckEvents = {"novoice", "nobackend", "nomodel", "kill"}
    MaxCheckEvents = 2
    MaxClicks = 4
INVARIANTS
    PipelineTypeOK
    ProvenanceHolds
    SourcesAndTranscriptHold
    FilesHold
PROPERTIES
    FinishedPassIsCurrent
    CarriedIsUnaffected
    ResumeKeepsWork
    PipelineSteps
    DeclarationsFollowTheAudio
CHECK_DEADLOCK FALSE
