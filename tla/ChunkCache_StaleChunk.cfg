\* A glossary edit, cancelled and resumed.
SPECIFICATION Spec
CONSTANTS
    k1 = k1  k2 = k2  t1 = t1  t2 = t2  large = large  turbo = turbo  None = None
    Chunk <- TwoChunks
    Term <- OneTerm
    Plan <- OnePlan
    Workers = 2
    MaxPasses = 3
PROPERTIES
    EditReachesEveryChunk
CHECK_DEADLOCK FALSE
