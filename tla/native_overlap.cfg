\* A client that leaves before its headers are written.
CONSTANTS
    Handlers = {h1, h2}
    Keys = {k1}
    NoKey = NoKey
    Nobody = Nobody
    MultiUser = 2
    OtherModels = FALSE
    Kinds = {"stream"}
    RequestKeys = {k1, NoKey}
    AbortKeys = {}
    MaxTokens = 1
    DelayLimit = 0
    SplitUpdates = FALSE
    ClientLeaves = TRUE
    SlowPrep = FALSE
SPECIFICATION Spec
INVARIANTS OneInNative
