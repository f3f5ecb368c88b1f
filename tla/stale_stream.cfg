\* A remembered abort cancels a streamed request.
CONSTANTS
    Handlers = {h1, h2, h3}
    Keys = {k1}
    NoKey = NoKey
    Nobody = Nobody
    MultiUser = 2
    OtherModels = FALSE
    Kinds = {"stream"}
    RequestKeys = {k1, NoKey}
    AbortKeys = {k1}
    MaxTokens = 1
    DelayLimit = 0
    SplitUpdates = FALSE
    ClientLeaves = FALSE
    SlowPrep = FALSE
SPECIFICATION Spec
INVARIANTS StreamOwn
