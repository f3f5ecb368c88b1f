\* Clients leave, threads switch inside updates of the queue length.
CONSTANTS
    Handlers = {h1, h2}
    Keys = {k1}
    NoKey = NoKey
    Nobody = Nobody
    MultiUser = 2
    OtherModels = FALSE
    Kinds = {"stream"}
    RequestKeys = {k1}
    AbortKeys = {k1, NoKey}
    MaxTokens = 1
    DelayLimit = 0
    SplitUpdates = TRUE
    ClientLeaves = TRUE
    SlowPrep = FALSE
SPECIFICATION FairSpec
INVARIANTS LockHeld
PROPERTIES LockReleased
