\* Two handlers and a queue of one place: all kinds of requests, while clients
\* abort by key and without one.
CONSTANTS
    Handlers = {h1, h2}
    Keys = {k1}
    NoKey = NoKey
    Nobody = Nobody
    MultiUser = 2
    OtherModels = FALSE
    Kinds = {"text", "stream", "model"}
    RequestKeys = {k1, NoKey}
    AbortKeys = {k1, NoKey}
    MaxTokens = 2
    DelayLimit = 1
    SplitUpdates = FALSE
    ClientLeaves = FALSE
    SlowPrep = FALSE
SPECIFICATION Spec
INVARIANTS TypeOK OneInNative QueueExact StreamWhole StreamWaits RunningOwnsOutput
PROPERTIES AbortSticks ImplementsService
