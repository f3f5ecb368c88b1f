\* Requests, aborts, context shifting and a banned phrase, with and without a
\* draft model.
CONSTANTS
    Prompts <- ManyPrompts
    Bos = 0
    Eos = 8
    Sampled = {6, 7}
    NCtx = 11
    NPredict = 5
    NBatch = 3
    Shift = TRUE
    Shortfall = 3
    Slack = 1
    Drafts = {TRUE, FALSE}
    Smart = {}
    Common = 1
    Chunk = 2
    Phrase <- TwoSevens
    DelayLimit = 2
    Saves = {FALSE}
    Faults = {}
    NoState = NoState
SPECIFICATION Spec
INVARIANTS SamplesItsContext CacheMatches EvalFits WindowKept PhraseHidden
VIEW Essence
