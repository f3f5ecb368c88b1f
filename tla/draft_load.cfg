\* A saved state is restored under a draft model.
CONSTANTS
    Prompts <- RestorePrompts
    Bos = 0
    Eos = 8
    Sampled = {7, 8}
    NCtx = 10
    NPredict = 3
    NBatch = 3
    Shift = TRUE
    Shortfall = 3
    Slack = 1
    Drafts = {TRUE}
    Smart = {}
    Common = 1
    Chunk = 2
    Phrase <- TwoSevens
    DelayLimit = 2
    Saves = {TRUE}
    Faults = {}
    NoState = NoState
SPECIFICATION Spec
INVARIANTS EvalFits
