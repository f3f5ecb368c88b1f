\* Evaluations fail, aborts come at any time and prompts are cut down by smart
\* context, with and without a draft model.
CONSTANTS
    Prompts <- StoryPrompts
    Bos = 0
    Eos = 8
    Sampled = {6, 7}
    NCtx = 12
    NPredict = 4
    NBatch = 8
    Shift = FALSE
    Shortfall = 3
    Slack = 1
    Drafts = {TRUE, FALSE}
    Smart = {TRUE, FALSE}
    Common = 1
    Chunk = 2
    Phrase <- TwoSevens
    DelayLimit = 2
    Saves = {}
    Faults = {"decode", "abort"}
    NoState = NoState
SPECIFICATION FairSpec
INVARIANTS TypeOK
PROPERTIES RequestEnds
VIEW Essence
