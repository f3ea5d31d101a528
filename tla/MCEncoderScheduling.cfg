CONSTANTS
    Requests = {1, 2, 3}
    h1 = h1
    h2 = h2
    h3 = h3
    Hashes = {h1, h2, h3}
    Embeds <- MCEmbeds
    CacheSize = 3
    PromptLen <- MCPromptLen
    Inputs <- MCInputs
    HitLengths = {0, 1}
    MaxNumSeqs = 2
    TokenBudget = 4
    EncoderBudget = 2
    MaxConcurrentBatches = 2
    MaxPreemptions = 1
    MaxResets = 1
    Configs <- MCConfigs
SPECIFICATION FairSpec
CHECK_DEADLOCK FALSE
INVARIANTS
    EncoderSlotsAccounted
    NoEncoderCacheMiss
    WorkerHoldsNoMore
    NoStaleReferences
PROPERTIES
    EveryRequestEnds
