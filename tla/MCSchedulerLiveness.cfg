\* Both policies, a fair engine loop, nobody aborts.
CONSTANTS
    Requests = {1, 2}
    Token = {1, 2}
    Prompts <- MCPrompts
    NumBlocks = 3
    BlockSize = 2
    MaxModelLen = 5
    NumLookahead = 0
    EnableCaching = TRUE
    UseEagle = FALSE
    Priority <- MCPriority
    None = None
    MaxNumSeqs = 2
    MaxNumBatchedTokens = 3
    LongPrefillThreshold = 0
    Configs <- MCPolicies
SPECIFICATION FairSpec
INVARIANTS
    BatchWithinLimits
PROPERTIES
    EveryRequestFinishes
