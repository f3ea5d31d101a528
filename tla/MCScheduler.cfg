\* First come first served, two batches in flight, three requests for two
\* places and three blocks: every request may be preempted and resumed.
CONSTANTS
    Requests = {1, 2, 3}
    Token = {1, 2}
    Prompts <- MCPrompts
    NumBlocks = 3
    BlockSize = 2
    MaxModelLen = 5
    NumLookahead = 0
    EnableCaching = TRUE
    UseEagle = FALSE
    Priority <- MCPriority
    None = None
    MaxNumSeqs = 2
    MaxNumBatchedTokens = 3
    LongPrefillThreshold = 0
    Configs <- MCPlain
SPECIFICATION SchedSpec
INVARIANTS
    SchedTypeOK
    OutputFollowsTokens
    CachedBlocksAreComputed
    CacheIsPrefixClosed
