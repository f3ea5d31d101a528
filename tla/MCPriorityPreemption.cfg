\* The priority policy with blocks of one token and prefill chunks of two.
CONSTANTS
    Requests = {1, 2}
    Token = {1, 2}
    Prompts <- MCLongPrompts
    NumBlocks = 7
    BlockSize = 1
    MaxModelLen = 7
    NumLookahead = 0
    EnableCaching = TRUE
    UseEagle = FALSE
    Priority <- MCPriority
    None = None
    MaxNumSeqs = 2
    MaxNumBatchedTokens = 3
    LongPrefillThreshold = 2
    Configs <- MCPriorityPolicy
SPECIFICATION SchedSpec
INVARIANTS
    CachedBlocksAreComputed
