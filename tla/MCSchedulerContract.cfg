\* The calls of the KV cache manager.
CONSTANTS
    Requests = {1, 2}
    Token = {1, 2}
    Prompts <- MCPrompts
    NumBlocks = 3
    BlockSize = 2
    MaxModelLen = 5
    NumLookahead = 0
    EnableCaching = TRUE
    UseEagle = FALSE
    Priority <- MCPriority
    None = None
    MaxNumSeqs = 2
    MaxNumBatchedTokens = 3
    LongPrefillThreshold = 0
    Configs <- MCContract
SPECIFICATION SchedSpec
PROPERTIES
    KVContract
