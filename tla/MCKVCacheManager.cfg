SPECIFICATION Spec
CONSTANTS
    r1 = r1
    r2 = r2
    Requests = {r1, r2}
    Token = {1, 2}
    Prompts <- MCPrompts
    NumBlocks = 3
    BlockSize = 2
    MaxModelLen = 4
    NumLookahead = 1
    EnableCaching = TRUE
    UseEagle = FALSE
SYMMETRY MCSymmetry
INVARIANTS
    RefCountIsHolders
    FreeQueueIsUnused
    UncachedBlocksArePrivate
    SharedBlocksSamePrefix
    HashMatchesHolders
    CommonPrefixIsCommon
CHECK_DEADLOCK FALSE
