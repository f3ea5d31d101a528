\* Two workers, a ring of two chunks that is filled more than once, calls to all
\* workers that need the socket, and steps of the model that may fail.
CONSTANTS
    NumReaders = 2
    MaxChunks = 2
    Messages <- Calls
    Large <- CallsToAll
    Nothing = Nothing
    Overflow = Overflow
    TotalStoreOrder = TRUE
    OutputRank = 1
    MaxCalls = 3
    Settings <- MCSettings
SPECIFICATION FairSpec
CHECK_DEADLOCK FALSE
INVARIANTS
    ChunkIsStable
    AnswersBelongToCall
PROPERTIES
    ImplementsBroadcastChannel
    EveryCallReturns
