CONSTANTS
    Requests = {1, 2}
    PromptLen <- MCPromptLen
    MaxTokens = 4
    MaxModelLen = 7
    MaxNumSeqs = 2
    IntervalSteps = 1
    MinDraftTokens = 2
    MaxPreemptions = 1
    MaxResets = 1
    Configs <- MCConfigs
SPECIFICATION FairSpec
CHECK_DEADLOCK FALSE
INVARIANTS
    PlaceholdersAreInFlight
    NoPositionSkipped
    DraftsWithinActiveK
PROPERTIES
    NoUselessStep
    EveryRequestDone
