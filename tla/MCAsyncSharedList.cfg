CONSTANTS
    Requests = {1, 2}
    PromptLen <- MCPromptLen
    MaxTokens = 12
    MaxModelLen = 16
    MaxNumSeqs = 2
    IntervalSteps = 1
    MinDraftTokens = 2
    MaxPreemptions = 0
    MaxResets = 0
    Configs <- MCAdaptive
SPECIFICATION Spec
CHECK_DEADLOCK FALSE
INVARIANT PlaceholdersAreInFlight
