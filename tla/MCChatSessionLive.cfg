SPECIFICATION FairSpec
CONSTANTS
    Tools = {search}
    Cap = 1
    MaxRounds = 1
    MaxQuestions = 2
    MaxTokens = 1
    MaxCalls = 1
PROPERTIES
    CancelledEnds
    ResponseEnds
CHECK_DEADLOCK FALSE
