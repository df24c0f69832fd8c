SPECIFICATION Spec
CONSTANTS
    Tools = {search}
    Cap = 1
    MaxRounds = 2
    MaxQuestions = 2
    MaxTokens = 1
    MaxCalls = 1
INVARIANTS
    SomeoneListens
    AnswerInOrder
    OneAnswerAtATime
PROPERTIES
    LateEventsIgnored
VIEW Live
CHECK_DEADLOCK FALSE
