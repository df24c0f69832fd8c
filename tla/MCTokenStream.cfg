SPECIFICATION StreamSpec
CONSTANTS
    Replies <- SomeReplies
    MaxChunk = 4
    MaxLearns = 1
    LengthOf <- Lengths
    Numbers <- TokenNumbers
    Indexes <- SomeIndexes
INVARIANTS NothingLost NoWrongName ShowsFinalText NamesBecomeTokens NamesComeBack
CHECK_DEADLOCK FALSE
