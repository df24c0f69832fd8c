SPECIFICATION FairSpec
CONSTANTS
    Chats = {a}
    NoChat = none
    MaxSends = 1
    SendText <- DistinctTexts
    MaxNews = 1
    MaxReacts = 1
    MaxFaults = 1
    MaxFetches = 1
    StreamCap = 1
    MaxEpoch = 0
INVARIANTS NoDoubleRender
PROPERTIES Converges LoadingEnds
CHECK_DEADLOCK FALSE
