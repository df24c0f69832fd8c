SPECIFICATION Spec
CONSTANTS
    Chats = {a, b}
    NoChat = none
    MaxSends = 2
    SendText <- EqualTexts
    MaxNews = 0
    MaxReacts = 0
    MaxFaults = 1
    MaxFetches = 2
    StreamCap = 1
    MaxEpoch = 1
INVARIANTS RowsOfCurrentChat LooksSentIsSent OneRequestPerSend
PROPERTIES UnsentStaysOnScreen
SYMMETRY ChatSymmetry
CHECK_DEADLOCK FALSE
