SPECIFICATION FairSpec
CONSTANTS
    Chats = {a, b}
    Names = {jo}
    None = none
    Empty = empty
    Unreadable = unreadable
    MaxStarts = 2
    MaxWait = 1
    MaxMishaps = 1
    MaxEdits = 1
INVARIANTS DecisionsKept
PROPERTIES QuitIsRemembered StartupEnds LostWriteIsRetried
CHECK_DEADLOCK FALSE
