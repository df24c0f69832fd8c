SPECIFICATION Spec
CONSTANTS
    Chats = {a, b}
    None = none
    Texts = {hi}
    NoText = empty
    MaxSends = 2
    MaxPastes = 2
    MaxFaults = 2
    MaxMoves = 2
INVARIANT FilesStayInChat
SYMMETRY Exchange
CHECK_DEADLOCK FALSE
