SPECIFICATION Spec
CONSTANTS
    Chats = {a}
    None = none
    Texts = {hi}
    NoText = empty
    MaxSends = 2
    MaxPastes = 2
    MaxFaults = 2
    MaxMoves = 2
INVARIANTS ArrivesInOrder KeptUntilSent
VIEW Unnamed
CHECK_DEADLOCK FALSE
