SPECIFICATION Spec
CONSTANTS
    a = a
    b = b
    ca = ca
    cb = cb
    jo = jo
    al = al
    num = num
    both = both
    Accounts = {a, b}
    Users = {jo}
    Chats = {ca, cb}
    AccountOf <- ChatAccounts
    ActiveOf <- ChatActive
    Names = {jo, al, num}
    FullNames = {jo}
    Common = {jo}
    Handles = {num}
    NumberOf <- Numbers
    Usernames = {}
    Phones = {num}
    Emails = {}
    Queries = {jo, al, both}
    WordsOf <- Words
    Begins <- WordBegins
    InOrder <- NoMatches
    Distance <- Distances
    None = none
    MaxSeen = 4
INVARIANTS PeopleAreComponents MergeKeepsEverything NamesakesAreAsked ExactMatchWins
CHECK_DEADLOCK FALSE
