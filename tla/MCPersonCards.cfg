SPECIFICATION Spec
CONSTANTS
    ana = ana
    ben = ben
    anaFile = anaFile
    benFile = benFile
    People <- TwoPeople
    Slugs <- TwoFiles
    SlugOf <- FilePerPerson
    Fields = {city}
    Tools = {tool}
    Sweeper = sweeper
    Hand = hand
    None = none
    Absent = absent
    Broken = broken
    Scraps = scraps
    Max = 1
    MaxEdits = 1
    MaxUses = 1
    MaxMishaps = 1
INVARIANTS FactsOfOnePerson SweptOncePerCooldown
PROPERTIES OnlyStaleWritersOverwrite
SYMMETRY Exchange
VIEW Live
CHECK_DEADLOCK FALSE
