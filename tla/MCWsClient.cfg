SPECIFICATION FairSpec
CONSTANTS
    Cap = 2
    WireCap = 2
    BackoffLen = 2
    MaxEvents = 2
    MaxFaults = 3
    MaxSets = 1
INVARIANTS
    NoSilentGap
    SubscribedBeforeConnected
PROPERTIES
    ImplementsStream
    CloseTerminates
    EventuallyConnected
    HeardOrRefetched
CHECK_DEADLOCK FALSE
