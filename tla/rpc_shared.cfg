CONSTANTS
    Callers = {a, b}
    NumUrls = 2
    Modes = {"sync", "async"}
    StrictMode = FALSE
    MinCount = 1
    RatioNum = 0
    RatioDen = 1
    SpreadThreshold = 1
    FailureThreshold = 2
    Operator = TRUE
    MaxHeight = 2
    MaxCalls = 3
SPECIFICATION FairSpec
INVARIANTS
    TypeOK
    BreakerMatchesFailures
    OneBinding
    BoundHasBlock
PROPERTIES
    BreakerSpec
    CallsEnd
CHECK_DEADLOCK FALSE
