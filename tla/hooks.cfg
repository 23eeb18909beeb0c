SPECIFICATION FairSpec
CONSTANTS
    function = function
    coroutine = coroutine
    stuck = stuck
    c1 = c1
    c2 = c2
    Calls <- MCCalls
    Plans <- MCPlans
    Modes = {"legacy", "warn", "shadow", "enforce"}
    Points <- MCPoints
    Bare <- MCBare
    PatchPoints <- MCPatchPoints
    TracePoints <- MCPoints
    Callbacks <- MCCallbacks
    Coroutines = {coroutine}
    Hanging = {stuck}
    ReturnsOf <- MCReturns
    Registries <- MCRegistries
    Addable <- MCAddable
    MaxChanges = 1
    MaxLength = 2
    Workers = 1
INVARIANTS
    TypeOK
    OnlyPatchesArrive
    ResultsAreHonest
PROPERTIES
    TimedOutNeverStarts
    TimedCallsEnd
CHECK_DEADLOCK FALSE
