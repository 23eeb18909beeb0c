CONSTANTS
    rt = rt
    mc = mc
    ok = ok
    bad = bad
    mr = mr
    e1 = e1
    e2 = e2
    Absent = Absent
    Mainnet = Mainnet
    Malformed = Malformed
    NoValue = NoValue
    Cases <- PlainCases
    MainRouter = rt
    MainMulticall = mc
    MantleTargets = {ok, mr}
    MantleRouter = mr
    MantleWhite = {mc, rt}
    MantleBlack = bad
    PackRewrites <- ItsRewrites
    MaxBps = 2
    BadEntry = BadEntry
    HandledBy <- ItsSelectors
    Hooked = TRUE
    UintMax = 1
    MaxDepth = 2
    Trees <- Held
    DefaultPolicy <- TheDefault
    Arguments <- AllArguments
    Subjects <- SomeSubjects
    PipelineArguments <- PlainArguments
SPECIFICATION Spec
INVARIANTS
    ApprovedIsBroadcastable
CHECK_DEADLOCK FALSE
