CONSTANTS
    TailLimit = 25
    r1 = r1
    r2 = r2
    r3 = r3
    c1 = c1
    c2 = c2
    s1 = s1
    s2 = s2
    Requests = {r1, r2, r3}
    Kind <- KindMixed
    Clients = {c1}
    ClientOf <- OneClient3
    Shared = {s1}
    SessionOf <- SessionMixed
    Agent = {}
    Prepared = FALSE
    HookMode = "enforce"
    Registered = {"PRE_VALIDATE", "POST_VALIDATE", "PRE_SIMULATION", "POST_SIMULATION", "LAYER_L5", "LAYERS"}
    Coroutines = {"PRE_VALIDATE", "POST_VALIDATE", "PRE_SIMULATION", "POST_SIMULATION", "LAYER_L5"}
    RequireGate = TRUE
    Drafts = {"good", "bad"}
    Valid = {"good"}
    Cancels = TRUE
    OwnerCloses = FALSE
    MaxInFlight = 2
SPECIFICATION FairSpec
INVARIANTS
    TypeOK
    EvidenceIsOwn
    SimulatedIsValid
    GateIsEarned
    
PROPERTIES
    Ends
