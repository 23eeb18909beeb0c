CONSTANTS
    TailLimit = 25
    r1 = r1
    r2 = r2
    r3 = r3
    c1 = c1
    c2 = c2
    s1 = s1
    s2 = s2
    Requests = {r1, r2}
    Kind <- KindFullValidate
    Clients = {c1}
    ClientOf <- OneClient2
    Shared = {s1}
    SessionOf <- SharedOwn
    Agent = {}
    Prepared = FALSE
    HookMode = "enforce"
    Registered = {}
    Coroutines = {}
    RequireGate = FALSE
    Drafts = {"good", "bad"}
    Valid = {"good"}
    Cancels = FALSE
    OwnerCloses = FALSE
    MaxInFlight = 2
SPECIFICATION Spec
INVARIANTS
    EvidenceIsOwn
