CONSTANTS
    c1 = c1
    c2 = c2
    t1 = t1
    t2 = t2
    Caches = {c1, c2}
    NoKey = NoKey
    Keys = {k1, k2}
    Users = {t1, t2}
    CacheOf <- OneEach
    MaxEntries = 1
    TTL = 2
    Faulty = {c1}
    MaxTime = 2
    MaxStores = 2
SPECIFICATION FairSpec
INVARIANTS
    TypeOK
    
    OneExpiry
PROPERTIES
    ExpiredRowsGo
CHECK_DEADLOCK FALSE
