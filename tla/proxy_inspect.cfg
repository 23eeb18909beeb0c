CONSTANTS
    p = p
    q = q
    b = b
    x = x
    y = y
    Targets = {p, q}
    Upgradable <- ItsSlots
    Beacons = {b}
    Impls = {x, y}
    Admin = Admin
    None = None
    Inspectors = {i1, i2}
    Born <- TwoContracts
    TTL = 1
    MaxEntries = 1
    MaxTime = 1
    MaxChanges = 2
SPECIFICATION Spec
SYMMETRY Threads
INVARIANTS
    Fresh
CHECK_DEADLOCK FALSE
