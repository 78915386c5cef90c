SPECIFICATION Spec
CONSTANTS
    h1 = h1
    h2 = h2
    Handlers = {h1, h2}
    TTL = 4
    NegTTL = 2
    Skew = 1
    MaxCall = 2
    MaxTime = 99
    MaxVersions = 2
    Overlap = 0
    MaxFails = 1
SYMMETRY Symmetry
VIEW KeysView
INVARIANTS
    AdmittedKeysRecent
    OwnerAdmitted
    AskedSeldom
CHECK_DEADLOCK FALSE
