SPECIFICATION PagesSpec
CONSTANTS
    Handlers = {h1, h2}
    Addresses = {home}
    MaxFailed = 2
    MaxPages = 3
    MaxCounter = 1
    MaxLost = 1
SYMMETRY Symmetry
VIEW PagesView
INVARIANTS
    GrantedOnlyApproved
    GrantedOnce
    EnrolledIsHeld
PROPERTIES
    LockedAfterFailures
CHECK_DEADLOCK FALSE
