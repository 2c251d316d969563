SPECIFICATION Spec
CONSTANTS
    Holder = {h1}
    Profile = {p1}
    NoOne = NoOne
    TTL = 2
    Beat = 1
    Unlockable = {}
    Busy = {h1}
    Session <- MCSession
    ProcessOf <- MCProcessOf
    ProfileOf <- MCProfileOf
    Late = {}
    Serial = TRUE
    DriverFails = TRUE
INVARIANT NoStrandedLease
CHECK_DEADLOCK FALSE
