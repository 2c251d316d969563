SPECIFICATION Spec
CONSTANTS
    Holder = {h1, h2}
    Profile = {p1}
    NoOne = NoOne
    TTL = 2
    Beat = 1
    Unlockable = {}
    Busy = {}
    Session <- MCSession
    ProcessOf <- MCProcessOf
    ProfileOf <- MCProfileOf
    Late = {}
    Serial = TRUE
    DriverFails = FALSE
INVARIANT OneDriver
CHECK_DEADLOCK FALSE
