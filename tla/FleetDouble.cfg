SPECIFICATION Spec
CONSTANTS
    Holder = {h1}
    Profile = {p1}
    NoOne = NoOne
    TTL = 2
    Beat = 1
    Unlockable = {}
    Busy = {h1}
    Session <- MCSession
    ProcessOf <- MCProcessOf
    ProfileOf <- MCProfileOf
    Late = {}
    Serial = FALSE
    DriverFails = FALSE
INVARIANT OneBrowser
CHECK_DEADLOCK FALSE
