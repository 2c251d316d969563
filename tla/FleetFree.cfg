SPECIFICATION Spec
CONSTANTS
    Holder = {h1, h2}
    Profile = {p1}
    NoOne = NoOne
    TTL = 2
    Beat = 1
    Unlockable = {p1}
    Busy = {h1}
    Session <- MCSession
    ProcessOf <- MCProcessOf
    ProfileOf <- MCProfileOf
    Late = {"beat", "start", "teardown"}
    Serial = FALSE
    DriverFails = TRUE
INVARIANT CleanExit
PROPERTY NoLeaseStolen
PROPERTY DeadLeaseRunsDown
CHECK_DEADLOCK FALSE
