SPECIFICATION FairSpec
CONSTANTS
    Holder = {h1, h2}
    Profile = {p1}
    NoOne = NoOne
    TTL = 2
    Beat = 1
    Unlockable = {p1}
    Busy = {}
    Session <- MCSession
    ProcessOf <- MCProcessOf
    ProfileOf <- MCProfileOf
    Late = {"beat", "start", "teardown"}
    Serial = TRUE
    DriverFails = TRUE
PROPERTY IntruderStandsDown
PROPERTY CrashedLeaseRunsOut
CHECK_DEADLOCK FALSE
