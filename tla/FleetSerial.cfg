\* Two processes, one launch at a time, everything in time.
SPECIFICATION Spec
CONSTANTS
    Holder = {h1, h2}
    Profile = {p1, p2}
    NoOne = NoOne
    TTL = 2
    Beat = 1
    Unlockable = {}
    Busy = {}
    Session <- MCSession
    ProcessOf <- MCProcessOf
    ProfileOf <- MCProfileOf
    Late = {}
    Serial = TRUE
    DriverFails = FALSE
INVARIANT TypeOK
INVARIANT Exclusive
INVARIANT LeaseCoversBrowser
INVARIANT NoStrandedLease
PROPERTY HandsOver
SYMMETRY Symmetry
CHECK_DEADLOCK FALSE
