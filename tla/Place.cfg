SPECIFICATION Spec
CONSTANTS
    None = None
    pool = pool
    here = here
    berlin = berlin
    tokyo = tokyo
    Proxy = {pool}
    Address = {here, berlin, tokyo}
    Zone = {"UTC", "Europe/Berlin", "Europe/Paris", "Asia/Tokyo"}
    UTC = "UTC"
    Km = {800, 801}
    Exits <- MCExits
    ZoneOf <- MCZoneOf
    KmOf <- MCKmOf
    Offset <- MCOffset
INVARIANT TypeOK
INVARIANT CheckMatchesProxy
INVARIANT CheckForetells
INVARIANT ClockFollowsExit
