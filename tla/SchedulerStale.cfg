SPECIFICATION Spec
CONSTANTS
    s1 = s1
    s2 = s2
    p1 = p1
    Schedule = {s1, s2}
    Profile = {p1}
    None = None
    ProfileOf <- MCProfileOf
    RunFor <- MCRunFor
    Refresh = {s1}
    Every = {2}
    Longest = 2
    MaxPass = 1
    SlotsPerDay = 2
    Times = {0, 1}
    DaySets = {{}, {0}, {2, 5, 6}}
    Lengths = {1, 3}
    Instants <- MCInstants
PROPERTY DeletedStaysDeleted
