\* A group may be renamed to the name of another.
SPECIFICATION Spec
CONSTANTS
    Process = {h1, h2}
    None = None
    Group = {g1, g2}
    Name = {n1, n2}
    Profile = {p1}
    Client = {c1}
    Keep = Keep
    FreshNames = FALSE
    MaxVersion = 2
PROPERTY NoOneLeftBehind
