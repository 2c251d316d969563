SPECIFICATION Spec
CONSTANTS
    Process = {h1, h2}
    None = None
    Client = {c1}
    Part = {a, b}
    Value = {v, w}
    Proxy = {x}
    Machine = {m}
    MaxVersion = 2
SYMMETRY Symmetry
INVARIANT TypeOK
INVARIANT SameVersionSameContent
PROPERTY NoLostEdit
PROPERTY DeletedStaysDeleted
PROPERTY OnlyEditsMakeStale
