SPECIFICATION Spec
CONSTANTS
    Process = {h1, h2}
    None = None
    Client = {c1}
    Part = {a}
    Value = {v, w}
    Proxy = {x}
    Machine = {m}
    MaxVersion = 2
INVARIANT NoLockLeftBehind
