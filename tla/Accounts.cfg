SPECIFICATION Spec
CONSTANTS
    Process = {h1, h2, shell}
    Shell = shell
    None = None
    Account = {i, j, k}
    Name = {m, n}
    Password = {v, w}
    Token = {t, u}
SYMMETRY Symmetry
INVARIANT TypeOK
INVARIANT SessionsBelong
PROPERTY RevocationReaches
