SPECIFICATION Spec
CONSTANTS
    Process = {h1, h2}
    Profile = {p1, p2, p3}
    None = None
    Apart = {"export", "cleanup"}
SYMMETRY Symmetry
INVARIANT TypeOK
INVARIANT ArchiveIsWhole
PROPERTY OnlyDeletionTakesFiles
PROPERTY CleanupSettles
