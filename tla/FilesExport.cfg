\* A browser may start while its directory is being copied.
SPECIFICATION Spec
CONSTANTS
    Process = {h1, h2}
    Profile = {p1}
    None = None
    Apart = {"cleanup"}
INVARIANT ArchiveIsWhole
