\* Profiles may be created, copied and deleted while another process cleans up.
SPECIFICATION Spec
CONSTANTS
    Process = {h1, h2}
    Profile = {p1}
    None = None
    Apart = {"export"}
PROPERTY OnlyDeletionTakesFiles
