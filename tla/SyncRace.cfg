SPECIFICATION Spec
CONSTANTS
    Paths = {p1}
    Hidden = {}
    Data = {d1, d2}
    Stamps = {1, 2, 3, 4}
    Callers = {c1}
    None = None
    DeleteRemote = TRUE
    PullAlways = FALSE
    VaultWrites = "any time"
    BucketWrites = "between calls"
    Faults = FALSE
    Unreadable = FALSE
PROPERTIES OnlyCleanOverwritten
