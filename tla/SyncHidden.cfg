SPECIFICATION Spec
CONSTANTS
    Paths = {p1}
    Hidden = {p1}
    Data = {d1}
    Stamps = {1, 2, 3, 4}
    Callers = {c1}
    None = None
    DeleteRemote = TRUE
    PullAlways = FALSE
    VaultWrites = "between calls"
    BucketWrites = "never"
    Faults = FALSE
    Unreadable = FALSE
PROPERTIES PurgeFollowsDelete
