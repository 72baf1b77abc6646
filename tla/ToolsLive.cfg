SPECIFICATION FairToolsSpec
CONSTANTS
    Paths = {p1}
    Hidden = {}
    Pieces = {a}
    Data = {{a}}
    Stamps = {1, 2, 3, 4}
    Callers = {c1, c2}
    None = None
    DeleteRemote = FALSE
    PullAlways = FALSE
    VaultWrites = "any time"
    BucketWrites = "never"
    Faults = TRUE
    Unreadable = FALSE
    Served = {"update_note", "sync_now", "delete_note"}
    Scopes = {"notes:read", "notes:write", "sync:run"}
    AllowDelete = TRUE
PROPERTIES EveryRequestAnswered
