SPECIFICATION ToolsSpec
CONSTANTS
    Paths = {p1}
    Hidden = {}
    Pieces = {a, b}
    Data = {{a}, {b}, {a, b}}
    Stamps = {1, 2, 3, 4}
    Callers = {c1}
    None = None
    DeleteRemote = TRUE
    PullAlways = FALSE
    VaultWrites = "any time"
    BucketWrites = "never"
    Faults = TRUE
    Unreadable = FALSE
    Served = {"update_note", "sync_now"}
    Scopes = {"notes:read", "notes:write", "notes:delete", "sync:run"}
    AllowDelete = TRUE
PROPERTIES PushMirrors
