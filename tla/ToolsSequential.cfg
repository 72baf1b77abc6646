SPECIFICATION ToolsSpec
CONSTANTS
    Paths = {p1}
    Hidden = {}
    Pieces = {a, b}
    Data = {{a}, {b}, {a, b}}
    Stamps = {1, 2, 3, 4}
    Callers = {c1}
    None = None
    DeleteRemote = TRUE
    PullAlways = FALSE
    VaultWrites = "any time"
    BucketWrites = "between calls"
    Faults = TRUE
    Unreadable = FALSE
    Served = {"read_note", "list_notes", "create_note", "update_note", "append_note", "delete_note", "sync_now", "sync_status"}
    Scopes = {"notes:read", "notes:write", "notes:delete", "sync:run"}
    AllowDelete = TRUE
SYMMETRY PieceSymmetry
INVARIANTS ToolsTypeOK
PROPERTIES SyncImplemented OkMeansMirrored AnswerTellsVault
