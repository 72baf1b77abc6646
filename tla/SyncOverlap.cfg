SPECIFICATION DuringSpec
CONSTANTS
    Paths = {p1}
    Hidden = {}
    Data = {d1, d2}
    Stamps = {1, 2, 3, 4}
    Callers = {c1, c2}
    None = None
    DeleteRemote = TRUE
    PullAlways = FALSE
    VaultWrites = "any time"
    BucketWrites = "any time"
    Faults = TRUE
    Unreadable = TRUE
SYMMETRY Symmetry
INVARIANTS TypeOK NoLostUpdate
PROPERTIES InSyncLeftAlone KeepsEdits PurgesDeleted RecordsWhatItSent
