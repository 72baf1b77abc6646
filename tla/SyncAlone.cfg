SPECIFICATION Spec
CONSTANTS
    Paths = {p1, p2}
    Hidden = {}
    Data = {d1}
    Stamps = {1, 2, 3}
    Callers = {c1}
    None = None
    DeleteRemote = TRUE
    PullAlways = FALSE
    VaultWrites = "between calls"
    BucketWrites = "untracked"
    Faults = TRUE
    Unreadable = TRUE
SYMMETRY PathSymmetry
PROPERTIES VaultIsTruth FailureKeepsEntries CutShortStops
