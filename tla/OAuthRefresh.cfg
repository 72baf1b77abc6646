SPECIFICATION FairSpec
CONSTANTS
    Codes = {}
    RefreshTokens = {r1}
    Users = {u1, u2}
    Clients = {cl}
    s1 = s1
    s2 = s2
    Secrets = {s1, s2}
    ProviderTokens <- GitHubTokens
    StateIds = {}
    ProviderStates = {}
    Times = {0, 2}
    None = None
    MetadataUnreadable = TRUE
    Callers = {c1, c2}
    TicksPerSecond = 2
    MaxNow = 4
    Faults = TRUE
PROPERTIES
    StoreAtomic
    EveryCallReturns
    ExpiryHonoured
