SPECIFICATION FairSpec
CONSTANTS
    Codes = {k1}
    RefreshTokens = {}
    Users = {u1}
    Clients = {cl}
    s1 = s1
    s2 = s2
    Secrets = {s1, s2}
    ProviderTokens <- GitHubTokens
    StateIds = {t1, t2}
    ProviderStates = {q}
    Times = {0, 3}
    None = None
    MetadataUnreadable = FALSE
    Callers = {c1, c2}
    TicksPerSecond = 2
    MaxNow = 4
    Faults = TRUE
INVARIANT TypeOK
PROPERTIES
    StoreAtomic
    EveryCallReturns
    ExpiryHonoured
