---------------------------- MODULE OAuthTables ----------------------------
(***************************************************************************)
(* The tables of the OAuth database (internal/auth/sqlite_store.go) and    *)
(* what a call of the store answers.  A database is a record of tables; a  *)
(* table maps a primary key to a row or None.  A row keeps what the        *)
(* store's own code looks at: the JSON beside it is opaque to the store.   *)
(***************************************************************************)
EXTENDS Naturals

CONSTANTS
    Codes,              \* authorization codes
    RefreshTokens,      \* refresh tokens, and the metadata kept for them
    Users,
    Clients,
    ProviderTokens,     \* the tokens GitHub issued to users
    Secrets,            \* what these tokens consist of
    StateIds,           \* keys of the authorization states
    ProviderStates,     \* the states sent to GitHub, unique
    Times,              \* expiry times; 0 is no expiry
    MetadataUnreadable, \* reading a row of metadata may fail by itself
    None                \* no such row

ASSUME NeverAssumption == 0 \in Times /\ Times \subseteq Nat
ASSUME NoneAssumption == None \notin Users \cup Clients \cup ProviderTokens \cup ProviderStates
ASSUME SwitchAssumption == MetadataUnreadable \in BOOLEAN
ASSUME ProviderTokensAssumption ==
    ProviderTokens \subseteq [access : Secrets, refresh : Secrets \cup {None}, at : Times]

\* used stands for the column used and for Used in the JSON: both are written
\* together, with the same value.
CodeRow == [user : Users, client : Clients, at : Times, used : BOOLEAN]
RefreshRow == [user : Users, at : Times]
StateRow == [provider : ProviderStates, at : Times]

Table(keys, rows) == [keys -> rows \cup {None}]

UniqueProviderStates(states) ==
    \A s, t \in StateIds :
        states[s] # None /\ states[t] # None /\ states[s].provider = states[t].provider
            => s = t

Database == [codes : Table(Codes, CodeRow),
             refresh : Table(RefreshTokens, RefreshRow),
             meta : Table(RefreshTokens, Clients),      \* the client of a token
             tokens : Table(Users, ProviderTokens),
             states : {f \in Table(StateIds, StateRow) : UniqueProviderStates(f)}]

\* A user's refresh token redeemed: what AtomicGetAndDeleteRefreshToken returns.
Redeemed == [user : Users, client : Clients \cup {None},
             token : [access : Secrets, refresh : Secrets, at : Times]]

What == CodeRow \cup RefreshRow \cup StateRow \cup Redeemed
            \cup ProviderTokens \cup Clients \cup {None}

\* ok: a row was read.  redeemed: a grant is the caller's.  used is
\* ErrAuthorizationCodeUsed; refused is any error but the ones named.
Answer == [is : {"none", "ok", "redeemed", "used", "expired", "refused"}, what : What]

NoAnswer == [is |-> "none", what |-> None]
Ok(x) == [is |-> "ok", what |-> x]
Granted(x) == [is |-> "redeemed", what |-> x]
Used(x) == [is |-> "used", what |-> x]
Expired == [is |-> "expired", what |-> None]
Refused == [is |-> "refused", what |-> None]

\* The client a redemption names: its failure to read the metadata is ignored.
ClientTold(d, r) == {d.meta[r]} \cup (IF MetadataUnreadable THEN {None} ELSE {})

\* githubRefreshCompatibleStoredToken: GitHub issues no refresh token, so the
\* access token is its own.
RefreshCompatible(token) ==
    IF token.refresh = None THEN [token EXCEPT !.refresh = token.access] ELSE token
=============================================================================
