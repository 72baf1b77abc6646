----------------------------- MODULE TokenStore -----------------------------
(***************************************************************************)
(* What the store promises the OAuth server: a call takes effect, and is   *)
(* answered, in one indivisible step, or it changes nothing.  Above all a  *)
(* grant - an authorization code, a refresh token - is handed to one call  *)
(* only, with what was recorded for it at that moment.                     *)
(***************************************************************************)
EXTENDS OAuthTables

CONSTANT Callers

VARIABLES
    db,         \* the tables
    answer      \* the answer each caller has and has not yet taken in

storeVars == <<db, answer>>

StoreInit ==
    /\ db = [codes |-> [k \in Codes |-> None],
             refresh |-> [r \in RefreshTokens |-> None],
             meta |-> [r \in RefreshTokens |-> None],
             tokens |-> [u \in Users |-> None],
             states |-> [s \in StateIds |-> None]]
    /\ answer = [c \in Callers |-> NoAnswer]

Give(c, a) == answer[c] = NoAnswer /\ answer' = [answer EXCEPT ![c] = a]

\* A code is good for one call.
RedeemCode(c, k) ==
    /\ db.codes[k] # None /\ ~db.codes[k].used
    /\ db' = [db EXCEPT !.codes[k].used = TRUE]
    /\ Give(c, Granted([db.codes[k] EXCEPT !.used = TRUE]))

\* The server learns that a code is tried again only if it was.
ReportReuse(c, k) ==
    /\ db.codes[k] # None /\ db.codes[k].used
    /\ Give(c, Used(db.codes[k]))
    /\ UNCHANGED db

\* A refresh token is good for one call, and goes with its metadata.
RedeemRefreshToken(c, r) ==
    LET row == db.refresh[r] IN
    /\ row # None /\ db.tokens[row.user] # None
    /\ db' = [db EXCEPT !.refresh[r] = None, !.meta[r] = None]
    /\ \E client \in ClientTold(db, r) :
          Give(c, Granted([user |-> row.user, client |-> client,
                           token |-> RefreshCompatible(db.tokens[row.user])]))

Look(c) ==
    /\ \/ \E k \in Codes : db.codes[k] # None /\ Give(c, Ok(db.codes[k]))
       \/ \E r \in RefreshTokens : db.refresh[r] # None /\ Give(c, Ok(db.refresh[r]))
       \/ \E r \in RefreshTokens : db.meta[r] # None /\ Give(c, Ok(db.meta[r]))
       \/ \E u \in Users : db.tokens[u] # None /\ Give(c, Ok(db.tokens[u]))
       \/ \E s \in StateIds : db.states[s] # None /\ Give(c, Ok(db.states[s]))
    /\ UNCHANGED db

Refuse(c) ==
    /\ Give(c, Refused) \/ Give(c, Expired)
    /\ UNCHANGED db

TakeIn(c) ==
    /\ answer' = [answer EXCEPT ![c] = NoAnswer]
    /\ UNCHANGED db

\* The server writes and deletes rows, one statement each.
Write ==
    /\ \/ \E k \in Codes, row \in CodeRow \cup {None} :
              db' = [db EXCEPT !.codes[k] = row]
       \/ \E r \in RefreshTokens, row \in RefreshRow \cup {None} :
              db' = [db EXCEPT !.refresh[r] = row]
       \/ \E r \in RefreshTokens, client \in Clients :
              db' = [db EXCEPT !.meta[r] = client]
       \/ \E u \in Users, token \in ProviderTokens \cup {None} :
              db' = [db EXCEPT !.tokens[u] = token]
       \/ \E s \in StateIds, row \in StateRow :
              /\ db' = [db EXCEPT !.states[s] = row]
              /\ UniqueProviderStates(db'.states)
       \/ \E gone \in SUBSET StateIds :
              db' = [db EXCEPT !.states =
                        [s \in StateIds |-> IF s \in gone THEN None ELSE db.states[s]]]
    /\ UNCHANGED answer

\* The process ends: answers are lost, rows are not.
Forget == answer' = [c \in Callers |-> NoAnswer] /\ UNCHANGED db

StoreNext ==
    \/ \E c \in Callers :
          \/ \E k \in Codes : RedeemCode(c, k) \/ ReportReuse(c, k)
          \/ \E r \in RefreshTokens : RedeemRefreshToken(c, r)
          \/ Look(c) \/ Refuse(c) \/ TakeIn(c)
    \/ Write
    \/ Forget

StoreSpec == StoreInit /\ [][StoreNext]_storeVars
=============================================================================
