----------------------------- MODULE OAuthStore -----------------------------
(***************************************************************************)
(* The SQLite store of the OAuth server (internal/auth/sqlite_store.go).   *)
(* All calls share ONE connection (SetMaxOpenConns(1)).  A statement of    *)
(* its own takes it for one step; the two redemptions hold it from BeginTx *)
(* to Commit or Rollback and run several statements, which see the         *)
(* transaction's own changes and which nobody else sees.                   *)
(*                                                                         *)
(* Who calls what and when is up to the OAuth library: any call, with any  *)
(* argument, at any time.  Time is a count of ticks, TicksPerSecond of     *)
(* them to a second; the tables hold whole seconds.                        *)
(***************************************************************************)
EXTENDS OAuthTables

CONSTANTS
    Callers,            \* requests that call the store concurrently
    TicksPerSecond,
    MaxNow,             \* the clock stops here
    Faults              \* statements may fail, requests may be cancelled

ASSUME ClockAssumption ==
    TicksPerSecond \in Nat \ {0} /\ MaxNow \in Nat /\ TicksPerSecond <= MaxNow
\* No expiry time lies in the first second of the epoch.
ASSUME ExpiryAssumption == \A t \in Times : t = 0 \/ TicksPerSecond <= t
ASSUME FaultsAssumption == Faults \in BOOLEAN
ASSUME GrantsAssumption == Codes \cap RefreshTokens = {} /\ None \notin Callers

VARIABLES
    now,        \* the clock
    up,         \* the database is open and migrated
    db,         \* what is committed
    conn,       \* the caller whose transaction has the connection, or None
    tx,         \* the database as that transaction sees it, or None
    call        \* each caller's stack frame

vars == <<now, up, db, conn, tx, call>>

InTx == {"select", "mark", "provider", "metadata", "delete", "purge", "commit"}
Phases == {"idle", "begin", "return"} \cup InTx

Frame == [pc : Phases,
          grant : Codes \cup RefreshTokens \cup {None},    \* the argument
          answer : Answer]                                 \* as far as it is known

NoCall == [pc |-> "idle", grant |-> None, answer |-> NoAnswer]

TypeOK ==
    /\ now \in 0 .. MaxNow
    /\ up \in BOOLEAN
    /\ db \in Database
    /\ conn \in Callers \cup {None}
    /\ tx \in Database \cup {None}
    /\ call \in [Callers -> Frame]

Init ==
    /\ now = TicksPerSecond     \* some second after the epoch
    /\ up = FALSE
    /\ db = [codes |-> [k \in Codes |-> None],
             refresh |-> [r \in RefreshTokens |-> None],
             meta |-> [r \in RefreshTokens |-> None],
             tokens |-> [u \in Users |-> None],
             states |-> [s \in StateIds |-> None]]
    /\ conn = None
    /\ tx = None
    /\ call = [c \in Callers |-> NoCall]

At(c, phase) == call[c].pc = phase

-----------------------------------------------------------------------------
(* Time *)

\* Mutant: the column holds the second after the expiry time.
UnixRoundsUp(t) == IF t = 0 THEN 0 ELSE (t + TicksPerSecond) \div TicksPerSecond

\* The column expires_at: whole seconds, rounded down.
Unix(t) == IF t = 0 THEN 0 ELSE t \div TicksPerSecond

\* Mutant: whole seconds are compared.
HasExpiredBySeconds(seconds) == seconds > 0 /\ seconds < now \div TicksPerSecond

HasExpired(seconds) == seconds > 0 /\ seconds * TicksPerSecond < now

Lapsed(row) == HasExpired(Unix(row.at))

-----------------------------------------------------------------------------
(* The connection *)

\* A statement outside any transaction: it waits for the connection.
Statement == up /\ conn = None /\ UNCHANGED <<now, up, conn, tx>>

BeginTx(c) ==
    /\ up /\ conn = None /\ At(c, "begin")
    /\ conn' = c
    /\ tx' = db
    /\ call' = [call EXCEPT ![c].pc = "select"]
    /\ UNCHANGED <<now, up, db>>

\* BeginTx returns an error: the request is cancelled while it waits.
BeginTxFails(c) ==
    /\ Faults
    /\ At(c, "begin")
    /\ call' = [call EXCEPT ![c].pc = "return", ![c].answer = Refused]
    /\ UNCHANGED <<now, up, db, conn, tx>>

\* A statement inside c's transaction.
InTransaction(c, phase) == conn = c /\ At(c, phase) /\ UNCHANGED <<now, up, db, conn>>

Proceed(c, phase) == call' = [call EXCEPT ![c].pc = phase]

Returns(c, a) == call' = [call EXCEPT ![c].pc = "return", ![c].answer = a]

\* Mutant: nothing rolls the transaction back when the function returns early.
LeavesOpen(c, a) ==
    /\ Returns(c, a)
    /\ tx' = None
    /\ UNCHANGED <<now, up, db, conn>>

\* return: the deferred Rollback gives the connection back.
RollBack(c, a) ==
    /\ Returns(c, a)
    /\ conn' = None /\ tx' = None
    /\ UNCHANGED <<now, up, db>>

Commit(c) ==
    /\ conn = c /\ At(c, "commit")
    /\ db' = tx
    /\ conn' = None /\ tx' = None
    /\ Returns(c, call[c].answer)
    /\ UNCHANGED <<now, up>>

\* A statement or the commit fails, or the request is cancelled: every error
\* path after BeginTx rolls back.
Fail(c) ==
    /\ Faults
    /\ conn = c
    /\ RollBack(c, Refused)

-----------------------------------------------------------------------------
(* AtomicCheckAndMarkAuthCodeUsed, AtomicGetAndDeleteRefreshToken *)

\* The argument is the request's: it may or may not be in the tables.
Redeem(c) ==
    /\ up /\ At(c, "idle")
    /\ \E g \in Codes \cup RefreshTokens :
          call' = [call EXCEPT ![c].pc = "begin", ![c].grant = g]
    /\ UNCHANGED <<now, up, db, conn, tx>>

\* Mutant: a code that was used is taken again.
SelectAnyCode(c) ==
    /\ conn = c /\ At(c, "select") /\ call[c].grant \in Codes
    /\ LET row == tx.codes[call[c].grant] IN
       \/ row = None /\ RollBack(c, Refused)
       \/ row # None /\ Lapsed(row) /\ RollBack(c, Expired)
       \/ /\ row # None /\ ~Lapsed(row)
          /\ Proceed(c, "mark")
          /\ UNCHANGED <<now, up, db, conn, tx>>

SelectCode(c) ==
    /\ conn = c /\ At(c, "select") /\ call[c].grant \in Codes
    /\ LET row == tx.codes[call[c].grant] IN
       \/ row = None /\ RollBack(c, Refused)
       \/ row # None /\ Lapsed(row) /\ RollBack(c, Expired)
       \/ row # None /\ ~Lapsed(row) /\ row.used /\ RollBack(c, Used(row))
       \/ /\ row # None /\ ~Lapsed(row) /\ ~row.used
          /\ Proceed(c, "mark")
          /\ UNCHANGED <<now, up, db, conn, tx>>

MarkUsed(c) ==
    /\ InTransaction(c, "mark")
    /\ tx' = [tx EXCEPT !.codes[call[c].grant].used = TRUE]
    /\ call' = [call EXCEPT ![c].pc = "commit",
                            ![c].answer = Granted(tx'.codes[call[c].grant])]

SelectRefreshToken(c) ==
    /\ conn = c /\ At(c, "select") /\ call[c].grant \in RefreshTokens
    /\ LET row == tx.refresh[call[c].grant] IN
       \/ row = None /\ RollBack(c, Refused)
       \/ row # None /\ Lapsed(row) /\ RollBack(c, Expired)
       \/ /\ row # None /\ ~Lapsed(row)
          /\ call' = [call EXCEPT ![c].pc = "provider", ![c].answer = Ok(row)]
          /\ UNCHANGED <<now, up, db, conn, tx>>

\* Without the user's provider token the refresh token stays.
SelectProviderToken(c) ==
    /\ conn = c /\ At(c, "provider")
    /\ LET user == call[c].answer.what.user
           token == tx.tokens[user] IN
       \/ token = None /\ RollBack(c, Refused)
       \/ /\ token # None
          /\ call' = [call EXCEPT
                 ![c].pc = "metadata",
                 ![c].answer = Granted([user |-> user, client |-> None,
                                        token |-> RefreshCompatible(token)])]
          /\ UNCHANGED <<now, up, db, conn, tx>>

\* Mutant: getTokenMetadata in place of getTokenMetadataTx asks for a second
\* connection.
SelectMetadataOutside(c) ==
    /\ conn = None /\ At(c, "metadata")
    /\ Proceed(c, "delete")
    /\ UNCHANGED <<now, up, db, conn, tx>>

\* A missing or unreadable row of metadata is no error.
SelectMetadata(c) ==
    /\ InTransaction(c, "metadata")
    /\ \E client \in ClientTold(tx, call[c].grant) :
          call' = [call EXCEPT
              ![c].pc = "delete",
              ![c].answer = Granted([call[c].answer.what EXCEPT !.client = client])]
    /\ UNCHANGED tx

DeleteRow(c) ==
    /\ InTransaction(c, "delete")
    /\ tx' = [tx EXCEPT !.refresh[call[c].grant] = None]
    /\ Proceed(c, "purge")

\* Mutant: the metadata stay behind.
KeepsMetadata(c) ==
    /\ InTransaction(c, "purge")
    /\ UNCHANGED tx
    /\ Proceed(c, "commit")

DeleteMetadata(c) ==
    /\ InTransaction(c, "purge")
    /\ tx' = [tx EXCEPT !.meta[call[c].grant] = None]
    /\ Proceed(c, "commit")

-----------------------------------------------------------------------------
(* The other calls: one statement each *)

SaveAuthorizationCode ==
    /\ Statement
    /\ \E k \in Codes, row \in CodeRow : db' = [db EXCEPT !.codes[k] = row]
    /\ UNCHANGED call

DeleteAuthorizationCode ==
    /\ Statement
    /\ \E k \in Codes : db' = [db EXCEPT !.codes[k] = None]
    /\ UNCHANGED call

SaveRefreshToken ==
    /\ Statement
    /\ \E r \in RefreshTokens, row \in RefreshRow : db' = [db EXCEPT !.refresh[r] = row]
    /\ UNCHANGED call

DeleteRefreshToken ==
    /\ Statement
    /\ \E r \in RefreshTokens : db' = [db EXCEPT !.refresh[r] = None]
    /\ UNCHANGED call

SaveTokenMetadata ==
    /\ Statement
    /\ \E r \in RefreshTokens, client \in Clients : db' = [db EXCEPT !.meta[r] = client]
    /\ UNCHANGED call

SaveToken ==
    /\ Statement
    /\ \E u \in Users, token \in ProviderTokens : db' = [db EXCEPT !.tokens[u] = token]
    /\ UNCHANGED call

DeleteToken ==
    /\ Statement
    /\ \E u \in Users : db' = [db EXCEPT !.tokens[u] = None]
    /\ UNCHANGED call

\* Mutant: the column provider_state is not UNIQUE.
SaveAnyAuthorizationState ==
    /\ Statement
    /\ \E s \in StateIds, row \in StateRow : db' = [db EXCEPT !.states[s] = row]
    /\ UNCHANGED call

\* The statement fails when another state has the provider state: ON CONFLICT is
\* about the key only.
SaveAuthorizationState ==
    /\ Statement
    /\ \E s \in StateIds, row \in StateRow :
          /\ \A t \in StateIds \ {s} :
                db.states[t] # None => db.states[t].provider # row.provider
          /\ db' = [db EXCEPT !.states[s] = row]
    /\ UNCHANGED call

\* The argument may be either key.
DeleteAuthorizationState ==
    /\ Statement
    /\ \E id \in StateIds \cup ProviderStates :
          db' = [db EXCEPT !.states =
                    [s \in StateIds |->
                        LET row == db.states[s] IN
                        IF row # None /\ id \in {s, row.provider} THEN None ELSE row]]
    /\ UNCHANGED call

Reads(c, a) ==
    /\ At(c, "idle") /\ Statement
    /\ call' = [call EXCEPT ![c].pc = "return", ![c].answer = a]
    /\ UNCHANGED db

\* What reading a row with an expiry time answers.
IfLive(row) ==
    IF row = None THEN Refused ELSE IF Lapsed(row) THEN Expired ELSE Ok(row)

GetAuthorizationCode(c) == \E k \in Codes : Reads(c, IfLive(db.codes[k]))

GetRefreshTokenInfo(c) == \E r \in RefreshTokens : Reads(c, IfLive(db.refresh[r]))

\* By either key.
GetAuthorizationState(c) == \E s \in StateIds : Reads(c, IfLive(db.states[s]))

\* Whether metadata have expired is not looked at.
GetTokenMetadata(c) ==
    \E r \in RefreshTokens :
        Reads(c, IF db.meta[r] = None THEN Refused ELSE Ok(db.meta[r]))

\* A token that can be refreshed is handed out expired.
GetToken(c) ==
    \E u \in Users :
        LET token == db.tokens[u] IN
        Reads(c, IF token = None THEN Refused
                 ELSE IF token.at # 0 /\ token.at < now /\ token.refresh = None
                 THEN Expired ELSE Ok(token))

\* The caller takes its answer in.
Return(c) ==
    /\ At(c, "return")
    /\ call' = [call EXCEPT ![c] = NoCall]
    /\ UNCHANGED <<now, up, db, conn, tx>>

-----------------------------------------------------------------------------
(* The process *)

\* NewSQLiteStore; migrate creates the tables that are missing.
Open ==
    /\ ~up
    /\ up' = TRUE
    /\ UNCHANGED <<now, db, conn, tx, call>>

\* Stop, or a crash: the transaction under way is lost.
Stop ==
    /\ up
    /\ up' = FALSE
    /\ conn' = None /\ tx' = None
    /\ call' = [c \in Callers |-> NoCall]
    /\ UNCHANGED <<now, db>>

Tick ==
    /\ now < MaxNow
    /\ now' = now + 1
    /\ UNCHANGED <<up, db, conn, tx, call>>

Transaction(c) ==
    \/ SelectCode(c) \/ MarkUsed(c)
    \/ SelectRefreshToken(c) \/ SelectProviderToken(c) \/ SelectMetadata(c)
    \/ DeleteRow(c) \/ DeleteMetadata(c)
    \/ Commit(c)

Query(c) ==
    \/ GetAuthorizationCode(c) \/ GetRefreshTokenInfo(c) \/ GetAuthorizationState(c)
    \/ GetTokenMetadata(c) \/ GetToken(c)

Change ==
    \/ SaveAuthorizationCode \/ DeleteAuthorizationCode
    \/ SaveRefreshToken \/ DeleteRefreshToken \/ SaveTokenMetadata
    \/ SaveToken \/ DeleteToken
    \/ SaveAuthorizationState \/ DeleteAuthorizationState

Next ==
    \/ \E c \in Callers :
          \/ Redeem(c) \/ BeginTx(c) \/ BeginTxFails(c)
          \/ Transaction(c) \/ Fail(c)
          \/ Query(c) \/ Return(c)
    \/ Change
    \/ Open \/ Stop \/ Tick

Spec == Init /\ [][Next]_vars

\* A call goes on, and one that waits for the connection is served in the end:
\* database/sql hands the free connection to one of those who wait, picked at
\* random, so a call that waits again and again is served with probability one.
\* Calls of one statement wait inside their step.
Fairness ==
    \A c \in Callers :
        /\ WF_vars(Transaction(c))
        /\ WF_vars(Return(c))
        /\ SF_vars(BeginTx(c))

FairSpec == Spec /\ Fairness

-----------------------------------------------------------------------------
(* Properties *)

\* The answers callers have and have not yet taken in.
Told == [c \in Callers |-> IF At(c, "return") THEN call[c].answer ELSE NoAnswer]

Promise == INSTANCE TokenStore WITH answer <- Told

\* Seen from outside every call of the store is one indivisible step: of several
\* calls that redeem a grant one gets it, with what the tables held for it at that
\* moment, and a call that fails or is cut off by a crash changes nothing.
StoreAtomic == Promise!StoreSpec

\* No call waits for ever for the one connection, whatever fails while another holds
\* it.
EveryCallReturns == \A c \in Callers : []<>At(c, "idle")

\* The row of the grant that c redeems.
GrantRow(c) ==
    LET g == call[c].grant IN IF g \in Codes THEN db.codes[g] ELSE db.refresh[g]

\* Expiry times are kept in whole seconds: a redemption accepts no grant after its
\* expiry time, and calls none expired more than a second before.
ExpiryHonoured ==
    [][\A c \in Callers : At(c, "select") =>
          LET row == GrantRow(c) IN
          /\ call'[c].pc \in InTx \ {"select"} => row.at = 0 \/ now <= row.at
          /\ call'[c].pc = "return" /\ call'[c].answer = Expired =>
                row.at # 0 /\ row.at < now + TicksPerSecond
      ]_vars
=============================================================================
