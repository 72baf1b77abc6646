------------------------- MODULE OAuthStore_proofs -------------------------
(***************************************************************************)
(* The store is type-correct, and it implements TokenStore: for any number *)
(* of callers, codes, tokens, users and states.                            *)
(*                                                                         *)
(* The invariant says what a transaction has done so far: the database as  *)
(* it sees it is the committed one but for the rows it has written, and    *)
(* the answer it is preparing is about the committed rows.  It holds since *)
(* nobody else has the connection.                                         *)
(***************************************************************************)
EXTENDS OAuthStore, TLAPS

\* The refresh token g can be redeemed, and answer a is what it is good for.
Prepared(g, a, clients) ==
    LET row == db.refresh[g] IN
    /\ g \in RefreshTokens
    /\ row # None /\ db.tokens[row.user] # None
    /\ \E client \in clients :
          a = Granted([user |-> row.user, client |-> client,
                       token |-> RefreshCompatible(db.tokens[row.user])])

Redeemable(g) == g \in Codes /\ db.codes[g] # None /\ ~db.codes[g].used

\* What c's transaction has done when it is at phase pc.
Progress(pc, g, a) ==
    /\ pc = "select" => tx = db /\ g \in Codes \cup RefreshTokens
    /\ pc = "mark" => tx = db /\ Redeemable(g)
    /\ pc = "provider" =>
          tx = db /\ g \in RefreshTokens /\ db.refresh[g] # None /\ a = Ok(db.refresh[g])
    /\ pc = "metadata" => tx = db /\ Prepared(g, a, {None})
    /\ pc = "delete" => tx = db /\ Prepared(g, a, ClientTold(db, g))
    /\ pc = "purge" =>
          tx = [db EXCEPT !.refresh[g] = None] /\ Prepared(g, a, ClientTold(db, g))
    /\ pc = "commit" =>
          \/ /\ Redeemable(g)
             /\ tx = [db EXCEPT !.codes[g].used = TRUE]
             /\ a = Granted([db.codes[g] EXCEPT !.used = TRUE])
          \/ /\ Prepared(g, a, ClientTold(db, g))
             /\ tx = [db EXCEPT !.refresh[g] = None, !.meta[g] = None]

TxInv ==
    \A c \in Callers :
        /\ call[c].pc \in InTx <=> conn = c
        /\ At(c, "begin") => call[c].grant \in Codes \cup RefreshTokens
        /\ Progress(call[c].pc, call[c].grant, call[c].answer)

Inv == TypeOK /\ TxInv

-----------------------------------------------------------------------------
(* Lemmas about rows *)

LEMMA CodeRowWritten ==
    ASSUME NEW d \in Database, NEW k \in Codes, NEW row \in CodeRow \cup {None}
    PROVE  [d EXCEPT !.codes[k] = row] \in Database
BY DEF Database, Table

LEMMA RefreshRowWritten ==
    ASSUME NEW d \in Database, NEW r \in RefreshTokens, NEW row \in RefreshRow \cup {None}
    PROVE  [d EXCEPT !.refresh[r] = row] \in Database
BY DEF Database, Table

LEMMA MetaRowWritten ==
    ASSUME NEW d \in Database, NEW r \in RefreshTokens, NEW row \in Clients \cup {None}
    PROVE  [d EXCEPT !.meta[r] = row] \in Database
BY DEF Database, Table

LEMMA TokenRowWritten ==
    ASSUME NEW d \in Database, NEW u \in Users, NEW row \in ProviderTokens \cup {None}
    PROVE  [d EXCEPT !.tokens[u] = row] \in Database
BY DEF Database, Table

LEMMA StatesWritten ==
    ASSUME NEW d \in Database,
           NEW f \in Table(StateIds, StateRow), UniqueProviderStates(f)
    PROVE  [d EXCEPT !.states = f] \in Database
BY DEF Database

LEMMA RowsOf ==
    ASSUME NEW d \in Database
    PROVE  /\ \A k \in Codes : d.codes[k] \in CodeRow \cup {None}
           /\ \A r \in RefreshTokens : d.refresh[r] \in RefreshRow \cup {None}
           /\ \A r \in RefreshTokens : d.meta[r] \in Clients \cup {None}
           /\ \A u \in Users : d.tokens[u] \in ProviderTokens \cup {None}
           /\ \A s \in StateIds : d.states[s] \in StateRow \cup {None}
           /\ UniqueProviderStates(d.states)
BY DEF Database, Table

LEMMA CompatibleToken ==
    ASSUME NEW token \in ProviderTokens
    PROVE  RefreshCompatible(token) \in [access : Secrets, refresh : Secrets, at : Times]
BY ProviderTokensAssumption DEF RefreshCompatible

LEMMA CodeMarked ==
    ASSUME NEW d \in Database, NEW k \in Codes, d.codes[k] # None
    PROVE  /\ [d.codes[k] EXCEPT !.used = TRUE] \in CodeRow
           /\ [d EXCEPT !.codes[k].used = TRUE] \in Database
           /\ [d EXCEPT !.codes[k].used = TRUE].codes[k] = [d.codes[k] EXCEPT !.used = TRUE]
<1>1. d.codes[k] \in CodeRow
  BY RowsOf
<1>2. [d.codes[k] EXCEPT !.used = TRUE] \in CodeRow
  BY <1>1 DEF CodeRow
<1>3. [d EXCEPT !.codes[k].used = TRUE]
        = [d EXCEPT !.codes[k] = [d.codes[k] EXCEPT !.used = TRUE]]
  BY DEF Database, Table
<1>4. [d EXCEPT !.codes[k].used = TRUE].codes[k] = [d.codes[k] EXCEPT !.used = TRUE]
  BY DEF Database, Table
<1>. QED
  BY <1>2, <1>3, <1>4, CodeRowWritten

LEMMA TokenRemoved ==
    ASSUME NEW d \in Database, NEW r \in RefreshTokens
    PROVE  [d EXCEPT !.refresh[r] = None, !.meta[r] = None] \in Database
BY DEF Database, Table

\* A failing read answers nothing but an error.
LEMMA Answers ==
    /\ NoAnswer \in Answer /\ Refused \in Answer /\ Expired \in Answer
    /\ \A x \in What : Ok(x) \in Answer /\ Granted(x) \in Answer /\ Used(x) \in Answer
BY DEF NoAnswer, Refused, Expired, Ok, Granted, Used, Answer, What

LEMMA Differ ==
    /\ NoAnswer # Refused /\ NoAnswer # Expired
    /\ \A x : NoAnswer # Ok(x) /\ NoAnswer # Granted(x) /\ NoAnswer # Used(x)
BY DEF NoAnswer, Refused, Expired, Ok, Granted, Used

-----------------------------------------------------------------------------
(* Type correctness *)

\* What a transaction holds is a database, and the grant it works on is typed.
LEMMA TxTyped ==
    ASSUME Inv, NEW c \in Callers, conn = c
    PROVE  /\ tx \in Database
           /\ call[c].pc \in InTx
           /\ call[c].pc \in {"provider", "metadata", "delete", "purge"} =>
                 call[c].grant \in RefreshTokens
<1>. DEFINE pc == call[c].pc
            g == call[c].grant
<1>1. Progress(pc, g, call[c].answer) /\ db \in Database
  BY DEF Inv, TypeOK, TxInv
<1>2. pc \in InTx
  BY DEF Inv, TxInv
<1>3. CASE pc = "purge"
  <2>1. g \in RefreshTokens /\ tx = [db EXCEPT !.refresh[g] = None]
    BY <1>1, <1>3 DEF Progress, Prepared
  <2>2. tx \in Database
    BY <1>1, <2>1, RefreshRowWritten
  <2>. QED
    BY <1>2, <1>3, <2>1, <2>2
<1>4. CASE pc = "commit"
  <2>1. CASE Redeemable(g) /\ tx = [db EXCEPT !.codes[g].used = TRUE]
    <3>1. tx \in Database
      BY <1>1, <2>1, CodeMarked DEF Redeemable
    <3>. QED
      BY <1>2, <1>4, <3>1
  <2>2. CASE g \in RefreshTokens /\ tx = [db EXCEPT !.refresh[g] = None, !.meta[g] = None]
    <3>1. tx \in Database
      BY <1>1, <2>2, TokenRemoved
    <3>. QED
      BY <1>2, <1>4, <3>1
  <2>. QED
    BY <1>1, <1>4, <2>1, <2>2 DEF Progress, Prepared
<1>5. CASE pc \notin {"purge", "commit"}
  BY <1>1, <1>2, <1>5 DEF Progress, InTx, Prepared
<1>. QED
  BY <1>3, <1>4, <1>5

\* A prepared answer is an answer.
LEMMA PreparedTyped ==
    ASSUME db \in Database, NEW g, NEW a, NEW clients \in SUBSET (Clients \cup {None}),
           Prepared(g, a, clients)
    PROVE  a \in Answer
<1>. DEFINE row == db.refresh[g]
<1>1. PICK client \in clients :
         a = Granted([user |-> row.user, client |-> client,
                      token |-> RefreshCompatible(db.tokens[row.user])])
  BY DEF Prepared
<1>2. row \in RefreshRow /\ row.user \in Users
  BY RowsOf DEF Prepared, RefreshRow
<1>3. db.tokens[row.user] \in ProviderTokens
  BY <1>2, RowsOf DEF Prepared
<1>4. RefreshCompatible(db.tokens[row.user])
        \in [access : Secrets, refresh : Secrets, at : Times]
  BY <1>3, CompatibleToken
<1>5. [user |-> row.user, client |-> client,
       token |-> RefreshCompatible(db.tokens[row.user])] \in Redeemed
  BY <1>2, <1>4 DEF Redeemed
<1>. QED
  BY <1>1, <1>5, Answers DEF What

\* Naming the client completes the answer.
LEMMA ClientNamed ==
    ASSUME NEW g, NEW a, Prepared(g, a, {None}), NEW clients, NEW client \in clients
    PROVE  Prepared(g, Granted([a.what EXCEPT !.client = client]), clients)
<1>. DEFINE row == db.refresh[g]
            token == RefreshCompatible(db.tokens[row.user])
<1>1. a = Granted([user |-> row.user, client |-> None, token |-> token])
  BY DEF Prepared
<1>2. a.what = [user |-> row.user, client |-> None, token |-> token]
  BY <1>1 DEF Granted
<1>. HIDE DEF token
<1>3. [a.what EXCEPT !.client = client]
        = [user |-> row.user, client |-> client, token |-> token]
  BY <1>2
<1>. QED
  BY <1>3 DEF Prepared, token

LEMMA ClientsTold ==
    ASSUME NEW d \in Database, NEW r \in RefreshTokens
    PROVE  ClientTold(d, r) \in SUBSET (Clients \cup {None})
BY RowsOf DEF ClientTold

\* Changing the phase, and the answer, of one frame.
LEMMA PhaseChanged ==
    ASSUME call \in [Callers -> Frame], NEW c \in Callers, NEW phase \in Phases
    PROVE  [call EXCEPT ![c].pc = phase] \in [Callers -> Frame]
BY DEF Frame

LEMMA FrameChanged ==
    ASSUME call \in [Callers -> Frame], NEW c \in Callers,
           NEW phase \in Phases, NEW a \in Answer
    PROVE  [call EXCEPT ![c].pc = phase, ![c].answer = a] \in [Callers -> Frame]
BY DEF Frame

LEMMA RolledBack ==
    ASSUME TypeOK, NEW c \in Callers, NEW a \in Answer, RollBack(c, a)
    PROVE  TypeOK'
<1>1. call' \in [Callers -> Frame]
  BY FrameChanged DEF TypeOK, RollBack, Returns, Phases
<1>. QED
  BY <1>1 DEF TypeOK, RollBack

LEMMA TypeInit == Init => TypeOK
<1>. SUFFICES ASSUME Init PROVE TypeOK
  OBVIOUS
<1>1. db \in Database
  BY DEF Init, Database, Table, UniqueProviderStates
<1>2. NoCall \in Frame
  BY Answers DEF NoCall, Frame, Phases
<1>3. now \in 0 .. MaxNow
  BY ClockAssumption DEF Init
<1>4. call \in [Callers -> Frame] /\ up \in BOOLEAN /\ conn = None /\ tx = None
  BY <1>2 DEF Init
<1>. QED
  BY <1>1, <1>3, <1>4 DEF TypeOK

\* The steps of a transaction keep the types.
LEMMA TransactionTyped ==
    ASSUME Inv, NEW c \in Callers, Transaction(c)
    PROVE  TypeOK'
<1>. DEFINE g == call[c].grant
            a == call[c].answer
<1>0. TypeOK /\ db \in Database /\ conn = c
  BY DEF Inv, TypeOK, Transaction, SelectCode, MarkUsed, SelectRefreshToken,
         SelectProviderToken, SelectMetadata, DeleteRow, DeleteMetadata, Commit, InTransaction
<1>1. Progress(call[c].pc, g, a) /\ tx \in Database
  BY <1>0, TxTyped DEF Inv, TxInv
<1>2. call \in [Callers -> Frame] /\ a \in Answer
  BY <1>0 DEF TypeOK, Frame
<1>3. ASSUME SelectCode(c) PROVE TypeOK'
  <2>1. g \in Codes /\ tx = db
    BY <1>1, <1>3 DEF SelectCode, Progress, At
  <2>2. ASSUME RollBack(c, Refused) \/ RollBack(c, Expired) PROVE TypeOK'
    BY <1>0, <2>2, RolledBack, Answers
  <2>3. ASSUME tx.codes[g] # None, RollBack(c, Used(tx.codes[g])) PROVE TypeOK'
    BY <1>0, <2>1, <2>3, RolledBack, Answers, RowsOf DEF What
  <2>4. ASSUME Proceed(c, "mark"), UNCHANGED <<now, up, db, conn, tx>> PROVE TypeOK'
    BY <1>0, <1>2, <2>4, PhaseChanged DEF TypeOK, Proceed, Phases, InTx
  <2>. QED
    BY <1>3, <2>2, <2>3, <2>4 DEF SelectCode
<1>4. ASSUME MarkUsed(c) PROVE TypeOK'
  <2>1. tx = db /\ Redeemable(g)
    BY <1>1, <1>4 DEF MarkUsed, InTransaction, Progress, At
  <2>2. tx' \in Database /\ Granted(tx'.codes[g]) \in Answer
    BY <1>0, <1>4, <2>1, CodeMarked, Answers DEF MarkUsed, Redeemable, What
  <2>3. call' \in [Callers -> Frame]
    BY <1>2, <1>4, <2>2, FrameChanged DEF MarkUsed, Phases, InTx
  <2>. QED
    BY <1>0, <1>4, <2>2, <2>3 DEF MarkUsed, InTransaction, TypeOK
<1>5. ASSUME SelectRefreshToken(c) PROVE TypeOK'
  <2>1. g \in RefreshTokens /\ tx = db
    BY <1>1, <1>5 DEF SelectRefreshToken, Progress, At
  <2>2. ASSUME RollBack(c, Refused) \/ RollBack(c, Expired) PROVE TypeOK'
    BY <1>0, <2>2, RolledBack, Answers
  <2>3. ASSUME tx.refresh[g] # None,
               call' = [call EXCEPT ![c].pc = "provider", ![c].answer = Ok(tx.refresh[g])],
               UNCHANGED <<now, up, db, conn, tx>>
        PROVE  TypeOK'
    <3>1. Ok(tx.refresh[g]) \in Answer
      BY <1>0, <2>1, <2>3, RowsOf, Answers DEF What
    <3>. QED
      BY <1>0, <1>2, <2>3, <3>1, FrameChanged DEF TypeOK, Phases, InTx
  <2>. QED
    BY <1>5, <2>2, <2>3 DEF SelectRefreshToken
<1>6. ASSUME SelectProviderToken(c) PROVE TypeOK'
  <2>. DEFINE user == a.what.user
              told == Granted([user |-> user, client |-> None,
                               token |-> RefreshCompatible(tx.tokens[user])])
  <2>1. tx = db /\ g \in RefreshTokens /\ db.refresh[g] # None /\ user = db.refresh[g].user
    BY <1>1, <1>6 DEF SelectProviderToken, Progress, At, Ok
  <2>2. ASSUME RollBack(c, Refused) PROVE TypeOK'
    BY <1>0, <2>2, RolledBack, Answers
  <2>3. ASSUME tx.tokens[user] # None,
               call' = [call EXCEPT ![c].pc = "metadata", ![c].answer = told],
               UNCHANGED <<now, up, db, conn, tx>>
        PROVE  TypeOK'
    <3>1. Prepared(g, told, {None})
      BY <2>1, <2>3 DEF Prepared
    <3>2. told \in Answer
      BY <1>0, <3>1, PreparedTyped
    <3>. QED
      BY <1>0, <1>2, <2>3, <3>2, FrameChanged DEF TypeOK, Phases, InTx
  <2>. QED
    BY <1>6, <2>2, <2>3 DEF SelectProviderToken
<1>7. ASSUME SelectMetadata(c) PROVE TypeOK'
  <2>1. tx = db /\ g \in RefreshTokens /\ Prepared(g, a, {None})
    BY <1>1, <1>7 DEF SelectMetadata, InTransaction, Progress, At, Prepared
  <2>2. PICK client \in ClientTold(tx, g) :
           call' = [call EXCEPT ![c].pc = "delete",
                                ![c].answer = Granted([a.what EXCEPT !.client = client])]
    BY <1>7 DEF SelectMetadata
  <2>3. Prepared(g, Granted([a.what EXCEPT !.client = client]), ClientTold(db, g))
    BY <2>1, <2>2, ClientNamed
  <2>4. Granted([a.what EXCEPT !.client = client]) \in Answer
    BY <1>0, <2>1, <2>3, PreparedTyped, ClientsTold
  <2>5. call' \in [Callers -> Frame]
    BY <1>2, <2>2, <2>4, FrameChanged DEF Phases, InTx
  <2>. QED
    BY <1>0, <1>7, <2>5 DEF SelectMetadata, InTransaction, TypeOK
<1>8. ASSUME DeleteRow(c) \/ DeleteMetadata(c) PROVE TypeOK'
  <2>1. g \in RefreshTokens
    BY <1>0, <1>8, TxTyped DEF DeleteRow, DeleteMetadata, InTransaction, At
  <2>2. tx' \in Database
    BY <1>1, <1>8, <2>1, RefreshRowWritten, MetaRowWritten DEF DeleteRow, DeleteMetadata
  <2>3. {"purge", "commit"} \subseteq Phases
    BY DEF Phases, InTx
  <2>4. call' \in [Callers -> Frame]
    <3>1. CASE DeleteRow(c)
      BY <1>2, <3>1, <2>3, PhaseChanged DEF DeleteRow, Proceed
    <3>2. CASE DeleteMetadata(c)
      BY <1>2, <3>2, <2>3, PhaseChanged DEF DeleteMetadata, Proceed
    <3>. QED
      BY <1>8, <3>1, <3>2
  <2>. QED
    BY <1>0, <1>8, <2>2, <2>4 DEF DeleteRow, DeleteMetadata, InTransaction, TypeOK
<1>9. ASSUME Commit(c) PROVE TypeOK'
  <2>1. call' \in [Callers -> Frame]
    BY <1>2, <1>9, FrameChanged DEF Commit, Returns, Phases
  <2>. QED
    BY <1>0, <1>1, <1>9, <2>1 DEF Commit, TypeOK
<1>. QED
  BY <1>3, <1>4, <1>5, <1>6, <1>7, <1>8, <1>9 DEF Transaction

-----------------------------------------------------------------------------
(* What the single statements do *)

\* A row that is there, as an answer.
Readable(a) ==
    \/ \E k \in Codes : db.codes[k] # None /\ a = Ok(db.codes[k])
    \/ \E r \in RefreshTokens : db.refresh[r] # None /\ a = Ok(db.refresh[r])
    \/ \E r \in RefreshTokens : db.meta[r] # None /\ a = Ok(db.meta[r])
    \/ \E u \in Users : db.tokens[u] # None /\ a = Ok(db.tokens[u])
    \/ \E s \in StateIds : db.states[s] # None /\ a = Ok(db.states[s])

LEMMA QueryAnswers ==
    ASSUME NEW c \in Callers, Query(c)
    PROVE  \E a : Reads(c, a) /\ (a \in {Refused, Expired} \/ Readable(a))
<1>1. CASE GetAuthorizationCode(c)
  BY <1>1 DEF GetAuthorizationCode, IfLive, Readable
<1>2. CASE GetRefreshTokenInfo(c)
  BY <1>2 DEF GetRefreshTokenInfo, IfLive, Readable
<1>3. CASE GetAuthorizationState(c)
  BY <1>3 DEF GetAuthorizationState, IfLive, Readable
<1>4. CASE GetTokenMetadata(c)
  BY <1>4 DEF GetTokenMetadata, Readable
<1>5. CASE GetToken(c)
  <2>1. PICK u \in Users :
           Reads(c, IF db.tokens[u] = None THEN Refused
                    ELSE IF /\ db.tokens[u].at # 0 /\ db.tokens[u].at < now
                            /\ db.tokens[u].refresh = None
                    THEN Expired ELSE Ok(db.tokens[u]))
    BY <1>5, Zenon DEF GetToken
  <2>2. CASE db.tokens[u] = None
    BY <2>1, <2>2
  <2>3. CASE db.tokens[u] # None
    BY <2>1, <2>3 DEF Readable
  <2>. QED
    BY <2>2, <2>3
<1>. QED
  BY <1>1, <1>2, <1>3, <1>4, <1>5 DEF Query

LEMMA ReadableTyped ==
    ASSUME db \in Database, NEW a, a \in {Refused, Expired} \/ Readable(a)
    PROVE  a \in Answer
BY RowsOf, Answers DEF Readable, What

\* A statement that changes rows keeps the tables' types, and is one of TokenStore's
\* writes.
LEMMA ChangeTyped ==
    ASSUME db \in Database, Change
    PROVE  db' \in Database
<1>1. CASE SaveAuthorizationCode \/ DeleteAuthorizationCode
  BY <1>1, CodeRowWritten DEF SaveAuthorizationCode, DeleteAuthorizationCode
<1>2. CASE SaveRefreshToken \/ DeleteRefreshToken
  BY <1>2, RefreshRowWritten DEF SaveRefreshToken, DeleteRefreshToken
<1>3. CASE SaveTokenMetadata
  BY <1>3, MetaRowWritten DEF SaveTokenMetadata
<1>4. CASE SaveToken \/ DeleteToken
  BY <1>4, TokenRowWritten DEF SaveToken, DeleteToken
<1>5. CASE SaveAuthorizationState
  <2>1. PICK s \in StateIds, row \in StateRow :
           /\ \A t \in StateIds \ {s} :
                 db.states[t] # None => db.states[t].provider # row.provider
           /\ db' = [db EXCEPT !.states[s] = row]
    BY <1>5 DEF SaveAuthorizationState
  <2>. DEFINE f == [db.states EXCEPT ![s] = row]
  <2>2. db.states \in Table(StateIds, StateRow) /\ UniqueProviderStates(db.states)
    BY DEF Database
  <2>3. f \in Table(StateIds, StateRow)
    BY <2>2 DEF Table
  <2>4. UniqueProviderStates(f)
    BY <2>1, <2>2 DEF UniqueProviderStates, Table
  <2>5. db' = [db EXCEPT !.states = f]
    BY <2>1 DEF Database
  <2>. QED
    BY <2>3, <2>4, <2>5, StatesWritten
<1>6. CASE DeleteAuthorizationState
  <2>1. PICK id \in StateIds \cup ProviderStates :
           db' = [db EXCEPT !.states =
                    [s \in StateIds |->
                        LET row == db.states[s] IN
                        IF row # None /\ id \in {s, row.provider} THEN None ELSE row]]
    BY <1>6 DEF DeleteAuthorizationState
  <2>. DEFINE f == [s \in StateIds |->
                       LET row == db.states[s] IN
                       IF row # None /\ id \in {s, row.provider} THEN None ELSE row]
  <2>2. f \in Table(StateIds, StateRow)
    BY RowsOf DEF Table
  <2>3. \A s \in StateIds : f[s] = None \/ f[s] = db.states[s]
    OBVIOUS
  <2>4. UniqueProviderStates(f)
    <3>. HIDE DEF f
    <3>. QED
      BY <2>3, RowsOf DEF UniqueProviderStates
  <2>. QED
    BY <2>1, <2>2, <2>4, StatesWritten
<1>. QED
  BY <1>1, <1>2, <1>3, <1>4, <1>5, <1>6 DEF Change

-----------------------------------------------------------------------------
(* The invariant *)

LEMMA TypeStep ==
    ASSUME Inv, [Next]_vars
    PROVE  TypeOK'
<1>0. TypeOK
  BY DEF Inv
<1>1. ASSUME NEW c \in Callers, Redeem(c) PROVE TypeOK'
  <2>. PICK g \in Codes \cup RefreshTokens :
          call' = [call EXCEPT ![c].pc = "begin", ![c].grant = g]
    BY <1>1 DEF Redeem
  <2>. DEFINE f == [call[c] EXCEPT !.pc = "begin", !.grant = g]
  <2>2. call[c] \in Frame /\ call' = [call EXCEPT ![c] = f]
    BY <1>0 DEF TypeOK
  <2>3. f \in Frame
    BY <2>2 DEF Frame, Phases
  <2>1. call' \in [Callers -> Frame]
    BY <1>0, <2>2, <2>3 DEF TypeOK
  <2>. QED
    BY <1>0, <1>1, <2>1 DEF Redeem, TypeOK
<1>2. ASSUME NEW c \in Callers, BeginTx(c) PROVE TypeOK'
  <2>1. call' \in [Callers -> Frame]
    BY <1>0, <1>2, PhaseChanged DEF BeginTx, TypeOK, Phases, InTx
  <2>. QED
    BY <1>0, <1>2, <2>1 DEF BeginTx, TypeOK
<1>3. ASSUME NEW c \in Callers, Transaction(c) PROVE TypeOK'
  BY <1>3, TransactionTyped
<1>4. ASSUME NEW c \in Callers, Fail(c) PROVE TypeOK'
  BY <1>0, <1>4, RolledBack, Answers DEF Fail
<1>12. ASSUME NEW c \in Callers, BeginTxFails(c) PROVE TypeOK'
  <2>1. call' \in [Callers -> Frame]
    BY <1>0, <1>12, FrameChanged, Answers DEF BeginTxFails, TypeOK, Phases
  <2>. QED
    BY <1>0, <1>12, <2>1 DEF BeginTxFails, TypeOK
<1>5. ASSUME NEW c \in Callers, Query(c) PROVE TypeOK'
  <2>1. PICK a : Reads(c, a) /\ a \in Answer
    BY <1>0, <1>5, QueryAnswers, ReadableTyped DEF TypeOK
  <2>2. call' \in [Callers -> Frame]
    BY <1>0, <2>1, FrameChanged DEF Reads, TypeOK, Phases
  <2>. QED
    BY <1>0, <2>1, <2>2 DEF Reads, Statement, TypeOK
<1>6. ASSUME NEW c \in Callers, Return(c) PROVE TypeOK'
  <2>1. NoCall \in Frame
    BY Answers DEF NoCall, Frame, Phases
  <2>. QED
    BY <1>0, <1>6, <2>1 DEF Return, TypeOK
<1>7. ASSUME Change PROVE TypeOK'
  <2>1. db' \in Database
    BY <1>0, <1>7, ChangeTyped DEF TypeOK
  <2>2. UNCHANGED <<now, up, conn, tx, call>>
    BY <1>7 DEF Change, Statement, SaveAuthorizationCode, DeleteAuthorizationCode,
           SaveRefreshToken, DeleteRefreshToken, SaveTokenMetadata, SaveToken, DeleteToken,
           SaveAuthorizationState, DeleteAuthorizationState
  <2>. QED
    BY <1>0, <2>1, <2>2 DEF TypeOK
<1>8. ASSUME Open PROVE TypeOK'
  BY <1>0, <1>8 DEF Open, TypeOK
<1>9. ASSUME Stop PROVE TypeOK'
  <2>1. NoCall \in Frame
    BY Answers DEF NoCall, Frame, Phases
  <2>. QED
    BY <1>0, <1>9, <2>1 DEF Stop, TypeOK
<1>10. ASSUME Tick PROVE TypeOK'
  <2>1. now' \in 0 .. MaxNow
    BY <1>0, <1>10, ClockAssumption DEF Tick, TypeOK
  <2>. QED
    BY <1>0, <1>10, <2>1 DEF Tick, TypeOK
<1>11. ASSUME UNCHANGED vars PROVE TypeOK'
  BY <1>0, <1>11 DEF vars, TypeOK
<1>. QED
  BY <1>1, <1>2, <1>3, <1>4, <1>5, <1>6, <1>7, <1>8, <1>9, <1>10, <1>11, <1>12 DEF Next

\* A phase outside transactions says nothing of the tables.
LEMMA NoProgress ==
    ASSUME NEW pc, NEW g, NEW a, pc \notin InTx
    PROVE  Progress(pc, g, a)
BY DEF Progress, InTx

\* Of the callers only c moves, and it is in no transaction afterwards.
LEMMA OutsideTx ==
    ASSUME TxInv, NEW c \in Callers,
           \A d \in Callers \ {c} : call'[d] = call[d],
           call'[c].pc \notin InTx,
           call'[c].pc = "begin" => call'[c].grant \in Codes \cup RefreshTokens,
           \/ UNCHANGED <<db, conn, tx>> /\ call[c].pc \notin InTx
           \/ conn = c /\ conn' = None
    PROVE  TxInv'
<1>. SUFFICES ASSUME NEW d \in Callers
              PROVE  /\ call'[d].pc \in InTx <=> conn' = d
                     /\ call'[d].pc = "begin" => call'[d].grant \in Codes \cup RefreshTokens
                     /\ Progress(call[d].pc, call[d].grant, call[d].answer)'
  BY DEF TxInv, At
<1>0. /\ call[d].pc \in InTx <=> conn = d
      /\ call[c].pc \in InTx <=> conn = c
      /\ call[d].pc = "begin" => call[d].grant \in Codes \cup RefreshTokens
      /\ Progress(call[d].pc, call[d].grant, call[d].answer)
  BY DEF TxInv, At
<1>1. CASE d = c
  BY <1>0, <1>1, GrantsAssumption DEF Progress, InTx
<1>2. CASE d # c /\ conn = c /\ conn' = None
  BY <1>0, <1>2, GrantsAssumption DEF Progress, InTx
<1>3. CASE d # c /\ UNCHANGED <<db, conn, tx>>
  <2>1. call'[d] = call[d]
    BY <1>3
  <2>2. Progress(call[d].pc, call[d].grant, call[d].answer)'
    BY <1>0, <1>3, <2>1 DEF Progress, Prepared, Redeemable, ClientTold
  <2>. QED
    BY <1>0, <1>3, <2>1, <2>2
<1>. QED
  BY <1>1, <1>2, <1>3

\* Of the callers only c moves, and it is in its transaction afterwards.
LEMMA InsideTx ==
    ASSUME TxInv, NEW c \in Callers,
           \A d \in Callers \ {c} : call'[d] = call[d],
           conn \in {c, None}, conn' = c,
           call'[c].pc \in InTx,
           Progress(call[c].pc, call[c].grant, call[c].answer)'
    PROVE  TxInv'
<1>. SUFFICES ASSUME NEW d \in Callers
              PROVE  /\ call'[d].pc \in InTx <=> conn' = d
                     /\ call'[d].pc = "begin" => call'[d].grant \in Codes \cup RefreshTokens
                     /\ Progress(call[d].pc, call[d].grant, call[d].answer)'
  BY DEF TxInv, At
<1>1. CASE d = c
  BY <1>1 DEF InTx
<1>2. CASE d # c
  <2>1. /\ call[d].pc \notin InTx
        /\ call[d].pc = "begin" => call[d].grant \in Codes \cup RefreshTokens
    BY <1>2, GrantsAssumption DEF TxInv, At
  <2>2. call'[d] = call[d]
    BY <1>2
  <2>. QED
    BY <1>2, <2>1, <2>2 DEF Progress, InTx
<1>. QED
  BY <1>1, <1>2

LEMMA TransactionStep ==
    ASSUME Inv, NEW c \in Callers, Transaction(c)
    PROVE  TxInv'
<1>. DEFINE g == call[c].grant
            a == call[c].answer
<1>0. TxInv /\ db \in Database /\ call \in [Callers -> Frame] /\ conn = c
  BY DEF Inv, TypeOK, Transaction, SelectCode, MarkUsed, SelectRefreshToken,
         SelectProviderToken, SelectMetadata, DeleteRow, DeleteMetadata, Commit, InTransaction
<1>1. Progress(call[c].pc, g, a) /\ (db' = db \/ Commit(c))
  BY <1>0 DEF TxInv, Transaction, SelectCode, MarkUsed, SelectRefreshToken, RollBack,
         SelectProviderToken, SelectMetadata, DeleteRow, DeleteMetadata, InTransaction
<1>2. ASSUME NEW b, RollBack(c, b) PROVE TxInv'
  BY <1>0, <1>2, OutsideTx DEF RollBack, Returns, Frame, InTx
<1>3. ASSUME SelectCode(c), ~ \E b : RollBack(c, b) PROVE TxInv'
  <2>1. /\ g \in Codes /\ tx = db /\ tx.codes[g] # None /\ ~tx.codes[g].used
        /\ call' = [call EXCEPT ![c].pc = "mark"] /\ UNCHANGED <<db, conn, tx>>
    BY <1>1, <1>3 DEF SelectCode, Progress, At, Proceed, Commit
  <2>2. call'[c].pc = "mark" /\ call'[c].grant = g
    BY <1>0, <2>1 DEF Frame
  <2>3. Progress(call[c].pc, call[c].grant, call[c].answer)'
    BY <2>1, <2>2 DEF Progress, Redeemable
  <2>. QED
    BY <1>0, <2>1, <2>2, <2>3, InsideTx DEF InTx
<1>4. ASSUME MarkUsed(c) PROVE TxInv'
  <2>1. tx = db /\ Redeemable(g)
    BY <1>1, <1>4 DEF MarkUsed, InTransaction, Progress, At, Commit
  <2>2. /\ tx' = [db EXCEPT !.codes[g].used = TRUE]
        /\ tx'.codes[g] = [db.codes[g] EXCEPT !.used = TRUE]
    BY <1>0, <1>4, <2>1, CodeMarked DEF MarkUsed, Redeemable
  <2>3. /\ call'[c].pc = "commit" /\ call'[c].grant = g
        /\ call'[c].answer = Granted([db.codes[g] EXCEPT !.used = TRUE])
        /\ \A d \in Callers \ {c} : call'[d] = call[d]
        /\ UNCHANGED <<db, conn>>
    BY <1>0, <1>4, <2>2 DEF MarkUsed, InTransaction, Frame
  <2>4. Progress(call[c].pc, call[c].grant, call[c].answer)'
    BY <2>1, <2>2, <2>3 DEF Progress, Redeemable
  <2>. QED
    BY <1>0, <2>3, <2>4, InsideTx DEF InTx
<1>5. ASSUME SelectRefreshToken(c), ~ \E b : RollBack(c, b) PROVE TxInv'
  <2>1. /\ g \in RefreshTokens /\ tx = db /\ tx.refresh[g] # None
        /\ call' = [call EXCEPT ![c].pc = "provider", ![c].answer = Ok(tx.refresh[g])]
        /\ UNCHANGED <<db, conn, tx>>
    BY <1>1, <1>5 DEF SelectRefreshToken, Progress, At, Commit
  <2>2. call'[c].pc = "provider" /\ call'[c].grant = g /\ call'[c].answer = Ok(db.refresh[g])
    BY <1>0, <2>1 DEF Frame
  <2>3. Progress(call[c].pc, call[c].grant, call[c].answer)'
    BY <2>1, <2>2 DEF Progress, Ok
  <2>. QED
    BY <1>0, <2>1, <2>2, <2>3, InsideTx DEF InTx
<1>6. ASSUME SelectProviderToken(c), ~ \E b : RollBack(c, b) PROVE TxInv'
  <2>. DEFINE user == db.refresh[g].user
              told == Granted([user |-> user, client |-> None,
                               token |-> RefreshCompatible(db.tokens[user])])
  <2>1. tx = db /\ g \in RefreshTokens /\ db.refresh[g] # None /\ a.what.user = user
    BY <1>1, <1>6 DEF SelectProviderToken, Progress, At, Ok, Commit
  <2>2. /\ db.tokens[user] # None
        /\ call' = [call EXCEPT ![c].pc = "metadata", ![c].answer = told]
        /\ UNCHANGED <<db, conn, tx>>
    BY <1>6, <2>1 DEF SelectProviderToken
  <2>3. call'[c].pc = "metadata" /\ call'[c].grant = g /\ call'[c].answer = told
    BY <1>0, <2>2 DEF Frame
  <2>4. Prepared(g, told, {None})
    BY <2>1, <2>2 DEF Prepared
  <2>5. Prepared(call[c].grant, call[c].answer, {None})'
    BY <2>2, <2>3, <2>4 DEF Prepared
  <2>6. Progress(call[c].pc, call[c].grant, call[c].answer)'
    BY <2>1, <2>2, <2>3, <2>5 DEF Progress
  <2>. QED
    BY <1>0, <2>2, <2>3, <2>6, InsideTx DEF InTx
<1>7. ASSUME SelectMetadata(c) PROVE TxInv'
  <2>1. tx = db /\ Prepared(g, a, {None})
    BY <1>1, <1>7 DEF SelectMetadata, InTransaction, Progress, At, Commit
  <2>2. PICK client \in ClientTold(tx, g) :
           call' = [call EXCEPT ![c].pc = "delete",
                                ![c].answer = Granted([a.what EXCEPT !.client = client])]
    BY <1>7 DEF SelectMetadata
  <2>3. Prepared(g, Granted([a.what EXCEPT !.client = client]), ClientTold(db, g))
    BY <2>1, <2>2, ClientNamed
  <2>4. UNCHANGED <<db, conn, tx>>
    BY <1>7 DEF SelectMetadata, InTransaction
  <2>5. /\ call'[c].pc = "delete" /\ call'[c].grant = g
        /\ call'[c].answer = Granted([a.what EXCEPT !.client = client])
        /\ \A d \in Callers \ {c} : call'[d] = call[d]
    BY <1>0, <2>2 DEF Frame
  <2>6. Prepared(call[c].grant, call[c].answer, ClientTold(db, call[c].grant))'
    BY <2>3, <2>4, <2>5 DEF Prepared, ClientTold
  <2>7. Progress(call[c].pc, call[c].grant, call[c].answer)'
    BY <2>1, <2>4, <2>5, <2>6 DEF Progress
  <2>. QED
    BY <1>0, <2>4, <2>5, <2>7, InsideTx DEF InTx
<1>8. ASSUME DeleteRow(c) \/ DeleteMetadata(c) PROVE TxInv'
  <2>1. Prepared(g, a, ClientTold(db, g)) /\ UNCHANGED <<db, conn>>
    BY <1>1, <1>8 DEF DeleteRow, DeleteMetadata, InTransaction, Progress, At, Commit
  <2>2. /\ \A d \in Callers \ {c} : call'[d] = call[d]
        /\ call'[c].grant = g /\ call'[c].answer = a
        /\ DeleteRow(c) => call'[c].pc = "purge"
        /\ DeleteMetadata(c) => call'[c].pc = "commit"
    BY <1>0, <1>8 DEF DeleteRow, DeleteMetadata, Proceed, Frame
  <2>3. Prepared(call[c].grant, call[c].answer, ClientTold(db, call[c].grant))'
    BY <2>1, <2>2 DEF Prepared, ClientTold
  <2>4. CASE DeleteRow(c)
    <3>1. tx' = [db EXCEPT !.refresh[g] = None]
      BY <1>1, <2>4 DEF DeleteRow, InTransaction, Progress, At, Commit
    <3>2. Progress(call[c].pc, call[c].grant, call[c].answer)'
      BY <2>1, <2>2, <2>3, <2>4, <3>1 DEF Progress
    <3>. QED
      BY <1>0, <2>1, <2>2, <2>4, <3>2, InsideTx DEF InTx
  <2>5. CASE DeleteMetadata(c)
    <3>1. tx = [db EXCEPT !.refresh[g] = None]
      BY <1>1, <2>5 DEF DeleteMetadata, InTransaction, Progress, At, Commit
    <3>2. tx' = [db EXCEPT !.refresh[g] = None, !.meta[g] = None]
      BY <1>0, <2>5, <3>1 DEF DeleteMetadata, Database, Table
    <3>3. Progress(call[c].pc, call[c].grant, call[c].answer)'
      BY <2>1, <2>2, <2>3, <2>5, <3>2 DEF Progress
    <3>. QED
      BY <1>0, <2>1, <2>2, <2>5, <3>3, InsideTx DEF InTx
  <2>. QED
    BY <1>8, <2>4, <2>5
<1>9. ASSUME Commit(c) PROVE TxInv'
  BY <1>0, <1>9, OutsideTx DEF Commit, Returns, Frame, InTx
<1>. QED
  BY <1>2, <1>3, <1>4, <1>5, <1>6, <1>7, <1>8, <1>9 DEF Transaction

LEMMA TxStep ==
    ASSUME Inv, [Next]_vars
    PROVE  TxInv'
<1>0. TxInv /\ call \in [Callers -> Frame] /\ \A c \in Callers : call[c].pc \in InTx <=> conn = c
  BY DEF Inv, TypeOK, TxInv
<1>1. ASSUME NEW c \in Callers, Redeem(c) PROVE TxInv'
  <2>1. PICK g \in Codes \cup RefreshTokens :
           call' = [call EXCEPT ![c].pc = "begin", ![c].grant = g]
    BY <1>1 DEF Redeem
  <2>2. call'[c].pc = "begin" /\ call'[c].grant = g
    BY <1>0, <2>1 DEF Frame
  <2>. QED
    BY <1>0, <1>1, <2>1, <2>2, OutsideTx DEF Redeem, At, InTx
<1>2. ASSUME NEW c \in Callers, BeginTx(c) PROVE TxInv'
  <2>1. call[c].grant \in Codes \cup RefreshTokens
    BY <1>0, <1>2 DEF BeginTx, TxInv
  <2>2. /\ call'[c].pc = "select" /\ call'[c].grant = call[c].grant
        /\ \A d \in Callers \ {c} : call'[d] = call[d]
        /\ conn = None /\ conn' = c /\ tx' = db' /\ db' = db
    BY <1>0, <1>2 DEF BeginTx, Frame
  <2>3. Progress(call[c].pc, call[c].grant, call[c].answer)'
    BY <2>1, <2>2 DEF Progress
  <2>. QED
    BY <1>0, <2>2, <2>3, InsideTx DEF InTx
<1>3. ASSUME NEW c \in Callers, Transaction(c) PROVE TxInv'
  BY <1>3, TransactionStep
<1>4. ASSUME NEW c \in Callers, Fail(c) PROVE TxInv'
  BY <1>0, <1>4, OutsideTx DEF Fail, RollBack, Returns, Frame, InTx
<1>10. ASSUME NEW c \in Callers, BeginTxFails(c) PROVE TxInv'
  BY <1>0, <1>10, OutsideTx DEF BeginTxFails, At, Frame, InTx
<1>5. ASSUME NEW c \in Callers, Query(c) PROVE TxInv'
  <2>1. PICK a : Reads(c, a)
    BY <1>5, QueryAnswers
  <2>. QED
    BY <1>0, <2>1, OutsideTx DEF Reads, Statement, Frame, At, InTx
<1>6. ASSUME NEW c \in Callers, Return(c) PROVE TxInv'
  BY <1>0, <1>6, OutsideTx DEF Return, NoCall, At, InTx
<1>7. ASSUME Change PROVE TxInv'
  <2>1. conn = None /\ UNCHANGED <<conn, call>>
    BY <1>7 DEF Change, Statement, SaveAuthorizationCode, DeleteAuthorizationCode,
           SaveRefreshToken, DeleteRefreshToken, SaveTokenMetadata, SaveToken, DeleteToken,
           SaveAuthorizationState, DeleteAuthorizationState
  <2>2. \A c \in Callers : call[c].pc \notin InTx
    BY <1>0, <2>1, GrantsAssumption
  <2>. QED
    BY <1>0, <2>1, <2>2 DEF TxInv, At, Progress, InTx
<1>8. ASSUME Open \/ Tick \/ UNCHANGED vars PROVE TxInv'
  <2>1. UNCHANGED <<db, conn, tx, call>>
    BY <1>8 DEF Open, Tick, vars
  <2>. SUFFICES ASSUME NEW d \in Callers
                PROVE  /\ call'[d].pc \in InTx <=> conn' = d
                       /\ At(d, "begin")' => call'[d].grant \in Codes \cup RefreshTokens
                       /\ Progress(call[d].pc, call[d].grant, call[d].answer)'
    BY DEF TxInv
  <2>2. Progress(call[d].pc, call[d].grant, call[d].answer)
    BY <1>0 DEF TxInv
  <2>3. Progress(call[d].pc, call[d].grant, call[d].answer)'
    BY <2>1, <2>2 DEF Progress, Prepared, Redeemable, ClientTold
  <2>. QED
    BY <1>0, <2>1, <2>3 DEF TxInv, At
<1>9. ASSUME Stop PROVE TxInv'
  <2>1. conn' = None /\ \A c \in Callers : call'[c].pc = "idle"
    BY <1>9 DEF Stop, NoCall
  <2>. QED
    BY <2>1, GrantsAssumption DEF TxInv, At, Progress, InTx
<1>. QED
  BY <1>1, <1>2, <1>3, <1>4, <1>5, <1>6, <1>7, <1>8, <1>9, <1>10 DEF Next

LEMMA InvInit == Init => Inv
<1>. SUFFICES ASSUME Init PROVE Inv
  OBVIOUS
<1>1. conn = None /\ \A c \in Callers : call[c].pc = "idle"
  BY DEF Init, NoCall
<1>2. TxInv
  BY <1>1, GrantsAssumption DEF TxInv, At, Progress, InTx
<1>. QED
  BY <1>2, TypeInit DEF Inv

LEMMA Invariance == Spec => []Inv
<1>1. Inv /\ [Next]_vars => Inv'
  BY TypeStep, TxStep DEF Inv
<1>. QED
  BY <1>1, InvInit, PTL DEF Spec

\* The tables, the transaction and the frames always have their types; above all, no
\* two authorization states have the same provider state.
THEOREM TypeCorrect == Spec => []TypeOK
BY Invariance, PTL DEF Inv

-----------------------------------------------------------------------------
(* The store implements TokenStore *)

\* TokenStore has its own copies of the operators of OAuthTables.
LEMMA Same ==
    /\ Promise!NoAnswer = NoAnswer
    /\ Promise!Refused = Refused /\ Promise!Expired = Expired
    /\ Promise!CodeRow = CodeRow /\ Promise!RefreshRow = RefreshRow
    /\ Promise!StateRow = StateRow
    /\ \A x : /\ Promise!Ok(x) = Ok(x)
              /\ Promise!Granted(x) = Granted(x)
              /\ Promise!Used(x) = Used(x)
              /\ Promise!RefreshCompatible(x) = RefreshCompatible(x)
              /\ Promise!UniqueProviderStates(x) <=> UniqueProviderStates(x)
    /\ \A d, r : Promise!ClientTold(d, r) = ClientTold(d, r)
BY DEF Promise!NoAnswer, NoAnswer, Promise!Refused, Refused, Promise!Expired, Expired,
       Promise!CodeRow, CodeRow, Promise!RefreshRow, RefreshRow, Promise!StateRow, StateRow,
       Promise!Ok, Ok, Promise!Granted, Granted, Promise!Used, Used,
       Promise!RefreshCompatible, RefreshCompatible,
       Promise!UniqueProviderStates, UniqueProviderStates,
       Promise!ClientTold, ClientTold

\* The step at which a call is answered gives TokenStore's caller the answer.
LEMMA Given ==
    ASSUME NEW c \in Callers, NEW a, call \in [Callers -> Frame], call[c].pc # "return",
           call' = [call EXCEPT ![c].pc = "return", ![c].answer = a]
    PROVE  /\ Told[c] = Promise!NoAnswer
           /\ Told' = [Told EXCEPT ![c] = a]
<1>1. call'[c].pc = "return" /\ call'[c].answer = a
  BY DEF Frame
<1>2. \A d \in Callers \ {c} : call'[d] = call[d]
  OBVIOUS
<1>3. Told[c] = NoAnswer
  BY DEF Told, At
<1>4. Told' = [Told EXCEPT ![c] = a]
  BY <1>1, <1>2 DEF Told, At
<1>. QED
  BY <1>3, <1>4, Same

LEMMA InitImplemented == Init => Promise!StoreInit
<1>. SUFFICES ASSUME Init PROVE Promise!StoreInit
  OBVIOUS
<1>1. Told = [c \in Callers |-> NoAnswer]
  BY DEF Init, Told, At, NoCall
<1>. QED
  BY <1>1, Same DEF Init, Promise!StoreInit

LEMMA ChangeImplemented ==
    ASSUME db \in Database, Change
    PROVE  Promise!Write
<1>0. UNCHANGED call
  BY DEF Change, SaveAuthorizationCode, DeleteAuthorizationCode, SaveRefreshToken,
         DeleteRefreshToken, SaveTokenMetadata, SaveToken, DeleteToken,
         SaveAuthorizationState, DeleteAuthorizationState
<1>1. UNCHANGED Told
  BY <1>0 DEF Told, At
<1>2. CASE SaveAuthorizationCode \/ DeleteAuthorizationCode
  <2>1. \E k \in Codes, row \in CodeRow \cup {None} : db' = [db EXCEPT !.codes[k] = row]
    BY <1>2 DEF SaveAuthorizationCode, DeleteAuthorizationCode
  <2>. QED
    BY <1>1, <2>1, Same DEF Promise!Write
<1>3. CASE SaveRefreshToken \/ DeleteRefreshToken
  <2>1. \E r \in RefreshTokens, row \in RefreshRow \cup {None} :
           db' = [db EXCEPT !.refresh[r] = row]
    BY <1>3 DEF SaveRefreshToken, DeleteRefreshToken
  <2>. QED
    BY <1>1, <2>1, Same DEF Promise!Write
<1>4. CASE SaveTokenMetadata
  <2>1. \E r \in RefreshTokens, client \in Clients : db' = [db EXCEPT !.meta[r] = client]
    BY <1>4 DEF SaveTokenMetadata
  <2>. QED
    BY <1>1, <2>1, Same DEF Promise!Write
<1>5. CASE SaveToken \/ DeleteToken
  <2>1. \E u \in Users, token \in ProviderTokens \cup {None} :
           db' = [db EXCEPT !.tokens[u] = token]
    BY <1>5 DEF SaveToken, DeleteToken
  <2>. QED
    BY <1>1, <2>1, Same DEF Promise!Write
<1>6. CASE SaveAuthorizationState
  <2>1. \E s \in StateIds, row \in StateRow : db' = [db EXCEPT !.states[s] = row]
    BY <1>6 DEF SaveAuthorizationState
  <2>2. UniqueProviderStates(db'.states)
    BY ChangeTyped, RowsOf
  <2>. QED
    BY <1>1, <2>1, <2>2, Same DEF Promise!Write
<1>7. CASE DeleteAuthorizationState
  <2>1. PICK id \in StateIds \cup ProviderStates :
           db' = [db EXCEPT !.states =
                    [s \in StateIds |->
                        LET row == db.states[s] IN
                        IF row # None /\ id \in {s, row.provider} THEN None ELSE row]]
    BY <1>7 DEF DeleteAuthorizationState
  <2>. DEFINE gone == {s \in StateIds : /\ db.states[s] # None
                                        /\ id \in {s, db.states[s].provider}}
  <2>2. db' = [db EXCEPT !.states =
                 [s \in StateIds |-> IF s \in gone THEN None ELSE db.states[s]]]
    BY <2>1
  <2>3. gone \in SUBSET StateIds
    OBVIOUS
  <2>4. \E gone_1 \in SUBSET StateIds :
           db' = [db EXCEPT !.states =
                    [s \in StateIds |-> IF s \in gone_1 THEN None ELSE db.states[s]]]
    BY <2>2, <2>3
  <2>. QED
    BY <1>1, <2>4, Same DEF Promise!Write
<1>. QED
  BY <1>2, <1>3, <1>4, <1>5, <1>6, <1>7 DEF Change

LEMMA RefusalImplemented ==
    ASSUME NEW c \in Callers, call \in [Callers -> Frame], call[c].pc # "return",
           Returns(c, Refused) \/ Returns(c, Expired), UNCHANGED db
    PROVE  Promise!Refuse(c)
<1>1. PICK a \in {Refused, Expired} : call' = [call EXCEPT ![c].pc = "return", ![c].answer = a]
  BY DEF Returns
<1>2. Told[c] = Promise!NoAnswer /\ Told' = [Told EXCEPT ![c] = a]
  BY <1>1, Given
<1>. QED
  BY <1>2, Same DEF Promise!Refuse, Promise!Give

LEMMA QueryImplemented ==
    ASSUME call \in [Callers -> Frame], NEW c \in Callers, Query(c)
    PROVE  Promise!Look(c) \/ Promise!Refuse(c)
<1>1. PICK a : Reads(c, a) /\ (a \in {Refused, Expired} \/ Readable(a))
  BY QueryAnswers
<1>2. /\ call[c].pc # "return" /\ UNCHANGED db
      /\ call' = [call EXCEPT ![c].pc = "return", ![c].answer = a]
  BY <1>1 DEF Reads, At
<1>3. CASE a \in {Refused, Expired}
  BY <1>2, <1>3, RefusalImplemented DEF Returns
<1>4. CASE Readable(a)
  <2>1. Told[c] = Promise!NoAnswer /\ Told' = [Told EXCEPT ![c] = a]
    BY <1>2, Given
  <2>. QED
    BY <1>2, <1>4, <2>1 DEF Promise!Look, Promise!Give, Readable, Promise!Ok, Ok
<1>. QED
  BY <1>1, <1>3, <1>4

LEMMA CommitImplemented ==
    ASSUME Inv, NEW c \in Callers, Commit(c)
    PROVE  \/ \E k \in Codes : Promise!RedeemCode(c, k)
           \/ \E r \in RefreshTokens : Promise!RedeemRefreshToken(c, r)
<1>. DEFINE g == call[c].grant
<1>0. PICK a : a = call[c].answer
  OBVIOUS
<1>1. Progress("commit", g, a) /\ call \in [Callers -> Frame]
  BY <1>0 DEF Inv, TypeOK, TxInv, Commit, At
<1>2. /\ call[c].pc # "return" /\ db' = tx
      /\ call' = [call EXCEPT ![c].pc = "return", ![c].answer = a]
  BY <1>0 DEF Commit, At, Returns
<1>a. Told[c] = Promise!NoAnswer /\ Told' = [Told EXCEPT ![c] = a]
  BY <1>1, <1>2, Given
<1>3. CASE Redeemable(g) /\ tx = [db EXCEPT !.codes[g].used = TRUE]
             /\ a = Granted([db.codes[g] EXCEPT !.used = TRUE])
  <2>1. Promise!RedeemCode(c, g)
    BY <1>2, <1>a, <1>3
       DEF Promise!RedeemCode, Promise!Give, Redeemable, Promise!Granted, Granted
  <2>. QED
    BY <1>3, <2>1 DEF Redeemable
<1>4. CASE Prepared(g, a, ClientTold(db, g))
             /\ tx = [db EXCEPT !.refresh[g] = None, !.meta[g] = None]
  <2>. DEFINE row == db.refresh[g]
              token == db.tokens[row.user]
  <2>1. PICK client \in ClientTold(db, g) :
           a = Granted([user |-> row.user, client |-> client,
                        token |-> RefreshCompatible(token)])
    BY <1>4 DEF Prepared
  <2>2. /\ a = Promise!Granted([user |-> row.user, client |-> client,
                                token |-> Promise!RefreshCompatible(token)])
        /\ client \in Promise!ClientTold(db, g)
    BY <2>1, Same
  <2>3. row # None /\ token # None /\ g \in RefreshTokens
        /\ db' = [db EXCEPT !.refresh[g] = None, !.meta[g] = None]
    BY <1>2, <1>4 DEF Prepared
  <2>4. Promise!RedeemRefreshToken(c, g)
    BY <1>a, <2>2, <2>3 DEF Promise!RedeemRefreshToken, Promise!Give
  <2>. QED
    BY <2>3, <2>4
<1>. QED
  BY <1>1, <1>3, <1>4 DEF Progress

LEMMA StepImplemented ==
    ASSUME Inv, [Next]_vars
    PROVE  [Promise!StoreNext]_(Promise!storeVars)
<1>. USE DEF Promise!StoreNext
<1>0. db \in Database /\ call \in [Callers -> Frame]
  BY DEF Inv, TypeOK
<1>a. ASSUME UNCHANGED db,
             \A d \in Callers : /\ call'[d].pc = "return" <=> call[d].pc = "return"
                                /\ call[d].pc = "return" => call'[d] = call[d]
      PROVE  UNCHANGED Promise!storeVars
  <2>1. UNCHANGED Told
    BY <1>a DEF Told, At
  <2>. QED
    BY <1>a, <2>1 DEF Promise!storeVars
<1>1. ASSUME NEW c \in Callers, Redeem(c) PROVE UNCHANGED Promise!storeVars
  BY <1>0, <1>1, <1>a DEF Redeem, At, Frame
<1>2. ASSUME NEW c \in Callers, BeginTx(c) PROVE UNCHANGED Promise!storeVars
  BY <1>0, <1>2, <1>a DEF BeginTx, At, Frame
<1>3. ASSUME NEW c \in Callers, Transaction(c), ~Commit(c)
      PROVE  \/ UNCHANGED Promise!storeVars
             \/ Promise!Refuse(c)
             \/ \E k \in Codes : Promise!ReportReuse(c, k)
  <2>1. \/ \E a \in {Refused, Expired} : RollBack(c, a)
        \/ \E k \in Codes : /\ tx.codes[k] # None /\ tx.codes[k].used
                            /\ call[c].grant = k /\ SelectCode(c)
                            /\ RollBack(c, Used(tx.codes[k]))
        \/ /\ UNCHANGED db /\ call'[c].pc # "return"
           /\ \A d \in Callers \ {c} : call'[d] = call[d]
    <3>1. CASE SelectCode(c)
      BY <1>0, <3>1 DEF SelectCode, Proceed, Frame
    <3>2. CASE SelectRefreshToken(c)
      BY <1>0, <3>2 DEF SelectRefreshToken, Frame
    <3>3. CASE SelectProviderToken(c)
      BY <1>0, <3>3 DEF SelectProviderToken, Frame
    <3>4. CASE MarkUsed(c) \/ SelectMetadata(c)
      BY <1>0, <3>4 DEF MarkUsed, SelectMetadata, InTransaction, Frame
    <3>5. CASE DeleteRow(c) \/ DeleteMetadata(c)
      BY <1>0, <3>5 DEF DeleteRow, DeleteMetadata, InTransaction, Proceed, Frame
    <3>. QED
      BY <1>3, <3>1, <3>2, <3>3, <3>4, <3>5 DEF Transaction
  <2>2. call[c].pc # "return"
    BY <1>3 DEF Transaction, SelectCode, MarkUsed, SelectRefreshToken, At,
         SelectProviderToken, SelectMetadata, DeleteRow, DeleteMetadata, InTransaction
  <2>3. CASE UNCHANGED db /\ call'[c].pc # "return" /\ \A d \in Callers \ {c} : call'[d] = call[d]
    BY <2>2, <2>3, <1>a DEF At
  <2>4. ASSUME NEW a \in {Refused, Expired}, RollBack(c, a) PROVE Promise!Refuse(c)
    BY <1>0, <2>2, <2>4, RefusalImplemented DEF RollBack
  <2>5. ASSUME NEW k \in Codes, tx.codes[k] # None, tx.codes[k].used, call[c].grant = k,
               SelectCode(c), RollBack(c, Used(tx.codes[k]))
        PROVE  Promise!ReportReuse(c, k)
    <3>1. tx = db
      <4>1. call[c].pc = "select"
        BY <2>5 DEF SelectCode, At
      <4>. QED
        BY <4>1 DEF Inv, TxInv, Progress
    <3>2. PICK a : a = Used(db.codes[k])
      OBVIOUS
    <3>3. call' = [call EXCEPT ![c].pc = "return", ![c].answer = a] /\ UNCHANGED db
      BY <2>5, <3>1, <3>2 DEF RollBack, Returns
    <3>4. Told[c] = Promise!NoAnswer /\ Told' = [Told EXCEPT ![c] = a]
      BY <1>0, <2>2, <3>3, Given
    <3>. QED
      BY <2>5, <3>1, <3>2, <3>3, <3>4
         DEF Promise!ReportReuse, Promise!Give, Promise!Used, Used
  <2>. QED
    BY <2>1, <2>3, <2>4, <2>5
<1>4. ASSUME NEW c \in Callers, Commit(c)
      PROVE  \/ \E k \in Codes : Promise!RedeemCode(c, k)
             \/ \E r \in RefreshTokens : Promise!RedeemRefreshToken(c, r)
  BY <1>4, CommitImplemented
<1>5. ASSUME NEW c \in Callers, Fail(c) PROVE Promise!Refuse(c)
  <2>1. call[c].pc # "return" /\ Returns(c, Refused) /\ UNCHANGED db
    BY <1>5 DEF Inv, TxInv, Fail, RollBack, InTx
  <2>. QED
    BY <1>0, <2>1, RefusalImplemented
<1>11. ASSUME NEW c \in Callers, BeginTxFails(c) PROVE Promise!Refuse(c)
  <2>1. call[c].pc # "return" /\ Returns(c, Refused) /\ UNCHANGED db
    BY <1>11 DEF BeginTxFails, Returns, At
  <2>. QED
    BY <1>0, <2>1, RefusalImplemented
<1>6. ASSUME NEW c \in Callers, Query(c) PROVE Promise!Look(c) \/ Promise!Refuse(c)
  BY <1>0, <1>6, QueryImplemented
<1>7. ASSUME NEW c \in Callers, Return(c) PROVE Promise!TakeIn(c)
  <2>1. Told' = [Told EXCEPT ![c] = NoAnswer]
    BY <1>0, <1>7 DEF Return, Told, At, NoCall
  <2>. QED
    BY <1>7, <2>1, Same DEF Promise!TakeIn, Return
<1>8. ASSUME Change PROVE Promise!Write
  BY <1>0, <1>8, ChangeImplemented
<1>9. ASSUME Open \/ Tick \/ UNCHANGED vars PROVE UNCHANGED Promise!storeVars
  BY <1>9, <1>a DEF Open, Tick, vars, At
<1>10. ASSUME Stop PROVE Promise!Forget
  <2>1. Told' = [c \in Callers |-> NoAnswer]
    BY <1>10 DEF Stop, Told, At, NoCall
  <2>. QED
    BY <1>10, <2>1, Same DEF Stop, Promise!Forget
<1>. QED
  BY <1>1, <1>2, <1>3, <1>4, <1>5, <1>6, <1>7, <1>8, <1>9, <1>10, <1>11 DEF Next

\* Every call is one indivisible step: a code or refresh token is redeemed by one call
\* at most, with the rows committed at that moment, and what fails changes nothing.
THEOREM Atomicity == Spec => StoreAtomic
<1>1. Inv /\ [Next]_vars => [Promise!StoreNext]_(Promise!storeVars)
  BY StepImplemented
<1>. QED
  BY <1>1, InitImplemented, Invariance, PTL, Same DEF Spec, StoreAtomic, Promise!StoreSpec

-----------------------------------------------------------------------------
(* Expiry *)

\* Rounding down to whole seconds loses less than a second.
LEMMA RoundedDown ==
    ASSUME NEW t \in Nat, t # 0, TicksPerSecond <= t
    PROVE  LET s == Unix(t) IN
           /\ s \in Nat /\ s > 0
           /\ s * TicksPerSecond <= t /\ t < s * TicksPerSecond + TicksPerSecond
<1>1. TicksPerSecond \in Nat /\ TicksPerSecond > 0
  BY ClockAssumption
<1>. DEFINE s == t \div TicksPerSecond
<1>2. s \in Nat /\ s * TicksPerSecond <= t /\ t < s * TicksPerSecond + TicksPerSecond
  BY <1>1
<1>3. s > 0
  BY <1>1, <1>2
<1>. QED
  BY <1>2, <1>3 DEF Unix

LEMMA RowJudged ==
    ASSUME TypeOK, NEW row \in CodeRow \cup RefreshRow
    PROVE  /\ ~Lapsed(row) => row.at = 0 \/ now <= row.at
           /\ Lapsed(row) => row.at # 0 /\ row.at < now + TicksPerSecond
<1>1. row.at \in Times /\ row.at \in Nat /\ now \in Nat
  <2>1. row.at \in Times
    <3>1. CASE row \in CodeRow
      BY <3>1 DEF CodeRow
    <3>2. CASE row \in RefreshRow
      BY <3>2 DEF RefreshRow
    <3>. QED
      BY <3>1, <3>2
  <2>2. now \in 0 .. MaxNow
    BY DEF TypeOK
  <2>3. row.at \in Nat
    BY <2>1, NeverAssumption
  <2>4. now \in Nat
    BY <2>2, ClockAssumption
  <2>. QED
    BY <2>1, <2>3, <2>4
<1>2. CASE row.at = 0
  BY <1>2 DEF Lapsed, HasExpired, Unix
<1>3. CASE row.at # 0
  <2>. DEFINE s == Unix(row.at)
  <2>1. /\ s \in Nat /\ s > 0
        /\ s * TicksPerSecond <= row.at /\ row.at < s * TicksPerSecond + TicksPerSecond
    BY <1>1, <1>3, ExpiryAssumption, RoundedDown
  <2>2. TicksPerSecond \in Nat /\ s * TicksPerSecond \in Nat
    BY <2>1, ClockAssumption
  <2>. HIDE DEF s
  <2>3. Lapsed(row) <=> s * TicksPerSecond < now
    BY <2>1 DEF Lapsed, HasExpired, s
  <2>. QED
    BY <1>1, <1>3, <2>1, <2>2, <2>3
<1>. QED
  BY <1>2, <1>3

\* The step in which c looks at its grant.
LEMMA Judgement ==
    ASSUME Inv, [Next]_vars, NEW c \in Callers, At(c, "select")
    PROVE  LET row == GrantRow(c) IN
           /\ call'[c].pc \in InTx \ {"select"} =>
                 row \in CodeRow \cup RefreshRow /\ ~Lapsed(row)
           /\ call'[c].pc = "return" /\ call'[c].answer = Expired =>
                 row \in CodeRow \cup RefreshRow /\ Lapsed(row)
<1>. DEFINE g == call[c].grant
            row == GrantRow(c)
            Goal == /\ call'[c].pc \in InTx \ {"select"} =>
                          row \in CodeRow \cup RefreshRow /\ ~Lapsed(row)
                    /\ call'[c].pc = "return" /\ call'[c].answer = Expired =>
                          row \in CodeRow \cup RefreshRow /\ Lapsed(row)
<1>0. /\ call[c].pc = "select" /\ conn = c /\ tx = db
      /\ call \in [Callers -> Frame] /\ db \in Database
      /\ \A d \in Callers : conn = d <=> call[d].pc \in InTx
  BY DEF At, Inv, TypeOK, TxInv, Progress, InTx
<1>1. ASSUME call'[c] = call[c] PROVE Goal
  BY <1>0, <1>1
<1>2. ASSUME SelectCode(c) PROVE Goal
  <2>1. g \in Codes /\ row = db.codes[g]
    BY <1>2 DEF SelectCode, GrantRow
  <2>2. row \in CodeRow \cup {None}
    BY <1>0, <2>1, RowsOf
  <2>3. \/ call'[c].pc = "return" /\ call'[c].answer = Refused
        \/ row # None /\ Lapsed(row) /\ call'[c].pc = "return"
        \/ row # None /\ call'[c].pc = "return" /\ call'[c].answer = Used(row)
        \/ row # None /\ ~Lapsed(row) /\ call'[c].pc = "mark"
    BY <1>0, <1>2, <2>1 DEF SelectCode, RollBack, Returns, Proceed, Frame
  <2>. HIDE DEF row
  <2>. QED
    BY <2>2, <2>3 DEF InTx, Expired, Refused, Used
<1>3. ASSUME SelectRefreshToken(c) PROVE Goal
  <2>1. g \in RefreshTokens /\ row = db.refresh[g]
    BY <1>3, GrantsAssumption DEF SelectRefreshToken, GrantRow
  <2>2. row \in RefreshRow \cup {None}
    BY <1>0, <2>1, RowsOf
  <2>3. \/ call'[c].pc = "return" /\ call'[c].answer = Refused
        \/ row # None /\ Lapsed(row) /\ call'[c].pc = "return"
        \/ row # None /\ ~Lapsed(row) /\ call'[c].pc = "provider"
    BY <1>0, <1>3, <2>1 DEF SelectRefreshToken, RollBack, Returns, Frame
  <2>. HIDE DEF row
  <2>. QED
    BY <2>2, <2>3 DEF InTx, Expired, Refused
<1>4. ASSUME Fail(c) PROVE Goal
  <2>1. call'[c].pc = "return" /\ call'[c].answer = Refused
    BY <1>0, <1>4 DEF Fail, RollBack, Returns, Frame
  <2>. QED
    BY <2>1 DEF InTx, Expired, Refused
<1>5. ASSUME Stop PROVE Goal
  <2>1. call'[c].pc = "idle"
    BY <1>5 DEF Stop, NoCall
  <2>. QED
    BY <2>1 DEF InTx
<1>6. ASSUME NEW d \in Callers, Redeem(d) \/ BeginTx(d) \/ BeginTxFails(d) \/ Return(d)
      PROVE  call'[c] = call[c]
  <2>1. d # c
    BY <1>0, <1>6, GrantsAssumption DEF Redeem, BeginTx, BeginTxFails, Return, At
  <2>. QED
    BY <1>0, <1>6, <2>1 DEF Redeem, BeginTx, BeginTxFails, Return
<1>7. ASSUME NEW d \in Callers, Query(d) PROVE FALSE
  <2>1. \E a : Reads(d, a)
    BY <1>7, QueryAnswers
  <2>. QED
    BY <1>0, <2>1, GrantsAssumption DEF Reads, Statement
<1>8. ASSUME NEW d \in Callers, Transaction(d) \/ Fail(d)
      PROVE  SelectCode(c) \/ SelectRefreshToken(c) \/ Fail(c)
  <2>1. conn = d
    BY <1>8 DEF Transaction, Fail, SelectCode, MarkUsed, SelectRefreshToken,
         SelectProviderToken, SelectMetadata, DeleteRow, DeleteMetadata, Commit, InTransaction
  <2>2. d = c
    BY <1>0, <2>1
  <2>. QED
    BY <1>0, <1>8, <2>2 DEF Transaction, MarkUsed, SelectProviderToken, SelectMetadata,
         DeleteRow, DeleteMetadata, Commit, InTransaction, At
<1>9. ASSUME Change \/ Open \/ Tick \/ UNCHANGED vars PROVE call'[c] = call[c]
  BY <1>9 DEF Open, Tick, vars, Change, SaveAuthorizationCode, DeleteAuthorizationCode,
         SaveRefreshToken, DeleteRefreshToken, SaveTokenMetadata, SaveToken, DeleteToken,
         SaveAuthorizationState, DeleteAuthorizationState
<1>10. Goal
  <2>. HIDE DEF Goal
  <2>. QED
    BY <1>1, <1>2, <1>3, <1>4, <1>5, <1>6, <1>7, <1>8, <1>9 DEF Next
<1>. QED
  BY <1>10

\* A redemption accepts no grant after its expiry time, and calls none expired more than
\* a second before.
THEOREM Expiry == Spec => ExpiryHonoured
<1>. DEFINE Honoured ==
        \A c \in Callers : At(c, "select") =>
            LET row == GrantRow(c) IN
            /\ call'[c].pc \in InTx \ {"select"} => row.at = 0 \/ now <= row.at
            /\ call'[c].pc = "return" /\ call'[c].answer = Expired =>
                  row.at # 0 /\ row.at < now + TicksPerSecond
<1>1. Inv /\ [Next]_vars => Honoured
  BY Judgement, RowJudged DEF Inv
<1>2. Inv /\ [Next]_vars => [Honoured]_vars
  BY <1>1
<1>. QED
  BY <1>2, Invariance, PTL DEF Spec, ExpiryHonoured
=============================================================================
