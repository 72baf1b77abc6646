---------------------------- MODULE Tools_proofs ----------------------------
(***************************************************************************)
(* Theorems about the tool handlers, for any number of callers and any     *)
(* notes.  Simulation and invariant depend on each other: a handler's      *)
(* write is one the synchroniser allows for only if the request is well    *)
(* formed, and what append reads is a content only if the vault is well    *)
(* formed.  So both are shown of one step, from the invariant of both.     *)
(***************************************************************************)
EXTENDS Tools, S3Sync_proofs

\* What a handler knows of its request at each stage.
RequestOK(r) ==
    /\ r.at # "idle" => r.tool \in Served /\ r.path \in Paths /\ r.piece \in Pieces
    /\ r.at \in {"pull", "pulling", "status"} => r.tool \in SyncTools
    /\ r.at \in {"fresh", "freshening", "vault"} => r.tool \notin SyncTools
    /\ r.at = "replace" => r.tool \in WriteTools
    /\ r.wrote <=> r.at \in {"push", "pushing"} /\ r.tool \in WriteTools

ReqInv ==
    /\ req \in [Callers -> Request]
    /\ \A t \in Callers : RequestOK(req[t])

ToolsInv == IInv /\ ReqInv

-----------------------------------------------------------------------------
(* Requests *)

\* A caller without a request satisfies the invariant, whatever its last answer.
LEMMA IdleRequest ==
    ASSUME NEW a \in Answers
    PROVE  LET r == [NoRequest EXCEPT !.answer = a] IN r \in Request /\ RequestOK(r)
    BY DEF NoRequest, Request, RequestOK, Stages, WriteTools

\* The same of the answer it starts with.
LEMMA FirstRequest == NoRequest \in Request /\ RequestOK(NoRequest)
    BY DEF NoRequest, Request, RequestOK, Stages, Answers, WriteTools

\* A step that changes one request, into one that is well formed.
LEMMA OneRequest ==
    ASSUME ReqInv, NEW t \in Callers, NEW r \in Request, RequestOK(r),
           req' = [req EXCEPT ![t] = r]
    PROVE  ReqInv'
    BY DEF ReqInv

\* A handler that answers.
LEMMA AnswerPreserves ==
    ASSUME ReqInv, NEW t \in Callers, NEW a \in Answers, Answer(t, a)
    PROVE  ReqInv'
    BY IdleRequest, OneRequest DEF Answer

\* A handler that goes on to a stage its tool may be at.
LEMMA Proceeds ==
    ASSUME ReqInv, NEW t \in Callers, NEW stage \in Stages \ {"idle"},
           Proceed(t, stage), RequestOK([req[t] EXCEPT !.at = stage])
    PROVE  ReqInv'
<1> DEFINE r == [req[t] EXCEPT !.at = stage]
<1>1. req[t] \in Request /\ req \in [Callers -> Request]
  BY DEF ReqInv
<1>2. r \in Request
  BY <1>1 DEF Request
<1>3. req' = [req EXCEPT ![t] = r]
  BY <1>1 DEF Proceed
<1>4. QED
  BY <1>2, <1>3, OneRequest

\* What the two do to the request.
LEMMA AnswerOrProceed ==
    ASSUME ReqInv, NEW t \in Callers
    PROVE  /\ \A a \in Answers : Answer(t, a) => req'[t].answer = a
           /\ \A stage \in Stages : Proceed(t, stage) => req'[t].at = stage
<1>1. req[t] \in Request /\ req \in [Callers -> Request]
  BY DEF ReqInv
<1>2. ASSUME NEW a \in Answers, Answer(t, a) PROVE req'[t].answer = a
  <2>1. req'[t] = [NoRequest EXCEPT !.answer = a]
    BY <1>1, <1>2 DEF Answer
  <2>2. QED
    BY <2>1 DEF NoRequest
<1>3. ASSUME NEW stage \in Stages, Proceed(t, stage) PROVE req'[t].at = stage
  BY <1>1, <1>3 DEF Proceed, Request
<1>4. QED
  BY <1>2, <1>3

-----------------------------------------------------------------------------
(* Every step is one the synchroniser allows for *)

\* The note is replaced by a content.
LEMMA ReplaceIsWrite ==
    ASSUME VaultWrites = "any time", ReqInv, NEW t \in Callers, NEW d \in Data,
           ~Is(t, "idle"), Replace(t, d)
    PROVE  Environment
<1>1. req[t].path \in Paths
  BY DEF ReqInv, RequestOK, Is
<1>2. WriteNote(req[t].path, d)
  BY DEF Replace, WriteNote, Allowed
<1>3. QED
  BY <1>1, <1>2 DEF Environment

\* What create_note and append_note write is a content.
LEMMA WrittenIsData ==
    ASSUME ReqInv, NEW t \in Callers, ~Is(t, "idle")
    PROVE  /\ {req[t].piece} \in Data
           /\ {req[t].piece} \cup
                (IF req[t].found = None THEN {} ELSE req[t].found) \in Data
<1>1. req[t].piece \in Pieces /\ req[t].found \in Data \cup {None}
  BY DEF ReqInv, RequestOK, Is, Request
<1>2. {req[t].piece} \in Data
  BY <1>1, PiecesAssumption
<1>3. CASE req[t].found = None
  <2>1. {req[t].piece} \cup {} = {req[t].piece}
    OBVIOUS
  <2>2. QED
    BY <1>2, <1>3, <2>1
<1>4. CASE req[t].found # None
  <2>1. req[t].found \cup {req[t].piece} \in Data
    BY <1>1, <1>4, AppendAssumption
  <2>2. {req[t].piece} \cup req[t].found = req[t].found \cup {req[t].piece}
    OBVIOUS
  <2>3. QED
    BY <1>2, <1>4, <2>1, <2>2
<1>5. QED
  BY <1>3, <1>4

\* A step of a handler, of a call, of a client or of another program.
LEMMA Simulation ==
    ASSUME VaultWrites = "any time", ReqInv, [ToolsNext]_toolVars
    PROVE  [Next]_vars
<1>1. CASE UNCHANGED toolVars
  BY <1>1 DEF toolVars
<1>2. CASE Restart
  BY <1>2 DEF Restart, Next
<1>3. CASE Others
  BY <1>3 DEF Others, Next, Environment
<1>4. ASSUME NEW t \in Callers, Begin(t) \/ CallSync(t) \/ Handle(t) \/ SyncStep(t)
      PROVE  [Next]_vars
  <2>1. CASE Begin(t)
    BY <2>1 DEF Begin
  <2>2. CASE CallSync(t)
    <3>1. Call(t)
      BY <2>2 DEF CallSync, Call
    <3>2. QED
      BY <3>1 DEF Next
  <2>3. CASE SyncStep(t)
    BY <2>3 DEF SyncStep, Next
  <2>4. CASE PullReturned(t) \/ PushReturned(t) \/ Status(t) \/ Read(t)
               \/ CreateLooks(t) \/ AppendReads(t) \/ VaultFails(t)
    BY <2>4 DEF PullReturned, PushReturned, Status, Read, CreateLooks, AppendReads,
                VaultFails
  <2>5. CASE CreateOrAppend(t)
    <3>1. ~Is(t, "idle")
      BY <2>5 DEF CreateOrAppend, Is
    <3>2. Environment
      BY <2>5, <3>1, WrittenIsData, ReplaceIsWrite DEF CreateOrAppend
    <3>3. QED
      BY <3>2 DEF Next
  <2>6. CASE Update(t)
    <3>1. ~Is(t, "idle")
      BY <2>6 DEF Update, Is
    <3>2. Environment
      BY <2>6, <3>1, WrittenIsData, ReplaceIsWrite DEF Update
    <3>3. QED
      BY <3>2 DEF Next
  <2>7. CASE Delete(t)
    <3>1. req[t].path \in Paths
      BY <2>7 DEF Delete, Is, ReqInv, RequestOK
    <3>2. DeleteNote(req[t].path) \/ UNCHANGED vars
      BY <2>7 DEF Delete, DeleteNote, Allowed
    <3>3. QED
      BY <3>1, <3>2 DEF Next, Environment
  <2>8. QED
    BY <1>4, <2>1, <2>2, <2>3, <2>4, <2>5, <2>6, <2>7 DEF Handle
<1>5. QED
  BY <1>1, <1>2, <1>3, <1>4 DEF ToolsNext

-----------------------------------------------------------------------------
(* The requests stay well formed *)

\* A request comes in.
LEMMA BeginPreserves ==
    ASSUME ReqInv, NEW t \in Callers, Begin(t)
    PROVE  ReqInv'
<1>1. PICK tool \in Served, p \in Paths, x \in Pieces :
         LET r == [NoRequest EXCEPT !.tool = tool, !.path = p, !.piece = x] IN
         req' = [req EXCEPT ![t] = IF ScopeOf(tool) \in Scopes
                                   THEN [r EXCEPT !.at = First(tool)]
                                   ELSE [NoRequest EXCEPT !.answer = "error"]]
  BY DEF Begin
<1> DEFINE r == [NoRequest EXCEPT !.tool = tool, !.path = p, !.piece = x]
           begun == [r EXCEPT !.at = First(tool)]
           refused == [NoRequest EXCEPT !.answer = "error"]
<1>2. refused \in Request /\ RequestOK(refused)
  BY IdleRequest DEF Answers
<1>3. /\ First(tool) \in {"pull", "status", "fresh"}
      /\ First(tool) \in {"pull", "status"} => tool \in SyncTools
      /\ First(tool) = "fresh" => tool \notin SyncTools
  BY DEF First, SyncTools
<1>4. begun \in Request
  BY <1>3 DEF NoRequest, Request, Stages, Answers
<1>5. RequestOK(begun)
  BY <1>3 DEF NoRequest, RequestOK
<1>6. QED
  BY <1>1, <1>2, <1>4, <1>5, OneRequest

\* A handler calls the synchroniser.
LEMMA CallSyncPreserves ==
    ASSUME ReqInv, NEW t \in Callers, CallSync(t)
    PROVE  ReqInv'
<1>1. req[t] \in Request /\ RequestOK(req[t])
  BY DEF ReqInv
<1>2. CASE Is(t, "fresh") /\ Proceed(t, "freshening")
  <2>1. RequestOK([req[t] EXCEPT !.at = "freshening"])
    BY <1>1, <1>2 DEF RequestOK, Request, Is
  <2>2. QED
    BY <1>2, <2>1, Proceeds DEF Stages
<1>3. CASE Is(t, "pull") /\ Proceed(t, "pulling")
  <2>1. RequestOK([req[t] EXCEPT !.at = "pulling"])
    BY <1>1, <1>3 DEF RequestOK, Request, Is
  <2>2. QED
    BY <1>3, <2>1, Proceeds DEF Stages
<1>4. CASE Is(t, "push") /\ Proceed(t, "pushing")
  <2>1. RequestOK([req[t] EXCEPT !.at = "pushing"])
    BY <1>1, <1>4 DEF RequestOK, Request, Is
  <2>2. QED
    BY <1>4, <2>1, Proceeds DEF Stages
<1>5. QED
  BY <1>2, <1>3, <1>4 DEF CallSync

\* A call of the synchroniser returns.
LEMMA ReturnedPreserves ==
    ASSUME ReqInv, NEW t \in Callers, PullReturned(t) \/ PushReturned(t)
    PROVE  ReqInv'
<1>1. req[t] \in Request /\ RequestOK(req[t])
  BY DEF ReqInv
<1>2. CASE \E a \in Answers : Answer(t, a)
  BY <1>2, AnswerPreserves
<1>3. CASE Is(t, "freshening") /\ Proceed(t, "vault")
  <2>1. RequestOK([req[t] EXCEPT !.at = "vault"])
    BY <1>1, <1>3 DEF RequestOK, Request, Is
  <2>2. QED
    BY <1>3, <2>1, Proceeds DEF Stages
<1>4. CASE Is(t, "pulling") /\ Proceed(t, "push")
  <2>1. RequestOK([req[t] EXCEPT !.at = "push"])
    BY <1>1, <1>4 DEF RequestOK, Request, Is, SyncTools, WriteTools
  <2>2. QED
    BY <1>4, <2>1, Proceeds DEF Stages
<1>5. CASE Is(t, "pushing") /\ req[t].tool = "sync_now" /\ Proceed(t, "status")
  <2>1. RequestOK([req[t] EXCEPT !.at = "status"])
    BY <1>1, <1>5 DEF RequestOK, Request, Is, SyncTools, WriteTools
  <2>2. QED
    BY <1>5, <2>1, Proceeds DEF Stages
<1>6. QED
  BY <1>2, <1>3, <1>4, <1>5 DEF PullReturned, PushReturned, Answers

\* A vault operation, or the part of it that looks.
LEMMA VaultPreserves ==
    ASSUME IInv, ReqInv, NEW t \in Callers,
           \/ Status(t) \/ Read(t) \/ CreateLooks(t) \/ AppendReads(t)
           \/ CreateOrAppend(t) \/ Update(t) \/ Delete(t) \/ VaultFails(t)
    PROVE  ReqInv'
<1>1. /\ req[t] \in Request /\ RequestOK(req[t]) /\ req \in [Callers -> Request]
      /\ local \in [Paths -> File \cup {None}]
  BY DEF ReqInv, IInv, GlobalsOK
<1>2. CASE \E a \in Answers : Answer(t, a)
  BY <1>2, AnswerPreserves
<1>3. CASE CreateLooks(t) /\ Proceed(t, "replace")
  <2>1. RequestOK([req[t] EXCEPT !.at = "replace"])
    BY <1>1, <1>3 DEF RequestOK, Request, Is, CreateLooks, WriteTools
  <2>2. QED
    BY <1>3, <2>1, Proceeds DEF Stages
<1>4. CASE /\ Is(t, "vault") /\ req[t].tool = "append_note"
           /\ local[req[t].path] # None
           /\ req' = [req EXCEPT ![t].at = "replace",
                                 ![t].found = local[req[t].path].data]
  <2> DEFINE r == [req[t] EXCEPT !.at = "replace", !.found = local[req[t].path].data]
  <2>1. req[t].path \in Paths
    BY <1>1, <1>4 DEF RequestOK, Is
  <2>2. local[req[t].path].data \in Data
    BY <1>1, <1>4, <2>1 DEF File
  <2>3. r \in Request
    BY <1>1, <2>2 DEF Request, Stages
  <2>4. RequestOK(r)
    BY <1>1, <1>4 DEF RequestOK, Request, Is, WriteTools
  <2>5. req' = [req EXCEPT ![t] = r]
    BY <1>1, <1>4
  <2>6. QED
    BY <2>3, <2>4, <2>5, OneRequest
<1>5. CASE /\ req[t].at \in {"vault", "replace"} /\ req[t].tool \in WriteTools
           /\ req' = [req EXCEPT ![t].at = "push", ![t].found = None, ![t].wrote = TRUE]
  <2> DEFINE r == [req[t] EXCEPT !.at = "push", !.found = None, !.wrote = TRUE]
  <2>1. r \in Request
    BY <1>1 DEF Request, Stages
  <2>2. RequestOK(r)
    BY <1>1, <1>5 DEF RequestOK, Request
  <2>3. req' = [req EXCEPT ![t] = r]
    BY <1>1, <1>5
  <2>4. QED
    BY <2>1, <2>2, <2>3, OneRequest
<1>6. CASE /\ Is(t, "vault") /\ req[t].tool \in WriteTools
           /\ req' = [req EXCEPT ![t].at = "push", ![t].wrote = TRUE]
  <2> DEFINE r == [req[t] EXCEPT !.at = "push", !.wrote = TRUE]
  <2>1. r \in Request
    BY <1>1 DEF Request, Stages
  <2>2. RequestOK(r)
    BY <1>1, <1>6 DEF RequestOK, Request, Is
  <2>3. req' = [req EXCEPT ![t] = r]
    BY <1>1, <1>6
  <2>4. QED
    BY <2>1, <2>2, <2>3, OneRequest
<1>7. CASE Status(t) \/ Read(t) \/ VaultFails(t)
  BY <1>2, <1>7 DEF Status, Read, VaultFails, Answers
<1>8. CASE CreateLooks(t)
  BY <1>2, <1>3, <1>8 DEF CreateLooks, Answers
<1>9. CASE AppendReads(t)
  BY <1>2, <1>4, <1>9 DEF AppendReads, Answers
<1>10. CASE CreateOrAppend(t)
  BY <1>1, <1>5, <1>10 DEF CreateOrAppend, Replace, Is, RequestOK
<1>11. CASE Update(t)
  BY <1>5, <1>11 DEF Update, Replace, Is, WriteTools
<1>12. CASE Delete(t)
  BY <1>2, <1>6, <1>12 DEF Delete, WriteTools, Answers
<1>13. QED
  BY <1>7, <1>8, <1>9, <1>10, <1>11, <1>12

\* Every step.
LEMMA RequestsPreserved ==
    ASSUME ToolsInv, [ToolsNext]_toolVars
    PROVE  ReqInv'
<1>1. ReqInv /\ IInv
  BY DEF ToolsInv
<1>2. CASE UNCHANGED req
  BY <1>1, <1>2 DEF ReqInv
<1>3. CASE Restart
  BY <1>3, FirstRequest DEF Restart, ReqInv
<1>4. ASSUME NEW t \in Callers, Begin(t) \/ CallSync(t) \/ Handle(t)
      PROVE  ReqInv'
  BY <1>1, <1>4, BeginPreserves, CallSyncPreserves, ReturnedPreserves, VaultPreserves
     DEF Handle
<1>5. QED
  BY <1>2, <1>3, <1>4 DEF ToolsNext, toolVars, SyncStep, Others

-----------------------------------------------------------------------------
(* Theorems *)

\* The invariants of the synchroniser and of the requests, jointly inductive.
THEOREM ToolsInvariance ==
    ASSUME VaultWrites = "any time"
    PROVE  ToolsSpec => []ToolsInv
<1>1. ToolsInit => ToolsInv
  BY InitIInv, FirstRequest DEF ToolsInit, ToolsInv, ReqInv
<1>2. ToolsInv /\ [ToolsNext]_toolVars => ToolsInv'
  BY Simulation, NextIInv, RequestsPreserved DEF ToolsInv
<1>3. QED
  BY <1>1, <1>2, PTL DEF ToolsSpec

\* Seen from the synchroniser, the handlers are callers and writers it allows
\* for: what is proved of S3Sync with writers at any time holds of the server.
THEOREM HandlersImplement ==
    ASSUME VaultWrites = "any time"
    PROVE  ToolsSpec => SyncImplemented
<1>1. ToolsInit => Init
  BY DEF ToolsInit
<1>2. ToolsInv /\ [ToolsNext]_toolVars => [Next]_vars
  BY Simulation DEF ToolsInv
<1>3. QED
  BY <1>1, <1>2, ToolsInvariance, PTL DEF ToolsSpec, SyncImplemented, Spec

\* Every variable keeps its type: in particular the note append_note reads, and
\* the one it writes, is a content.
THEOREM ToolsTypeCorrect ==
    ASSUME VaultWrites = "any time"
    PROVE  ToolsSpec => []ToolsTypeOK
<1>1. ToolsInv => ToolsTypeOK
  BY DEF ToolsInv, IInv, GlobalsOK, ReqInv, ToolsTypeOK, TypeOK
<1>2. QED
  BY <1>1, ToolsInvariance, PTL

\* A step of one handler changes its own request only.
LEMMA OthersWait ==
    ASSUME ReqInv, NEW u \in Callers, NEW t \in Callers, u # t,
           Begin(u) \/ CallSync(u) \/ Handle(u) \/ SyncStep(u)
    PROVE  req'[t] = req[t]
<1>1. req \in [Callers -> Request]
  BY DEF ReqInv
<1>2. CASE Begin(u)
  BY <1>1, <1>2 DEF Begin
<1>3. CASE CallSync(u) \/ SyncStep(u)
  BY <1>1, <1>3 DEF CallSync, SyncStep, Proceed
<1>4. CASE PullReturned(u) \/ PushReturned(u) \/ Status(u)
  BY <1>1, <1>4 DEF PullReturned, PushReturned, Status, Proceed, Answer
<1>5. CASE Read(u) \/ CreateLooks(u) \/ AppendReads(u) \/ VaultFails(u)
  BY <1>1, <1>5 DEF Read, CreateLooks, AppendReads, VaultFails, Proceed, Answer
<1>6. CASE CreateOrAppend(u) \/ Update(u) \/ Delete(u)
  BY <1>1, <1>6 DEF CreateOrAppend, Update, Delete, Replace, Answer
<1>7. QED
  BY <1>2, <1>3, <1>4, <1>5, <1>6 DEF Handle

\* A write is answered with an error only if the handler left the vault alone,
\* and with success, warned or not, only if it changed the vault, whatever
\* fails and whoever else is being served.
THEOREM AnswersTell ==
    ASSUME VaultWrites = "any time"
    PROVE  ToolsSpec => AnswerTellsVault
<1>1. ASSUME ToolsInv, ToolsNext, NEW t \in Callers,
             Gives(t, "error") \/ Gives(t, "ok") \/ Gives(t, "warning")
      PROVE  /\ Gives(t, "error") => ~req[t].wrote
             /\ Gives(t, "ok") \/ Gives(t, "warning") => req[t].wrote
  <2>1. req \in [Callers -> Request] /\ RequestOK(req[t])
    BY <1>1 DEF ToolsInv, ReqInv
  <2>2. /\ ~Is(t, "idle") /\ req'[t].at = "idle" /\ req[t].tool \in WriteTools
        /\ req'[t].answer \in {"error", "ok", "warning"}
    BY <1>1 DEF Gives
  <2>3. req'[t] # req[t]
    BY <2>2 DEF Is
  <2>4. ~Restart
    <3>1. NoRequest.answer = "none"
      BY DEF NoRequest
    <3>2. Restart => req'[t] = NoRequest
      BY DEF Restart
    <3>3. QED
      BY <2>2, <3>1, <3>2
  <2>5. ~Others
    BY <2>3 DEF Others
  <2>6. PICK u \in Callers : Begin(u) \/ CallSync(u) \/ Handle(u) \/ SyncStep(u)
    BY <1>1, <2>4, <2>5 DEF ToolsNext
  <2>7. u = t
    BY <1>1, <2>3, <2>6, OthersWait DEF ToolsInv
  <2>8. ~Begin(t) /\ ~SyncStep(t)
    BY <2>2, <2>3 DEF Begin, SyncStep
  <2>9. \A stage \in Stages \ {"idle"} : ~Proceed(t, stage)
    BY <1>1, <2>2, AnswerOrProceed DEF ToolsInv
  <2>10. ~CallSync(t)
    BY <2>9 DEF CallSync, Stages
  <2>11. CASE PushReturned(t)
    <3>1. req[t].wrote /\ req[t].tool # "sync_now"
      BY <2>1, <2>2, <2>11 DEF PushReturned, Is, RequestOK, WriteTools
    <3>2. Answer(t, "ok") \/ Answer(t, "warning")
      BY <2>11, <3>1 DEF PushReturned
    <3>3. req'[t].answer # "error"
      BY <1>1, <3>2, AnswerOrProceed DEF ToolsInv, Answers
    <3>4. QED
      BY <3>1, <3>3 DEF Gives
  <2>12. CASE \/ PullReturned(t) \/ VaultFails(t)
              \/ CreateLooks(t) \/ AppendReads(t) \/ Delete(t)
    <3>1. ~req[t].wrote
      BY <2>1, <2>12 DEF PullReturned, VaultFails, CreateLooks, AppendReads, Delete,
                         Is, RequestOK
    <3>2. CASE Answer(t, "error")
      <4>1. req'[t].answer = "error"
        BY <1>1, <3>2, AnswerOrProceed DEF ToolsInv, Answers
      <4>2. QED
        BY <3>1, <4>1 DEF Gives
    <3>3. CASE PullReturned(t) \/ VaultFails(t) \/ CreateLooks(t)
      BY <2>9, <3>2, <3>3 DEF PullReturned, VaultFails, CreateLooks, Stages
    <3>4. CASE AppendReads(t)
      <4>1. CASE req' = [req EXCEPT ![t].at = "replace",
                                    ![t].found = local[req[t].path].data]
        <5>1. req'[t].at = "replace"
          BY <2>1, <4>1 DEF Request
        <5>2. QED
          BY <2>2, <5>1
      <4>2. QED
        BY <3>2, <3>4, <4>1 DEF AppendReads
    <3>5. CASE Delete(t)
      <4>1. CASE req' = [req EXCEPT ![t].at = "push", ![t].wrote = TRUE]
        <5>1. req'[t].at = "push"
          BY <2>1, <4>1 DEF Request
        <5>2. QED
          BY <2>2, <5>1
      <4>2. QED
        BY <3>2, <3>5, <4>1 DEF Delete
    <3>6. QED
      BY <2>12, <3>3, <3>4, <3>5
  <2>13. ~Read(t) /\ ~Status(t)
    BY <2>1, <2>2 DEF Read, Status, Is, RequestOK, ReadTools, WriteTools, SyncTools
  <2>14. ~CreateOrAppend(t) /\ ~Update(t)
    <3>1. ASSUME NEW d, Replace(t, d) PROVE FALSE
      <4>1. req' = [req EXCEPT ![t].at = "push", ![t].found = None, ![t].wrote = TRUE]
        BY <3>1 DEF Replace
      <4>2. req'[t].at = "push"
        BY <2>1, <4>1 DEF Request
      <4>3. QED
        BY <2>2, <4>2
    <3>2. QED
      BY <3>1 DEF CreateOrAppend, Update
  <2>15. QED
    BY <2>6, <2>7, <2>8, <2>10, <2>11, <2>12, <2>13, <2>14 DEF Handle
<1>2. ToolsInv /\ [ToolsNext]_toolVars =>
         [\A t \in Callers :
             /\ Gives(t, "error") => ~req[t].wrote
             /\ Gives(t, "ok") \/ Gives(t, "warning") => req[t].wrote]_toolVars
  BY <1>1
<1>3. QED
  BY <1>2, ToolsInvariance, PTL DEF ToolsSpec, AnswerTellsVault

=============================================================================
