------------------------- MODULE ToolsAlone_proofs -------------------------
(***************************************************************************)
(* Theorems about the tool handlers while one request is served at a time: *)
(* the push behind a write that succeeds leaves the note mirrored, and no  *)
(* synchronisation undoes what a request has written.  Neither holds when  *)
(* requests overlap.                                                       *)
(***************************************************************************)
EXTENDS Tools_proofs, S3SyncData_proofs

\* One request is served at a time.
OneCaller == \A t, u \in Callers : t = u

-----------------------------------------------------------------------------
(* A handler is inside a call only where it waits for one *)

InsideOK(t) ==
    /\ Active(t) => req[t].at \in {"freshening", "pulling", "pushing"}
    /\ Active(t) /\ Is(t, "pushing") =>
          /\ frame[t].op = "push"
          /\ frame[t].pc \in {"walk"} \cup PushPhases \cup SavePhases

InsideInv == \A t \in Callers : InsideOK(t)

\* A call stays what it is.
LEMMA StepKeepsOp ==
    ASSUME IInv, NEW t \in Callers, Step(t)
    PROVE  frame'[t].pc \in Resting \/ frame'[t].op = frame[t].op
<1>1. frame \in [Callers -> Frame] /\ frame[t] \in Frame
  BY DEF IInv
<1>2. ASSUME NEW r \in Resting, Return(t, r) PROVE frame'[t].pc \in Resting
  <2>1. Rest(r).pc = r
    BY RestFrame DEF Phases
  <2>2. QED
    BY <1>1, <1>2, <2>1 DEF Return
<1>3. ASSUME NEW phase, NEW entries, StartSave(t, phase, entries)
      PROVE  frame'[t].pc \in Resting \/ frame'[t].op = frame[t].op
  <2>1. CASE Return(t, "failed")
    BY <1>2, <2>1 DEF Resting
  <2>2. CASE Goto(t, [Rest(phase) EXCEPT !.op = frame[t].op, !.next = entries])
    BY <1>1, <2>2 DEF Goto, Rest
  <2>3. QED
    BY <1>3, <2>1, <2>2 DEF StartSave
<1>4. MarkError(t) => frame'[t].pc \in Resting \/ frame'[t].op = frame[t].op
  <2>1. Goto(t, [Rest("mark") EXCEPT !.op = frame[t].op]) => frame'[t].op = frame[t].op
    BY <1>1 DEF Goto, Rest
  <2>2. QED
    BY <1>3, <2>1 DEF MarkError
<1>5. CASE CallFails(t) \/ AnswerLost(t)
  BY <1>4, <1>5 DEF CallFails, AnswerLost
<1>6. CASE Save(t) \/ SaveMark(t) \/ SaveFails(t) \/ WalkFails(t)
  BY <1>6, EndEffects
<1>7. CASE GoneDone(t) \/ PurgeDone(t)
  BY <1>3, <1>7 DEF GoneDone, PurgeDone
<1>8. CASE PutDone(t)
  <2>1. Goto(t, [frame[t] EXCEPT !.pc = "purge",
                    !.todo = Present(frame[t].next) \ Present(frame[t].infos)]) =>
           frame'[t].op = frame[t].op
    BY <1>1 DEF Goto, Frame
  <2>2. QED
    BY <1>3, <1>8, <2>1 DEF PutDone
<1>9. CASE Probe(t)
  <2>1. Goto(t, [frame[t] EXCEPT !.pc = "list", !.todo = {}]) =>
           frame'[t].op = frame[t].op
    BY <1>1 DEF Goto, Frame
  <2>2. "ok" \in Resting
    BY DEF Resting
  <2>3. QED
    BY <1>2, <1>9, <2>1, <2>2 DEF Probe
<1>10. ASSUME NEW f, Goto(t, f), f.op = frame[t].op PROVE frame'[t].op = frame[t].op
  BY <1>1, <1>10 DEF Goto
<1>11. CASE ListLocal(t) \/ PutObject(t) \/ HeadObject(t)
  <2>1. ListLocal(t) => frame'[t].op = frame[t].op
    BY <1>1, <1>10 DEF ListLocal, Frame
  <2>2. PutObject(t) => frame'[t].op = frame[t].op
    BY <1>1, <1>10 DEF PutObject, Frame
  <2>3. HeadObject(t) => frame'[t].op = frame[t].op
    BY <1>1, <1>10 DEF HeadObject, Frame
  <2>4. QED
    BY <1>11, <2>1, <2>2, <2>3
<1>12. CASE DeleteObject(t)
  BY <1>1, <1>10, <1>12 DEF DeleteObject, Frame
<1>13. CASE ListRemote(t) \/ StatDone(t) \/ Download(t) \/ Restat(t) \/ Remove(t)
  <2>1. ListRemote(t) \/ StatDone(t) => frame'[t].op = frame[t].op
    BY <1>1, <1>10 DEF ListRemote, StatDone, Frame
  <2>2. Download(t) \/ Remove(t) => frame'[t].op = frame[t].op
    BY <1>1, <1>10 DEF Download, Remove, Frame
  <2>3. Restat(t) => frame'[t].op = frame[t].op
    BY <1>1, <1>10 DEF Restat, Frame
  <2>4. QED
    BY <1>13, <2>1, <2>2, <2>3
<1>14. CASE Stat_Untracked(t) \/ Stat_Keep(t) \/ Stat_Download(t)
  <2>1. Stat_Untracked(t) \/ Stat_Download(t) => frame'[t].op = frame[t].op
    BY <1>1, <1>10 DEF Stat_Untracked, Stat_Download, Frame
  <2>2. Stat_Keep(t) => frame'[t].op = frame[t].op
    BY <1>1, <1>10 DEF Stat_Keep, Frame
  <2>3. QED
    BY <1>14, <2>1, <2>2
<1>15. CASE Gone_Keep(t) \/ Gone_Remove(t)
  BY <1>1, <1>10, <1>15 DEF Gone_Keep, Gone_Remove, Frame
<1>16. QED
  BY <1>5, <1>6, <1>7, <1>8, <1>9, <1>10, <1>11, <1>12, <1>13, <1>14, <1>15
     DEF Step, PullStep, PushStep, FailStep

\* A push stays in the phases of a push.
LEMMA PushStaysPush ==
    ASSUME IInv, NEW t \in Callers, Step(t), frame[t].op = "push",
           frame[t].pc \in {"walk"} \cup PushPhases \cup SavePhases
    PROVE  frame'[t].pc \in {"walk"} \cup PushPhases \cup SavePhases \cup Resting
<1>1. ~Probe(t) /\ ~PullStep(t)
  BY DEF Probe, PullStep, ListRemote, Stat_Untracked, Stat_Keep, Stat_Download,
         StatDone, Download, Restat, Gone_Keep, Gone_Remove, GoneDone, Remove, At,
         PushPhases, SavePhases
<1>2. CASE ListLocal(t) \/ PutObject(t) \/ HeadObject(t) \/ DeleteObject(t)
  BY <1>2, PushEffects DEF PushPhases
<1>3. CASE PutDone(t) \/ PurgeDone(t) \/ CallFails(t) \/ AnswerLost(t)
  BY <1>3, EndEffects DEF PushPhases, SavePhases
<1>4. CASE Save(t) \/ SaveMark(t) \/ SaveFails(t) \/ WalkFails(t)
  BY <1>4, EndEffects
<1>5. QED
  BY <1>1, <1>2, <1>3, <1>4 DEF Step, PushStep, FailStep

\* A handler that does something of its own is in no call, before or after.
LEMMA HandlesOutside ==
    ASSUME ReqInv, InsideInv, NEW t \in Callers, Begin(t) \/ Handle(t)
    PROVE  ~Active(t) /\ UNCHANGED <<frame, mu>>
<1>1. CASE PullReturned(t) \/ PushReturned(t)
  BY <1>1 DEF PullReturned, PushReturned, Returned, Active, Resting, vars
<1>2. CASE Begin(t) \/ Status(t) \/ Read(t) \/ CreateLooks(t) \/ AppendReads(t)
              \/ VaultFails(t)
  BY <1>2 DEF InsideInv, InsideOK, Begin, Status, Read, CreateLooks, AppendReads,
              VaultFails, Is, vars
<1>3. CASE CreateOrAppend(t) \/ Update(t) \/ Delete(t)
  BY <1>3 DEF InsideInv, InsideOK, CreateOrAppend, Update, Delete, Replace, Is, vars
<1>4. QED
  BY <1>1, <1>2, <1>3 DEF Handle

\* Every step keeps it.
LEMMA InsidePreserved ==
    ASSUME ToolsInv, InsideInv, [ToolsNext]_toolVars
    PROVE  InsideInv'
<1> SUFFICES ASSUME NEW t \in Callers PROVE InsideOK(t)'
  BY DEF InsideInv
<1>1. IInv /\ ReqInv /\ frame \in [Callers -> Frame] /\ req \in [Callers -> Request]
  BY DEF ToolsInv, IInv, ReqInv
<1>2. ASSUME frame'[t] = frame[t], req'[t] = req[t] PROVE InsideOK(t)'
  BY <1>2 DEF InsideInv, InsideOK, Active, Is
<1>3. ASSUME frame'[t].pc \in Resting PROVE InsideOK(t)'
  BY <1>3 DEF InsideOK, Active
<1>4. ASSUME NEW u \in Callers, u # t,
             Begin(u) \/ CallSync(u) \/ Handle(u) \/ SyncStep(u)
      PROVE  InsideOK(t)'
  <2>1. req'[t] = req[t]
    BY <1>1, <1>4, OthersWait
  <2>2. CASE Begin(u) \/ Handle(u)
    BY <1>1, <1>2, <2>1, <2>2, HandlesOutside
  <2>3. CASE CallSync(u)
    <3>1. \E f : frame' = [frame EXCEPT ![u] = f]
      BY <2>3 DEF CallSync, EnsureFresh, Pull, Push, Locked, Return
    <3>2. QED
      BY <1>1, <1>2, <1>4, <2>1, <3>1
  <2>4. CASE SyncStep(u)
    BY <1>1, <1>2, <1>4, <2>1, <2>4, StepMovesOne DEF SyncStep
  <2>5. QED
    BY <1>4, <2>2, <2>3, <2>4
<1>5. ASSUME Begin(t) \/ Handle(t) PROVE InsideOK(t)'
  BY <1>1, <1>3, <1>5, HandlesOutside DEF Active
<1>6. ASSUME CallSync(t), frame'[t].pc \notin Resting PROVE InsideOK(t)'
  <2>1. CASE Is(t, "fresh") /\ EnsureFresh(t) /\ Proceed(t, "freshening")
    <3>1. req'[t].at = "freshening"
      BY <1>1, <2>1, AnswerOrProceed DEF Stages
    <3>2. QED
      BY <3>1 DEF InsideOK, Is
  <2>2. CASE Is(t, "pull") /\ Pull(t) /\ Proceed(t, "pulling")
    <3>1. req'[t].at = "pulling"
      BY <1>1, <2>2, AnswerOrProceed DEF Stages
    <3>2. QED
      BY <3>1 DEF InsideOK, Is
  <2>3. CASE Is(t, "push") /\ Push(t) /\ Proceed(t, "pushing")
    <3>1. req'[t].at = "pushing"
      BY <1>1, <2>3, AnswerOrProceed DEF Stages
    <3>2. frame'[t].pc = "walk" /\ frame'[t].op = "push"
      BY <1>1, <1>6, <2>3, CallEffects
    <3>3. QED
      BY <3>1, <3>2 DEF InsideOK, Is
  <2>4. QED
    BY <1>6, <2>1, <2>2, <2>3 DEF CallSync
<1>7. ASSUME SyncStep(t), frame'[t].pc \notin Resting PROVE InsideOK(t)'
  <2>1. Step(t) /\ req' = req
    BY <1>7 DEF SyncStep
  <2>2. Active(t) /\ InsideOK(t)
    BY <2>1, StepActive DEF InsideInv
  <2>3. frame'[t].op = frame[t].op
    BY <1>1, <1>7, <2>1, StepKeepsOp
  <2>4. QED
    BY <1>1, <1>7, <2>1, <2>2, <2>3, PushStaysPush DEF InsideOK, Is
<1>8. CASE Restart
  <2>1. Rest("ok").pc = "ok"
    BY RestFrame DEF Phases, Resting
  <2>2. QED
    BY <1>3, <1>8, <2>1 DEF Restart, Crash, Resting
<1>9. CASE Others
  BY <1>2, <1>9 DEF Others, ForeignPut, ForeignDelete
<1>10. CASE UNCHANGED toolVars
  BY <1>2, <1>10 DEF toolVars, vars
<1>11. QED
  BY <1>3, <1>4, <1>5, <1>6, <1>7, <1>8, <1>9, <1>10 DEF ToolsNext

\* It holds before the first request.
LEMMA InitInside == ToolsInit => InsideInv
<1>1. Init => \A t \in Callers : frame[t].pc = "ok"
  BY RestFrame DEF Init, Phases, Resting
<1>2. QED
  BY <1>1 DEF ToolsInit, InsideInv, InsideOK, Active, Resting

LEMMA InsideInvariance ==
    ASSUME VaultWrites = "any time"
    PROVE  ToolsSpec => [](ToolsInv /\ InsideInv)
<1>1. ToolsInv /\ InsideInv /\ [ToolsNext]_toolVars => InsideInv'
  BY InsidePreserved
<1>2. QED
  BY <1>1, InitInside, ToolsInvariance, PTL DEF ToolsSpec

-----------------------------------------------------------------------------
(* What the handler remembers *)

\* What a handler remembers of its request from one stage to the next.
LEMMA Remembers ==
    ASSUME ReqInv, NEW t \in Callers
    PROVE  LET r == req[t]
               s == req'[t]
           IN  /\ \A a \in Answers : Answer(t, a) => s.at = "idle" /\ s.found = None
               /\ \A stage \in Stages : Proceed(t, stage) =>
                     /\ s.at = stage /\ s.found = r.found
                     /\ s.tool = r.tool /\ s.path = r.path
               /\ \A d : Replace(t, d) =>
                     /\ s.at = "push" /\ s.found = None
                     /\ s.tool = r.tool /\ s.path = r.path
               /\ Begin(t) =>
                     s.at \notin {"replace", "push", "pushing"} /\ s.found = None
<1>1. req[t] \in Request /\ req \in [Callers -> Request]
  BY DEF ReqInv
<1> DEFINE r == req[t]
           s == req'[t]
<1>2. ASSUME NEW a \in Answers, Answer(t, a) PROVE s.at = "idle" /\ s.found = None
  <2>1. s = [NoRequest EXCEPT !.answer = a]
    BY <1>1, <1>2 DEF Answer
  <2>2. QED
    BY <2>1 DEF NoRequest
<1>3. ASSUME NEW stage \in Stages, Proceed(t, stage)
      PROVE  s.at = stage /\ s.found = r.found /\ s.tool = r.tool /\ s.path = r.path
  <2>1. s = [r EXCEPT !.at = stage]
    BY <1>1, <1>3 DEF Proceed
  <2>2. QED
    BY <1>1, <2>1 DEF Request
<1>4. ASSUME NEW d, Replace(t, d)
      PROVE  s.at = "push" /\ s.found = None /\ s.tool = r.tool /\ s.path = r.path
  <2>1. s = [r EXCEPT !.at = "push", !.found = None, !.wrote = TRUE]
    BY <1>1, <1>4 DEF Replace
  <2>2. QED
    BY <1>1, <2>1 DEF Request
<1>5. ASSUME Begin(t)
      PROVE  s.at \notin {"replace", "push", "pushing"} /\ s.found = None
  <2>1. PICK tool \in Served, p \in Paths, x \in Pieces :
           LET n == [NoRequest EXCEPT !.tool = tool, !.path = p, !.piece = x] IN
           req' = [req EXCEPT ![t] = IF ScopeOf(tool) \in Scopes
                                     THEN [n EXCEPT !.at = First(tool)]
                                     ELSE [NoRequest EXCEPT !.answer = "error"]]
    BY <1>5 DEF Begin
  <2> DEFINE n == [NoRequest EXCEPT !.tool = tool, !.path = p, !.piece = x]
             begun == [n EXCEPT !.at = First(tool)]
             refused == [NoRequest EXCEPT !.answer = "error"]
  <2>2. First(tool) \in {"pull", "status", "fresh"}
    BY DEF First
  <2>3. begun.at = First(tool) /\ begun.found = None
    BY DEF NoRequest
  <2>4. refused.at = "idle" /\ refused.found = None
    BY DEF NoRequest
  <2>5. s = begun \/ s = refused
    BY <1>1, <2>1
  <2> HIDE DEF begun, refused
  <2>6. QED
    BY <2>2, <2>3, <2>4, <2>5
<1>6. QED
  BY <1>2, <1>3, <1>4, <1>5

-----------------------------------------------------------------------------
(* The push behind a write *)

\* The bucket has the note as the vault has it.
Mirrored(p) == local[p] # None => remote[p] # None /\ remote[p].data = local[p].data

\* The manifest does not have the note as synchronised.
Edited(p) ==
    local[p] # None =>
        disk.entries[p] = None \/ ~LocalUnchanged(local[p], disk.entries[p])

\* A push that began with an edited note sends it before it saves.
SendsOK(f, p) ==
    /\ f.pc = "walk" => Edited(p) /\ (local[p] # None => p \in f.todo)
    /\ f.pc \in {"put", "head"} /\ local[p] # None =>
          f.infos[p] # None /\ (p \in f.todo \/ Mirrored(p))
    /\ f.pc = "head" /\ f.cur = p => Mirrored(p)
    /\ f.pc = "purge" => Mirrored(p) /\ (local[p] # None => p \notin f.todo)
    /\ f.pc = "save" => Mirrored(p)

MirrorOK(t) ==
    req[t].tool \in WriteTools /\ req[t].path \notin Hidden =>
        /\ Is(t, "push") => Edited(req[t].path)
        /\ Is(t, "pushing") => SendsOK(frame[t], req[t].path)

MirrorInv == \A t \in Callers : MirrorOK(t)

\* Once an object is written it holds what the file held.
LEMMA PutMirrors ==
    ASSUME IInv, NEW t \in Callers, PutObject(t), NEW p \in Paths
    PROVE  /\ UNCHANGED local
           /\ Mirrored(p) \/ frame'[t].cur = p => Mirrored(p)'
<1> DEFINE q == frame'[t].cur
<1>1. /\ q \in frame[t].todo /\ local[q] # None
      /\ ObjectWritten(q, local[q].data) /\ UNCHANGED local
  BY PushEffects DEF PutObject
<1>2. q \in Paths /\ local[q].data \in Data /\ remote \in [Paths -> Object \cup {None}]
  BY <1>1 DEF IInv, GlobalsOK, Frame, File
<1>3. PICK s \in Unused(LmsInUse(q)) :
         remote' = [remote EXCEPT ![q] = [data |-> local[q].data, lm |-> s]]
  BY <1>1 DEF ObjectWritten
<1>4. [data |-> local[q].data, lm |-> s] \in Object
  BY <1>2, FreshStamp DEF Object
<1>5. remote'[q] # None /\ remote'[q].data = local[q].data
  BY <1>2, <1>3, <1>4, AbsenceAssumption
<1>6. q # p => remote'[p] = remote[p]
  BY <1>2, <1>3
<1>7. QED
  BY <1>1, <1>5, <1>6 DEF Mirrored

\* The steps of a push.
LEMMA PushSends ==
    ASSUME IInv, NEW t \in Callers, Step(t), NEW p \in Paths \ Hidden,
           frame[t].op = "push", frame[t].pc \in {"walk"} \cup PushPhases \cup SavePhases,
           SendsOK(frame[t], p), NEW n, n = frame'[t]
    PROVE  SendsOK(n, p)'
<1> DEFINE f == frame[t]
<1>1. Active(t)
  BY StepActive
<1>2. /\ EntriesOK(f, disk.entries) /\ f \in Frame /\ f.todo \subseteq Paths
      /\ local \in [Paths -> File \cup {None}]
  BY <1>1, InsideCall DEF Frame, IInv, GlobalsOK
<1>3. CASE ListLocal(t)
  <2>1. /\ f.pc = "walk" /\ f.todo \subseteq Present(local)
        /\ f.next = disk.entries /\ UNCHANGED <<local, remote, disk>>
    BY <1>2, <1>3 DEF ListLocal, At, EntriesOK
  <2>2. /\ n.pc = "put"
        /\ n.todo = {q \in f.todo : \/ f.next[q] = None
                                    \/ ~LocalUnchanged(local[q], f.next[q])}
        /\ n.infos = [q \in Paths |-> IF q \in f.todo THEN local[q].mtime ELSE None]
    BY <1>3, PushEffects
  <2>3. ASSUME local[p] # None PROVE n.infos[p] # None /\ p \in n.todo
    <3>1. p \in f.todo /\ Edited(p)
      BY <2>1, <2>3 DEF SendsOK
    <3>2. local[p].mtime \in Stamps
      BY <1>2, <2>3 DEF File
    <3>3. QED
      BY <2>1, <2>2, <2>3, <3>1, <3>2, NoneAssumption DEF Edited
  <2>4. QED
    BY <2>1, <2>2, <2>3 DEF SendsOK
<1>4. CASE PutObject(t)
  <2>1. /\ n.pc = "head" /\ n.todo = f.todo /\ n.infos = f.infos /\ f.pc = "put"
    BY <1>4, PushEffects DEF PutObject, At
  <2>2. UNCHANGED local /\ (Mirrored(p) \/ n.cur = p => Mirrored(p)')
    BY <1>4, PutMirrors
  <2>3. QED
    BY <2>1, <2>2 DEF SendsOK
<1>5. CASE HeadObject(t)
  <2>1. /\ n.pc = "put" /\ n.infos = f.infos /\ n.todo = f.todo \ {f.cur}
        /\ f.pc = "head" /\ UNCHANGED <<local, remote, disk>>
    BY <1>5, PushEffects DEF HeadObject, At
  <2>2. Mirrored(p) => Mirrored(p)'
    BY <2>1 DEF Mirrored
  <2>3. QED
    BY <2>1, <2>2 DEF SendsOK
<1>6. CASE PutDone(t)
  <2>1. f.pc = "put" /\ f.todo = {} /\ UNCHANGED <<local, remote>>
    BY <1>6 DEF PutDone, At
  <2>2. \/ n.pc \in Resting
        \/ n.pc = "save"
        \/ n.pc = "purge" /\ n.todo = Present(f.next) \ Present(f.infos)
    BY <1>6, EndEffects
  <2>3. Mirrored(p)' /\ (local[p] # None => f.infos[p] # None)
    BY <2>1 DEF SendsOK, Mirrored
  <2>4. QED
    BY <2>1, <2>2, <2>3 DEF SendsOK, Present, Resting
<1>7. CASE DeleteObject(t)
  <2>1. PICK q \in f.todo : /\ n.pc = "purge" /\ n.todo = f.todo \ {q}
                            /\ remote' = [remote EXCEPT ![q] = None]
    BY <1>7, PushEffects
  <2>2. f.pc = "purge" /\ UNCHANGED local
    BY <1>7 DEF DeleteObject, At
  <2>3. Mirrored(p) /\ (local[p] # None => p \notin f.todo)
    BY <2>2 DEF SendsOK
  <2>4. local[p] # None => remote'[p] = remote[p]
    BY <2>1, <2>3 DEF IInv, GlobalsOK
  <2>5. QED
    BY <2>1, <2>2, <2>3, <2>4 DEF SendsOK, Mirrored
<1>8. CASE PurgeDone(t)
  <2>1. f.pc = "purge" /\ UNCHANGED <<local, remote>>
    BY <1>8 DEF PurgeDone, At
  <2>2. n.pc \in Resting \cup {"save"}
    BY <1>8, EndEffects
  <2>3. Mirrored(p)'
    BY <2>1 DEF SendsOK, Mirrored
  <2>4. QED
    BY <2>2, <2>3 DEF SendsOK, Resting
<1>9. CASE \/ Save(t) \/ SaveMark(t) \/ SaveFails(t) \/ WalkFails(t)
           \/ CallFails(t) \/ AnswerLost(t)
  <2>1. n.pc \in Resting \cup {"mark"}
    BY <1>9, EndEffects
  <2>2. QED
    BY <2>1 DEF SendsOK, Resting
<1>10. ~Probe(t) /\ ~PullStep(t)
  BY DEF Probe, PullStep, ListRemote, Stat_Untracked, Stat_Keep, Stat_Download,
         StatDone, Download, Restat, Gone_Keep, Gone_Remove, GoneDone, Remove, At,
         PushPhases, SavePhases
<1>11. QED
  BY <1>3, <1>4, <1>5, <1>6, <1>7, <1>8, <1>9, <1>10 DEF Step, PushStep, FailStep

\* A write leaves the note with a time the manifest does not know.
LEMMA WrittenIsEdited ==
    ASSUME IInv, NEW p \in Paths, NEW d, FileWritten(p, d), UNCHANGED disk
    PROVE  Edited(p)'
<1>1. PICK s \in Unused(MtimesInUse(p)) :
         local' = [local EXCEPT ![p] = [data |-> d, mtime |-> s]]
  BY DEF FileWritten
<1>2. s \notin MtimesInUse(p)
  BY FreshStamp
<1>3. disk.entries[p] # None => disk.entries[p].mtime \in MtimesInUse(p)
  BY DEF MtimesInUse
<1>4. local'[p].mtime = s
  BY <1>1 DEF IInv, GlobalsOK
<1>5. QED
  BY <1>2, <1>3, <1>4 DEF Edited, LocalUnchanged

\* Every step keeps it, if nobody else is served between the write and the end of
\* its push, and other programs write to the bucket between calls at most.
LEMMA MirrorPreserved ==
    ASSUME OneCaller, BucketWrites # "any time",
           ToolsInv, InsideInv, MirrorInv, [ToolsNext]_toolVars
    PROVE  MirrorInv'
<1> SUFFICES ASSUME NEW t \in Callers PROVE MirrorOK(t)'
  BY DEF MirrorInv
<1> DEFINE p == req[t].path
           Kept == req'[t].tool = req[t].tool /\ req'[t].path = p
<1>0. PICK q, n : q = req'[t].path /\ n = frame'[t]
  OBVIOUS
<1> DEFINE Goal == req'[t].tool \in WriteTools /\ q \notin Hidden =>
                      /\ req'[t].at = "push" => Edited(q)'
                      /\ req'[t].at = "pushing" => SendsOK(n, q)'
<1>a. SUFFICES Goal
  BY <1>0 DEF MirrorOK, Is, SendsOK, Edited, Mirrored, LocalUnchanged
<1>1. /\ IInv /\ ReqInv /\ RequestOK(req[t]) /\ MirrorOK(t) /\ InsideOK(t)
      /\ req[t] \in Request /\ req \in [Callers -> Request]
  BY DEF ToolsInv, ReqInv, MirrorInv, InsideInv
<1>2. ASSUME req'[t].at \notin {"push", "pushing"} PROVE Goal
  BY <1>2
<1>3. ASSUME NEW a \in Answers, Answer(t, a) PROVE Goal
  BY <1>1, <1>2, <1>3, Remembers
<1>4. ASSUME NEW stage \in Stages \ {"push", "pushing"}, Proceed(t, stage) PROVE Goal
  BY <1>1, <1>2, <1>4, Remembers
<1>5. CASE Begin(t)
  BY <1>1, <1>2, <1>5, Remembers
<1>6. CASE CallSync(t)
  <2>1. ASSUME Is(t, "push"), Push(t), Proceed(t, "pushing"),
               req'[t].tool \in WriteTools, q \notin Hidden
        PROVE  req'[t].at = "pushing" /\ SendsOK(n, q)'
    <3>1. req'[t].at = "pushing" /\ Kept
      BY <1>1, <2>1, Remembers DEF Stages
    <3>2. Edited(q) /\ q \in Paths \ Hidden
      BY <1>0, <1>1, <2>1, <3>1 DEF MirrorOK, RequestOK, Is
    <3>3. UNCHANGED <<local, remote, disk>>
      BY <2>1, <1>1, CallEffects DEF Call
    <3>4. n.pc \in Resting \/ (n.pc = "walk" /\ n.todo = Listed)
      BY <1>0, <1>1, <2>1, CallEffects
    <3>5. SendsOK(n, q)'
      BY <3>2, <3>3, <3>4 DEF SendsOK, Edited, LocalUnchanged, Listed, Present, Resting
    <3>6. QED
      BY <3>1, <3>5
  <2>2. QED
    BY <1>4, <1>6, <2>1 DEF CallSync, Stages
<1>7. CASE SyncStep(t)
  <2>1. Step(t) /\ Active(t) /\ req' = req
    BY <1>7, StepActive DEF SyncStep
  <2>2. ~Is(t, "push") /\ p = q
    BY <1>0, <1>1, <2>1 DEF InsideOK, Is
  <2>3. ASSUME Is(t, "pushing"), req[t].tool \in WriteTools, q \notin Hidden
        PROVE  SendsOK(n, q)'
    <3>1. /\ SendsOK(frame[t], q) /\ q \in Paths \ Hidden /\ frame[t].op = "push"
          /\ frame[t].pc \in {"walk"} \cup PushPhases \cup SavePhases
      BY <1>1, <2>1, <2>2, <2>3 DEF MirrorOK, InsideOK, RequestOK, Is
    <3>2. QED
      BY <1>0, <1>1, <2>1, <3>1, PushSends
  <2>4. QED
    BY <2>1, <2>2, <2>3 DEF Is
<1>8. CASE PullReturned(t)
  <2>1. ASSUME Is(t, "pulling"), Proceed(t, "push") PROVE Goal
    <3>1. Kept
      BY <1>1, <2>1, Remembers DEF Stages
    <3>2. req'[t].tool \notin WriteTools
      BY <1>1, <2>1, <3>1 DEF RequestOK, Is, SyncTools, WriteTools
    <3>3. QED
      BY <3>2
  <2>2. QED
    BY <1>3, <1>4, <1>8, <2>1 DEF PullReturned, Stages, Answers
<1>9. CASE PushReturned(t)
  BY <1>3, <1>4, <1>9 DEF PushReturned, Stages, Answers
<1>10. CASE Status(t) \/ Read(t) \/ VaultFails(t) \/ CreateLooks(t)
  BY <1>3, <1>4, <1>10 DEF Status, Read, VaultFails, CreateLooks, Answers, Stages
<1>11. CASE AppendReads(t)
  <2>1. ASSUME NEW d, req' = [req EXCEPT ![t].at = "replace", ![t].found = d]
        PROVE  Goal
    <3>1. req'[t] = [req[t] EXCEPT !.at = "replace", !.found = d]
      BY <1>1, <2>1
    <3>2. req'[t].at = "replace"
      BY <1>1, <3>1 DEF Request
    <3>3. QED
      BY <1>2, <3>2
  <2>2. QED
    BY <1>3, <1>11, <2>1 DEF AppendReads, Answers
<1>12. CASE CreateOrAppend(t) \/ Update(t)
  <2>1. PICK d : Replace(t, d)
    BY <1>12 DEF CreateOrAppend, Update
  <2>2. q = p /\ p \in Paths
    BY <1>0, <1>1, <1>12, <2>1, Remembers DEF CreateOrAppend, Update, Is, RequestOK
  <2>3. req'[t].at = "push" /\ Kept
    BY <1>1, <2>1, Remembers
  <2>4. FileWritten(p, d) /\ UNCHANGED disk
    BY <2>1 DEF Replace
  <2>5. Edited(q)'
    BY <1>1, <2>2, <2>4, WrittenIsEdited
  <2>6. QED
    BY <2>3, <2>5
<1>13. CASE Delete(t)
  <2>1. ASSUME local' = [local EXCEPT ![p] = None],
               req' = [req EXCEPT ![t].at = "push", ![t].wrote = TRUE]
        PROVE  Goal
    <3>1. req'[t] = [req[t] EXCEPT !.at = "push", !.wrote = TRUE]
      BY <1>1, <2>1
    <3>2. req'[t].at = "push" /\ Kept
      BY <1>1, <3>1 DEF Request
    <3>3. p \in Paths
      BY <1>1, <1>13 DEF Delete, Is, RequestOK
    <3>4. local'[p] = None
      BY <1>1, <2>1, <3>3 DEF IInv, GlobalsOK
    <3>5. Edited(q)'
      BY <1>0, <3>2, <3>4 DEF Edited
    <3>6. QED
      BY <3>2, <3>5
  <2>2. QED
    BY <1>3, <1>13, <2>1 DEF Delete, Answers
<1>14. CASE Restart
  BY <1>2, <1>14 DEF Restart, NoRequest
<1>15. CASE Others
  <2>1. UNCHANGED <<req, local, disk, mu, frame>> /\ p = q /\ n = frame[t]
    BY <1>0, <1>15 DEF Others, ForeignPut, ForeignDelete
  <2>2. mu = None
    BY <1>15, SwitchAssumption DEF Others, ForeignPut, ForeignDelete, ForeignAllowed, Allowed
  <2>3. n.pc \in Resting
    BY <1>1, <2>1, <2>2, NoneAssumption DEF IInv, MutualExclusion, Active
  <2>4. SendsOK(n, q)'
    BY <2>3 DEF SendsOK, Resting
  <2>5. Edited(q) => Edited(q)'
    BY <2>1 DEF Edited, LocalUnchanged
  <2>6. QED
    BY <1>1, <2>1, <2>4, <2>5 DEF MirrorOK, Is
<1>16. CASE UNCHANGED toolVars
  <2>1. UNCHANGED <<req, local, remote, disk, frame>> /\ p = q /\ n = frame[t]
    BY <1>0, <1>16 DEF toolVars, vars
  <2>2. (Edited(q) => Edited(q)') /\ (SendsOK(n, q) => SendsOK(n, q)')
    BY <2>1 DEF SendsOK, Edited, Mirrored, LocalUnchanged
  <2>3. QED
    BY <1>1, <2>1, <2>2 DEF MirrorOK, Is
<1>17. ASSUME NEW u \in Callers, Begin(u) \/ CallSync(u) \/ Handle(u) \/ SyncStep(u)
       PROVE  Goal
  <2>1. u = t
    BY DEF OneCaller
  <2>2. QED
    BY <1>5, <1>6, <1>7, <1>8, <1>9, <1>10, <1>11, <1>12, <1>13, <1>17, <2>1 DEF Handle
<1>18. QED
  BY <1>14, <1>15, <1>16, <1>17 DEF ToolsNext

\* While one request is served at a time, and other programs write to the bucket
\* between calls at most, the push behind a write that succeeds has the note in the
\* bucket as the vault has it: an answer without a warning is not given too early.
THEOREM OkMirrors ==
    ASSUME OneCaller, VaultWrites = "any time", BucketWrites # "any time"
    PROVE  ToolsSpec => OkMeansMirrored
<1>1. ASSUME ToolsInit PROVE MirrorInv
  <2>1. NoRequest.at = "idle"
    BY DEF NoRequest
  <2>2. \A t \in Callers : req[t] = NoRequest
    BY <1>1 DEF ToolsInit
  <2>3. QED
    BY <2>1, <2>2 DEF MirrorInv, MirrorOK, Is
<1>2. ToolsInv /\ InsideInv /\ MirrorInv /\ [ToolsNext]_toolVars => MirrorInv'
  BY MirrorPreserved
<1>3. ToolsInv /\ InsideInv /\ MirrorInv /\ [ToolsNext]_toolVars =>
         [\A t \in Callers :
             Is(t, "pushing") /\ req[t].tool \in WriteTools /\ At(t, "save") /\ disk'.ok
               => LET p == req[t].path
                  IN  local[p] # None /\ p \notin Hidden =>
                         remote[p] # None /\ remote[p].data = local[p].data]_toolVars
  BY DEF MirrorInv, MirrorOK, SendsOK, Mirrored, At
<1>4. QED
  BY <1>1, <1>2, <1>3, InsideInvariance, PTL DEF ToolsSpec, OkMeansMirrored

-----------------------------------------------------------------------------
(* What is proved of calls that run while no handler writes *)

\* A handler that writes a note is in no call, and nobody else is.
LEMMA AloneWrites ==
    ASSUME OneCaller, ToolsInv, InsideInv, [ToolsNext]_toolVars
    PROVE  WritersWait
<1>1. IInv /\ ReqInv
  BY DEF ToolsInv
<1>2. ASSUME NEW t \in Callers, Begin(t) \/ Handle(t) PROVE mu = None
  <2>1. ~Active(t)
    BY <1>1, <1>2, HandlesOutside
  <2>2. \A u \in Callers : mu # u
    BY <1>1, <2>1 DEF OneCaller, IInv, MutualExclusion
  <2>3. QED
    BY <1>1, <2>2 DEF IInv, GlobalsOK
<1>3. ASSUME NEW t \in Callers, CallSync(t) PROVE UNCHANGED local
  BY <1>1, <1>3, CallEffects DEF CallSync, Call
<1>4. Restart \/ Others \/ UNCHANGED toolVars => UNCHANGED local
  BY DEF Restart, Crash, Others, ForeignPut, ForeignDelete, toolVars, vars
<1>5. QED
  BY <1>2, <1>3, <1>4 DEF ToolsNext, SyncStep, WritersWait

\* Both at once, for the steps of the server.
LEMMA AloneSteps ==
    ASSUME OneCaller, VaultWrites = "any time",
           ToolsInv, InsideInv, [ToolsNext]_toolVars
    PROVE  IInv /\ [Next]_vars /\ WritersWait
BY AloneWrites, Simulation DEF ToolsInv

\* While one request is served at a time, and other programs leave tracked objects
\* alone, no synchronisation changes or removes a note the vault lists: what clients
\* wrote last stays, through failures, lost answers and restarts.
THEOREM HandlersTruth ==
    ASSUME OneCaller, VaultWrites = "any time", BucketWrites \in {"never", "untracked"}
    PROVE  ToolsSpec => VaultIsTruth
<1>1. ToolsInit => TruthInv
  BY InitTruth DEF ToolsInit
<1>2. ToolsInv /\ InsideInv /\ TruthInv /\ [ToolsNext]_toolVars => TruthInv'
  BY AloneSteps, TruthPreserved DEF OthersHold
<1>3. ToolsInv /\ InsideInv /\ TruthInv /\ [ToolsNext]_toolVars =>
         [\A t \in Callers, p \in Paths \ Hidden :
             Moves(t) /\ local[p] # None => local'[p] = local[p]]_vars
  BY AloneSteps, OverwritesNone
<1>4. QED
  BY <1>1, <1>2, <1>3, InsideInvariance, PTL DEF ToolsSpec, VaultIsTruth
=============================================================================
