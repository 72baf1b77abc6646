------------------------- MODULE S3SyncData_proofs -------------------------
(***************************************************************************)
(* Theorems about what the calls of the synchroniser do to the manifest,   *)
(* the notes and the objects: what a failed call leaves behind, that what  *)
(* is in sync is left alone, and that a vault written between calls only   *)
(* is the truth.                                                           *)
(***************************************************************************)
EXTENDS S3Sync_proofs

-----------------------------------------------------------------------------
(* What a step makes of the caller's frame *)

\* The loops of a pull.
LEMMA PullEffects ==
    ASSUME IInv, NEW t \in Callers
    PROVE  LET f == frame[t]
               n == frame'[t]
           IN  /\ ListRemote(t) =>
                     /\ n.pc = "stat" /\ n.next = f.next
                     /\ n.objs = remote /\ n.todo = Present(remote)
               /\ Stat_Untracked(t) =>
                     \E p \in f.todo :
                        /\ n.pc = "stat" /\ n.next = f.next
                        /\ n.objs = f.objs /\ n.todo = f.todo \ {p}
               /\ Stat_Keep(t) =>
                     \E p \in f.todo :
                        /\ n.pc = "stat" /\ n.objs = f.objs /\ n.todo = f.todo \ {p}
                        /\ n.next = [f.next EXCEPT ![p] = EntryOf(f.objs[p], local[p].mtime)]
               /\ Stat_Download(t) =>
                     \E p \in f.todo :
                        /\ WantsDownload(local[p], f.next[p], f.objs[p])
                        /\ n.pc = "get" /\ n.next = f.next
                        /\ n.objs = f.objs /\ n.todo = f.todo /\ n.cur = p
               /\ Download(t) =>
                     /\ n.pc = "restat" /\ n.next = f.next
                     /\ n.objs = f.objs /\ n.todo = f.todo /\ n.cur = f.cur
               /\ Restat(t) =>
                     /\ n.pc = "stat" /\ n.objs = f.objs /\ n.todo = f.todo \ {f.cur}
                     /\ n.next = [f.next EXCEPT ![f.cur] =
                                    EntryOf(f.objs[f.cur], local[f.cur].mtime)]
               /\ StatDone(t) =>
                     /\ n.pc = "gone" /\ n.next = f.next
                     /\ n.todo = Present(f.next) \ Present(f.objs)
<1>1. frame \in [Callers -> Frame] /\ frame[t] \in Frame
  BY DEF IInv
<1> DEFINE f == frame[t]
           n == frame'[t]
<1>2. ASSUME ListRemote(t)
      PROVE  /\ n.pc = "stat" /\ n.next = f.next
             /\ n.objs = remote /\ n.todo = Present(remote)
  BY <1>1, <1>2 DEF ListRemote, Goto, Frame
<1>3. ASSUME Stat_Untracked(t)
      PROVE  \E p \in f.todo :
                        /\ n.pc = "stat" /\ n.next = f.next
                        /\ n.objs = f.objs /\ n.todo = f.todo \ {p}
  BY <1>1, <1>3 DEF Stat_Untracked, Goto, Frame, At
<1>4. ASSUME Stat_Keep(t)
      PROVE  \E p \in f.todo :
                        /\ n.pc = "stat" /\ n.objs = f.objs /\ n.todo = f.todo \ {p}
                        /\ n.next = [f.next EXCEPT ![p] = EntryOf(f.objs[p], local[p].mtime)]
  <2>1. PICK p \in f.todo :
           n = [f EXCEPT !.todo = @ \ {p},
                         !.next[p] = EntryOf(f.objs[p], local[p].mtime)]
    BY <1>1, <1>4 DEF Stat_Keep, Goto
  <2>2. /\ n.pc = f.pc /\ n.objs = f.objs /\ n.todo = f.todo \ {p}
        /\ n.next = [f.next EXCEPT ![p] = EntryOf(f.objs[p], local[p].mtime)]
    BY <1>1, <2>1 DEF Frame
  <2>3. QED
    BY <1>4, <2>2 DEF Stat_Keep, At
<1>5. ASSUME Stat_Download(t)
      PROVE  \E p \in f.todo :
                        /\ WantsDownload(local[p], f.next[p], f.objs[p])
                        /\ n.pc = "get" /\ n.next = f.next
                        /\ n.objs = f.objs /\ n.todo = f.todo /\ n.cur = p
  BY <1>1, <1>5 DEF Stat_Download, Goto, Frame
<1>6. ASSUME Download(t)
      PROVE  /\ n.pc = "restat" /\ n.next = f.next
             /\ n.objs = f.objs /\ n.todo = f.todo /\ n.cur = f.cur
  BY <1>1, <1>6 DEF Download, Goto, Frame
<1>7. ASSUME Restat(t)
      PROVE  /\ n.pc = "stat" /\ n.objs = f.objs /\ n.todo = f.todo \ {f.cur}
             /\ n.next = [f.next EXCEPT ![f.cur] =
                            EntryOf(f.objs[f.cur], local[f.cur].mtime)]
  BY <1>1, <1>7 DEF Restat, Goto, Frame
<1>8. ASSUME StatDone(t)
      PROVE  /\ n.pc = "gone" /\ n.next = f.next
             /\ n.todo = Present(f.next) \ Present(f.objs)
  BY <1>1, <1>8 DEF StatDone, Goto, Frame
<1>9. QED
  BY <1>2, <1>3, <1>4, <1>5, <1>6, <1>7, <1>8

\* The end of a pull, and the loops of a push.
LEMMA PushEffects ==
    ASSUME IInv, NEW t \in Callers
    PROVE  LET f == frame[t]
               n == frame'[t]
           IN  /\ Gone_Keep(t) =>
                     n.pc = "gone" /\ n.next = f.next /\ n.todo \subseteq f.todo
               /\ Gone_Remove(t) =>
                     /\ n.pc = "remove" /\ n.next = f.next
                     /\ n.todo = f.todo /\ n.cur \in f.todo
                     /\ local[n.cur] # None => LocalUnchanged(local[n.cur], f.next[n.cur])
               /\ Remove(t) =>
                     /\ n.pc = "gone" /\ n.todo = f.todo \ {f.cur}
                     /\ n.next = [f.next EXCEPT ![f.cur] = None]
               /\ ListLocal(t) =>
                     /\ n.pc = "put" /\ n.next = f.next
                     /\ n.todo = {p \in f.todo : \/ f.next[p] = None
                                                 \/ ~LocalUnchanged(local[p], f.next[p])}
                     /\ n.infos = [p \in Paths |-> IF p \in f.todo THEN local[p].mtime
                                                                   ELSE None]
               /\ PutObject(t) =>
                     /\ n.pc = "head" /\ n.next = f.next /\ n.todo = f.todo
                     /\ n.infos = f.infos /\ n.cur \in f.todo
                     /\ local[n.cur] # None /\ ObjectWritten(n.cur, local[n.cur].data)
               /\ HeadObject(t) =>
                     /\ n.pc = "put" /\ n.infos = f.infos /\ n.todo = f.todo \ {f.cur}
                     /\ n.next = [f.next EXCEPT ![f.cur] =
                                    EntryOf(remote[f.cur], f.infos[f.cur])]
               /\ DeleteObject(t) =>
                     \E p \in f.todo :
                        /\ n.pc = "purge" /\ n.todo = f.todo \ {p}
                        /\ n.next = [f.next EXCEPT ![p] = None]
                        /\ remote' = [remote EXCEPT ![p] = None]
<1>1. frame \in [Callers -> Frame] /\ frame[t] \in Frame
  BY DEF IInv
<1> DEFINE f == frame[t]
           n == frame'[t]
<1>2. ASSUME Gone_Keep(t)
      PROVE  n.pc = "gone" /\ n.next = f.next /\ n.todo \subseteq f.todo
  BY <1>1, <1>2 DEF Gone_Keep, Goto, Frame, At
<1>3. ASSUME Gone_Remove(t)
      PROVE  /\ n.pc = "remove" /\ n.next = f.next
             /\ n.todo = f.todo /\ n.cur \in f.todo
             /\ local[n.cur] # None => LocalUnchanged(local[n.cur], f.next[n.cur])
  <2>1. PICK p \in f.todo :
           /\ local[p] # None => LocalUnchanged(local[p], f.next[p])
           /\ n = [f EXCEPT !.pc = "remove", !.cur = p]
    BY <1>1, <1>3 DEF Gone_Remove, Goto
  <2>2. n.pc = "remove" /\ n.next = f.next /\ n.todo = f.todo /\ n.cur = p
    BY <1>1, <2>1 DEF Frame
  <2>3. QED
    BY <2>1, <2>2
<1>4. ASSUME Remove(t)
      PROVE  /\ n.pc = "gone" /\ n.todo = f.todo \ {f.cur}
             /\ n.next = [f.next EXCEPT ![f.cur] = None]
  BY <1>1, <1>4 DEF Remove, Goto, Frame
<1>5. ASSUME ListLocal(t)
      PROVE  /\ n.pc = "put" /\ n.next = f.next
             /\ n.todo = {p \in f.todo : \/ f.next[p] = None
                                         \/ ~LocalUnchanged(local[p], f.next[p])}
             /\ n.infos = [p \in Paths |-> IF p \in f.todo THEN local[p].mtime
                                                           ELSE None]
  BY <1>1, <1>5 DEF ListLocal, Goto, Frame
<1>6. ASSUME PutObject(t)
      PROVE  /\ n.pc = "head" /\ n.next = f.next /\ n.todo = f.todo
             /\ n.infos = f.infos /\ n.cur \in f.todo
             /\ local[n.cur] # None /\ ObjectWritten(n.cur, local[n.cur].data)
  <2>1. PICK p \in f.todo :
           /\ local[p] # None /\ ObjectWritten(p, local[p].data)
           /\ n = [f EXCEPT !.pc = "head", !.cur = p]
    BY <1>1, <1>6 DEF PutObject, Goto
  <2>2. /\ n.pc = "head" /\ n.next = f.next /\ n.todo = f.todo
        /\ n.infos = f.infos /\ n.cur = p
    BY <1>1, <2>1 DEF Frame
  <2>3. QED
    BY <2>1, <2>2
<1>7. ASSUME HeadObject(t)
      PROVE  /\ n.pc = "put" /\ n.infos = f.infos /\ n.todo = f.todo \ {f.cur}
             /\ n.next = [f.next EXCEPT ![f.cur] =
                            EntryOf(remote[f.cur], f.infos[f.cur])]
  BY <1>1, <1>7 DEF HeadObject, Goto, Frame
<1>8. ASSUME DeleteObject(t)
      PROVE  \E p \in f.todo :
                /\ n.pc = "purge" /\ n.todo = f.todo \ {p}
                /\ n.next = [f.next EXCEPT ![p] = None]
                /\ remote' = [remote EXCEPT ![p] = None]
  <2>1. PICK p \in f.todo :
           /\ remote' = [remote EXCEPT ![p] = None]
           /\ n = [f EXCEPT !.todo = @ \ {p}, !.next[p] = None]
    BY <1>1, <1>8 DEF DeleteObject, Goto
  <2>2. /\ n.pc = f.pc /\ n.todo = f.todo \ {p}
        /\ n.next = [f.next EXCEPT ![p] = None]
    BY <1>1, <2>1 DEF Frame
  <2>3. QED
    BY <1>8, <2>1, <2>2 DEF DeleteObject, At
<1>9. QED
  BY <1>2, <1>3, <1>4, <1>5, <1>6, <1>7, <1>8

\* The ends of a call.
LEMMA EndEffects ==
    ASSUME IInv, NEW t \in Callers
    PROVE  LET f == frame[t]
               n == frame'[t]
           IN  /\ Save(t) \/ SaveMark(t) \/ SaveFails(t) \/ WalkFails(t) =>
                     n.pc \in Resting
               /\ Probe(t) =>
                     n.pc \in Resting \/ (n.pc = "list" /\ n.next = f.next)
               /\ GoneDone(t) \/ PurgeDone(t) =>
                     n.pc \in Resting \/ (n.pc = "save" /\ n.next = f.next)
               /\ PutDone(t) =>
                     \/ n.pc \in Resting
                     \/ n.pc = "save" /\ n.next = f.next
                     \/ /\ n.pc = "purge" /\ n.next = f.next
                        /\ n.todo = Present(f.next) \ Present(f.infos)
               /\ CallFails(t) \/ AnswerLost(t) =>
                     \/ n.pc \in Resting
                     \/ n.pc = "mark" /\ n.next \in {disk.entries, Nothing}
<1>1. frame \in [Callers -> Frame] /\ frame[t] \in Frame
  BY DEF IInv
<1> DEFINE f == frame[t]
           n == frame'[t]
<1>2. ASSUME NEW r \in Resting, Return(t, r) PROVE n.pc \in Resting
  <2>1. Rest(r).pc = r
    BY RestFrame DEF Phases
  <2>2. QED
    BY <1>1, <1>2, <2>1 DEF Return
<1>3. ASSUME NEW phase \in SavePhases, NEW entries, StartSave(t, phase, entries)
      PROVE  n.pc \in Resting \/ (n.pc = phase /\ n.next = entries)
  <2>1. CASE Return(t, "failed")
    BY <1>2, <2>1 DEF Resting
  <2>2. CASE Goto(t, [Rest(phase) EXCEPT !.op = f.op, !.next = entries])
    BY <1>1, <2>2 DEF Goto, Rest
  <2>3. QED
    BY <1>3, <2>1, <2>2 DEF StartSave
<1>4. Save(t) \/ SaveMark(t) \/ SaveFails(t) \/ WalkFails(t) => n.pc \in Resting
  BY <1>2 DEF Save, SaveMark, SaveFails, WalkFails, Resting
<1>5. Probe(t) => n.pc \in Resting \/ (n.pc = "list" /\ n.next = f.next)
  <2>1. Goto(t, [f EXCEPT !.pc = "list", !.todo = {}]) =>
           n.pc = "list" /\ n.next = f.next
    BY <1>1 DEF Goto, Frame
  <2>2. QED
    BY <1>2, <2>1 DEF Probe, Resting
<1>6. GoneDone(t) \/ PurgeDone(t) =>
         n.pc \in Resting \/ (n.pc = "save" /\ n.next = f.next)
  BY <1>3 DEF GoneDone, PurgeDone, SavePhases
<1>7. PutDone(t) =>
         \/ n.pc \in Resting
         \/ n.pc = "save" /\ n.next = f.next
         \/ /\ n.pc = "purge" /\ n.next = f.next
            /\ n.todo = Present(f.next) \ Present(f.infos)
  <2>1. Goto(t, [f EXCEPT !.pc = "purge", !.todo = Present(f.next) \ Present(f.infos)]) =>
           /\ n.pc = "purge" /\ n.next = f.next
           /\ n.todo = Present(f.next) \ Present(f.infos)
    BY <1>1 DEF Goto, Frame
  <2>2. QED
    BY <1>3, <2>1 DEF PutDone, SavePhases
<1>8. CallFails(t) \/ AnswerLost(t) =>
         \/ n.pc \in Resting
         \/ n.pc = "mark" /\ n.next \in {disk.entries, Nothing}
  <2>1. Goto(t, [Rest("mark") EXCEPT !.op = f.op]) => n.pc = "mark" /\ n.next = Nothing
    BY <1>1 DEF Goto, Rest
  <2>2. MarkError(t) => \/ n.pc \in Resting
                        \/ n.pc = "mark" /\ n.next \in {disk.entries, Nothing}
    BY <1>3, <2>1 DEF MarkError, SavePhases
  <2>3. QED
    BY <2>2 DEF CallFails, AnswerLost
<1>9. QED
  BY <1>4, <1>5, <1>6, <1>7, <1>8

\* The start of a call.
LEMMA CallEffects ==
    ASSUME IInv, NEW t \in Callers
    PROVE  LET n == frame'[t]
           IN  /\ Call(t) => UNCHANGED <<local, remote, disk>>
               /\ EnsureFresh(t) =>
                     \/ n.pc \in Resting
                     \/ n.pc = "walk" /\ n.op = "ensure" /\ n.next = disk.entries
               /\ Pull(t) =>
                     n.pc \in Resting \/ (n.pc = "list" /\ n.next = disk.entries)
               /\ Push(t) =>
                     \/ n.pc \in Resting
                     \/ /\ n.pc = "walk" /\ n.op = "push"
                        /\ n.next = disk.entries /\ n.todo = Listed
<1>1. frame \in [Callers -> Frame]
  BY DEF IInv
<1> DEFINE n == frame'[t]
<1>2. ASSUME NEW f, Locked(t, f) PROVE n.pc \in Resting \/ n = f
  <2>1. CASE Return(t, "failed")
    <3>1. Rest("failed").pc = "failed"
      BY RestFrame DEF Phases, Resting
    <3>2. QED
      BY <1>1, <2>1, <3>1 DEF Return, Resting
  <2>2. CASE frame' = [frame EXCEPT ![t] = f]
    BY <1>1, <2>2
  <2>3. QED
    BY <1>2, <2>1, <2>2 DEF Locked
<1>3. Call(t) => UNCHANGED <<local, remote, disk>>
  BY DEF Call, EnsureFresh, Pull, Push, Locked
<1>4. ASSUME EnsureFresh(t)
      PROVE  \/ n.pc \in Resting
             \/ n.pc = "walk" /\ n.op = "ensure" /\ n.next = disk.entries
  <2> DEFINE f == [Rest("walk") EXCEPT !.op = "ensure", !.next = disk.entries,
                                       !.todo = Listed]
  <2>1. f.pc = "walk" /\ f.op = "ensure" /\ f.next = disk.entries
    BY DEF Rest
  <2>2. Locked(t, f)
    BY <1>4 DEF EnsureFresh
  <2> HIDE DEF f
  <2>3. QED
    BY <1>2, <2>1, <2>2
<1>5. ASSUME Pull(t)
      PROVE  n.pc \in Resting \/ (n.pc = "list" /\ n.next = disk.entries)
  <2> DEFINE f == [Rest("list") EXCEPT !.op = "pull", !.next = disk.entries]
  <2>1. f.pc = "list" /\ f.next = disk.entries
    BY DEF Rest
  <2>2. Locked(t, f)
    BY <1>5 DEF Pull
  <2> HIDE DEF f
  <2>3. QED
    BY <1>2, <2>1, <2>2
<1>6. ASSUME Push(t)
      PROVE  \/ n.pc \in Resting
             \/ /\ n.pc = "walk" /\ n.op = "push"
                /\ n.next = disk.entries /\ n.todo = Listed
  <2> DEFINE f == [Rest("walk") EXCEPT !.op = "push", !.next = disk.entries,
                                       !.todo = Listed]
  <2>1. f.pc = "walk" /\ f.op = "push" /\ f.next = disk.entries /\ f.todo = Listed
    BY DEF Rest
  <2>2. Locked(t, f)
    BY <1>6 DEF Push
  <2> HIDE DEF f
  <2>3. QED
    BY <1>2, <2>1, <2>2
<1>7. QED
  BY <1>3, <1>4, <1>5, <1>6

-----------------------------------------------------------------------------
(* What a step makes of vault, bucket and manifest *)

\* A step puts at most a file with a new time in place of another.
LEMMA FileWrites ==
    ASSUME IInv, [Next]_vars, NEW p \in Paths
    PROVE  \/ local'[p] \in {local[p], None}
           \/ local'[p].mtime \notin MtimesInUse(p)
<1>1. local \in [Paths -> File \cup {None}]
  BY DEF IInv, GlobalsOK
<1>2. ASSUME NEW q \in Paths, NEW d, FileWritten(q, d)
      PROVE  local'[p] = local[p] \/ local'[p].mtime \notin MtimesInUse(p)
  <2>1. PICK s \in Unused(MtimesInUse(q)) :
           local' = [local EXCEPT ![q] = [data |-> d, mtime |-> s]]
    BY <1>2 DEF FileWritten
  <2>2. s \notin MtimesInUse(q)
    BY FreshStamp
  <2>3. QED
    BY <1>1, <2>1, <2>2
<1>3. ASSUME NEW t \in Callers, Call(t) \/ Step(t), local' # local
      PROVE  Download(t) \/ Remove(t)
  BY <1>3
     DEF Call, EnsureFresh, Pull, Push, Locked,
         Step, Probe, ListLocal, PullStep, ListRemote, Stat_Untracked, Stat_Keep,
         Stat_Download, StatDone, Restat, Gone_Keep, Gone_Remove, GoneDone,
         PushStep, PutObject, HeadObject, PutDone, DeleteObject, PurgeDone, Save,
         SaveMark, FailStep, CallFails, AnswerLost, WalkFails, SaveFails
<1>4. ASSUME NEW t \in Callers, Call(t) \/ Step(t)
      PROVE  \/ local'[p] \in {local[p], None}
             \/ local'[p].mtime \notin MtimesInUse(p)
  <2>1. CASE Download(t)
    <3>1. frame[t].cur \in Paths
      BY <2>1 DEF Download, IInv, FrameOK, LoopOK, Frame, At
    <3>2. FileWritten(frame[t].cur, remote[frame[t].cur].data)
      BY <2>1 DEF Download
    <3>3. QED
      BY <1>2, <3>1, <3>2
  <2>2. CASE Remove(t)
    BY <1>1, <2>2 DEF Remove
  <2>3. QED
    BY <1>3, <1>4, <2>1, <2>2
<1>5. CASE Environment
  <2>1. PICK q \in Paths : \/ \E d \in Data : WriteNote(q, d) \/ ForeignPut(q, d)
                           \/ DeleteNote(q) \/ ForeignDelete(q)
    BY <1>5 DEF Environment
  <2>2. QED
    BY <1>1, <1>2, <2>1 DEF WriteNote, DeleteNote, ForeignPut, ForeignDelete
<1>6. QED
  BY <1>4, <1>5 DEF Next, vars, Crash

\* A step puts at most an object with a new time in place of another.
LEMMA ObjectWrites ==
    ASSUME IInv, [Next]_vars, NEW p \in Paths
    PROVE  \/ remote'[p] \in {remote[p], None}
           \/ remote'[p].lm \notin LmsInUse(p)
<1>1. remote \in [Paths -> Object \cup {None}]
  BY DEF IInv, GlobalsOK
<1>2. ASSUME NEW q \in Paths, NEW d, ObjectWritten(q, d)
      PROVE  remote'[p] = remote[p] \/ remote'[p].lm \notin LmsInUse(p)
  <2>1. PICK s \in Unused(LmsInUse(q)) :
           remote' = [remote EXCEPT ![q] = [data |-> d, lm |-> s]]
    BY <1>2 DEF ObjectWritten
  <2>2. s \notin LmsInUse(q)
    BY FreshStamp
  <2>3. QED
    BY <1>1, <2>1, <2>2
<1>3. ASSUME NEW t \in Callers, Call(t) \/ Step(t), remote' # remote
      PROVE  PutObject(t) \/ DeleteObject(t) \/ AnswerLost(t)
  BY <1>3
     DEF Call, EnsureFresh, Pull, Push, Locked,
         Step, Probe, ListLocal, PullStep, ListRemote, Stat_Untracked, Stat_Keep,
         Stat_Download, StatDone, Download, Restat, Gone_Keep, Gone_Remove, GoneDone,
         Remove, PushStep, HeadObject, PutDone, PurgeDone, Save,
         SaveMark, FailStep, CallFails, WalkFails, SaveFails
<1>4. ASSUME NEW t \in Callers, Call(t) \/ Step(t)
      PROVE  \/ remote'[p] \in {remote[p], None}
             \/ remote'[p].lm \notin LmsInUse(p)
  <2>1. CASE PutObject(t) \/ DeleteObject(t) \/ AnswerLost(t)
    <3>1. frame[t].todo \subseteq Paths
      BY DEF IInv, Frame
    <3>2. \E q \in frame[t].todo : \/ ObjectWritten(q, local[q].data)
                                   \/ remote' = [remote EXCEPT ![q] = None]
      BY <2>1 DEF PutObject, DeleteObject, AnswerLost
    <3>3. QED
      BY <1>1, <1>2, <3>1, <3>2
  <2>2. QED
    BY <1>3, <1>4, <2>1
<1>5. CASE Environment
  <2>1. PICK q \in Paths : \/ \E d \in Data : WriteNote(q, d) \/ ForeignPut(q, d)
                           \/ DeleteNote(q) \/ ForeignDelete(q)
    BY <1>5 DEF Environment
  <2>2. QED
    BY <1>1, <1>2, <2>1 DEF WriteNote, DeleteNote, ForeignPut, ForeignDelete
<1>6. QED
  BY <1>4, <1>5 DEF Next, vars, Crash

\* The manifest on disk changes only as the call in progress ends.
LEMMA EntriesHeld ==
    ASSUME IInv, NEW t \in Callers, Step(t),
           frame'[t].pc \notin Resting \cup {"mark"}
    PROVE  disk'.entries = disk.entries
<1>1. disk \in Manifest /\ frame \in [Callers -> Frame]
  BY DEF IInv, GlobalsOK
<1>2. CASE GoneDone(t) \/ PutDone(t) \/ PurgeDone(t)
  BY <1>1, <1>2, StartKeepsEntries DEF GoneDone, PutDone, PurgeDone
<1>3. ~(Save(t) \/ SaveMark(t) \/ SaveFails(t) \/ WalkFails(t))
  BY EndEffects
<1>4. ~(CallFails(t) \/ AnswerLost(t))
  BY EndEffects
<1>5. QED
  BY <1>2, <1>3, <1>4
     DEF Step, Probe, ListLocal, PullStep, ListRemote, Stat_Untracked, Stat_Keep,
         Stat_Download, StatDone, Download, Restat, Gone_Keep, Gone_Remove,
         Remove, PushStep, PutObject, HeadObject, DeleteObject, FailStep

\* Between two steps of its call nobody but the environment moves.
LEMMA WhoActs ==
    ASSUME IInv, [Next]_vars, NEW t \in Callers, frame'[t].pc \notin Resting
    PROVE  \/ Call(t)
           \/ Step(t)
           \/ /\ frame'[t] = frame[t] /\ UNCHANGED <<disk, mu>>
              /\ Environment \/ UNCHANGED vars
<1>1. frame \in [Callers -> Frame]
  BY DEF IInv
<1>2. ASSUME NEW u \in Callers, u # t, Step(u) PROVE FALSE
  <2>1. frame[t].pc \in Resting
    BY <1>2, StepActive, OthersRest
  <2>2. QED
    BY <1>2, <2>1, StepMovesOne
<1>3. ASSUME NEW u \in Callers, u # t, Call(u) PROVE FALSE
  <2>1. mu = None /\ \E f : frame' = [frame EXCEPT ![u] = f]
    BY <1>3 DEF Call, EnsureFresh, Pull, Push, Locked, Return
  <2>2. frame[t].pc \in Resting
    BY <2>1, NoneAssumption DEF IInv, MutualExclusion, Active
  <2>3. QED
    BY <1>1, <1>3, <2>1, <2>2
<1>4. ~Crash
  <2>1. Rest("ok").pc = "ok"
    BY RestFrame DEF Phases, Resting
  <2>2. QED
    BY <2>1 DEF Crash, Resting
<1>5. Environment => UNCHANGED <<disk, mu, frame>>
  BY DEF Environment, WriteNote, DeleteNote, ForeignPut, ForeignDelete
<1>6. QED
  BY <1>2, <1>3, <1>4, <1>5 DEF Next, vars

-----------------------------------------------------------------------------
(* What is in sync is left alone *)

\* What a call is going to transfer or remove is not in sync.  A path that the
\* listing of the bucket, or the walk over the vault, shows to be out of sync
\* stays so until the manifest is saved, whoever writes.
OutOfSyncOK(f) ==
    /\ f.pc = "walk" /\ f.op = "push" =>
          \A p \in Paths \ Hidden : p \notin f.todo => ~InSync(p)
    /\ f.pc \in {"stat", "get", "restat"} =>
          \A p \in Paths :
             \/ f.objs[p] = None
             \/ disk.entries[p] = None
             \/ RemoteChanged(f.objs[p], disk.entries[p])
             => ~InSync(p)
    /\ f.pc = "get" => ~InSync(f.cur)
    /\ f.pc \in {"gone", "remove"} => \A p \in f.todo : ~InSync(p)
    /\ f.pc \in {"put", "head"} =>
          \A p \in Paths \ Hidden : p \in f.todo \/ f.infos[p] = None => ~InSync(p)
    /\ f.pc = "purge" => \A p \in f.todo \ Hidden : ~InSync(p)

OutOfSyncInv == \A t \in Callers : OutOfSyncOK(frame[t])

\* A write takes a time the manifest does not know, so that it cannot bring a
\* path back into sync.
LEMMA StaysOutOfSync ==
    ASSUME IInv, [Next]_vars, NEW p \in Paths, disk'.entries = disk.entries, InSync(p)'
    PROVE  InSync(p)
<1> DEFINE e == disk.entries[p]
<1>1. /\ local'[p] # None /\ remote'[p] # None /\ e # None
      /\ local'[p].mtime = e.mtime /\ remote'[p].lm = e.lm
      /\ remote'[p].data = e.etag
  BY DEF InSync, LocalUnchanged, RemoteChanged
<1>2. e.mtime \in MtimesInUse(p) /\ e.lm \in LmsInUse(p)
  BY <1>1 DEF MtimesInUse, LmsInUse
<1>3. local'[p] = local[p] /\ remote'[p] = remote[p]
  BY <1>1, <1>2, FileWrites, ObjectWrites
<1>4. QED
  BY <1>1, <1>3 DEF InSync, LocalUnchanged, RemoteChanged

\* So what a frame knows of the paths out of sync outlives the step.
LEMMA OutOfSyncCarries ==
    ASSUME IInv, [Next]_vars, disk'.entries = disk.entries,
           NEW n, OutOfSyncOK(n), n.todo \subseteq Paths,
           n.pc = "get" => n.cur \in Paths
    PROVE  OutOfSyncOK(n)'
<1>1. \A p \in Paths : ~InSync(p) => ~InSync(p)'
  BY StaysOutOfSync
<1>2. QED
  BY <1>1 DEF OutOfSyncOK

\* A pull goes on to paths that are out of sync.
LEMMA PullOutOfSync ==
    ASSUME IInv, OutOfSyncInv, NEW t \in Callers, PullStep(t), NEW n, n = frame'[t]
    PROVE  OutOfSyncOK(n)
<1> DEFINE f == frame[t]
<1>1. Active(t)
  BY StepActive DEF Step
<1>2. /\ LoopOK(f) /\ EntriesOK(f, disk.entries) /\ OutOfSyncOK(f) /\ f \in Frame
      /\ f.todo \subseteq Paths
  BY <1>1, InsideCall DEF OutOfSyncInv, Frame
<1>3. CASE ListRemote(t)
  <2>1. n.pc = "stat" /\ n.objs = remote
    BY <1>3, PullEffects
  <2>2. QED
    BY <2>1 DEF OutOfSyncOK, InSync
<1>4. CASE Stat_Untracked(t) \/ Stat_Keep(t) \/ Restat(t)
  <2>1. n.pc = "stat" /\ n.objs = f.objs /\ f.pc \in {"stat", "restat"}
    BY <1>4, PullEffects DEF Stat_Untracked, Stat_Keep, Restat, At
  <2>2. QED
    BY <1>2, <2>1 DEF OutOfSyncOK
<1>5. CASE Stat_Download(t)
  <2>1. PICK p \in f.todo : /\ WantsDownload(local[p], f.next[p], f.objs[p])
                            /\ n.pc = "get" /\ n.objs = f.objs /\ n.cur = p
    BY <1>5, PullEffects
  <2>2. f.pc = "stat" /\ p \in Paths /\ f.next[p] = disk.entries[p]
    BY <1>2, <1>5 DEF Stat_Download, At, EntriesOK
  <2>3. ~InSync(p)
    BY <1>2, <2>1, <2>2 DEF WantsDownload, OutOfSyncOK, InSync
  <2>4. QED
    BY <1>2, <2>1, <2>2, <2>3 DEF OutOfSyncOK
<1>6. CASE Download(t)
  <2>1. n.pc = "restat" /\ n.objs = f.objs /\ f.pc = "get"
    BY <1>6, PullEffects DEF Download, At
  <2>2. QED
    BY <1>2, <2>1 DEF OutOfSyncOK
<1>7. CASE StatDone(t)
  <2>1. /\ n.pc = "gone" /\ n.todo = Present(f.next) \ Present(f.objs)
        /\ f.pc = "stat"
    BY <1>7, PullEffects DEF StatDone, At
  <2>2. \A p \in n.todo : p \in Paths /\ f.objs[p] = None
    BY <2>1 DEF Present
  <2>3. QED
    BY <1>2, <2>1, <2>2 DEF OutOfSyncOK
<1>8. CASE Gone_Keep(t) \/ Gone_Remove(t) \/ Remove(t)
  <2>1. /\ n.pc \in {"gone", "remove"} /\ n.todo \subseteq f.todo
        /\ f.pc \in {"gone", "remove"}
    BY <1>8, PushEffects DEF Gone_Keep, Gone_Remove, Remove, At
  <2>2. QED
    BY <1>2, <2>1 DEF OutOfSyncOK
<1>9. CASE GoneDone(t)
  BY <1>9, EndEffects DEF OutOfSyncOK, Resting
<1>10. QED
  BY <1>3, <1>4, <1>5, <1>6, <1>7, <1>8, <1>9 DEF PullStep

\* So does a push, but for the hidden paths its purge takes along.
LEMMA PushOutOfSync ==
    ASSUME IInv, OutOfSyncInv, NEW t \in Callers, ListLocal(t) \/ PushStep(t),
           NEW n, n = frame'[t]
    PROVE  OutOfSyncOK(n)
<1> DEFINE f == frame[t]
<1>1. Active(t)
  BY StepActive DEF Step
<1>2. /\ LoopOK(f) /\ EntriesOK(f, disk.entries) /\ OutOfSyncOK(f) /\ f \in Frame
      /\ f.todo \subseteq Paths /\ local \in [Paths -> File \cup {None}]
  BY <1>1, InsideCall DEF OutOfSyncInv, Frame
<1>3. CASE ListLocal(t)
  <2>1. /\ f.pc = "walk" /\ f.op = "push" /\ f.todo \subseteq Present(local)
        /\ f.next = disk.entries
    BY <1>2, <1>3 DEF ListLocal, At, EntriesOK
  <2>2. /\ n.pc = "put"
        /\ n.todo = {p \in f.todo : \/ f.next[p] = None
                                    \/ ~LocalUnchanged(local[p], f.next[p])}
        /\ n.infos = [p \in Paths |-> IF p \in f.todo THEN local[p].mtime ELSE None]
    BY <1>3, PushEffects
  <2>3. \A p \in n.todo : ~InSync(p)
    BY <2>1, <2>2 DEF InSync
  <2>4. ASSUME NEW p \in f.todo PROVE n.infos[p] # None
    <3>1. local[p].mtime \in Stamps
      BY <1>2, <2>1 DEF Present, File
    <3>2. QED
      BY <1>2, <2>2, <3>1, NoneAssumption
  <2>5. QED
    BY <1>2, <2>1, <2>2, <2>3, <2>4 DEF OutOfSyncOK
<1>4. CASE PutObject(t) \/ HeadObject(t)
  <2>1. /\ n.pc \in {"put", "head"} /\ n.infos = f.infos /\ n.todo \subseteq f.todo
        /\ f.pc \in {"put", "head"}
    BY <1>4, PushEffects DEF PutObject, HeadObject, At
  <2>2. QED
    BY <1>2, <2>1 DEF OutOfSyncOK
<1>5. CASE PutDone(t)
  <2>1. f.pc = "put"
    BY <1>5 DEF PutDone, At
  <2>2. \/ n.pc \in Resting \cup {"save"}
        \/ n.pc = "purge" /\ n.todo = Present(f.next) \ Present(f.infos)
    BY <1>5, EndEffects
  <2>3. \A p \in Present(f.next) \ Present(f.infos) : p \in Paths /\ f.infos[p] = None
    BY DEF Present
  <2>4. QED
    BY <1>2, <2>1, <2>2, <2>3 DEF OutOfSyncOK, Resting
<1>6. CASE DeleteObject(t)
  <2>1. n.pc = "purge" /\ n.todo \subseteq f.todo /\ f.pc = "purge"
    BY <1>6, PushEffects DEF DeleteObject, At
  <2>2. QED
    BY <1>2, <2>1 DEF OutOfSyncOK
<1>7. CASE PurgeDone(t)
  BY <1>7, EndEffects DEF OutOfSyncOK, Resting
<1>8. QED
  BY <1>3, <1>4, <1>5, <1>6, <1>7 DEF PushStep

\* Every step keeps it.
LEMMA OutOfSyncPreserved ==
    ASSUME IInv, OutOfSyncInv, [Next]_vars
    PROVE  OutOfSyncInv'
<1> SUFFICES ASSUME NEW t \in Callers PROVE OutOfSyncOK(frame[t])'
  BY DEF OutOfSyncInv
<1>1. PICK n : n = frame'[t]
  OBVIOUS
<1>2. IInv' /\ frame' \in [Callers -> Frame]
  BY NextIInv DEF IInv
<1>3. n \in Frame /\ LoopOK(n) /\ n.todo \subseteq Paths
  BY <1>1, <1>2 DEF IInv, FrameOK, Frame
<1>4. n.pc = "get" => n.cur \in Paths
  BY <1>3 DEF LoopOK
<1>5. CASE n.pc \in Resting \cup {"list"} \cup SavePhases
  BY <1>1, <1>5 DEF OutOfSyncOK, Resting, SavePhases
<1>6. CASE n.pc \notin Resting \cup {"list"} \cup SavePhases
  <2>1. OutOfSyncOK(n) /\ disk'.entries = disk.entries
    <3>1. CASE Call(t)
      <4>1. UNCHANGED disk
        BY <3>1, CallEffects
      <4>2. \A p \in Paths \ Hidden : p \notin Listed => ~InSync(p)
        BY DEF Listed, Present, InSync
      <4>3. n.pc = "walk" /\ (n.op = "ensure" \/ n.todo = Listed)
        BY <1>1, <1>6, <3>1, CallEffects DEF Call
      <4>4. QED
        BY <4>1, <4>2, <4>3 DEF OutOfSyncOK
    <3>2. CASE Step(t)
      <4>1. ~Probe(t) /\ ~CallFails(t) /\ ~AnswerLost(t)
        BY <1>1, <1>6, EndEffects DEF SavePhases
      <4>2. ~Save(t) /\ ~SaveMark(t) /\ ~SaveFails(t) /\ ~WalkFails(t)
        BY <1>1, <1>6, EndEffects
      <4>3. PullStep(t) \/ ListLocal(t) \/ PushStep(t)
        BY <3>2, <4>1, <4>2 DEF Step, FailStep
      <4>4. disk'.entries = disk.entries
        BY <1>1, <1>6, <3>2, EntriesHeld DEF SavePhases
      <4>5. QED
        BY <1>1, <4>3, <4>4, PullOutOfSync, PushOutOfSync
    <3>3. CASE frame'[t] = frame[t] /\ UNCHANGED disk
      BY <1>1, <3>3 DEF OutOfSyncInv
    <3>4. QED
      BY <1>1, <1>6, <3>1, <3>2, <3>3, WhoActs
  <2>2. OutOfSyncOK(n)'
    BY <1>3, <1>4, <2>1, OutOfSyncCarries
  <2>3. QED
    BY <1>1, <2>2 DEF OutOfSyncOK
<1>7. QED
  BY <1>5, <1>6

\* What changes a file or an object while a caller moves is a step of its call.
LEMMA WhoMoves ==
    ASSUME IInv, [Next]_vars, NEW t \in Callers, Moves(t),
           ~UNCHANGED <<local, remote>>
    PROVE  Step(t)
<1>1. \A u \in Callers : Call(u) => UNCHANGED <<local, remote>>
  BY DEF Call, EnsureFresh, Pull, Push, Locked
<1>2. ~Crash /\ ~Environment
  BY DEF Moves, Crash, Environment, WriteNote, DeleteNote, ForeignPut, ForeignDelete
<1>3. PICK u \in Callers : Step(u)
  BY <1>1, <1>2 DEF Moves, Next, vars
<1>4. u = t
  BY <1>3, StepMovesOne DEF Moves
<1>5. QED
  BY <1>3, <1>4

\* These are the steps, and the path is one the call is to visit.
LEMMA WhoTransfers ==
    ASSUME IInv, NEW t \in Callers, Step(t), NEW p \in Paths,
           local'[p] # local[p] \/ remote'[p] # remote[p]
    PROVE  \/ (Download(t) \/ Remove(t)) /\ p = frame[t].cur
           \/ PutObject(t) /\ p \in frame[t].todo
           \/ (DeleteObject(t) \/ AnswerLost(t)) /\ p \in frame[t].todo
<1>1. \/ Download(t) \/ Remove(t) \/ PutObject(t)
      \/ DeleteObject(t) \/ AnswerLost(t)
     BY DEF Step, Probe, ListLocal, PullStep, ListRemote, Stat_Untracked, Stat_Keep,
         Stat_Download, StatDone, Restat, Gone_Keep, Gone_Remove, GoneDone,
         PushStep, HeadObject, PutDone, PurgeDone, Save,
         SaveMark, FailStep, CallFails, WalkFails, SaveFails
<1>2. local \in [Paths -> File \cup {None}] /\ remote \in [Paths -> Object \cup {None}]
  BY DEF IInv, GlobalsOK
<1>3. CASE Download(t) \/ Remove(t)
  BY <1>2, <1>3 DEF Download, Remove, FileWritten
<1>4. CASE PutObject(t) \/ DeleteObject(t) \/ AnswerLost(t)
  <2>1. PICK q \in frame[t].todo : \/ ObjectWritten(q, local[q].data)
                                  \/ remote' = [remote EXCEPT ![q] = None]
    BY <1>4 DEF PutObject, DeleteObject, AnswerLost
  <2>2. UNCHANGED local
    BY <1>4 DEF PutObject, DeleteObject, AnswerLost
  <2>3. p = q
    BY <1>2, <2>1, <2>2 DEF ObjectWritten
  <2>4. QED
    BY <1>4, <2>3
<1>5. QED
  BY <1>1, <1>3, <1>4

\* No call touches the file or the object of a path that is in sync when it gets
\* there: neither a pull nor a push, whoever writes notes and objects between the
\* listing and the transfer, and whatever fails.  The purge of hidden paths is
\* the exception.
THEOREM InSyncKept == Spec => InSyncLeftAlone
<1>1. Init => OutOfSyncInv
  <2>1. Init => \A t \in Callers : frame[t].pc = "ok"
    BY RestFrame DEF Init, Phases, Resting
  <2>2. QED
    BY <2>1 DEF OutOfSyncInv, OutOfSyncOK
<1>2. IInv /\ OutOfSyncInv /\ [Next]_vars => OutOfSyncInv'
  BY OutOfSyncPreserved
<1>3. ASSUME IInv, OutOfSyncInv, [Next]_vars, NEW t \in Callers,
             NEW p \in Paths \ Hidden, Moves(t), InSync(p)
      PROVE  local'[p] = local[p] /\ remote'[p] = remote[p]
  <2> SUFFICES ASSUME local'[p] # local[p] \/ remote'[p] # remote[p] PROVE FALSE
    OBVIOUS
  <2>1. /\ Step(t)
        /\ \/ (Download(t) \/ Remove(t)) /\ p = frame[t].cur
           \/ PutObject(t) /\ p \in frame[t].todo
           \/ (DeleteObject(t) \/ AnswerLost(t)) /\ p \in frame[t].todo
    BY <1>3, WhoMoves, WhoTransfers
  <2>2. OutOfSyncOK(frame[t]) /\ LoopOK(frame[t])
    BY <1>3 DEF OutOfSyncInv, IInv, FrameOK
  <2>3. QED
    BY <1>3, <2>1, <2>2
       DEF OutOfSyncOK, LoopOK, Download, Remove, PutObject, DeleteObject,
           AnswerLost, At
<1>4. IInv /\ OutOfSyncInv /\ [Next]_vars =>
         [\A t \in Callers, p \in Paths \ Hidden :
             Moves(t) /\ InSync(p) => local'[p] = local[p] /\ remote'[p] = remote[p]]_vars
  BY <1>3
<1>5. QED
  BY <1>1, <1>2, <1>4, Invariance, PTL DEF Spec, InSyncLeftAlone

-----------------------------------------------------------------------------
(* What a failed call leaves behind *)

\* A call that is not saving has read the manifest, and nobody else writes it.
ReadableInv ==
    \A t \in Callers : Active(t) /\ frame[t].pc \notin SavePhases => disk.ok

\* Once saving has begun a call can only end.
LEMMA SavesOnly ==
    ASSUME NEW t \in Callers, Step(t), frame[t].pc \in SavePhases
    PROVE  Save(t) \/ SaveMark(t) \/ SaveFails(t)
    BY DEF Step, Probe, ListLocal, PullStep, ListRemote, Stat_Untracked, Stat_Keep,
         Stat_Download, StatDone, Download, Restat, Gone_Keep, Gone_Remove, GoneDone,
         Remove, PushStep, PutObject, HeadObject, PutDone, DeleteObject, PurgeDone,
         FailStep, CallFails, AnswerLost, Missing, WalkFails, SavePhases, At

\* Saving that starts goes on to its second half, or has failed.
LEMMA StartEffects ==
    ASSUME IInv, NEW t \in Callers, NEW phase \in SavePhases, NEW entries,
           StartSave(t, phase, entries)
    PROVE  \/ frame'[t].pc = phase /\ frame'[t].next = entries
           \/ frame'[t].pc = "failed" /\ UNCHANGED disk
<1>1. frame \in [Callers -> Frame]
  BY DEF IInv
<1>2. CASE Return(t, "failed") /\ UNCHANGED disk
  <2>1. Rest("failed").pc = "failed"
    BY RestFrame DEF Phases, Resting
  <2>2. QED
    BY <1>1, <1>2, <2>1 DEF Return
<1>3. CASE Goto(t, [Rest(phase) EXCEPT !.op = frame[t].op, !.next = entries])
  BY <1>1, <1>3 DEF Goto, Rest, SavePhases
<1>4. QED
  BY <1>2, <1>3 DEF StartSave

\* A step inside a call leaves the manifest alone until it is saved.
LEMMA DiskHeld ==
    ASSUME IInv, NEW t \in Callers, Step(t),
           frame'[t].pc \notin Resting \cup SavePhases
    PROVE  UNCHANGED disk
<1>1. ~(Save(t) \/ SaveMark(t) \/ SaveFails(t) \/ WalkFails(t))
  BY EndEffects
<1>2. ~(CallFails(t) \/ AnswerLost(t) \/ GoneDone(t) \/ PurgeDone(t))
  BY EndEffects DEF SavePhases
<1>3. CASE PutDone(t)
  BY <1>3, StartEffects DEF PutDone, SavePhases, Resting
<1>4. QED
  BY <1>1, <1>2, <1>3
     DEF Step, Probe, ListLocal, PullStep, ListRemote, Stat_Untracked, Stat_Keep,
         Stat_Download, StatDone, Download, Restat, Gone_Keep, Gone_Remove,
         Remove, PushStep, PutObject, HeadObject, DeleteObject, FailStep

\* Every step keeps it.
LEMMA ReadablePreserved ==
    ASSUME IInv, ReadableInv, [Next]_vars
    PROVE  ReadableInv'
<1> SUFFICES ASSUME NEW t \in Callers, frame'[t].pc \notin Resting \cup SavePhases
             PROVE  disk.ok /\ UNCHANGED disk
  BY DEF ReadableInv, Active
<1>1. frame \in [Callers -> Frame]
  BY DEF IInv
<1>2. CASE Call(t)
  <2>1. Rest("failed").pc = "failed"
    BY RestFrame DEF Phases, Resting
  <2>2. ~Return(t, "failed")
    BY <1>1, <2>1 DEF Return, Resting
  <2>3. QED
    BY <1>2, <2>2 DEF Call, EnsureFresh, Pull, Push, Locked
<1>3. CASE Step(t)
  <2>1. frame[t].pc \notin SavePhases
    BY <1>3, SavesOnly, EndEffects
  <2>2. QED
    BY <1>3, <2>1, StepActive, DiskHeld DEF ReadableInv
<1>4. CASE frame'[t] = frame[t] /\ UNCHANGED disk
  BY <1>4 DEF ReadableInv, Active
<1>5. QED
  BY <1>2, <1>3, <1>4, WhoActs

\* The manifest can be read in every state in which a call is at work.
LEMMA Readable == Spec => []ReadableInv
<1>1. Init => ReadableInv
  <2>1. Init => \A t \in Callers : frame[t].pc = "ok"
    BY RestFrame DEF Init, Phases, Resting
  <2>2. QED
    BY <2>1 DEF ReadableInv, Active, Resting
<1>2. IInv /\ ReadableInv /\ [Next]_vars => ReadableInv'
  BY ReadablePreserved
<1>3. QED
  BY <1>1, <1>2, Invariance, PTL DEF Spec

\* What ends the call of an active caller in a failure is a step of its own.
LEMMA WhoFails ==
    ASSUME IInv, [Next]_vars, NEW t \in Callers, Active(t), Moves(t),
           frame'[t].pc \in {"mark", "failed"}
    PROVE  Step(t)
<1>1. frame \in [Callers -> Frame] /\ mu = t /\ mu # None
  BY NoneAssumption DEF IInv, MutualExclusion
<1>2. ~Crash
  <2>1. Rest("ok").pc = "ok"
    BY RestFrame DEF Phases, Resting
  <2>2. QED
    BY <2>1 DEF Crash
<1>3. ~Environment
  BY DEF Environment, WriteNote, DeleteNote, ForeignPut, ForeignDelete, Moves
<1>4. \A u \in Callers : ~Call(u)
  BY <1>1 DEF Call, EnsureFresh, Pull, Push, Locked
<1>5. \A u \in Callers : Step(u) => u = t
  BY StepMovesOne DEF Moves
<1>6. QED
  BY <1>2, <1>3, <1>4, <1>5 DEF Next, Moves, vars

\* A call that goes on to record an error has come from CallFails or AnswerLost.
LEMMA WhoMarks ==
    ASSUME IInv, NEW t \in Callers, Step(t), frame'[t].pc = "mark"
    PROVE  MarkError(t) /\ frame[t].pc \notin SavePhases
<1>1. ~(Save(t) \/ SaveMark(t) \/ SaveFails(t) \/ WalkFails(t) \/ Probe(t))
  BY EndEffects DEF Resting
<1>2. ~(GoneDone(t) \/ PurgeDone(t) \/ PutDone(t))
  BY EndEffects DEF Resting
<1>3. ~(ListRemote(t) \/ Stat_Untracked(t) \/ Stat_Keep(t) \/ Stat_Download(t)
          \/ Download(t) \/ Restat(t) \/ StatDone(t))
  BY PullEffects
<1>4. ~(Gone_Keep(t) \/ Gone_Remove(t) \/ Remove(t) \/ ListLocal(t) \/ PutObject(t)
          \/ HeadObject(t) \/ DeleteObject(t))
  BY PushEffects
<1>5. CallFails(t) \/ AnswerLost(t)
  BY <1>1, <1>2, <1>3, <1>4 DEF Step, PullStep, PushStep, FailStep
<1>6. QED
  BY <1>1, <1>5, SavesOnly DEF CallFails, AnswerLost

\* The two halves of FailureKeepsEntries.
LEMMA MarksKept ==
    ASSUME IInv, ReadableInv, [Next]_vars, NEW t \in Callers,
           Active(t), Moves(t), frame'[t].pc = "mark"
    PROVE  \/ disk.ok /\ frame'[t].next = disk.entries
           \/ Unreadable /\ frame'[t].next = Nothing
<1>1. MarkError(t) /\ frame[t].pc \notin SavePhases
  BY WhoFails, WhoMarks
<1>2. CASE StartSave(t, "mark", disk.entries)
  BY <1>1, <1>2, StartEffects DEF SavePhases, ReadableInv
<1>3. CASE Unreadable /\ Goto(t, [Rest("mark") EXCEPT !.op = frame[t].op])
  BY <1>3 DEF Goto, Rest, IInv
<1>4. QED
  BY <1>1, <1>2, <1>3 DEF MarkError

LEMMA FailsKept ==
    ASSUME IInv, [Next]_vars, NEW t \in Callers,
           Active(t), frame'[t].pc = "failed"
    PROVE  disk'.entries = IF At(t, "mark") THEN frame[t].next ELSE disk.entries
<1>1. Step(t)
  BY WhoFails DEF Moves, Active, Resting
<1>2. disk \in Manifest /\ frame \in [Callers -> Frame]
  BY DEF IInv, GlobalsOK
<1>3. At(t, "mark") => frame[t].next = disk.entries
  BY DEF At, IInv, FrameOK, EntriesOK
<1>4. CASE SaveMark(t)
  BY <1>2, <1>4 DEF SaveMark, At, Manifest
<1>5. ~Save(t)
  <2>1. Rest("ok").pc = "ok"
    BY RestFrame DEF Phases, Resting
  <2>2. QED
    BY <1>2, <2>1 DEF Save, Return
<1>6. CASE GoneDone(t) \/ PutDone(t) \/ PurgeDone(t)
  BY <1>2, <1>3, <1>6, StartKeepsEntries DEF GoneDone, PutDone, PurgeDone
<1>7. CASE CallFails(t) \/ AnswerLost(t)
  <2>1. ~Goto(t, [Rest("mark") EXCEPT !.op = frame[t].op])
    BY <1>2 DEF Goto, Rest
  <2>2. StartSave(t, "mark", disk.entries)
    BY <1>7, <2>1 DEF CallFails, AnswerLost, MarkError
  <2>3. QED
    BY <1>2, <1>3, <2>2, StartKeepsEntries
<1>8. CASE UNCHANGED disk
  BY <1>3, <1>8
<1>9. QED
  BY <1>1, <1>4, <1>5, <1>6, <1>7, <1>8
     DEF Step, Probe, ListLocal, PullStep, ListRemote, Stat_Untracked, Stat_Keep,
         Stat_Download, StatDone, Download, Restat, Gone_Keep, Gone_Remove, Remove,
         PushStep, PutObject, HeadObject, DeleteObject, FailStep, WalkFails, SaveFails

\* What a failed call goes on to save are the entries of the manifest as it was, or none
\* if it could not be read; and a manifest that can be read afterwards has them.
THEOREM FailuresKeep == Spec => FailureKeepsEntries
<1>1. IInv /\ ReadableInv /\ [Next]_vars =>
         [\A t \in Callers :
             /\ Active(t) /\ Moves(t) /\ frame'[t].pc = "mark" =>
                   \/ disk.ok /\ frame'[t].next = disk.entries
                   \/ Unreadable /\ frame'[t].next = Nothing
             /\ Active(t) /\ frame'[t].pc = "failed" /\ disk'.ok =>
                   disk'.entries = IF At(t, "mark") THEN frame[t].next
                                   ELSE disk.entries]_vars
  BY MarksKept, FailsKept
<1>2. QED
  BY <1>1, Invariance, Readable, PTL DEF Spec, FailureKeepsEntries

\* While state.json is cut short, whatever cut it short, no call touches a file or an
\* object, whoever else writes.
THEOREM CutShort == Spec => CutShortStops
<1>1. ASSUME IInv, ReadableInv, [Next]_vars, NEW t \in Callers, Moves(t), ~disk.ok
      PROVE  UNCHANGED <<local, remote>>
  <2> SUFFICES ASSUME ~UNCHANGED <<local, remote>> PROVE FALSE
    OBVIOUS
  <2>1. Step(t) /\ Active(t)
    BY <1>1, WhoMoves, StepActive
  <2>2. frame[t].pc \in SavePhases
    BY <1>1, <2>1 DEF ReadableInv
  <2>3. QED
    BY <2>1, <2>2, SavesOnly DEF Save, SaveMark, SaveFails
<1>2. IInv /\ ReadableInv /\ [Next]_vars =>
         [\A t \in Callers : Moves(t) /\ ~disk.ok => UNCHANGED <<local, remote>>]_vars
  BY <1>1
<1>3. QED
  BY <1>2, Invariance, Readable, PTL DEF Spec, CutShortStops

-----------------------------------------------------------------------------
(* What the walk of a push has not found *)

Visible == Paths \ Hidden

\* A path the walk of a push could have found and did not has no file until the
\* push ends, but for the paths in X, to which others have written meanwhile.
AbsentOK(f, X) ==
    /\ f.pc = "walk" /\ f.op = "push" =>
          \A p \in Visible \ X : p \notin f.todo => local[p] = None
    /\ f.pc \in {"put", "head"} =>
          \A p \in Visible \ X : f.infos[p] = None => local[p] = None
    /\ f.pc = "purge" => \A p \in (f.todo \cap Visible) \ X : local[p] = None

AbsentInv == \A t \in Callers : AbsentOK(frame[t], {})

\* Other programs leave alone what the server tracks.
OthersHold == BucketWrites \in {"never", "untracked"}

\* While a call runs, the tool handlers write no notes.
LEMMA VaultHeld ==
    ASSUME WritersWait, IInv, [Next]_vars, NEW t \in Callers,
           frame'[t].pc \notin Resting
    PROVE  \/ Call(t)
           \/ Step(t)
           \/ /\ frame'[t] = frame[t] /\ UNCHANGED <<disk, local>>
              /\ OthersHold => UNCHANGED remote
<1>1. SUFFICES ASSUME frame'[t] = frame[t], UNCHANGED <<disk, mu>>, Environment
               PROVE  /\ UNCHANGED local \/ Step(t)
                      /\ OthersHold => UNCHANGED remote
  BY WhoActs DEF vars
<1>2. mu = t /\ mu # None
  BY <1>1, NoneAssumption DEF IInv, MutualExclusion, Active
<1>3. \A u \in Callers : Step(u) => u = t
  BY <1>2, StepActive DEF IInv, MutualExclusion
<1>4. UNCHANGED local \/ Step(t)
  BY <1>2, <1>3 DEF WritersWait
<1>5. OthersHold => UNCHANGED remote
  BY <1>1, <1>2 DEF OthersHold, Environment, WriteNote, DeleteNote, ForeignPut,
                    ForeignDelete, ForeignAllowed, Allowed
<1>6. QED
  BY <1>4, <1>5

\* The steps of a push keep what its walk has found.
LEMMA PushAbsent ==
    ASSUME IInv, NEW t \in Callers, ListLocal(t) \/ PushStep(t),
           NEW n, n = frame'[t], NEW CONSTANT X, AbsentOK(frame[t], X)
    PROVE  AbsentOK(n, X)'
<1> DEFINE f == frame[t]
<1>1. Active(t)
  BY StepActive DEF Step
<1>2. /\ AbsentOK(f, X) /\ f \in Frame /\ f.todo \subseteq Paths
      /\ local \in [Paths -> File \cup {None}]
  BY <1>1, InsideCall DEF Frame
<1>3. UNCHANGED local
  BY DEF ListLocal, PushStep, PutObject, HeadObject, PutDone, DeleteObject, PurgeDone
<1>4. CASE ListLocal(t)
  <2>1. f.pc = "walk" /\ f.op = "push" /\ f.todo \subseteq Present(local)
    BY <1>4 DEF ListLocal, At
  <2>2. /\ n.pc = "put"
        /\ n.infos = [p \in Paths |-> IF p \in f.todo THEN local[p].mtime ELSE None]
    BY <1>4, PushEffects
  <2>3. ASSUME NEW p \in f.todo PROVE n.infos[p] # None
    <3>1. local[p].mtime \in Stamps
      BY <1>2, <2>1 DEF Present, File
    <3>2. QED
      BY <1>2, <2>2, <3>1, NoneAssumption
  <2>4. \A p \in Visible \ X : n.infos[p] = None => local[p] = None
    BY <1>2, <2>1, <2>3 DEF AbsentOK
  <2>5. QED
    BY <1>3, <2>2, <2>4 DEF AbsentOK
<1>5. CASE PutObject(t) \/ HeadObject(t)
  <2>1. n.pc \in {"put", "head"} /\ n.infos = f.infos /\ f.pc \in {"put", "head"}
    BY <1>5, PushEffects DEF PutObject, HeadObject, At
  <2>2. QED
    BY <1>2, <1>3, <2>1 DEF AbsentOK
<1>6. CASE PutDone(t)
  <2>1. f.pc = "put"
    BY <1>6 DEF PutDone, At
  <2>2. \/ n.pc \in Resting \cup {"save"}
        \/ n.pc = "purge" /\ n.todo = Present(f.next) \ Present(f.infos)
    BY <1>6, EndEffects
  <2>3. \A p \in Present(f.next) \ Present(f.infos) : p \in Paths /\ f.infos[p] = None
    BY DEF Present
  <2>4. QED
    BY <1>2, <1>3, <2>1, <2>2, <2>3 DEF AbsentOK, Resting, Visible
<1>7. CASE DeleteObject(t)
  <2>1. n.pc = "purge" /\ n.todo \subseteq f.todo /\ f.pc = "purge"
    BY <1>7, PushEffects DEF DeleteObject, At
  <2>2. QED
    BY <1>2, <1>3, <2>1 DEF AbsentOK
<1>8. CASE PurgeDone(t)
  BY <1>8, EndEffects DEF AbsentOK, Resting
<1>9. QED
  BY <1>4, <1>5, <1>6, <1>7, <1>8 DEF PushStep

\* A step of a call that goes on is one of these.
LEMMA WhoGoesOn ==
    ASSUME IInv, NEW t \in Callers, Step(t),
           frame'[t].pc \notin Resting \cup {"list"} \cup SavePhases
    PROVE  PullStep(t) \/ ListLocal(t) \/ PushStep(t)
<1>1. ~Probe(t) /\ ~CallFails(t) /\ ~AnswerLost(t)
  BY EndEffects DEF SavePhases
<1>2. ~Save(t) /\ ~SaveMark(t) /\ ~SaveFails(t) /\ ~WalkFails(t)
  BY EndEffects
<1>3. QED
  BY <1>1, <1>2 DEF Step, FailStep

\* A pull does not go on to a phase of a push.
LEMMA PullStaysPull ==
    ASSUME IInv, NEW t \in Callers, PullStep(t)
    PROVE  frame'[t].pc \notin PushPhases \cup {"walk"}
<1>1. ASSUME ~GoneDone(t), ~Gone_Keep(t), ~Gone_Remove(t), ~Remove(t)
      PROVE  frame'[t].pc \notin PushPhases \cup {"walk"}
  BY <1>1, PullEffects DEF PullStep, PushPhases
<1>2. CASE Gone_Keep(t) \/ Gone_Remove(t) \/ Remove(t)
  BY <1>2, PushEffects DEF PushPhases
<1>3. CASE GoneDone(t)
  BY <1>3, EndEffects DEF PushPhases, Resting
<1>4. QED
  BY <1>1, <1>2, <1>3

\* A call that starts has read the names in the vault; a push keeps what it found.
LEMMA PushPathsAbsent ==
    ASSUME IInv, NEW t \in Callers, Call(t) \/ Step(t),
           frame'[t].pc \in PushPhases \cup {"walk"},
           NEW n, n = frame'[t], NEW CONSTANT X, AbsentOK(frame[t], X)
    PROVE  AbsentOK(n, X)'
<1>1. n.pc \notin Resting \cup {"list"} \cup SavePhases
  BY DEF PushPhases, Resting, SavePhases
<1>2. CASE Call(t)
  <2>1. UNCHANGED local
    BY <1>2, CallEffects
  <2>2. \A p \in Visible : p \notin Listed => local[p] = None
    BY DEF Listed, Present, Visible
  <2>3. n.pc = "walk" /\ (n.op = "ensure" \/ n.todo = Listed)
    BY <1>1, <1>2, CallEffects DEF Call
  <2>4. QED
    BY <2>1, <2>2, <2>3 DEF AbsentOK
<1>3. CASE Step(t)
  <2>1. ListLocal(t) \/ PushStep(t)
    BY <1>1, <1>3, WhoGoesOn, PullStaysPull
  <2>2. QED
    BY <2>1, PushAbsent
<1>4. QED
  BY <1>2, <1>3

\* Every step keeps it, if no tool handler writes notes while a call runs.
LEMMA AbsentPreserved ==
    ASSUME WritersWait, IInv, AbsentInv, [Next]_vars
    PROVE  AbsentInv'
<1> SUFFICES ASSUME NEW t \in Callers PROVE AbsentOK(frame[t], {})'
  BY DEF AbsentInv
<1>1. PICK n : n = frame'[t]
  OBVIOUS
<1>2. CASE n.pc \notin PushPhases \cup {"walk"}
  BY <1>1, <1>2 DEF AbsentOK, PushPhases
<1>3. CASE n.pc \in PushPhases \cup {"walk"}
  <2>1. n.pc \notin Resting
    BY <1>3 DEF PushPhases, Resting
  <2>2. CASE Call(t) \/ Step(t)
    <3>1. AbsentOK(n, {})'
      BY <1>1, <1>3, <2>2, PushPathsAbsent DEF AbsentInv
    <3>2. QED
      BY <1>1, <3>1 DEF AbsentOK
  <2>3. CASE frame'[t] = frame[t] /\ UNCHANGED local
    BY <2>3 DEF AbsentInv, AbsentOK
  <2>4. QED
    BY <1>1, <2>1, <2>2, <2>3, VaultHeld
<1>4. QED
  BY <1>2, <1>3

\* It holds before the first call.
LEMMA InitAbsent == Init => AbsentInv
<1>1. Init => \A t \in Callers : frame[t].pc = "ok"
  BY RestFrame DEF Init, Phases, Resting
<1>2. QED
  BY <1>1 DEF AbsentInv, AbsentOK

-----------------------------------------------------------------------------
(* The vault is the truth while nobody else writes what the server tracks *)

\* If the file on p is the one entry e describes, so is the object.
Tracks(p, e) ==
    local[p] # None /\ e # None /\ LocalUnchanged(local[p], e) =>
        remote[p] # None /\ ~RemoteChanged(remote[p], e)

\* So a pull finds nothing to replace or remove, and a push sends only what the
\* manifest does not have.
HandsOffOK(f) ==
    /\ f.pc \in {"stat", "get", "restat"} => f.objs = remote
    /\ f.pc \in {"gone", "remove"} => \A p \in f.todo : remote[p] = None
    /\ f.pc \in {"get", "remove"} /\ f.cur \in Visible => local[f.cur] = None
    /\ f.pc \in {"put", "head"} =>
          \A p \in f.todo :
             local[p] = None \/ f.next[p] = None \/ ~LocalUnchanged(local[p], f.next[p])

TruthOK(f) ==
    /\ f.pc \notin Resting => \A p \in Visible : Tracks(p, f.next[p])
    /\ HandsOffOK(f)

TruthInv ==
    /\ AbsentInv
    /\ \A p \in Visible : Tracks(p, disk.entries[p])
    /\ \A t \in Callers : TruthOK(frame[t])

\* A call keeps an entry true: a file it writes has a new time, and it writes or
\* deletes an object only where the entry did not describe the file.
LEMMA TrackStays ==
    ASSUME IInv, TruthInv, NEW t \in Callers, Step(t), NEW p \in Visible,
           NEW e \in {disk.entries[p], frame[t].next[p]}, Tracks(p, e)
    PROVE  Tracks(p, e)'
<1> DEFINE f == frame[t]
<1>1. SUFFICES ASSUME local'[p] # None, e # None, local'[p].mtime = e.mtime
               PROVE  remote'[p] # None /\ ~RemoteChanged(remote'[p], e)
  BY DEF Tracks, LocalUnchanged, RemoteChanged
<1>2. p \in Paths /\ [Next]_vars
  BY DEF Visible, Next
<1>3. e.mtime \in MtimesInUse(p)
  BY <1>1 DEF MtimesInUse
<1>4. local'[p] = local[p]
  BY <1>1, <1>2, <1>3, FileWrites
<1>5. remote[p] # None /\ ~RemoteChanged(remote[p], e) /\ LocalUnchanged(local[p], e)
  BY <1>1, <1>4 DEF Tracks, LocalUnchanged
<1>6. ASSUME remote'[p] # remote[p] PROVE FALSE
  <2>1. LoopOK(f) /\ EntriesOK(f, disk.entries) /\ TruthOK(f) /\ AbsentOK(f, {})
    BY DEF IInv, FrameOK, TruthInv, AbsentInv
  <2>2. PutObject(t) \/ DeleteObject(t) \/ AnswerLost(t)
    BY <1>2, <1>6, WhoTransfers DEF Download, Remove
  <2>3. p \in f.todo /\ f.pc \in {"put", "purge"}
    BY <1>2, <1>6, <2>2, WhoTransfers
       DEF PutObject, DeleteObject, AnswerLost, Download, Remove, At
  <2>4. CASE f.pc = "put"
    <3>1. e = f.next[p]
      BY <1>2, <2>1, <2>3, <2>4 DEF EntriesOK
    <3>2. QED
      BY <1>1, <1>4, <1>5, <2>1, <2>3, <2>4, <3>1 DEF TruthOK, HandsOffOK
  <2>5. CASE f.pc = "purge"
    BY <1>1, <1>4, <2>1, <2>3, <2>5 DEF AbsentOK, Visible
  <2>6. QED
    BY <2>3, <2>4, <2>5
<1>7. QED
  BY <1>5, <1>6

\* The entries the call has in memory are kept true by what it does to them.
LEMMA NextTracks ==
    ASSUME IInv, TruthInv, NEW t \in Callers, Step(t), NEW p \in Visible,
           NEW n, n = frame'[t], n.pc \notin Resting
    PROVE  Tracks(p, n.next[p])'
<1> DEFINE f == frame[t]
<1>1. Active(t) /\ p \in Paths
  BY StepActive DEF Visible
<1>2. /\ f \in Frame /\ LoopOK(f) /\ TruthOK(f) /\ f.next \in Entries
      /\ remote \in [Paths -> Object \cup {None}]
  BY <1>1, InsideCall DEF TruthInv, Frame
\* An entry the step leaves alone, takes from disk or drops.
<1>3. ASSUME n.next[p] \in {f.next[p], disk.entries[p], None}
      PROVE  Tracks(p, n.next[p])'
  <2>1. CASE n.next[p] = None
    BY <2>1 DEF Tracks
  <2>2. CASE n.next[p] \in {disk.entries[p], f.next[p]}
    <3>1. PICK e \in {disk.entries[p], f.next[p]} : e = n.next[p]
      BY <2>2
    <3>2. Tracks(p, e)
      BY <1>1, <1>2 DEF TruthInv, TruthOK, Active
    <3>3. Tracks(p, e)'
      BY <3>2, TrackStays
    <3>4. QED
      BY <3>1, <3>3
  <2>3. QED
    BY <1>3, <2>1, <2>2
\* An entry made of the object.
<1>4. ASSUME UNCHANGED <<local, remote>>, NEW q \in f.todo, NEW m,
             remote[q] # None, n.next = [f.next EXCEPT ![q] = EntryOf(remote[q], m)]
      PROVE  Tracks(p, n.next[p])'
  <2>1. CASE p = q
    <3>1. n.next[p] = EntryOf(remote[p], m)
      BY <1>1, <1>2, <1>4, <2>1 DEF Entries
    <3>2. EntryOf(remote[p], m).etag = remote[p].data /\ EntryOf(remote[p], m).lm = remote[p].lm
      BY DEF EntryOf
    <3>3. QED
      BY <1>4, <2>1, <3>1, <3>2 DEF Tracks, RemoteChanged
  <2>2. CASE p # q
    BY <1>1, <1>2, <1>3, <1>4, <2>2 DEF Entries
  <2>3. QED
    BY <2>1, <2>2
<1>5. CASE Stat_Keep(t)
  <2>1. PICK q \in f.todo :
           n.next = [f.next EXCEPT ![q] = EntryOf(f.objs[q], local[q].mtime)]
    BY <1>5, PullEffects
  <2>2. f.objs = remote /\ remote[q] # None /\ UNCHANGED <<local, remote>>
    BY <1>2, <1>5 DEF Stat_Keep, At, TruthOK, HandsOffOK, LoopOK, Present
  <2>3. QED
    BY <1>4, <2>1, <2>2
<1>6. CASE Restat(t)
  <2>1. n.next = [f.next EXCEPT ![f.cur] = EntryOf(f.objs[f.cur], local[f.cur].mtime)]
    BY <1>6, PullEffects
  <2>2. /\ f.objs = remote /\ f.cur \in f.todo /\ remote[f.cur] # None
        /\ UNCHANGED <<local, remote>>
    BY <1>2, <1>6 DEF Restat, At, TruthOK, HandsOffOK, LoopOK, Present
  <2>3. QED
    BY <1>4, <2>1, <2>2
<1>7. CASE HeadObject(t)
  <2>1. n.next = [f.next EXCEPT ![f.cur] = EntryOf(remote[f.cur], f.infos[f.cur])]
    BY <1>7, PushEffects
  <2>2. f.cur \in f.todo /\ remote[f.cur] # None /\ UNCHANGED <<local, remote>>
    BY <1>2, <1>7 DEF HeadObject, At, LoopOK
  <2>3. QED
    BY <1>4, <2>1, <2>2
<1>8. CASE Remove(t) \/ DeleteObject(t)
  <2>1. \E q : n.next = [f.next EXCEPT ![q] = None]
    BY <1>8, PushEffects
  <2>2. n.next[p] \in {f.next[p], None}
    BY <1>1, <1>2, <2>1 DEF Entries
  <2>3. QED
    BY <1>3, <2>2
<1>9. CASE CallFails(t) \/ AnswerLost(t)
  <2>1. n.next \in {disk.entries, Nothing}
    BY <1>9, EndEffects
  <2>2. QED
    BY <1>1, <1>3, <2>1 DEF Nothing
<1>10. CASE \/ ListRemote(t) \/ Stat_Untracked(t) \/ Stat_Download(t)
            \/ Download(t) \/ StatDone(t)
  <2>1. n.next = f.next
    BY <1>10, PullEffects
  <2>2. QED
    BY <1>3, <2>1
<1>11. CASE Gone_Keep(t) \/ Gone_Remove(t) \/ ListLocal(t) \/ PutObject(t)
  <2>1. n.next = f.next
    BY <1>11, PushEffects
  <2>2. QED
    BY <1>3, <2>1
<1>12. CASE Probe(t) \/ GoneDone(t) \/ PutDone(t) \/ PurgeDone(t)
  <2>1. n.next = f.next
    BY <1>12, EndEffects
  <2>2. QED
    BY <1>3, <2>1
<1>13. ~(Save(t) \/ SaveMark(t) \/ SaveFails(t) \/ WalkFails(t))
  BY EndEffects
<1>14. QED
  BY <1>5, <1>6, <1>7, <1>8, <1>9, <1>10, <1>11, <1>12, <1>13
     DEF Step, PullStep, PushStep, FailStep

\* A step of a call puts on disk what was there, what it has in memory, or nothing.
LEMMA WhatIsSaved ==
    ASSUME IInv, NEW t \in Callers, Step(t)
    PROVE  disk'.entries \in {disk.entries, frame[t].next, Nothing}
<1>1. disk \in Manifest
  BY DEF IInv, GlobalsOK
<1>2. CASE disk'.entries = disk.entries
  BY <1>2
<1>3. CASE Save(t) \/ SaveMark(t)
  <2>1. CASE Save(t)
    <3>1. PICK pulled : disk' = [ok |-> TRUE, err |-> FALSE, entries |-> frame[t].next,
                                 pulled |-> pulled]
      BY <2>1, Zenon DEF Save
    <3>2. QED
      BY <3>1
  <2>2. CASE SaveMark(t)
    BY <1>1, <2>2 DEF SaveMark, Manifest
  <2>3. QED
    BY <1>3, <2>1, <2>2
<1>4. CASE CallFails(t) \/ AnswerLost(t)
  <2>1. CASE StartSave(t, "mark", disk.entries)
    BY <1>1, <2>1, StartKeepsEntries
  <2>2. CASE disk' = [disk EXCEPT !.ok = FALSE, !.pulled = FALSE, !.entries = Nothing]
    BY <1>1, <2>2 DEF Manifest
  <2>3. QED
    BY <1>4, <2>1, <2>2 DEF CallFails, AnswerLost, MarkError
<1>5. CASE GoneDone(t) \/ PutDone(t) \/ PurgeDone(t)
  BY <1>1, <1>5, StartKeepsEntries DEF GoneDone, PutDone, PurgeDone
<1>6. QED
  BY <1>2, <1>3, <1>4, <1>5
     DEF Step, Probe, ListLocal, PullStep, ListRemote, Stat_Untracked, Stat_Keep,
         Stat_Download, StatDone, Download, Restat, Gone_Keep, Gone_Remove,
         Remove, PushStep, PutObject, HeadObject, DeleteObject, FailStep,
         WalkFails, SaveFails

\* So the manifest stays true as well.
LEMMA DiskTracks ==
    ASSUME IInv, TruthInv, NEW t \in Callers, Step(t), NEW p \in Visible
    PROVE  Tracks(p, disk.entries[p])'
<1>1. frame[t].pc \notin Resting /\ p \in Paths
  BY StepActive DEF Active, Visible
<1>2. PICK e : e = disk'.entries[p]
  OBVIOUS
<1>3. CASE e = None
  BY <1>2, <1>3 DEF Tracks
<1>4. CASE e \in {disk.entries[p], frame[t].next[p]}
  <2>1. Tracks(p, e)
    BY <1>1, <1>4 DEF TruthInv, TruthOK
  <2>2. Tracks(p, e)'
    BY <1>4, <2>1, TrackStays
  <2>3. QED
    BY <1>2, <2>2 DEF Tracks
<1>5. QED
  BY <1>1, <1>2, <1>3, <1>4, WhatIsSaved DEF Nothing

\* A pull finds the bucket as the listing said, and goes on to paths without a file.
LEMMA PullHandsOff ==
    ASSUME IInv, TruthInv, NEW t \in Callers, PullStep(t), NEW n, n = frame'[t]
    PROVE  HandsOffOK(n)'
<1> DEFINE f == frame[t]
<1>1. Active(t)
  BY StepActive DEF Step
<1>2. /\ LoopOK(f) /\ EntriesOK(f, disk.entries) /\ HandsOffOK(f) /\ f \in Frame
      /\ f.todo \subseteq Paths /\ \A p \in Visible : Tracks(p, f.next[p])
  BY <1>1, InsideCall DEF TruthInv, TruthOK, Frame, Active
<1>3. UNCHANGED remote
  BY DEF PullStep, ListRemote, Stat_Untracked, Stat_Keep, Stat_Download, StatDone,
         Download, Restat, Gone_Keep, Gone_Remove, GoneDone, Remove
<1>4. CASE \/ ListRemote(t) \/ Stat_Untracked(t) \/ Stat_Keep(t)
           \/ Download(t) \/ Restat(t)
  <2>1. n.pc \in {"stat", "restat"} /\ n.objs = remote
    BY <1>2, <1>4, PullEffects
       DEF HandsOffOK, Stat_Untracked, Stat_Keep, Download, Restat, At
  <2>2. QED
    BY <1>3, <2>1 DEF HandsOffOK
<1>5. CASE Stat_Download(t)
  <2>1. PICK p \in f.todo : /\ WantsDownload(local[p], f.next[p], f.objs[p])
                            /\ n.pc = "get" /\ n.objs = f.objs /\ n.cur = p
    BY <1>5, PullEffects
  <2>2. f.objs = remote /\ UNCHANGED local
    BY <1>2, <1>5 DEF HandsOffOK, Stat_Download, At
  <2>3. p \in Visible => local[p] = None
    BY <1>2, <2>1, <2>2 DEF WantsDownload, Tracks
  <2>4. QED
    BY <1>3, <2>1, <2>2, <2>3 DEF HandsOffOK
<1>6. CASE StatDone(t)
  <2>1. /\ n.pc = "gone" /\ n.todo = Present(f.next) \ Present(f.objs)
        /\ f.objs = remote
    BY <1>2, <1>6, PullEffects DEF HandsOffOK, StatDone, At
  <2>2. \A p \in n.todo : remote[p] = None
    BY <2>1 DEF Present
  <2>3. QED
    BY <1>3, <2>1, <2>2 DEF HandsOffOK
<1>7. CASE Gone_Keep(t) \/ Remove(t)
  <2>1. /\ n.pc = "gone" /\ n.todo \subseteq f.todo /\ f.pc \in {"gone", "remove"}
    BY <1>7, PushEffects DEF Gone_Keep, Remove, At
  <2>2. QED
    BY <1>2, <1>3, <2>1 DEF HandsOffOK
<1>8. CASE Gone_Remove(t)
  <2>1. /\ n.pc = "remove" /\ n.todo = f.todo /\ n.cur \in f.todo
        /\ local[n.cur] # None => LocalUnchanged(local[n.cur], f.next[n.cur])
        /\ f.pc = "gone" /\ UNCHANGED local
    BY <1>8, PushEffects DEF Gone_Remove, At
  <2>2. f.next[n.cur] # None /\ remote[n.cur] = None
    BY <1>2, <2>1 DEF LoopOK, HandsOffOK, Present
  <2>3. n.cur \in Visible => local[n.cur] = None
    BY <1>2, <2>1, <2>2 DEF Tracks
  <2>4. QED
    BY <1>2, <1>3, <2>1, <2>3 DEF HandsOffOK
<1>9. CASE GoneDone(t)
  BY <1>9, EndEffects DEF HandsOffOK, Resting
<1>10. QED
  BY <1>4, <1>5, <1>6, <1>7, <1>8, <1>9 DEF PullStep

\* A push sends files the manifest does not have.
LEMMA PushHandsOff ==
    ASSUME IInv, TruthInv, NEW t \in Callers, ListLocal(t) \/ PushStep(t),
           NEW n, n = frame'[t]
    PROVE  HandsOffOK(n)'
<1> DEFINE f == frame[t]
<1>1. Active(t)
  BY StepActive DEF Step
<1>2. HandsOffOK(f) /\ f \in Frame /\ f.todo \subseteq Paths
  BY <1>1, InsideCall DEF TruthInv, TruthOK, Frame
<1>3. UNCHANGED local
  BY DEF ListLocal, PushStep, PutObject, HeadObject, PutDone, DeleteObject, PurgeDone
<1>4. CASE ListLocal(t)
  <2>1. /\ n.pc = "put" /\ n.next = f.next
        /\ n.todo = {p \in f.todo : \/ f.next[p] = None
                                    \/ ~LocalUnchanged(local[p], f.next[p])}
    BY <1>4, PushEffects
  <2>2. \A p \in n.todo : n.next[p] = None \/ ~LocalUnchanged(local[p], n.next[p])
    BY <2>1
  <2>3. QED
    BY <1>3, <2>1, <2>2 DEF HandsOffOK, LocalUnchanged
<1>5. CASE PutObject(t)
  <2>1. n.pc = "head" /\ n.todo = f.todo /\ n.next = f.next /\ f.pc = "put"
    BY <1>5, PushEffects DEF PutObject, At
  <2>2. QED
    BY <1>2, <1>3, <2>1 DEF HandsOffOK, LocalUnchanged
<1>6. CASE HeadObject(t)
  <2>1. /\ n.pc = "put" /\ n.todo = f.todo \ {f.cur}
        /\ n.next = [f.next EXCEPT ![f.cur] = EntryOf(remote[f.cur], f.infos[f.cur])]
        /\ f.pc = "head"
    BY <1>6, PushEffects DEF HeadObject, At
  <2>2. \A p \in n.todo : p \in f.todo /\ n.next[p] = f.next[p]
    BY <1>2, <2>1 DEF Frame, Entries
  <2>3. QED
    BY <1>2, <1>3, <2>1, <2>2 DEF HandsOffOK, LocalUnchanged
<1>7. CASE PutDone(t) \/ PurgeDone(t) \/ DeleteObject(t)
  <2>1. n.pc \in Resting \cup {"save", "purge"}
    BY <1>7, EndEffects, PushEffects
  <2>2. QED
    BY <2>1 DEF HandsOffOK, Resting
<1>8. QED
  BY <1>4, <1>5, <1>6, <1>7 DEF PushStep

\* Others change an object only if the manifest has no entry for it.
LEMMA TrackedHeld ==
    ASSUME OthersHold, IInv, Environment, NEW p \in Paths, disk.entries[p] # None
    PROVE  remote'[p] = remote[p]
<1>1. remote \in [Paths -> Object \cup {None}]
  BY DEF IInv, GlobalsOK
<1>2. PICK q \in Paths : \/ \E d \in Data : WriteNote(q, d) \/ ForeignPut(q, d)
                         \/ DeleteNote(q) \/ ForeignDelete(q)
  BY DEF Environment
<1>3. CASE \/ \E d \in Data : WriteNote(q, d)
           \/ DeleteNote(q)
  BY <1>3 DEF WriteNote, DeleteNote
<1>4. CASE \/ \E d \in Data : ForeignPut(q, d)
           \/ ForeignDelete(q)
  <2>1. disk.entries[q] = None
    BY <1>4 DEF OthersHold, ForeignPut, ForeignDelete, ForeignAllowed, Allowed
  <2>2. \E o : remote' = [remote EXCEPT ![q] = o]
    BY <1>4 DEF ForeignPut, ForeignDelete, ObjectWritten
  <2>3. QED
    BY <1>1, <2>1, <2>2
<1>5. QED
  BY <1>2, <1>3, <1>4

\* Every step keeps it: if tool handlers write between the calls only, and other
\* programs leave tracked objects alone.
LEMMA TruthPreserved ==
    ASSUME WritersWait, OthersHold, IInv, TruthInv, [Next]_vars
    PROVE  TruthInv'
<1>1. AbsentInv'
  BY AbsentPreserved DEF TruthInv
<1>2. \A p \in Visible : Tracks(p, disk.entries[p])'
  <2> SUFFICES ASSUME NEW p \in Visible PROVE Tracks(p, disk.entries[p])'
    OBVIOUS
  <2>1. Tracks(p, disk.entries[p]) /\ p \in Paths
    BY DEF TruthInv, Visible
  <2>2. CASE \E t \in Callers : Step(t)
    BY <2>2, DiskTracks
  <2>3. CASE UNCHANGED <<local, remote, disk>>
    BY <2>1, <2>3 DEF Tracks, LocalUnchanged, RemoteChanged
  <2>4. CASE Environment
    <3> DEFINE e == disk.entries[p]
    <3>1. UNCHANGED disk /\ (e # None => remote'[p] = remote[p])
      BY <2>1, <2>4, TrackedHeld
         DEF Environment, WriteNote, DeleteNote, ForeignPut, ForeignDelete
    <3>2. ASSUME local'[p] # None, e # None, local'[p].mtime = e.mtime
          PROVE  local'[p] = local[p]
      <4>1. e.mtime \in MtimesInUse(p)
        BY <3>2 DEF MtimesInUse
      <4>2. QED
        BY <2>1, <3>2, <4>1, FileWrites
    <3>3. QED
      BY <2>1, <3>1, <3>2 DEF Tracks, LocalUnchanged, RemoteChanged
  <2>5. \A t \in Callers : Call(t) => UNCHANGED <<local, remote, disk>>
    BY CallEffects
  <2>6. QED
    BY <2>2, <2>3, <2>4, <2>5 DEF Next, vars, Crash
<1>3. ASSUME NEW t \in Callers PROVE TruthOK(frame[t])'
  <2>1. PICK n : n = frame'[t]
    OBVIOUS
  <2>2. SUFFICES TruthOK(n)'
    BY <2>1 DEF TruthOK, HandsOffOK
  <2>3. CASE n.pc \in Resting
    BY <2>3 DEF TruthOK, HandsOffOK, Resting
  <2>4. ASSUME n.pc \notin Resting, Call(t) PROVE TruthOK(n)'
    <3>1. n.pc \in {"walk", "list"} /\ n.next = disk.entries
      BY <2>1, <2>4, CallEffects DEF Call
    <3>2. UNCHANGED <<local, remote, disk>>
      BY <2>4, CallEffects
    <3>3. \A p \in Visible : Tracks(p, n.next[p])'
      BY <3>1, <3>2 DEF TruthInv, Tracks, LocalUnchanged, RemoteChanged
    <3>4. QED
      BY <3>1, <3>3 DEF TruthOK, HandsOffOK
  <2>5. ASSUME n.pc \notin Resting, Step(t) PROVE TruthOK(n)'
    <3>1. \A p \in Visible : Tracks(p, n.next[p])'
      BY <2>1, <2>5, NextTracks
    <3>2. HandsOffOK(n)'
      <4>1. CASE n.pc \in {"list"} \cup SavePhases
        BY <4>1 DEF HandsOffOK, SavePhases
      <4>2. CASE n.pc \notin Resting \cup {"list"} \cup SavePhases
        BY <2>1, <2>5, <4>2, WhoGoesOn, PullHandsOff, PushHandsOff
      <4>3. QED
        BY <2>5, <4>1, <4>2
    <3>3. QED
      BY <3>1, <3>2 DEF TruthOK
  <2>6. ASSUME frame'[t] = frame[t], UNCHANGED <<local, remote>> PROVE TruthOK(n)'
    <3>1. TruthOK(n)
      BY <2>1, <2>6 DEF TruthInv
    <3>2. \A p \in Visible : Tracks(p, n.next[p]) => Tracks(p, n.next[p])'
      BY <2>6 DEF Tracks, LocalUnchanged, RemoteChanged
    <3>3. HandsOffOK(n) => HandsOffOK(n)'
      BY <2>6 DEF HandsOffOK, LocalUnchanged
    <3>4. QED
      BY <3>1, <3>2, <3>3 DEF TruthOK
  <2>7. QED
    BY <2>1, <2>3, <2>4, <2>5, <2>6, VaultHeld
<1>4. QED
  BY <1>1, <1>2, <1>3 DEF TruthInv

LEMMA InitTruth == Init => TruthInv
<1>1. Init => \A t \in Callers : frame[t].pc = "ok"
  BY RestFrame DEF Init, Phases, Resting
<1>2. ASSUME Init PROVE \A p \in Paths : disk.entries[p] = None
  <2>1. disk = [ok |-> TRUE, pulled |-> FALSE, err |-> FALSE, entries |-> Nothing]
    BY <1>2 DEF Init
  <2>2. disk.entries = Nothing
    BY <2>1
  <2>3. QED
    BY <2>2 DEF Nothing
<1>3. QED
  BY <1>1, <1>2, InitAbsent DEF TruthInv, TruthOK, HandsOffOK, Tracks, Visible, Resting

\* No call replaces or removes a note the vault lists.
LEMMA OverwritesNone ==
    ASSUME IInv, TruthInv, [Next]_vars, NEW t \in Callers, NEW p \in Paths \ Hidden,
           Moves(t), local[p] # None
    PROVE  local'[p] = local[p]
<1> SUFFICES ASSUME local'[p] # local[p] PROVE FALSE
  OBVIOUS
<1>1. Step(t)
  BY WhoMoves
<1>2. (Download(t) \/ Remove(t)) /\ p = frame[t].cur
  BY <1>1, WhoTransfers DEF PutObject, DeleteObject, AnswerLost
<1>3. QED
  BY <1>2 DEF TruthInv, TruthOK, HandsOffOK, Visible, Download, Remove, At

\* While other programs leave tracked objects alone, and tool handlers write notes
\* between the calls, no call replaces or removes a note the vault lists, whatever
\* fails, gets lost or is cut short by a crash.
THEOREM TruthHolds ==
    ASSUME VaultWrites # "any time", BucketWrites \in {"never", "untracked"}
    PROVE  Spec => VaultIsTruth
<1>1. IInv /\ TruthInv /\ [Next]_vars => TruthInv'
  BY CallsAlone, TruthPreserved DEF OthersHold
<1>2. IInv /\ TruthInv /\ [Next]_vars =>
         [\A t \in Callers, p \in Paths \ Hidden :
             Moves(t) /\ local[p] # None => local'[p] = local[p]]_vars
  BY OverwritesNone
<1>3. QED
  BY <1>1, <1>2, InitTruth, Invariance, PTL DEF Spec, VaultIsTruth
=============================================================================
