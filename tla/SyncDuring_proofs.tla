------------------------- MODULE SyncDuring_proofs -------------------------
(***************************************************************************)
(* What a call of the synchroniser does to notes and objects when tool     *)
(* handlers and other programs write at any time, for every set of paths   *)
(* and callers.  Each promise is kept for the paths nobody else touched    *)
(* since the call looked at them, so each invariant says what the call     *)
(* knows of a path, or else that the history has the path.                 *)
(***************************************************************************)
EXTENDS SyncDuring, S3SyncData_proofs

-----------------------------------------------------------------------------
(* The history *)

\* The history watches the steps of S3Sync.
LEMMA Watched == [DuringNext]_duringVars => [Next]_vars
    BY DEF DuringNext, duringVars

LEMMA DuringInvariance == DuringSpec => []IInv
<1>1. DuringInit => IInv
  BY InitIInv DEF DuringInit
<1>2. IInv /\ [DuringNext]_duringVars => IInv'
  BY Watched, NextIInv
<1>3. QED
  BY <1>1, <1>2, PTL DEF DuringSpec

\* What the history holds of a call is kept while the call is in these phases, and
\* nobody else changes a file, or an object, without getting into it.
LEMMA EditedGrows ==
    ASSUME [DuringNext]_duringVars, NEW t \in Callers, frame'[t].pc \in Looked
    PROVE  /\ \A p \in edited[t] : p \in edited'[t]
           /\ \A p \in Paths : Moves(t) \/ local'[p] = local[p] \/ p \in edited'[t]
<1>1. CASE DuringNext
  <2>1. edited'[t] = edited[t] \cup ByOthers(t, local, local')
    BY <1>1 DEF DuringNext
  <2>2. \A p \in Paths : Moves(t) \/ local'[p] = local[p]
                            \/ p \in ByOthers(t, local, local')
    BY DEF ByOthers
  <2>3. QED
    BY <2>1, <2>2
<1>2. CASE UNCHANGED duringVars
  BY <1>2 DEF duringVars, vars
<1>3. QED
  BY <1>1, <1>2

LEMMA ForeignGrows ==
    ASSUME [DuringNext]_duringVars, NEW t \in Callers, frame'[t].pc \in Sent
    PROVE  /\ \A p \in foreign[t] : p \in foreign'[t]
           /\ \A p \in Paths : Moves(t) \/ remote'[p] = remote[p] \/ p \in foreign'[t]
<1>1. CASE DuringNext
  <2>1. foreign'[t] = foreign[t] \cup ByOthers(t, remote, remote')
    BY <1>1 DEF DuringNext
  <2>2. \A p \in Paths : Moves(t) \/ remote'[p] = remote[p]
                            \/ p \in ByOthers(t, remote, remote')
    BY DEF ByOthers
  <2>3. QED
    BY <2>1, <2>2
<1>2. CASE UNCHANGED duringVars
  BY <1>2 DEF duringVars, vars
<1>3. QED
  BY <1>1, <1>2

-----------------------------------------------------------------------------
(* What a pull overwrites *)

\* The file about to be replaced or removed is the one its entry describes, but for
\* paths in X.
CleanOK(f, X) ==
    f.pc \in {"get", "remove"} /\ local[f.cur] # None =>
        f.cur \in X \/ (f.next[f.cur] # None /\ LocalUnchanged(local[f.cur], f.next[f.cur]))

CleanInv == \A t \in Callers : CleanOK(frame[t], edited[t])

\* A caller gets to replace or remove a file only from the loop bodies that have just
\* looked at it.
LEMMA WhoGoesOnToTransfer ==
    ASSUME IInv, NEW t \in Callers, Step(t), frame'[t].pc \in {"get", "remove"}
    PROVE  Stat_Download(t) \/ Gone_Remove(t)
<1>1. PullStep(t) \/ ListLocal(t) \/ PushStep(t)
  BY WhoGoesOn DEF Resting, SavePhases
<1>2. ~(ListRemote(t) \/ Stat_Untracked(t) \/ Stat_Keep(t) \/ Download(t) \/ Restat(t)
          \/ StatDone(t))
  BY PullEffects
<1>3. ~(Gone_Keep(t) \/ Remove(t) \/ ListLocal(t) \/ PutObject(t) \/ HeadObject(t)
          \/ DeleteObject(t))
  BY PushEffects
<1>4. ~(GoneDone(t) \/ PutDone(t) \/ PurgeDone(t))
  BY EndEffects DEF Resting
<1>5. QED
  BY <1>1, <1>2, <1>3, <1>4 DEF PullStep, PushStep

\* Both loop bodies have compared the file with its entry.
LEMMA TransferIsClean ==
    ASSUME IInv, NEW t \in Callers, Stat_Download(t) \/ Gone_Remove(t),
           NEW n, n = frame'[t], NEW CONSTANT X
    PROVE  CleanOK(n, X)'
<1>1. /\ frame \in [Callers -> Frame] /\ frame[t] \in Frame
      /\ UNCHANGED local
  BY DEF IInv, Stat_Download, Gone_Remove
<1>2. CASE Stat_Download(t)
  <2>1. PICK p \in frame[t].todo :
           /\ WantsDownload(local[p], frame[t].next[p], frame[t].objs[p])
           /\ frame' = [frame EXCEPT ![t] = [frame[t] EXCEPT !.pc = "get", !.cur = p]]
    BY <1>2 DEF Stat_Download, Goto
  <2>2. n.cur = p /\ n.next = frame[t].next
    BY <1>1, <2>1 DEF Frame
  <2>3. QED
    BY <1>1, <2>1, <2>2 DEF CleanOK, WantsDownload, LocalUnchanged
<1>3. CASE Gone_Remove(t)
  <2>1. PICK p \in frame[t].todo :
           /\ local[p] # None => LocalUnchanged(local[p], frame[t].next[p])
           /\ frame' = [frame EXCEPT ![t] = [frame[t] EXCEPT !.pc = "remove",
                                                              !.cur = p]]
    BY <1>3 DEF Gone_Remove, Goto
  <2>2. n.cur = p /\ n.next = frame[t].next
    BY <1>1, <2>1 DEF Frame
  <2>3. frame[t].next[p] # None
    BY <1>3, <2>1 DEF IInv, FrameOK, LoopOK, Present, Gone_Remove, At
  <2>4. QED
    BY <1>1, <2>1, <2>2, <2>3 DEF CleanOK, LocalUnchanged
<1>4. QED
  BY <1>2, <1>3

\* Every step keeps it: what others do to the file is in the history.
LEMMA CleanPreserved ==
    ASSUME IInv, CleanInv, [DuringNext]_duringVars
    PROVE  CleanInv'
<1> SUFFICES ASSUME NEW t \in Callers, frame'[t].pc \in {"get", "remove"}
             PROVE  CleanOK(frame[t], edited[t])'
  BY DEF CleanInv, CleanOK
<1>1. [Next]_vars
  BY Watched
<1>2. PICK n : n = frame'[t]
  OBVIOUS
<1>3. PICK X : X = edited'[t]
  OBVIOUS
<1>4. n.pc \notin Resting /\ n.pc \notin {"walk", "list"} /\ n.pc \in Looked
  BY <1>2 DEF Resting, Looked
<1>5. CASE Call(t)
  BY <1>2, <1>4, <1>5, CallEffects DEF Call
<1>6. CASE Step(t)
  <2>1. CleanOK(n, X)'
    BY <1>2, <1>6, WhoGoesOnToTransfer, TransferIsClean
  <2>2. QED
    BY <1>2, <1>3, <2>1 DEF CleanOK
<1>7. CASE frame'[t] = frame[t]
  <2>1. n \in Frame /\ n.cur \in Paths /\ CleanOK(n, edited[t])
    <3>1. LoopOK(frame[t]) /\ frame[t] \in Frame
      BY DEF IInv, FrameOK
    <3>2. QED
      BY <1>2, <1>7, <3>1 DEF LoopOK, Frame, CleanInv
  <2>2. \/ n.cur \in X
        \/ n.cur \notin edited[t] /\ local'[n.cur] = local[n.cur]
    BY <1>2, <1>3, <1>4, <1>7, <2>1, EditedGrows DEF Moves
  <2>3. CleanOK(n, X)'
    BY <2>1, <2>2 DEF CleanOK, LocalUnchanged
  <2>4. QED
    BY <1>2, <1>3, <2>3 DEF CleanOK
<1>8. QED
  BY <1>1, <1>2, <1>4, <1>5, <1>6, <1>7, WhoActs

\* The file at the path a call replaces or removes.
LEMMA OverwritesClean ==
    ASSUME IInv, CleanInv, [Next]_vars, NEW t \in Callers, NEW p \in Paths,
           Moves(t), local[p] # None, local'[p] # local[p]
    PROVE  \/ p \in edited[t]
           \/ disk.entries[p] # None /\ LocalUnchanged(local[p], disk.entries[p])
<1>1. Step(t)
  BY WhoMoves
<1>2. (Download(t) \/ Remove(t)) /\ p = frame[t].cur
  BY <1>1, WhoTransfers DEF PutObject, DeleteObject, AnswerLost
<1>3. \/ p \in edited[t]
      \/ frame[t].next[p] # None /\ LocalUnchanged(local[p], frame[t].next[p])
  BY <1>2 DEF CleanInv, CleanOK, Download, Remove, At
<1>4. frame[t].next[p] = disk.entries[p]
  BY <1>2 DEF IInv, FrameOK, LoopOK, EntriesOK, Download, Remove, At
<1>5. QED
  BY <1>3, <1>4

\* A pull replaces or removes a file only if the manifest describes that very file, or
\* somebody changed it after the pull had looked.
THEOREM EditsKept == DuringSpec => KeepsEdits
<1>1. DuringInit => CleanInv
  <2>1. Init => \A t \in Callers : frame[t].pc = "ok"
    BY RestFrame DEF Init, Phases, Resting
  <2>2. QED
    BY <2>1 DEF DuringInit, CleanInv, CleanOK
<1>2. IInv /\ CleanInv /\ [DuringNext]_duringVars => CleanInv'
  BY CleanPreserved
<1>3. IInv /\ CleanInv /\ [DuringNext]_duringVars =>
         [\A t \in Callers, p \in Paths :
             Moves(t) /\ local[p] # None /\ local'[p] # local[p] =>
                \/ p \in edited[t]
                \/ disk.entries[p] # None /\ LocalUnchanged(local[p], disk.entries[p])
         ]_duringVars
  BY Watched, OverwritesClean
<1>4. QED
  BY <1>1, <1>2, <1>3, DuringInvariance, PTL DEF DuringSpec, KeepsEdits

-----------------------------------------------------------------------------
(* What a push deletes *)

GoneInv == \A t \in Callers : AbsentOK(frame[t], edited[t])

\* A note that appears while a push runs is in the history.
LEMMA GonePreserved ==
    ASSUME IInv, GoneInv, [DuringNext]_duringVars
    PROVE  GoneInv'
<1> SUFFICES ASSUME NEW t \in Callers, frame'[t].pc \in PushPhases \cup {"walk"}
             PROVE  AbsentOK(frame[t], edited[t])'
  BY DEF GoneInv, AbsentOK, PushPhases
<1>1. [Next]_vars
  BY Watched
<1>2. PICK n : n = frame'[t]
  OBVIOUS
<1>3. PICK X : X = edited'[t]
  OBVIOUS
<1>4. PICK Y : Y = edited[t]
  OBVIOUS
<1>5. /\ n.pc \notin Resting /\ n.pc \in Looked
      /\ \A p \in Y : p \in X
      /\ \A p \in Paths : Moves(t) \/ local'[p] = local[p] \/ p \in X
  BY <1>2, <1>3, <1>4, EditedGrows DEF Resting, Looked, PushPhases
<1>6. AbsentOK(frame[t], Y)
  BY <1>4 DEF GoneInv
<1>7. AbsentOK(n, X)'
  <2>1. CASE Call(t) \/ Step(t)
    <3>1. AbsentOK(n, Y)'
      BY <1>2, <1>6, <2>1, PushPathsAbsent
    <3>2. QED
      BY <1>5, <3>1 DEF AbsentOK
  <2>2. CASE frame'[t] = frame[t]
    <3>1. \A p \in Paths : local'[p] = local[p] \/ p \in X
      BY <1>5, <2>2 DEF Moves
    <3>2. AbsentOK(n, Y)
      BY <1>2, <1>6, <2>2
    <3>3. QED
      BY <1>5, <3>1, <3>2 DEF AbsentOK, Visible
  <2>3. QED
    BY <1>1, <1>2, <1>5, <2>1, <2>2, WhoActs
<1>8. QED
  BY <1>2, <1>3, <1>7 DEF AbsentOK

\* The file at the path whose object a call deletes.
LEMMA PurgesGone ==
    ASSUME IInv, GoneInv, [Next]_vars, NEW t \in Callers, NEW p \in Visible,
           Moves(t), remote[p] # None, remote'[p] = None
    PROVE  local[p] = None \/ p \in edited[t]
<1>1. Step(t) /\ p \in Paths
  BY WhoMoves DEF Visible
<1>2. \/ PutObject(t)
      \/ (DeleteObject(t) \/ AnswerLost(t)) /\ p \in frame[t].todo
  BY <1>1, WhoTransfers DEF Download, Remove
<1>3. ASSUME NEW q \in frame[t].todo, local[q] # None, ObjectWritten(q, local[q].data)
      PROVE  FALSE
  <2>1. PICK s \in Unused(LmsInUse(q)) :
           remote' = [remote EXCEPT ![q] = [data |-> local[q].data, lm |-> s]]
    BY <1>3 DEF ObjectWritten
  <2>2. s \in Stamps
    BY FreshStamp
  <2>3. q \in Paths /\ local[q].data \in Data
    BY <1>3 DEF IInv, GlobalsOK, Frame, File
  <2>4. [data |-> local[q].data, lm |-> s] \in Object
    BY <2>2, <2>3 DEF Object
  <2>5. remote'[p] # None
    BY <1>1, <2>1, <2>3, <2>4, AbsenceAssumption DEF IInv, GlobalsOK
  <2>6. QED
    BY <2>5
<1>4. ~PutObject(t)
  BY <1>3 DEF PutObject
<1>5. p \in frame[t].todo /\ (DeleteObject(t) \/ AnswerLost(t))
  BY <1>2, <1>4
<1>6. frame[t].pc = "purge"
  BY <1>3, <1>5 DEF DeleteObject, AnswerLost, At
<1>7. QED
  BY <1>5, <1>6 DEF GoneInv, AbsentOK

\* A push deletes the object of a path that listings have only if the vault has no note
\* there, or somebody wrote one after the push had begun.
THEOREM DeletedPurged == DuringSpec => PurgesDeleted
<1>1. DuringInit => GoneInv
  <2>1. Init => \A t \in Callers : frame[t].pc = "ok"
    BY RestFrame DEF Init, Phases, Resting
  <2>2. QED
    BY <2>1 DEF DuringInit, GoneInv, AbsentOK
<1>2. IInv /\ GoneInv /\ [DuringNext]_duringVars => GoneInv'
  BY GonePreserved
<1>3. IInv /\ GoneInv /\ [DuringNext]_duringVars =>
         [\A t \in Callers, p \in Paths \ Hidden :
             Moves(t) /\ remote[p] # None /\ remote'[p] = None =>
                local[p] = None \/ p \in edited[t]]_duringVars
  BY Watched, PurgesGone DEF Visible
<1>4. QED
  BY <1>1, <1>2, <1>3, DuringInvariance, PTL DEF DuringSpec, PurgesDeleted

-----------------------------------------------------------------------------
(* What a push records *)

\* An object that was sent has the content of the file, while the file is still the
\* one that was listed and nobody replaced the object; X are the replaced ones.
SentOK(f, X) ==
    /\ f.pc = "head" /\ f.cur \notin X
    /\ local[f.cur] # None /\ local[f.cur].mtime = f.infos[f.cur]
    => remote[f.cur] # None /\ remote[f.cur].data = local[f.cur].data

SentInv == \A t \in Callers : SentOK(frame[t], foreign[t])

\* The upload sends the file as it is.
LEMMA SendsFile ==
    ASSUME IInv, NEW t \in Callers, Step(t), frame'[t].pc = "head",
           NEW n, n = frame'[t], NEW CONSTANT X
    PROVE  SentOK(n, X)'
<1>1. PullStep(t) \/ ListLocal(t) \/ PushStep(t)
  BY WhoGoesOn DEF Resting, SavePhases
<1>2. ~PullStep(t)
  BY PullStaysPull DEF PushPhases
<1>3. ~(ListLocal(t) \/ HeadObject(t) \/ DeleteObject(t))
  BY PushEffects
<1>4. ~(PutDone(t) \/ PurgeDone(t))
  BY EndEffects DEF Resting
<1>5. PutObject(t)
  BY <1>1, <1>2, <1>3, <1>4 DEF PushStep
<1>6. /\ n.cur \in frame[t].todo /\ UNCHANGED local
      /\ local[n.cur] # None /\ ObjectWritten(n.cur, local[n.cur].data)
  BY <1>5, PushEffects DEF PutObject
<1>7. PICK s \in Unused(LmsInUse(n.cur)) :
         remote' = [remote EXCEPT ![n.cur] = [data |-> local[n.cur].data, lm |-> s]]
  BY <1>6 DEF ObjectWritten
<1>8. /\ s \in Stamps /\ n.cur \in Paths /\ local[n.cur].data \in Data
      /\ remote \in [Paths -> Object \cup {None}]
  BY <1>6, FreshStamp DEF IInv, GlobalsOK, Frame, File
<1>9. [data |-> local[n.cur].data, lm |-> s] \in Object
  BY <1>8 DEF Object
<1>10. remote'[n.cur] # None /\ remote'[n.cur].data = local'[n.cur].data
  BY <1>6, <1>7, <1>8, <1>9, AbsenceAssumption
<1>11. QED
  BY <1>10 DEF SentOK

\* A file written since has another time, an object written since is in the history.
LEMMA SentPreserved ==
    ASSUME IInv, SentInv, [DuringNext]_duringVars
    PROVE  SentInv'
<1> SUFFICES ASSUME NEW t \in Callers, frame'[t].pc = "head"
             PROVE  SentOK(frame[t], foreign[t])'
  BY DEF SentInv, SentOK
<1>1. [Next]_vars
  BY Watched
<1>2. PICK n : n = frame'[t]
  OBVIOUS
<1>3. PICK X : X = foreign'[t]
  OBVIOUS
<1>4. n.pc \notin Resting /\ n.pc \notin {"walk", "list"} /\ n.pc \in Sent
  BY <1>2 DEF Resting, Sent
<1>5. SentOK(n, X)'
  <2>1. CASE Call(t)
    BY <1>2, <1>4, <2>1, CallEffects DEF Call
  <2>2. CASE Step(t)
    BY <1>2, <2>2, SendsFile
  <2>3. CASE frame'[t] = frame[t]
    <3>1. n.cur \in Paths
      BY <1>2, <2>3 DEF IInv, FrameOK, LoopOK, Frame
    <3>2. SentOK(n, foreign[t])
      BY <1>2, <2>3 DEF SentInv
    <3>3. n.infos[n.cur] \in MtimesInUse(n.cur)
      BY <1>2, <2>3 DEF MtimesInUse
    <3>4. \/ local'[n.cur] \in {local[n.cur], None}
          \/ local'[n.cur].mtime # n.infos[n.cur]
      BY <1>1, <3>1, <3>3, FileWrites
    <3>5. \/ n.cur \in X
          \/ n.cur \notin foreign[t] /\ remote'[n.cur] = remote[n.cur]
      BY <1>2, <1>3, <1>4, <2>3, <3>1, ForeignGrows DEF Moves
    <3>6. QED
      BY <3>2, <3>4, <3>5 DEF SentOK
  <2>4. QED
    BY <1>1, <1>2, <1>4, <2>1, <2>2, <2>3, WhoActs
<1>6. QED
  BY <1>2, <1>3, <1>5 DEF SentOK

\* The entry a push prepares for a path it has sent.
LEMMA RecordsSent ==
    ASSUME IInv, SentInv, [Next]_vars, NEW t \in Callers,
           At(t, "head"), frame'[t].pc = "put",
           NEW p, p = frame[t].cur, local[p] # None,
           LocalUnchanged(local[p], frame'[t].next[p])
    PROVE  p \in foreign[t] \/ remote[p].data = local[p].data
<1>1. Step(t)
  <2>1. ~Call(t)
    BY DEF Call, EnsureFresh, Pull, Push, Locked, Active, At, Resting
  <2>2. QED
    BY <2>1, WhoActs DEF At, Resting
<1>2. PullStep(t) \/ ListLocal(t) \/ PushStep(t)
  BY <1>1, WhoGoesOn DEF Resting, SavePhases
<1>3. HeadObject(t)
  BY <1>2 DEF At, PullStep, ListRemote, Stat_Untracked, Stat_Keep, Stat_Download,
       StatDone, Download, Restat, Gone_Keep, Gone_Remove, GoneDone, Remove, ListLocal,
       PushStep, PutObject, PutDone, DeleteObject, PurgeDone
<1>4. p \in Paths /\ frame[t] \in Frame
  BY DEF IInv, FrameOK, LoopOK, Frame, At
<1>5. frame'[t].next = [frame[t].next EXCEPT ![p] = EntryOf(remote[p], frame[t].infos[p])]
  BY <1>3, PushEffects
<1>6. frame'[t].next[p].mtime = frame[t].infos[p]
  BY <1>4, <1>5 DEF Frame, Entries, EntryOf
<1>7. QED
  BY <1>6 DEF SentInv, SentOK, At, LocalUnchanged

\* A push never records a file as sent whose content it did not send, whoever writes the
\* file between the listing, the upload and the head.
THEOREM SentRecorded == DuringSpec => RecordsWhatItSent
<1>1. DuringInit => SentInv
  <2>1. Init => \A t \in Callers : frame[t].pc = "ok"
    BY RestFrame DEF Init, Phases, Resting
  <2>2. QED
    BY <2>1 DEF DuringInit, SentInv, SentOK
<1>2. IInv /\ SentInv /\ [DuringNext]_duringVars => SentInv'
  BY SentPreserved
<1>3. IInv /\ SentInv /\ [DuringNext]_duringVars =>
         [\A t \in Callers :
             At(t, "head") /\ frame'[t].pc = "put" =>
                LET p == frame[t].cur IN
                local[p] # None /\ LocalUnchanged(local[p], frame'[t].next[p]) =>
                   p \in foreign[t] \/ remote[p].data = local[p].data]_duringVars
  BY Watched, RecordsSent
<1>4. QED
  BY <1>1, <1>2, <1>3, DuringInvariance, PTL DEF DuringSpec, RecordsWhatItSent
=============================================================================
