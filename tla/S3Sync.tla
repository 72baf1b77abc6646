------------------------------- MODULE S3Sync -------------------------------
(***************************************************************************)
(* The S3 synchroniser (internal/sync/s3/s3.go) together with the sync     *)
(* manifest it keeps on disk (internal/state/state.go).                    *)
(*                                                                         *)
(* A caller runs EnsureFresh, Pull or Push; each takes the mutex s.mu,     *)
(* loads the manifest, works through files and objects one I/O call at a   *)
(* time, and saves the manifest before it unlocks.  The vault directory    *)
(* and the bucket are NOT protected by s.mu: tool handlers write notes and *)
(* other programs write objects between any two steps.                     *)
(*                                                                         *)
(* Data kept: the content of a note is a member of Data.  An ETag is a     *)
(* digest of the content, so it is the content.  Times are stamps that are *)
(* only compared for equality, as the code does; a write takes a stamp     *)
(* nobody still refers to (a stamp that is referred to nowhere cannot be   *)
(* told from a new one, so the set of stamps can be small).  Sizes follow  *)
(* from the content and add nothing.                                       *)
(***************************************************************************)
CONSTANTS
    Paths,          \* relative note paths
    Hidden,         \* the paths below a .git or state directory: List skips them
    Data,           \* contents of notes and objects
    Stamps,         \* modification times, of files and of objects
    Callers,        \* goroutines that may call the synchroniser
    None,           \* no such file, object, entry, path or owner
    DeleteRemote,   \* S3_SYNC_DELETE
    PullAlways,     \* S3_SYNC_INTERVAL_MINUTES = 0
    VaultWrites,    \* when tool handlers write notes
    BucketWrites,   \* when other programs write objects
    Faults,         \* S3 requests and file system calls may fail
    Unreadable      \* and so may reading state.json

ASSUME PathsAssumption == Hidden \subseteq Paths
ASSUME StampsAssumption == Stamps # {}
ASSUME NoneAssumption == None \notin Paths \cup Callers \cup Stamps
ASSUME SwitchAssumption ==
    /\ {DeleteRemote, PullAlways, Faults, Unreadable} \subseteq BOOLEAN
    /\ VaultWrites \in {"never", "between calls", "any time"}
    /\ BucketWrites \in {"never", "untracked", "between calls", "any time"}

VARIABLES
    local,      \* the vault directory: path -> file or None
    remote,     \* the bucket below S3_PREFIX: path -> object or None
    disk,       \* state.json
    mu,         \* the holder of Syncer.mu, or None
    frame       \* the stack frame of each caller's current or last call

vars == <<local, remote, disk, mu, frame>>

-----------------------------------------------------------------------------
(* Types *)

File == [data : Data, mtime : Stamps]
Object == [data : Data, lm : Stamps]
Entry == [etag : Data, lm : Stamps, mtime : Stamps]
Entries == [Paths -> Entry \cup {None}]

ASSUME AbsenceAssumption == None \notin File \cup Object \cup Entry

\* ok: the file parses.  pulled: LastPull is set.  err: LastError is set.
\* When ok is FALSE nothing can be loaded; the fields keep their last values.
Manifest == [ok : BOOLEAN, pulled : BOOLEAN, err : BOOLEAN, entries : Entries]

Resting == {"ok", "failed"}
PullPhases == {"list", "stat", "get", "restat", "gone", "remove"}
PushPhases == {"put", "head", "purge"}
SavePhases == {"save", "mark"}
Phases == Resting \cup {"walk"} \cup PullPhases \cup PushPhases \cup SavePhases

Frame == [pc : Phases,
          op : {"ensure", "pull", "push"},
          next : Entries,                       \* next.Entries, in memory
          objs : [Paths -> Object \cup {None}], \* what listRemote returned
          infos : [Paths -> Stamps \cup {None}],\* what localMarkdown returned
          todo : SUBSET Paths,                  \* paths a loop has yet to visit
          cur : Paths \cup {None}]              \* the path in the loop body

TypeOK ==
    /\ local \in [Paths -> File \cup {None}]
    /\ remote \in [Paths -> Object \cup {None}]
    /\ disk \in Manifest
    /\ mu \in Callers \cup {None}
    /\ frame \in [Callers -> Frame]

-----------------------------------------------------------------------------
(* Helpers *)

Nothing == [p \in Paths |-> None]
Present(f) == {p \in Paths : f[p] # None}

\* vault.List walks the vault but skips .git and the state directory.
Listed == Present(local) \ Hidden

\* The frame of a caller that is in no call; r is what the last call returned.
Rest(r) == [pc |-> r, op |-> "pull", next |-> Nothing, objs |-> Nothing,
            infos |-> Nothing, todo |-> {}, cur |-> None]

Active(t) == frame[t].pc \notin Resting
At(t, phase) == frame[t].pc = phase

MtimesInUse(p) ==
    {f.mtime : f \in ({local[p], disk.entries[p]}
                        \cup {frame[t].next[p] : t \in Callers}) \ {None}}
      \cup {frame[t].infos[p] : t \in Callers}
LmsInUse(p) ==
    {o.lm : o \in ({remote[p], disk.entries[p]}
                     \cup {frame[t].next[p] : t \in Callers}
                     \cup {frame[t].objs[p] : t \in Callers}) \ {None}}

\* The stamp a write may take now, if any is left.
Unused(used) ==
    LET free == Stamps \ used
    IN  IF free = {} THEN {} ELSE {CHOOSE s \in free : TRUE}

\* A finished file is renamed over the note; an object is written.
FileWritten(p, d) ==
    \E s \in Unused(MtimesInUse(p)) :
        local' = [local EXCEPT ![p] = [data |-> d, mtime |-> s]]
ObjectWritten(p, d) ==
    \E s \in Unused(LmsInUse(p)) :
        remote' = [remote EXCEPT ![p] = [data |-> d, lm |-> s]]

EntryOf(o, mtime) == [etag |-> o.data, lm |-> o.lm, mtime |-> mtime]
LocalUnchanged(f, e) == f.mtime = e.mtime
RemoteChanged(o, e) == o.data # e.etag \/ o.lm # e.lm

\* Caller t moves on to frame f.
Goto(t, f) == frame' = [frame EXCEPT ![t] = f] /\ UNCHANGED mu

\* Caller t unlocks and returns; the deferred Unlock runs on every path.
Return(t, result) ==
    /\ frame' = [frame EXCEPT ![t] = Rest(result)]
    /\ mu' = None

\* store.Save(entries) starts: os.WriteFile truncates state.json, to fill it in
\* a later step.  It may also fail before that.
StartSave(t, phase, entries) ==
    \/ /\ Goto(t, [Rest(phase) EXCEPT !.op = frame[t].op, !.next = entries])
       /\ disk' = [disk EXCEPT !.ok = FALSE]
    \/ Faults /\ Return(t, "failed") /\ UNCHANGED disk

\* Mutant: the entries prepared so far are saved with the error.
SavesPrepared(t) == StartSave(t, "mark", frame[t].next)

\* store.MarkError loads the manifest again and saves it with LastError set; if
\* it cannot be read now, an empty manifest takes its place.
MarkError(t) ==
    \/ StartSave(t, "mark", disk.entries)
    \/ /\ Unreadable
       /\ Goto(t, [Rest("mark") EXCEPT !.op = frame[t].op])
       /\ disk' = [disk EXCEPT !.ok = FALSE, !.pulled = FALSE, !.entries = Nothing]

-----------------------------------------------------------------------------
(* Initial state: any vault and any bucket, and no manifest yet. *)

Init ==
    LET first == CHOOSE s \in Stamps : TRUE
    IN  /\ local \in [Paths -> [data : Data, mtime : {first}] \cup {None}]
        /\ remote \in [Paths -> [data : Data, lm : {first}] \cup {None}]
        /\ disk = [ok |-> TRUE, pulled |-> FALSE, err |-> FALSE,
                   entries |-> Nothing]
        /\ mu = None
        /\ frame = [t \in Callers |-> Rest("ok")]

-----------------------------------------------------------------------------
(* Entering a call: Lock, then Load.  Nobody but the holder of s.mu writes *)
(* the manifest, so the two are one step; the directory names a walk reads *)
(* first are taken in the same step, since Load does not depend on them.   *)

\* Mutant: the lock is not waited for.
NotWaited(t, f) ==
    /\ ~Active(t) /\ disk.ok
    /\ mu' = t /\ frame' = [frame EXCEPT ![t] = f]
    /\ UNCHANGED <<local, remote, disk>>

\* Mutant: a manifest that cannot be loaded is taken for one without entries.
TakenForNew(t, f) ==
    /\ mu = None
    /\ ~Active(t)
    /\ mu' = t
    /\ frame' = [frame EXCEPT ![t] = IF disk.ok THEN f
                                     ELSE [f EXCEPT !.next = Nothing]]
    /\ UNCHANGED <<local, remote, disk>>

Locked(t, f) ==
    /\ mu = None
    /\ ~Active(t)
    /\ \/ /\ disk.ok
          /\ mu' = t /\ frame' = [frame EXCEPT ![t] = f]
       \/ /\ ~disk.ok \/ Unreadable
          /\ Return(t, "failed")
    /\ UNCHANGED <<local, remote, disk>>

EnsureFresh(t) ==
    Locked(t, [Rest("walk") EXCEPT !.op = "ensure", !.next = disk.entries,
                                   !.todo = Listed])
Pull(t) ==
    Locked(t, [Rest("list") EXCEPT !.op = "pull", !.next = disk.entries])

Push(t) ==
    Locked(t, [Rest("walk") EXCEPT !.op = "push", !.next = disk.entries,
                                   !.todo = Listed])

\* Second half of the walk: Info and Stat on every name read before.
\* IsMarkdownEmpty decides with LastPull whether EnsureFresh pulls; whether
\* the interval has elapsed is up to the clock.
Probe(t) ==
    /\ At(t, "walk") /\ frame[t].op = "ensure"
    /\ frame[t].todo \subseteq Present(local)
    /\ \/ /\ frame[t].todo = {} \/ PullAlways \/ disk.pulled
          /\ Goto(t, [frame[t] EXCEPT !.pc = "list", !.todo = {}])
       \/ /\ frame[t].todo # {} /\ ~PullAlways
          /\ Return(t, "ok")
    /\ UNCHANGED <<local, remote, disk>>

\* Mutant: only files without an entry are sent.
SendsUntracked(t) ==
    /\ At(t, "walk") /\ frame[t].op = "push"
    /\ frame[t].todo \subseteq Present(local)
    /\ LET f == frame[t]
       IN  Goto(t, [f EXCEPT !.pc = "put", !.todo = {p \in @ : f.next[p] = None},
                             !.infos = [p \in Paths |-> IF p \in f.todo
                                                        THEN local[p].mtime
                                                        ELSE None]])
    /\ UNCHANGED <<local, remote, disk>>

\* Mutant: only the files that will be sent are remembered as listed.
ListsChanged(t) ==
    /\ At(t, "walk") /\ frame[t].op = "push"
    /\ frame[t].todo \subseteq Present(local)
    /\ LET f == frame[t]
           changed == {p \in f.todo : \/ f.next[p] = None
                                      \/ ~LocalUnchanged(local[p], f.next[p])}
       IN  Goto(t, [f EXCEPT !.pc = "put", !.todo = changed,
                             !.infos = [p \in Paths |-> IF p \in changed
                                                        THEN local[p].mtime
                                                        ELSE None]])
    /\ UNCHANGED <<local, remote, disk>>

ListLocal(t) ==
    /\ At(t, "walk") /\ frame[t].op = "push"
    /\ frame[t].todo \subseteq Present(local)
    /\ LET f == frame[t]
           changed == {p \in f.todo : \/ f.next[p] = None
                                      \/ ~LocalUnchanged(local[p], f.next[p])}
       IN  Goto(t, [f EXCEPT !.pc = "put", !.todo = changed,
                             !.infos = [p \in Paths |-> IF p \in f.todo
                                                        THEN local[p].mtime
                                                        ELSE None]])
    /\ UNCHANGED <<local, remote, disk>>

-----------------------------------------------------------------------------
(* pullLocked *)

ListRemote(t) ==
    /\ At(t, "list")
    /\ Goto(t, [frame[t] EXCEPT !.pc = "stat", !.objs = remote,
                                !.todo = Present(remote)])
    /\ UNCHANGED <<local, remote, disk>>

\* Mutant: a tracked file is fetched again whether the object changed or not.
FetchesAgain(f, e, o) == f # None => e # None /\ LocalUnchanged(f, e)

\* Mutant: a tracked file that was edited is fetched as well.
FetchesOverEdit(f, e, o) == f # None => e # None /\ RemoteChanged(o, e)

\* os.Stat of the next object's file, and what the loop body makes of it.
WantsDownload(f, e, o) ==
    f # None => e # None /\ LocalUnchanged(f, e) /\ RemoteChanged(o, e)

Stat_Untracked(t) ==
    /\ At(t, "stat")
    /\ \E p \in frame[t].todo :
          /\ local[p] # None /\ frame[t].next[p] = None
          /\ Goto(t, [frame[t] EXCEPT !.todo = @ \ {p}])
    /\ UNCHANGED <<local, remote, disk>>

\* The entry is rewritten also when the file has an edit that was not pushed.
Stat_Keep(t) ==
    /\ At(t, "stat")
    /\ \E p \in frame[t].todo :
          LET f == frame[t] IN
          /\ local[p] # None /\ f.next[p] # None
          /\ ~WantsDownload(local[p], f.next[p], f.objs[p])
          /\ Goto(t, [f EXCEPT !.todo = @ \ {p},
                               !.next[p] = EntryOf(f.objs[p], local[p].mtime)])
    /\ UNCHANGED <<local, remote, disk>>

Stat_Download(t) ==
    /\ At(t, "stat")
    /\ \E p \in frame[t].todo :
          /\ WantsDownload(local[p], frame[t].next[p], frame[t].objs[p])
          /\ Goto(t, [frame[t] EXCEPT !.pc = "get", !.cur = p])
    /\ UNCHANGED <<local, remote, disk>>

\* GetObject, then CopyNote renames the finished temporary file over the note.
Download(t) ==
    /\ At(t, "get")
    /\ LET p == frame[t].cur IN
       /\ remote[p] # None
       /\ FileWritten(p, remote[p].data)
    /\ Goto(t, [frame[t] EXCEPT !.pc = "restat"])
    /\ UNCHANGED <<remote, disk>>

\* Stat again; the entry joins the listing's ETag with the file found now.
Restat(t) ==
    /\ At(t, "restat")
    /\ LET f == frame[t]
           p == f.cur
       IN  /\ local[p] # None
           /\ Goto(t, [f EXCEPT !.pc = "stat", !.cur = None, !.todo = @ \ {p},
                                !.next[p] = EntryOf(f.objs[p], local[p].mtime)])
    /\ UNCHANGED <<local, remote, disk>>

StatDone(t) ==
    /\ At(t, "stat") /\ frame[t].todo = {}
    /\ Goto(t, [frame[t] EXCEPT
                  !.pc = "gone",
                  !.todo = Present(frame[t].next) \ Present(frame[t].objs)])
    /\ UNCHANGED <<local, remote, disk>>

\* Entries whose object is gone: a file edited since is kept, the others go.
Gone_Keep(t) ==
    /\ At(t, "gone")
    /\ \E p \in frame[t].todo :
          /\ local[p] # None
          /\ ~LocalUnchanged(local[p], frame[t].next[p])
          /\ Goto(t, [frame[t] EXCEPT !.todo = @ \ {p}])
    /\ UNCHANGED <<local, remote, disk>>

\* Mutant: every entry whose object is gone goes, with its file.
RemovesEdited(t) ==
    /\ At(t, "gone")
    /\ \E p \in frame[t].todo :
          Goto(t, [frame[t] EXCEPT !.pc = "remove", !.cur = p])
    /\ UNCHANGED <<local, remote, disk>>

Gone_Remove(t) ==
    /\ At(t, "gone")
    /\ \E p \in frame[t].todo :
          /\ local[p] # None => LocalUnchanged(local[p], frame[t].next[p])
          /\ Goto(t, [frame[t] EXCEPT !.pc = "remove", !.cur = p])
    /\ UNCHANGED <<local, remote, disk>>

Remove(t) ==
    /\ At(t, "remove")
    /\ LET p == frame[t].cur IN
       /\ local' = [local EXCEPT ![p] = None]
       /\ Goto(t, [frame[t] EXCEPT !.pc = "gone", !.cur = None,
                                   !.todo = @ \ {p}, !.next[p] = None])
    /\ UNCHANGED <<remote, disk>>

GoneDone(t) ==
    /\ At(t, "gone") /\ frame[t].todo = {}
    /\ StartSave(t, "save", frame[t].next)
    /\ UNCHANGED <<local, remote>>

-----------------------------------------------------------------------------
(* pushLocked *)

\* upload: the file is opened and sent as it is now, not as it was listed.
PutObject(t) ==
    /\ At(t, "put")
    /\ \E p \in frame[t].todo :
          /\ local[p] # None
          /\ ObjectWritten(p, local[p].data)
          /\ Goto(t, [frame[t] EXCEPT !.pc = "head", !.cur = p])
    /\ UNCHANGED <<local, disk>>

\* Mutant: the entry keeps the file time of the entry before, if any.
ForgetsTime(t) ==
    /\ At(t, "head")
    /\ LET f == frame[t]
           p == f.cur
       IN  /\ remote[p] # None
           /\ Goto(t, [f EXCEPT !.pc = "put", !.cur = None, !.todo = @ \ {p},
                         !.next[p] = EntryOf(remote[p],
                                             IF @ = None THEN None ELSE @.mtime)])
    /\ UNCHANGED <<local, remote, disk>>

\* Mutant: the entry joins the object with the time the file has now.
RecordsNow(t) ==
    /\ At(t, "head")
    /\ LET f == frame[t]
           p == f.cur
       IN  /\ remote[p] # None
           /\ Goto(t, [f EXCEPT !.pc = "put", !.cur = None, !.todo = @ \ {p},
                         !.next[p] = EntryOf(remote[p],
                                             IF local[p] = None THEN f.infos[p]
                                             ELSE local[p].mtime)])
    /\ UNCHANGED <<local, remote, disk>>

\* head: the entry joins the object found now with the file listed before.
HeadObject(t) ==
    /\ At(t, "head")
    /\ LET f == frame[t]
           p == f.cur
       IN  /\ remote[p] # None
           /\ Goto(t, [f EXCEPT !.pc = "put", !.cur = None, !.todo = @ \ {p},
                                !.next[p] = EntryOf(remote[p], f.infos[p])])
    /\ UNCHANGED <<local, remote, disk>>

PutDone(t) ==
    /\ At(t, "put") /\ frame[t].todo = {}
    /\ LET f == frame[t] IN
       IF DeleteRemote
       THEN /\ Goto(t, [f EXCEPT !.pc = "purge",
                                 !.todo = Present(f.next) \ Present(f.infos)])
            /\ UNCHANGED disk
       ELSE StartSave(t, "save", f.next)
    /\ UNCHANGED <<local, remote>>

DeleteObject(t) ==
    /\ At(t, "purge")
    /\ \E p \in frame[t].todo :
          /\ remote' = [remote EXCEPT ![p] = None]
          /\ Goto(t, [frame[t] EXCEPT !.todo = @ \ {p}, !.next[p] = None])
    /\ UNCHANGED <<local, disk>>

PurgeDone(t) ==
    /\ At(t, "purge") /\ frame[t].todo = {}
    /\ StartSave(t, "save", frame[t].next)
    /\ UNCHANGED <<local, remote>>

-----------------------------------------------------------------------------
(* The second half of store.Save *)

\* The end of a pull or push that went through: it clears LastError.
Save(t) ==
    /\ At(t, "save")
    /\ disk' = [ok |-> TRUE, err |-> FALSE, entries |-> frame[t].next,
                pulled |-> disk.pulled \/ frame[t].op # "push"]
    /\ Return(t, "ok")
    /\ UNCHANGED <<local, remote>>

\* The end of one that failed.
SaveMark(t) ==
    /\ At(t, "mark")
    /\ disk' = [disk EXCEPT !.ok = TRUE, !.err = TRUE, !.entries = frame[t].next]
    /\ Return(t, "failed")
    /\ UNCHANGED <<local, remote>>

-----------------------------------------------------------------------------
(* Failures *)

\* A file or object that was there in an earlier step is missing now.
Missing(t) ==
    \/ /\ At(t, "walk") /\ frame[t].op = "push"
       /\ ~(frame[t].todo \subseteq Present(local))
    \/ At(t, "get") /\ remote[frame[t].cur] = None
    \/ At(t, "restat") /\ local[frame[t].cur] = None
    \/ At(t, "put") /\ \E p \in frame[t].todo : local[p] = None
    \/ At(t, "head") /\ remote[frame[t].cur] = None

\* The call in progress fails without effect.
CallFails(t) ==
    /\ \/ Missing(t)
       \/ /\ Faults
          /\ \/ frame[t].pc \in {"list", "get", "restat", "remove", "head"}
             \/ frame[t].pc \in {"stat", "gone", "put", "purge"}
                   /\ frame[t].todo # {}
             \/ At(t, "walk") /\ frame[t].op = "push"
    /\ MarkError(t)
    /\ UNCHANGED <<local, remote>>

\* A PutObject or DeleteObject takes effect, and its answer is lost.
AnswerLost(t) ==
    /\ Faults
    /\ \E p \in frame[t].todo :
          \/ At(t, "put") /\ local[p] # None /\ ObjectWritten(p, local[p].data)
          \/ At(t, "purge") /\ remote' = [remote EXCEPT ![p] = None]
    /\ MarkError(t)
    /\ UNCHANGED local

\* Mutant: a failed walk returns without the unlock.
KeepsLock(t) ==
    /\ At(t, "walk") /\ frame[t].op = "ensure"
    /\ Faults \/ ~(frame[t].todo \subseteq Present(local))
    /\ Goto(t, Rest("failed"))
    /\ UNCHANGED <<local, remote, disk>>

\* EnsureFresh returns a failed walk as it is; nothing is recorded.
WalkFails(t) ==
    /\ At(t, "walk") /\ frame[t].op = "ensure"
    /\ Faults \/ ~(frame[t].todo \subseteq Present(local))
    /\ Return(t, "failed")
    /\ UNCHANGED <<local, remote, disk>>

\* The write fails: the file stays truncated.
SaveFails(t) ==
    /\ Faults
    /\ frame[t].pc \in SavePhases
    /\ Return(t, "failed")
    /\ UNCHANGED <<local, remote, disk>>

\* The process dies and starts again, inside a call or not: what was in memory
\* is gone.
Crash ==
    /\ mu' = None
    /\ frame' = [t \in Callers |-> Rest("ok")]
    /\ UNCHANGED <<local, remote, disk>>

-----------------------------------------------------------------------------
(* The environment *)

Allowed(when) == when = "any time" \/ (when = "between calls" /\ mu = None)

\* A tool handler renames a finished file over the note (vault.atomicWrite).
WriteNote(p, d) ==
    /\ Allowed(VaultWrites)
    /\ FileWritten(p, d)
    /\ UNCHANGED <<remote, disk, mu, frame>>

\* A tool handler removes the note (vault.Delete).
DeleteNote(p) ==
    /\ Allowed(VaultWrites)
    /\ local[p] # None
    /\ local' = [local EXCEPT ![p] = None]
    /\ UNCHANGED <<remote, disk, mu, frame>>

\* Other programs may be held to objects that the server does not track, and to the
\* times between calls: they may add notes to the bucket, but edit none.
ForeignAllowed(p) ==
    \/ Allowed(BucketWrites)
    \/ BucketWrites = "untracked" /\ mu = None /\ disk.entries[p] = None

\* Another program writes or deletes an object.
ForeignPut(p, d) ==
    /\ ForeignAllowed(p)
    /\ ObjectWritten(p, d)
    /\ UNCHANGED <<local, disk, mu, frame>>

ForeignDelete(p) ==
    /\ ForeignAllowed(p)
    /\ remote[p] # None
    /\ remote' = [remote EXCEPT ![p] = None]
    /\ UNCHANGED <<local, disk, mu, frame>>

-----------------------------------------------------------------------------
(* Specification *)

Call(t) == EnsureFresh(t) \/ Pull(t) \/ Push(t)

PullStep(t) ==
    \/ ListRemote(t)
    \/ Stat_Untracked(t) \/ Stat_Keep(t) \/ Stat_Download(t) \/ StatDone(t)
    \/ Download(t) \/ Restat(t)
    \/ Gone_Keep(t) \/ Gone_Remove(t) \/ GoneDone(t) \/ Remove(t)

PushStep(t) ==
    \/ PutObject(t) \/ HeadObject(t) \/ PutDone(t)
    \/ DeleteObject(t) \/ PurgeDone(t)

FailStep(t) == CallFails(t) \/ AnswerLost(t) \/ WalkFails(t) \/ SaveFails(t)

\* A step of the call t is in.
Step(t) ==
    \/ Probe(t) \/ ListLocal(t)
    \/ PullStep(t) \/ PushStep(t)
    \/ Save(t) \/ SaveMark(t)
    \/ FailStep(t)

Environment ==
    \E p \in Paths :
        \/ \E d \in Data : WriteNote(p, d) \/ ForeignPut(p, d)
        \/ DeleteNote(p) \/ ForeignDelete(p)

Next ==
    \/ \E t \in Callers : Call(t) \/ Step(t)
    \/ Crash
    \/ Environment

Spec == Init /\ [][Next]_vars

-----------------------------------------------------------------------------
(* Properties *)

\* Syncer.mu: only its holder is inside a call.
MutualExclusion == \A t \in Callers : Active(t) <=> mu = t

\* No update of the manifest is lost between two calls: what a call is going
\* to save differs from the manifest on disk only on paths the call has
\* itself handled (s.mu is held from Load to Save).
NoLostUpdate ==
    \A t \in Callers :
        LET f == frame[t] IN
        /\ f.pc \in {"walk", "list", "mark"} => f.next = disk.entries
        /\ f.pc \in PullPhases \cup PushPhases =>
              \A p \in f.todo : f.next[p] = disk.entries[p]

\* The current step is one of caller t: no other step changes its frame, but
\* for a crash, which changes neither vault nor bucket.
Moves(t) == frame'[t] # frame[t]

\* What a call that fails leaves behind.  The entries it goes on to save with
\* LastError are those of the manifest as it was, however far the call had come,
\* or none if state.json could not be read; and a manifest that can be read when
\* the call has failed has these entries, or the ones it had.  (When the save
\* itself fails, state.json stays cut short and has no entries at all:
\* CutShortStops says what follows.)
FailureKeepsEntries ==
    [][\A t \in Callers :
          /\ Active(t) /\ Moves(t) /\ frame'[t].pc = "mark" =>
                \/ disk.ok /\ frame'[t].next = disk.entries
                \/ Unreadable /\ frame'[t].next = Nothing
          /\ Active(t) /\ frame'[t].pc = "failed" /\ disk'.ok =>
                disk'.entries = IF At(t, "mark") THEN frame[t].next ELSE disk.entries
      ]_vars

\* While state.json is cut short, by a save that is going on, that failed or that
\* a crash interrupted, no call touches a file or an object: it is not taken for a
\* manifest without entries, which would fetch and send everything again.
CutShortStops ==
    [][\A t \in Callers :
          Moves(t) /\ ~disk.ok => UNCHANGED <<local, remote>>
      ]_vars

\* The file on p, the entry for p and the object on p agree.
InSync(p) ==
    /\ local[p] # None /\ remote[p] # None /\ disk.entries[p] # None
    /\ LocalUnchanged(local[p], disk.entries[p])
    /\ ~RemoteChanged(remote[p], disk.entries[p])

\* No call touches the file or the object of a path that is in sync, whatever
\* happened to it between the listing and the transfer.
InSyncLeftAlone ==
    [][\A t \in Callers, p \in Paths \ Hidden :
          Moves(t) /\ InSync(p) => local'[p] = local[p] /\ remote'[p] = remote[p]
      ]_vars

\* A call replaces or removes a file only if the manifest on disk has it as
\* synchronised: an edited or untracked note survives every pull.
OnlyCleanOverwritten ==
    [][\A t \in Callers, p \in Paths :
          Moves(t) /\ local[p] # None /\ local'[p] # local[p] =>
              /\ disk.entries[p] # None
              /\ LocalUnchanged(local[p], disk.entries[p])
      ]_vars

\* While other programs may add notes to the bucket but leave those alone that the
\* server tracks, no call replaces or removes a note the vault lists, through
\* failures, lost answers and crashes: what a pull finds on the path of such a note
\* is older than the vault, or the same, or not adopted.
VaultIsTruth ==
    [][\A t \in Callers, p \in Paths \ Hidden :
          Moves(t) /\ local[p] # None => local'[p] = local[p]
      ]_vars

\* A push that succeeds leaves every listed note with the same content in the
\* vault and in the bucket, while nobody else writes to the bucket: an edit whose
\* push failed before is not forgotten.
PushMirrors ==
    [][\A t \in Callers, p \in Listed :
          At(t, "save") /\ frame[t].op = "push" /\ disk'.ok =>
              remote[p] # None /\ remote[p].data = local[p].data
      ]_vars

\* A call deletes an object only if the note is gone from the vault.
PurgeFollowsDelete ==
    [][\A t \in Callers, p \in Paths :
          Moves(t) /\ remote[p] # None /\ remote'[p] = None => local[p] = None
      ]_vars

=============================================================================
