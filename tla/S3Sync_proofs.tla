--------------------------- MODULE S3Sync_proofs ---------------------------
(***************************************************************************)
(* Theorems about the synchroniser, for every set of paths, contents,      *)
(* stamps and callers.  The inductive invariant says what the frame of a   *)
(* call knows at each phase; a caller that is in no call knows nothing, so *)
(* under mutual exclusion a step only has to re-establish its own frame.   *)
(***************************************************************************)
EXTENDS S3Sync, TLAPS

GlobalsOK ==
    /\ local \in [Paths -> File \cup {None}]
    /\ remote \in [Paths -> Object \cup {None}]
    /\ disk \in Manifest
    /\ mu \in Callers \cup {None}

\* What the loops of a call have collected is there for the paths they have
\* still to visit, and the path in the loop body is one of these.
LoopOK(f) ==
    /\ f.pc \in {"stat", "get", "restat"} => f.todo \subseteq Present(f.objs)
    /\ f.pc \in {"gone", "remove"} => f.todo \subseteq Present(f.next)
    /\ f.pc \in {"put", "head"} => f.todo \subseteq Present(f.infos)
    /\ f.pc \in {"get", "restat", "remove", "head"} => f.cur \in f.todo

\* The entries in memory are those on disk, but for the paths handled.
EntriesOK(f, entries) ==
    /\ f.pc \in {"walk", "list", "mark"} => f.next = entries
    /\ f.pc \in {"stat", "get", "restat"} =>
          \A p \in Paths : p \in f.todo \/ f.objs[p] = None => f.next[p] = entries[p]
    /\ f.pc \in {"put", "head"} =>
          \A p \in Paths : p \in f.todo \/ f.infos[p] = None => f.next[p] = entries[p]
    /\ f.pc \in {"gone", "remove", "purge"} =>
          \A p \in f.todo : f.next[p] = entries[p]

FrameOK(f, entries) == f \in Frame /\ LoopOK(f) /\ EntriesOK(f, entries)

\* The inductive invariant.
IInv ==
    /\ GlobalsOK
    /\ MutualExclusion
    /\ \A t \in Callers : FrameOK(frame[t], disk.entries)
    /\ frame \in [Callers -> Frame]

-----------------------------------------------------------------------------
(* Frames *)

\* The frame of a caller at rest, or that starts a call, is a frame.
LEMMA RestFrame ==
    ASSUME NEW r \in Phases
    PROVE  /\ Rest(r) \in Frame
           /\ Rest(r).pc = r /\ Rest(r).op = "pull"
           /\ Rest(r).next = Nothing /\ Rest(r).objs = Nothing
           /\ Rest(r).infos = Nothing /\ Rest(r).todo = {} /\ Rest(r).cur = None
    BY DEF Rest, Frame, Nothing, Entries

\* A caller at rest satisfies FrameOK whatever the manifest holds.
LEMMA RestingFrame ==
    ASSUME NEW f \in Frame, f.pc \in Resting, NEW entries
    PROVE  FrameOK(f, entries)
    BY DEF FrameOK, LoopOK, EntriesOK, Resting, PullPhases, PushPhases

\* Under mutual exclusion everybody but the holder of s.mu is at rest.
LEMMA OthersRest ==
    ASSUME IInv, NEW t \in Callers, Active(t) \/ mu = None,
           NEW u \in Callers, u # t
    PROVE  frame[u].pc \in Resting
    BY NoneAssumption DEF IInv, MutualExclusion, Active

\* A step of the call of t that stays inside the call.
LEMMA Continue ==
    ASSUME IInv, NEW t \in Callers, Active(t),
           NEW f, Goto(t, f), f.pc \notin Resting,
           GlobalsOK', FrameOK(f, disk'.entries)
    PROVE  IInv'
<1>1. f \in Frame
  BY DEF FrameOK
<1>2. frame' = [frame EXCEPT ![t] = f] /\ mu' = mu
  BY DEF Goto
<1>3. frame' \in [Callers -> Frame]
  BY <1>1, <1>2 DEF IInv
<1>4. frame'[t] = f /\ \A u \in Callers \ {t} : frame'[u] = frame[u]
  BY <1>2 DEF IInv
<1>5. MutualExclusion'
  BY <1>2, <1>4 DEF IInv, MutualExclusion, Active
<1>6. \A u \in Callers : FrameOK(frame'[u], disk'.entries)
  <2>1. TAKE u \in Callers
  <2>2. CASE u = t
    BY <2>2, <1>4
  <2>3. CASE u # t
    <3>1. frame[u].pc \in Resting /\ frame[u] \in Frame
      BY <2>3, OthersRest DEF IInv
    <3>2. QED
      BY <3>1, <1>4, <2>3, RestingFrame
  <2>4. QED
    BY <2>2, <2>3
<1>7. QED
  BY <1>3, <1>5, <1>6 DEF IInv

\* A step that ends the call of t, or a call that fails at once.
LEMMA Leave ==
    ASSUME IInv, NEW t \in Callers, Active(t) \/ mu = None,
           NEW r \in Resting, Return(t, r),
           local' \in [Paths -> File \cup {None}],
           remote' \in [Paths -> Object \cup {None}],
           disk' \in Manifest
    PROVE  IInv'
<1>1. Rest(r) \in Frame /\ Rest(r).pc = r
  BY RestFrame DEF Resting, Phases
<1>2. frame' = [frame EXCEPT ![t] = Rest(r)] /\ mu' = None
  BY DEF Return
<1>3. frame' \in [Callers -> Frame]
  BY <1>1, <1>2 DEF IInv
<1>4. \A u \in Callers : frame'[u].pc \in Resting
  BY <1>1, <1>2, OthersRest DEF IInv
<1>5. MutualExclusion'
  BY <1>2, <1>4, NoneAssumption DEF MutualExclusion, Active
<1>6. \A u \in Callers : FrameOK(frame'[u], disk'.entries)
  BY <1>3, <1>4, RestingFrame
<1>7. QED
  BY <1>2, <1>3, <1>5, <1>6 DEF IInv, GlobalsOK

\* Saving starts: the file is truncated, or the call fails before that.
LEMMA SaveStarts ==
    ASSUME IInv, NEW t \in Callers, Active(t),
           NEW phase \in SavePhases, NEW entries \in Entries,
           phase = "mark" => entries = disk.entries,
           StartSave(t, phase, entries),
           local' \in [Paths -> File \cup {None}],
           remote' \in [Paths -> Object \cup {None}]
    PROVE  IInv'
<1> DEFINE f == [Rest(phase) EXCEPT !.op = frame[t].op, !.next = entries]
<1>1. disk \in Manifest /\ mu \in Callers \cup {None} /\ frame[t] \in Frame
  BY DEF IInv, GlobalsOK
<1>2. phase \in Phases /\ phase \notin Resting
  BY DEF SavePhases, Phases, Resting
<1>3. CASE Goto(t, f) /\ disk' = [disk EXCEPT !.ok = FALSE]
  <2>1. disk' \in Manifest /\ disk'.entries = disk.entries
    BY <1>1, <1>3 DEF Manifest
  <2>2. f \in Frame /\ f.pc = phase /\ f.next = entries
    BY <1>1, <1>2 DEF Rest, Frame, Nothing, Entries
  <2>3. FrameOK(f, disk'.entries)
    BY <2>1, <2>2 DEF FrameOK, LoopOK, EntriesOK, SavePhases, PullPhases, PushPhases
  <2>4. GlobalsOK'
    BY <1>1, <1>3, <2>1 DEF GlobalsOK, Goto
  <2> HIDE DEF f
  <2>5. QED
    BY <1>2, <1>3, <2>2, <2>3, <2>4, Continue
<1>4. CASE Return(t, "failed") /\ UNCHANGED disk
  BY <1>1, <1>4, Leave DEF Resting
<1>5. QED
  BY <1>3, <1>4 DEF StartSave

\* Recording an error, whether the manifest can be loaded again or not.
LEMMA MarkStarts ==
    ASSUME IInv, NEW t \in Callers, Active(t), MarkError(t),
           local' \in [Paths -> File \cup {None}],
           remote' \in [Paths -> Object \cup {None}]
    PROVE  IInv'
<1> DEFINE f == [Rest("mark") EXCEPT !.op = frame[t].op]
<1>1. disk \in Manifest /\ mu \in Callers \cup {None} /\ frame[t] \in Frame
  BY DEF IInv, GlobalsOK
<1>2. disk.entries \in Entries
  BY <1>1 DEF Manifest
<1>3. CASE StartSave(t, "mark", disk.entries)
  BY <1>2, <1>3, SaveStarts DEF SavePhases
<1>4. CASE /\ Goto(t, f)
           /\ disk' = [disk EXCEPT !.ok = FALSE, !.pulled = FALSE,
                                   !.entries = Nothing]
  <2>1. disk' \in Manifest /\ disk'.entries = Nothing
    BY <1>1, <1>4 DEF Manifest, Entries, Nothing
  <2>2. f \in Frame /\ f.pc = "mark" /\ f.next = Nothing
    BY <1>1 DEF Rest, Frame, Nothing, Entries, Phases, SavePhases
  <2>3. FrameOK(f, disk'.entries)
    BY <2>1, <2>2 DEF FrameOK, LoopOK, EntriesOK, PullPhases, PushPhases
  <2>4. GlobalsOK'
    BY <1>1, <1>4, <2>1 DEF GlobalsOK, Goto
  <2> HIDE DEF f
  <2>5. f.pc \notin Resting
    BY <2>2 DEF Resting
  <2>6. QED
    BY <1>4, <2>3, <2>4, <2>5, Continue
<1>5. QED
  BY <1>3, <1>4 DEF MarkError

-----------------------------------------------------------------------------
(* Entries and stamps *)

\* A stamp taken for a write is a stamp, and nobody refers to it.
LEMMA FreshStamp ==
    ASSUME NEW used, NEW s \in Unused(used)
    PROVE  s \in Stamps /\ s \notin used
<1> DEFINE free == Stamps \ used
<1>1. free # {} /\ s = CHOOSE x \in free : TRUE
  BY DEF Unused
<1>2. s \in free
  BY <1>1
<1>3. QED
  BY <1>2

\* A written file is a file, and a written object an object.
LEMMA WrittenType ==
    ASSUME NEW p \in Paths, NEW d \in Data
    PROVE  /\ local \in [Paths -> File \cup {None}] /\ FileWritten(p, d) =>
                 local' \in [Paths -> File \cup {None}]
           /\ remote \in [Paths -> Object \cup {None}] /\ ObjectWritten(p, d) =>
                 remote' \in [Paths -> Object \cup {None}]
<1>1. ASSUME local \in [Paths -> File \cup {None}], FileWritten(p, d)
      PROVE  local' \in [Paths -> File \cup {None}]
  <2>1. PICK s \in Unused(MtimesInUse(p)) :
           local' = [local EXCEPT ![p] = [data |-> d, mtime |-> s]]
    BY <1>1 DEF FileWritten
  <2>2. s \in Stamps
    BY FreshStamp
  <2>3. QED
    BY <1>1, <2>1, <2>2 DEF File
<1>2. ASSUME remote \in [Paths -> Object \cup {None}], ObjectWritten(p, d)
      PROVE  remote' \in [Paths -> Object \cup {None}]
  <2>1. PICK s \in Unused(LmsInUse(p)) :
           remote' = [remote EXCEPT ![p] = [data |-> d, lm |-> s]]
    BY <1>2 DEF ObjectWritten
  <2>2. s \in Stamps
    BY FreshStamp
  <2>3. QED
    BY <1>2, <2>1, <2>2 DEF Object
<1>3. QED
  BY <1>1, <1>2

\* Joining an object with a file time makes an entry.
LEMMA EntryType ==
    ASSUME NEW o \in Object, NEW m \in Stamps
    PROVE  EntryOf(o, m) \in Entry
    BY DEF EntryOf, Object, Entry

-----------------------------------------------------------------------------
(* Entering a call *)

\* Taking the lock and loading the manifest, or failing to load it.
LEMMA LockedPreserves ==
    ASSUME IInv, NEW t \in Callers, NEW f \in Frame,
           f.pc \in {"walk", "list"}, f.next = disk.entries, Locked(t, f)
    PROVE  IInv'
<1>1. mu = None /\ ~Active(t) /\ UNCHANGED <<local, remote, disk>>
  BY DEF Locked
<1>2. CASE mu' = t /\ frame' = [frame EXCEPT ![t] = f]
  <2>1. FrameOK(f, disk'.entries)
    BY <1>1 DEF FrameOK, LoopOK, EntriesOK, PullPhases, PushPhases
  <2>2. /\ frame' \in [Callers -> Frame]
        /\ frame'[t] = f /\ \A u \in Callers \ {t} : frame'[u] = frame[u]
    BY <1>2 DEF IInv
  <2>3. \A u \in Callers \ {t} : frame'[u].pc \in Resting
    BY <1>1, <2>2, OthersRest
  <2>4. MutualExclusion'
    BY <1>2, <2>2, <2>3 DEF MutualExclusion, Active, Resting
  <2>5. \A u \in Callers : FrameOK(frame'[u], disk'.entries)
    BY <2>1, <2>2, <2>3, RestingFrame
  <2>6. GlobalsOK'
    BY <1>1, <1>2 DEF IInv, GlobalsOK
  <2>7. QED
    BY <2>2, <2>4, <2>5, <2>6 DEF IInv
<1>3. CASE Return(t, "failed")
  BY <1>1, <1>3, Leave DEF Resting, IInv, GlobalsOK
<1>4. QED
  BY <1>2, <1>3 DEF Locked

\* Entering EnsureFresh, Pull or Push.
LEMMA CallPreserves ==
    ASSUME IInv, NEW t \in Callers, Call(t)
    PROVE  IInv'
<1>1. disk.entries \in Entries /\ Listed \subseteq Paths
  BY DEF IInv, GlobalsOK, Manifest, Listed, Present
<1>2. CASE EnsureFresh(t)
  <2> DEFINE f == [Rest("walk") EXCEPT !.op = "ensure", !.next = disk.entries,
                                       !.todo = Listed]
  <2>1. f \in Frame /\ f.pc = "walk" /\ f.next = disk.entries
    BY <1>1 DEF Rest, Frame, Nothing, Phases, Entries
  <2>2. Locked(t, f)
    BY <1>2 DEF EnsureFresh
  <2> HIDE DEF f
  <2>3. QED
    BY <2>1, <2>2, LockedPreserves
<1>3. CASE Pull(t)
  <2> DEFINE f == [Rest("list") EXCEPT !.op = "pull", !.next = disk.entries]
  <2>1. f \in Frame /\ f.pc = "list" /\ f.next = disk.entries
    BY <1>1 DEF Rest, Frame, Nothing, Phases, PullPhases, Entries
  <2>2. Locked(t, f)
    BY <1>3 DEF Pull
  <2> HIDE DEF f
  <2>3. QED
    BY <2>1, <2>2, LockedPreserves
<1>4. CASE Push(t)
  <2> DEFINE f == [Rest("walk") EXCEPT !.op = "push", !.next = disk.entries,
                                       !.todo = Listed]
  <2>1. f \in Frame /\ f.pc = "walk" /\ f.next = disk.entries
    BY <1>1 DEF Rest, Frame, Nothing, Phases, Entries
  <2>2. Locked(t, f)
    BY <1>4 DEF Push
  <2> HIDE DEF f
  <2>3. QED
    BY <2>1, <2>2, LockedPreserves
<1>5. QED
  BY <1>2, <1>3, <1>4 DEF Call

\* The walk over the vault in IsMarkdownEmpty and localMarkdown.
LEMMA WalkPreserves ==
    ASSUME IInv, NEW t \in Callers, Probe(t) \/ ListLocal(t) \/ WalkFails(t)
    PROVE  IInv'
<1>1. /\ frame[t] \in Frame /\ At(t, "walk") /\ Active(t)
      /\ frame[t].next = disk.entries
      /\ local \in [Paths -> File \cup {None}]
      /\ GlobalsOK
  BY DEF IInv, GlobalsOK, FrameOK, EntriesOK, Probe, ListLocal, WalkFails, At,
         Active, Resting
<1>2. UNCHANGED <<local, remote, disk>>
  BY DEF Probe, ListLocal, WalkFails
<1>3. CASE Goto(t, [frame[t] EXCEPT !.pc = "list", !.todo = {}])
  <2> DEFINE f == [frame[t] EXCEPT !.pc = "list", !.todo = {}]
  <2>1. f \in Frame /\ f.pc = "list" /\ f.todo = {} /\ f.next = disk.entries
    BY <1>1 DEF Frame, Phases, PullPhases
  <2>2. FrameOK(f, disk'.entries) /\ f.pc \notin Resting
    BY <1>2, <2>1 DEF FrameOK, LoopOK, EntriesOK, Resting
  <2>3. GlobalsOK'
    BY <1>1, <1>2, <1>3 DEF GlobalsOK, Goto
  <2> HIDE DEF f
  <2>4. QED
    BY <1>1, <1>3, <2>2, <2>3, Continue DEF f
<1>4. CASE ListLocal(t)
  <2> DEFINE g == frame[t]
             changed == {p \in g.todo : \/ g.next[p] = None
                                        \/ ~LocalUnchanged(local[p], g.next[p])}
             infos == [p \in Paths |-> IF p \in g.todo THEN local[p].mtime ELSE None]
             f == [g EXCEPT !.pc = "put", !.todo = changed, !.infos = infos]
  <2>1. g.todo \subseteq Paths /\ g.todo \subseteq Present(local)
    BY <1>1, <1>4 DEF Frame, ListLocal
  <2>2. \A p \in g.todo : local[p].mtime \in Stamps
    BY <1>1, <2>1 DEF Present, File
  <2>3. infos \in [Paths -> Stamps \cup {None}] /\ changed \in SUBSET Paths
    BY <2>1, <2>2
  <2>4. changed \subseteq Present(infos)
    BY <2>1, <2>2, NoneAssumption DEF Present
  <2>5. g \in Frame /\ g.next = disk.entries
    BY <1>1
  <2>6. Goto(t, f)
    BY <1>4 DEF ListLocal
  <2> HIDE DEF infos, changed, g
  <2>7. /\ f \in Frame /\ f.pc = "put" /\ f.todo = changed /\ f.infos = infos
        /\ f.next = disk.entries
    BY <2>3, <2>5 DEF Frame, Phases, PushPhases
  <2> HIDE DEF f
  <2>8. FrameOK(f, disk'.entries) /\ f.pc \notin Resting
    BY <1>2, <2>4, <2>7 DEF FrameOK, LoopOK, EntriesOK, Resting
  <2>9. GlobalsOK'
    BY <1>1, <1>2, <2>6 DEF GlobalsOK, Goto
  <2>10. QED
    BY <1>1, <2>6, <2>8, <2>9, Continue
<1>5. ASSUME NEW r \in {"ok", "failed"}, Return(t, r) PROVE IInv'
  BY <1>1, <1>2, <1>5, Leave DEF Resting, GlobalsOK
<1>6. QED
  BY <1>3, <1>4, <1>5 DEF Probe, WalkFails

-----------------------------------------------------------------------------
(* pullLocked *)

\* What every step inside a call starts from.
LEMMA InsideCall ==
    ASSUME IInv, NEW t \in Callers, Active(t)
    PROVE  /\ frame[t] \in Frame
           /\ LoopOK(frame[t]) /\ EntriesOK(frame[t], disk.entries)
           /\ local \in [Paths -> File \cup {None}]
           /\ remote \in [Paths -> Object \cup {None}]
           /\ disk \in Manifest /\ mu \in Callers \cup {None}
    BY DEF IInv, GlobalsOK, FrameOK

\* The listing of the bucket and the Stat of each object's file.
LEMMA StatPreserves ==
    ASSUME IInv, NEW t \in Callers,
           \/ ListRemote(t) \/ Stat_Untracked(t) \/ Stat_Keep(t)
           \/ Stat_Download(t) \/ StatDone(t)
    PROVE  IInv'
<1>1. Active(t) /\ UNCHANGED <<local, remote, disk>>
  BY DEF Active, Resting, At, ListRemote, Stat_Untracked, Stat_Keep,
         Stat_Download, StatDone
<1> DEFINE f == frame[t]
<1>2. /\ f \in Frame /\ LoopOK(f) /\ EntriesOK(f, disk.entries)
      /\ remote \in [Paths -> Object \cup {None}]
      /\ local \in [Paths -> File \cup {None}]
  BY <1>1, InsideCall
<1>3. GlobalsOK' <=> mu' \in Callers \cup {None}
  BY <1>1 DEF GlobalsOK, IInv
\* It is enough that the new frame is one a pull may be in.
<1>4. SUFFICES ASSUME NEW n, Goto(t, n)
               PROVE  /\ n \in Frame /\ n.pc \in {"stat", "get", "gone"}
                      /\ LoopOK(n) /\ EntriesOK(n, disk.entries)
  <2>1. PICK n : Goto(t, n)
    BY DEF ListRemote, Stat_Untracked, Stat_Keep, Stat_Download, StatDone
  <2>2. mu' \in Callers \cup {None}
    BY <2>1 DEF Goto, IInv, GlobalsOK
  <2>3. FrameOK(n, disk'.entries) /\ n.pc \notin Resting
    BY <1>1, <1>4, <2>1 DEF FrameOK, Resting
  <2>4. QED
    BY <1>1, <1>3, <2>1, <2>2, <2>3, Continue
<1>5. n = frame'[t]
  BY <1>4 DEF Goto, IInv
<1>6. CASE ListRemote(t)
  <2>1. n = [f EXCEPT !.pc = "stat", !.objs = remote, !.todo = Present(remote)]
    BY <1>5, <1>6 DEF ListRemote, Goto, IInv
  <2>2. Present(remote) \in SUBSET Paths /\ f.next = disk.entries
    BY <1>2, <1>6 DEF Present, EntriesOK, ListRemote, At
  <2>3. /\ n \in Frame /\ n.pc = "stat" /\ n.todo = Present(n.objs)
        /\ n.next = disk.entries
    BY <1>2, <2>1, <2>2 DEF Frame, Phases, PullPhases
  <2>4. QED
    BY <2>3 DEF LoopOK, EntriesOK
<1>7. CASE Stat_Untracked(t)
  <2>1. PICK p \in f.todo : n = [f EXCEPT !.todo = @ \ {p}]
    BY <1>5, <1>7 DEF Stat_Untracked, Goto, IInv
  <2>2. /\ n \in Frame /\ n.pc = "stat" /\ n.todo \subseteq f.todo
        /\ n.next = f.next /\ n.objs = f.objs
    BY <1>2, <1>7, <2>1 DEF Frame, Stat_Untracked, At
  <2>3. QED
    BY <1>2, <1>7, <2>2 DEF LoopOK, EntriesOK, PullPhases, Stat_Untracked, At
<1>8. CASE Stat_Keep(t)
  <2>1. PICK p \in f.todo :
           /\ local[p] # None
           /\ n = [f EXCEPT !.todo = @ \ {p},
                            !.next[p] = EntryOf(f.objs[p], local[p].mtime)]
    BY <1>5, <1>8 DEF Stat_Keep, Goto, IInv
  <2>2. /\ p \in Paths /\ f.objs[p] \in Object /\ local[p].mtime \in Stamps
        /\ f.objs[p] # None
    BY <1>2, <1>8, <2>1 DEF Frame, LoopOK, Present, File, Stat_Keep, At
  <2>3. EntryOf(f.objs[p], local[p].mtime) \in Entry
    BY <2>2, EntryType
  <2>4. /\ n \in Frame /\ n.pc = "stat" /\ n.todo = f.todo \ {p}
        /\ \A q \in Paths \ {p} : n.next[q] = f.next[q]
        /\ n.objs = f.objs
    BY <1>2, <1>8, <2>1, <2>2, <2>3 DEF Frame, Entries, Stat_Keep, At
  <2>5. f.todo \subseteq Paths
    BY <1>2 DEF Frame
  <2>6. QED
    BY <1>2, <1>8, <2>2, <2>4, <2>5 DEF LoopOK, EntriesOK, PullPhases, Stat_Keep, At
<1>9. CASE Stat_Download(t)
  <2>1. PICK p \in f.todo : n = [f EXCEPT !.pc = "get", !.cur = p]
    BY <1>5, <1>9 DEF Stat_Download, Goto, IInv
  <2>2. /\ n \in Frame /\ n.pc = "get" /\ n.cur \in n.todo /\ n.todo = f.todo
        /\ n.next = f.next /\ n.objs = f.objs
    BY <1>2, <2>1 DEF Frame, Phases, PullPhases
  <2>3. QED
    BY <1>2, <1>9, <2>2 DEF LoopOK, EntriesOK, PullPhases, Stat_Download, At
<1>10. CASE StatDone(t)
  <2>1. /\ f.todo = {}
        /\ n = [f EXCEPT !.pc = "gone", !.todo = Present(f.next) \ Present(f.objs)]
    BY <1>5, <1>10 DEF StatDone, Goto, IInv
  <2>2. /\ Present(f.next) \subseteq Paths
        /\ \A p \in Paths \ Present(f.objs) : f.objs[p] = None
    BY DEF Present
  <2>3. /\ n \in Frame /\ n.pc = "gone"
        /\ n.todo = Present(f.next) \ Present(f.objs)
        /\ n.next = f.next
    BY <1>2, <2>1, <2>2 DEF Frame, Phases, PullPhases
  <2>4. QED
    BY <1>2, <1>10, <2>2, <2>3 DEF LoopOK, EntriesOK, StatDone, At
<1>11. QED
  BY <1>6, <1>7, <1>8, <1>9, <1>10

\* A download and the Stat that follows it.
LEMMA TransferPreserves ==
    ASSUME IInv, NEW t \in Callers, Download(t) \/ Restat(t)
    PROVE  IInv'
<1> DEFINE f == frame[t]
           p == f.cur
<1>1. Active(t) /\ f.pc \in {"get", "restat"} /\ UNCHANGED <<remote, disk>>
  BY DEF Active, Resting, At, Download, Restat
<1>2. /\ f \in Frame /\ LoopOK(f) /\ EntriesOK(f, disk.entries)
      /\ remote \in [Paths -> Object \cup {None}]
      /\ local \in [Paths -> File \cup {None}]
  BY <1>1, InsideCall
<1>3. /\ p \in f.todo /\ p \in Paths
      /\ f.objs[p] \in Object /\ f.objs[p] # None
  BY <1>1, <1>2 DEF LoopOK, Frame, Present
<1>4. CASE Download(t)
  <2> DEFINE n == [f EXCEPT !.pc = "restat"]
  <2>1. /\ n \in Frame /\ n.pc = "restat" /\ n.todo = f.todo
        /\ n.cur = f.cur /\ n.next = f.next /\ n.objs = f.objs
    BY <1>2 DEF Frame, Phases, PullPhases
  <2>2. LoopOK(n) /\ EntriesOK(n, disk.entries)
    BY <1>1, <1>2, <2>1 DEF LoopOK, EntriesOK
  <2>3. local' \in [Paths -> File \cup {None}]
    <3>1. FileWritten(p, remote[p].data) /\ remote[p].data \in Data
      BY <1>2, <1>3, <1>4 DEF Download, Object
    <3>2. QED
      BY <1>2, <1>3, <3>1, WrittenType
  <2>4. Goto(t, n)
    BY <1>4 DEF Download
  <2>5. GlobalsOK'
    BY <1>1, <2>3, <2>4 DEF GlobalsOK, IInv, Goto
  <2>6. FrameOK(n, disk'.entries) /\ n.pc \notin Resting
    BY <1>1, <2>1, <2>2 DEF FrameOK, Resting
  <2> HIDE DEF n
  <2>7. QED
    BY <1>1, <2>4, <2>5, <2>6, Continue
<1>5. CASE Restat(t)
  <2> DEFINE n == [f EXCEPT !.pc = "stat", !.cur = None, !.todo = @ \ {p},
                            !.next[p] = EntryOf(f.objs[p], local[p].mtime)]
  <2>1. EntryOf(f.objs[p], local[p].mtime) \in Entry
    BY <1>2, <1>3, <1>5, EntryType DEF Restat, File
  <2>2. /\ n \in Frame /\ n.pc = "stat" /\ n.todo = f.todo \ {p}
        /\ \A q \in Paths \ {p} : n.next[q] = f.next[q]
        /\ n.objs = f.objs
    BY <1>2, <1>3, <2>1 DEF Frame, Entries, Phases, PullPhases
  <2>3. LoopOK(n) /\ EntriesOK(n, disk.entries)
    BY <1>1, <1>2, <1>3, <2>2 DEF LoopOK, EntriesOK
  <2>4. Goto(t, n) /\ UNCHANGED local
    BY <1>5 DEF Restat
  <2>5. GlobalsOK'
    BY <1>1, <2>4 DEF GlobalsOK, IInv, Goto
  <2>6. FrameOK(n, disk'.entries) /\ n.pc \notin Resting
    BY <1>1, <2>2, <2>3 DEF FrameOK, Resting
  <2> HIDE DEF n
  <2>7. QED
    BY <1>1, <2>4, <2>5, <2>6, Continue
<1>6. QED
  BY <1>4, <1>5

\* The loop of a pull over entries whose object is gone.
LEMMA GonePreserves ==
    ASSUME IInv, NEW t \in Callers,
           Gone_Keep(t) \/ Gone_Remove(t) \/ Remove(t) \/ GoneDone(t)
    PROVE  IInv'
<1> DEFINE f == frame[t]
<1>1. Active(t) /\ f.pc \in {"gone", "remove"}
  BY DEF Active, Resting, At, Gone_Keep, Gone_Remove, Remove, GoneDone
<1>2. /\ f \in Frame /\ LoopOK(f) /\ EntriesOK(f, disk.entries)
      /\ remote \in [Paths -> Object \cup {None}]
      /\ local \in [Paths -> File \cup {None}]
      /\ f.todo \subseteq Paths
  BY <1>1, InsideCall DEF Frame
<1>3. CASE GoneDone(t)
  <2>1. f.next \in Entries /\ UNCHANGED <<local, remote>>
    BY <1>2, <1>3 DEF Frame, GoneDone
  <2>2. StartSave(t, "save", f.next)
    BY <1>3 DEF GoneDone
  <2>3. QED
    BY <1>1, <1>2, <2>1, <2>2, SaveStarts DEF SavePhases
\* It is enough that the new frame is one the loop may be in.
<1>4. ASSUME NEW n, Goto(t, n), n \in Frame, n.pc \in {"gone", "remove"},
             n.todo \subseteq f.todo, n.pc = "remove" => n.cur \in n.todo,
             \A q \in n.todo : n.next[q] = f.next[q],
             local' \in [Paths -> File \cup {None}], UNCHANGED <<remote, disk>>
      PROVE  IInv'
  <2>1. LoopOK(n) /\ EntriesOK(n, disk.entries)
    BY <1>1, <1>2, <1>4 DEF LoopOK, EntriesOK, Present
  <2>2. FrameOK(n, disk'.entries) /\ n.pc \notin Resting
    BY <1>4, <2>1 DEF FrameOK, Resting
  <2>3. GlobalsOK'
    BY <1>4 DEF GlobalsOK, IInv, Goto
  <2>4. QED
    BY <1>1, <1>4, <2>2, <2>3, Continue
<1>5. CASE Gone_Keep(t)
  <2>1. PICK p \in f.todo : Goto(t, [f EXCEPT !.todo = @ \ {p}])
    BY <1>5 DEF Gone_Keep
  <2> DEFINE n == [f EXCEPT !.todo = @ \ {p}]
  <2>2. /\ n \in Frame /\ n.pc = "gone" /\ n.todo \subseteq f.todo
        /\ n.next = f.next
    BY <1>2, <1>5 DEF Frame, Gone_Keep, At
  <2>3. UNCHANGED <<local, remote, disk>>
    BY <1>5 DEF Gone_Keep
  <2> HIDE DEF n
  <2>4. QED
    BY <1>2, <1>4, <2>1, <2>2, <2>3 DEF n
<1>6. CASE Gone_Remove(t)
  <2>1. PICK p \in f.todo : Goto(t, [f EXCEPT !.pc = "remove", !.cur = p])
    BY <1>6 DEF Gone_Remove
  <2> DEFINE n == [f EXCEPT !.pc = "remove", !.cur = p]
  <2>2. /\ n \in Frame /\ n.pc = "remove" /\ n.todo = f.todo
        /\ n.next = f.next /\ n.cur = p
    BY <1>2, <2>1 DEF Frame, Phases, PullPhases
  <2>3. UNCHANGED <<local, remote, disk>>
    BY <1>6 DEF Gone_Remove
  <2> HIDE DEF n
  <2>4. QED
    BY <1>2, <1>4, <2>1, <2>2, <2>3 DEF n
<1>7. CASE Remove(t)
  <2> DEFINE p == f.cur
             n == [f EXCEPT !.pc = "gone", !.cur = None, !.todo = @ \ {p},
                            !.next[p] = None]
  <2>1. p \in Paths
    BY <1>2, <1>7 DEF LoopOK, Remove, At
  <2>2. /\ n \in Frame /\ n.pc = "gone" /\ n.todo = f.todo \ {p}
        /\ \A q \in Paths \ {p} : n.next[q] = f.next[q]
    BY <1>2, <2>1 DEF Frame, Entries, Phases, PullPhases
  <2>3. Goto(t, n) /\ local' = [local EXCEPT ![p] = None]
        /\ UNCHANGED <<remote, disk>>
    BY <1>7 DEF Remove
  <2>4. local' \in [Paths -> File \cup {None}]
    BY <1>2, <2>1, <2>3
  <2> HIDE DEF n
  <2>5. QED
    BY <1>2, <1>4, <2>2, <2>3, <2>4
<1>8. QED
  BY <1>3, <1>5, <1>6, <1>7

-----------------------------------------------------------------------------
(* pushLocked *)

\* The uploads of a push: PUT, HEAD, and the end of the loop.
LEMMA PutPreserves ==
    ASSUME IInv, NEW t \in Callers, PutObject(t) \/ HeadObject(t) \/ PutDone(t)
    PROVE  IInv'
<1> DEFINE f == frame[t]
<1>1. Active(t) /\ f.pc \in {"put", "head"}
  BY DEF Active, Resting, At, PutObject, HeadObject, PutDone
<1>2. /\ f \in Frame /\ LoopOK(f) /\ EntriesOK(f, disk.entries)
      /\ remote \in [Paths -> Object \cup {None}]
      /\ local \in [Paths -> File \cup {None}]
      /\ f.todo \subseteq Paths
  BY <1>1, InsideCall DEF Frame
\* It is enough that the new frame is one a push may be in.
<1>3. ASSUME NEW n, Goto(t, n), FrameOK(n, disk.entries), n.pc \notin Resting,
             remote' \in [Paths -> Object \cup {None}], UNCHANGED <<local, disk>>
      PROVE  IInv'
  <2>1. GlobalsOK'
    BY <1>3 DEF GlobalsOK, IInv, Goto
  <2>2. QED
    BY <1>1, <1>3, <2>1, Continue
<1>4. CASE PutObject(t)
  <2>1. PICK p \in f.todo :
           /\ local[p] # None
           /\ ObjectWritten(p, local[p].data)
           /\ Goto(t, [f EXCEPT !.pc = "head", !.cur = p])
    BY <1>4 DEF PutObject
  <2> DEFINE n == [f EXCEPT !.pc = "head", !.cur = p]
  <2>2. /\ n \in Frame /\ n.pc = "head" /\ n.todo = f.todo /\ n.cur = p
        /\ n.next = f.next /\ n.infos = f.infos
    BY <1>2 DEF Frame, Phases, PushPhases
  <2>3. FrameOK(n, disk.entries) /\ n.pc \notin Resting
    BY <1>1, <1>2, <2>2 DEF FrameOK, LoopOK, EntriesOK, Resting
  <2>4. remote' \in [Paths -> Object \cup {None}]
    <3>1. local[p].data \in Data
      BY <1>2, <2>1 DEF File
    <3>2. QED
      BY <1>2, <2>1, <3>1, WrittenType
  <2>5. UNCHANGED <<local, disk>>
    BY <1>4 DEF PutObject
  <2>6. Goto(t, n)
    BY <2>1
  <2> HIDE DEF n
  <2>7. QED
    BY <1>3, <2>3, <2>4, <2>5, <2>6
<1>5. CASE HeadObject(t)
  <2> DEFINE p == f.cur
             e == EntryOf(remote[p], f.infos[p])
             n == [f EXCEPT !.pc = "put", !.cur = None, !.todo = @ \ {p},
                            !.next[p] = e]
  <2>1. /\ p \in f.todo /\ p \in Paths /\ f.infos[p] # None
        /\ f.infos[p] \in Stamps /\ remote[p] \in Object
    BY <1>2, <1>5 DEF LoopOK, Frame, Present, HeadObject, At
  <2>2. e \in Entry
    BY <2>1, EntryType
  <2> HIDE DEF e
  <2>3. /\ n \in Frame /\ n.pc = "put" /\ n.todo = f.todo \ {p}
        /\ \A q \in Paths \ {p} : n.next[q] = f.next[q]
        /\ n.infos = f.infos
    BY <1>2, <2>1, <2>2 DEF Frame, Entries, Phases, PushPhases
  <2>4. FrameOK(n, disk.entries) /\ n.pc \notin Resting
    BY <1>1, <1>2, <2>1, <2>3 DEF FrameOK, LoopOK, EntriesOK, Resting
  <2>5. Goto(t, n) /\ UNCHANGED <<local, remote, disk>>
    BY <1>5 DEF HeadObject, e
  <2> HIDE DEF n
  <2>6. QED
    BY <1>2, <1>3, <2>4, <2>5
<1>6. CASE PutDone(t)
  <2>1. f.next \in Entries /\ UNCHANGED <<local, remote>>
    BY <1>2, <1>6 DEF Frame, PutDone
  <2>2. CASE StartSave(t, "save", f.next)
    BY <1>1, <1>2, <2>1, <2>2, SaveStarts DEF SavePhases
  <2> DEFINE left == Present(f.next) \ Present(f.infos)
             n == [f EXCEPT !.pc = "purge", !.todo = left]
  <2>3. CASE Goto(t, n) /\ UNCHANGED disk
    <3>1. left \subseteq Paths /\ \A q \in left : f.infos[q] = None
      BY DEF Present
    <3> HIDE DEF left
    <3>2. /\ n \in Frame /\ n.pc = "purge" /\ n.todo = left /\ n.next = f.next
      BY <1>2, <3>1 DEF Frame, Phases, PushPhases
    <3>3. f.pc = "put"
      BY <1>6 DEF PutDone, At
    <3>4. FrameOK(n, disk.entries) /\ n.pc \notin Resting
      BY <1>2, <3>1, <3>2, <3>3 DEF FrameOK, LoopOK, EntriesOK, Resting
    <3> HIDE DEF n
    <3>5. QED
      BY <1>2, <1>3, <2>1, <2>3, <3>4
  <2>4. QED
    BY <1>6, <2>2, <2>3 DEF PutDone
<1>7. QED
  BY <1>4, <1>5, <1>6

\* The deletions of a push.
LEMMA PurgePreserves ==
    ASSUME IInv, NEW t \in Callers, DeleteObject(t) \/ PurgeDone(t)
    PROVE  IInv'
<1> DEFINE f == frame[t]
<1>1. Active(t) /\ f.pc = "purge" /\ UNCHANGED local
  BY DEF Active, Resting, At, DeleteObject, PurgeDone
<1>2. /\ f \in Frame /\ LoopOK(f) /\ EntriesOK(f, disk.entries)
      /\ remote \in [Paths -> Object \cup {None}]
      /\ local \in [Paths -> File \cup {None}]
      /\ f.todo \subseteq Paths
  BY <1>1, InsideCall DEF Frame
<1>3. CASE DeleteObject(t)
  <2>1. PICK p \in f.todo :
           /\ remote' = [remote EXCEPT ![p] = None]
           /\ Goto(t, [f EXCEPT !.todo = @ \ {p}, !.next[p] = None])
    BY <1>3 DEF DeleteObject
  <2> DEFINE n == [f EXCEPT !.todo = @ \ {p}, !.next[p] = None]
  <2>2. /\ n \in Frame /\ n.pc = "purge" /\ n.todo = f.todo \ {p}
        /\ \A q \in Paths \ {p} : n.next[q] = f.next[q]
    BY <1>1, <1>2, <2>1 DEF Frame, Entries
  <2>3. UNCHANGED disk
    BY <1>3 DEF DeleteObject
  <2>4. FrameOK(n, disk'.entries) /\ n.pc \notin Resting
    BY <1>1, <1>2, <2>2, <2>3 DEF FrameOK, LoopOK, EntriesOK, Resting
  <2>5. Goto(t, n)
    BY <2>1
  <2>6. GlobalsOK'
    BY <1>1, <1>2, <2>1, <2>3, <2>5 DEF GlobalsOK, IInv, Goto
  <2> HIDE DEF n
  <2>7. QED
    BY <1>1, <2>4, <2>5, <2>6, Continue
<1>4. CASE PurgeDone(t)
  <2>1. f.next \in Entries /\ UNCHANGED <<local, remote>>
    BY <1>2, <1>4 DEF Frame, PurgeDone
  <2>2. StartSave(t, "save", f.next)
    BY <1>4 DEF PurgeDone
  <2>3. QED
    BY <1>1, <1>2, <2>1, <2>2, SaveStarts DEF SavePhases
<1>5. QED
  BY <1>3, <1>4

-----------------------------------------------------------------------------
(* Ends, failures and the environment *)

\* state.json is filled, or stays truncated, and the call returns.
LEMMA SavePreserves ==
    ASSUME IInv, NEW t \in Callers, Save(t) \/ SaveMark(t) \/ SaveFails(t)
    PROVE  IInv'
<1>1. Active(t) /\ UNCHANGED <<local, remote>>
  BY DEF Active, Resting, At, Save, SaveMark, SaveFails, SavePhases
<1>2. /\ frame[t] \in Frame /\ disk \in Manifest
      /\ local \in [Paths -> File \cup {None}]
      /\ remote \in [Paths -> Object \cup {None}]
  BY <1>1, InsideCall
<1>3. disk' \in Manifest
  <2>1. CASE Save(t)
    <3> DEFINE pulled == disk.pulled \/ frame[t].op # "push"
    <3>1. pulled \in BOOLEAN
      BY Zenon
    <3>2. disk' = [ok |-> TRUE, err |-> FALSE, entries |-> frame[t].next,
                   pulled |-> pulled]
      BY <2>1 DEF Save
    <3> HIDE DEF pulled
    <3>3. QED
      BY <1>2, <3>1, <3>2 DEF Frame, Manifest
  <2>2. CASE SaveMark(t) \/ SaveFails(t)
    BY <1>2, <2>2 DEF Frame, Manifest, SaveMark, SaveFails
  <2>3. QED
    BY <2>1, <2>2
<1>4. Return(t, "ok") \/ Return(t, "failed")
  BY DEF Save, SaveMark, SaveFails
<1>5. QED
  BY <1>1, <1>2, <1>3, <1>4, Leave DEF Resting

\* A call that fails in the middle.
LEMMA FailPreserves ==
    ASSUME IInv, NEW t \in Callers, CallFails(t) \/ AnswerLost(t)
    PROVE  IInv'
<1>1. Active(t) /\ MarkError(t)
  BY DEF Active, Resting, At, CallFails, AnswerLost, Missing
<1>2. /\ local \in [Paths -> File \cup {None}]
      /\ remote \in [Paths -> Object \cup {None}]
      /\ frame[t].todo \subseteq Paths
  BY <1>1, InsideCall DEF Frame
<1>3. local' \in [Paths -> File \cup {None}]
  BY <1>2 DEF CallFails, AnswerLost
<1>4. remote' \in [Paths -> Object \cup {None}]
  <2>1. CASE CallFails(t)
    BY <1>2, <2>1 DEF CallFails
  <2>2. CASE AnswerLost(t)
    <3>1. PICK p \in frame[t].todo :
             \/ local[p] # None /\ ObjectWritten(p, local[p].data)
             \/ remote' = [remote EXCEPT ![p] = None]
      BY <2>2 DEF AnswerLost
    <3>2. CASE local[p] # None /\ ObjectWritten(p, local[p].data)
      BY <1>2, <3>2, WrittenType DEF File
    <3>3. CASE remote' = [remote EXCEPT ![p] = None]
      BY <1>2, <3>3
    <3>4. QED
      BY <3>1, <3>2, <3>3
  <2>3. QED
    BY <2>1, <2>2
<1>5. QED
  BY <1>1, <1>3, <1>4, MarkStarts

\* The process dies and starts again.
LEMMA CrashPreserves ==
    ASSUME IInv, Crash
    PROVE  IInv'
<1>1. /\ Rest("ok") \in Frame /\ Rest("ok").pc = "ok"
      /\ frame' = [t \in Callers |-> Rest("ok")] /\ mu' = None
      /\ UNCHANGED <<local, remote, disk>>
  BY RestFrame DEF Phases, Resting, Crash
<1>2. \A t \in Callers : frame'[t] \in Frame /\ frame'[t].pc \in Resting
  BY <1>1 DEF Resting
<1>3. \A t \in Callers : FrameOK(frame'[t], disk'.entries)
  BY <1>2, RestingFrame
<1>4. MutualExclusion'
  BY <1>1, <1>2, NoneAssumption DEF MutualExclusion, Active
<1>5. QED
  BY <1>1, <1>3, <1>4 DEF IInv, GlobalsOK

\* Tool handlers and other programs write.
LEMMA EnvironmentPreserves ==
    ASSUME IInv, Environment
    PROVE  IInv'
<1>1. /\ local \in [Paths -> File \cup {None}]
      /\ remote \in [Paths -> Object \cup {None}]
  BY DEF IInv, GlobalsOK
<1>2. PICK p \in Paths : \/ \E d \in Data : WriteNote(p, d) \/ ForeignPut(p, d)
                         \/ DeleteNote(p) \/ ForeignDelete(p)
  BY DEF Environment
<1>3. UNCHANGED <<disk, mu, frame>>
  BY <1>2 DEF WriteNote, ForeignPut, DeleteNote, ForeignDelete
<1> DEFINE TypesOK == /\ local \in [Paths -> File \cup {None}]
                      /\ remote \in [Paths -> Object \cup {None}]
<1>4. TypesOK'
  <2>1. CASE DeleteNote(p) \/ ForeignDelete(p)
    BY <1>1, <2>1 DEF DeleteNote, ForeignDelete
  <2>2. ASSUME NEW d \in Data, WriteNote(p, d)
        PROVE  TypesOK'
    BY <1>1, <2>2, WrittenType DEF WriteNote
  <2>3. ASSUME NEW d \in Data, ForeignPut(p, d)
        PROVE  TypesOK'
    BY <1>1, <2>3, WrittenType DEF ForeignPut
  <2>4. QED
    BY <1>2, <2>1, <2>2, <2>3
<1>5. QED
  BY <1>3, <1>4 DEF IInv, GlobalsOK, MutualExclusion, Active

-----------------------------------------------------------------------------
(* Theorems *)

\* The invariant holds before the first call.
LEMMA InitIInv == Init => IInv
<1> SUFFICES ASSUME Init PROVE IInv
  OBVIOUS
<1> DEFINE first == CHOOSE s \in Stamps : TRUE
<1>1. first \in Stamps
  BY StampsAssumption
<1>2. /\ local \in [Paths -> [data : Data, mtime : {first}] \cup {None}]
      /\ remote \in [Paths -> [data : Data, lm : {first}] \cup {None}]
      /\ disk = [ok |-> TRUE, pulled |-> FALSE, err |-> FALSE, entries |-> Nothing]
      /\ mu = None /\ frame = [t \in Callers |-> Rest("ok")]
  BY DEF Init
<1> HIDE DEF first
<1>3. local \in [Paths -> File \cup {None}]
  <2>1. \A p \in Paths : local[p] \in File \cup {None}
    BY <1>1, <1>2 DEF File
  <2>2. QED
    BY <1>2, <2>1
<1>4. remote \in [Paths -> Object \cup {None}]
  <2>1. \A p \in Paths : remote[p] \in Object \cup {None}
    BY <1>1, <1>2 DEF Object
  <2>2. QED
    BY <1>2, <2>1
<1>5. disk \in Manifest
  BY <1>2 DEF Manifest, Entries, Nothing
<1>6. Rest("ok") \in Frame /\ Rest("ok").pc = "ok"
  BY RestFrame DEF Phases, Resting
<1>7. \A t \in Callers : frame[t] \in Frame /\ frame[t].pc \in Resting
  BY <1>2, <1>6 DEF Resting
<1>8. \A t \in Callers : FrameOK(frame[t], disk.entries)
  BY <1>7, RestingFrame
<1>9. MutualExclusion
  BY <1>2, <1>7, NoneAssumption DEF MutualExclusion, Active
<1>10. QED
  BY <1>2, <1>3, <1>4, <1>5, <1>6, <1>8, <1>9 DEF IInv, GlobalsOK

\* Every step keeps the invariant.
LEMMA NextIInv == IInv /\ [Next]_vars => IInv'
<1> SUFFICES ASSUME IInv, [Next]_vars PROVE IInv'
  OBVIOUS
<1>1. ASSUME NEW t \in Callers, Call(t) \/ Step(t) PROVE IInv'
  <2>1. CASE Call(t)
    BY <2>1, CallPreserves
  <2>2. CASE Probe(t) \/ ListLocal(t) \/ WalkFails(t)
    BY <2>2, WalkPreserves
  <2>3. CASE PullStep(t)
    BY <2>3, StatPreserves, TransferPreserves, GonePreserves DEF PullStep
  <2>4. CASE PushStep(t)
    BY <2>4, PutPreserves, PurgePreserves DEF PushStep
  <2>5. CASE Save(t) \/ SaveMark(t) \/ SaveFails(t)
    BY <2>5, SavePreserves
  <2>6. CASE CallFails(t) \/ AnswerLost(t)
    BY <2>6, FailPreserves
  <2>7. QED
    BY <1>1, <2>1, <2>2, <2>3, <2>4, <2>5, <2>6 DEF Step, FailStep
<1>2. CASE UNCHANGED vars
  BY <1>2 DEF vars, IInv, GlobalsOK, MutualExclusion, Active
<1>3. QED
  BY <1>1, <1>2, CrashPreserves, EnvironmentPreserves DEF Next

\* The inductive invariant holds in every reachable state.
THEOREM Invariance == Spec => []IInv
    BY InitIInv, NextIInv, PTL DEF Spec

\* Every variable keeps its type: in particular no push writes an entry that
\* lacks a file time and no pull one that lacks an object.
THEOREM TypeCorrect == Spec => []TypeOK
<1>1. IInv => TypeOK
  BY DEF IInv, GlobalsOK, TypeOK
<1>2. QED
  BY <1>1, Invariance, PTL

\* At any time at most the holder of Syncer.mu is inside EnsureFresh, Pull or
\* Push, and s.mu is free whenever nobody is: every path out unlocks.
THEOREM Exclusive == Spec => []MutualExclusion
<1>1. IInv => MutualExclusion
  BY DEF IInv
<1>2. QED
  BY <1>1, Invariance, PTL

\* The entries a call holds in memory differ from the manifest on disk only on
\* paths the call has handled, so no call undoes what another has recorded.
THEOREM NothingLost == Spec => []NoLostUpdate
<1>1. IInv => NoLostUpdate
  <2> SUFFICES ASSUME IInv, NEW t \in Callers
               PROVE  LET f == frame[t] IN
                      /\ f.pc \in {"walk", "list", "mark"} => f.next = disk.entries
                      /\ f.pc \in PullPhases \cup PushPhases =>
                            \A p \in f.todo : f.next[p] = disk.entries[p]
    BY DEF NoLostUpdate
  <2>1. EntriesOK(frame[t], disk.entries) /\ frame[t].todo \subseteq Paths
    BY DEF IInv, FrameOK, Frame
  <2>2. QED
    BY <2>1 DEF EntriesOK, PullPhases, PushPhases
<1>2. QED
  BY <1>1, Invariance, PTL

-----------------------------------------------------------------------------
(* Steps of a call, for the modules that go on from here *)

\* A save that starts has only truncated the file: the entries are still known.
LEMMA StartKeepsEntries ==
    ASSUME disk \in Manifest, NEW t, NEW phase, NEW entries,
           StartSave(t, phase, entries)
    PROVE  disk'.entries = disk.entries
    BY DEF StartSave, Manifest

\* A step of a call is taken inside the call.
LEMMA StepActive ==
    ASSUME NEW t \in Callers, Step(t)
    PROVE  Active(t)
    BY DEF Step, Probe, ListLocal, PullStep, ListRemote, Stat_Untracked, Stat_Keep,
         Stat_Download, StatDone, Download, Restat, Gone_Keep, Gone_Remove,
         GoneDone, Remove, PushStep, PutObject, HeadObject, PutDone, DeleteObject,
         PurgeDone, Save, SaveMark, FailStep, CallFails, AnswerLost, Missing,
         WalkFails, SaveFails, SavePhases, At, Active, Resting

\* It moves no other caller.
LEMMA StepMovesOne ==
    ASSUME IInv, NEW t \in Callers, Step(t), NEW u \in Callers, u # t
    PROVE  frame'[u] = frame[u]
<1>1. \E f : frame' = [frame EXCEPT ![t] = f]
  BY DEF Goto, Return, StartSave, MarkError, Step, Probe, ListLocal, PullStep,
         ListRemote, Stat_Untracked, Stat_Keep,
         Stat_Download, StatDone, Download, Restat, Gone_Keep, Gone_Remove,
         GoneDone, Remove, PushStep, PutObject, HeadObject, PutDone, DeleteObject,
         PurgeDone, Save, SaveMark, FailStep, CallFails, AnswerLost,
         WalkFails, SaveFails
<1>2. QED
  BY <1>1 DEF IInv

\* While a call runs, files change by its steps only.
WritersWait == UNCHANGED local \/ mu = None \/ \E t \in Callers : Step(t)

\* That is so if tool handlers do not write at any time.
LEMMA CallsAlone ==
    ASSUME VaultWrites # "any time", [Next]_vars
    PROVE  WritersWait
<1>1. CASE \E t \in Callers : Call(t)
  BY <1>1 DEF WritersWait, Call, EnsureFresh, Pull, Push, Locked
<1>2. CASE Environment
  BY <1>2 DEF WritersWait, Environment, WriteNote, DeleteNote, ForeignPut,
              ForeignDelete, Allowed
<1>3. QED
  BY <1>1, <1>2 DEF WritersWait, Next, Crash, vars
=============================================================================
