---------------------------- MODULE Vault_proofs ----------------------------
(***************************************************************************)
(* What the run of the vault checks on two notes holds for any notes,      *)
(* temporary files, paths, texts and callers.                              *)
(*                                                                         *)
(* That path.Clean finds the note a path names is proved in                *)
(* NotePath_proofs (PathsMean).                                            *)
(***************************************************************************)
EXTENDS Vault, NotePath_proofs

\* What a stack frame knows at each phase.
Resting(f) == f.pc \in {"idle", "called", "walk", "scan", "return"} => f.tmp = None

Waits(f) == f.pc \in {"called", "write", "walk", "scan"}

CalledOK(f) ==
    f.pc = "called" =>
        /\ f.input \in IF f.op = "list" THEN Folders ELSE Inputs
        /\ f.op \in {"create", "update"} => f.text \in Data
        /\ f.op = "append" => \E x \in Pieces : f.text = {x}

WritesOK(f) ==
    f.pc = "write" =>
        /\ f.op = "update" /\ f.text \in Data /\ f.tmp \in Temps
        /\ f.input \in Inputs /\ CleanNote[f.input] # Invalid

WalksOK(f) == f.pc \in {"walk", "scan"} => f.op = "list" /\ f.input \in Folders

AnswerOK(f) ==
    /\ Waits(f) \/ f.pc = "idle" <=> f.is = "none"
    /\ f.pc # "return" => f.got = None

FrameOK(f) == Resting(f) /\ CalledOK(f) /\ WritesOK(f) /\ WalksOK(f) /\ AnswerOK(f)

FramesOK == \A c \in Callers : FrameOK(frame[c])

\* Note n is still to be met: its entry is listed, or a directory above it is.
Ahead(f, n) == n \in f.todo \/ \E d \in f.todo \cap Dirs : IsPrefix(d, Front(n))

WalkInv ==
    \A c \in Callers : At(c, "walk") =>
        /\ always[c] \subseteq NotesNow
        /\ \A n \in always[c] :
              Below(n, Target(frame[c])) => n \in frame[c].found \/ Ahead(frame[c], n)

IInv == VaultTypeOK /\ FramesOK

-----------------------------------------------------------------------------
(* Type correctness *)

LEMMA Cleaned ==
    ASSUME NEW i \in Inputs, CleanNote[i] # Invalid
    PROVE  CleanNote[i] \in Notes
BY InputsAssumption DEF CleanNote

LEMMA RootIsDir == <<>> \in Dirs
<1>1. PICK p \in Notes : p \in Seq(STRING) \ {<<>>}
  BY DirsAssumption
<1>2. Front(p) \in Seq(STRING) /\ Len(Front(p)) \in Nat
  BY <1>1 DEF Front
<1>3. SubSeq(Front(p), 1, 0) \in Dirs
  BY <1>2, DirsAssumption DEF Dirs
<1>4. SubSeq(Front(p), 1, 0) = <<>>
  BY <1>2
<1>. QED
  BY <1>3, <1>4

LEMMA IdleOK == Idle \in Frame /\ FrameOK(Idle)
BY DEF Idle, Frame, Ops, FrameOK, Resting, CalledOK, WritesOK, WalksOK, AnswerOK, Waits

\* The frames of calls that are answered.
LEMMA ReturnOK ==
    ASSUME NEW is \in {"ok", "error"}, NEW got \in Data \cup {None}
    PROVE  /\ [Idle EXCEPT !.pc = "return", !.is = is, !.got = got] \in Frame
           /\ FrameOK([Idle EXCEPT !.pc = "return", !.is = is, !.got = got])
BY DEF Idle, Frame, Ops, FrameOK, Resting, CalledOK, WritesOK, WalksOK, AnswerOK, Waits

LEMMA SettledOK ==
    ASSUME NEW is \in {"ok", "error"}, NEW n \in Temps
    PROVE  /\ [Idle EXCEPT !.pc = "cleanup", !.tmp = n, !.is = is] \in Frame
           /\ FrameOK([Idle EXCEPT !.pc = "cleanup", !.tmp = n, !.is = is])
BY DEF Idle, Frame, Ops, FrameOK, Resting, CalledOK, WritesOK, WalksOK, AnswerOK, Waits

\* A step of one caller leaves the others' frames alone.
LEMMA GotoOK ==
    ASSUME IInv, NEW c \in Callers, NEW f \in Frame, FrameOK(f), Goto(c, f)
    PROVE  frame' \in [Callers -> Frame] /\ FramesOK'
BY DEF IInv, VaultTypeOK, FramesOK, Goto, FrameOK, Resting, CalledOK, WritesOK, WalksOK,
       AnswerOK, Waits

LEMMA ReturnsOK ==
    ASSUME IInv, NEW c \in Callers, NEW is \in {"ok", "error"}, NEW got \in Data \cup {None},
           Returns(c, is, got)
    PROVE  frame' \in [Callers -> Frame] /\ FramesOK'
BY ReturnOK, GotoOK DEF Returns

Files == notes \in [Notes -> Data \cup {None}] /\ temps \subseteq Temps

LEMMA TextsTyped ==
    ASSUME IInv, NEW c \in Callers, Called(c, "read") \/ Called(c, "append") \/ Called(c, "create")
                                        \/ Called(c, "delete") \/ Called(c, "update")
    PROVE  Note(c) \in Notes /\ notes[Note(c)] \in Data \cup {None} /\ frame[c].input \in Inputs
<1>1. FrameOK(frame[c]) /\ frame[c].op # "list" /\ frame[c].pc = "called"
  BY DEF IInv, FramesOK, Called, At
<1>2. frame[c].input \in Inputs /\ CleanNote[frame[c].input] # Invalid
  BY <1>1 DEF FrameOK, CalledOK, Called, Target
<1>3. Note(c) \in Notes
  BY <1>2, Cleaned DEF Note
<1>. QED
  BY <1>2, <1>3 DEF IInv, VaultTypeOK

LEMMA BeginTyped ==
    ASSUME IInv, NEW c \in Callers, Begin(c)
    PROVE  frame' \in [Callers -> Frame] /\ FramesOK'
<1>. USE DEF Idle, Frame, Ops, FrameOK, Resting, CalledOK, WritesOK, WalksOK, AnswerOK, Waits
<1>1. ASSUME NEW op \in {"read", "delete"}, NEW i \in Inputs
      PROVE  LET f == [Idle EXCEPT !.pc = "called", !.op = op, !.input = i]
             IN  f \in Frame /\ FrameOK(f)
  OBVIOUS
<1>2. ASSUME NEW op \in {"create", "update", "append"}, NEW i \in Inputs, NEW x \in Pieces
      PROVE  LET f == [Idle EXCEPT !.pc = "called", !.op = op, !.input = i, !.text = {x}]
             IN  f \in Frame /\ FrameOK(f)
  BY DataAssumption
<1>3. ASSUME NEW i \in Folders
      PROVE  LET f == [Idle EXCEPT !.pc = "called", !.op = "list", !.input = i]
             IN  f \in Frame /\ FrameOK(f)
  OBVIOUS
<1>4. PICK f \in Frame : FrameOK(f) /\ Goto(c, f)
  <2>. HIDE DEF Idle, Frame, FrameOK
  <2>. QED
    BY <1>1, <1>2, <1>3 DEF Begin
<1>. HIDE DEF FrameOK
<1>. QED
  BY <1>4, GotoOK

LEMMA CallTyped ==
    ASSUME IInv, NEW c \in Callers,
           Rejected(c) \/ Read(c) \/ CreateLooks(c) \/ AppendReads(c) \/ Delete(c)
    PROVE  frame' \in [Callers -> Frame] /\ FramesOK' /\ Files'
<1>0. Files /\ frame[c] \in Frame /\ FrameOK(frame[c])
  BY DEF IInv, VaultTypeOK, Files, FramesOK
<1>1. CASE Rejected(c)
  BY <1>0, <1>1, ReturnsOK DEF Rejected, Files
<1>2. CASE Read(c)
  <2>1. notes[Note(c)] \in Data \cup {None}
    BY <1>2, TextsTyped DEF Read
  <2>2. PICK is \in {"ok", "error"} : Returns(c, is, notes[Note(c)])
    BY <1>2 DEF Read
  <2>. QED
    BY <1>0, <1>2, <2>1, <2>2, ReturnsOK DEF Read, Files
<1>3. CASE CreateLooks(c)
  <2>1. CASE Returns(c, "error", None)
    BY <1>0, <1>3, <2>1, ReturnsOK DEF CreateLooks, Files
  <2>2. CASE Goto(c, [frame[c] EXCEPT !.op = "update"])
    <3>. DEFINE f == [frame[c] EXCEPT !.op = "update"]
    <3>1. f \in Frame /\ FrameOK(f)
      BY <1>0, <1>3
         DEF CreateLooks, Called, At, Frame, Ops, FrameOK, Resting, CalledOK, WritesOK, WalksOK,
             AnswerOK, Waits
    <3>. QED
      BY <1>0, <1>3, <2>2, <3>1, GotoOK DEF CreateLooks, Files
  <2>. QED
    BY <1>3, <2>1, <2>2 DEF CreateLooks
<1>4. CASE AppendReads(c)
  <2>1. CASE Returns(c, "error", None)
    BY <1>0, <1>4, <2>1, ReturnsOK DEF AppendReads, Files
  <2>2. CASE notes[Note(c)] # None /\ Goto(c, [frame[c] EXCEPT !.op = "update",
                                                             !.text = @ \cup notes[Note(c)]])
    <3>. DEFINE f == [frame[c] EXCEPT !.op = "update", !.text = @ \cup notes[Note(c)]]
    <3>1. notes[Note(c)] \in Data /\ frame[c].input \in Inputs
      BY <1>4, <2>2, TextsTyped DEF AppendReads
    <3>2. frame[c].text \cup notes[Note(c)] \in Data
      <4>1. PICK x \in Pieces : frame[c].text = {x}
        BY <1>0, <1>4 DEF AppendReads, Called, At, FrameOK, CalledOK
      <4>2. notes[Note(c)] \cup {x} \in Data
        BY <3>1, DataAssumption
      <4>3. frame[c].text \cup notes[Note(c)] = notes[Note(c)] \cup {x}
        BY <4>1
      <4>. QED
        BY <4>2, <4>3
    <3>3. f \in Frame /\ FrameOK(f)
      BY <1>0, <1>4, <3>1, <3>2
         DEF AppendReads, Called, At, Frame, Ops, FrameOK, Resting, CalledOK, WritesOK, WalksOK,
             AnswerOK, Waits
    <3>. QED
      BY <1>0, <1>4, <2>2, <3>3, GotoOK DEF AppendReads, Files
  <2>. QED
    BY <1>4, <2>1, <2>2 DEF AppendReads
<1>5. CASE Delete(c)
  <2>1. PICK is \in {"ok", "error"} : Returns(c, is, None)
    BY <1>5 DEF Delete
  <2>2. Files'
    BY <1>0, <1>5 DEF Delete, Files
  <2>. QED
    BY <2>1, <2>2, ReturnsOK
<1>. QED
  BY <1>1, <1>2, <1>3, <1>4, <1>5

LEMMA WriteTyped ==
    ASSUME IInv, NEW c \in Callers,
           CreateTemp(c) \/ Rename(c) \/ WriteFails(c) \/ CleanUp(c) \/ CleanUpFails(c)
    PROVE  frame' \in [Callers -> Frame] /\ FramesOK' /\ Files'
<1>0. Files /\ frame[c] \in Frame /\ FrameOK(frame[c])
  BY DEF IInv, VaultTypeOK, Files, FramesOK
<1>1. CASE CreateTemp(c)
  <2>1. PICK n \in Temps : /\ temps' = temps \cup {n}
                           /\ Goto(c, [frame[c] EXCEPT !.pc = "write", !.tmp = n])
    BY <1>1 DEF CreateTemp
  <2>2. frame[c].input \in Inputs /\ CleanNote[frame[c].input] # Invalid
    BY <1>1, TextsTyped DEF CreateTemp, Called, Target
  <2>. DEFINE f == [frame[c] EXCEPT !.pc = "write", !.tmp = n]
  <2>3. f \in Frame /\ FrameOK(f)
    BY <1>0, <1>1, <2>2
       DEF CreateTemp, Called, At, Frame, FrameOK, Resting, CalledOK, WritesOK, WalksOK,
           AnswerOK, Waits
  <2>. QED
    BY <1>0, <1>1, <2>1, <2>3, GotoOK DEF CreateTemp, Files
<1>2. CASE Rename(c)
  <2>1. frame[c].text \in Data /\ frame[c].tmp \in Temps
    BY <1>0, <1>2 DEF Rename, At, FrameOK, WritesOK
  <2>2. Files'
    BY <1>0, <1>2, <2>1 DEF Rename, Files
  <2>. QED
    BY <1>2, <2>1, <2>2, SettledOK, GotoOK DEF Rename, Settles
<1>3. CASE WriteFails(c)
  <2>1. frame[c].tmp \in Temps
    BY <1>0, <1>3 DEF WriteFails, At, FrameOK, WritesOK
  <2>. QED
    BY <1>0, <1>3, <2>1, SettledOK, GotoOK DEF WriteFails, Settles, Files
<1>4. CASE CleanUp(c) \/ CleanUpFails(c)
  <2>1. frame[c].is \in {"ok", "error"} /\ Returns(c, frame[c].is, None)
    BY <1>0, <1>4 DEF CleanUp, CleanUpFails, At, Frame, FrameOK, AnswerOK, Waits
  <2>2. Files'
    BY <1>0, <1>4 DEF CleanUp, CleanUpFails, Files
  <2>. QED
    BY <2>1, <2>2, ReturnsOK
<1>. QED
  BY <1>1, <1>2, <1>3, <1>4

LEMMA WalkTyped ==
    ASSUME IInv, NEW c \in Callers,
           \/ StartWalk(c) \/ ReadDir(c) \/ Look(c) \/ WalkFails(c) \/ WalkDone(c)
           \/ Scan(c) \/ ScanDone(c)
    PROVE  frame' \in [Callers -> Frame] /\ FramesOK' /\ Files'
<1>. USE DEF At
<1>0. /\ Files /\ frame[c] \in Frame /\ FrameOK(frame[c])
      /\ UNCHANGED <<notes, temps>>
  BY DEF IInv, VaultTypeOK, Files, FramesOK, StartWalk, ReadDir, Look, WalkFails, WalkDone,
         Scan, ScanDone
<1>1. Files'
  BY <1>0 DEF Files
<1>2. CASE \E is \in {"ok", "error"} : Returns(c, is, None)
  BY <1>1, <1>2, ReturnsOK
<1>a. frame[c].pc \in {"called", "walk", "scan"} => frame[c].tmp = None /\ frame[c].got = None
  BY <1>0 DEF FrameOK, Resting, AnswerOK
<1>3. ASSUME NEW f \in Frame, Goto(c, f), f.pc \in {"walk", "scan"}, f.op = "list",
             f.input \in Folders, f.tmp = None, f.is = "none", f.got = None
      PROVE  frame' \in [Callers -> Frame] /\ FramesOK'
  <2>1. FrameOK(f)
    BY <1>3 DEF FrameOK, Resting, CalledOK, WritesOK, WalksOK, AnswerOK, Waits
  <2>. QED
    BY <1>3, <2>1, GotoOK
<1>4. frame[c].op = "list" /\ frame[c].input \in Folders /\ frame[c].is = "none"
      /\ frame[c].tmp = None /\ frame[c].got = None
  BY <1>0, <1>a DEF StartWalk, ReadDir, Look, WalkFails, WalkDone, Scan, ScanDone, Called,
         FrameOK, CalledOK, WalksOK, AnswerOK, Waits
<1>5. ASSUME NEW f \in Frame, Goto(c, f), f.pc \in {"walk", "scan"},
             f.op = frame[c].op, f.input = frame[c].input, f.tmp = frame[c].tmp,
             f.is = frame[c].is, f.got = frame[c].got
      PROVE  frame' \in [Callers -> Frame] /\ FramesOK'
  BY <1>3, <1>4, <1>5
<1>6. CASE StartWalk(c)
  <2>. DEFINE f == [frame[c] EXCEPT !.pc = "walk", !.todo = {<<>>}]
  <2>1. f \in Frame
    BY <1>0, RootIsDir DEF Frame
  <2>2. /\ f.pc \in {"walk", "scan"} /\ f.op = frame[c].op /\ f.input = frame[c].input
        /\ f.tmp = frame[c].tmp /\ f.is = frame[c].is /\ f.got = frame[c].got
    BY <1>0 DEF Frame
  <2>. QED
    BY <1>1, <1>5, <1>6, <2>1, <2>2 DEF StartWalk
<1>7. CASE ReadDir(c)
  <2>1. PICK todo : /\ Goto(c, [frame[c] EXCEPT !.todo = todo])
                    /\ todo \in SUBSET (Dirs \cup Names)
    <3>1. PICK d \in Dirs :
             LET dirs == {e \in Dirs : e # d /\ Front(e) = d}
                 names == {n \in Present : Front(n) = d /\ Below(n, Target(frame[c]))}
             IN  Goto(c, [frame[c] EXCEPT !.todo = (@ \ {d}) \cup dirs \cup names])
      BY <1>7 DEF ReadDir
    <3>2. Present \subseteq Names /\ frame[c].todo \subseteq Dirs \cup Names
      BY <1>0 DEF Files, Present, NotesNow, Names, Frame
    <3>. QED
      BY <3>1, <3>2
  <2>. DEFINE f == [frame[c] EXCEPT !.todo = todo]
  <2>2. f \in Frame
    BY <1>0, <2>1 DEF Frame
  <2>3. /\ f.pc \in {"walk", "scan"} /\ f.op = frame[c].op /\ f.input = frame[c].input
        /\ f.tmp = frame[c].tmp /\ f.is = frame[c].is /\ f.got = frame[c].got
    BY <1>0, <1>7 DEF Frame, ReadDir
  <2>. QED
    BY <1>1, <1>5, <2>1, <2>2, <2>3
<1>8. CASE Look(c)
  <2>1. PICK n \in Present :
           Goto(c, [frame[c] EXCEPT !.todo = @ \ {n}, !.found = @ \cup {n}])
    BY <1>8 DEF Look
  <2>. DEFINE f == [frame[c] EXCEPT !.todo = @ \ {n}, !.found = @ \cup {n}]
  <2>2. n \in Names
    BY <1>0 DEF Files, Present, NotesNow, Names
  <2>3. f \in Frame
    BY <1>0, <2>2 DEF Frame
  <2>4. /\ f.pc \in {"walk", "scan"} /\ f.op = frame[c].op /\ f.input = frame[c].input
        /\ f.tmp = frame[c].tmp /\ f.is = frame[c].is /\ f.got = frame[c].got
    BY <1>0, <1>8 DEF Frame, Look
  <2>. QED
    BY <1>1, <1>5, <2>1, <2>3, <2>4
<1>9. CASE WalkDone(c)
  <2>1. CASE Returns(c, "ok", None)
    BY <1>2, <2>1
  <2>2. CASE Goto(c, [frame[c] EXCEPT !.pc = "scan", !.todo = frame[c].found, !.found = {}])
    <3>. DEFINE f == [frame[c] EXCEPT !.pc = "scan", !.todo = frame[c].found, !.found = {}]
    <3>1. f \in Frame
      BY <1>0 DEF Frame
    <3>2. /\ f.pc \in {"walk", "scan"} /\ f.op = frame[c].op /\ f.input = frame[c].input
          /\ f.tmp = frame[c].tmp /\ f.is = frame[c].is /\ f.got = frame[c].got
      BY <1>0 DEF Frame
    <3>. QED
      BY <1>1, <1>5, <2>2, <3>1, <3>2
  <2>. QED
    BY <1>9, <2>1, <2>2 DEF WalkDone
<1>10. CASE Scan(c)
  <2>1. PICK n \in Present : Goto(c, [frame[c] EXCEPT !.todo = @ \ {n}])
    BY <1>10 DEF Scan
  <2>. DEFINE f == [frame[c] EXCEPT !.todo = @ \ {n}]
  <2>2. f \in Frame
    BY <1>0 DEF Frame
  <2>3. /\ f.pc \in {"walk", "scan"} /\ f.op = frame[c].op /\ f.input = frame[c].input
        /\ f.tmp = frame[c].tmp /\ f.is = frame[c].is /\ f.got = frame[c].got
    BY <1>0, <1>10 DEF Frame, Scan
  <2>. QED
    BY <1>1, <1>5, <2>1, <2>2, <2>3
<1>. QED
  BY <1>2, <1>6, <1>7, <1>8, <1>9, <1>10 DEF WalkFails, ScanDone

LEMMA IInvInit == VaultInit => IInv
<1>. SUFFICES ASSUME VaultInit PROVE IInv
  OBVIOUS
<1>1. \A c \in Callers : frame[c] = Idle
  BY DEF VaultInit
<1>. QED
  BY <1>1, IdleOK DEF IInv, VaultTypeOK, FramesOK, VaultInit

LEMMA StepTyped ==
    ASSUME IInv, NEW c \in Callers, Step(c)
    PROVE  frame' \in [Callers -> Frame] /\ FramesOK' /\ Files'
<1>1. CASE Begin(c)
  BY <1>1, BeginTyped DEF Begin, Files, IInv, VaultTypeOK
<1>2. CASE Return(c)
  BY <1>2, IdleOK, GotoOK DEF Return, Files, IInv, VaultTypeOK
<1>. QED
  BY <1>1, <1>2, CallTyped, WriteTyped, WalkTyped DEF Step

LEMMA NextIInv ==
    ASSUME IInv, [VaultNext]_vars
    PROVE  IInv'
<1>1. ASSUME VaultNext PROVE frame' \in [Callers -> Frame] /\ FramesOK' /\ Files'
  <2>1. CASE Crash
    BY <2>1, IdleOK DEF Crash, Files, FramesOK, IInv, VaultTypeOK
  <2>. QED
    BY <1>1, <2>1, StepTyped DEF VaultNext
<1>2. ASSUME VaultNext PROVE always' \in [Callers -> SUBSET Notes]
  BY <1>2 DEF VaultNext, KeepHistory, IInv, VaultTypeOK, NotesNow
<1>3. CASE UNCHANGED vars
  BY <1>3 DEF vars, IInv, VaultTypeOK, FramesOK
<1>. QED
  BY <1>1, <1>2, <1>3 DEF IInv, VaultTypeOK, Files

LEMMA Invariance == VaultSpec => []IInv
BY IInvInit, NextIInv, PTL DEF VaultSpec

\* Notes, temporary files, stack frames and the histories of walks keep their types,
\* for any notes, texts, paths and callers.
THEOREM VaultTypeCorrect == VaultSpec => []VaultTypeOK
BY Invariance, PTL DEF IInv

-----------------------------------------------------------------------------
(* Temporary files *)

\* The file a step's caller held is none, or still held, or gone; the only new file is
\* the one the caller holds now.
LEMMA TempHeld ==
    ASSUME IInv, NEW c \in Callers, Step(c), ~CleanUpFails(c)
    PROVE  /\ frame[c].tmp = None \/ frame'[c].tmp = frame[c].tmp \/ frame[c].tmp \notin temps'
           /\ temps' \subseteq temps \cup {frame'[c].tmp}
           /\ \A d \in Callers \ {c} : frame'[d] = frame[d]
<1>0. frame \in [Callers -> Frame] /\ FrameOK(frame[c])
  BY DEF IInv, VaultTypeOK, FramesOK
<1>a. \A f : Goto(c, f) => frame'[c] = f /\ \A d \in Callers \ {c} : frame'[d] = frame[d]
  BY <1>0 DEF Goto
<1>1. CASE frame[c].pc \in {"idle", "called", "walk", "scan", "return"} /\ ~CreateTemp(c)
  <2>1. frame[c].tmp = None /\ UNCHANGED temps
    BY <1>0, <1>1
       DEF FrameOK, Resting, Step, At, Begin, Rejected, Return, Read, CreateLooks, AppendReads,
           Delete, Rename, WriteFails, CleanUp, StartWalk, ReadDir, Look, WalkFails, WalkDone,
           Scan, ScanDone
  <2>2. \E f : Goto(c, f)
    <3>. USE DEF At
    <3>1. CASE Begin(c)
      BY <3>1 DEF Begin
    <3>2. CASE Rejected(c) \/ Read(c) \/ CreateLooks(c) \/ AppendReads(c) \/ Delete(c)
      BY <3>2 DEF Rejected, Read, CreateLooks, AppendReads, Delete, Returns
    <3>3. CASE StartWalk(c) \/ ReadDir(c) \/ Look(c)
      BY <3>3 DEF StartWalk, ReadDir, Look
    <3>4. CASE WalkFails(c) \/ WalkDone(c) \/ Scan(c) \/ ScanDone(c) \/ Return(c)
      BY <3>4 DEF WalkFails, WalkDone, Scan, ScanDone, Return, Returns
    <3>. QED
      BY <1>1, <3>1, <3>2, <3>3, <3>4 DEF Step, Rename, WriteFails, CleanUp
  <2>. QED
    BY <1>a, <2>1, <2>2
<1>2. CASE CreateTemp(c)
  <2>1. PICK n \in Temps : /\ temps' = temps \cup {n}
                           /\ Goto(c, [frame[c] EXCEPT !.pc = "write", !.tmp = n])
    BY <1>2 DEF CreateTemp
  <2>2. frame'[c].tmp = n
    <3>1. PICK f : f = [frame[c] EXCEPT !.pc = "write", !.tmp = n]
      OBVIOUS
    <3>2. f.tmp = n
      BY <1>0, <3>1 DEF Frame
    <3>. QED
      BY <1>a, <2>1, <3>1, <3>2
  <2>3. frame[c].tmp = None
    BY <1>0, <1>2 DEF CreateTemp, Called, At, FrameOK, Resting
  <2>. QED
    BY <1>a, <2>1, <2>2, <2>3
<1>3. CASE Rename(c) \/ WriteFails(c)
  <2>1. PICK is \in {"ok", "error"} : Settles(c, is)
    BY <1>3 DEF Rename, WriteFails
  <2>2. frame'[c].tmp = frame[c].tmp
    <3>1. PICK f : f = [Idle EXCEPT !.pc = "cleanup", !.tmp = frame[c].tmp, !.is = is]
      OBVIOUS
    <3>2. f.tmp = frame[c].tmp
      BY <3>1 DEF Idle
    <3>. QED
      BY <1>a, <2>1, <3>1, <3>2 DEF Settles
  <2>. QED
    BY <1>a, <1>3, <2>1, <2>2 DEF Settles, Rename, WriteFails
<1>4. CASE CleanUp(c)
  BY <1>a, <1>4 DEF CleanUp, Returns
<1>5. frame[c].pc \in {"idle", "called", "walk", "scan", "return", "write", "cleanup"}
  BY <1>0 DEF Frame
<1>6. CASE frame[c].pc \in {"write", "cleanup"}
  BY <1>3, <1>4, <1>6
     DEF Step, At, Begin, Rejected, Return, Read, CreateLooks, AppendReads, Delete, CreateTemp,
         Called, StartWalk, ReadDir, Look, WalkFails, WalkDone, Scan, ScanDone
<1>. QED
  BY <1>1, <1>2, <1>5, <1>6

LEMMA NoOrphan ==
    ASSUME IInv, NEW c \in Callers, Step(c), ~CleanUpFails(c)
    PROVE  Orphans' \subseteq Orphans
<1>. SUFFICES ASSUME NEW n, n \in temps', \A d \in Callers : frame'[d].tmp # n
              PROVE  n \in temps /\ \A d \in Callers : frame[d].tmp # n
  BY DEF Orphans
<1>1. n \in temps
  BY TempHeld
<1>2. n # None
  BY <1>1, NamesAssumption DEF IInv, VaultTypeOK, Names
<1>. QED
  BY <1>1, <1>2, TempHeld

\* For any number of callers: a temporary file that no call will remove is left by a
\* crash, or by an os.Remove that fails, and by nothing else.
THEOREM TempsCleaned == VaultSpec => OnlyCrashStrands
<1>1. IInv /\ [VaultNext]_vars =>
        [Orphans' \subseteq Orphans \/ Crash \/ \E c \in Callers : CleanUpFails(c)]_vars
  BY NoOrphan DEF VaultNext
<1>. QED
  BY <1>1, Invariance, PTL DEF VaultSpec, OnlyCrashStrands

-----------------------------------------------------------------------------
(* Walks *)

\* Below directory d, on the way to note n, there is another directory.
LEMMA NextDir ==
    ASSUME NEW n \in Notes, NEW d \in Dirs, IsPrefix(d, Front(n)), Front(n) # d
    PROVE  \E e \in Dirs : e # d /\ Front(e) = d /\ IsPrefix(e, Front(n))
<1>. DEFINE p == Front(n)
            e == SubSeq(p, 1, Len(d) + 1)
<1>1. p \in Seq(STRING) /\ d \in Seq(STRING) /\ p \in Dirs
  <2>1. \A m \in Notes : Front(m) \in Seq(STRING)
    BY DirsAssumption DEF Front
  <2>. QED
    BY <2>1 DEF Dirs
<1>. HIDE DEF p
<1>2. Len(d) <= Len(p) /\ SubSeq(d, 1, Len(d)) = SubSeq(p, 1, Len(d))
  BY DEF IsPrefix, p
<1>3. SubSeq(d, 1, Len(d)) = d /\ SubSeq(p, 1, Len(p)) = p
  BY <1>1
<1>4. Len(d) < Len(p)
  <2>1. Len(d) # Len(p)
    BY <1>2, <1>3 DEF p
  <2>. QED
    BY <1>1, <1>2, <2>1
<1>5. e \in Dirs
  BY <1>1, <1>4, DirsAssumption
<1>6. Len(e) = Len(d) + 1 /\ e \in Seq(STRING)
  BY <1>1, <1>4
<1>7. Front(e) = d
  <2>1. Front(e) = SubSeq(e, 1, Len(d))
    BY <1>1, <1>6 DEF Front
  <2>2. SubSeq(e, 1, Len(d)) = SubSeq(p, 1, Len(d))
    BY <1>1, <1>4
  <2>. QED
    BY <1>2, <1>3, <2>1, <2>2
<1>8. SubSeq(e, 1, Len(e)) = SubSeq(p, 1, Len(e)) /\ Len(e) <= Len(p)
  BY <1>1, <1>4, <1>6
<1>9. e # d /\ IsPrefix(e, p)
  BY <1>1, <1>6, <1>8 DEF IsPrefix
<1>. HIDE DEF e
<1>. QED
  BY <1>5, <1>7, <1>9 DEF p

\* What a step of a walk leaves to be met.
LEMMA StillAhead ==
    ASSUME IInv, WalkInv, NEW c \in Callers, ReadDir(c) \/ Look(c), NEW n \in always[c],
           Below(n, Target(frame[c]))
    PROVE  n \in frame'[c].found \/ Ahead(frame'[c], n)
<1>0. /\ frame \in [Callers -> Frame] /\ always[c] \subseteq NotesNow
      /\ n \in frame[c].found \/ Ahead(frame[c], n)
  BY DEF IInv, VaultTypeOK, WalkInv, ReadDir, Look
<1>1. n \in Notes /\ n \in Present /\ n \notin Dirs
  BY <1>0, NamesAssumption DEF NotesNow, Present, Names
<1>2. CASE Look(c)
  <2>1. PICK m \in Present :
           Goto(c, [frame[c] EXCEPT !.todo = @ \ {m}, !.found = @ \cup {m}])
    BY <1>2 DEF Look
  <2>2. PICK f : f = [frame[c] EXCEPT !.todo = @ \ {m}, !.found = @ \cup {m}]
    OBVIOUS
  <2>3. f.todo = frame[c].todo \ {m} /\ f.found = frame[c].found \cup {m}
    BY <1>0, <2>2 DEF Frame
  <2>4. frame'[c] = f
    BY <1>0, <2>1, <2>2 DEF Goto
  <2>5. m \notin Dirs
    BY NamesAssumption DEF IInv, VaultTypeOK, Present, NotesNow, Names
  <2>. QED
    BY <1>0, <2>3, <2>4, <2>5 DEF Ahead
<1>3. CASE ReadDir(c)
  <2>1. PICK d \in Dirs :
           LET dirs == {e \in Dirs : e # d /\ Front(e) = d}
               names == {m \in Present : Front(m) = d /\ Below(m, Target(frame[c]))}
           IN  Goto(c, [frame[c] EXCEPT !.todo = (@ \ {d}) \cup dirs \cup names])
    BY <1>3 DEF ReadDir
  <2>. DEFINE dirs == {e \in Dirs : e # d /\ Front(e) = d}
              names == {m \in Present : Front(m) = d /\ Below(m, Target(frame[c]))}
              todo == (frame[c].todo \ {d}) \cup dirs \cup names
  <2>2. PICK f : f = [frame[c] EXCEPT !.todo = todo]
    OBVIOUS
  <2>3. f.todo = todo /\ f.found = frame[c].found
    BY <1>0, <2>2 DEF Frame
  <2>4. frame'[c] = f
    BY <1>0, <2>1, <2>2 DEF Goto
  <2>5. CASE n \in frame[c].found
    BY <2>3, <2>4, <2>5
  <2>6. CASE n \in frame[c].todo
    BY <1>1, <2>3, <2>4, <2>6 DEF Ahead
  <2>7. CASE \E e \in frame[c].todo \cap Dirs : IsPrefix(e, Front(n))
    <3>1. PICK e \in frame[c].todo \cap Dirs : IsPrefix(e, Front(n))
      BY <2>7
    <3>2. CASE e # d
      BY <2>3, <2>4, <3>1, <3>2 DEF Ahead
    <3>3. CASE Front(n) = d
      BY <1>1, <2>3, <2>4, <3>3 DEF Ahead
    <3>4. CASE e = d /\ Front(n) # d
      <4>1. PICK e2 \in Dirs : e2 # d /\ Front(e2) = d /\ IsPrefix(e2, Front(n))
        BY <1>1, <3>1, <3>4, NextDir
      <4>. QED
        BY <2>3, <2>4, <4>1 DEF Ahead
    <3>. QED
      BY <3>2, <3>3, <3>4
  <2>. QED
    BY <1>0, <2>5, <2>6, <2>7 DEF Ahead
<1>. QED
  BY <1>2, <1>3

LEMMA RootAbove ==
    ASSUME NEW n \in Notes
    PROVE  IsPrefix(<<>>, Front(n))
<1>1. n \in Seq(STRING) \ {<<>>}
  BY DirsAssumption
<1>2. Front(n) \in Seq(STRING)
  BY <1>1 DEF Front
<1>. QED
  BY <1>2 DEF IsPrefix

\* What the ways in which a step goes on leave in the frames.
LEMMA GoesTo ==
    ASSUME IInv, NEW c \in Callers, NEW f, Goto(c, f)
    PROVE  frame'[c] = f /\ \A d \in Callers \ {c} : frame'[d] = frame[d]
BY DEF IInv, VaultTypeOK, Goto

LEMMA Returned ==
    ASSUME IInv, NEW c \in Callers, NEW is, NEW got, Returns(c, is, got)
    PROVE  /\ frame'[c].pc = "return" /\ frame'[c].is = is /\ frame'[c].got = got
           /\ \A d \in Callers \ {c} : frame'[d] = frame[d]
<1>1. PICK f : f = [Idle EXCEPT !.pc = "return", !.is = is, !.got = got]
  OBVIOUS
<1>2. f.pc = "return" /\ f.is = is /\ f.got = got
  BY <1>1 DEF Idle
<1>. QED
  BY <1>1, <1>2, GoesTo DEF Returns

LEMMA Settled ==
    ASSUME IInv, NEW c \in Callers, NEW is, Settles(c, is)
    PROVE  /\ frame'[c].pc = "cleanup" /\ frame'[c].is = is /\ frame'[c].got = None
           /\ \A d \in Callers \ {c} : frame'[d] = frame[d]
<1>1. PICK f : f = [Idle EXCEPT !.pc = "cleanup", !.tmp = frame[c].tmp, !.is = is]
  OBVIOUS
<1>2. f.pc = "cleanup" /\ f.is = is /\ f.got = None
  BY <1>1 DEF Idle
<1>. QED
  BY <1>1, <1>2, GoesTo DEF Settles

LEMMA BeginFrame ==
    ASSUME IInv, NEW c \in Callers, Begin(c)
    PROVE  /\ frame[c].pc = "idle" /\ frame'[c].pc = "called" /\ frame'[c].is = "none"
           /\ frame'[c].got = None
           /\ \A d \in Callers \ {c} : frame'[d] = frame[d]
<1>. DEFINE Called3(f) == f.pc = "called" /\ f.is = "none" /\ f.got = None
<1>1. ASSUME NEW op, NEW i
      PROVE  Called3([Idle EXCEPT !.pc = "called", !.op = op, !.input = i])
  BY DEF Idle
<1>2. ASSUME NEW op, NEW i, NEW x
      PROVE  Called3([Idle EXCEPT !.pc = "called", !.op = op, !.input = i, !.text = x])
  BY DEF Idle
<1>3. PICK f : Called3(f) /\ Goto(c, f)
  <2>. HIDE DEF Called3
  <2>. QED
    BY <1>1, <1>2 DEF Begin
<1>. QED
  BY <1>3, GoesTo DEF Begin, At

LEMMA LooksFrame ==
    ASSUME IInv, NEW c \in Callers, CreateLooks(c), notes[Note(c)] = None
    PROVE  /\ frame'[c].pc = "called" /\ frame'[c].op = "update" /\ frame'[c].is = "none"
           /\ frame'[c].got = None
           /\ frame'[c].input = frame[c].input /\ frame'[c].text = frame[c].text
           /\ \A d \in Callers \ {c} : frame'[d] = frame[d]
<1>0. frame[c] \in Frame /\ frame[c].is = "none" /\ frame[c].got = None /\ frame[c].pc = "called"
  BY DEF IInv, VaultTypeOK, FramesOK, FrameOK, AnswerOK, Waits, CreateLooks, Called, At
<1>1. PICK f : f = [frame[c] EXCEPT !.op = "update"]
  OBVIOUS
<1>2. /\ f.pc = "called" /\ f.op = "update" /\ f.is = "none" /\ f.got = None
      /\ f.input = frame[c].input /\ f.text = frame[c].text
  BY <1>0, <1>1 DEF Frame
<1>3. Goto(c, f)
  BY <1>1 DEF CreateLooks
<1>. QED
  BY <1>2, <1>3, GoesTo

LEMMA AppendsFrame ==
    ASSUME IInv, NEW c \in Callers, AppendReads(c), notes[Note(c)] # None
    PROVE  /\ frame'[c].pc = "called" /\ frame'[c].op = "update" /\ frame'[c].is = "none"
           /\ frame'[c].got = None
           /\ frame'[c].input = frame[c].input
           /\ frame'[c].text = frame[c].text \cup notes[Note(c)]
           /\ \A d \in Callers \ {c} : frame'[d] = frame[d]
<1>0. frame[c] \in Frame /\ frame[c].is = "none" /\ frame[c].got = None /\ frame[c].pc = "called"
  BY DEF IInv, VaultTypeOK, FramesOK, FrameOK, AnswerOK, Waits, AppendReads, Called, At
<1>1. PICK f : f = [frame[c] EXCEPT !.op = "update", !.text = @ \cup notes[Note(c)]]
  OBVIOUS
<1>2. /\ f.pc = "called" /\ f.op = "update" /\ f.is = "none" /\ f.got = None
      /\ f.input = frame[c].input /\ f.text = frame[c].text \cup notes[Note(c)]
  BY <1>0, <1>1 DEF Frame
<1>3. Goto(c, f)
  BY <1>1 DEF AppendReads
<1>. QED
  BY <1>2, <1>3, GoesTo

\* Frames that differ in what callers are not told of.
Alike(f, g) ==
    /\ g.op = f.op /\ g.input = f.input /\ g.text = f.text
    /\ g.is = f.is /\ g.got = f.got

LEMMA CreatesFrame ==
    ASSUME IInv, NEW c \in Callers, CreateTemp(c)
    PROVE  /\ frame[c].pc = "called" /\ frame'[c].pc = "write" /\ Alike(frame[c], frame'[c])
           /\ \A d \in Callers \ {c} : frame'[d] = frame[d]
<1>0. frame[c] \in Frame
  BY DEF IInv, VaultTypeOK
<1>1. PICK n \in Temps : Goto(c, [frame[c] EXCEPT !.pc = "write", !.tmp = n])
  BY DEF CreateTemp
<1>2. PICK f : f = [frame[c] EXCEPT !.pc = "write", !.tmp = n]
  OBVIOUS
<1>3. f.pc = "write" /\ Alike(frame[c], f)
  BY <1>0, <1>2 DEF Frame, Alike
<1>. QED
  BY <1>1, <1>2, <1>3, GoesTo DEF CreateTemp, Called, At

LEMMA WalksFrame ==
    ASSUME IInv, NEW c \in Callers, StartWalk(c) \/ ReadDir(c) \/ Look(c)
    PROVE  /\ frame[c].pc \in {"called", "walk"} /\ frame'[c].pc = "walk"
           /\ Alike(frame[c], frame'[c])
           /\ \A d \in Callers \ {c} : frame'[d] = frame[d]
<1>0. frame[c] \in Frame /\ frame[c].pc \in {"called", "walk"}
  BY DEF IInv, VaultTypeOK, StartWalk, ReadDir, Look, Called, At
<1>. DEFINE Walking(f) == f.pc = "walk" /\ Alike(frame[c], f)
<1>1. ASSUME StartWalk(c) PROVE \E f : Walking(f) /\ Goto(c, f)
  <2>1. PICK f : f = [frame[c] EXCEPT !.pc = "walk", !.todo = {<<>>}]
    OBVIOUS
  <2>2. Walking(f)
    BY <1>0, <2>1 DEF Frame, Alike
  <2>. QED
    BY <1>1, <2>1, <2>2 DEF StartWalk
<1>2. ASSUME ReadDir(c) PROVE \E f : Walking(f) /\ Goto(c, f)
  <2>1. PICK todo : Goto(c, [frame[c] EXCEPT !.todo = todo])
    BY <1>2 DEF ReadDir
  <2>2. PICK f : f = [frame[c] EXCEPT !.todo = todo]
    OBVIOUS
  <2>3. Walking(f)
    BY <1>0, <1>2, <2>2 DEF Frame, Alike, ReadDir, At
  <2>. QED
    BY <2>1, <2>2, <2>3
<1>3. ASSUME Look(c) PROVE \E f : Walking(f) /\ Goto(c, f)
  <2>1. PICK n : Goto(c, [frame[c] EXCEPT !.todo = @ \ {n}, !.found = @ \cup {n}])
    BY <1>3 DEF Look
  <2>2. PICK f : f = [frame[c] EXCEPT !.todo = @ \ {n}, !.found = @ \cup {n}]
    OBVIOUS
  <2>3. Walking(f)
    BY <1>0, <1>3, <2>2 DEF Frame, Alike, Look, At
  <2>. QED
    BY <2>1, <2>2, <2>3
<1>4. PICK f : Walking(f) /\ Goto(c, f)
  BY <1>1, <1>2, <1>3
<1>. QED
  BY <1>0, <1>4, GoesTo

\* A search that goes on to, or with, the files.
LEMMA ScansFrame ==
    ASSUME IInv, NEW c \in Callers, (WalkDone(c) /\ ~Returns(c, "ok", None)) \/ Scan(c)
    PROVE  /\ frame[c].pc \in {"walk", "scan"} /\ frame'[c].pc = "scan"
           /\ Alike(frame[c], frame'[c])
           /\ \A d \in Callers \ {c} : frame'[d] = frame[d]
<1>0. frame[c] \in Frame /\ frame[c].pc \in {"walk", "scan"}
  BY DEF IInv, VaultTypeOK, WalkDone, Scan, At
<1>. DEFINE Scanning(f) == f.pc = "scan" /\ Alike(frame[c], f)
<1>1. ASSUME WalkDone(c), ~Returns(c, "ok", None) PROVE \E f : Scanning(f) /\ Goto(c, f)
  <2>1. PICK f : f = [frame[c] EXCEPT !.pc = "scan", !.todo = frame[c].found, !.found = {}]
    OBVIOUS
  <2>2. Scanning(f)
    BY <1>0, <2>1 DEF Frame, Alike
  <2>. QED
    BY <1>1, <2>1, <2>2 DEF WalkDone
<1>2. ASSUME Scan(c) PROVE \E f : Scanning(f) /\ Goto(c, f)
  <2>1. PICK n : Goto(c, [frame[c] EXCEPT !.todo = @ \ {n}])
    BY <1>2 DEF Scan
  <2>2. PICK f : f = [frame[c] EXCEPT !.todo = @ \ {n}]
    OBVIOUS
  <2>3. Scanning(f)
    BY <1>0, <1>2, <2>2 DEF Frame, Alike, Scan, At
  <2>. QED
    BY <2>1, <2>2, <2>3
<1>3. PICK f : Scanning(f) /\ Goto(c, f)
  BY <1>1, <1>2
<1>. QED
  BY <1>0, <1>3, GoesTo

\* Only its own walk takes a caller's frame to or through the phase "walk".
LEMMA WalkSteps ==
    ASSUME IInv, NEW c \in Callers, Step(c)
    PROVE  /\ \A d \in Callers \ {c} : frame'[d] = frame[d]
           /\ frame'[c].pc = "walk" => StartWalk(c) \/ ReadDir(c) \/ Look(c)
           /\ At(c, "walk") /\ frame'[c].pc # "walk" =>
                 frame'[c].is = "error" \/ frame[c].todo = {}
<1>. USE DEF At
<1>1. CASE Begin(c)
  BY <1>1, BeginFrame
<1>2. CASE Return(c)
  BY <1>2, GoesTo DEF Return, Idle
<1>3. CASE Rejected(c) \/ Read(c) \/ Delete(c)
  <2>1. frame[c].pc = "called" /\ \E is, got : Returns(c, is, got)
    BY <1>3 DEF Rejected, Read, Delete, Called
  <2>. QED
    BY <2>1, Returned
<1>4. CASE CreateLooks(c)
  <2>1. frame[c].pc = "called"
    BY <1>4 DEF CreateLooks, Called
  <2>2. CASE notes[Note(c)] = None
    BY <1>4, <2>1, <2>2, LooksFrame
  <2>3. CASE notes[Note(c)] # None
    BY <1>4, <2>1, <2>3, Returned DEF CreateLooks
  <2>. QED
    BY <2>2, <2>3
<1>5. CASE AppendReads(c)
  <2>1. frame[c].pc = "called"
    BY <1>5 DEF AppendReads, Called
  <2>2. CASE notes[Note(c)] # None
    BY <1>5, <2>1, <2>2, AppendsFrame
  <2>3. CASE notes[Note(c)] = None
    BY <1>5, <2>1, <2>3, Returned DEF AppendReads
  <2>. QED
    BY <2>2, <2>3
<1>6. CASE CreateTemp(c)
  BY <1>6, CreatesFrame
<1>7. CASE Rename(c) \/ WriteFails(c)
  <2>1. frame[c].pc = "write" /\ \E is : Settles(c, is)
    BY <1>7 DEF Rename, WriteFails
  <2>. QED
    BY <2>1, Settled
<1>8. CASE CleanUp(c) \/ CleanUpFails(c)
  <2>1. frame[c].pc = "cleanup" /\ Returns(c, frame[c].is, None)
    BY <1>8 DEF CleanUp, CleanUpFails
  <2>. QED
    BY <2>1, Returned
<1>9. CASE StartWalk(c) \/ ReadDir(c) \/ Look(c)
  BY <1>9, WalksFrame
<1>10. CASE WalkFails(c)
  BY <1>10, Returned DEF WalkFails
<1>11. CASE WalkDone(c) \/ ScanDone(c)
  <2>1. CASE Returns(c, "ok", None)
    BY <1>11, <2>1, Returned DEF WalkDone, ScanDone
  <2>2. CASE WalkDone(c) /\ ~Returns(c, "ok", None)
    BY <2>2, ScansFrame DEF WalkDone
  <2>. QED
    BY <1>11, <2>1, <2>2 DEF ScanDone
<1>12. CASE Scan(c)
  BY <1>12, ScansFrame DEF Scan
<1>. QED
  BY <1>1, <1>2, <1>3, <1>4, <1>5, <1>6, <1>7, <1>8, <1>9, <1>10, <1>11, <1>12 DEF Step

LEMMA NextWalkInv ==
    ASSUME IInv, WalkInv, [VaultNext]_vars
    PROVE  WalkInv'
<1>0. frame \in [Callers -> Frame]
  BY DEF IInv, VaultTypeOK
<1>1. CASE UNCHANGED vars
  BY <1>1 DEF vars, WalkInv, At, NotesNow, Target, Ahead
<1>2. ASSUME VaultNext, NEW c \in Callers, frame'[c].pc = "walk"
      PROVE  /\ always'[c] \subseteq NotesNow'
             /\ \A n \in always'[c] :
                   Below(n, Target(frame'[c])) =>
                      n \in frame'[c].found \/ Ahead(frame'[c], n)
  <2>1. always'[c] = (IF At(c, "walk") THEN always[c] ELSE NotesNow) \cap NotesNow'
    BY <1>2 DEF VaultNext, KeepHistory
  <2>2. PICK b \in Callers : Step(b)
    BY <1>2, IdleOK DEF VaultNext, Crash, Idle
  <2>3. CASE b # c
    <3>1. frame'[c] = frame[c]
      BY <2>2, <2>3, WalkSteps
    <3>. QED
      BY <1>2, <2>1, <3>1 DEF WalkInv, At
  <2>4. CASE b = c /\ StartWalk(c)
    <3>1. PICK f : f = [frame[c] EXCEPT !.pc = "walk", !.todo = {<<>>}]
      OBVIOUS
    <3>2. frame'[c] = f /\ f.todo = {<<>>}
      BY <1>0, <2>4, <3>1 DEF StartWalk, Goto, Frame
    <3>3. always'[c] \subseteq Notes
      BY <2>1, <2>4 DEF StartWalk, Called, At, NotesNow
    <3>. QED
      BY <2>1, <3>2, <3>3, RootAbove, RootIsDir DEF Ahead
  <2>5. CASE b = c /\ (ReadDir(c) \/ Look(c))
    <3>1. At(c, "walk")
      BY <2>5 DEF ReadDir, Look
    <3>2. frame'[c].op = frame[c].op /\ frame'[c].input = frame[c].input
      BY <2>5, WalksFrame DEF Alike
    <3>3. Target(frame'[c]) = Target(frame[c])
      BY <3>2 DEF Target
    <3>. QED
      BY <2>1, <2>5, <3>1, <3>3, StillAhead
  <2>. QED
    BY <1>2, <2>2, <2>3, <2>4, <2>5, WalkSteps
<1>. QED
  BY <1>1, <1>2 DEF WalkInv, At

LEMMA WalkInvariance == VaultSpec => [](IInv /\ WalkInv)
<1>1. VaultInit => WalkInv
  BY DEF VaultInit, WalkInv, At, Idle
<1>. QED
  BY <1>1, IInvInit, NextIInv, NextWalkInv, PTL DEF VaultSpec

\* For any notes, directories, callers and failures: a walk that does not fail has
\* found every note below its prefix that was there from its beginning to its end.
THEOREM WalksComplete == VaultSpec => WalkComplete
<1>. DEFINE Full(c) ==
       At(c, "walk") /\ frame'[c].pc \in {"scan", "return"} /\ frame'[c].is # "error"
         => {n \in always[c] : Below(n, Target(frame[c]))} \subseteq frame[c].found
<1>1. ASSUME IInv, WalkInv, VaultNext, NEW c \in Callers PROVE Full(c)
  <2>. SUFFICES ASSUME At(c, "walk"), frame'[c].pc \in {"scan", "return"},
                       frame'[c].is # "error"
                PROVE  {n \in always[c] : Below(n, Target(frame[c]))} \subseteq frame[c].found
    OBVIOUS
  <2>1. PICK b \in Callers : Step(b)
    BY <1>1, IdleOK DEF VaultNext, Crash, Idle
  <2>2. b = c
    BY <1>1, <2>1, WalkSteps DEF At
  <2>3. frame[c].todo = {}
    BY <1>1, <2>1, <2>2, WalkSteps
  <2>. QED
    BY <1>1, <2>3 DEF WalkInv, Ahead
<1>2. IInv /\ WalkInv /\ [VaultNext]_vars => [\A c \in Callers : Full(c)]_vars
  BY <1>1
<1>. QED
  BY <1>2, WalkInvariance, PTL DEF VaultSpec, WalkComplete
-----------------------------------------------------------------------------
(* The store of notes *)

\* What one frame asks for and was answered.
AskedBy(f) ==
    IF f.pc = "idle" \/ f.is # "none" THEN None
    ELSE [op |-> f.op, input |-> f.input, text |-> f.text]
AnswerIn(f) == [is |-> f.is, text |-> f.got]

\* What others asked for and were answered does not change with one's own frame.
LEMMA OneAsked ==
    ASSUME NEW c \in Callers, NEW A, NEW R, AskedBy(frame'[c]) = A, AnswerIn(frame'[c]) = R,
           \A d \in Callers \ {c} : frame'[d] = frame[d]
    PROVE  /\ Asked' = [Asked EXCEPT ![c] = A]
           /\ Answered' = [Answered EXCEPT ![c] = R]
BY DEF Asked, Answered, AskedBy, AnswerIn

LEMMA AskedOf ==
    ASSUME NEW c \in Callers
    PROVE  Asked[c] = AskedBy(frame[c]) /\ Answered[c] = AnswerIn(frame[c])
BY DEF Asked, Answered, AskedBy, AnswerIn

\* A call without an answer is waited for.
LEMMA WaitsFor ==
    ASSUME IInv, NEW c \in Callers, Waits(frame[c])
    PROVE  /\ Asked[c] # None /\ frame[c].is = "none"
           /\ Asked[c] = [op |-> frame[c].op, input |-> frame[c].input, text |-> frame[c].text]
<1>1. frame[c] \in Frame /\ FrameOK(frame[c])
  BY DEF IInv, VaultTypeOK, FramesOK
<1>2. frame[c].is = "none" /\ frame[c].pc # "idle"
  BY <1>1 DEF FrameOK, AnswerOK, Waits
<1>3. Asked[c] = [op |-> frame[c].op, input |-> frame[c].input, text |-> frame[c].text]
  BY <1>2 DEF Asked
<1>4. CASE frame[c].input \in Inputs \cup Folders
  <2>1. Asked[c] \in [op : Ops, input : Inputs \cup Folders, text : Data \cup {None}]
    BY <1>1, <1>3, <1>4 DEF Frame
  <2>. QED
    BY <1>2, <1>3, <2>1, NamesAssumption
<1>. QED
  BY <1>1, <1>2, <1>3, <1>4
     DEF FrameOK, CalledOK, WritesOK, WalksOK, Waits

\* A step that changes a frame only in what callers are not told of is no step of theirs.
LEMMA Unnoticed ==
    ASSUME IInv, NEW c \in Callers, Waits(frame[c]), Waits(frame'[c]), Alike(frame[c], frame'[c]),
           \A d \in Callers \ {c} : frame'[d] = frame[d], notes' = notes
    PROVE  UNCHANGED <<notes, Asked, Answered>>
<1>1. AskedBy(frame'[c]) = AskedBy(frame[c]) /\ AnswerIn(frame'[c]) = AnswerIn(frame[c])
  BY DEF Alike, AskedBy, AnswerIn, Waits
<1>2. Asked' = [Asked EXCEPT ![c] = AskedBy(frame[c])]
      /\ Answered' = [Answered EXCEPT ![c] = AnswerIn(frame[c])]
  BY <1>1, OneAsked
<1>. QED
  BY <1>2, AskedOf DEF Asked, Answered

\* A call that is answered, by return or by the outcome of a write.
LEMMA Gives ==
    ASSUME IInv, NEW c \in Callers, NEW is \in {"ok", "error"}, NEW got,
           frame'[c].pc # "idle", frame'[c].is = is, frame'[c].got = got,
           \A d \in Callers \ {c} : frame'[d] = frame[d]
    PROVE  Promise!Give(c, [is |-> is, text |-> got])
<1>1. AskedBy(frame'[c]) = None /\ AnswerIn(frame'[c]) = [is |-> is, text |-> got]
  BY DEF AskedBy, AnswerIn
<1>. QED
  BY <1>1, OneAsked DEF Promise!Give

LEMMA Fails ==
    ASSUME IInv, NEW c \in Callers, Waits(frame[c]), notes' = notes,
           Returns(c, "error", None) \/ Settles(c, "error")
    PROVE  Promise!Fail(c)
<1>1. frame'[c].pc # "idle" /\ frame'[c].is = "error" /\ frame'[c].got = None
      /\ \A d \in Callers \ {c} : frame'[d] = frame[d]
  BY Returned, Settled
<1>2. Promise!Give(c, [is |-> "error", text |-> None])
  BY <1>1, Gives
<1>. QED
  BY <1>2, WaitsFor DEF Promise!Fail, Promise!Error

\* The note an accepted path means is the one path.Clean makes of it.
LEMMA MeansIt ==
    ASSUME NEW i \in Inputs, CleanNote[i] # Invalid
    PROVE  i \in DOMAIN Meant /\ Meant[i] = CleanNote[i]
<1>1. CleanNote[i] = ValidateNotePath(i) /\ CleanNote[i] \in Notes
  BY Cleaned DEF CleanNote
<1>2. ~IsAbs(i) /\ ~Leaves(i) /\ ValidateNotePath(i) = Place(i)
  <2>1. i \in Seq(STRING)
    BY InputsAssumption
  <2>2. NamesItsPlace(i)
    BY <2>1, PathsMean
  <2>. QED
    BY <1>1, <2>2 DEF NamesItsPlace
<1>. QED
  BY <1>1, <1>2 DEF Meant

\* An operation that has passed the check of its path is on the note it means.
LEMMA OnItsNote ==
    ASSUME IInv, NEW c \in Callers, Waits(frame[c]),
           frame[c].input \in Inputs, CleanNote[frame[c].input] # Invalid
    PROVE  /\ Asked[c] # None /\ Asked[c].input \in DOMAIN Meant
           /\ Meant[Asked[c].input] = Note(c)
           /\ Asked[c].op = frame[c].op /\ Asked[c].text = frame[c].text
<1>1. Asked[c] # None
      /\ Asked[c] = [op |-> frame[c].op, input |-> frame[c].input, text |-> frame[c].text]
  BY WaitsFor
<1>2. PICK i \in Inputs : i = frame[c].input
  OBVIOUS
<1>3. i \in DOMAIN Meant /\ Meant[i] = CleanNote[i]
  BY <1>2, MeansIt
<1>. QED
  BY <1>1, <1>2, <1>3 DEF Note

LEMMA Asks ==
    ASSUME IInv, IInv', NEW c \in Callers, Begin(c)
    PROVE  Promise!Ask(c)
<1>1. /\ frame[c].pc = "idle" /\ frame'[c].pc = "called" /\ frame'[c].is = "none"
      /\ frame'[c].got = None
      /\ \A d \in Callers \ {c} : frame'[d] = frame[d]
  BY BeginFrame
<1>2. /\ frame[c].is = "none" /\ frame[c].got = None
  BY <1>1 DEF IInv, FramesOK, FrameOK, AnswerOK, Waits
<1>3. Asked[c] = None /\ Answered[c] = [is |-> "none", text |-> None]
  BY <1>1, <1>2, AskedOf DEF AskedBy, AnswerIn
<1>4. PICK a : a = [op |-> frame'[c].op, input |-> frame'[c].input, text |-> frame'[c].text]
  OBVIOUS
<1>5. a \in [op : Ops, input : Inputs \cup Folders, text : Data \cup {None}]
  <2>1. frame'[c] \in Frame /\ FrameOK(frame'[c])
    BY DEF IInv, VaultTypeOK, FramesOK
  <2>. QED
    BY <1>1, <1>4, <2>1 DEF Frame, FrameOK, CalledOK
<1>6. AskedBy(frame'[c]) = a /\ AnswerIn(frame'[c]) = Answered[c]
  BY <1>1, <1>3, <1>4 DEF AskedBy, AnswerIn
<1>7. Asked' = [Asked EXCEPT ![c] = a] /\ Answered' = [Answered EXCEPT ![c] = Answered[c]]
  BY <1>1, <1>6, OneAsked
<1>8. Asked'[c] = a
  BY <1>7 DEF Asked
<1>9. Answered' = Answered /\ notes' = notes
  BY <1>7 DEF Answered, Begin
<1>. QED
  BY <1>3, <1>5, <1>7, <1>8, <1>9 DEF Promise!Ask, Promise!NoAnswer, Ops

LEMMA Decides ==
    ASSUME IInv, NEW c \in Callers,
           \/ CreateLooks(c) /\ notes[Note(c)] = None
           \/ AppendReads(c) /\ notes[Note(c)] # None
    PROVE  Promise!OnNote(c)
<1>0. /\ Waits(frame[c]) /\ frame[c].input \in Inputs
      /\ CleanNote[frame[c].input] # Invalid
  BY TextsTyped DEF CreateLooks, AppendReads, Called, At, Waits, Target
<1>1. /\ Asked[c] # None /\ Asked[c].input \in DOMAIN Meant
      /\ Meant[Asked[c].input] = Note(c)
      /\ Asked[c].op = frame[c].op /\ Asked[c].text = frame[c].text
  BY <1>0, OnItsNote
<1>2. /\ Asked[c] = [op |-> frame[c].op, input |-> frame[c].input, text |-> frame[c].text]
      /\ frame[c].is = "none" /\ frame[c].got = None
  BY <1>0, WaitsFor DEF IInv, FramesOK, FrameOK, AnswerOK, Waits
<1>3. CASE CreateLooks(c) /\ notes[Note(c)] = None
  <2>1. /\ frame'[c].pc = "called" /\ frame'[c].op = "update" /\ frame'[c].is = "none"
        /\ frame'[c].got = None
        /\ frame'[c].input = frame[c].input /\ frame'[c].text = frame[c].text
        /\ \A d \in Callers \ {c} : frame'[d] = frame[d]
    BY <1>3, LooksFrame
  <2>2. PICK a : a = [Asked[c] EXCEPT !.op = "update"]
    OBVIOUS
  <2>3. a = [op |-> "update", input |-> frame[c].input, text |-> frame[c].text]
    BY <1>2, <2>2
  <2>4. AskedBy(frame'[c]) = a /\ AnswerIn(frame'[c]) = Answered[c]
    BY <1>2, <2>1, <2>3, AskedOf DEF AskedBy, AnswerIn
  <2>5. Asked' = [Asked EXCEPT ![c] = a] /\ Answered' = [Answered EXCEPT ![c] = Answered[c]]
    BY <2>1, <2>4, OneAsked
  <2>6. Asked' = [Asked EXCEPT ![c].op = "update"]
    BY <2>2, <2>5
  <2>7. Answered' = Answered /\ notes' = notes
    BY <1>3, <2>5 DEF Answered, CreateLooks
  <2>8. frame[c].op = "create"
    BY <1>3 DEF CreateLooks, Called
  <2>. QED
    BY <1>1, <1>3, <2>6, <2>7, <2>8 DEF Promise!OnNote, Promise!Decide, Promise!Waiting
<1>4. CASE AppendReads(c) /\ notes[Note(c)] # None
  <2>1. /\ frame'[c].pc = "called" /\ frame'[c].op = "update" /\ frame'[c].is = "none"
        /\ frame'[c].got = None
        /\ frame'[c].input = frame[c].input
        /\ frame'[c].text = frame[c].text \cup notes[Note(c)]
        /\ \A d \in Callers \ {c} : frame'[d] = frame[d]
    BY <1>4, AppendsFrame
  <2>2. PICK a : a = [Asked[c] EXCEPT !.op = "update", !.text = @ \cup notes[Note(c)]]
    OBVIOUS
  <2>3. a = [op |-> "update", input |-> frame[c].input, text |-> frame[c].text \cup notes[Note(c)]]
    <3>1. PICK b : b = [Asked[c] EXCEPT !.op = "update"]
      OBVIOUS
    <3>2. b = [op |-> "update", input |-> frame[c].input, text |-> frame[c].text]
      BY <1>2, <3>1
    <3>3. a = [b EXCEPT !.text = frame[c].text \cup notes[Note(c)]]
      BY <1>1, <2>2, <3>1
    <3>. QED
      BY <3>2, <3>3
  <2>4. AskedBy(frame'[c]) = a /\ AnswerIn(frame'[c]) = Answered[c]
    BY <1>2, <2>1, <2>3, AskedOf DEF AskedBy, AnswerIn
  <2>5. Asked' = [Asked EXCEPT ![c] = a] /\ Answered' = [Answered EXCEPT ![c] = Answered[c]]
    BY <2>1, <2>4, OneAsked
  <2>6. Asked' = [Asked EXCEPT ![c].op = "update", ![c].text = @ \cup notes[Note(c)]]
    BY <2>2, <2>5
  <2>7. Answered' = Answered /\ notes' = notes
    BY <1>4, <2>5 DEF Answered, AppendReads
  <2>8. frame[c].op = "append"
    BY <1>4 DEF AppendReads, Called
  <2>. QED
    BY <1>1, <1>4, <2>6, <2>7, <2>8 DEF Promise!OnNote, Promise!Decide, Promise!Waiting
<1>. QED
  BY <1>3, <1>4

LEMMA Puts ==
    ASSUME IInv, NEW c \in Callers, Rename(c)
    PROVE  Promise!OnNote(c)
<1>0. /\ Waits(frame[c]) /\ frame[c].input \in Inputs /\ frame[c].op = "update"
      /\ CleanNote[frame[c].input] # Invalid
  BY DEF Rename, At, Waits, IInv, FramesOK, FrameOK, WritesOK
<1>1. /\ Asked[c] # None /\ Asked[c].input \in DOMAIN Meant
      /\ Meant[Asked[c].input] = Note(c)
      /\ Asked[c].op = frame[c].op /\ Asked[c].text = frame[c].text
  BY <1>0, OnItsNote
<1>2. Promise!Give(c, [is |-> "ok", text |-> None])
  BY Settled, Gives DEF Rename
<1>. QED
  BY <1>0, <1>1, <1>2
     DEF Rename, Promise!OnNote, Promise!Put, Promise!Waiting, Promise!Ok

LEMMA ReadsRemoves ==
    ASSUME IInv, NEW c \in Callers,
           Read(c) \/ Delete(c), notes[Note(c)] # None
    PROVE  Promise!OnNote(c)
<1>0. /\ Waits(frame[c]) /\ frame[c].input \in Inputs
      /\ CleanNote[frame[c].input] # Invalid
  BY TextsTyped DEF Read, Delete, Called, At, Waits, Target
<1>1. /\ Asked[c] # None /\ Asked[c].input \in DOMAIN Meant
      /\ Meant[Asked[c].input] = Note(c)
      /\ Asked[c].op = frame[c].op /\ Asked[c].text = frame[c].text
  BY <1>0, OnItsNote
<1>2. CASE Read(c)
  <2>1. Returns(c, "ok", notes[Note(c)])
    BY <1>2 DEF Read
  <2>2. Promise!Give(c, [is |-> "ok", text |-> notes[Note(c)]])
    BY <2>1, Returned, Gives
  <2>. QED
    BY <1>1, <1>2, <2>2
       DEF Read, Called, Promise!OnNote, Promise!Get, Promise!Waiting, Promise!Ok
<1>3. CASE Delete(c)
  <2>1. Returns(c, "ok", None)
    BY <1>3 DEF Delete
  <2>2. Promise!Give(c, [is |-> "ok", text |-> None])
    BY <2>1, Returned, Gives
  <2>. QED
    BY <1>1, <1>3, <2>2
       DEF Delete, Called, Promise!OnNote, Promise!Remove, Promise!Waiting, Promise!Ok
<1>. QED
  BY <1>2, <1>3

\* There is no such note, or there is one already.
LEMMA FindsNothing ==
    ASSUME IInv, NEW c \in Callers,
           \/ (Read(c) \/ Delete(c) \/ AppendReads(c)) /\ notes[Note(c)] = None
           \/ CreateLooks(c) /\ notes[Note(c)] # None
    PROVE  Promise!Fail(c)
<1>1. Waits(frame[c])
  BY DEF Read, Delete, AppendReads, CreateLooks, Called, At, Waits
<1>2. Returns(c, "error", None)
  BY DEF Read, Delete, AppendReads, CreateLooks
<1>3. notes' = notes
  BY DEF Read, Delete, AppendReads, CreateLooks, IInv, VaultTypeOK
<1>. QED
  BY <1>1, <1>2, <1>3, Fails

LEMMA Lists ==
    ASSUME IInv, NEW c \in Callers, WalkDone(c) \/ ScanDone(c), Returns(c, "ok", None)
    PROVE  Promise!List(c)
<1>1. Waits(frame[c]) /\ frame[c].op = "list" /\ notes' = notes
  BY DEF WalkDone, ScanDone, At, Waits, IInv, FramesOK, FrameOK, WalksOK
<1>2. Promise!Give(c, [is |-> "ok", text |-> None])
  BY Returned, Gives
<1>3. Asked[c] # None
      /\ Asked[c] = [op |-> frame[c].op, input |-> frame[c].input, text |-> frame[c].text]
  BY <1>1, WaitsFor
<1>4. Asked[c].op = "list"
  BY <1>1, <1>3
<1>. QED
  BY <1>1, <1>2, <1>3, <1>4 DEF Promise!List, Promise!Waiting, Promise!Ok

\* The answer of a write, settled before, is returned.
LEMMA AnswerStands ==
    ASSUME IInv, NEW c \in Callers, CleanUp(c) \/ CleanUpFails(c)
    PROVE  UNCHANGED <<notes, Asked, Answered>>
<1>1. /\ frame[c].is # "none" /\ frame[c].got = None /\ notes' = notes
      /\ Returns(c, frame[c].is, None)
  BY DEF CleanUp, CleanUpFails, At, IInv, FramesOK, FrameOK, AnswerOK, Waits
<1>2. /\ frame'[c].is = frame[c].is /\ frame'[c].got = frame[c].got
      /\ \A d \in Callers \ {c} : frame'[d] = frame[d]
  BY <1>1, Returned
<1>3. AskedBy(frame'[c]) = AskedBy(frame[c]) /\ AnswerIn(frame'[c]) = AnswerIn(frame[c])
  BY <1>1, <1>2 DEF AskedBy, AnswerIn
<1>4. Asked' = [Asked EXCEPT ![c] = AskedBy(frame[c])]
      /\ Answered' = [Answered EXCEPT ![c] = AnswerIn(frame[c])]
  BY <1>2, <1>3, OneAsked
<1>. QED
  BY <1>1, <1>4, AskedOf DEF Asked, Answered

LEMMA TakesIn ==
    ASSUME IInv, NEW c \in Callers, Return(c)
    PROVE  Promise!TakeIn(c)
<1>1. frame[c].is # "none" /\ notes' = notes
  BY DEF Return, At, IInv, FramesOK, FrameOK, AnswerOK, Waits
<1>2. frame'[c] = Idle /\ \A d \in Callers \ {c} : frame'[d] = frame[d]
  BY GoesTo DEF Return
<1>3. AskedBy(frame'[c]) = AskedBy(frame[c]) /\ AnswerIn(frame'[c]) = [is |-> "none", text |-> None]
  BY <1>1, <1>2 DEF AskedBy, AnswerIn, Idle
<1>4. Asked' = [Asked EXCEPT ![c] = AskedBy(frame[c])]
      /\ Answered' = [Answered EXCEPT ![c] = [is |-> "none", text |-> None]]
  BY <1>2, <1>3, OneAsked
<1>5. Asked' = Asked
  BY <1>4, AskedOf DEF Asked
<1>. QED
  BY <1>1, <1>4, <1>5 DEF Promise!TakeIn, Promise!NoAnswer

LEMMA StepImplements ==
    ASSUME IInv, IInv', NEW c \in Callers, Step(c)
    PROVE  Promise!StoreNext \/ UNCHANGED <<notes, Asked, Answered>>
<1>. USE DEF Promise!StoreNext
<1>1. CASE Begin(c)
  BY <1>1, Asks
<1>2. CASE Rejected(c)
  BY <1>2, Fails DEF Rejected, At, Waits
<1>3. CASE Return(c)
  BY <1>3, TakesIn
<1>4. CASE Read(c) \/ Delete(c)
  BY <1>4, ReadsRemoves, FindsNothing
<1>5. CASE CreateLooks(c) \/ AppendReads(c)
  BY <1>5, Decides, FindsNothing
<1>6. CASE CreateTemp(c)
  <2>1. Waits(frame[c]) /\ Waits(frame'[c]) /\ notes' = notes
    BY <1>6, CreatesFrame DEF Waits, CreateTemp
  <2>. QED
    BY <1>6, <2>1, CreatesFrame, Unnoticed
<1>7. CASE Rename(c)
  BY <1>7, Puts
<1>8. CASE WriteFails(c)
  BY <1>8, Fails DEF WriteFails, At, Waits
<1>9. CASE CleanUp(c) \/ CleanUpFails(c)
  BY <1>9, AnswerStands
<1>10. CASE StartWalk(c) \/ ReadDir(c) \/ Look(c)
  <2>1. Waits(frame[c]) /\ Waits(frame'[c]) /\ notes' = notes
    BY <1>10, WalksFrame DEF Waits, StartWalk, ReadDir, Look
  <2>. QED
    BY <1>10, <2>1, WalksFrame, Unnoticed
<1>11. CASE WalkFails(c)
  BY <1>11, Fails DEF WalkFails, At, Waits
<1>12. CASE (WalkDone(c) \/ ScanDone(c)) /\ Returns(c, "ok", None)
  BY <1>12, Lists
<1>13. CASE (WalkDone(c) /\ ~Returns(c, "ok", None)) \/ Scan(c)
  <2>1. Waits(frame[c]) /\ Waits(frame'[c]) /\ notes' = notes
    BY <1>13, ScansFrame DEF Waits, WalkDone, Scan
  <2>. QED
    BY <1>13, <2>1, ScansFrame, Unnoticed
<1>. QED
  BY <1>1, <1>2, <1>3, <1>4, <1>5, <1>6, <1>7, <1>8, <1>9, <1>10, <1>11, <1>12, <1>13
     DEF Step, ScanDone

LEMMA NextImplements ==
    ASSUME IInv, IInv', [VaultNext]_vars
    PROVE  [Promise!StoreNext]_<<notes, Asked, Answered>>
<1>1. CASE UNCHANGED vars
  BY <1>1 DEF vars, Asked, Answered
<1>2. CASE Crash
  BY <1>2 DEF Crash, Asked, Answered, Idle, Promise!StoreNext, Promise!Forget, Promise!NoAnswer
<1>. QED
  BY <1>1, <1>2, StepImplements DEF VaultNext

LEMMA InitImplements == VaultInit => Promise!StoreInit
BY DEF VaultInit, Asked, Answered, Idle, Promise!StoreInit, Promise!NoAnswer

\* For any notes, paths, texts, callers and failures: whatever others do, a call is
\* answered as if it were one step on a store of whole notes, and one that fails or dies
\* changes none.
THEOREM NotesImplemented == VaultSpec => NotesAtomic
<1>1. IInv /\ IInv' /\ [VaultNext]_vars => [Promise!StoreNext]_<<notes, Asked, Answered>>
  BY NextImplements
<1>2. IInv /\ IInv' /\ [VaultNext]_vars => [Promise!StoreNext]_Promise!storeVars
  BY <1>1 DEF Promise!storeVars
<1>. QED
  BY <1>2, InitImplements, Invariance, PTL DEF VaultSpec, NotesAtomic, Promise!StoreSpec

\* However long a path is and whatever its segments: it is accepted if a walk along it
\* never leaves the vault and ends at a note, and it is then that note.
THEOREM PathsAreNamed == VaultSpec => []PathsNamed
<1>1. PathsNamed
  BY InputsAssumption, PathsMean DEF PathsNamed
<1>. QED
  BY <1>1, PTL
=============================================================================
