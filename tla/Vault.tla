------------------------------- MODULE Vault -------------------------------
(***************************************************************************)
(* The vault (internal/vault/vault.go): the operations of the note         *)
(* directory, run by several requests at once and under no lock, one file  *)
(* system call at a time.  A note is written to a temporary file beside it *)
(* and renamed into place.  The temporary file ends in .md too, so that    *)
(* those who walk the directory meanwhile meet it.                         *)
(*                                                                         *)
(* A text is a set of pieces.  Directories exist already; there are no     *)
(* symbolic links.                                                         *)
(***************************************************************************)
EXTENDS NotePath

CONSTANTS
    Notes,          \* clean paths of notes
    Temps,          \* the files CreateTemp may create: .tmp-*.md, .download-*.md
    Spellings,      \* ways to write a path
    Inputs,         \* the paths clients name; none names a temporary file
    Folders,        \* the prefixes they list and search below
    Pieces,         \* what they write
    Data,           \* the texts a note may have
    Callers,
    Walkers,        \* those of them who list and search
    None,
    Order,          \* directories and files in the order of a walk
    AllowDelete,    \* ALLOW_DELETE
    Faults          \* file system calls may fail

Ops == {"read", "create", "update", "append", "delete", "list"}

Dirs == {Front(p) : p \in Notes}
Names == Notes \cup Temps

ASSUME NamesAssumption ==
    /\ Notes \cap Temps = {} /\ Dirs \cap Names = {}
    /\ None \notin Names \cup Inputs \cup Folders
    /\ None \notin [op : Ops, input : Inputs \cup Folders, text : Data \cup {None}]
\* The directories are those the notes are in, and those these are in.
ASSUME DirsAssumption ==
    /\ Notes # {} /\ Notes \subseteq Seq(STRING) \ {<<>>}
    /\ \A d \in Dirs : \A k \in 0 .. Len(d) : SubSeq(d, 1, k) \in Dirs
ASSUME DataAssumption ==
    /\ Data \subseteq (SUBSET Pieces) \ {{}}
    /\ \A x \in Pieces : {x} \in Data /\ \A d \in Data : d \cup {x} \in Data
    /\ None \notin Data
ASSUME InputsAssumption ==
    /\ Spellings \subseteq Seq(STRING) /\ Inputs \subseteq Spellings
    /\ \A i \in Inputs : ValidateNotePath(i) \in Notes \cup {Invalid}
ASSUME OrderAssumption ==
    /\ Range(Order) = Dirs \cup Names /\ IsInjective(Order)
    /\ \A i, j \in DOMAIN Order : Order[i] = Front(Order[j]) => i <= j
ASSUME WalkersAssumption == Walkers \subseteq Callers
ASSUME SwitchAssumption == {AllowDelete, Faults} \subseteq BOOLEAN

VARIABLES
    notes,      \* the files that are notes: path -> text or None
    temps,      \* the temporary files that exist
    frame,      \* each caller's stack frame
    always      \* history: the notes present throughout a caller's walk

vars == <<notes, temps, frame, always>>

Frame == [pc : {"idle", "called", "write", "cleanup", "walk", "scan", "return"},
          op : Ops,
          input : Inputs \cup Folders \cup {None},
          text : Data \cup {None},          \* what to write
          tmp : Temps \cup {None},
          todo : SUBSET (Dirs \cup Names),  \* what a walk has yet to visit
          found : SUBSET Names,             \* notes in List
          is : {"none", "ok", "error"},     \* the answer, as soon as it is settled
          got : Data \cup {None}]

VaultTypeOK ==
    /\ notes \in [Notes -> Data \cup {None}]
    /\ temps \subseteq Temps
    /\ frame \in [Callers -> Frame]
    /\ always \in [Callers -> SUBSET Notes]

Idle == [pc |-> "idle", op |-> "read", input |-> None, text |-> None, tmp |-> None,
         todo |-> {}, found |-> {}, is |-> "none", got |-> None]

VaultInit ==
    /\ notes \in [Notes -> Data \cup {None}]
    /\ temps = {}
    /\ frame = [c \in Callers |-> Idle]
    /\ always = [c \in Callers |-> {}]

-----------------------------------------------------------------------------
(* Helpers *)

At(c, phase) == frame[c].pc = phase

NotesNow == {p \in Notes : notes[p] # None}
Present == NotesNow \cup temps

\* What the code makes of the paths it is given.
CleanNote == [i \in Inputs |-> ValidateNotePath(i)]
CleanFolder == [i \in Folders |-> ValidatePathPrefix(i)]

Target(f) == IF f.op = "list" THEN CleanFolder[f.input] ELSE CleanNote[f.input]

Called(c, op) == At(c, "called") /\ frame[c].op = op /\ Target(frame[c]) # Invalid

Note(c) == CleanNote[frame[c].input]

Goto(c, f) == frame' = [frame EXCEPT ![c] = f]

Returns(c, is, got) ==
    Goto(c, [Idle EXCEPT !.pc = "return", !.is = is, !.got = got])

\* return from atomicWrite: the deferred os.Remove is still to come.
Settles(c, is) == Goto(c, [Idle EXCEPT !.pc = "cleanup", !.tmp = frame[c].tmp, !.is = is])

-----------------------------------------------------------------------------
(* A call *)

Begin(c) ==
    /\ At(c, "idle")
    /\ \/ \E op \in {"read", "delete"}, i \in Inputs :
              Goto(c, [Idle EXCEPT !.pc = "called", !.op = op, !.input = i])
       \/ \E op \in {"create", "update", "append"}, i \in Inputs, x \in Pieces :
              Goto(c, [Idle EXCEPT !.pc = "called", !.op = op, !.input = i, !.text = {x}])
       \/ \E i \in Folders :
              /\ c \in Walkers
              /\ Goto(c, [Idle EXCEPT !.pc = "called", !.op = "list", !.input = i])
    /\ UNCHANGED <<notes, temps>>

\* The path is invalid, deletion is disabled, or a first system call fails.
Rejected(c) ==
    /\ At(c, "called")
    /\ \/ Target(frame[c]) = Invalid
       \/ frame[c].op = "delete" /\ ~AllowDelete
       \/ Faults
    /\ Returns(c, "error", None)
    /\ UNCHANGED <<notes, temps>>

Read(c) ==
    /\ Called(c, "read")
    /\ LET text == notes[Note(c)] IN
       Returns(c, IF text = None THEN "error" ELSE "ok", text)
    /\ UNCHANGED <<notes, temps>>

\* Create looks whether the note is there, and goes on to write it.
CreateLooks(c) ==
    /\ Called(c, "create")
    /\ IF notes[Note(c)] = None THEN Goto(c, [frame[c] EXCEPT !.op = "update"])
       ELSE Returns(c, "error", None)
    /\ UNCHANGED <<notes, temps>>

\* Append reads the note and hands its text, longer now, to Update.
AppendReads(c) ==
    /\ Called(c, "append")
    /\ LET text == notes[Note(c)] IN
       IF text = None THEN Returns(c, "error", None)
       ELSE Goto(c, [frame[c] EXCEPT !.op = "update", !.text = @ \cup text])
    /\ UNCHANGED <<notes, temps>>

Delete(c) ==
    /\ Called(c, "delete") /\ AllowDelete
    /\ notes' = [notes EXCEPT ![Note(c)] = None]
    /\ UNCHANGED temps
    /\ Returns(c, IF notes[Note(c)] = None THEN "error" ELSE "ok", None)

-----------------------------------------------------------------------------
(* atomicWrite; CopyFile is the same with the synchroniser's text *)

\* A name is random: it is none that a call still holds.
Unused(n) == n \notin temps /\ \A c \in Callers : frame[c].tmp # n

\* Mutant: the temporary file is in the system's directory for such files.
CreatesElsewhere(c) ==
    /\ Called(c, "update")
    /\ \E n \in Temps :
          Goto(c, [frame[c] EXCEPT !.pc = "write", !.tmp = <<"tmp", Last(n)>>])
    /\ UNCHANGED <<notes, temps>>

\* Mutant: the note itself is opened for writing, which truncates it.
OpensNote(c) ==
    /\ Called(c, "update")
    /\ \E n \in Temps :
          /\ Front(n) = Front(Note(c)) /\ Unused(n)
          /\ Goto(c, [frame[c] EXCEPT !.pc = "write", !.tmp = n])
    /\ notes' = [notes EXCEPT ![Note(c)] = None]
    /\ UNCHANGED temps

CreateTemp(c) ==
    /\ Called(c, "update")
    /\ \E n \in Temps :
          /\ Front(n) = Front(Note(c)) /\ Unused(n)
          /\ temps' = temps \cup {n}
          /\ Goto(c, [frame[c] EXCEPT !.pc = "write", !.tmp = n])
    /\ UNCHANGED notes

\* Write, Sync, Close and Chmod leave nothing that others can see but the file which
\* is there already; then the rename.
Rename(c) ==
    /\ At(c, "write")
    /\ notes' = [notes EXCEPT ![Note(c)] = frame[c].text]
    /\ temps' = temps \ {frame[c].tmp}
    /\ Settles(c, "ok")

\* Mutant: an early return leaves the file where it is.
LeavesTemp(c) ==
    /\ Faults
    /\ At(c, "write")
    /\ Returns(c, "error", None)
    /\ UNCHANGED <<notes, temps>>

WriteFails(c) ==
    /\ Faults
    /\ At(c, "write")
    /\ Settles(c, "error")
    /\ UNCHANGED <<notes, temps>>

\* The deferred os.Remove; after a rename there is nothing to remove.
CleanUp(c) ==
    /\ At(c, "cleanup")
    /\ temps' = temps \ {frame[c].tmp}
    /\ Returns(c, frame[c].is, None)
    /\ UNCHANGED notes

\* Its error is ignored.
CleanUpFails(c) ==
    /\ Faults
    /\ At(c, "cleanup")
    /\ Returns(c, frame[c].is, None)
    /\ UNCHANGED <<notes, temps>>

-----------------------------------------------------------------------------
(* List, and Search, which opens what List found.  Both are "list" until   *)
(* the walk is done.                                                       *)

StartWalk(c) ==
    /\ Called(c, "list")
    /\ Goto(c, [frame[c] EXCEPT !.pc = "walk", !.todo = {<<>>}])
    /\ UNCHANGED <<notes, temps>>

Position == [n \in Range(Order) |-> CHOOSE i \in DOMAIN Order : Order[i] = n]

\* n comes next in the walk, or in the listing.
IsNext(c, n) ==
    n \in frame[c].todo /\ \A m \in frame[c].todo : Position[n] <= Position[m]

\* os.ReadDir of the next directory: its directories, and its files below the prefix.
ReadDir(c) ==
    /\ At(c, "walk")
    /\ \E d \in Dirs :
          LET dirs == {e \in Dirs : e # d /\ Front(e) = d}
              names == {n \in Present : Front(n) = d /\ Below(n, Target(frame[c]))}
          IN  /\ IsNext(c, d)
              /\ Goto(c, [frame[c] EXCEPT !.todo = (@ \ {d}) \cup dirs \cup names])
    /\ UNCHANGED <<notes, temps>>

\* d.Info
Look(c) ==
    /\ At(c, "walk")
    /\ \E n \in Present :
          /\ IsNext(c, n)
          /\ Goto(c, [frame[c] EXCEPT !.todo = @ \ {n}, !.found = @ \cup {n}])
    /\ UNCHANGED <<notes, temps>>

\* A file that was listed has vanished since.
Vanished(c) == \E n \in Names \ Present : IsNext(c, n)

\* Mutant: such a file ends the walk, but is no error.
WalkEnds(c) ==
    /\ At(c, "walk") \/ At(c, "scan")
    /\ Vanished(c)
    /\ Returns(c, "ok", None)
    /\ UNCHANGED <<notes, temps>>

WalkFails(c) ==
    /\ At(c, "walk") \/ At(c, "scan")
    /\ Faults \/ Vanished(c)
    /\ Returns(c, "error", None)
    /\ UNCHANGED <<notes, temps>>

\* List returns; Search goes on.
WalkDone(c) ==
    /\ At(c, "walk") /\ frame[c].todo = {}
    /\ \/ Returns(c, "ok", None)
       \/ Goto(c, [frame[c] EXCEPT !.pc = "scan", !.todo = frame[c].found, !.found = {}])
    /\ UNCHANGED <<notes, temps>>

\* Search opens and reads the next file of the listing.
Scan(c) ==
    /\ At(c, "scan")
    /\ \E n \in Present :
          /\ IsNext(c, n)
          /\ Goto(c, [frame[c] EXCEPT !.todo = @ \ {n}])
    /\ UNCHANGED <<notes, temps>>

\* All files were read, or as many lines match as were asked for.
ScanDone(c) ==
    /\ At(c, "scan")
    /\ Returns(c, "ok", None)
    /\ UNCHANGED <<notes, temps>>

-----------------------------------------------------------------------------
(* Specification *)

Return(c) == At(c, "return") /\ Goto(c, Idle) /\ UNCHANGED <<notes, temps>>

\* The process dies; its temporary files stay.
Crash ==
    /\ \E c \in Callers : ~At(c, "idle")
    /\ frame' = [c \in Callers |-> Idle]
    /\ UNCHANGED <<notes, temps>>

Step(c) ==
    \/ Begin(c) \/ Rejected(c) \/ Return(c)
    \/ Read(c) \/ CreateLooks(c) \/ AppendReads(c) \/ Delete(c)
    \/ CreateTemp(c) \/ Rename(c) \/ WriteFails(c)
    \/ CleanUp(c) \/ CleanUpFails(c)
    \/ StartWalk(c) \/ ReadDir(c) \/ Look(c) \/ WalkFails(c) \/ WalkDone(c)
    \/ Scan(c) \/ ScanDone(c)

\* The history of a walk, which guides no step.
KeepHistory ==
    always' = [c \in Callers |->
        IF frame'[c].pc # "walk" THEN {}
        ELSE (IF At(c, "walk") THEN always[c] ELSE NotesNow) \cap NotesNow']

VaultNext ==
    /\ (\E c \in Callers : Step(c)) \/ Crash
    /\ KeepHistory

VaultSpec == VaultInit /\ [][VaultNext]_vars

-----------------------------------------------------------------------------
(* Properties *)

\* What path.Clean makes of an accepted path with . and .. in it is the note that a
\* walk along the path ends at, and a path that climbs above the vault, even for a
\* while, is refused (whether others with .. in them are is left open here).  It is
\* about paths alone: looking once, before the first call, is enough.
PathsNamed == VaultInit => \A i \in Spellings : NamesItsPlace(i)

\* README.md: paths with .. are rejected, so that no request writes to one.
DotsRejected == \A c \in Callers : At(c, "write") => ".." \notin Range(frame[c].input)

\* What callers wait for and were answered, as the store of notes has it: a call is
\* answered when its outcome is settled, which may be before it has returned.
Asked ==
    [c \in Callers |->
        LET f == frame[c] IN
        IF f.pc = "idle" \/ f.is # "none" THEN None
        ELSE [op |-> f.op, input |-> f.input, text |-> f.text]]

Answered == [c \in Callers |-> [is |-> frame[c].is, text |-> frame[c].got]]

\* The note that a path means: it is relative, never leaves the vault and ends at a note.
Meant ==
    [i \in {i \in Inputs : ~IsAbs(i) /\ ~Leaves(i) /\ Place(i) \in Notes} |-> Place(i)]

Promise == INSTANCE NoteStore WITH
    Inputs <- Inputs \cup Folders, asked <- Asked, answer <- Answered

\* Whatever others do, fails and dies, every note changes in one step from one whole
\* text to another, the step that settles its writer's success; a reader gets a text
\* the note had during the call; and a path with . and .. in it means the note that a
\* walk along it ends at.
NotesAtomic == Promise!StoreSpec

\* Files of no note that no call will remove.
Orphans == {n \in temps : \A c \in Callers : frame[c].tmp # n}

\* However a write ends, its temporary file goes with it, unless the process dies or
\* removing the file fails.
OnlyCrashStrands ==
    [][Orphans' \subseteq Orphans \/ Crash \/ \E c \in Callers : CleanUpFails(c)]_vars

\* A walk that is answered, and does not fail, has found every note below its prefix
\* that was there all the time (List then cuts what it found to the limit).
WalkComplete ==
    [][\A c \in Callers :
          At(c, "walk") /\ frame'[c].pc \in {"scan", "return"} /\ frame'[c].is # "error"
            => {n \in always[c] : Below(n, Target(frame[c]))} \subseteq frame[c].found
      ]_vars
=============================================================================
