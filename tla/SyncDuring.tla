----------------------------- MODULE SyncDuring -----------------------------
(***************************************************************************)
(* S3Sync with a history: what others did to notes and objects while a     *)
(* call was running.  Steps only write it, so the behaviours are those of  *)
(* S3Sync.  With it the promises of a call can be stated for tool handlers *)
(* and programs that write at any time: what a call does to a path nobody  *)
(* else touched meanwhile.                                                 *)
(***************************************************************************)
EXTENDS S3Sync

VARIABLES
    edited,     \* the paths whose file others changed since the call looked at it
    foreign     \* the paths whose object others changed since the call sent it

duringVars == <<vars, edited, foreign>>

\* A pull looks at one file after the other, a push at all of them first.
Looked == {"get", "remove", "walk"} \cup PushPhases
Sent == {"head"}

\* The paths others than caller t change, in the vault or in the bucket.
ByOthers(t, before, after) ==
    IF Moves(t) THEN {} ELSE {p \in Paths : before[p] # after[p]}

DuringInit ==
    /\ Init
    /\ edited = [t \in Callers |-> {}]
    /\ foreign = [t \in Callers |-> {}]

DuringNext ==
    /\ Next
    /\ edited' = [t \in Callers |->
                    IF frame'[t].pc \in Looked
                    THEN edited[t] \cup ByOthers(t, local, local') ELSE {}]
    /\ foreign' = [t \in Callers |->
                     IF frame'[t].pc \in Sent
                     THEN foreign[t] \cup ByOthers(t, remote, remote') ELSE {}]

DuringSpec == DuringInit /\ [][DuringNext]_duringVars

-----------------------------------------------------------------------------
(* Properties *)

\* A pull replaces or removes a file only if the manifest on disk has it as
\* synchronised, or the file was changed after the pull had looked at it: an edit
\* the pull could see survives it, whoever writes while it runs.  (That a later
\* one may be lost is what the run sync_race shows.)
KeepsEdits ==
    [][\A t \in Callers, p \in Paths :
          Moves(t) /\ local[p] # None /\ local'[p] # local[p] =>
             \/ p \in edited[t]
             \/ disk.entries[p] # None /\ LocalUnchanged(local[p], disk.entries[p])
      ]_duringVars

\* A push deletes an object only if the vault has no such note, or the note was
\* changed after the push had begun to list the vault; hidden paths, which no
\* listing has, are the exception (the run sync_hidden).
PurgesDeleted ==
    [][\A t \in Callers, p \in Paths \ Hidden :
          Moves(t) /\ remote[p] # None /\ remote'[p] = None =>
             local[p] = None \/ p \in edited[t]
      ]_duringVars

\* A push never records a file as sent that was written after its bytes were
\* read: when the new entry describes the file in place, the object has its
\* content, unless another program replaced the object after the upload.
RecordsWhatItSent ==
    [][\A t \in Callers :
          At(t, "head") /\ frame'[t].pc = "put" =>
             LET p == frame[t].cur IN
             local[p] # None /\ LocalUnchanged(local[p], frame'[t].next[p]) =>
                p \in foreign[t] \/ remote[p].data = local[p].data
      ]_duringVars
=============================================================================
