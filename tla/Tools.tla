------------------------------- MODULE Tools -------------------------------
(***************************************************************************)
(* The tool handlers of internal/mcp/server.go, composed with the          *)
(* synchroniser.  A caller serves one request after the other; requests    *)
(* of several callers overlap.  The handler of a write runs EnsureFresh,   *)
(* the vault operation and Push one after the other, and holds no lock     *)
(* between them nor during the vault operation.                            *)
(*                                                                         *)
(* The content of a note is a set of pieces: create and update write one   *)
(* piece, append adds one.  The handlers are the ones who write notes, at  *)
(* any time: to the synchroniser they are its environment.                 *)
(***************************************************************************)
EXTENDS S3Sync

CONSTANTS
    Pieces,         \* what a request may write
    Served,         \* the tools clients use
    Scopes,         \* the scopes of the token clients present
    AllowDelete     \* ALLOW_DELETE

\* list_notes stands for search_notes too: neither changes anything.
ReadTools == {"read_note", "list_notes"}
WriteTools == {"create_note", "update_note", "append_note", "delete_note"}
SyncTools == {"sync_now", "sync_status"}

ScopeOf(tool) ==
    CASE tool \in ReadTools \cup {"sync_status"} -> "notes:read"
      [] tool \in WriteTools \ {"delete_note"} -> "notes:write"
      [] tool = "delete_note" -> "notes:delete"
      [] tool = "sync_now" -> "sync:run"

ASSUME PiecesAssumption == Data \subseteq SUBSET Pieces /\ \A x \in Pieces : {x} \in Data
ASSUME AppendAssumption == \A d \in Data, x \in Pieces : d \cup {x} \in Data
ASSUME ServedAssumption == Served \subseteq ReadTools \cup WriteTools \cup SyncTools
ASSUME AllowDeleteAssumption == AllowDelete \in BOOLEAN

VARIABLE req        \* the request each caller serves, or its last answer

toolVars == <<vars, req>>

Answers == {"none", "ok", "warning", "error"}

\* fresh, pull, push: about to call; freshening, pulling, pushing: inside.
Stages == {"idle", "fresh", "freshening", "vault", "replace", "push", "pushing",
           "pull", "pulling", "status"}

Request == [at : Stages,
            tool : Served \cup {None},
            path : Paths \cup {None},
            piece : Pieces \cup {None},
            found : Data \cup {None},   \* what append read
            wrote : BOOLEAN,            \* the vault was changed
            answer : Answers]

ToolsTypeOK == TypeOK /\ req \in [Callers -> Request]

NoRequest == [at |-> "idle", tool |-> None, path |-> None, piece |-> None,
              found |-> None, wrote |-> FALSE, answer |-> "none"]

Is(t, stage) == req[t].at = stage
Proceed(t, stage) == req' = [req EXCEPT ![t].at = stage]
Answer(t, a) == req' = [req EXCEPT ![t] = [NoRequest EXCEPT !.answer = a]]

ToolsInit == Init /\ req = [t \in Callers |-> NoRequest]

-----------------------------------------------------------------------------
(* A request comes in: requireScope *)

First(tool) ==
    CASE tool = "sync_now" -> "pull"
      [] tool = "sync_status" -> "status"
      [] OTHER -> "fresh"

Begin(t) ==
    /\ Is(t, "idle")
    /\ \E tool \in Served, p \in Paths, x \in Pieces :
          LET r == [NoRequest EXCEPT !.tool = tool, !.path = p, !.piece = x] IN
          req' = [req EXCEPT ![t] = IF ScopeOf(tool) \in Scopes
                                    THEN [r EXCEPT !.at = First(tool)]
                                    ELSE [NoRequest EXCEPT !.answer = "error"]]
    /\ UNCHANGED vars

-----------------------------------------------------------------------------
(* Calls of the synchroniser *)

CallSync(t) ==
    \/ Is(t, "fresh") /\ EnsureFresh(t) /\ Proceed(t, "freshening")
    \/ Is(t, "pull") /\ Pull(t) /\ Proceed(t, "pulling")
    \/ Is(t, "push") /\ Push(t) /\ Proceed(t, "pushing")

Returned(t, result) == frame[t].pc = result

\* Mutant: a warning is reported as an error of the tool.
ReportsError(t) ==
    /\ Is(t, "pushing")
    /\ \/ Returned(t, "ok") /\ req[t].tool # "sync_now" /\ Answer(t, "ok")
       \/ Returned(t, "ok") /\ req[t].tool = "sync_now" /\ Proceed(t, "status")
       \/ Returned(t, "failed") /\ Answer(t, "error")
    /\ UNCHANGED vars

\* writeOutput: a failed push is a warning.
PushReturned(t) ==
    /\ Is(t, "pushing")
    /\ \/ Returned(t, "ok") /\ req[t].tool # "sync_now" /\ Answer(t, "ok")
       \/ Returned(t, "ok") /\ req[t].tool = "sync_now" /\ Proceed(t, "status")
       \/ /\ Returned(t, "failed")
          /\ Answer(t, IF req[t].tool = "sync_now" THEN "error" ELSE "warning")
    /\ UNCHANGED vars

PullReturned(t) ==
    /\ \/ Is(t, "freshening") /\ Returned(t, "ok") /\ Proceed(t, "vault")
       \/ Is(t, "pulling") /\ Returned(t, "ok") /\ Proceed(t, "push")
       \/ /\ Is(t, "freshening") \/ Is(t, "pulling")
          /\ Returned(t, "failed") /\ Answer(t, "error")
    /\ UNCHANGED vars

\* Status loads the manifest without the lock.
Status(t) ==
    /\ Is(t, "status")
    /\ \/ disk.ok /\ Answer(t, "ok")
       \/ /\ ~disk.ok \/ Unreadable
          /\ Answer(t, "error")
    /\ UNCHANGED vars

-----------------------------------------------------------------------------
(* Vault operations *)

\* The note is renamed into place, and the handler goes on to Push.
Replace(t, d) ==
    /\ FileWritten(req[t].path, d)
    /\ req' = [req EXCEPT ![t].at = "push", ![t].found = None, ![t].wrote = TRUE]
    /\ UNCHANGED <<remote, disk, mu, frame>>

Read(t) ==
    /\ Is(t, "vault") /\ req[t].tool \in ReadTools
    /\ Answer(t, IF req[t].tool = "list_notes" \/ local[req[t].path] # None
                 THEN "ok" ELSE "error")
    /\ UNCHANGED vars

\* Create looks whether the note is there, and replaces it in a later step.
CreateLooks(t) ==
    /\ Is(t, "vault") /\ req[t].tool = "create_note"
    /\ IF local[req[t].path] = None THEN Proceed(t, "replace") ELSE Answer(t, "error")
    /\ UNCHANGED vars

\* Append reads the note, and replaces it in a later step.
AppendReads(t) ==
    /\ Is(t, "vault") /\ req[t].tool = "append_note"
    /\ LET f == local[req[t].path] IN
       IF f = None THEN Answer(t, "error")
       ELSE req' = [req EXCEPT ![t].at = "replace", ![t].found = f.data]
    /\ UNCHANGED vars

CreateOrAppend(t) ==
    /\ Is(t, "replace")
    /\ Replace(t, {req[t].piece} \cup
                    IF req[t].found = None THEN {} ELSE req[t].found)

Update(t) ==
    /\ Is(t, "vault") /\ req[t].tool = "update_note"
    /\ Replace(t, {req[t].piece})

\* Mutant: the handler takes the note out of the manifest itself.
DeletesEntry(t) ==
    /\ Is(t, "vault") /\ req[t].tool = "delete_note"
    /\ IF AllowDelete /\ local[req[t].path] # None
       THEN /\ local' = [local EXCEPT ![req[t].path] = None]
            /\ disk' = [disk EXCEPT !.entries[req[t].path] = None]
            /\ req' = [req EXCEPT ![t].at = "push", ![t].wrote = TRUE]
            /\ UNCHANGED <<remote, mu, frame>>
       ELSE Answer(t, "error") /\ UNCHANGED vars

Delete(t) ==
    /\ Is(t, "vault") /\ req[t].tool = "delete_note"
    /\ IF AllowDelete /\ local[req[t].path] # None
       THEN /\ local' = [local EXCEPT ![req[t].path] = None]
            /\ req' = [req EXCEPT ![t].at = "push", ![t].wrote = TRUE]
            /\ UNCHANGED <<remote, disk, mu, frame>>
       ELSE Answer(t, "error") /\ UNCHANGED vars

\* A vault operation fails before it changes anything.
VaultFails(t) ==
    /\ Faults
    /\ Is(t, "vault") \/ Is(t, "replace")
    /\ Answer(t, "error")
    /\ UNCHANGED vars

-----------------------------------------------------------------------------
(* Specification *)

\* What a handler does but for calling the synchroniser.
Handle(t) ==
    \/ PullReturned(t) \/ PushReturned(t) \/ Status(t)
    \/ Read(t) \/ CreateLooks(t) \/ AppendReads(t) \/ CreateOrAppend(t)
    \/ Update(t) \/ Delete(t) \/ VaultFails(t)

SyncStep(t) == Step(t) /\ UNCHANGED req

\* Clients lose the connection.
Restart == Crash /\ req' = [t \in Callers |-> NoRequest]

Others ==
    /\ \E p \in Paths : (\E d \in Data : ForeignPut(p, d)) \/ ForeignDelete(p)
    /\ UNCHANGED req

ToolsNext ==
    \/ \E t \in Callers : Begin(t) \/ CallSync(t) \/ Handle(t) \/ SyncStep(t)
    \/ Restart
    \/ Others

ToolsSpec == ToolsInit /\ [][ToolsNext]_toolVars

\* A handler is scheduled, a call goes on, and s.mu is handed over in turn: Go's
\* mutex gives way to a waiter that has waited for a millisecond.
Fairness ==
    \A t \in Callers :
        /\ WF_toolVars(Handle(t))
        /\ WF_toolVars(SyncStep(t))
        /\ SF_toolVars(CallSync(t))

FairToolsSpec == ToolsSpec /\ Fairness

-----------------------------------------------------------------------------
(* Properties *)

\* The handlers are an environment the synchroniser allows for, and they change its
\* state by its own calls only: what holds of S3Sync holds here (if VaultWrites is
\* "any time").
SyncImplemented == Spec

\* Every request is answered, whatever fails and whoever else is being served: a
\* caller is idle again and again.
EveryRequestAnswered == \A t \in Callers : []<>Is(t, "idle")

\* The step at which caller t gives answer a to a write tool.
Gives(t, a) ==
    /\ ~Is(t, "idle") /\ req'[t].at = "idle"
    /\ req[t].tool \in WriteTools /\ req'[t].answer = a

\* A write is answered with an error only if the vault was not changed, and
\* with success, warned or not, only if it was.
AnswerTellsVault ==
    [][\A t \in Callers :
          /\ Gives(t, "error") => ~req[t].wrote
          /\ Gives(t, "ok") \/ Gives(t, "warning") => req[t].wrote
      ]_toolVars

\* When the push behind a write succeeds, so that the write is answered without
\* a warning, the bucket has the note as the vault has it.
OkMeansMirrored ==
    [][\A t \in Callers :
          Is(t, "pushing") /\ req[t].tool \in WriteTools /\ At(t, "save") /\ disk'.ok
            => LET p == req[t].path
               IN  local[p] # None /\ p \notin Hidden =>
                      remote[p] # None /\ remote[p].data = local[p].data
      ]_toolVars

\* The step that puts a note in place finds the vault as the handler saw it when
\* it decided: no note for create_note, for append_note the content it read.
ReplacesAsFound ==
    [][\A t \in Callers :
          Is(t, "replace") /\ req'[t].at = "push"
            => LET f == local[req[t].path]
               IN  (IF f = None THEN None ELSE f.data) = req[t].found
      ]_toolVars
=============================================================================
