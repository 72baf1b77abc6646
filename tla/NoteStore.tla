----------------------------- MODULE NoteStore -----------------------------
(***************************************************************************)
(* What the vault promises those who call it: a note is put, replaced and  *)
(* removed in one step, the step at which its caller's success is settled; *)
(* a call that fails or dies changes nothing; a reader gets a whole note.  *)
(***************************************************************************)
CONSTANTS
    Notes, Data, Callers, None,
    Inputs,     \* the paths callers name
    Meant       \* the note that each of them means, if it does mean one

VARIABLES
    notes,      \* the text of every note, or None
    asked,      \* what each caller waits for, or None
    answer      \* how its last call went, until it is taken in

storeVars == <<notes, asked, answer>>

NoAnswer == [is |-> "none", text |-> None]
Ok(text) == [is |-> "ok", text |-> text]
Error == [is |-> "error", text |-> None]

StoreInit ==
    /\ notes \in [Notes -> Data \cup {None}]
    /\ asked = [c \in Callers |-> None]
    /\ answer = [c \in Callers |-> NoAnswer]

Waiting(c, op) == asked[c] # None /\ asked[c].op = op

Give(c, a) ==
    /\ asked' = [asked EXCEPT ![c] = None]
    /\ answer' = [answer EXCEPT ![c] = a]

Ask(c) ==
    /\ asked[c] = None /\ answer[c] = NoAnswer
    /\ asked'[c] \in [op : {"read", "create", "update", "append", "delete", "list"},
                     input : Inputs, text : Data \cup {None}]
    /\ asked' = [asked EXCEPT ![c] = asked'[c]]
    /\ UNCHANGED <<notes, answer>>

\* create goes on as update if there is no note at some time during the call; append
\* if there is one, with its text of that time.
Decide(c, p) ==
    /\ \/ /\ Waiting(c, "create") /\ notes[p] = None
          /\ asked' = [asked EXCEPT ![c].op = "update"]
       \/ /\ Waiting(c, "append") /\ notes[p] # None
          /\ asked' = [asked EXCEPT ![c].op = "update", ![c].text = @ \cup notes[p]]
    /\ UNCHANGED <<notes, answer>>

Put(c, p) ==
    /\ Waiting(c, "update")
    /\ notes' = [notes EXCEPT ![p] = asked[c].text]
    /\ Give(c, Ok(None))

Remove(c, p) ==
    /\ Waiting(c, "delete") /\ notes[p] # None
    /\ notes' = [notes EXCEPT ![p] = None]
    /\ Give(c, Ok(None))

Get(c, p) ==
    /\ Waiting(c, "read") /\ notes[p] # None
    /\ Give(c, Ok(notes[p]))
    /\ UNCHANGED notes

OnNote(c) ==
    /\ asked[c] # None /\ asked[c].input \in DOMAIN Meant
    /\ LET p == Meant[asked[c].input] IN
       Decide(c, p) \/ Put(c, p) \/ Remove(c, p) \/ Get(c, p)

List(c) ==
    /\ Waiting(c, "list")
    /\ Give(c, Ok(None))
    /\ UNCHANGED notes

Fail(c) ==
    /\ asked[c] # None
    /\ Give(c, Error)
    /\ UNCHANGED notes

TakeIn(c) ==
    /\ answer' = [answer EXCEPT ![c] = NoAnswer]
    /\ UNCHANGED <<notes, asked>>

\* The process dies.
Forget ==
    /\ asked' = [c \in Callers |-> None]
    /\ answer' = [c \in Callers |-> NoAnswer]
    /\ UNCHANGED notes

StoreNext ==
    \/ \E c \in Callers : Ask(c) \/ OnNote(c) \/ List(c) \/ Fail(c) \/ TakeIn(c)
    \/ Forget

StoreSpec == StoreInit /\ [][StoreNext]_storeVars
=============================================================================
