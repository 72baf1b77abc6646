------------------------------ MODULE NotePath ------------------------------
(***************************************************************************)
(* Note paths (ValidateNotePath, ValidatePathPrefix in                     *)
(* internal/vault/vault.go).  A path is the sequence of what stands        *)
(* between its slashes: "/a.md" is <<"", "a.md">>, and "" is <<"">>.       *)
(***************************************************************************)
EXTENDS Naturals, FiniteSets, SequencesExt

CONSTANTS
    Markdown,   \* segments that end in .md, in upper or lower case
    Illegal     \* segments with a backslash, a control character or bad UTF-8

\* Neither a note path nor a prefix.
Invalid == <<"..">>

\* Mutant: the segment before .. is kept.
NeverClimbs(out, segment) ==
    IF segment \in {"", ".", ".."} THEN out ELSE Append(out, segment)

\* One segment of path.Clean, out being the clean form of those before it.
CleanStep(out, segment) ==
    IF segment \in {"", "."} THEN out
    ELSE IF segment = ".." /\ out # <<>> /\ Last(out) # ".." THEN Front(out)
    ELSE Append(out, segment)

\* path.Clean of a relative path; <<>> is ".".
Clean(input) == FoldLeft(CleanStep, <<>>, input)

IsAbs(input) == Len(input) > 1 /\ Head(input) = ""

Accepted(input) ==
    /\ Range(input) \cap Illegal = {}
    /\ ~IsAbs(input)
    /\ Clean(input) = <<>> \/ Head(Clean(input)) # ".."

ValidateNotePath(input) ==
    LET clean == Clean(input) IN
    IF Accepted(input) /\ clean # <<>> /\ Last(clean) \in Markdown THEN clean ELSE Invalid

\* <<>> is the whole vault.
ValidatePathPrefix(input) == IF Accepted(input) THEN Clean(input) ELSE Invalid

\* strings.HasPrefix(rel, prefix + "/")
Below(path, prefix) == IsPrefix(prefix, Front(path))
-----------------------------------------------------------------------------
(* Where a walk along the path ends: what path.Clean is meant to find out *)

Among(input, i, j, segments) == Cardinality({k \in i .. j : input[k] \in segments})

Downs(input, i, j) == j + 1 - i - Among(input, i, j, {"", ".", ".."})
Ups(input, i, j) == Among(input, i, j, {".."})

\* The walk is above the vault for a while.
Leaves(input) == \E j \in DOMAIN input : Ups(input, 1, j) > Downs(input, 1, j)

\* Step i enters a directory or note that the walk does not go back from.
Remains(input, i) ==
    /\ input[i] \notin {"", ".", ".."}
    /\ \A j \in i + 1 .. Len(input) : Ups(input, i + 1, j) <= Downs(input, i + 1, j)

\* What stands at these steps, in their order.
Place(input) ==
    LET steps == {i \in DOMAIN input : Remains(input, i)}
        nth(k) == CHOOSE i \in steps : Cardinality({j \in steps : j <= i}) = k
    IN  [k \in 1 .. Cardinality(steps) |-> input[nth(k)]]

\* A path that is accepted names the note at which a walk along it ends, and the walk
\* never leaves the vault on its way; and a path of a note, spelled without .., is
\* accepted.
NamesItsPlace(input) ==
    LET note == ValidateNotePath(input)
        place == Place(input)
        named == /\ Range(input) \cap Illegal = {}
                 /\ ~IsAbs(input) /\ ~Leaves(input)
                 /\ place # <<>> /\ Last(place) \in Markdown
    IN  /\ note # Invalid => named /\ note = place
        /\ named /\ ".." \notin Range(input) => note = place
=============================================================================
