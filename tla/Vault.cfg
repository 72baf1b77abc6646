SPECIFICATION VaultSpec
CONSTANTS
    Markdown = {"n.md"}
    Illegal = {"bad"}
    Notes <- MCNotes
    Temps <- MCTemps
    Spellings <- MCSpellings
    Inputs <- MCInputs
    Folders <- MCFolders
    Pieces = {a, b}
    Data = {{a}, {b}, {a, b}}
    Callers = {c1, c2}
    Walkers = {c1}
    None = None
    Order <- MCOrder
    AllowDelete = TRUE
    Faults = TRUE
SYMMETRY Symmetry
INVARIANTS VaultTypeOK PathsNamed
PROPERTIES NotesAtomic OnlyCrashStrands WalkComplete
