SPECIFICATION VaultSpec
CONSTANTS
    Markdown = {"n.md"}
    Illegal = {"bad"}
    Notes <- MCNotes
    Temps <- MCTemps
    Spellings <- MCSpellings
    Inputs <- MCInputs
    Folders <- MCFolders
    Pieces = {a}
    Data = {{a}}
    Callers = {c1}
    Walkers = {c1}
    None = None
    Order <- MCOrder
    AllowDelete = TRUE
    Faults = FALSE
INVARIANT DotsRejected
