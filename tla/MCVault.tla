------------------------------ MODULE MCVault ------------------------------
EXTENDS Vault, TLC

InRoot == <<"n.md">>
InSub == <<"x", "n.md">>
MCNotes == {InRoot, InSub}

MCTemps == {<<".tmp-1.md">>, <<".tmp-2.md">>, <<"x", ".tmp-3.md">>}

MCOrder ==
    << <<>>, <<".tmp-1.md">>, <<".tmp-2.md">>, InRoot, <<"x">>, <<"x", ".tmp-3.md">>, InSub >>

\* "x/../n.md", "./x//n.md"
MCInputs == {<<"x", "..", "n.md">>, <<".", "x", "", "n.md">>}

\* "", "x/"
MCFolders == {<<"">>, <<"x", "">>}

Symmetry == Permutations(Pieces)

\* "bad" stands for a segment with a backslash in it.
Segments == {"", ".", "..", "x", "n.md", "bad"}
MCSpellings == UNION {[1 .. k -> Segments] : k \in 1 .. 5}
=============================================================================
