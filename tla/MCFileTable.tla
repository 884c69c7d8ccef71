----------------------------- MODULE MCFileTable -----------------------------
EXTENDS FileTable, TLC

\* File names are interchangeable.
NameSymmetry == Permutations(Names)
=============================================================================
