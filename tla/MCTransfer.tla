----------------------------- MODULE MCTransfer -----------------------------
(* Instances of FileTransfer for TLC.                                      *)
EXTENDS FileTransfer

CONSTANTS d1, d2, e1, e2, s1

\* Two folders with an entry each, a directory or a file, and what may be in them.
TwoTrees == {<<d1, e1>>, <<d1, e1, e1>>, <<d1, e1, e2>>, <<d2, e1>>, <<d2, e1, e2>>}

\* Two directories that go to the same folder, which has an entry of one of them.
TwoRoots == {<<d1, e1>>, <<d1, e1, e2>>, <<d1, e2>>, <<d2, e1>>, <<d2, e2>>}

Targets == {<<d2, e1>>, <<d2, e1, e2>>, <<d2, Numbered(e1, 1)>>}

AllPolicies == {"fail", "skip", "overwrite", "renameNew", "renameExisting"}
NoPaths     == {}

\* An entry of the second root
OneSource == {<<d1, e2>>}

AllPaths  == Paths

=============================================================================
