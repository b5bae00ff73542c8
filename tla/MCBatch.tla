------------------------------ MODULE MCBatch ------------------------------
(* Instances of BatchRename for TLC.                                       *)
EXTENDS BatchRename, TLC

CONSTANTS a, b, c, d, s1

\* Nothing orders the names or the files of other programs.
Renaming == Permutations(Names) \cup Permutations(Strangers)

=============================================================================
