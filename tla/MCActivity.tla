----------------------------- MODULE MCActivity -----------------------------
(* Instances of JobActivity for TLC.                                       *)
EXTENDS JobActivity

CONSTANT j1

=============================================================================
