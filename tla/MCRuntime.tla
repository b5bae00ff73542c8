----------------------------- MODULE MCRuntime -----------------------------
(* Instances of OperationRuntime for TLC.                                  *)
EXTENDS OperationRuntime, TLC

CONSTANTS j1, j2, j3

OneCopyOneWrite == j1 :> "copy" @@ j2 :> "write"
TwoCopies       == j1 :> "copy" @@ j2 :> "copy"
CopyAndBlind    == j1 :> "copy" @@ j2 :> "blind"
ThreeShort      == j1 :> "blind" @@ j2 :> "blind" @@ j3 :> "write"

=============================================================================
