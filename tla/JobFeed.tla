------------------------------ MODULE JobFeed ------------------------------
(***************************************************************************)
(* What the event stream of the operation runtime promises the webview     *)
(* that listens to it, one job at a time:                                  *)
(*                                                                         *)
(*   told[j]   the status the events sent so far give job j: "none" until  *)
(*             JobStarted, "gone" once the process that sent them is gone  *)
(*   shown[j]  the item count of the last JobProgress                      *)
(*                                                                         *)
(* A started job alternates between running and paused, reports progress   *)
(* only while it is running, never counts backwards, and ends once.        *)
(***************************************************************************)
EXTENDS Naturals

CONSTANT Jobs

VARIABLES told, shown

Endings == {"completed", "failed", "cancelled"}

FeedTypeOK ==
    /\ told \in [Jobs -> {"none", "running", "paused", "gone"} \cup Endings]
    /\ shown \in [Jobs -> Nat]

FeedInit ==
    /\ told = [j \in Jobs |-> "none"]
    /\ shown = [j \in Jobs |-> 0]

Move(j, from, to) ==
    /\ told[j] \in from
    /\ told' = [told EXCEPT ![j] = to]
    /\ UNCHANGED shown

Started(j) == Move(j, {"none"}, "running")
Paused(j)  == Move(j, {"running"}, "paused")
Resumed(j) == Move(j, {"paused"}, "running")
Ended(j)   == \E s \in Endings : Move(j, {"running", "paused"}, s)

Progress(j) ==
    /\ told[j] = "running"
    /\ shown' = [shown EXCEPT ![j] = shown'[j]]
    /\ shown'[j] \in Nat /\ shown'[j] >= shown[j]
    /\ UNCHANGED told

\* The process ends: no stream survives it, and no job that had a stream gets another.
Lost ==
    /\ \E S \in SUBSET Jobs :
        /\ \A j \in Jobs \ S : told[j] = "none"
        /\ told' = [j \in Jobs |-> IF j \in S THEN "gone" ELSE "none"]
    /\ UNCHANGED shown

FeedNext ==
    \/ \E j \in Jobs :
        Started(j) \/ Paused(j) \/ Resumed(j) \/ Progress(j) \/ Ended(j)
    \/ Lost

FeedSpec == FeedInit /\ [][FeedNext]_<<told, shown>>

=============================================================================
