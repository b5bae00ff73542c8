\* One job, and reports of another: every order in which its events and the response of its
\* start can arrive.
CONSTANTS
    j1 = j1
    Jobs = {j1}
    Total = 1
    MaxTime = 3
    OtherNames = {"progress"}
    MaxTimers = 3
SPECIFICATION FairSpec
CHECK_DEADLOCK FALSE
INVARIANTS TypeOK TrueView
PROPERTIES CountersRegressOnlyAtStart EndsAreShown
