\* A copy and a text write on one worker, everything but panics.
CONSTANTS
    j1 = j1
    j2 = j2
    j3 = j3
    Jobs = {j1, j2}
    Kind <- OneCopyOneWrite
    Total = 2
    WorkerCount = 1
    ActiveLimit = 2
    QueueCapacity = 2
    PlanLimit = 1
    Retention = 1
    HistoryLimit = 1
    MaxPanics = 0
    Controlled = {j1, j2}
    StoreMayFail = TRUE
SPECIFICATION Spec
CHECK_DEADLOCK FALSE
INVARIANTS TypeOK RecordedBeforeTold RowsOfLiveJobs StatusAgrees BlameExclusive
PROPERTIES NoProgressAfterCancel ImplementsFeed
