\* Cancelled and started jobs end, under the fairness of threads and of the event gate.
CONSTANTS
    j1 = j1
    j2 = j2
    j3 = j3
    Jobs = {j1, j2}
    Kind <- CopyAndBlind
    Total = 1
    WorkerCount = 1
    ActiveLimit = 2
    QueueCapacity = 2
    PlanLimit = 1
    Retention = 1
    HistoryLimit = 1
    MaxPanics = 0
    Controlled = {j1, j2}
    StoreMayFail = FALSE
SPECIFICATION FairSpec
CHECK_DEADLOCK FALSE
PROPERTIES CancelEnds StartedJobsEnd
