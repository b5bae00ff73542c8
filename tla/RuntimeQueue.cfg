\* Three short jobs for two workers: limits of admission, queue, table and history, and
\* executors that panic, down to the last worker.
CONSTANTS
    j1 = j1
    j2 = j2
    j3 = j3
    Jobs = {j1, j2, j3}
    Kind <- ThreeShort
    Total = 1
    WorkerCount = 2
    ActiveLimit = 2
    QueueCapacity = 2
    PlanLimit = 1
    Retention = 1
    HistoryLimit = 1
    MaxPanics = 2
    Controlled = {j1}
    StoreMayFail = FALSE
SPECIFICATION Spec
CHECK_DEADLOCK FALSE
INVARIANTS SendNeverBlocks AdmissionExact LiveJobsInTable
