-------------------------- MODULE OperationRuntime --------------------------
(***************************************************************************)
(* The file-operation runtime of the app-core crate: planned operations    *)
(* are started as jobs, admitted up to a limit, queued for a fixed pool of *)
(* worker threads, executed, controlled by cancel / pause / resume and by  *)
(* an inactivity watchdog, recorded in the operation history and reported  *)
(* to the webview as a stream of events.                                   *)
(*                                                                         *)
(* An element of Jobs stands for one operation: its plan and, once it is   *)
(* started, its job (a plan is taken out of the registry when it starts,   *)
(* so it never starts twice).  phase[j] is the program point of the one    *)
(* thread that is working on j at any time: first the thread that called   *)
(* start, then the worker that received the task.                          *)
(***************************************************************************)
EXTENDS Integers, Sequences, FiniteSets

CONSTANTS
    Jobs,           \* the operations of a run
    Kind,           \* "copy": checks the tokens between items; "write": a text
                    \* file written by one call; "blind": never checks a token
    Total,          \* items of a "copy" plan
    WorkerCount,    \* worker threads
    ActiveLimit,    \* ACTIVE_OPERATION_LIMIT
    QueueCapacity,  \* OPERATION_QUEUE_CAPACITY
    PlanLimit,      \* PLANNED_OPERATION_LIMIT
    Retention,      \* TERMINAL_JOB_RETENTION
    HistoryLimit,   \* HISTORY_RETENTION_LIMIT
    MaxPanics,      \* bound on the executors that panic
    Controlled,     \* bound: the jobs the user and the watchdog act on
    StoreMayFail    \* whether a write to the history database may fail

ASSUME RuntimeConstants ==
    /\ IsFiniteSet(Jobs)
    /\ Kind \in [Jobs -> {"copy", "write", "blind"}]
    /\ {Total, WorkerCount, ActiveLimit, QueueCapacity, HistoryLimit} \subseteq Nat \ {0}
    /\ {PlanLimit, Retention, MaxPanics} \subseteq Nat
    /\ Controlled \subseteq Jobs
    /\ StoreMayFail \in BOOLEAN

\* Both constants are 64 in the code.
ASSUME QueueHoldsEveryActiveJob == ActiveLimit <= QueueCapacity

VARIABLES
    phase,          \* [Jobs -> Phases]
    table,          \* the jobs the in-memory job table holds
    status,         \* snapshot.status
    items,          \* snapshot.completed_items
    cancel,         \* CancellationToken
    paused,         \* PauseToken
    timedOut,       \* timed_out
    userCancelled,  \* user_cancelled
    active,         \* last_activity is Some(_)
    gate,           \* event_gate: who holds it, and the event it is about to send
    work,           \* ExecutionProgress.completed_items, in the executor
    result,         \* what the executor returned; "unsent": the task was never queued
    outcome,        \* the terminal status it was given
    queue,          \* the tasks in the dispatch channel
    workers,        \* worker threads still in worker_loop
    admitted,       \* admitted_jobs
    history,        \* status column of the job's row, "none" when it has no row
    startedAt,      \* started_at of the row
    endedAt,        \* updated_at of a job that ended
    clock,          \* orders the two above
    unsaved,        \* jobs with a failed history write (it is only logged)
    told, shown     \* the stream of events: see JobFeed

control == <<cancel, paused, timedOut, userCancelled, active>>
ends    == <<result, outcome>>
stored  == <<history, startedAt, endedAt, clock, unsaved>>
pool    == <<queue, workers, admitted>>
feed    == <<told, shown>>
vars    == <<phase, table, status, items, control, gate, work, ends, pool, stored, feed>>

Feed == INSTANCE JobFeed WITH Jobs <- Jobs, told <- told, shown <- shown

Endings  == {"completed", "failed", "cancelled"}
Starting == {"admitted", "registered", "recorded", "announced"}
InTask   == {"check", "work", "recheck", "report", "emitting",
             "ending", "ended", "stored", "told"}
Live     == Starting \cup {"queued"} \cup InTask
Over     == {"rejected", "done", "panicked", "dead"}
Phases   == {"new", "planned", "stale", "taken"} \cup Live \cup Over

\* Before, during and after the time the job is announced and not yet ended.
Early   == {"new", "planned", "stale", "taken", "rejected", "admitted", "registered", "recorded"}
Running == {"announced", "queued", "check", "work", "recheck", "report", "emitting", "ending"}
Closing == {"ended", "stored"}

\* From the row of the job in the history to the end of it.
Unfinished == {"recorded"} \cup Running \cup {"ended"}

\* Jobs that hold an admission, jobs a worker is busy with, jobs that ended.
Admitted == {j \in Jobs : phase[j] \in Live /\ result[j] # "unsent"}
Busy     == {j \in Jobs : phase[j] \in InTask /\ result[j] # "unsent"}
Terminal == {j \in table : status[j] \in Endings}

TypeOK ==
    /\ phase \in [Jobs -> Phases]
    /\ table \subseteq Jobs
    /\ status \in [Jobs -> {"running", "paused"} \cup Endings]
    /\ items \in [Jobs -> Nat]
    /\ cancel \in [Jobs -> BOOLEAN]
    /\ paused \in [Jobs -> BOOLEAN]
    /\ timedOut \in [Jobs -> BOOLEAN]
    /\ userCancelled \in [Jobs -> BOOLEAN]
    /\ active \in [Jobs -> BOOLEAN]
    /\ gate \in [Jobs -> {"free", "progress", "paused", "resumed"}]
    /\ work \in [Jobs -> Nat]
    /\ result \in [Jobs -> {"none", "ok", "cancelled", "error", "unsent"}]
    /\ outcome \in [Jobs -> {"none"} \cup Endings]
    /\ queue \in Seq(Jobs)
    /\ workers \in Int
    /\ admitted \in Int
    /\ history \in [Jobs -> {"none", "running", "interrupted"} \cup Endings]
    /\ startedAt \in [Jobs -> Nat]
    /\ endedAt \in [Jobs -> Nat]
    /\ clock \in Nat
    /\ unsaved \subseteq Jobs
    /\ Feed!FeedTypeOK

Init ==
    /\ phase = [j \in Jobs |-> "new"]
    /\ table = {}
    /\ status = [j \in Jobs |-> "running"]
    /\ items = [j \in Jobs |-> 0]
    /\ cancel = [j \in Jobs |-> FALSE]
    /\ paused = [j \in Jobs |-> FALSE]
    /\ timedOut = [j \in Jobs |-> FALSE]
    /\ userCancelled = [j \in Jobs |-> FALSE]
    /\ active = [j \in Jobs |-> FALSE]
    /\ gate = [j \in Jobs |-> "free"]
    /\ work = [j \in Jobs |-> 0]
    /\ result = [j \in Jobs |-> "none"]
    /\ outcome = [j \in Jobs |-> "none"]
    /\ queue = <<>>
    /\ workers = WorkerCount
    /\ admitted = 0
    /\ history = [j \in Jobs |-> "none"]
    /\ startedAt = [j \in Jobs |-> 0]
    /\ endedAt = [j \in Jobs |-> 0]
    /\ clock = 0
    /\ unsaved = {}
    /\ Feed!FeedInit

Goto(j, from, to) ==
    /\ phase[j] = from
    /\ phase' = [phase EXCEPT ![j] = to]

-----------------------------------------------------------------------------
(* The plan registry and admission.                                        *)

\* plan: expired entries are dropped before the size of the registry is checked.
Plan(j) ==
    LET planned == {k \in Jobs : phase[k] = "planned"}
    IN  /\ phase[j] = "new" /\ Kind[j] # "write"
        /\ phase' = [k \in Jobs |->
              IF k = j /\ Cardinality(planned) < PlanLimit THEN "planned"
              ELSE IF k = j \/ phase[k] = "stale" THEN "rejected" ELSE phase[k]]
        /\ UNCHANGED <<table, status, items, control, gate, work, ends, pool, stored, feed>>

\* PLANNED_OPERATION_TTL passes.
Expire(j) ==
    /\ Goto(j, "planned", "stale")
    /\ UNCHANGED <<table, status, items, control, gate, work, ends, pool, stored, feed>>

\* start_planned takes the plan out of the registry, whatever comes of it.
TakePlan(j) ==
    /\ Goto(j, "planned", "taken") \/ Goto(j, "stale", "rejected")
    /\ UNCHANGED <<table, status, items, control, gate, work, ends, pool, stored, feed>>

\* write_text_file_atomic makes the plan it starts.
WriteText(j) ==
    /\ Kind[j] = "write"
    /\ Goto(j, "new", "taken")
    /\ UNCHANGED <<table, status, items, control, gate, work, ends, pool, stored, feed>>

\* Mutant: one admission too many.
AdmitOneTooMany(j) ==
    /\ \/ /\ admitted <= ActiveLimit
          /\ Goto(j, "taken", "admitted")
          /\ admitted' = admitted + 1
          /\ clock' = clock + 1
          /\ startedAt' = [startedAt EXCEPT ![j] = clock']
       \/ /\ admitted > ActiveLimit
          /\ Goto(j, "taken", "rejected")
          /\ UNCHANGED <<admitted, clock, startedAt>>
    /\ UNCHANGED <<table, status, items, control, gate, work, ends, queue, workers,
                   history, endedAt, unsaved, feed>>

\* JobAdmission::acquire; the timestamp of the job is taken right after it.
Admit(j) ==
    /\ \/ /\ admitted < ActiveLimit
          /\ Goto(j, "taken", "admitted")
          /\ admitted' = admitted + 1
          /\ clock' = clock + 1
          /\ startedAt' = [startedAt EXCEPT ![j] = clock']
       \/ /\ admitted >= ActiveLimit
          /\ Goto(j, "taken", "rejected")
          /\ UNCHANGED <<admitted, clock, startedAt>>
    /\ UNCHANGED <<table, status, items, control, gate, work, ends, queue, workers,
                   history, endedAt, unsaved, feed>>

-----------------------------------------------------------------------------
(* start_with_executor, up to the dispatch of the task.                    *)

\* Mutant: any job may be pruned, not only those that ended.
PrunedOfAll == {k \in table : Cardinality({m \in table : endedAt[m] > endedAt[k]}) >= Retention}

\* prune_terminal_jobs: the terminal jobs that ended last stay.
Pruned == {k \in Terminal :
             Cardinality({m \in Terminal : endedAt[m] > endedAt[k]}) >= Retention}

Register(j) ==
    /\ Goto(j, "admitted", "registered")
    /\ table' = (table \ Pruned) \cup {j}
    /\ UNCHANGED <<status, items, control, gate, work, ends, pool, stored, feed>>

\* A write to the history of the job, or a failed one, which is only logged.
Save(j, rows) ==
    \/ history' = rows /\ UNCHANGED unsaved
    \/ StoreMayFail /\ unsaved' = unsaved \cup {j} /\ UNCHANGED history

\* insert_started
RecordStart(j) ==
    /\ Goto(j, "registered", "recorded")
    /\ Save(j, [history EXCEPT ![j] = "running"])
    /\ UNCHANGED <<table, status, items, control, gate, work, ends, pool,
                   startedAt, endedAt, clock, feed>>

Announce(j) ==
    /\ Goto(j, "recorded", "announced")
    /\ told' = [told EXCEPT ![j] = "running"]
    /\ UNCHANGED <<table, status, items, control, gate, work, ends, pool, stored, shown>>

\* send blocks while the channel is full.
Dispatch(j) ==
    /\ workers > 0
    /\ Len(queue) < QueueCapacity
    /\ Goto(j, "announced", "queued")
    /\ queue' = Append(queue, j)
    /\ UNCHANGED <<table, status, items, control, gate, work, ends, workers, admitted,
                   stored, feed>>

\* The last worker is gone and the receiver with it: the task comes back and is dropped.
DispatchFails(j) ==
    /\ workers = 0
    /\ Goto(j, "announced", "ending")
    /\ admitted' = admitted - 1
    /\ result' = [result EXCEPT ![j] = "unsent"]
    /\ UNCHANGED <<table, status, items, control, gate, work, outcome, queue, workers, stored, feed>>

-----------------------------------------------------------------------------
(* A worker and the executor it runs.  The copy executor reports what it   *)
(* has done, then checks the tokens, does an item, checks them again and   *)
(* reports; move, batch rename and the archive executors have this shape.  *)
(* Reports and checks inside one long item repeat those around it.         *)

\* worker_loop receives the task, which starts the activity clock of its job.
Dequeue(j) ==
    /\ queue # <<>> /\ Head(queue) = j
    /\ Cardinality(Busy) < workers
    /\ \/ Kind[j] = "copy"  /\ Goto(j, "queued", "report")
       \/ Kind[j] = "write" /\ Goto(j, "queued", "check")
       \/ Kind[j] = "blind" /\ Goto(j, "queued", "work")
    /\ queue' = Tail(queue)
    /\ active' = IF j \in table THEN [active EXCEPT ![j] = TRUE] ELSE active
    /\ UNCHANGED <<table, status, items, cancel, paused, timedOut, userCancelled, gate,
                   work, ends, workers, admitted, stored, feed>>

Returns(j, from, r) ==
    /\ Goto(j, from, "ending")
    /\ result' = [result EXCEPT ![j] = r]
    /\ UNCHANGED outcome

\* Mutant: a paused job waits although it is cancelled.
CheckPausedFirst(j) ==
    /\ Kind[j] = "copy" => ~paused[j]
    /\ \/ cancel[j] /\ (Returns(j, "check", "cancelled") \/ Returns(j, "recheck", "cancelled"))
       \/ ~cancel[j] /\ (Goto(j, "check", "work") \/ Goto(j, "recheck", "report"))
                     /\ UNCHANGED ends
    /\ UNCHANGED <<table, status, items, control, gate, work, pool, stored, feed>>

\* check_cancelled waits while the job is paused and not cancelled.
CheckTokens(j) ==
    /\ Kind[j] = "copy" => ~paused[j] \/ cancel[j]
    /\ \/ cancel[j] /\ (Returns(j, "check", "cancelled") \/ Returns(j, "recheck", "cancelled"))
       \/ ~cancel[j] /\ (Goto(j, "check", "work") \/ Goto(j, "recheck", "report"))
                     /\ UNCHANGED ends
    /\ UNCHANGED <<table, status, items, control, gate, work, pool, stored, feed>>

\* One item; an item skipped because of a conflict is not checked again.
DoItem(j) ==
    /\ work' = [work EXCEPT ![j] = @ + 1]
    /\ \/ /\ Kind[j] = "copy"
          /\ Goto(j, "work", "recheck") \/ Goto(j, "work", "report")
          /\ UNCHANGED ends
       \/ Kind[j] = "write" /\ Goto(j, "work", "report") /\ UNCHANGED ends
       \/ Kind[j] = "blind" /\ Returns(j, "work", "ok")
    /\ UNCHANGED <<table, status, items, control, gate, pool, stored, feed>>

ItemFails(j) ==
    /\ Returns(j, "work", "error")
    /\ UNCHANGED <<table, status, items, control, gate, work, pool, stored, feed>>

\* Mutant: a report of a job that is about to be cancelled is accepted.
AcceptsAnyProgress(j) == j \in table /\ status[j] = "running"

\* update_snapshot_progress: a report of a job that is not running, or is about
\* to be cancelled, is dropped.
AcceptsProgress(j) ==
    j \in table /\ status[j] = "running" /\ ~timedOut[j] /\ ~userCancelled[j]

LastItem(j) == work[j] = IF Kind[j] = "copy" THEN Total ELSE 1

\* What the executor does after a report.
Continue(j, from) ==
    \/ LastItem(j) /\ Returns(j, from, "ok")
    \/ ~LastItem(j) /\ Goto(j, from, "check") /\ UNCHANGED ends

\* progress_sink, under the event gate: first the snapshot ...
ReportBegin(j) ==
    /\ phase[j] = "report"
    /\ gate[j] = "free"
    /\ IF AcceptsProgress(j)
       THEN /\ Goto(j, "report", "emitting")
            /\ items' = [items EXCEPT ![j] = work[j]]
            /\ active' = [active EXCEPT ![j] = TRUE]
            /\ gate' = [gate EXCEPT ![j] = "progress"]
            /\ UNCHANGED ends
       ELSE Continue(j, "report") /\ UNCHANGED <<items, active, gate>>
    /\ UNCHANGED <<table, status, cancel, paused, timedOut, userCancelled, work, pool,
                   stored, feed>>

\* Mutant: the event gate is not released after a report.
ReportTellKeepsGate(j) ==
    /\ Continue(j, "emitting")
    /\ shown' = [shown EXCEPT ![j] = work[j]]
    /\ UNCHANGED <<table, status, items, control, gate, work, pool, stored, told>>

\* ... then the event.
ReportTell(j) ==
    /\ Continue(j, "emitting")
    /\ shown' = [shown EXCEPT ![j] = work[j]]
    /\ gate' = [gate EXCEPT ![j] = "free"]
    /\ UNCHANGED <<table, status, items, control, work, pool, stored, told>>

-----------------------------------------------------------------------------
(* The end of a task: status, history row, event, history retention.       *)

\* Mutant: what the executor returned is taken for the status.
VerdictIsResult(j) == result[j]

Verdict(j) ==
    IF result[j] = "ok" THEN "completed"
    ELSE IF result[j] = "cancelled" /\ (userCancelled[j] \/ ~timedOut[j]) THEN "cancelled"
    ELSE "failed"

EndStatus(j) ==
    /\ Goto(j, "ending", "ended")
    /\ outcome' = [outcome EXCEPT ![j] = Verdict(j)]
    /\ status' = IF j \in table THEN [status EXCEPT ![j] = Verdict(j)] ELSE status
    /\ clock' = clock + 1
    /\ endedAt' = [endedAt EXCEPT ![j] = clock']
    /\ UNCHANGED <<table, items, control, gate, work, result, pool, history, startedAt,
                   unsaved, feed>>

\* Mutant: the end is not stored before the event is sent.
EndStoreLater(j) ==
    /\ Goto(j, "ended", "stored")
    /\ UNCHANGED <<table, status, items, control, gate, work, ends, pool, stored, feed>>

\* update_terminal: an UPDATE, which does nothing when the job has no row.
EndStore(j) ==
    /\ Goto(j, "ended", "stored")
    /\ Save(j, IF history[j] = "none" THEN history
               ELSE [history EXCEPT ![j] = outcome[j]])
    /\ UNCHANGED <<table, status, items, control, gate, work, ends, pool, startedAt,
                   endedAt, clock, feed>>

\* Mutant: the event of an end does not wait for the gate.
EndTellUngated(j) ==
    /\ Goto(j, "stored", IF result[j] = "unsent" THEN "done" ELSE "told")
    /\ told' = [told EXCEPT ![j] = outcome[j]]
    /\ UNCHANGED <<table, status, items, control, gate, work, ends, pool, stored, shown>>

\* The event of a task passes the gate; that of a failed dispatch does not.
EndTell(j) ==
    /\ gate[j] = "free" \/ result[j] = "unsent"
    /\ Goto(j, "stored", IF result[j] = "unsent" THEN "done" ELSE "told")
    /\ told' = [told EXCEPT ![j] = outcome[j]]
    /\ UNCHANGED <<table, status, items, control, gate, work, ends, pool, stored, shown>>

\* Mutant: retention counts and deletes the rows of running jobs as well.
UnkeptOfAll ==
    LET rows == {k \in Jobs : history[k] # "none"}
    IN  {k \in rows : Cardinality({m \in rows : startedAt[m] > startedAt[k]}) >= HistoryLimit}

\* cleanup_terminal_history: rows of the operations that started last stay.
Unkept ==
    LET over == {k \in Jobs : history[k] \notin {"none", "running"}}
    IN  {k \in over : Cardinality({m \in over : startedAt[m] > startedAt[k]}) >= HistoryLimit}

\* Mutant: the admission is not given back.
EndCleanupLeaks(j) ==
    /\ Goto(j, "told", "done")
    /\ \/ history' = [k \in Jobs |-> IF k \in Unkept THEN "none" ELSE history[k]]
       \/ StoreMayFail /\ UNCHANGED history
    /\ UNCHANGED <<table, status, items, control, gate, work, ends, pool,
                   startedAt, endedAt, clock, unsaved, feed>>

\* The admission is dropped with the task.
EndCleanup(j) ==
    /\ Goto(j, "told", "done")
    /\ \/ history' = [k \in Jobs |-> IF k \in Unkept THEN "none" ELSE history[k]]
       \/ StoreMayFail /\ UNCHANGED history
    /\ admitted' = admitted - 1
    /\ UNCHANGED <<table, status, items, control, gate, work, ends, queue, workers,
                   startedAt, endedAt, clock, unsaved, feed>>

-----------------------------------------------------------------------------
(* Requests of the user, who knows a job from its JobStarted event, and    *)
(* the watchdog.                                                           *)

\* Mutant: a cancel claims a job the watchdog has timed out.
CancelAlways(j) ==
    /\ j \in table /\ told[j] # "none"
    /\ cancel' = [cancel EXCEPT ![j] = TRUE]
    /\ userCancelled' = [userCancelled EXCEPT ![j] = TRUE]
    /\ UNCHANGED <<phase, table, status, items, paused, timedOut, active, gate, work, ends,
                   pool, stored, feed>>

Cancel(j) ==
    /\ j \in table /\ told[j] # "none"
    /\ cancel' = [cancel EXCEPT ![j] = TRUE]
    /\ userCancelled' = [userCancelled EXCEPT ![j] = @ \/ ~timedOut[j]]
    /\ UNCHANGED <<phase, table, status, items, paused, timedOut, active, gate, work, ends,
                   pool, stored, feed>>

\* The table holds the event sink weakly: it is gone with a task that panicked.
SinkAlive(j) == phase[j] \in Live

\* Mutant: a job that has ended can be paused.
PauseAnything(j) ==
    /\ j \in table /\ told[j] # "none"
    /\ gate[j] = "free"
    /\ paused' = [paused EXCEPT ![j] = TRUE]
    /\ status' = [status EXCEPT ![j] = "paused"]
    /\ gate' = IF SinkAlive(j) THEN [gate EXCEPT ![j] = "paused"] ELSE gate
    /\ UNCHANGED <<phase, table, items, cancel, timedOut, userCancelled, active, work, ends,
                   pool, stored, feed>>

\* pause_job and resume_job hold the gate from the change to the event.
PauseBegin(j) ==
    /\ j \in table /\ told[j] # "none"
    /\ gate[j] = "free"
    /\ status[j] = "running"
    /\ paused' = [paused EXCEPT ![j] = TRUE]
    /\ status' = [status EXCEPT ![j] = "paused"]
    /\ gate' = IF SinkAlive(j) THEN [gate EXCEPT ![j] = "paused"] ELSE gate
    /\ UNCHANGED <<phase, table, items, cancel, timedOut, userCancelled, active, work, ends,
                   pool, stored, feed>>

ResumeBegin(j) ==
    /\ j \in table /\ told[j] # "none"
    /\ gate[j] = "free"
    /\ status[j] = "paused"
    /\ paused' = [paused EXCEPT ![j] = FALSE]
    /\ status' = [status EXCEPT ![j] = "running"]
    /\ active' = [active EXCEPT ![j] = TRUE]
    /\ gate' = IF SinkAlive(j) THEN [gate EXCEPT ![j] = "resumed"] ELSE gate
    /\ UNCHANGED <<phase, table, items, cancel, timedOut, userCancelled, work, ends,
                   pool, stored, feed>>

GateTell(j) ==
    /\ \/ gate[j] = "paused" /\ told' = [told EXCEPT ![j] = "paused"]
       \/ gate[j] = "resumed" /\ told' = [told EXCEPT ![j] = "running"]
    /\ gate' = [gate EXCEPT ![j] = "free"]
    /\ UNCHANGED <<phase, table, status, items, control, work, ends, pool, stored, shown>>

\* The watchdog finds the job idle for too long: it may, whenever the clock runs.
Watchdog(j) ==
    /\ j \in table /\ status[j] = "running"
    /\ ~timedOut[j] /\ ~userCancelled[j]
    /\ active[j]
    /\ timedOut' = [timedOut EXCEPT ![j] = TRUE]
    /\ cancel' = [cancel EXCEPT ![j] = TRUE]
    /\ UNCHANGED <<phase, table, status, items, paused, userCancelled, active, gate, work,
                   ends, pool, stored, feed>>

\* clear_terminal_history
ClearHistory ==
    /\ \E j \in Jobs : history[j] \notin {"none", "running"}
    /\ history' = [j \in Jobs |-> IF history[j] = "running" THEN "running" ELSE "none"]
    /\ UNCHANGED <<phase, table, status, items, control, gate, work, ends, pool, startedAt,
                   endedAt, clock, unsaved, feed>>

-----------------------------------------------------------------------------
(* Failures of the process.                                                *)

\* An executor panics: unwinding ends the worker and drops the admission, and the
\* last worker takes the receiver and the tasks in it along.
Panic(j) ==
    LET lost == {j} \cup IF workers = 1 THEN {k \in Jobs : phase[k] = "queued"} ELSE {}
    IN  /\ phase[j] = "work"
        /\ WorkerCount - workers < MaxPanics
        /\ workers' = workers - 1
        /\ phase' = [k \in Jobs |-> IF k \in lost THEN "panicked" ELSE phase[k]]
        /\ queue' = IF workers = 1 THEN <<>> ELSE queue
        /\ admitted' = admitted - Cardinality(lost)
        /\ UNCHANGED <<table, status, items, control, gate, work, ends, stored, feed>>

\* The process ends and starts again: boot calls mark_interrupted_jobs before it
\* makes the runtime.
Restart ==
    /\ \E j \in Jobs : phase[j] \notin {"new", "rejected", "dead"}
    /\ phase' = [j \in Jobs |-> IF phase[j] = "new" \/ phase[j] \in Over THEN phase[j] ELSE "dead"]
    /\ table' = {}
    /\ gate' = [j \in Jobs |-> "free"]
    /\ queue' = <<>>
    /\ workers' = WorkerCount
    /\ admitted' = 0
    /\ history' = [j \in Jobs |-> IF history[j] = "running" THEN "interrupted" ELSE history[j]]
    /\ told' = [j \in Jobs |-> IF told[j] = "none" THEN "none" ELSE "gone"]
    /\ UNCHANGED <<status, items, control, work, ends, startedAt, endedAt, clock, unsaved, shown>>

-----------------------------------------------------------------------------
\* The thread that calls start, and the worker after it.
Advance(j) ==
    \/ Admit(j) \/ Register(j) \/ RecordStart(j) \/ Announce(j) \/ Dispatch(j) \/ DispatchFails(j)
    \/ Dequeue(j) \/ CheckTokens(j) \/ DoItem(j) \/ ItemFails(j) \/ ReportTell(j)
    \/ EndStatus(j) \/ EndStore(j) \/ EndCleanup(j)

Next ==
    \/ \E j \in Jobs :
        \/ Plan(j) \/ Expire(j) \/ TakePlan(j) \/ WriteText(j)
        \/ Advance(j) \/ ReportBegin(j) \/ EndTell(j)
        \/ GateTell(j) \/ Panic(j)
    \/ \E j \in Controlled :
        Cancel(j) \/ PauseBegin(j) \/ ResumeBegin(j) \/ Watchdog(j)
    \/ ClearHistory
    \/ Restart

Spec == Init /\ [][Next]_vars

\* Threads keep running; a thread that waits for the gate, which is only ever held
\* for the length of one event, gets it.
Fairness ==
    \A j \in Jobs : /\ WF_vars(Advance(j)) /\ WF_vars(GateTell(j))
                    /\ SF_vars(ReportBegin(j)) /\ SF_vars(EndTell(j))

FairSpec == Spec /\ Fairness

-----------------------------------------------------------------------------
(* Properties.                                                             *)

\* The webview never hears of an end before the history has it: the operation
\* panel reads the history again when it hears of the end.
RecordedBeforeTold ==
    \A j \in Jobs : told[j] \in Endings /\ j \notin unsaved =>
        history[j] \in {told[j], "none"}

\* The history says "running" only of a job that still has a thread, or lost it to a
\* panic in this process; and retention and clearing leave the row of such a job alone.
RowsOfLiveJobs ==
    \A j \in Jobs \ unsaved :
        /\ history[j] = "running" => phase[j] \in Unfinished \cup {"panicked"}
        /\ phase[j] \in Unfinished => history[j] = "running"

\* Between two events, what the webview was told of a job is what job_status answers.
StatusAgrees ==
    \A j \in table : told[j] # "none" /\ phase[j] \notin {"ended", "stored", "panicked"}
                      /\ gate[j] \in {"free", "progress"} => told[j] = status[j]

\* The thread that starts a job (a command handler) never blocks on a full channel.
SendNeverBlocks ==
    (\E j \in Jobs : phase[j] = "announced") => Len(queue) < QueueCapacity

\* Every admission is given back exactly once, on every path, panics included.
AdmissionExact == admitted = Cardinality(Admitted) /\ admitted <= ActiveLimit

\* Retention in the job table never takes a job that could still be controlled, so
\* cancel finds every job that runs.
LiveJobsInTable ==
    \A j \in Jobs : phase[j] \in Live \ {"admitted", "ended", "stored", "told"} => j \in table

\* A job is either cancelled by the user or timed out, never both.
BlameExclusive == \A j \in Jobs : ~(timedOut[j] /\ userCancelled[j])

\* Progress that is reported follows progress that was made, and stops for good
\* when the user cancels or the watchdog fires.
NoProgressAfterCancel ==
    [][\A j \in Jobs : cancel[j] => items'[j] = items[j]]_vars

\* The stream of events keeps its promise.
ImplementsFeed == Feed!FeedSpec

\* A job in execution that is cancelled ends: paused or not, whatever the user does.
CancelEnds ==
    \A j \in Jobs : (phase[j] \in InTask /\ cancel[j]) ~> phase[j] \in Over

\* Every job announced to the webview is announced to have ended, unless it waits
\* for a paused job.
StartedJobsEnd ==
    \A j \in Jobs : told[j] = "running" ~>
        \/ told[j] \in Endings \cup {"gone"}
        \/ \E k \in Jobs : paused[k]

-----------------------------------------------------------------------------
(* The inductive invariants behind the safety properties.                  *)

\* A token is only ever set for one of the two reasons.
TokenInv ==
    /\ BlameExclusive
    /\ \A j \in Jobs : cancel[j] => timedOut[j] \/ userCancelled[j]

\* A job is in the table from registration to the end of its task, and its status is
\* terminal from the end of its executor on.
TableInv ==
    \A j \in Jobs :
        /\ phase[j] \in Early \cup Running => status[j] \in {"running", "paused"}
        /\ phase[j] \in {"registered", "recorded"} \cup Running => j \in table
        /\ j \in table => phase[j] \in {"registered", "recorded", "told", "done", "panicked"}
                                     \cup Running \cup Closing
        /\ j \in table /\ phase[j] \in Closing \cup {"told", "done"} => status[j] = outcome[j]
        /\ phase[j] \in Closing \cup {"told", "done"} => outcome[j] \in Endings

\* What the webview was told, by the program point of the job.
ToldInv ==
    \A j \in Jobs :
        /\ phase[j] \in Early => told[j] = "none"
        /\ phase[j] \in Running \cup Closing => told[j] \in {"running", "paused"}
        /\ told[j] \in Endings => phase[j] \in {"told", "done"}
        /\ gate[j] \in {"paused", "resumed"} => phase[j] \notin Early

\* What the history has, by the program point of the job.
RecordInv ==
    /\ RecordedBeforeTold
    /\ RowsOfLiveJobs
    /\ \A j \in Jobs : phase[j] = "stored" /\ j \notin unsaved => history[j] \in {outcome[j], "none"}

\* Who holds the event gate, and what is still to be told.
GateInv ==
    \A j \in Jobs :
        /\ gate[j] = "progress" <=> phase[j] = "emitting"
        /\ gate[j] = "progress" \/ phase[j] \in Early => status[j] = "running"
        /\ gate[j] \in {"paused", "resumed"} => phase[j] \in Running \cup Closing
        /\ gate[j] = "paused" => told[j] = "running"
        /\ gate[j] = "resumed" => told[j] = "paused"
        /\ phase[j] \in Running =>
             status[j] = IF gate[j] = "paused" THEN "paused"
                         ELSE IF gate[j] = "resumed" THEN "running" ELSE told[j]
        /\ j \in table /\ phase[j] \in {"told", "done"} => told[j] = outcome[j]
        /\ shown[j] <= work[j]

\* No worker is lost when no executor panics.
NoPanicInv ==
    /\ workers = WorkerCount
    /\ \A j \in Jobs : phase[j] # "panicked" /\ result[j] # "unsent"

\* A task has a result once it ran, or could not be queued.
ResultInv ==
    \A j \in Jobs :
        /\ result[j] # "none" => phase[j] \in {"ending", "told", "done", "dead"} \cup Closing
        /\ phase[j] = "told" => result[j] # "unsent"

\* The channel holds the queued jobs, each once.
QueueInv ==
    /\ \A i \in 1 .. Len(queue) : phase[queue[i]] = "queued"
    /\ \A i, k \in 1 .. Len(queue) : queue[i] = queue[k] => i = k

=============================================================================
