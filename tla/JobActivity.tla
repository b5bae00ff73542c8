---------------------------- MODULE JobActivity ----------------------------
(***************************************************************************)
(* The list of jobs the webview shows, kept by merging the events of the   *)
(* operation runtime, the responses of start_file_operation and of         *)
(* cancel_job.  The runtime is known here by what it promises (JobFeed).   *)
(*                                                                         *)
(* On Linux an event reaches the page as a script that pushes its payload  *)
(* on a buffer of its event name and sets a timer; the timer delivers      *)
(* everything in the buffer of that name.  So events of one name arrive in *)
(* order, but an event can overtake one of another name.  Elsewhere events *)
(* arrive one by one, which is the case of timers that fire at once.       *)
(* Jobs share nothing on the page but the timers: those of jobs that are   *)
(* not looked at are set by SendOther.                                     *)
(***************************************************************************)
EXTENDS Naturals, Sequences

CONSTANTS
    Jobs,
    Total,      \* items of every job
    MaxTime,    \* bound on the milliseconds that pass
    OtherNames, \* bound: the names of the events of jobs that are not looked at
    MaxTimers   \* bound on the timers set when a report, or such an event, is sent


VARIABLES
    told, shown,    \* the stream of events of the runtime: see JobFeed
    now,            \* the millisecond
    startedAt,      \* timestamp of the job's start
    moved,          \* timestamp of its last start, pause or resume
    stamp,          \* when the executor went on after its last report
    buffer,         \* __FO_EVENT_BUFFER__
    timers,         \* the names of the timers that are set, in order
    view,           \* the jobs map of JobsProvider
    answered,       \* jobs whose start response arrived
    asked           \* the cancel request of the job, if there was one

runtime == <<told, shown, startedAt, moved, stamp>>
page    == <<view, answered, asked>>
vars    == <<runtime, now, buffer, timers, page>>

Feed == INSTANCE JobFeed

Endings == {"completed", "failed", "cancelled"}
Names   == {"started", "progress", "paused", "resumed"} \cup Endings

ASSUME ActivityConstants ==
    /\ {Total, MaxTimers} \subseteq Nat \ {0} /\ MaxTime \in Nat
    /\ OtherNames \subseteq Names

Events  == [name : Names, job : Jobs, at : Nat, items : Nat]
Absent  == [status |-> "absent", items |-> 0, at |-> 0]

TypeOK ==
    /\ Feed!FeedTypeOK
    /\ now \in 0 .. MaxTime
    /\ {startedAt, moved, stamp} \subseteq [Jobs -> 0 .. MaxTime]
    /\ buffer \in [Names -> Seq(Events)]
    /\ timers \in Seq(Names)
    /\ view \in [Jobs -> [status : {"absent", "running", "paused"} \cup Endings,
                          items : 0 .. Total, at : 0 .. MaxTime]]
    /\ answered \subseteq Jobs
    /\ asked \in [Jobs -> {"no", "asked", "answered"}]

Init ==
    /\ Feed!FeedInit
    /\ now = 0
    /\ startedAt = [j \in Jobs |-> 0]
    /\ moved = [j \in Jobs |-> 0]
    /\ stamp = [j \in Jobs |-> 0]
    /\ buffer = [n \in Names |-> <<>>]
    /\ timers = <<>>
    /\ view = [j \in Jobs |-> Absent]
    /\ answered = {}
    /\ asked = [j \in Jobs |-> "no"]

-----------------------------------------------------------------------------
(* The runtime, and the scripts its events become.                         *)

Emit(n, j, t, k) ==
    LET event == [name |-> n, job |-> j, at |-> t, items |-> k]
    IN  /\ buffer' = [buffer EXCEPT ![n] = Append(@, event)]
        /\ timers' = Append(timers, n)

Tick ==
    /\ now < MaxTime
    /\ now' = now + 1
    /\ UNCHANGED <<runtime, buffer, timers, page>>

Start(j) ==
    /\ Feed!Started(j)
    /\ startedAt' = [startedAt EXCEPT ![j] = now]
    /\ moved' = [moved EXCEPT ![j] = now]
    /\ stamp' = [stamp EXCEPT ![j] = now]
    /\ Emit("started", j, now, 0)
    /\ UNCHANGED <<now, page>>

\* Its timestamp is taken before the executor waits for the event gate.
Report(j) ==
    /\ Len(timers) < MaxTimers
    /\ \E k \in 0 .. Total : shown' = [shown EXCEPT ![j] = k]
    /\ Feed!Progress(j)
    /\ stamp' = [stamp EXCEPT ![j] = now]
    /\ \E t \in stamp[j] .. now : Emit("progress", j, t, shown'[j])
    /\ UNCHANGED <<startedAt, moved, now, page>>

\* A request comes when the runtime takes it, whatever the page shows by then.  The user
\* is slower than the clock: no two requests for a job, and none in the millisecond it
\* starts.
PauseOrResume(j) ==
    /\ moved[j] < now
    /\ moved' = [moved EXCEPT ![j] = now]
    /\ \/ Feed!Paused(j) /\ Emit("paused", j, now, 0)
       \/ Feed!Resumed(j) /\ Emit("resumed", j, now, 0)
    /\ UNCHANGED <<startedAt, stamp, now, page>>

\* The timestamp of an end is taken before the status is set, so a pause that comes
\* in between has a later one.
End(j) ==
    /\ Feed!Ended(j)
    /\ \E t \in stamp[j] .. now : Emit(told'[j], j, t, Total)
    /\ UNCHANGED <<startedAt, moved, stamp, now, page>>

\* An event of a job that is not looked at sets a timer of its name too.
SendOther ==
    /\ Len(timers) < MaxTimers
    /\ \E n \in OtherNames : timers' = Append(timers, n)
    /\ UNCHANGED <<runtime, now, buffer, page>>

-----------------------------------------------------------------------------
(* The page.                                                               *)

isTerminalStatus(s) == s \in Endings
\* Mutant: counts are added up.
LargerBySum(m, n) == m + n

Larger(m, n) == IF m > n THEN m ELSE n

\* Mutant: a late start response or start event replaces a newer snapshot.
mergeAnySnapshot(jobs, j, at) ==
    LET old == jobs[j]
    IN  IF old # Absent /\ isTerminalStatus(old.status)
        THEN old
        ELSE [status |-> "running", items |-> 0, at |-> at]

\* mergeJobSnapshot, of a snapshot made when the job started.
mergeJobSnapshot(jobs, j, at) ==
    LET old == jobs[j]
    IN  IF old # Absent /\ (isTerminalStatus(old.status) \/ at < old.at)
        THEN old
        ELSE [status |-> "running", items |-> 0, at |-> at]

\* mergeProgress, mergePaused, mergeResumed drop an event older than the snapshot;
\* mergeCompleted, mergeFailed and mergeCancelled do not.
Merged(jobs, e) ==
    LET old   == IF jobs[e.job] = Absent
                 THEN [status |-> "running", items |-> 0, at |-> e.at]
                 ELSE jobs[e.job]
        older == e.at < old.at
    IN  IF e.name = "started" THEN mergeJobSnapshot(jobs, e.job, e.at)
        ELSE IF isTerminalStatus(old.status) \/ (older /\ e.name \notin Endings) THEN old
        ELSE [status |-> IF e.name = "progress" THEN old.status
                         ELSE IF e.name = "resumed" THEN "running" ELSE e.name,
              items  |-> IF e.name \in {"progress", "completed"}
                         THEN Larger(old.items, e.items) ELSE old.items,
              at     |-> e.at]

\* Mutant: an event of a job that is not in the list yet is ignored.
DeliverKnown(jobs, e) ==
    IF jobs[e.job] = Absent THEN jobs ELSE [jobs EXCEPT ![e.job] = Merged(jobs, e)]

Deliver(jobs, e) == [jobs EXCEPT ![e.job] = Merged(jobs, e)]

\* The handler is called for one event of a buffer after the other.
DeliverAll(jobs, events) ==
    LET after[i \in 0 .. Len(events)] == IF i = 0 THEN jobs ELSE Deliver(after[i - 1], events[i])
    IN  after[Len(events)]

\* The first timer fires: the whole buffer of its name goes to the handler.
Drain ==
    /\ timers # <<>>
    /\ view' = DeliverAll(view, buffer[Head(timers)])
    /\ buffer' = [buffer EXCEPT ![Head(timers)] = <<>>]
    /\ timers' = Tail(timers)
    /\ UNCHANGED <<runtime, now, answered, asked>>

\* startPlannedOperation: the response carries the snapshot of the start.
AnswerStart(j) ==
    /\ told[j] # "none" /\ j \notin answered
    /\ answered' = answered \cup {j}
    /\ view' = [view EXCEPT ![j] = mergeJobSnapshot(view, j, startedAt[j])]
    /\ UNCHANGED <<runtime, now, buffer, timers, asked>>

Pending(j) == \E n \in Names : \E i \in DOMAIN buffer[n] : buffer[n][i].job = j

\* Mutant: the job is shown as cancelled when the button is pressed.
AskCancelOptimistic(j) ==
    /\ view[j].status \in {"running", "paused"}
    /\ asked[j] = "no"
    /\ asked' = [asked EXCEPT ![j] = "asked"]
    /\ view' = [view EXCEPT ![j].status = "cancelled"]
    /\ UNCHANGED <<runtime, now, buffer, timers, answered>>

\* The button is there while the job is not shown as ended.
AskCancel(j) ==
    /\ view[j].status \in {"running", "paused"}
    /\ asked[j] = "no"
    /\ asked' = [asked EXCEPT ![j] = "asked"]
    /\ UNCHANGED <<runtime, now, buffer, timers, view, answered>>

\* useCancelActiveJob, once cancel_job has answered.  A job the runtime does not know
\* is removed: the job table dropped it, which takes 128 ends after its own, so its
\* events and its start response are long there.
AnswerCancel(j) ==
    /\ asked[j] = "asked"
    /\ asked' = [asked EXCEPT ![j] = "answered"]
    /\ \/ view' = IF view[j] = Absent THEN view ELSE [view EXCEPT ![j].status = "cancelled"]
       \/ told[j] \in Endings /\ j \in answered /\ ~Pending(j)
          /\ view' = [view EXCEPT ![j] = Absent]
    /\ UNCHANGED <<runtime, now, buffer, timers, answered>>

-----------------------------------------------------------------------------
Next ==
    \/ Tick
    \/ Drain \/ SendOther
    \/ \E j \in Jobs :
        \/ Start(j) \/ Report(j) \/ PauseOrResume(j) \/ End(j)
        \/ AnswerStart(j) \/ AskCancel(j) \/ AnswerCancel(j)

Spec == Init /\ [][Next]_vars

\* The page runs its timers.
FairSpec == Spec /\ WF_vars(Drain)

-----------------------------------------------------------------------------
\* A job nobody asked to cancel is never shown with an end it did not have, in
\* whatever order its events and the start response arrive.
NoFalseEnd ==
    \A j \in Jobs : isTerminalStatus(view[j].status) /\ asked[j] # "answered" =>
        view[j].status = told[j]

\* Once everything sent has arrived, the page shows what the runtime said last, but for a
\* job that is shown as paused though it runs, which it is until its end if a report
\* that is newer than the resume has overtaken the event of the resume.
SettledView ==
    \A j \in Jobs : told[j] # "none" /\ ~Pending(j) /\ j \in answered /\ asked[j] # "answered" =>
        /\ \/ view[j].status = told[j]
           \/ told[j] = "running" /\ view[j].status = "paused" /\ view[j].at > moved[j]
        /\ told[j] = "completed" => view[j].items = Total

\* The list of jobs tells the truth: an end it shows is the end that was told, and when
\* everything sent has arrived nothing it shows is out of date.
TrueView == NoFalseEnd /\ SettledView

\* The count shown of a job goes back only to nothing, when the event or the response of
\* its start arrives, and only if what came before it is of the millisecond of the start.
CountersRegressOnlyAtStart ==
    [][\A j \in Jobs :
         view'[j].items < view[j].items =>
            \/ view'[j].items = 0 /\ view[j].at = startedAt[j]
            \/ view'[j] = Absent]_vars

\* Every end reaches the page.
EndsAreShown ==
    \A j \in Jobs : told[j] \in Endings ~> isTerminalStatus(view[j].status) \/ view[j] = Absent

=============================================================================
