------------------------ MODULE JobActivity_proofs -------------------------
(***************************************************************************)
(* Theorems about JobActivity, for any number of jobs and items, any time  *)
(* and any number of timers.                                               *)
(*                                                                         *)
(* A job that is told of is shown as it was told last (Settled), or an     *)
(* event that will make it so is in a buffer (Decides).  What decides is   *)
(* never dropped as too old, and nothing that is delivered after it undoes *)
(* it: both are about timestamps, of which Sent says what an event that    *)
(* was sent can bear and ShownInv what a snapshot can.                     *)
(***************************************************************************)
EXTENDS JobActivity, WellFoundedInduction, TLAPS

Statuses  == {"absent", "running", "paused"} \cup Endings
Snapshots == [status : Statuses, items : 0 .. Total, at : 0 .. MaxTime]

\* The timestamps of a job are in the order in which they were taken.
TimesInv ==
    \A j \in Jobs :
        /\ startedAt[j] <= moved[j] /\ moved[j] <= now
        /\ startedAt[j] <= stamp[j] /\ stamp[j] <= now
        /\ told[j] # "gone" /\ shown[j] <= Total
        /\ told[j] = "paused" => startedAt[j] < moved[j]

\* What an event bears that was sent and not delivered yet
Sent(e) ==
    /\ e.items <= Total /\ e.at <= now
    /\ told[e.job] # "none" /\ startedAt[e.job] <= e.at
    /\ e.name \in Endings => told[e.job] = e.name /\ (e.name = "completed" => e.items = Total)
    /\ e.name = "started" => e.at = startedAt[e.job]
    /\ e.name \in {"paused", "resumed"} => startedAt[e.job] < e.at /\ e.at <= moved[e.job]
    /\ told[e.job] = "paused" => e.at <= moved[e.job] /\ (e.name = "resumed" => e.at < moved[e.job])
    /\ told[e.job] = "running" /\ e.name = "paused" => e.at < moved[e.job]

\* The event that says what was told last
Decides(e) ==
    \/ told[e.job] = "running" /\ e.name \in {"started", "resumed"} /\ e.at = moved[e.job]
    \/ told[e.job] = "paused" /\ e.name = "paused" /\ e.at = moved[e.job]
    \/ e.name \in Endings

\* What the page may show of a job, whatever has arrived
ShownInv(j, v) ==
    /\ v.status = "absent" => v = Absent
    /\ v.at <= now
    /\ v # Absent => told[j] # "none" /\ startedAt[j] <= v.at
    /\ asked[j] # "answered" /\ v.status \in Endings =>
           v.status = told[j] /\ (told[j] = "completed" => v.items = Total)
    /\ told[j] = "paused" => v.at <= moved[j]

\* What was told last is shown.
Settled(j, v) ==
    asked[j] # "answered" =>
        /\ told[j] = "running" =>
               /\ v.status # "absent" /\ moved[j] <= v.at
               /\ v.status = "running" \/ (v.status = "paused" /\ moved[j] < v.at)
        /\ told[j] = "paused" => v.status = "paused" /\ v.at = moved[j]
        /\ told[j] \in Endings => v.status = told[j] /\ (told[j] = "completed" => v.items = Total)

\* The event is in a buffer.
Underway(e) == \E n \in Names : \E i \in DOMAIN buffer[n] : buffer[n][i] = e

Deciding(j) == \E e \in Events : Underway(e) /\ e.job = j /\ Decides(e)

BuffersInv ==
    /\ \A n \in Names : \A i \in DOMAIN buffer[n] : buffer[n][i].name = n
    /\ \A e \in Events : Underway(e) => Sent(e)

ViewsInv ==
    \A j \in Jobs, v \in Snapshots : v = view[j] =>
        ShownInv(j, v) /\ (told[j] # "none" => Settled(j, v) \/ Deciding(j))

ActivityInv == TypeOK /\ TimesInv /\ BuffersInv /\ ViewsInv

-----------------------------------------------------------------------------
(* A buffer is delivered event by event.                                   *)

Smaller == {ss \in Nat \X Nat : ss[1] < ss[2]}

\* A set of numbers that is not empty has a least one.
LEMMA LeastNumber ==
    ASSUME NEW T, T \subseteq Nat, T # {}
    PROVE  \E x \in T : \A y \in T : x <= y
<1>1. IsWellFoundedOn(Smaller, Nat)
  <2>1. OpToRel(<, Nat) = Smaller
    BY Zenon DEF OpToRel, Smaller
  <2> QED BY <2>1, NatLessThanWellFounded
<1>2. PICK x \in T : \A y \in T : ~(<<y, x>> \in Smaller)
  BY <1>1, WFMin
<1>3. ASSUME NEW y \in T PROVE x <= y
  <2>1. x \in Nat /\ y \in Nat /\ <<y, x>> \notin Smaller
    BY <1>2
  <2>2. ~(y < x)
    BY <2>1 DEF Smaller
  <2> QED BY <2>1, <2>2
<1> QED BY <1>3

\* f says what there is after the first i of the events.
Course(f, jobs, events) ==
    f = [i \in 0 .. Len(events) |-> IF i = 0 THEN jobs ELSE Deliver(f[i - 1], events[i])]

\* The events up to the n-th have a course.
Begun(f, jobs, events, n) ==
    f = [i \in 0 .. n |-> IF i = 0 THEN jobs ELSE Deliver(f[i - 1], events[i])]

\* DeliverAll ends a course: the recursive definition has a solution.
LEMMA DeliveredIs ==
    ASSUME NEW jobs, NEW events, Len(events) \in Nat
    PROVE  \E f : Course(f, jobs, events) /\ DeliverAll(jobs, events) = f[Len(events)]
<1> DEFINE T == {n \in Nat : ~\E f : Begun(f, jobs, events, n)}
<1>1. T = {}
  <2> SUFFICES ASSUME T # {} PROVE FALSE
    OBVIOUS
  <2>1. PICK n \in T : \A m \in T : n <= m
    <3> HIDE DEF T
    <3>1. T \subseteq Nat
      BY DEF T
    <3> QED BY <3>1, LeastNumber
  <2>2. n # 0
    <3>1. Begun([i \in 0 .. 0 |-> jobs], jobs, events, 0)
      BY DEF Begun
    <3> QED BY <3>1
  <2>3. n - 1 \in Nat /\ n - 1 \notin T
    BY <2>1, <2>2
  <2>4. PICK f : Begun(f, jobs, events, n - 1)
    BY <2>3
  <2> DEFINE g == [i \in 0 .. n |-> IF i = n THEN Deliver(f[n - 1], events[n]) ELSE f[i]]
  <2>5. ASSUME NEW i \in 0 .. n
        PROVE  g[i] = IF i = 0 THEN jobs ELSE Deliver(g[i - 1], events[i])
    <3>1. CASE i = n
      <4>1. g[n] = Deliver(f[n - 1], events[n]) /\ g[n - 1] = f[n - 1]
        BY <2>2, <2>3
      <4> QED BY <3>1, <4>1, <2>2
    <3>2. CASE i # n
      <4>1. i \in 0 .. n - 1 /\ g[i] = f[i]
        BY <3>2, <2>3
      <4>2. f[i] = IF i = 0 THEN jobs ELSE Deliver(f[i - 1], events[i])
        BY <4>1, <2>4 DEF Begun
      <4>3. i # 0 => g[i - 1] = f[i - 1]
        BY <4>1, <2>3
      <4> QED BY <4>1, <4>2, <4>3
    <3> QED BY <3>1, <3>2
  <2>6. g = [i \in 0 .. n |-> IF i = 0 THEN jobs ELSE Deliver(g[i - 1], events[i])]
    <3> HIDE DEF g
    <3>1. g = [i \in 0 .. n |-> g[i]]
      BY DEF g
    <3> QED BY <3>1, <2>5
  <2>7. Begun(g, jobs, events, n)
    <3> HIDE DEF g
    <3> QED BY <2>6 DEF Begun
  <2> QED BY <2>7, <2>1
<1>2. \E f : Course(f, jobs, events)
  BY <1>1 DEF Begun, Course
<1> DEFINE h == CHOOSE f : Course(f, jobs, events)
<1>3. DeliverAll(jobs, events) = h[Len(events)]
  BY DEF DeliverAll, Course
<1>4. Course(h, jobs, events)
  BY <1>2
<1> QED BY <1>3, <1>4

-----------------------------------------------------------------------------
(* What one event, or the start response, makes of a snapshot.             *)

LEMMA NamesAre ==
    /\ Names = {"started", "progress", "paused", "resumed", "completed", "failed", "cancelled"}
    /\ Endings = {"completed", "failed", "cancelled"}
    /\ Absent \in Snapshots /\ Absent.status = "absent"
    /\ Absent.items = 0 /\ Absent.at = 0
  BY ActivityConstants DEF Names, Endings, Absent, Snapshots, Statuses

\* The snapshot of the start, from the response or the event: what is shown stays or begins
\* anew, and what was told last stays shown.
LEMMA SnapshotKeeps ==
    ASSUME TypeOK, TimesInv, NEW jobs \in [Jobs -> Snapshots], NEW j \in Jobs,
           ShownInv(j, jobs[j]), told[j] # "none",
           NEW v, v = mergeJobSnapshot(jobs, j, startedAt[j])
    PROVE  /\ v \in Snapshots /\ ShownInv(j, v)
           /\ Settled(j, jobs[j]) => Settled(j, v)
           /\ told[j] = "running" /\ startedAt[j] = moved[j] => Settled(j, v)
           /\ \/ v = jobs[j]
              \/ /\ v.items = 0 /\ v.at = startedAt[j]
                 /\ jobs[j] = Absent \/ jobs[j].at = startedAt[j]
<1> DEFINE old == jobs[j]
<1>0. /\ startedAt[j] \in 0 .. MaxTime /\ moved[j] \in 0 .. MaxTime /\ now \in 0 .. MaxTime
      /\ old \in Snapshots /\ MaxTime \in Nat /\ Total \in Nat
      /\ told[j] \in {"none", "running", "paused", "gone", "completed", "failed", "cancelled"}
      /\ startedAt[j] <= moved[j] /\ moved[j] <= now
      /\ told[j] = "paused" => startedAt[j] < moved[j]
  BY ActivityConstants DEF TypeOK, TimesInv, Feed!FeedTypeOK, Feed!Endings
<1>1. CASE old # Absent /\ (old.status \in Endings \/ startedAt[j] < old.at)
  <2>1. v = old
    BY <1>1 DEF mergeJobSnapshot, isTerminalStatus
  <2>2. told[j] = "running" /\ startedAt[j] = moved[j] => Settled(j, v)
    BY <2>1, <1>1, <1>0, NamesAre DEF Settled, ShownInv, Snapshots, Statuses, Absent
  <2> QED BY <2>1, <2>2, <1>0
<1>2. CASE ~(old # Absent /\ (old.status \in Endings \/ startedAt[j] < old.at))
  <2>1. v = [status |-> "running", items |-> 0, at |-> startedAt[j]]
    BY <1>2 DEF mergeJobSnapshot, isTerminalStatus
  <2>2. v \in Snapshots /\ v # Absent /\ v.status = "running" /\ v.items = 0 /\ v.at = startedAt[j]
    BY <2>1, <1>0 DEF Snapshots, Statuses, Absent
  <2>3. ShownInv(j, v)
    BY <2>2, <1>0, NamesAre DEF ShownInv
  <2>4. jobs[j] = Absent \/ jobs[j].at = startedAt[j]
    BY <1>2, <1>0, NamesAre DEF ShownInv, Snapshots
  <2>5. Settled(j, old) => Settled(j, v)
    <3>1. CASE old = Absent
      BY <3>1, <1>0, <2>2, NamesAre DEF Settled
    <3>2. CASE old # Absent
      BY <3>2, <1>2, <1>0, <2>2, <2>4, NamesAre DEF Settled, Snapshots
    <3> QED BY <3>1, <3>2
  <2>6. told[j] = "running" /\ startedAt[j] = moved[j] => Settled(j, v)
    BY <2>2, <1>0, NamesAre DEF Settled
  <2> QED BY <2>2, <2>3, <2>4, <2>5, <2>6
<1> QED BY <1>1, <1>2

\* An event leaves what the page may show; it leaves shown what was told last, and shows it if
\* it is the event that says so.  Only that of the start sets a count back.
LEMMA MergeKeeps ==
    ASSUME TypeOK, TimesInv, NEW jobs \in [Jobs -> Snapshots], NEW e \in Events, Sent(e),
           ShownInv(e.job, jobs[e.job])
    PROVE  /\ Merged(jobs, e) \in Snapshots /\ ShownInv(e.job, Merged(jobs, e))
           /\ Settled(e.job, jobs[e.job]) \/ Decides(e) => Settled(e.job, Merged(jobs, e))
           /\ e.name # "started" => jobs[e.job].items <= Merged(jobs, e).items
           /\ e.name = "started" =>
                \/ Merged(jobs, e) = jobs[e.job]
                \/ /\ Merged(jobs, e).items = 0 /\ Merged(jobs, e).at = startedAt[e.job]
                   /\ jobs[e.job] = Absent \/ jobs[e.job].at = startedAt[e.job]
<1> DEFINE j == e.job
           old == IF jobs[j] = Absent THEN [status |-> "running", items |-> 0, at |-> e.at] ELSE jobs[j]
           v == Merged(jobs, e)
<1>0. /\ startedAt[j] \in 0 .. MaxTime /\ moved[j] \in 0 .. MaxTime /\ now \in 0 .. MaxTime
      /\ jobs[j] \in Snapshots /\ MaxTime \in Nat /\ Total \in Nat
      /\ told[j] \in {"none", "running", "paused", "gone", "completed", "failed", "cancelled"}
      /\ startedAt[j] <= moved[j] /\ moved[j] <= now
      /\ told[j] = "paused" => startedAt[j] < moved[j]
      /\ j \in Jobs /\ e.at \in Nat /\ e.items \in Nat /\ e.at <= now /\ e.items <= Total
      /\ e.name \in Names
  BY ActivityConstants DEF TypeOK, TimesInv, Feed!FeedTypeOK, Feed!Endings, Sent, Events
<1>1. CASE e.name = "started"
  <2>1. v = mergeJobSnapshot(jobs, j, startedAt[j]) /\ told[j] # "none"
    BY <1>1 DEF Merged, Sent
  <2>2. Decides(e) => told[j] = "running" /\ startedAt[j] = moved[j]
    BY <1>1, NamesAre DEF Decides, Sent
  <2> QED BY <2>1, <2>2, <1>1, <1>0, SnapshotKeeps
<1>2. CASE e.name # "started"
  <2>0. /\ old \in Snapshots /\ old.status # "absent" /\ startedAt[j] <= old.at /\ old.at <= now
        /\ told[j] # "none" /\ (jobs[j] = Absent => old.at = e.at /\ old.status = "running" /\ old.items = 0)
        /\ jobs[j] # Absent => old = jobs[j]
        /\ jobs[j].items <= old.items /\ ShownInv(j, old)
    <3>1. CASE jobs[j] = Absent
      <4>1. old = [status |-> "running", items |-> 0, at |-> e.at]
        BY <3>1
      <4>2. /\ old \in Snapshots /\ old.status = "running" /\ old.items = 0 /\ old.at = e.at
            /\ old # Absent
        BY <4>1, <1>0 DEF Snapshots, Statuses, Absent
      <4> HIDE DEF old
      <4>3. ShownInv(j, old)
        BY <4>2, <1>0, NamesAre DEF ShownInv, Sent
      <4> QED BY <4>2, <4>3, <3>1, <1>0, NamesAre DEF Sent
    <3>2. CASE jobs[j] # Absent
      <4>1. old = jobs[j]
        BY <3>2
      <4> HIDE DEF old
      <4> QED BY <4>1, <3>2, <1>0 DEF ShownInv, Snapshots
    <3> QED BY <3>1, <3>2
  <2>1. Settled(j, jobs[j]) => Settled(j, old)
    <3>1. CASE jobs[j] = Absent
      BY <3>1, <1>0, <2>0, NamesAre DEF Settled
    <3>2. CASE jobs[j] # Absent
      BY <3>2, <2>0
    <3> QED BY <3>1, <3>2
  <2>2. CASE old.status \in Endings \/ (e.at < old.at /\ e.name \notin Endings)
    <3>1. v = old
      BY <1>2, <2>2 DEF Merged, isTerminalStatus
    <3>2. Decides(e) => Settled(j, old)
      <4> HIDE DEF old
      <4>1. CASE old.status \in Endings
        BY <4>1, <2>0, <1>0, NamesAre DEF Decides, Settled, Sent, ShownInv
      <4>2. CASE old.status \notin Endings /\ e.at < old.at /\ e.name \notin Endings
        BY <4>2, <2>0, <1>0, <1>2, NamesAre DEF Decides, Settled, Sent, ShownInv, Snapshots, Statuses
      <4> QED BY <4>1, <4>2, <2>2
    <3> QED BY <3>1, <3>2, <2>0, <2>1, <1>2
  <2>3. CASE ~(old.status \in Endings \/ (e.at < old.at /\ e.name \notin Endings))
    <3> DEFINE s == IF e.name = "progress" THEN old.status
                    ELSE IF e.name = "resumed" THEN "running" ELSE e.name
               n == IF e.name \in {"progress", "completed"} THEN Larger(old.items, e.items) ELSE old.items
    <3>1. v = [status |-> s, items |-> n, at |-> e.at]
      BY <1>2, <2>3 DEF Merged, isTerminalStatus
    <3>2. s \in Statuses /\ s # "absent"
      BY <1>2, <2>0, <1>0, NamesAre DEF Statuses, Snapshots
    <3>3. n \in 0 .. Total /\ old.items <= n /\ (e.name = "completed" /\ e.items = Total => n = Total)
      BY <2>0, <1>0 DEF Larger, Snapshots
    <3> HIDE DEF old, s, n, v
    <3>4. v \in Snapshots /\ v.status = s /\ v.items = n /\ v.at = e.at /\ v # Absent
      BY <3>1, <3>2, <3>3, <1>0 DEF Snapshots, Absent
    <3>5. /\ e.name = "progress" => s = old.status
          /\ e.name = "resumed" => s = "running"
          /\ e.name \notin {"progress", "resumed"} => s = e.name
      BY DEF s
    <3>6. ShownInv(j, v)
      BY <3>2, <3>3, <3>4, <3>5, <2>0, <2>3, <1>0, <1>2, NamesAre DEF ShownInv, Sent
    <3>7. Settled(j, old) \/ Decides(e) => Settled(j, v)
      <4>1. CASE e.name = "progress"
        BY <4>1, <3>4, <3>5, <2>0, <2>3, <1>0, NamesAre DEF Settled, Decides, Sent, ShownInv, Snapshots, Statuses
      <4>2. CASE e.name = "paused"
        BY <4>2, <3>4, <3>5, <2>0, <2>3, <1>0, NamesAre DEF Settled, Decides, Sent, ShownInv, Snapshots, Statuses
      <4>3. CASE e.name = "resumed"
        BY <4>3, <3>4, <3>5, <2>0, <2>3, <1>0, NamesAre DEF Settled, Decides, Sent, ShownInv, Snapshots, Statuses
      <4>4. CASE e.name \in Endings
        BY <4>4, <3>3, <3>4, <3>5, <2>0, <2>3, <1>0, NamesAre DEF Settled, Decides, Sent, ShownInv, Snapshots, Statuses
      <4> QED BY <4>1, <4>2, <4>3, <4>4, <1>0, <1>2, NamesAre
    <3>8. jobs[j].items <= v.items
      BY <3>3, <3>4, <2>0, <1>0 DEF Snapshots
    <3> QED BY <3>4, <3>6, <3>7, <3>8, <2>1, <1>2 DEF v
  <2> QED BY <2>2, <2>3
<1> QED BY <1>1, <1>2

-----------------------------------------------------------------------------
(* What a whole buffer makes of the jobs map.                              *)

\* A count goes back only to nothing, by the event of a start of the millisecond.
Counted(n, j, v) ==
    IF n = "started"
    THEN v = view[j] \/ (v.items = 0 /\ v.at = startedAt[j] /\ (view[j] = Absent \/ view[j].at = startedAt[j]))
    ELSE view[j].items <= v.items

LEMMA DrainedKeeps ==
    ASSUME ActivityInv, NEW n \in Names
    PROVE  /\ DeliverAll(view, buffer[n]) \in [Jobs -> Snapshots]
           /\ \A j \in Jobs :
                LET v == DeliverAll(view, buffer[n])[j] IN
                /\ ShownInv(j, v) /\ Counted(n, j, v)
                /\ Settled(j, view[j]) => Settled(j, v)
                /\ \A e \in Events : Underway(e) /\ e.name = n /\ e.job = j /\ Decides(e) => Settled(j, v)
<1> DEFINE b == buffer[n]
<1>0. /\ b \in Seq(Events) /\ Len(b) \in Nat /\ DOMAIN b = 1 .. Len(b)
      /\ \A i \in 1 .. Len(b) : b[i] \in Events /\ b[i].job \in Jobs /\ b[i].name = n /\ Sent(b[i])
      /\ view \in [Jobs -> Snapshots]
  <2>1. b \in Seq(Events) /\ view \in [Jobs -> Snapshots]
    BY DEF ActivityInv, TypeOK, Snapshots, Statuses
  <2>3. Len(b) \in Nat /\ DOMAIN b = 1 .. Len(b) /\ \A i \in 1 .. Len(b) : b[i] \in Events
    <3> HIDE DEF b
    <3> QED BY <2>1
  <2>2. \A i \in DOMAIN b : b[i].name = n /\ Sent(b[i])
    BY <2>3 DEF ActivityInv, BuffersInv, Underway
  <2> HIDE DEF b
  <2>4. \A e \in Events : e.job \in Jobs
    BY DEF Events
  <2> QED BY <2>1, <2>2, <2>3, <2>4
<1>1. PICK f : Course(f, view, b) /\ DeliverAll(view, b) = f[Len(b)]
  BY <1>0, DeliveredIs
<1> HIDE DEF b
<1> DEFINE Q(i) ==
        /\ f[i] \in [Jobs -> Snapshots]
        /\ \A j \in Jobs :
            /\ ShownInv(j, f[i][j]) /\ Counted(n, j, f[i][j])
            /\ Settled(j, view[j]) => Settled(j, f[i][j])
            /\ (\E k \in 1 .. i : b[k].job = j /\ Decides(b[k])) => Settled(j, f[i][j])
<1>2. Q(0)
  <2>1. f[0] = view
    BY <1>0, <1>1 DEF Course
  <2>2. \A j \in Jobs : Counted(n, j, view[j])
    BY <1>0, ActivityConstants DEF Counted, Snapshots
  <2> QED BY <2>1, <2>2, <1>0 DEF ActivityInv, ViewsInv
<1>3. ASSUME NEW i \in 1 .. Len(b), Q(i - 1) PROVE Q(i)
  <2> DEFINE jobs == f[i - 1]
             e == b[i]
             w == Merged(jobs, e)
  <2>1. f[i] = [jobs EXCEPT ![e.job] = w]
    <3>1. i \in 0 .. Len(b) /\ i # 0
      BY <1>0
    <3>2. f[i] = Deliver(f[i - 1], b[i])
      BY <3>1, <1>1 DEF Course
    <3> QED BY <3>2 DEF Deliver
  <2>2. /\ jobs \in [Jobs -> Snapshots] /\ e \in Events /\ Sent(e) /\ e.job \in Jobs /\ e.name = n
        /\ \A j \in Jobs :
            /\ ShownInv(j, jobs[j]) /\ Counted(n, j, jobs[j])
            /\ Settled(j, view[j]) => Settled(j, jobs[j])
            /\ (\E k \in 1 .. i - 1 : b[k].job = j /\ Decides(b[k])) => Settled(j, jobs[j])
    BY <1>0, <1>3
  <2>3. /\ w \in Snapshots /\ ShownInv(e.job, w)
        /\ Settled(e.job, jobs[e.job]) \/ Decides(e) => Settled(e.job, w)
        /\ e.name # "started" => jobs[e.job].items <= w.items
        /\ e.name = "started" =>
             \/ w = jobs[e.job]
             \/ /\ w.items = 0 /\ w.at = startedAt[e.job]
                /\ jobs[e.job] = Absent \/ jobs[e.job].at = startedAt[e.job]
    <3> HIDE DEF jobs, e
    <3> QED BY <2>2, MergeKeeps DEF ActivityInv
  <2>4. Counted(n, e.job, w)
    <3>1. CASE n = "started"
      <4>1. CASE jobs[e.job] = view[e.job]
        BY <4>1, <3>1, <2>2, <2>3 DEF Counted
      <4>2. CASE jobs[e.job] # view[e.job]
        <5>1. /\ jobs[e.job].items = 0 /\ jobs[e.job].at = startedAt[e.job]
              /\ view[e.job] = Absent \/ view[e.job].at = startedAt[e.job]
          BY <4>2, <3>1, <2>2 DEF Counted
        <5> QED BY <5>1, <3>1, <2>2, <2>3 DEF Counted
      <4> QED BY <4>1, <4>2
    <3>2. CASE n # "started"
      <4>1. view[e.job].items <= jobs[e.job].items /\ jobs[e.job].items <= w.items
        BY <3>2, <2>2, <2>3 DEF Counted
      <4>2. view[e.job].items \in Nat /\ jobs[e.job].items \in Nat /\ w.items \in Nat
        BY <1>0, <2>2, <2>3, ActivityConstants DEF Snapshots
      <4>3. view[e.job].items <= w.items
        <5> HIDE DEF w, jobs, e
        <5> QED BY <4>1, <4>2
      <4> QED BY <4>3, <3>2 DEF Counted
    <3> QED BY <3>1, <3>2
  <2> HIDE DEF w, jobs
  <2>5. f[i] \in [Jobs -> Snapshots] /\ f[i][e.job] = w /\ \A j \in Jobs : j # e.job => f[i][j] = jobs[j]
    <3> HIDE DEF e
    <3> QED BY <2>1, <2>2, <2>3
  <2>6. ASSUME NEW j \in Jobs
        PROVE  /\ ShownInv(j, f[i][j]) /\ Counted(n, j, f[i][j])
               /\ Settled(j, view[j]) => Settled(j, f[i][j])
               /\ (\E k \in 1 .. i : b[k].job = j /\ Decides(b[k])) => Settled(j, f[i][j])
    <3>0. (\E k \in 1 .. i : b[k].job = j /\ Decides(b[k])) =>
              (\E k \in 1 .. i - 1 : b[k].job = j /\ Decides(b[k])) \/ (e.job = j /\ Decides(e))
      <4> SUFFICES ASSUME NEW k \in 1 .. i, b[k].job = j, Decides(b[k])
                   PROVE  (\E l \in 1 .. i - 1 : b[l].job = j /\ Decides(b[l])) \/ (e.job = j /\ Decides(e))
        OBVIOUS
      <4>1. k = i \/ k \in 1 .. i - 1
        OBVIOUS
      <4> QED BY <4>1
    <3> HIDE DEF e
    <3>1. CASE j = e.job
      BY <3>0, <3>1, <2>2, <2>3, <2>4, <2>5
    <3>2. CASE j # e.job
      BY <3>0, <3>2, <2>2, <2>5
    <3> QED BY <3>1, <3>2
  <2> QED BY <2>5, <2>6
<1>4. \A i \in 0 .. Len(b) : Q(i)
  <2> DEFINE T == {i \in 0 .. Len(b) : ~Q(i)}
  <2> HIDE DEF Q
  <2> SUFFICES ASSUME T # {} PROVE FALSE
    OBVIOUS
  <2>1. PICK i \in T : \A k \in T : i <= k
    <3> HIDE DEF T
    <3>1. T \subseteq Nat
      BY <1>0 DEF T
    <3> QED BY <3>1, LeastNumber
  <2>2. i \in 1 .. Len(b)
    BY <2>1, <1>2, <1>0
  <2>3. i - 1 \in 0 .. Len(b) /\ i - 1 \notin T
    BY <2>1, <2>2, <1>0
  <2>4. Q(i - 1)
    BY <2>3
  <2> QED BY <2>1, <2>2, <2>4, <1>3
<1>5. Q(Len(b))
  <2> HIDE DEF Q
  <2> QED BY <1>4, <1>0
<1>6. ASSUME NEW e \in Events, Underway(e), e.name = n
      PROVE  \E i \in 1 .. Len(b) : b[i] = e
  <2>1. PICK m \in Names : \E i \in DOMAIN buffer[m] : buffer[m][i] = e
    BY <1>6 DEF Underway
  <2>2. m = n
    BY <2>1, <1>6 DEF ActivityInv, BuffersInv
  <2> QED BY <2>1, <2>2, <1>0 DEF b
<1>7. DeliverAll(view, buffer[n]) = f[Len(b)]
  BY <1>1 DEF b
<1> QED BY <1>5, <1>6, <1>7, <1>0

-----------------------------------------------------------------------------
(* Every step keeps the invariant.                                         *)

LEMMA StartsRight == Init => ActivityInv
<1> SUFFICES ASSUME Init PROVE ActivityInv
  OBVIOUS
<1> USE DEF Init, Feed!FeedInit
<1>1. TypeOK
  BY ActivityConstants DEF TypeOK, Feed!FeedTypeOK, Absent
<1>2. TimesInv
  <2>1. 0 <= Total
    BY ActivityConstants
  <2> SUFFICES ASSUME NEW j \in Jobs
               PROVE  /\ startedAt[j] <= moved[j] /\ moved[j] <= now
                      /\ startedAt[j] <= stamp[j] /\ stamp[j] <= now
                      /\ told[j] # "gone" /\ shown[j] <= Total
                      /\ told[j] = "paused" => startedAt[j] < moved[j]
    BY DEF TimesInv
  <2>2. told[j] = "none" /\ told[j] # "gone" /\ told[j] # "paused"
    OBVIOUS
  <2>3. startedAt[j] = 0 /\ moved[j] = 0 /\ stamp[j] = 0 /\ now = 0 /\ shown[j] = 0
    OBVIOUS
  <2> HIDE DEF Init, Feed!FeedInit
  <2> QED BY <2>1, <2>2, <2>3
<1>3. BuffersInv
  BY DEF BuffersInv, Underway
<1>4. ViewsInv
  BY NamesAre DEF ViewsInv, ShownInv
<1> QED BY <1>1, <1>2, <1>3, <1>4 DEF ActivityInv

\* What the invariant says of one job
LEMMA JobTypes ==
    ASSUME ActivityInv, NEW j \in Jobs
    PROVE  /\ startedAt[j] \in Nat /\ moved[j] \in Nat /\ stamp[j] \in Nat /\ now \in Nat
           /\ MaxTime \in Nat /\ Total \in Nat /\ Total > 0 /\ now <= MaxTime /\ shown[j] \in Nat
           /\ told[j] \in {"none", "running", "paused", "gone", "completed", "failed", "cancelled"}
           /\ startedAt[j] <= moved[j] /\ moved[j] <= now
           /\ startedAt[j] <= stamp[j] /\ stamp[j] <= now
           /\ told[j] # "gone" /\ shown[j] <= Total
           /\ told[j] = "paused" => startedAt[j] < moved[j]
           /\ view[j] \in Snapshots /\ ShownInv(j, view[j])
           /\ view \in [Jobs -> Snapshots] /\ asked[j] \in {"no", "asked", "answered"}
<1>1. /\ startedAt[j] \in 0 .. MaxTime /\ moved[j] \in 0 .. MaxTime /\ stamp[j] \in 0 .. MaxTime
      /\ now \in 0 .. MaxTime /\ shown[j] \in Nat
      /\ told[j] \in {"none", "running", "paused", "gone", "completed", "failed", "cancelled"}
      /\ view \in [Jobs -> Snapshots] /\ asked[j] \in {"no", "asked", "answered"}
  BY DEF ActivityInv, TypeOK, Feed!FeedTypeOK, Feed!Endings, Snapshots, Statuses
<1> QED BY <1>1, ActivityConstants DEF ActivityInv, TimesInv, ViewsInv

\* An event that is emitted is under way with those that were.
LEMMA EmittedIs ==
    ASSUME TypeOK, BuffersInv, NEW n \in Names, NEW j \in Jobs, NEW t \in Nat, NEW k \in Nat, Emit(n, j, t, k)
    PROVE  /\ buffer' \in [Names -> Seq(Events)] /\ timers' \in Seq(Names)
           /\ \A m \in Names : \A i \in DOMAIN buffer'[m] : buffer'[m][i].name = m
           /\ \E new \in Events :
                /\ new.name = n /\ new.job = j /\ new.at = t /\ new.items = k
                /\ \A e : Underway(e)' <=> Underway(e) \/ e = new
<1> DEFINE new == [name |-> n, job |-> j, at |-> t, items |-> k]
<1>1. new \in Events /\ new.name = n /\ new.job = j /\ new.at = t /\ new.items = k
  BY DEF Events
<1>2. buffer' = [buffer EXCEPT ![n] = Append(@, new)] /\ timers' = Append(timers, n)
  BY DEF Emit
<1>3. buffer \in [Names -> Seq(Events)] /\ timers \in Seq(Names)
  BY DEF TypeOK
<1> HIDE DEF new
<1>4. /\ buffer' \in [Names -> Seq(Events)] /\ timers' \in Seq(Names)
      /\ buffer'[n] = Append(buffer[n], new) /\ \A m \in Names : m # n => buffer'[m] = buffer[m]
  BY <1>1, <1>2, <1>3
<1>5. /\ DOMAIN buffer[n] = 1 .. Len(buffer[n]) /\ Len(buffer[n]) \in Nat
      /\ DOMAIN buffer'[n] = 1 .. Len(buffer[n]) + 1
      /\ buffer'[n][Len(buffer[n]) + 1] = new
      /\ \A i \in DOMAIN buffer[n] : buffer'[n][i] = buffer[n][i]
  <2>1. buffer[n] \in Seq(Events)
    BY <1>3
  <2> QED BY <2>1, <1>1, <1>4
<1>6. \A m \in Names : \A i \in DOMAIN buffer'[m] : buffer'[m][i].name = m
  <2> SUFFICES ASSUME NEW m \in Names, NEW i \in DOMAIN buffer'[m] PROVE buffer'[m][i].name = m
    OBVIOUS
  <2>1. CASE m = n
    <3>1. i = Len(buffer[n]) + 1 \/ i \in DOMAIN buffer[n]
      BY <1>5, <2>1
    <3> QED BY <3>1, <1>5, <2>1, <1>1 DEF BuffersInv
  <2>2. CASE m # n
    BY <2>2, <1>4 DEF BuffersInv
  <2> QED BY <2>1, <2>2
<1>7. ASSUME NEW e PROVE Underway(e)' <=> Underway(e) \/ e = new
  <2>1. ASSUME Underway(e)' PROVE Underway(e) \/ e = new
    <3>1. PICK m \in Names : \E i \in DOMAIN buffer'[m] : buffer'[m][i] = e
      BY <2>1 DEF Underway
    <3>2. PICK i \in DOMAIN buffer'[m] : buffer'[m][i] = e
      BY <3>1
    <3>3. CASE m = n
      <4>1. i = Len(buffer[n]) + 1 \/ i \in DOMAIN buffer[n]
        BY <1>5, <3>3
      <4> QED BY <4>1, <1>5, <3>2, <3>3 DEF Underway
    <3>4. CASE m # n
      BY <3>4, <3>2, <1>4 DEF Underway
    <3> QED BY <3>3, <3>4
  <2>2. ASSUME Underway(e) PROVE Underway(e)'
    <3>1. PICK m \in Names : \E i \in DOMAIN buffer[m] : buffer[m][i] = e
      BY <2>2 DEF Underway
    <3>2. PICK i \in DOMAIN buffer[m] : buffer[m][i] = e
      BY <3>1
    <3>3. CASE m = n
      <4>1. i \in DOMAIN buffer'[n]
        BY <1>5, <3>3, <3>2
      <4> QED BY <4>1, <1>5, <3>2, <3>3 DEF Underway
    <3>4. CASE m # n
      BY <3>4, <3>2, <1>4 DEF Underway
    <3> QED BY <3>3, <3>4
  <2>3. Underway(new)'
    <3>1. Len(buffer[n]) + 1 \in DOMAIN buffer'[n]
      BY <1>5
    <3> QED BY <3>1, <1>5 DEF Underway
  <2> QED BY <2>1, <2>2, <2>3
<1> QED BY <1>1, <1>4, <1>6, <1>7

\* What is under way and what is shown of the jobs that a step of one job leaves alone
LEMMA OthersKeep ==
    ASSUME ActivityInv, NEW j \in Jobs, now' = now, view' = view, asked' = asked,
           \A i \in Jobs : i # j => /\ told'[i] = told[i] /\ startedAt'[i] = startedAt[i]
                                    /\ moved'[i] = moved[i],
           \A e \in Events : Underway(e) => Underway(e)'
    PROVE  /\ \A e \in Events : e.job # j /\ Sent(e) => Sent(e)'
           /\ \A i \in Jobs, v \in Snapshots : i # j /\ v = view'[i] =>
                ShownInv(i, v)' /\ (told'[i] # "none" => Settled(i, v)' \/ Deciding(i)')
<1>0. \A e \in Events : e.job \in Jobs
  BY DEF Events
<1>1. ASSUME NEW e \in Events, e.job # j, Sent(e) PROVE Sent(e)'
  BY <1>0, <1>1 DEF Sent
<1>2. ASSUME NEW i \in Jobs, i # j, Deciding(i) PROVE Deciding(i)'
  <2>1. PICK e \in Events : Underway(e) /\ e.job = i /\ Decides(e)
    BY <1>2 DEF Deciding
  <2>2. Decides(e)'
    BY <2>1, <1>2 DEF Decides
  <2> QED BY <2>1, <2>2 DEF Deciding
<1>3. ASSUME NEW i \in Jobs, NEW v \in Snapshots, i # j, v = view'[i]
      PROVE  ShownInv(i, v)' /\ (told'[i] # "none" => Settled(i, v)' \/ Deciding(i)')
  <2>1. ShownInv(i, v) /\ (told[i] # "none" => Settled(i, v) \/ Deciding(i))
    BY <1>3 DEF ActivityInv, ViewsInv
  <2>2. ShownInv(i, v)'
    BY <2>1, <1>3 DEF ShownInv
  <2>3. Settled(i, v) => Settled(i, v)'
    BY <1>3 DEF Settled
  <2> QED BY <2>1, <2>2, <2>3, <1>2, <1>3
<1> QED BY <1>1, <1>3

LEMMA StartKeeps ==
    ASSUME ActivityInv, NEW j \in Jobs, Start(j)
    PROVE  ActivityInv'
<1>0. /\ told[j] = "none" /\ told' = [told EXCEPT ![j] = "running"]
      /\ startedAt' = [startedAt EXCEPT ![j] = now] /\ moved' = [moved EXCEPT ![j] = now]
      /\ stamp' = [stamp EXCEPT ![j] = now] /\ Emit("started", j, now, 0)
      /\ now' = now /\ view' = view /\ asked' = asked /\ answered' = answered /\ shown' = shown
  BY DEF Start, Feed!Started, Feed!Move, page
<1>1. PICK new \in Events :
        /\ buffer' \in [Names -> Seq(Events)] /\ timers' \in Seq(Names)
        /\ \A m \in Names : \A i \in DOMAIN buffer'[m] : buffer'[m][i].name = m
        /\ new.name = "started" /\ new.job = j /\ new.at = now /\ new.items = 0
        /\ \A e : Underway(e)' <=> Underway(e) \/ e = new
  <2>1. TypeOK /\ BuffersInv /\ now \in Nat /\ 0 \in Nat
    BY JobTypes DEF ActivityInv
  <2>2. PICK n \in Names : n = "started"
    BY NamesAre
  <2>3. Emit(n, j, now, 0)
    BY <1>0, <2>2
  <2> QED BY <2>1, <2>2, <2>3, EmittedIs
<1>2. TypeOK'
  <2>1. Feed!FeedTypeOK'
    BY <1>0 DEF ActivityInv, TypeOK, Feed!FeedTypeOK
  <2>2. {startedAt', moved', stamp'} \subseteq [Jobs -> 0 .. MaxTime]
    BY <1>0 DEF ActivityInv, TypeOK
  <2> QED BY <1>0, <1>1, <2>1, <2>2 DEF ActivityInv, TypeOK
<1>3. told'[j] = "running" /\ startedAt'[j] = now /\ moved'[j] = now /\ stamp'[j] = now
      /\ \A i \in Jobs : i # j => /\ told'[i] = told[i] /\ startedAt'[i] = startedAt[i]
                                  /\ moved'[i] = moved[i] /\ stamp'[i] = stamp[i]
  BY <1>0 DEF ActivityInv, TypeOK, Feed!FeedTypeOK
<1>4. TimesInv'
  BY <1>0, <1>3, JobTypes DEF TimesInv
<1>5. /\ \A e \in Events : e.job # j /\ Sent(e) => Sent(e)'
      /\ \A i \in Jobs, v \in Snapshots : i # j /\ v = view'[i] =>
            ShownInv(i, v)' /\ (told'[i] # "none" => Settled(i, v)' \/ Deciding(i)')
  BY <1>0, <1>1, <1>3, OthersKeep
<1>6. ASSUME NEW e \in Events, Underway(e)' PROVE Sent(e)'
  <2>1. CASE e = new
    BY <2>1, <1>0, <1>1, <1>3, JobTypes, NamesAre DEF Sent
  <2>2. CASE e # new
    <3>1. Sent(e)
      BY <2>2, <1>1, <1>6 DEF ActivityInv, BuffersInv
    <3>2. e.job # j
      BY <3>1, <1>0 DEF Sent
    <3> QED BY <3>1, <3>2, <1>5
  <2> QED BY <2>1, <2>2
<1>7. BuffersInv'
  BY <1>1, <1>6 DEF BuffersInv
<1>8. ASSUME NEW v \in Snapshots, v = view'[j] PROVE ShownInv(j, v)' /\ Deciding(j)'
  <2>1. v = Absent
    BY <1>0, <1>8, JobTypes DEF ShownInv
  <2>2. ShownInv(j, v)'
    BY <2>1, <1>0, <1>3, JobTypes, NamesAre DEF ShownInv
  <2>3. Decides(new)'
    BY <1>0, <1>1, <1>3 DEF Decides
  <2> QED BY <2>2, <2>3, <1>1 DEF Deciding
<1>9. ViewsInv'
  BY <1>5, <1>8 DEF ViewsInv
<1> QED BY <1>2, <1>4, <1>7, <1>9 DEF ActivityInv

LEMMA ReportKeeps ==
    ASSUME ActivityInv, NEW j \in Jobs, Report(j)
    PROVE  ActivityInv'
<1>0. /\ told[j] = "running" /\ told' = told
      /\ stamp' = [stamp EXCEPT ![j] = now] /\ startedAt' = startedAt /\ moved' = moved
      /\ now' = now /\ view' = view /\ asked' = asked /\ answered' = answered
      /\ \E k \in 0 .. Total : shown' = [shown EXCEPT ![j] = k]
      /\ \E t \in stamp[j] .. now : Emit("progress", j, t, shown'[j])
  BY DEF Report, Feed!Progress, page
<1>1. PICK k \in 0 .. Total : shown' = [shown EXCEPT ![j] = k]
  BY <1>0
<1>2. shown' \in [Jobs -> Nat] /\ shown'[j] = k /\ k \in Nat /\ k <= Total
      /\ \A i \in Jobs : i # j => shown'[i] = shown[i]
  BY <1>1, JobTypes DEF ActivityInv, TypeOK, Feed!FeedTypeOK
<1>3. PICK t \in stamp[j] .. now : Emit("progress", j, t, shown'[j])
  BY <1>0
<1>4. t \in Nat /\ startedAt[j] <= t /\ t <= now
  BY JobTypes
<1>5. PICK new \in Events :
        /\ buffer' \in [Names -> Seq(Events)] /\ timers' \in Seq(Names)
        /\ \A m \in Names : \A i \in DOMAIN buffer'[m] : buffer'[m][i].name = m
        /\ new.name = "progress" /\ new.job = j /\ new.at = t /\ new.items = k
        /\ \A e : Underway(e)' <=> Underway(e) \/ e = new
  <2>1. TypeOK /\ BuffersInv
    BY DEF ActivityInv
  <2>2. PICK n \in Names : n = "progress"
    BY NamesAre
  <2>3. Emit(n, j, t, k)
    BY <1>2, <1>3, <2>2
  <2>4. t \in Nat /\ k \in Nat
    BY <1>2, <1>4
  <2> QED BY <2>1, <2>2, <2>3, <2>4, EmittedIs
<1>6. TypeOK'
  <2>1. Feed!FeedTypeOK'
    BY <1>0, <1>2 DEF ActivityInv, TypeOK, Feed!FeedTypeOK
  <2>2. stamp' \in [Jobs -> 0 .. MaxTime]
    BY <1>0 DEF ActivityInv, TypeOK
  <2> QED BY <1>0, <1>5, <2>1, <2>2 DEF ActivityInv, TypeOK
<1>7. stamp'[j] = now /\ \A i \in Jobs : i # j => stamp'[i] = stamp[i]
  BY <1>0 DEF ActivityInv, TypeOK
<1>8. TimesInv'
  BY <1>0, <1>2, <1>7, JobTypes DEF TimesInv
<1>9. ASSUME NEW e \in Events, Underway(e)' PROVE Sent(e)'
  <2>1. CASE e = new
    BY <2>1, <1>0, <1>2, <1>4, <1>5, JobTypes, NamesAre DEF Sent
  <2>2. CASE e # new
    <3>1. Sent(e)
      BY <2>2, <1>5, <1>9 DEF ActivityInv, BuffersInv
    <3> QED BY <3>1, <1>0 DEF Sent
  <2> QED BY <2>1, <2>2
<1>10. BuffersInv'
  BY <1>5, <1>9 DEF BuffersInv
<1>11. ASSUME NEW i \in Jobs, NEW v \in Snapshots, v = view'[i]
       PROVE  ShownInv(i, v)' /\ (told'[i] # "none" => Settled(i, v)' \/ Deciding(i)')
  <2>1. ShownInv(i, v) /\ (told[i] # "none" => Settled(i, v) \/ Deciding(i))
    BY <1>0, <1>11 DEF ActivityInv, ViewsInv
  <2>2. ShownInv(i, v)' /\ (Settled(i, v) => Settled(i, v)')
    BY <2>1, <1>0 DEF ShownInv, Settled
  <2>3. Deciding(i) => Deciding(i)'
    BY <1>0, <1>5 DEF Deciding, Decides
  <2> QED BY <2>1, <2>2, <2>3, <1>0
<1>12. ViewsInv'
  BY <1>11 DEF ViewsInv
<1> QED BY <1>6, <1>8, <1>10, <1>12 DEF ActivityInv

LEMMA PauseOrResumeKeeps ==
    ASSUME ActivityInv, NEW j \in Jobs, PauseOrResume(j)
    PROVE  ActivityInv'
<1>0. PICK n \in {"paused", "resumed"} :
        /\ told[j] = (IF n = "paused" THEN "running" ELSE "paused")
        /\ told' = [told EXCEPT ![j] = IF n = "paused" THEN "paused" ELSE "running"]
        /\ Emit(n, j, now, 0) /\ shown' = shown
  BY DEF PauseOrResume, Feed!Paused, Feed!Resumed, Feed!Move
<1>1. /\ moved[j] < now /\ moved' = [moved EXCEPT ![j] = now]
      /\ startedAt' = startedAt /\ stamp' = stamp
      /\ now' = now /\ view' = view /\ asked' = asked /\ answered' = answered
  BY DEF PauseOrResume, page
<1>2. PICK new \in Events :
        /\ buffer' \in [Names -> Seq(Events)] /\ timers' \in Seq(Names)
        /\ \A m \in Names : \A i \in DOMAIN buffer'[m] : buffer'[m][i].name = m
        /\ new.name = n /\ new.job = j /\ new.at = now /\ new.items = 0
        /\ \A e : Underway(e)' <=> Underway(e) \/ e = new
  <2>1. TypeOK /\ BuffersInv /\ n \in Names /\ now \in Nat /\ 0 \in Nat
    BY JobTypes, NamesAre DEF ActivityInv
  <2> QED BY <1>0, <2>1, EmittedIs
<1>3. /\ told'[j] = IF n = "paused" THEN "paused" ELSE "running"
      /\ moved'[j] = now
      /\ \A i \in Jobs : i # j => told'[i] = told[i] /\ moved'[i] = moved[i]
  BY <1>0, <1>1 DEF ActivityInv, TypeOK, Feed!FeedTypeOK
<1>4. TypeOK'
  <2>1. Feed!FeedTypeOK'
    BY <1>0 DEF ActivityInv, TypeOK, Feed!FeedTypeOK
  <2>2. moved' \in [Jobs -> 0 .. MaxTime]
    BY <1>1 DEF ActivityInv, TypeOK
  <2> QED BY <1>1, <1>2, <2>1, <2>2 DEF ActivityInv, TypeOK
<1>5. TimesInv'
  <2>1. \A i \in Jobs : shown'[i] = shown[i] /\ stamp'[i] = stamp[i] /\ startedAt'[i] = startedAt[i]
    BY <1>0, <1>1
  <2> QED BY <2>1, <1>0, <1>1, <1>3, JobTypes DEF TimesInv
<1>6. /\ \A e \in Events : e.job # j /\ Sent(e) => Sent(e)'
      /\ \A i \in Jobs, v \in Snapshots : i # j /\ v = view'[i] =>
            ShownInv(i, v)' /\ (told'[i] # "none" => Settled(i, v)' \/ Deciding(i)')
  BY <1>1, <1>2, <1>3, OthersKeep
<1>7. ASSUME NEW e \in Events, Underway(e)' PROVE Sent(e)'
  <2>1. CASE e = new
    BY <2>1, <1>0, <1>1, <1>2, <1>3, JobTypes, NamesAre DEF Sent
  <2>2. CASE e # new
    <3>1. Sent(e)
      BY <2>2, <1>2, <1>7 DEF ActivityInv, BuffersInv
    <3>2. CASE e.job = j
      <4>1. e.at \in Nat
        BY DEF Events
      <4> QED BY <3>1, <3>2, <4>1, <1>0, <1>1, <1>3, JobTypes, NamesAre DEF Sent
    <3> QED BY <3>1, <3>2, <1>6
  <2> QED BY <2>1, <2>2
<1>8. BuffersInv'
  BY <1>2, <1>7 DEF BuffersInv
<1>9. ASSUME NEW v \in Snapshots, v = view'[j] PROVE ShownInv(j, v)' /\ Deciding(j)'
  <2>1. ShownInv(j, v)
    BY <1>1, <1>9, JobTypes
  <2>2. ShownInv(j, v)'
    BY <2>1, <1>0, <1>1, <1>3, JobTypes, NamesAre DEF ShownInv, Snapshots
  <2>3. Decides(new)'
    BY <1>0, <1>1, <1>2, <1>3 DEF Decides
  <2> QED BY <2>2, <2>3, <1>2 DEF Deciding
<1>10. ViewsInv'
  BY <1>6, <1>9 DEF ViewsInv
<1> QED BY <1>4, <1>5, <1>8, <1>10 DEF ActivityInv

LEMMA EndKeeps ==
    ASSUME ActivityInv, NEW j \in Jobs, End(j)
    PROVE  ActivityInv'
<1>0. /\ told[j] \in {"running", "paused"} /\ shown' = shown
      /\ \E s \in Endings : told' = [told EXCEPT ![j] = s]
      /\ \E t \in stamp[j] .. now : Emit(told'[j], j, t, Total)
      /\ startedAt' = startedAt /\ moved' = moved /\ stamp' = stamp
      /\ now' = now /\ view' = view /\ asked' = asked /\ answered' = answered
  BY DEF End, Feed!Ended, Feed!Move, Feed!Endings, Endings, page
<1>1. PICK s \in Endings : told' = [told EXCEPT ![j] = s]
  BY <1>0
<1>2. PICK t \in stamp[j] .. now : Emit(told'[j], j, t, Total)
  BY <1>0
<1>3. /\ told'[j] = s /\ \A i \in Jobs : i # j => told'[i] = told[i]
      /\ s \in Names /\ told' \in [Jobs -> {"none", "running", "paused", "gone"} \cup Feed!Endings]
  BY <1>1, NamesAre DEF ActivityInv, TypeOK, Feed!FeedTypeOK, Feed!Endings
<1>4. t \in Nat /\ startedAt[j] <= t /\ t <= now
  BY JobTypes
<1>5. PICK new \in Events :
        /\ buffer' \in [Names -> Seq(Events)] /\ timers' \in Seq(Names)
        /\ \A m \in Names : \A i \in DOMAIN buffer'[m] : buffer'[m][i].name = m
        /\ new.name = s /\ new.job = j /\ new.at = t /\ new.items = Total
        /\ \A e : Underway(e)' <=> Underway(e) \/ e = new
  <2>1. TypeOK /\ BuffersInv /\ Total \in Nat
    BY JobTypes DEF ActivityInv
  <2> QED BY <1>2, <1>3, <1>4, <2>1, EmittedIs
<1>6. TypeOK'
  BY <1>0, <1>3, <1>5 DEF ActivityInv, TypeOK, Feed!FeedTypeOK
<1>7. TimesInv'
  BY <1>0, <1>3, JobTypes, NamesAre DEF TimesInv
<1>8. /\ \A e \in Events : e.job # j /\ Sent(e) => Sent(e)'
      /\ \A i \in Jobs, v \in Snapshots : i # j /\ v = view'[i] =>
            ShownInv(i, v)' /\ (told'[i] # "none" => Settled(i, v)' \/ Deciding(i)')
  BY <1>0, <1>3, <1>5, OthersKeep
<1>9. ASSUME NEW e \in Events, Underway(e)' PROVE Sent(e)'
  <2>1. CASE e = new
    BY <2>1, <1>0, <1>3, <1>4, <1>5, JobTypes, NamesAre DEF Sent
  <2>2. CASE e # new
    <3>1. Sent(e)
      BY <2>2, <1>5, <1>9 DEF ActivityInv, BuffersInv
    <3>2. CASE e.job = j
      BY <3>1, <3>2, <1>0, <1>3, NamesAre DEF Sent
    <3> QED BY <3>1, <3>2, <1>8
  <2> QED BY <2>1, <2>2
<1>10. BuffersInv'
  BY <1>5, <1>9 DEF BuffersInv
<1>11. ASSUME NEW v \in Snapshots, v = view'[j] PROVE ShownInv(j, v)' /\ Deciding(j)'
  <2>1. ShownInv(j, v)
    BY <1>0, <1>11, JobTypes
  <2>2. ShownInv(j, v)'
    BY <2>1, <1>0, <1>3, NamesAre DEF ShownInv
  <2>3. Decides(new)'
    BY <1>5 DEF Decides
  <2> QED BY <2>2, <2>3, <1>5 DEF Deciding
<1>12. ViewsInv'
  BY <1>8, <1>11 DEF ViewsInv
<1> QED BY <1>6, <1>7, <1>10, <1>12 DEF ActivityInv

\* Steps that leave the runtime and the buffers alone
LEMMA BuffersStay ==
    ASSUME BuffersInv, UNCHANGED <<told, startedAt, moved, now, buffer>>
    PROVE  BuffersInv' /\ \A j \in Jobs : Deciding(j)' <=> Deciding(j)
<1>1. \A e \in Events : (Underway(e)' <=> Underway(e)) /\ (Sent(e)' <=> Sent(e)) /\ (Decides(e)' <=> Decides(e))
  BY DEF Underway, Sent, Decides
<1>2. BuffersInv'
  BY <1>1 DEF BuffersInv
<1>3. \A j \in Jobs : Deciding(j)' <=> Deciding(j)
  BY <1>1 DEF Deciding
<1> QED BY <1>2, <1>3

\* Steps of the page about one job: what there is to show of it.
LEMMA PageKeeps ==
    ASSUME ActivityInv, NEW j \in Jobs,
           UNCHANGED <<runtime, now, buffer, timers>>,
           answered' \subseteq Jobs, asked' \in [Jobs -> {"no", "asked", "answered"}],
           view' \in [Jobs -> Snapshots],
           \A i \in Jobs : i # j => view'[i] = view[i] /\ asked'[i] = asked[i],
           NEW w, w = view'[j], ShownInv(j, w)',
           told[j] # "none" => Settled(j, w)' \/ Deciding(j)
    PROVE  ActivityInv'
<1>0. /\ told' = told /\ shown' = shown /\ startedAt' = startedAt /\ moved' = moved /\ stamp' = stamp
      /\ now' = now /\ buffer' = buffer /\ timers' = timers
  BY DEF runtime
<1>1. TypeOK'
  BY <1>0 DEF ActivityInv, TypeOK, Feed!FeedTypeOK, Snapshots, Statuses
<1>2. TimesInv'
  BY <1>0 DEF ActivityInv, TimesInv
<1>3. BuffersInv' /\ \A i \in Jobs : Deciding(i)' <=> Deciding(i)
  BY <1>0, BuffersStay DEF ActivityInv
<1>4. ASSUME NEW i \in Jobs, NEW v \in Snapshots, v = view'[i]
      PROVE  ShownInv(i, v)' /\ (told'[i] # "none" => Settled(i, v)' \/ Deciding(i)')
  <2>1. CASE i = j
    <3>1. v = w
      BY <2>1, <1>4
    <3> QED BY <3>1, <2>1, <1>0, <1>3
  <2>2. CASE i # j
    <3>1. ShownInv(i, v) /\ (told[i] # "none" => Settled(i, v) \/ Deciding(i))
      BY <2>2, <1>4 DEF ActivityInv, ViewsInv
    <3>2. ShownInv(i, v)' /\ (Settled(i, v) => Settled(i, v)')
      BY <3>1, <2>2, <1>0 DEF ShownInv, Settled
    <3> QED BY <3>1, <3>2, <1>0, <1>3
  <2> QED BY <2>1, <2>2
<1>5. ViewsInv'
  BY <1>4 DEF ViewsInv
<1> QED BY <1>1, <1>2, <1>3, <1>5 DEF ActivityInv

LEMMA AnswerStartKeeps ==
    ASSUME ActivityInv, NEW j \in Jobs, AnswerStart(j)
    PROVE  ActivityInv'
<1> DEFINE w == mergeJobSnapshot(view, j, startedAt[j])
<1>0. /\ told[j] # "none" /\ answered' = answered \cup {j} /\ view' = [view EXCEPT ![j] = w]
      /\ UNCHANGED <<runtime, now, buffer, timers>> /\ asked' = asked
      /\ told' = told /\ startedAt' = startedAt /\ moved' = moved
  BY DEF AnswerStart, runtime
<1>1. /\ w \in Snapshots /\ ShownInv(j, w) /\ (Settled(j, view[j]) => Settled(j, w))
      /\ view \in [Jobs -> Snapshots]
  BY <1>0, JobTypes, SnapshotKeeps DEF ActivityInv
<1>2. Settled(j, view[j]) \/ Deciding(j)
  BY <1>0, JobTypes DEF ActivityInv, ViewsInv
<1>3. PICK u : u = w
  OBVIOUS
<1> HIDE DEF w
<1>4. ShownInv(j, u)' /\ (Settled(j, u) => Settled(j, u)')
  BY <1>0, <1>1, <1>3 DEF ShownInv, Settled, runtime
<1>5. view'[j] = u /\ view' \in [Jobs -> Snapshots] /\ \A i \in Jobs : i # j => view'[i] = view[i]
  BY <1>0, <1>1, <1>3
<1>6. answered' \subseteq Jobs /\ asked' \in [Jobs -> {"no", "asked", "answered"}]
  BY <1>0 DEF ActivityInv, TypeOK
<1> QED BY <1>0, <1>1, <1>2, <1>3, <1>4, <1>5, <1>6, PageKeeps

LEMMA AskCancelKeeps ==
    ASSUME ActivityInv, NEW j \in Jobs, AskCancel(j)
    PROVE  ActivityInv'
<1>0. /\ asked[j] = "no" /\ asked' = [asked EXCEPT ![j] = "asked"]
      /\ UNCHANGED <<runtime, now, buffer, timers>> /\ view' = view /\ answered' = answered
      /\ told' = told /\ startedAt' = startedAt /\ moved' = moved
  BY DEF AskCancel, runtime
<1>1. PICK u \in Snapshots : u = view[j]
  BY JobTypes
<1>2. ShownInv(j, u) /\ (told[j] # "none" => Settled(j, u) \/ Deciding(j))
  BY <1>1 DEF ActivityInv, ViewsInv
<1>3. /\ asked' \in [Jobs -> {"no", "asked", "answered"}] /\ asked'[j] = "asked"
      /\ \A i \in Jobs : i # j => asked'[i] = asked[i]
  BY <1>0 DEF ActivityInv, TypeOK
<1>4. ShownInv(j, u)' /\ (Settled(j, u) => Settled(j, u)')
  BY <1>0, <1>2, <1>3 DEF ShownInv, Settled
<1>5. view' \in [Jobs -> Snapshots] /\ answered' \subseteq Jobs
  BY <1>0, JobTypes DEF ActivityInv, TypeOK
<1>6. u = view'[j] /\ \A i \in Jobs : i # j => view'[i] = view[i]
  BY <1>0, <1>1
<1> QED BY <1>0, <1>2, <1>3, <1>4, <1>5, <1>6, PageKeeps

LEMMA AnswerCancelKeeps ==
    ASSUME ActivityInv, NEW j \in Jobs, AnswerCancel(j)
    PROVE  ActivityInv'
<1>0. /\ asked[j] = "asked" /\ asked' = [asked EXCEPT ![j] = "answered"]
      /\ UNCHANGED <<runtime, now, buffer, timers>> /\ answered' = answered
      /\ told' = told /\ startedAt' = startedAt /\ moved' = moved /\ now' = now
  BY DEF AnswerCancel, runtime
<1>1. PICK u \in Snapshots : u = view[j]
  BY JobTypes
<1>2. PICK w \in Snapshots :
        /\ view' = [view EXCEPT ![j] = w]
        /\ w = Absent \/ (u # Absent /\ w.status = "cancelled" /\ w.at = u.at)
  <2>1. CASE view[j] = Absent /\ view' = view
    <3>1. view' = [view EXCEPT ![j] = Absent]
      BY <2>1, JobTypes
    <3> QED BY <3>1, NamesAre
  <2>2. CASE view[j] # Absent /\ view' = [view EXCEPT ![j].status = "cancelled"]
    <3> DEFINE w == [u EXCEPT !.status = "cancelled"]
    <3>1. w \in Snapshots /\ w.status = "cancelled" /\ w.at = u.at
      BY NamesAre DEF Snapshots, Statuses
    <3>2. view' = [view EXCEPT ![j] = w]
      BY <2>2, <1>1
    <3> HIDE DEF w
    <3> QED BY <3>1, <3>2, <2>2, <1>1
  <2>3. CASE view' = [view EXCEPT ![j] = Absent]
    BY <2>3, NamesAre
  <2> QED BY <2>1, <2>2, <2>3 DEF AnswerCancel
<1>3. view' \in [Jobs -> Snapshots] /\ w = view'[j] /\ \A i \in Jobs : i # j => view'[i] = view[i]
  BY <1>2, JobTypes
<1>4. /\ asked' \in [Jobs -> {"no", "asked", "answered"}] /\ asked'[j] = "answered"
      /\ \A i \in Jobs : i # j => asked'[i] = asked[i]
  BY <1>0 DEF ActivityInv, TypeOK
<1>5. ShownInv(j, w)'
  <2>1. ShownInv(j, u)
    BY <1>1 DEF ActivityInv, ViewsInv
  <2>2. CASE w = Absent
    BY <2>2, <1>0, <1>4, NamesAre, JobTypes DEF ShownInv
  <2>3. CASE w # Absent
    <3>1. u # Absent /\ w.status = "cancelled" /\ w.at = u.at
      BY <2>3, <1>2
    <3> QED BY <3>1, <2>1, <1>0, <1>4 DEF ShownInv
  <2> QED BY <2>2, <2>3
<1>6. Settled(j, w)'
  BY <1>4 DEF Settled
<1>7. answered' \subseteq Jobs
  BY <1>0 DEF ActivityInv, TypeOK
<1> QED BY <1>0, <1>3, <1>4, <1>5, <1>6, <1>7, PageKeeps

LEMMA TickKeeps ==
    ASSUME ActivityInv, Tick
    PROVE  ActivityInv'
<1>0. /\ now < MaxTime /\ now' = now + 1 /\ now \in Nat /\ MaxTime \in Nat
      /\ told' = told /\ shown' = shown /\ startedAt' = startedAt /\ moved' = moved /\ stamp' = stamp
      /\ buffer' = buffer /\ timers' = timers /\ view' = view /\ answered' = answered /\ asked' = asked
  BY ActivityConstants DEF Tick, runtime, page, ActivityInv, TypeOK
<1>1. TypeOK'
  <2>1. now' \in 0 .. MaxTime
    BY <1>0
  <2> QED BY <1>0, <2>1 DEF ActivityInv, TypeOK, Feed!FeedTypeOK
<1>2. TimesInv'
  BY <1>0, JobTypes DEF TimesInv
<1>3. ASSUME NEW e \in Events, Underway(e)' PROVE Sent(e)'
  <2>1. Sent(e)
    BY <1>0, <1>3 DEF ActivityInv, BuffersInv, Underway
  <2>2. e.at \in Nat
    BY DEF Events
  <2>3. e.at <= now'
    BY <2>1, <2>2, <1>0 DEF Sent
  <2> QED BY <2>1, <2>3, <1>0 DEF Sent
<1>4. BuffersInv'
  BY <1>0, <1>3 DEF ActivityInv, BuffersInv
<1>5. ASSUME NEW i \in Jobs, NEW v \in Snapshots, v = view'[i]
      PROVE  ShownInv(i, v)' /\ (told'[i] # "none" => Settled(i, v)' \/ Deciding(i)')
  <2>1. ShownInv(i, v) /\ (told[i] # "none" => Settled(i, v) \/ Deciding(i))
    BY <1>0, <1>5 DEF ActivityInv, ViewsInv
  <2>2. v.at <= now'
    BY <2>1, <1>0, <1>5, JobTypes DEF ShownInv, Snapshots
  <2>3. ShownInv(i, v)' /\ (Settled(i, v) => Settled(i, v)')
    BY <2>1, <2>2, <1>0 DEF ShownInv, Settled
  <2>4. Deciding(i) => Deciding(i)'
    BY <1>0 DEF Deciding, Decides, Underway
  <2> QED BY <2>1, <2>3, <2>4, <1>0
<1>6. ViewsInv'
  BY <1>5 DEF ViewsInv
<1> QED BY <1>1, <1>2, <1>4, <1>6 DEF ActivityInv

LEMMA DrainKeeps ==
    ASSUME ActivityInv, Drain
    PROVE  ActivityInv'
<1>0. /\ timers # <<>> /\ view' = DeliverAll(view, buffer[Head(timers)])
      /\ buffer' = [buffer EXCEPT ![Head(timers)] = <<>>] /\ timers' = Tail(timers)
      /\ told' = told /\ shown' = shown /\ startedAt' = startedAt /\ moved' = moved /\ stamp' = stamp
      /\ now' = now /\ answered' = answered /\ asked' = asked
  BY DEF Drain, runtime
<1>1. PICK n \in Names : n = Head(timers)
  BY <1>0 DEF ActivityInv, TypeOK
<1>2. /\ view' \in [Jobs -> Snapshots]
      /\ \A j \in Jobs, v \in Snapshots : v = view'[j] =>
           /\ ShownInv(j, v) /\ (Settled(j, view[j]) => Settled(j, v))
           /\ \A e \in Events : Underway(e) /\ e.name = n /\ e.job = j /\ Decides(e) => Settled(j, v)
  BY <1>0, <1>1, DrainedKeeps
<1>3. /\ buffer' \in [Names -> Seq(Events)] /\ buffer'[n] = <<>>
      /\ \A m \in Names : m # n => buffer'[m] = buffer[m]
  BY <1>0, <1>1 DEF ActivityInv, TypeOK
<1>4. TypeOK'
  <2>1. timers' \in Seq(Names)
    BY <1>0 DEF ActivityInv, TypeOK
  <2> QED BY <1>0, <1>2, <1>3, <2>1 DEF ActivityInv, TypeOK, Feed!FeedTypeOK, Snapshots, Statuses
<1>5. TimesInv'
  BY <1>0 DEF ActivityInv, TimesInv
<1>6. ASSUME NEW e \in Events PROVE /\ Underway(e)' => Underway(e)
                                    /\ Underway(e) /\ e.name # n => Underway(e)'
  <2>1. ASSUME Underway(e)' PROVE Underway(e)
    <3>1. PICK m \in Names : \E i \in DOMAIN buffer'[m] : buffer'[m][i] = e
      BY <2>1 DEF Underway
    <3>2. m # n
      BY <3>1, <1>3
    <3> QED BY <3>1, <3>2, <1>3 DEF Underway
  <2>2. ASSUME Underway(e), e.name # n PROVE Underway(e)'
    <3>1. PICK m \in Names : \E i \in DOMAIN buffer[m] : buffer[m][i] = e
      BY <2>2 DEF Underway
    <3>2. m # n
      BY <3>1, <2>2 DEF ActivityInv, BuffersInv
    <3> QED BY <3>1, <3>2, <1>3 DEF Underway
  <2> QED BY <2>1, <2>2
<1>7. \A e \in Events : (Sent(e) => Sent(e)') /\ (Decides(e) => Decides(e)')
  BY <1>0 DEF Sent, Decides
<1>8. BuffersInv'
  <2>1. \A m \in Names : \A i \in DOMAIN buffer'[m] : buffer'[m][i].name = m
    BY <1>3 DEF ActivityInv, BuffersInv
  <2> QED BY <2>1, <1>6, <1>7 DEF ActivityInv, BuffersInv
<1>9. ASSUME NEW j \in Jobs, NEW v \in Snapshots, v = view'[j]
      PROVE  ShownInv(j, v)' /\ (told'[j] # "none" => Settled(j, v)' \/ Deciding(j)')
  <2>1. (ShownInv(j, v) => ShownInv(j, v)') /\ (Settled(j, v) => Settled(j, v)')
    BY <1>0 DEF ShownInv, Settled
  <2>2. ASSUME Deciding(j) PROVE Settled(j, v) \/ Deciding(j)'
    <3>1. PICK e \in Events : Underway(e) /\ e.job = j /\ Decides(e)
      BY <2>2 DEF Deciding
    <3>2. CASE e.name = n
      BY <3>1, <3>2, <1>2, <1>9
    <3>3. CASE e.name # n
      BY <3>1, <3>3, <1>6, <1>7 DEF Deciding
    <3> QED BY <3>2, <3>3
  <2>3. told[j] # "none" => Settled(j, view[j]) \/ Deciding(j)
    BY JobTypes DEF ActivityInv, ViewsInv
  <2> QED BY <2>1, <2>2, <2>3, <1>0, <1>2, <1>9
<1>10. ViewsInv'
  BY <1>9 DEF ViewsInv
<1> QED BY <1>4, <1>5, <1>8, <1>10 DEF ActivityInv

\* A timer more, or nothing at all
LEMMA TimersKeep ==
    ASSUME ActivityInv, timers' \in Seq(Names), UNCHANGED <<runtime, now, buffer, page>>
    PROVE  ActivityInv'
<1>0. /\ told' = told /\ shown' = shown /\ startedAt' = startedAt /\ moved' = moved /\ stamp' = stamp
      /\ now' = now /\ buffer' = buffer /\ view' = view /\ answered' = answered /\ asked' = asked
  BY DEF runtime, page
<1>1. TypeOK'
  BY <1>0 DEF ActivityInv, TypeOK, Feed!FeedTypeOK
<1>2. TimesInv'
  BY <1>0 DEF ActivityInv, TimesInv
<1>3. BuffersInv' /\ \A i \in Jobs : Deciding(i)' <=> Deciding(i)
  BY <1>0, BuffersStay DEF ActivityInv
<1>4. ViewsInv'
  <2>1. ASSUME NEW i \in Jobs, NEW v \in Snapshots
        PROVE  (ShownInv(i, v)' <=> ShownInv(i, v)) /\ (Settled(i, v)' <=> Settled(i, v))
    BY <1>0 DEF ShownInv, Settled
  <2> QED BY <2>1, <1>0, <1>3 DEF ActivityInv, ViewsInv
<1> QED BY <1>1, <1>2, <1>3, <1>4 DEF ActivityInv

-----------------------------------------------------------------------------
(* The theorems.                                                           *)

LEMMA NextKeeps ==
    ASSUME ActivityInv, [Next]_vars
    PROVE  ActivityInv'
<1>1. CASE Tick
  BY <1>1, TickKeeps
<1>2. CASE Drain
  BY <1>2, DrainKeeps
<1>3. CASE SendOther
  <2>1. PICK n \in OtherNames : timers' = Append(timers, n)
    BY <1>3 DEF SendOther
  <2>2. n \in Names
    BY ActivityConstants
  <2>3. timers' \in Seq(Names)
    BY <2>1, <2>2 DEF ActivityInv, TypeOK
  <2> QED BY <2>3, <1>3, TimersKeep DEF SendOther
<1>4. ASSUME NEW j \in Jobs, Start(j) PROVE ActivityInv'
  BY <1>4, StartKeeps
<1>5. ASSUME NEW j \in Jobs, Report(j) PROVE ActivityInv'
  BY <1>5, ReportKeeps
<1>6. ASSUME NEW j \in Jobs, PauseOrResume(j) PROVE ActivityInv'
  BY <1>6, PauseOrResumeKeeps
<1>7. ASSUME NEW j \in Jobs, End(j) PROVE ActivityInv'
  BY <1>7, EndKeeps
<1>8. ASSUME NEW j \in Jobs, AnswerStart(j) PROVE ActivityInv'
  BY <1>8, AnswerStartKeeps
<1>9. ASSUME NEW j \in Jobs, AskCancel(j) PROVE ActivityInv'
  BY <1>9, AskCancelKeeps
<1>10. ASSUME NEW j \in Jobs, AnswerCancel(j) PROVE ActivityInv'
  BY <1>10, AnswerCancelKeeps
<1>11. CASE UNCHANGED vars
  <2>1. timers' = timers /\ UNCHANGED <<runtime, now, buffer, page>>
    BY <1>11 DEF vars
  <2>2. timers' \in Seq(Names)
    BY <2>1 DEF ActivityInv, TypeOK
  <2> QED BY <2>1, <2>2, TimersKeep
<1> QED
  BY <1>1, <1>2, <1>3, <1>4, <1>5, <1>6, <1>7, <1>8, <1>9, <1>10, <1>11 DEF Next

LEMMA ActivityInvariant == Spec => []ActivityInv
<1>1. Init => ActivityInv
  BY StartsRight
<1>2. ActivityInv /\ [Next]_vars => ActivityInv'
  BY NextKeeps
<1> QED BY <1>1, <1>2, PTL DEF Spec

\* Every snapshot in the list has its fields within their ranges, and every buffered event is
\* an event of a job, however many jobs, items, milliseconds and timers there are.
THEOREM ActivityTypes == Spec => []TypeOK
<1>1. ActivityInv => TypeOK
  BY DEF ActivityInv
<1> QED BY <1>1, ActivityInvariant, PTL

\* The list of jobs tells the truth, in whatever order the timers fire and the answers come:
\* an end is shown only if it was told or asked for, and nothing shown is out of date once
\* everything has arrived, but for the pause that a report newer than the resume leaves.
THEOREM ListIsTrue == Spec => []TrueView
<1>1. ActivityInv => TrueView
  <2> SUFFICES ASSUME ActivityInv PROVE TrueView
    OBVIOUS
  <2>1. NoFalseEnd
    BY JobTypes DEF NoFalseEnd, ShownInv, isTerminalStatus
  <2>2. ASSUME NEW j \in Jobs, told[j] # "none", ~Pending(j), asked[j] # "answered"
        PROVE  /\ \/ view[j].status = told[j]
                  \/ told[j] = "running" /\ view[j].status = "paused" /\ view[j].at > moved[j]
               /\ told[j] = "completed" => view[j].items = Total
    <3>1. ~Deciding(j)
      BY <2>2 DEF Deciding, Underway, Pending
    <3>2. Settled(j, view[j])
      BY <3>1, <2>2, JobTypes DEF ActivityInv, ViewsInv
    <3>3. view[j].at \in Nat /\ moved[j] \in Nat
      BY JobTypes DEF Snapshots
    <3>4. told[j] \in {"running", "paused", "completed", "failed", "cancelled"}
      BY <2>2, JobTypes
    <3> QED BY <3>2, <3>3, <3>4, <2>2, NamesAre DEF Settled
  <2>3. SettledView
    BY <2>2 DEF SettledView
  <2> QED BY <2>1, <2>3 DEF TrueView
<1> QED BY <1>1, ActivityInvariant, PTL

\* A count shown goes back only to nothing, and only when the start of the job arrives after
\* something of the same millisecond, or when its entry is removed.
THEOREM CountsGoBackOnlyAtStart == Spec => CountersRegressOnlyAtStart
<1> DEFINE Good == \A j \in Jobs :
                      view'[j].items < view[j].items =>
                        \/ view'[j].items = 0 /\ view[j].at = startedAt[j]
                        \/ view'[j] = Absent
<1>1. ASSUME ActivityInv, Next PROVE Good
  <2> SUFFICES ASSUME NEW j \in Jobs, view'[j].items < view[j].items
               PROVE  \/ view'[j].items = 0 /\ view[j].at = startedAt[j]
                      \/ view'[j] = Absent
    OBVIOUS
  <2>0. view[j] \in Snapshots /\ view[j].items \in Nat /\ view \in [Jobs -> Snapshots] /\ Absent.items = 0
    BY <1>1, JobTypes, NamesAre DEF Snapshots
  <2>1. CASE view' = view
    BY <2>0, <2>1
  <2>2. CASE Drain
    <3>1. PICK n \in Names : n = Head(timers)
      BY <1>1, <2>2 DEF Drain, ActivityInv, TypeOK
    <3>2. Counted(n, j, view'[j]) /\ view'[j] \in Snapshots
      BY <1>1, <2>2, <3>1, DrainedKeeps DEF Drain
    <3>3. view'[j].items \in Nat
      BY <3>2 DEF Snapshots
    <3> QED BY <3>2, <3>3, <2>0 DEF Counted
  <2>3. ASSUME NEW i \in Jobs, AnswerStart(i)
        PROVE  \/ view'[j].items = 0 /\ view[j].at = startedAt[j]
               \/ view'[j] = Absent
    <3>1. told[i] # "none" /\ view' = [view EXCEPT ![i] = mergeJobSnapshot(view, i, startedAt[i])]
      BY <2>3 DEF AnswerStart
    <3>2. CASE i = j
      <4>1. view'[j] = mergeJobSnapshot(view, j, startedAt[j])
        BY <3>1, <3>2, <2>0
      <4>2. \/ view'[j] = view[j]
            \/ view'[j].items = 0 /\ (view[j] = Absent \/ view[j].at = startedAt[j])
        BY <1>1, <4>1, <3>1, <3>2, <2>0, JobTypes, SnapshotKeeps DEF ActivityInv
      <4> QED BY <4>2, <2>0
    <3>3. CASE i # j
      BY <3>1, <3>3, <2>0
    <3> QED BY <3>2, <3>3
  <2>4. ASSUME NEW i \in Jobs, AnswerCancel(i)
        PROVE  view'[j].items = view[j].items \/ view'[j] = Absent
    BY <2>4, <2>0 DEF AnswerCancel, Snapshots
  <2>5. view' # view => Drain \/ \E i \in Jobs : AnswerStart(i) \/ AnswerCancel(i)
    BY <1>1 DEF Next, Tick, SendOther, Start, Report, PauseOrResume, End, AskCancel, page
  <2> QED BY <2>0, <2>1, <2>2, <2>3, <2>4, <2>5
<1>2. ASSUME ActivityInv, [Next]_vars PROVE [Good]_vars
  BY <1>1, <1>2
<1> QED BY <1>2, ActivityInvariant, PTL DEF Spec, CountersRegressOnlyAtStart

=============================================================================
