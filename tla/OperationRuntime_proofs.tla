---------------------- MODULE OperationRuntime_proofs ----------------------
(***************************************************************************)
(* Theorems about OperationRuntime, for any number of jobs, workers and    *)
(* items and any limits.                                                   *)
(***************************************************************************)
EXTENDS OperationRuntime, FiniteSetTheorems, TLAPS

LEMMA GotoType ==
  ASSUME TypeOK, NEW j \in Jobs, NEW from, NEW to \in Phases, Goto(j, from, to)
  PROVE  phase' \in [Jobs -> Phases]
  BY DEF Goto, TypeOK

\* Every variable keeps its type: the parameters only have to be what they are assumed.
THEOREM TypeCorrect == Spec => []TypeOK
<1>1. Init => TypeOK
  BY RuntimeConstants DEF Init, TypeOK, Feed!FeedInit, Feed!FeedTypeOK, Phases, Endings,
     Feed!Endings
<1>2. TypeOK /\ [Next]_vars => TypeOK'
  <2> SUFFICES ASSUME TypeOK, [Next]_vars PROVE TypeOK'
    OBVIOUS
  <2>1. ASSUME NEW j \in Jobs, Plan(j) PROVE TypeOK'
    <3>1. phase' \in [Jobs -> Phases]
      BY <2>1 DEF Plan, TypeOK, Phases, Over
    <3> QED
      BY <2>1, <3>1 DEF Plan, TypeOK, Feed!FeedTypeOK, Endings, Feed!Endings, control, stored,
         pool, feed, ends
  <2>2. ASSUME NEW j \in Jobs, Expire(j) PROVE TypeOK'
    <3>1. phase' \in [Jobs -> Phases]
      BY <2>2, GotoType DEF Expire, Phases, Live, Starting, InTask, Over
    <3> QED
      BY <2>2, <3>1 DEF Expire, TypeOK, Feed!FeedTypeOK, Endings, Feed!Endings, control, stored,
         pool, feed, ends
  <2>3. ASSUME NEW j \in Jobs, TakePlan(j) PROVE TypeOK'
    <3>1. phase' \in [Jobs -> Phases]
      BY <2>3, GotoType DEF TakePlan, Phases, Live, Starting, InTask, Over
    <3> QED
      BY <2>3, <3>1 DEF TakePlan, TypeOK, Feed!FeedTypeOK, Endings, Feed!Endings, control,
         stored, pool, feed, ends
  <2>4. ASSUME NEW j \in Jobs, WriteText(j) PROVE TypeOK'
    <3>1. phase' \in [Jobs -> Phases]
      BY <2>4, GotoType DEF WriteText, Phases, Live, Starting, InTask, Over
    <3> QED
      BY <2>4, <3>1 DEF WriteText, TypeOK, Feed!FeedTypeOK, Endings, Feed!Endings, control,
         stored, pool, feed, ends
  <2>5. ASSUME NEW j \in Jobs, Admit(j) PROVE TypeOK'
    <3>1. phase' \in [Jobs -> Phases]
      BY <2>5, GotoType DEF Admit, Phases, Live, Starting, InTask, Over
    <3>2. admitted' \in Int
      BY <2>5 DEF Admit, TypeOK
    <3>3. clock' \in Nat
      BY <2>5 DEF Admit, TypeOK
    <3>4. startedAt' \in [Jobs -> Nat]
      BY <2>5, <3>3 DEF Admit, TypeOK
    <3> QED
      BY <2>5, <3>1, <3>2, <3>3, <3>4 DEF Admit, TypeOK, Feed!FeedTypeOK, Endings, Feed!Endings,
         control, stored, pool, feed, ends
  <2>6. ASSUME NEW j \in Jobs, Register(j) PROVE TypeOK'
    <3>1. phase' \in [Jobs -> Phases]
      BY <2>6, GotoType DEF Register, Phases, Live, Starting, InTask, Over
    <3>2. table' \in SUBSET Jobs
      BY <2>6 DEF Register, TypeOK
    <3> QED
      BY <2>6, <3>1, <3>2 DEF Register, TypeOK, Feed!FeedTypeOK, Endings, Feed!Endings, control,
         stored, pool, feed, ends
  <2>7. ASSUME NEW j \in Jobs, RecordStart(j) PROVE TypeOK'
    <3>1. phase' \in [Jobs -> Phases]
      BY <2>7, GotoType DEF RecordStart, Save, Phases, Live, Starting, InTask, Over
    <3>2. unsaved' \in SUBSET Jobs
      BY <2>7 DEF RecordStart, Save, TypeOK
    <3>3. history' \in [Jobs -> {"none", "running", "interrupted"} \cup Endings]
      BY <2>7 DEF RecordStart, Save, TypeOK
    <3> QED
      BY <2>7, <3>1, <3>2, <3>3 DEF RecordStart, TypeOK, Feed!FeedTypeOK, Endings, Feed!Endings,
         control, stored, pool, feed, ends
  <2>8. ASSUME NEW j \in Jobs, Announce(j) PROVE TypeOK'
    <3>1. phase' \in [Jobs -> Phases]
      BY <2>8, GotoType DEF Announce, Phases, Live, Starting, InTask, Over
    <3>2. told' \in [Jobs -> {"none", "running", "paused", "gone"} \cup Endings]
      BY <2>8 DEF Announce, TypeOK, Feed!FeedTypeOK, Endings, Feed!Endings
    <3> QED
      BY <2>8, <3>1, <3>2 DEF Announce, TypeOK, Feed!FeedTypeOK, Endings, Feed!Endings, control,
         stored, pool, feed, ends
  <2>9. ASSUME NEW j \in Jobs, Dispatch(j) PROVE TypeOK'
    <3>1. phase' \in [Jobs -> Phases]
      BY <2>9, GotoType DEF Dispatch, Phases, Live, Starting, InTask, Over
    <3>2. queue' \in Seq(Jobs)
      BY <2>9 DEF Dispatch, TypeOK
    <3> QED
      BY <2>9, <3>1, <3>2 DEF Dispatch, TypeOK, Feed!FeedTypeOK, Endings, Feed!Endings, control,
         stored, pool, feed, ends
  <2>10. ASSUME NEW j \in Jobs, DispatchFails(j) PROVE TypeOK'
    <3>1. phase' \in [Jobs -> Phases]
      BY <2>10, GotoType DEF DispatchFails, Phases, Live, Starting, InTask, Over
    <3>2. admitted' \in Int
      BY <2>10 DEF DispatchFails, TypeOK
    <3>3. result' \in [Jobs -> {"none", "ok", "cancelled", "error", "unsent"}]
      BY <2>10 DEF DispatchFails, TypeOK
    <3> QED
      BY <2>10, <3>1, <3>2, <3>3 DEF DispatchFails, TypeOK, Feed!FeedTypeOK, Endings,
         Feed!Endings, control, stored, pool, feed, ends
  <2>11. ASSUME NEW j \in Jobs, Dequeue(j) PROVE TypeOK'
    <3>1. phase' \in [Jobs -> Phases]
      BY <2>11, GotoType DEF Dequeue, Phases, Live, Starting, InTask, Over
    <3>2. queue' \in Seq(Jobs)
      BY <2>11 DEF Dequeue, TypeOK
    <3>3. active' \in [Jobs -> BOOLEAN]
      BY <2>11 DEF Dequeue, TypeOK
    <3> QED
      BY <2>11, <3>1, <3>2, <3>3 DEF Dequeue, TypeOK, Feed!FeedTypeOK, Endings, Feed!Endings,
         control, stored, pool, feed, ends
  <2>12. ASSUME NEW j \in Jobs, CheckTokens(j) PROVE TypeOK'
    <3>1. phase' \in [Jobs -> Phases]
      BY <2>12, GotoType DEF CheckTokens, Returns, Phases, Live, Starting, InTask, Over
    <3>2. result' \in [Jobs -> {"none", "ok", "cancelled", "error", "unsent"}]
      BY <2>12 DEF CheckTokens, Returns, TypeOK, ends
    <3>3. outcome' \in [Jobs -> {"none"} \cup Endings]
      BY <2>12 DEF CheckTokens, Returns, TypeOK, Endings, ends
    <3> QED
      BY <2>12, <3>1, <3>2, <3>3 DEF CheckTokens, Returns, TypeOK, Feed!FeedTypeOK, Endings,
         Feed!Endings, control, stored, pool, feed, ends
  <2>13. ASSUME NEW j \in Jobs, DoItem(j) PROVE TypeOK'
    <3>1. phase' \in [Jobs -> Phases]
      BY <2>13, GotoType DEF DoItem, Returns, Phases, Live, Starting, InTask, Over
    <3>2. result' \in [Jobs -> {"none", "ok", "cancelled", "error", "unsent"}]
      BY <2>13 DEF DoItem, Returns, TypeOK, ends
    <3>3. outcome' \in [Jobs -> {"none"} \cup Endings]
      BY <2>13 DEF DoItem, Returns, TypeOK, Endings, ends
    <3>4. work' \in [Jobs -> Nat]
      BY <2>13 DEF DoItem, Returns, TypeOK
    <3> QED
      BY <2>13, <3>1, <3>2, <3>3, <3>4 DEF DoItem, Returns, TypeOK, Feed!FeedTypeOK, Endings,
         Feed!Endings, control, stored, pool, feed, ends
  <2>14. ASSUME NEW j \in Jobs, ItemFails(j) PROVE TypeOK'
    <3>1. phase' \in [Jobs -> Phases]
      BY <2>14, GotoType DEF ItemFails, Returns, Phases, Live, Starting, InTask, Over
    <3>2. result' \in [Jobs -> {"none", "ok", "cancelled", "error", "unsent"}]
      BY <2>14 DEF ItemFails, Returns, TypeOK, ends
    <3>3. outcome' \in [Jobs -> {"none"} \cup Endings]
      BY <2>14 DEF ItemFails, Returns, TypeOK, Endings, ends
    <3> QED
      BY <2>14, <3>1, <3>2, <3>3 DEF ItemFails, Returns, TypeOK, Feed!FeedTypeOK, Endings,
         Feed!Endings, control, stored, pool, feed, ends
  <2>15. ASSUME NEW j \in Jobs, ReportTell(j) PROVE TypeOK'
    <3>1. phase' \in [Jobs -> Phases]
      BY <2>15, GotoType DEF ReportTell, Returns, Continue, Phases, Live, Starting, InTask, Over
    <3>2. result' \in [Jobs -> {"none", "ok", "cancelled", "error", "unsent"}]
      BY <2>15 DEF ReportTell, Returns, Continue, TypeOK, ends
    <3>3. outcome' \in [Jobs -> {"none"} \cup Endings]
      BY <2>15 DEF ReportTell, Returns, Continue, TypeOK, Endings, ends
    <3>4. shown' \in [Jobs -> Nat]
      BY <2>15 DEF ReportTell, Returns, Continue, TypeOK, Feed!FeedTypeOK, Endings,
         Feed!Endings, ends
    <3>5. gate' \in [Jobs -> {"free", "progress", "paused", "resumed"}]
      BY <2>15 DEF ReportTell, Returns, Continue, TypeOK, ends
    <3> QED
      BY <2>15, <3>1, <3>2, <3>3, <3>4, <3>5 DEF ReportTell, Returns, Continue, TypeOK,
         Feed!FeedTypeOK, Endings, Feed!Endings, control, stored, pool, feed, ends
  <2>16. ASSUME NEW j \in Jobs, EndStatus(j) PROVE TypeOK'
    <3>1. phase' \in [Jobs -> Phases]
      BY <2>16, GotoType DEF EndStatus, Verdict, Phases, Live, Starting, InTask, Over
    <3>2. outcome' \in [Jobs -> {"none"} \cup Endings]
      BY <2>16 DEF EndStatus, Verdict, TypeOK, Endings
    <3>3. status' \in [Jobs -> {"running", "paused"} \cup Endings]
      BY <2>16 DEF EndStatus, Verdict, TypeOK, Endings
    <3>4. clock' \in Nat
      BY <2>16 DEF EndStatus, Verdict, TypeOK
    <3>5. endedAt' \in [Jobs -> Nat]
      BY <2>16, <3>4 DEF EndStatus, Verdict, TypeOK
    <3> QED
      BY <2>16, <3>1, <3>2, <3>3, <3>4, <3>5 DEF EndStatus, TypeOK, Feed!FeedTypeOK, Endings,
         Feed!Endings, control, stored, pool, feed, ends
  <2>17. ASSUME NEW j \in Jobs, EndStore(j) PROVE TypeOK'
    <3>1. phase' \in [Jobs -> Phases]
      BY <2>17, GotoType DEF EndStore, Save, Phases, Live, Starting, InTask, Over
    <3>2. unsaved' \in SUBSET Jobs
      BY <2>17 DEF EndStore, Save, TypeOK
    <3>3. history' \in [Jobs -> {"none", "running", "interrupted"} \cup Endings]
      BY <2>17 DEF EndStore, Save, TypeOK
    <3> QED
      BY <2>17, <3>1, <3>2, <3>3 DEF EndStore, TypeOK, Feed!FeedTypeOK, Endings, Feed!Endings,
         control, stored, pool, feed, ends
  <2>18. ASSUME NEW j \in Jobs, EndCleanup(j) PROVE TypeOK'
    <3>1. phase' \in [Jobs -> Phases]
      BY <2>18, GotoType DEF EndCleanup, Phases, Live, Starting, InTask, Over
    <3>2. history' \in [Jobs -> {"none", "running", "interrupted"} \cup Endings]
      BY <2>18 DEF EndCleanup, TypeOK
    <3>3. admitted' \in Int
      BY <2>18 DEF EndCleanup, TypeOK
    <3> QED
      BY <2>18, <3>1, <3>2, <3>3 DEF EndCleanup, TypeOK, Feed!FeedTypeOK, Endings, Feed!Endings,
         control, stored, pool, feed, ends
  <2>19. ASSUME NEW j \in Jobs, ReportBegin(j) PROVE TypeOK'
    <3>1. phase' \in [Jobs -> Phases]
      BY <2>19, GotoType DEF ReportBegin, Returns, Continue, Phases, Live, Starting, InTask, Over
    <3>2. result' \in [Jobs -> {"none", "ok", "cancelled", "error", "unsent"}]
      BY <2>19 DEF ReportBegin, Returns, Continue, TypeOK, ends
    <3>3. outcome' \in [Jobs -> {"none"} \cup Endings]
      BY <2>19 DEF ReportBegin, Returns, Continue, TypeOK, Endings, ends
    <3>4. items' \in [Jobs -> Nat]
      BY <2>19 DEF ReportBegin, Returns, Continue, TypeOK, ends
    <3>5. active' \in [Jobs -> BOOLEAN]
      BY <2>19 DEF ReportBegin, Returns, Continue, TypeOK, ends
    <3>6. gate' \in [Jobs -> {"free", "progress", "paused", "resumed"}]
      BY <2>19 DEF ReportBegin, Returns, Continue, TypeOK, ends
    <3> QED
      BY <2>19, <3>1, <3>2, <3>3, <3>4, <3>5, <3>6 DEF ReportBegin, Returns, Continue, TypeOK,
         Feed!FeedTypeOK, Endings, Feed!Endings, control, stored, pool, feed, ends
  <2>20. ASSUME NEW j \in Jobs, EndTell(j) PROVE TypeOK'
    <3>1. phase' \in [Jobs -> Phases]
      BY <2>20, GotoType DEF EndTell, Phases, Live, Starting, InTask, Over
    <3>2. told' \in [Jobs -> {"none", "running", "paused", "gone"} \cup Endings]
      BY <2>20 DEF EndTell, TypeOK, Feed!FeedTypeOK, Endings, Feed!Endings
    <3> QED
      BY <2>20, <3>1, <3>2 DEF EndTell, TypeOK, Feed!FeedTypeOK, Endings, Feed!Endings, control,
         stored, pool, feed, ends
  <2>21. ASSUME NEW j \in Jobs, GateTell(j) PROVE TypeOK'
    <3>1. told' \in [Jobs -> {"none", "running", "paused", "gone"} \cup Endings]
      BY <2>21 DEF GateTell, TypeOK, Feed!FeedTypeOK, Endings, Feed!Endings
    <3>2. gate' \in [Jobs -> {"free", "progress", "paused", "resumed"}]
      BY <2>21 DEF GateTell, TypeOK
    <3> QED
      BY <2>21, <3>1, <3>2 DEF GateTell, TypeOK, Feed!FeedTypeOK, Endings, Feed!Endings,
         control, stored, pool, feed, ends
  <2>22. ASSUME NEW j \in Jobs, Panic(j) PROVE TypeOK'
    <3>1. phase' \in [Jobs -> Phases]
      BY <2>22 DEF Panic, TypeOK, Phases, Over
    <3>2. workers' \in Int
      BY <2>22 DEF Panic, TypeOK
    <3>3. queue' \in Seq(Jobs)
      BY <2>22 DEF Panic, TypeOK
    <3>4. admitted' \in Int
      BY <2>22 DEF Panic, TypeOK
    <3> QED
      BY <2>22, <3>1, <3>2, <3>3, <3>4 DEF Panic, TypeOK, Feed!FeedTypeOK, Endings,
         Feed!Endings, control, stored, pool, feed, ends
  <2>23. ASSUME NEW j \in Controlled, Cancel(j) PROVE TypeOK'
    <3> j \in Jobs
      BY RuntimeConstants
    <3>1. cancel' \in [Jobs -> BOOLEAN]
      BY <2>23 DEF Cancel, TypeOK
    <3>2. userCancelled' \in [Jobs -> BOOLEAN]
      BY <2>23 DEF Cancel, TypeOK
    <3> QED
      BY <2>23, <3>1, <3>2 DEF Cancel, TypeOK, Feed!FeedTypeOK, Endings, Feed!Endings, control,
         stored, pool, feed, ends
  <2>24. ASSUME NEW j \in Controlled, PauseBegin(j) PROVE TypeOK'
    <3> j \in Jobs
      BY RuntimeConstants
    <3>1. paused' \in [Jobs -> BOOLEAN]
      BY <2>24 DEF PauseBegin, TypeOK
    <3>2. status' \in [Jobs -> {"running", "paused"} \cup Endings]
      BY <2>24 DEF PauseBegin, TypeOK, Endings
    <3>3. gate' \in [Jobs -> {"free", "progress", "paused", "resumed"}]
      BY <2>24 DEF PauseBegin, TypeOK
    <3> QED
      BY <2>24, <3>1, <3>2, <3>3 DEF PauseBegin, TypeOK, Feed!FeedTypeOK, Endings, Feed!Endings,
         control, stored, pool, feed, ends
  <2>25. ASSUME NEW j \in Controlled, ResumeBegin(j) PROVE TypeOK'
    <3> j \in Jobs
      BY RuntimeConstants
    <3>1. paused' \in [Jobs -> BOOLEAN]
      BY <2>25 DEF ResumeBegin, TypeOK
    <3>2. status' \in [Jobs -> {"running", "paused"} \cup Endings]
      BY <2>25 DEF ResumeBegin, TypeOK, Endings
    <3>3. gate' \in [Jobs -> {"free", "progress", "paused", "resumed"}]
      BY <2>25 DEF ResumeBegin, TypeOK
    <3>4. active' \in [Jobs -> BOOLEAN]
      BY <2>25 DEF ResumeBegin, TypeOK
    <3> QED
      BY <2>25, <3>1, <3>2, <3>3, <3>4 DEF ResumeBegin, TypeOK, Feed!FeedTypeOK, Endings,
         Feed!Endings, control, stored, pool, feed, ends
  <2>26. ASSUME NEW j \in Controlled, Watchdog(j) PROVE TypeOK'
    <3> j \in Jobs
      BY RuntimeConstants
    <3>1. timedOut' \in [Jobs -> BOOLEAN]
      BY <2>26 DEF Watchdog, TypeOK
    <3>2. cancel' \in [Jobs -> BOOLEAN]
      BY <2>26 DEF Watchdog, TypeOK
    <3> QED
      BY <2>26, <3>1, <3>2 DEF Watchdog, TypeOK, Feed!FeedTypeOK, Endings, Feed!Endings,
         control, stored, pool, feed, ends
  <2>27. ASSUME ClearHistory PROVE TypeOK'
    <3>1. history' \in [Jobs -> {"none", "running", "interrupted"} \cup Endings]
      BY <2>27 DEF ClearHistory, TypeOK
    <3> QED
      BY <2>27, <3>1 DEF ClearHistory, TypeOK, Feed!FeedTypeOK, Endings, Feed!Endings, control,
         stored, pool, feed, ends
  <2>28. ASSUME Restart PROVE TypeOK'
    <3>1. phase' \in [Jobs -> Phases]
      BY <2>28 DEF Restart, TypeOK, Phases, Over
    <3>2. table' \in SUBSET Jobs
      BY <2>28 DEF Restart, TypeOK
    <3>3. gate' \in [Jobs -> {"free", "progress", "paused", "resumed"}]
      BY <2>28 DEF Restart, TypeOK
    <3>4. queue' \in Seq(Jobs)
      BY <2>28 DEF Restart, TypeOK
    <3>5. workers' \in Int
      BY <2>28, RuntimeConstants DEF Restart, TypeOK
    <3>6. admitted' \in Int
      BY <2>28 DEF Restart, TypeOK
    <3>7. history' \in [Jobs -> {"none", "running", "interrupted"} \cup Endings]
      BY <2>28 DEF Restart, TypeOK
    <3>8. told' \in [Jobs -> {"none", "running", "paused", "gone"} \cup Endings]
      BY <2>28 DEF Restart, TypeOK, Feed!FeedTypeOK, Endings, Feed!Endings
    <3> QED
      BY <2>28, <3>1, <3>2, <3>3, <3>4, <3>5, <3>6, <3>7, <3>8 DEF Restart, TypeOK,
         Feed!FeedTypeOK, Endings, Feed!Endings, control, stored, pool, feed, ends
  <2>29. CASE UNCHANGED vars
    BY <2>29 DEF vars, TypeOK, Feed!FeedTypeOK, Endings, Feed!Endings, control, stored, pool,
       feed, ends
  <2> QED
    BY <2>1, <2>2, <2>3, <2>4, <2>5, <2>6, <2>7, <2>8, <2>9, <2>10, <2>11, <2>12, <2>13, <2>14,
       <2>15, <2>16, <2>17, <2>18, <2>19, <2>20, <2>21, <2>22, <2>23, <2>24, <2>25, <2>26,
       <2>27, <2>28, <2>29 DEF Next, Advance
<1> QED
  BY <1>1, <1>2, PTL DEF Spec

-----------------------------------------------------------------------------
(* The inductive invariants.                                               *)

\* A job is cancelled by the user or timed out, never both, and by nothing else.
THEOREM TokensSound == Spec => []TokenInv
<1>1. Init => TokenInv
  BY DEF Init, Feed!FeedInit, TokenInv, BlameExclusive
<1>2. ASSUME TypeOK, TokenInv, [Next]_vars
      PROVE  TokenInv'
  <2> USE DEF TypeOK, TokenInv, BlameExclusive, control
  <2>1. ASSUME NEW j \in Controlled, Cancel(j) PROVE TokenInv'
    BY <1>2, <2>1, RuntimeConstants DEF Cancel, Goto
  <2>2. ASSUME NEW j \in Controlled, Watchdog(j) PROVE TokenInv'
    BY <1>2, <2>2, RuntimeConstants DEF Watchdog, Goto
  <2>3. ASSUME NEW j \in Jobs,
             Plan(j) \/ Expire(j) \/ TakePlan(j) \/ WriteText(j) \/ Admit(j)
             \/ Register(j) \/ RecordStart(j) \/ Announce(j) \/ Dispatch(j)
             \/ DispatchFails(j) \/ Dequeue(j) \/ CheckTokens(j) \/ DoItem(j)
             \/ ItemFails(j) \/ ReportTell(j) \/ EndStatus(j) \/ EndStore(j)
             \/ EndCleanup(j) \/ ReportBegin(j) \/ EndTell(j) \/ GateTell(j) \/ Panic(j)
      PROVE  TokenInv'
    BY <1>2, <2>3 DEF Plan, Expire, TakePlan, WriteText, Admit, Register, RecordStart, Announce,
       Dispatch, DispatchFails, Dequeue, CheckTokens, DoItem, ItemFails, ReportTell, EndStatus,
       EndStore, EndCleanup, ReportBegin, EndTell, GateTell, Panic, Returns, Continue
  <2>4. ASSUME NEW j \in Controlled,
             PauseBegin(j) \/ ResumeBegin(j)
      PROVE  TokenInv'
    BY <1>2, <2>4 DEF PauseBegin, ResumeBegin
  <2>5. ASSUME ClearHistory \/ Restart PROVE TokenInv'
    BY <1>2, <2>5 DEF ClearHistory, Restart
  <2>6. CASE UNCHANGED vars
    BY <1>2, <2>6 DEF vars
  <2> QED
    BY <1>2, <2>1, <2>2, <2>3, <2>4, <2>5, <2>6 DEF Next, Advance
<1> QED
  BY <1>1, <1>2, TypeCorrect, PTL DEF Spec

\* Retention in the job table takes no job that still runs.
THEOREM TableSound == Spec => []TableInv
<1>1. Init => TableInv
  BY DEF Init, Feed!FeedInit, TableInv, Running, Closing, Early, Endings
<1>2. ASSUME TypeOK, TableInv, [Next]_vars
      PROVE  TableInv'
  <2> USE DEF TypeOK, TableInv, Running, Closing, Early, Endings, Goto, ends
  <2>1. ASSUME NEW j \in Jobs, Plan(j) PROVE TableInv'
    BY <1>2, <2>1 DEF Plan
  <2>2. ASSUME NEW j \in Jobs, Expire(j) PROVE TableInv'
    BY <1>2, <2>2 DEF Expire
  <2>3. ASSUME NEW j \in Jobs, TakePlan(j) PROVE TableInv'
    BY <1>2, <2>3 DEF TakePlan
  <2>4. ASSUME NEW j \in Jobs, WriteText(j) PROVE TableInv'
    BY <1>2, <2>4 DEF WriteText
  <2>5. ASSUME NEW j \in Jobs, Admit(j) PROVE TableInv'
    BY <1>2, <2>5 DEF Admit
  <2>6. ASSUME NEW j \in Jobs, Register(j) PROVE TableInv'
    BY <1>2, <2>6 DEF Register, Pruned, Terminal
  <2>7. ASSUME NEW j \in Jobs, RecordStart(j) PROVE TableInv'
    BY <1>2, <2>7 DEF RecordStart, Save
  <2>8. ASSUME NEW j \in Jobs, Announce(j) PROVE TableInv'
    BY <1>2, <2>8 DEF Announce, Feed!FeedTypeOK, Feed!Endings
  <2>9. ASSUME NEW j \in Jobs, Dispatch(j) PROVE TableInv'
    BY <1>2, <2>9 DEF Dispatch
  <2>10. ASSUME NEW j \in Jobs, DispatchFails(j) PROVE TableInv'
    BY <1>2, <2>10 DEF DispatchFails
  <2>11. ASSUME NEW j \in Jobs, Dequeue(j) PROVE TableInv'
    <3>1. \E p \in {"report", "check", "work"} : Goto(j, "queued", p)
      BY <2>11 DEF Dequeue
    <3>2. UNCHANGED <<table, status, outcome>>
      BY <2>11 DEF Dequeue, ends
    <3> QED
      BY <1>2, <3>1, <3>2 DEF Goto, TypeOK, TableInv, Running, Closing, Early, Endings
  <2>12. ASSUME NEW j \in Jobs, CheckTokens(j) PROVE TableInv'
    BY <1>2, <2>12 DEF CheckTokens, Returns
  <2>13. ASSUME NEW j \in Jobs, DoItem(j) PROVE TableInv'
    BY <1>2, <2>13 DEF DoItem, Returns
  <2>14. ASSUME NEW j \in Jobs, ItemFails(j) PROVE TableInv'
    BY <1>2, <2>14 DEF ItemFails, Returns
  <2>15. ASSUME NEW j \in Jobs, ReportTell(j) PROVE TableInv'
    BY <1>2, <2>15 DEF ReportTell, Returns, Continue, Feed!FeedTypeOK, Feed!Endings
  <2>16. ASSUME NEW j \in Jobs, EndStatus(j) PROVE TableInv'
    BY <1>2, <2>16 DEF EndStatus, Verdict
  <2>17. ASSUME NEW j \in Jobs, EndStore(j) PROVE TableInv'
    BY <1>2, <2>17 DEF EndStore, Save
  <2>18. ASSUME NEW j \in Jobs, EndCleanup(j) PROVE TableInv'
    BY <1>2, <2>18 DEF EndCleanup
  <2>19. ASSUME NEW j \in Jobs, ReportBegin(j) PROVE TableInv'
    BY <1>2, <2>19 DEF ReportBegin, Returns, Continue
  <2>20. ASSUME NEW j \in Jobs, EndTell(j) PROVE TableInv'
    BY <1>2, <2>20 DEF EndTell, Feed!FeedTypeOK, Feed!Endings
  <2>21. ASSUME NEW j \in Jobs, Panic(j) PROVE TableInv'
    BY <1>2, <2>21 DEF Panic
  <2>22. ASSUME NEW j \in Controlled, PauseBegin(j) PROVE TableInv'
    BY <1>2, <2>22, RuntimeConstants DEF PauseBegin
  <2>23. ASSUME NEW j \in Controlled, ResumeBegin(j) PROVE TableInv'
    BY <1>2, <2>23, RuntimeConstants DEF ResumeBegin
  <2>24. ASSUME Restart PROVE TableInv'
    BY <1>2, <2>24 DEF Restart, Over, Feed!FeedTypeOK, Feed!Endings
  <2>25. ASSUME NEW j \in Jobs,
             GateTell(j)
      PROVE  TableInv'
    BY <1>2, <2>25 DEF GateTell
  <2>26. ASSUME NEW j \in Controlled,
             Cancel(j) \/ Watchdog(j)
      PROVE  TableInv'
    BY <1>2, <2>26 DEF Cancel, Watchdog
  <2>27. ASSUME ClearHistory PROVE TableInv'
    BY <1>2, <2>27 DEF ClearHistory
  <2>28. CASE UNCHANGED vars
    BY <1>2, <2>28 DEF vars
  <2> QED
    BY <1>2, <2>1, <2>2, <2>3, <2>4, <2>5, <2>6, <2>7, <2>8, <2>9, <2>10, <2>11, <2>12, <2>13,
       <2>14, <2>15, <2>16, <2>17, <2>18, <2>19, <2>20, <2>21, <2>22, <2>23, <2>24, <2>25,
       <2>26, <2>27, <2>28 DEF Next, Advance
<1> QED
  BY <1>1, <1>2, TypeCorrect, PTL DEF Spec

\* A job is announced when it is dispatched and said to have ended when its task is over.
THEOREM ToldSound == Spec => []ToldInv
<1>1. Init => ToldInv
  BY DEF Init, Feed!FeedInit, ToldInv, Running, Closing, Early, Endings
<1>2. ASSUME TypeOK, ToldInv, [Next]_vars
      PROVE  ToldInv'
  <2> USE DEF TypeOK, ToldInv, Running, Closing, Early, Endings, Goto, feed
  <2>1. ASSUME NEW j \in Jobs, Plan(j) PROVE ToldInv'
    BY <1>2, <2>1 DEF Plan
  <2>2. ASSUME NEW j \in Jobs, Expire(j) PROVE ToldInv'
    BY <1>2, <2>2 DEF Expire
  <2>3. ASSUME NEW j \in Jobs, TakePlan(j) PROVE ToldInv'
    BY <1>2, <2>3 DEF TakePlan
  <2>4. ASSUME NEW j \in Jobs, WriteText(j) PROVE ToldInv'
    BY <1>2, <2>4 DEF WriteText
  <2>5. ASSUME NEW j \in Jobs, Admit(j) PROVE ToldInv'
    BY <1>2, <2>5 DEF Admit
  <2>6. ASSUME NEW j \in Jobs, Register(j) PROVE ToldInv'
    BY <1>2, <2>6 DEF Register
  <2>7. ASSUME NEW j \in Jobs, RecordStart(j) PROVE ToldInv'
    BY <1>2, <2>7 DEF RecordStart, Save
  <2>8. ASSUME NEW j \in Jobs, Announce(j) PROVE ToldInv'
    BY <1>2, <2>8 DEF Announce, Feed!FeedTypeOK, Feed!Endings
  <2>9. ASSUME NEW j \in Jobs, Dispatch(j) PROVE ToldInv'
    BY <1>2, <2>9 DEF Dispatch
  <2>10. ASSUME NEW j \in Jobs, DispatchFails(j) PROVE ToldInv'
    BY <1>2, <2>10 DEF DispatchFails
  <2>11. ASSUME NEW j \in Jobs, Dequeue(j) PROVE ToldInv'
    <3>1. \E p \in {"report", "check", "work"} : Goto(j, "queued", p)
      BY <2>11 DEF Dequeue
    <3>2. UNCHANGED <<told, gate>>
      BY <2>11 DEF Dequeue, feed
    <3> QED
      BY <1>2, <3>1, <3>2 DEF Goto, TypeOK, ToldInv, Running, Closing, Early, Endings
  <2>12. ASSUME NEW j \in Jobs, CheckTokens(j) PROVE ToldInv'
    BY <1>2, <2>12 DEF CheckTokens, Returns
  <2>13. ASSUME NEW j \in Jobs, DoItem(j) PROVE ToldInv'
    BY <1>2, <2>13 DEF DoItem, Returns, ends
  <2>14. ASSUME NEW j \in Jobs, ItemFails(j) PROVE ToldInv'
    BY <1>2, <2>14 DEF ItemFails, Returns
  <2>15. ASSUME NEW j \in Jobs, ReportTell(j) PROVE ToldInv'
    BY <1>2, <2>15 DEF ReportTell, Returns, Continue, Feed!FeedTypeOK, Feed!Endings
  <2>16. ASSUME NEW j \in Jobs, EndStatus(j) PROVE ToldInv'
    BY <1>2, <2>16 DEF EndStatus, Verdict
  <2>17. ASSUME NEW j \in Jobs, EndStore(j) PROVE ToldInv'
    BY <1>2, <2>17 DEF EndStore, Save
  <2>18. ASSUME NEW j \in Jobs, EndCleanup(j) PROVE ToldInv'
    BY <1>2, <2>18 DEF EndCleanup
  <2>19. ASSUME NEW j \in Jobs, ReportBegin(j) PROVE ToldInv'
    BY <1>2, <2>19 DEF ReportBegin, Returns, Continue
  <2>20. ASSUME NEW j \in Jobs, EndTell(j) PROVE ToldInv'
    BY <1>2, <2>20 DEF EndTell, Feed!FeedTypeOK, Feed!Endings
  <2>21. ASSUME NEW j \in Jobs, GateTell(j) PROVE ToldInv'
    BY <1>2, <2>21 DEF GateTell, Feed!FeedTypeOK, Feed!Endings
  <2>22. ASSUME NEW j \in Jobs, Panic(j) PROVE ToldInv'
    BY <1>2, <2>22 DEF Panic
  <2>23. ASSUME NEW j \in Controlled, PauseBegin(j) PROVE ToldInv'
    BY <1>2, <2>23, RuntimeConstants DEF PauseBegin, SinkAlive
  <2>24. ASSUME NEW j \in Controlled, ResumeBegin(j) PROVE ToldInv'
    BY <1>2, <2>24, RuntimeConstants DEF ResumeBegin, SinkAlive
  <2>25. ASSUME Restart PROVE ToldInv'
    BY <1>2, <2>25 DEF Restart, Over, Feed!FeedTypeOK, Feed!Endings
  <2>26. ASSUME NEW j \in Controlled,
             Cancel(j) \/ Watchdog(j)
      PROVE  ToldInv'
    BY <1>2, <2>26 DEF Cancel, Watchdog
  <2>27. ASSUME ClearHistory PROVE ToldInv'
    BY <1>2, <2>27 DEF ClearHistory
  <2>28. CASE UNCHANGED vars
    BY <1>2, <2>28 DEF vars
  <2> QED
    BY <1>2, <2>1, <2>2, <2>3, <2>4, <2>5, <2>6, <2>7, <2>8, <2>9, <2>10, <2>11, <2>12, <2>13,
       <2>14, <2>15, <2>16, <2>17, <2>18, <2>19, <2>20, <2>21, <2>22, <2>23, <2>24, <2>25,
       <2>26, <2>27, <2>28 DEF Next, Advance
<1> QED
  BY <1>1, <1>2, TypeCorrect, PTL DEF Spec

\* The history says how a job ended before the webview hears of it, and never says
\* running of a job that is over: whatever retention, clearing and restarts do.
THEOREM RecordSound == Spec => []RecordInv
<1>1. Init => RecordInv
  BY DEF Init, Feed!FeedInit, RecordInv, RecordedBeforeTold, RowsOfLiveJobs, ToldInv,
     Unfinished, Running, Closing, Early, Endings
<1>2. ASSUME TypeOK, ToldInv, RecordInv, [Next]_vars
      PROVE  RecordInv'
  <2>0. ASSUME NEW j \in Jobs, NEW p, p \notin {"stored", "panicked"},
               phase[j] # "panicked", phase[j] \in Unfinished <=> p \in Unfinished,
               phase' = [phase EXCEPT ![j] = p],
               UNCHANGED <<told, history, unsaved, outcome>>
        PROVE  RecordInv'
    BY <1>2, <2>0 DEF RecordInv, RecordedBeforeTold, RowsOfLiveJobs, TypeOK
  <2>1. ASSUME NEW j \in Jobs, Plan(j) PROVE RecordInv'
    BY <1>2, <2>1 DEF Plan, RecordInv, RecordedBeforeTold, RowsOfLiveJobs, ToldInv, Unfinished,
       Running, Closing, Early, Endings, TypeOK, Goto, stored, feed, ends
  <2>2. ASSUME NEW j \in Jobs, Expire(j) PROVE RecordInv'
    <3>1. PICK p \in {"stale"} : phase[j] \in {"planned"} /\ phase' = [phase EXCEPT ![j] = p]
      BY <2>2 DEF Expire, Goto
    <3>2. UNCHANGED <<told, history, unsaved, outcome>>
      BY <2>2 DEF Expire, ends, stored, feed
    <3> QED
      BY <2>0, <3>1, <3>2 DEF Unfinished, Running
  <2>3. ASSUME NEW j \in Jobs, TakePlan(j) PROVE RecordInv'
    <3>1. PICK p \in {"taken", "rejected"} :
             phase[j] \in {"planned", "stale"} /\ phase' = [phase EXCEPT ![j] = p]
      BY <2>3 DEF TakePlan, Goto
    <3>2. UNCHANGED <<told, history, unsaved, outcome>>
      BY <2>3 DEF TakePlan, ends, stored, feed
    <3> QED
      BY <2>0, <3>1, <3>2 DEF Unfinished, Running
  <2>4. ASSUME NEW j \in Jobs, WriteText(j) PROVE RecordInv'
    <3>1. PICK p \in {"taken"} : phase[j] \in {"new"} /\ phase' = [phase EXCEPT ![j] = p]
      BY <2>4 DEF WriteText, Goto
    <3>2. UNCHANGED <<told, history, unsaved, outcome>>
      BY <2>4 DEF WriteText, ends, stored, feed
    <3> QED
      BY <2>0, <3>1, <3>2 DEF Unfinished, Running
  <2>5. ASSUME NEW j \in Jobs, Admit(j) PROVE RecordInv'
    <3>1. PICK p \in {"admitted", "rejected"} :
             phase[j] \in {"taken"} /\ phase' = [phase EXCEPT ![j] = p]
      BY <2>5 DEF Admit, Goto
    <3>2. UNCHANGED <<told, history, unsaved, outcome>>
      BY <2>5 DEF Admit, ends, stored, feed
    <3> QED
      BY <2>0, <3>1, <3>2 DEF Unfinished, Running
  <2>6. ASSUME NEW j \in Jobs, Register(j) PROVE RecordInv'
    <3>1. PICK p \in {"registered"} :
             phase[j] \in {"admitted"} /\ phase' = [phase EXCEPT ![j] = p]
      BY <2>6 DEF Register, Goto
    <3>2. UNCHANGED <<told, history, unsaved, outcome>>
      BY <2>6 DEF Register, ends, stored, feed
    <3> QED
      BY <2>0, <3>1, <3>2 DEF Unfinished, Running
  <2>7. ASSUME NEW j \in Jobs, RecordStart(j) PROVE RecordInv'
    <3>1. phase[j] = "registered" /\ phase' = [phase EXCEPT ![j] = "recorded"]
      BY <2>7 DEF RecordStart, Goto
    <3>2. UNCHANGED <<told, outcome>>
      BY <2>7 DEF RecordStart, ends, feed
    <3>3. told[j] = "none"
      BY <1>2, <3>1 DEF ToldInv, Early
    <3>4. CASE history' = [history EXCEPT ![j] = "running"] /\ UNCHANGED unsaved
      BY <1>2, <3>1, <3>2, <3>3, <3>4 DEF Endings, RecordInv, RecordedBeforeTold,
         RowsOfLiveJobs, Unfinished, Running, TypeOK
    <3>5. CASE unsaved' = unsaved \cup {j} /\ UNCHANGED history
      BY <1>2, <3>1, <3>2, <3>3, <3>5 DEF RecordInv, RecordedBeforeTold, RowsOfLiveJobs,
         Unfinished, Running, TypeOK
    <3> QED
      BY <2>7, <3>4, <3>5 DEF RecordStart, Save
  <2>8. ASSUME NEW j \in Jobs, Announce(j) PROVE RecordInv'
    BY <1>2, <2>8 DEF Announce, RecordInv, RecordedBeforeTold, RowsOfLiveJobs, ToldInv,
       Unfinished, Running, Closing, Early, Endings, TypeOK, Goto, stored, feed, ends,
       Feed!FeedTypeOK, Feed!Endings
  <2>9. ASSUME NEW j \in Jobs, Dispatch(j) PROVE RecordInv'
    <3>1. PICK p \in {"queued"} : phase[j] \in {"announced"} /\ phase' = [phase EXCEPT ![j] = p]
      BY <2>9 DEF Dispatch, Goto
    <3>2. UNCHANGED <<told, history, unsaved, outcome>>
      BY <2>9 DEF Dispatch, ends, stored, feed
    <3> QED
      BY <2>0, <3>1, <3>2 DEF Unfinished, Running
  <2>10. ASSUME NEW j \in Jobs, DispatchFails(j) PROVE RecordInv'
    <3>1. PICK p \in {"ending"} : phase[j] \in {"announced"} /\ phase' = [phase EXCEPT ![j] = p]
      BY <2>10 DEF DispatchFails, Goto
    <3>2. UNCHANGED <<told, history, unsaved, outcome>>
      BY <2>10 DEF DispatchFails, ends, stored, feed
    <3> QED
      BY <2>0, <3>1, <3>2 DEF Unfinished, Running
  <2>11. ASSUME NEW j \in Jobs, Dequeue(j) PROVE RecordInv'
    <3>1. PICK p \in {"report", "check", "work"} :
             phase[j] \in {"queued"} /\ phase' = [phase EXCEPT ![j] = p]
      BY <2>11 DEF Dequeue, Goto
    <3>2. UNCHANGED <<told, history, unsaved, outcome>>
      BY <2>11 DEF Dequeue, ends, stored, feed
    <3> QED
      BY <2>0, <3>1, <3>2 DEF Unfinished, Running
  <2>12. ASSUME NEW j \in Jobs, CheckTokens(j) PROVE RecordInv'
    <3>1. PICK p \in {"work", "report", "ending"} :
             phase[j] \in {"check", "recheck"} /\ phase' = [phase EXCEPT ![j] = p]
      BY <2>12 DEF CheckTokens, Goto, Returns
    <3>2. UNCHANGED <<told, history, unsaved, outcome>>
      BY <2>12 DEF CheckTokens, Returns, ends, stored, feed
    <3> QED
      BY <2>0, <3>1, <3>2 DEF Unfinished, Running
  <2>13. ASSUME NEW j \in Jobs, DoItem(j) PROVE RecordInv'
    <3>1. PICK p \in {"recheck", "report", "ending"} :
             phase[j] \in {"work"} /\ phase' = [phase EXCEPT ![j] = p]
      BY <2>13 DEF DoItem, Goto, Returns
    <3>2. UNCHANGED <<told, history, unsaved, outcome>>
      BY <2>13 DEF DoItem, Returns, ends, stored, feed
    <3> QED
      BY <2>0, <3>1, <3>2 DEF Unfinished, Running
  <2>14. ASSUME NEW j \in Jobs, ItemFails(j) PROVE RecordInv'
    <3>1. PICK p \in {"ending"} : phase[j] \in {"work"} /\ phase' = [phase EXCEPT ![j] = p]
      BY <2>14 DEF ItemFails, Goto, Returns
    <3>2. UNCHANGED <<told, history, unsaved, outcome>>
      BY <2>14 DEF ItemFails, Returns, ends, stored, feed
    <3> QED
      BY <2>0, <3>1, <3>2 DEF Unfinished, Running
  <2>15. ASSUME NEW j \in Jobs, ReportTell(j) PROVE RecordInv'
    <3>1. PICK p \in {"check", "ending"} :
             phase[j] \in {"emitting"} /\ phase' = [phase EXCEPT ![j] = p]
      BY <2>15 DEF ReportTell, Goto, Returns, Continue
    <3>2. UNCHANGED <<told, history, unsaved, outcome>>
      BY <2>15 DEF ReportTell, Returns, Continue, ends, stored, feed
    <3> QED
      BY <2>0, <3>1, <3>2 DEF Unfinished, Running
  <2>16. ASSUME NEW j \in Jobs, EndStatus(j) PROVE RecordInv'
    BY <1>2, <2>16 DEF EndStatus, RecordInv, RecordedBeforeTold, RowsOfLiveJobs, ToldInv,
       Unfinished, Running, Closing, Early, Endings, TypeOK, Goto, Verdict, stored, feed, ends
  <2>17. ASSUME NEW j \in Jobs, EndStore(j) PROVE RecordInv'
    <3>1. phase[j] = "ended" /\ phase' = [phase EXCEPT ![j] = "stored"]
      BY <2>17 DEF EndStore, Goto
    <3>2. UNCHANGED <<told, outcome>>
      BY <2>17 DEF EndStore, ends, feed
    <3>3. told[j] \in {"running", "paused"} /\ outcome[j] # "running"
      BY <1>2, <3>1 DEF ToldInv, Running, Closing, TypeOK, Endings
    <3>4. CASE /\ history' = IF history[j] = "none" THEN history ELSE [history EXCEPT ![j] = outcome[j]]
               /\ UNCHANGED unsaved
      BY <1>2, <3>1, <3>2, <3>3, <3>4 DEF Endings, RecordInv, RecordedBeforeTold,
         RowsOfLiveJobs, Unfinished, Running, TypeOK
    <3>5. CASE unsaved' = unsaved \cup {j} /\ UNCHANGED history
      BY <1>2, <3>1, <3>2, <3>3, <3>5 DEF RecordInv, RecordedBeforeTold, RowsOfLiveJobs,
         Unfinished, Running, TypeOK
    <3> QED
      BY <2>17, <3>4, <3>5 DEF EndStore, Save
  <2>18. ASSUME NEW j \in Jobs, EndCleanup(j) PROVE RecordInv'
    <3>1. phase[j] = "told" /\ phase' = [phase EXCEPT ![j] = "done"]
      BY <2>18 DEF EndCleanup, Goto
    <3>2. UNCHANGED <<told, outcome, unsaved>>
      BY <2>18 DEF EndCleanup, ends, stored, feed
    <3>3. \A k \in Unkept : history[k] # "running"
      BY Zenon DEF Unkept
    <3>4. \/ UNCHANGED history
          \/ history' = [k \in Jobs |-> IF k \in Unkept THEN "none" ELSE history[k]]
      BY <2>18 DEF EndCleanup
    <3>5. \A k \in Jobs :
             history'[k] = history[k] \/ (history'[k] = "none" /\ history[k] # "running")
      BY <3>3, <3>4
    <3> QED
      BY <1>2, <3>1, <3>2, <3>5 DEF RecordInv, RecordedBeforeTold, RowsOfLiveJobs, Unfinished,
         Running, TypeOK
  <2>19. ASSUME NEW j \in Jobs, ReportBegin(j) PROVE RecordInv'
    <3>1. PICK p \in {"check", "ending", "emitting"} :
             phase[j] \in {"report"} /\ phase' = [phase EXCEPT ![j] = p]
      BY <2>19 DEF ReportBegin, Goto, Returns, Continue
    <3>2. UNCHANGED <<told, history, unsaved, outcome>>
      BY <2>19 DEF ReportBegin, Returns, Continue, ends, stored, feed
    <3> QED
      BY <2>0, <3>1, <3>2 DEF Unfinished, Running
  <2>20. ASSUME NEW j \in Jobs, EndTell(j) PROVE RecordInv'
    BY <1>2, <2>20 DEF EndTell, RecordInv, RecordedBeforeTold, RowsOfLiveJobs, ToldInv,
       Unfinished, Running, Closing, Early, Endings, TypeOK, Goto, stored, feed, ends,
       Feed!FeedTypeOK, Feed!Endings
  <2>21. ASSUME NEW j \in Jobs, GateTell(j) PROVE RecordInv'
    <3>1. UNCHANGED <<phase, outcome, history, unsaved>>
      BY <2>21 DEF GateTell, ends, stored
    <3>2. \A k \in Jobs : told'[k] \in Endings => told'[k] = told[k]
      BY <1>2, <2>21 DEF GateTell, TypeOK, Feed!FeedTypeOK, Endings
    <3> QED
      BY <1>2, <3>1, <3>2 DEF RecordInv, RecordedBeforeTold, RowsOfLiveJobs, Unfinished,
         Running, TypeOK
  <2>22. ASSUME NEW j \in Jobs, Panic(j) PROVE RecordInv'
    BY <1>2, <2>22 DEF Panic, RecordInv, RecordedBeforeTold, RowsOfLiveJobs, ToldInv,
       Unfinished, Running, Closing, Early, Endings, TypeOK, Goto, stored, feed, ends
  <2>23. ASSUME ClearHistory PROVE RecordInv'
    BY <1>2, <2>23 DEF ClearHistory, RecordInv, RecordedBeforeTold, RowsOfLiveJobs, ToldInv,
       Unfinished, Running, Closing, Early, Endings, TypeOK, Goto, stored, feed, ends
  <2>24. ASSUME Restart PROVE RecordInv'
    BY <1>2, <2>24 DEF Restart, RecordInv, RecordedBeforeTold, RowsOfLiveJobs, ToldInv,
       Unfinished, Running, Closing, Early, Endings, TypeOK, Goto, stored, feed, ends, Over,
       Feed!FeedTypeOK, Feed!Endings
  <2>25. ASSUME NEW j \in Controlled,
             Cancel(j) \/ PauseBegin(j) \/ ResumeBegin(j) \/ Watchdog(j)
      PROVE  RecordInv'
    BY <1>2, <2>25 DEF Cancel, PauseBegin, ResumeBegin, Watchdog, RecordInv, RecordedBeforeTold,
       RowsOfLiveJobs, ToldInv, Unfinished, Running, Closing, Early, Endings, stored, feed, ends
  <2>26. CASE UNCHANGED vars
    BY <1>2, <2>26 DEF vars, RecordInv, RecordedBeforeTold, RowsOfLiveJobs, ToldInv, Unfinished,
       Running, Closing, Early, Endings, stored, feed, ends
  <2> QED
    BY <1>2, <2>1, <2>2, <2>3, <2>4, <2>5, <2>6, <2>7, <2>8, <2>9, <2>10, <2>11, <2>12, <2>13,
       <2>14, <2>15, <2>16, <2>17, <2>18, <2>19, <2>20, <2>21, <2>22, <2>23, <2>24, <2>25,
       <2>26 DEF Next, Advance
<1> QED
  BY <1>1, <1>2, TypeCorrect, ToldSound, PTL DEF Spec

\* Without panics every worker stays, and every task is queued.
THEOREM WorkersStay ==
  ASSUME MaxPanics = 0
  PROVE  Spec => []NoPanicInv
<1>1. Init => NoPanicInv
  BY RuntimeConstants DEF Init, Feed!FeedInit, NoPanicInv
<1>2. ASSUME TypeOK, NoPanicInv, [Next]_vars
      PROVE  NoPanicInv'
  <2> USE DEF TypeOK, NoPanicInv, Goto, pool, ends
  <2>1. ASSUME NEW j \in Jobs, Plan(j) PROVE NoPanicInv'
    BY <1>2, <2>1 DEF Plan
  <2>2. ASSUME NEW j \in Jobs, Expire(j) PROVE NoPanicInv'
    BY <1>2, <2>2 DEF Expire
  <2>3. ASSUME NEW j \in Jobs, TakePlan(j) PROVE NoPanicInv'
    BY <1>2, <2>3 DEF TakePlan
  <2>4. ASSUME NEW j \in Jobs, WriteText(j) PROVE NoPanicInv'
    BY <1>2, <2>4 DEF WriteText
  <2>5. ASSUME NEW j \in Jobs, Admit(j) PROVE NoPanicInv'
    BY <1>2, <2>5 DEF Admit
  <2>6. ASSUME NEW j \in Jobs, Register(j) PROVE NoPanicInv'
    BY <1>2, <2>6 DEF Register
  <2>7. ASSUME NEW j \in Jobs, RecordStart(j) PROVE NoPanicInv'
    BY <1>2, <2>7 DEF RecordStart, Save
  <2>8. ASSUME NEW j \in Jobs, Announce(j) PROVE NoPanicInv'
    BY <1>2, <2>8 DEF Announce, Feed!FeedTypeOK, Feed!Endings
  <2>9. ASSUME NEW j \in Jobs, Dispatch(j) PROVE NoPanicInv'
    BY <1>2, <2>9 DEF Dispatch
  <2>10. ASSUME NEW j \in Jobs, DispatchFails(j) PROVE NoPanicInv'
    BY <1>2, <2>10, RuntimeConstants DEF DispatchFails
  <2>11. ASSUME NEW j \in Jobs, Dequeue(j) PROVE NoPanicInv'
    <3>1. \E p \in {"report", "check", "work"} : Goto(j, "queued", p)
      BY <2>11 DEF Dequeue
    <3>2. UNCHANGED <<workers, result>>
      BY <2>11 DEF Dequeue, pool, ends
    <3> QED
      BY <1>2, <3>1, <3>2 DEF Goto, TypeOK, NoPanicInv
  <2>12. ASSUME NEW j \in Jobs, CheckTokens(j) PROVE NoPanicInv'
    BY <1>2, <2>12 DEF CheckTokens, Returns
  <2>13. ASSUME NEW j \in Jobs, DoItem(j) PROVE NoPanicInv'
    BY <1>2, <2>13 DEF DoItem, Returns
  <2>14. ASSUME NEW j \in Jobs, ItemFails(j) PROVE NoPanicInv'
    BY <1>2, <2>14 DEF ItemFails, Returns
  <2>15. ASSUME NEW j \in Jobs, ReportTell(j) PROVE NoPanicInv'
    BY <1>2, <2>15 DEF ReportTell, Returns, Continue, Feed!FeedTypeOK, Feed!Endings
  <2>16. ASSUME NEW j \in Jobs, EndStatus(j) PROVE NoPanicInv'
    BY <1>2, <2>16 DEF EndStatus, Verdict
  <2>17. ASSUME NEW j \in Jobs, EndStore(j) PROVE NoPanicInv'
    BY <1>2, <2>17 DEF EndStore, Save
  <2>18. ASSUME NEW j \in Jobs, EndCleanup(j) PROVE NoPanicInv'
    BY <1>2, <2>18 DEF EndCleanup
  <2>19. ASSUME NEW j \in Jobs, ReportBegin(j) PROVE NoPanicInv'
    BY <1>2, <2>19 DEF ReportBegin, Returns, Continue
  <2>20. ASSUME NEW j \in Jobs, EndTell(j) PROVE NoPanicInv'
    BY <1>2, <2>20 DEF EndTell, Feed!FeedTypeOK, Feed!Endings
  <2>21. ASSUME NEW j \in Jobs, Panic(j) PROVE NoPanicInv'
    BY <1>2, <2>21, RuntimeConstants DEF Panic
  <2>22. ASSUME Restart PROVE NoPanicInv'
    BY <1>2, <2>22, RuntimeConstants DEF Restart, Over, Feed!FeedTypeOK, Feed!Endings
  <2>23. ASSUME NEW j \in Jobs,
             GateTell(j)
      PROVE  NoPanicInv'
    BY <1>2, <2>23 DEF GateTell
  <2>24. ASSUME NEW j \in Controlled,
             Cancel(j) \/ PauseBegin(j) \/ ResumeBegin(j) \/ Watchdog(j)
      PROVE  NoPanicInv'
    BY <1>2, <2>24 DEF Cancel, PauseBegin, ResumeBegin, Watchdog
  <2>25. ASSUME ClearHistory PROVE NoPanicInv'
    BY <1>2, <2>25 DEF ClearHistory
  <2>26. CASE UNCHANGED vars
    BY <1>2, <2>26 DEF vars
  <2> QED
    BY <1>2, <2>1, <2>2, <2>3, <2>4, <2>5, <2>6, <2>7, <2>8, <2>9, <2>10, <2>11, <2>12, <2>13,
       <2>14, <2>15, <2>16, <2>17, <2>18, <2>19, <2>20, <2>21, <2>22, <2>23, <2>24, <2>25,
       <2>26 DEF Next, Advance
<1> QED
  BY <1>1, <1>2, TypeCorrect, PTL DEF Spec

\* The event gate orders what is told of a job: a change of status is told before the
\* next one is made, so the webview is never told of a pause after the end.
THEOREM GateSound ==
  ASSUME MaxPanics = 0
  PROVE  Spec => []GateInv
<1>1. Init => GateInv
  BY DEF Init, Feed!FeedInit, GateInv, TableInv, ToldInv, NoPanicInv, Running, Closing, Early,
     Endings
<1>2. ASSUME TypeOK, TableInv, TableInv', ToldInv, NoPanicInv, GateInv, [Next]_vars
      PROVE  GateInv'
  <2> USE DEF TypeOK, GateInv, TableInv, ToldInv, NoPanicInv, Running, Closing, Early, Endings,
  Goto
  <2>1. ASSUME NEW j \in Jobs, Plan(j) PROVE GateInv'
    BY <1>2, <2>1 DEF Plan, feed, ends
  <2>2. ASSUME NEW j \in Jobs, Expire(j) PROVE GateInv'
    BY <1>2, <2>2 DEF Expire, feed, ends
  <2>3. ASSUME NEW j \in Jobs, TakePlan(j) PROVE GateInv'
    BY <1>2, <2>3 DEF TakePlan, feed, ends
  <2>4. ASSUME NEW j \in Jobs, WriteText(j) PROVE GateInv'
    BY <1>2, <2>4 DEF WriteText, feed, ends
  <2>5. ASSUME NEW j \in Jobs, Admit(j) PROVE GateInv'
    BY <1>2, <2>5 DEF Admit, feed, ends
  <2>6. ASSUME NEW j \in Jobs, Register(j) PROVE GateInv'
    BY <1>2, <2>6 DEF Register, feed, ends
  <2>7. ASSUME NEW j \in Jobs, RecordStart(j) PROVE GateInv'
    BY <1>2, <2>7 DEF RecordStart, Save, feed, ends
  <2>8. ASSUME NEW j \in Jobs, Announce(j) PROVE GateInv'
    <3>1. phase[j] = "recorded" /\ phase' = [phase EXCEPT ![j] = "announced"]
      BY <2>8 DEF Announce, Goto
    <3>2. UNCHANGED <<gate, status, table, outcome, work, shown>>
      BY <2>8 DEF Announce, ends
    <3>3. told' = [told EXCEPT ![j] = "running"]
      BY <2>8 DEF Announce
    <3>4. told[j] = "none" /\ gate[j] = "free"
      BY <1>2, <3>1 DEF ToldInv, Early, GateInv, TypeOK
    <3>5. status[j] = "running"
      BY <1>2, <3>1 DEF GateInv, Early
    <3> QED
      BY <1>2, <3>1, <3>2, <3>3, <3>4, <3>5 DEF Early, Feed!FeedTypeOK, GateInv, Running,
         Closing, TypeOK
  <2>9. ASSUME NEW j \in Jobs, Dispatch(j) PROVE GateInv'
    BY <1>2, <2>9 DEF Dispatch, feed, ends
  <2>10. ASSUME NEW j \in Jobs, DispatchFails(j) PROVE GateInv'
    BY <1>2, <2>10 DEF DispatchFails, feed, ends
  <2>11. ASSUME NEW j \in Jobs, Dequeue(j) PROVE GateInv'
    <3>1. \E p \in {"report", "check", "work"} : Goto(j, "queued", p)
      BY <2>11 DEF Dequeue
    <3>2. UNCHANGED <<gate, status, told, outcome, table, shown, work>>
      BY <2>11 DEF Dequeue, feed, ends
    <3> QED
      BY <1>2, <3>1, <3>2 DEF Goto, TypeOK, GateInv, TableInv, ToldInv, NoPanicInv, Running,
         Closing, Early, Endings
  <2>12. ASSUME NEW j \in Jobs, CheckTokens(j) PROVE GateInv'
    BY <1>2, <2>12 DEF CheckTokens, Returns, feed, ends
  <2>13. ASSUME NEW j \in Jobs, DoItem(j) PROVE GateInv'
    <3>1. PICK p \in {"recheck", "report", "ending"} :
             phase[j] = "work" /\ phase' = [phase EXCEPT ![j] = p]
      BY <2>13 DEF DoItem, Goto, Returns
    <3>2. UNCHANGED <<gate, status, table, outcome, told, shown>>
      BY <2>13 DEF DoItem, Returns, ends, feed
    <3>3. \A k \in Jobs : work'[k] \in Nat /\ work'[k] >= work[k]
      BY <1>2, <2>13 DEF DoItem, TypeOK
    <3> QED
      BY <1>2, <3>1, <3>2, <3>3 DEF Early, Feed!FeedTypeOK, GateInv, Running, Closing, TypeOK
  <2>14. ASSUME NEW j \in Jobs, ItemFails(j) PROVE GateInv'
    BY <1>2, <2>14 DEF ItemFails, Returns, feed, ends
  <2>15. ASSUME NEW j \in Jobs, ReportTell(j) PROVE GateInv'
    BY <1>2, <2>15 DEF ReportTell, Returns, Continue, feed, ends, Feed!FeedTypeOK, Feed!Endings
  <2>16. ASSUME NEW j \in Jobs, EndStatus(j) PROVE GateInv'
    BY <1>2, <2>16 DEF EndStatus, Verdict, feed, ends
  <2>17. ASSUME NEW j \in Jobs, EndStore(j) PROVE GateInv'
    BY <1>2, <2>17 DEF EndStore, Save, feed, ends
  <2>18. ASSUME NEW j \in Jobs, EndCleanup(j) PROVE GateInv'
    BY <1>2, <2>18 DEF EndCleanup, feed, ends
  <2>19. ASSUME NEW j \in Jobs, ReportBegin(j) PROVE GateInv'
    BY <1>2, <2>19 DEF ReportBegin, Returns, Continue, feed, ends, AcceptsProgress
  <2>20. ASSUME NEW j \in Jobs, EndTell(j) PROVE GateInv'
    BY <1>2, <2>20 DEF EndTell, feed, ends, Feed!FeedTypeOK, Feed!Endings
  <2>21. ASSUME NEW j \in Jobs, GateTell(j) PROVE GateInv'
    BY <1>2, <2>21 DEF GateTell, feed, ends, Feed!FeedTypeOK, Feed!Endings
  <2>22. ASSUME NEW j \in Jobs, Panic(j) PROVE GateInv'
    BY <1>2, <2>22, RuntimeConstants DEF Panic, feed, ends
  <2>23. ASSUME NEW j \in Controlled, PauseBegin(j) PROVE GateInv'
    BY <1>2, <2>23, RuntimeConstants DEF PauseBegin, feed, ends, SinkAlive, Live, InTask, Starting
  <2>24. ASSUME NEW j \in Controlled, ResumeBegin(j) PROVE GateInv'
    BY <1>2, <2>24, RuntimeConstants DEF ResumeBegin, feed, ends, SinkAlive, Live, InTask,
       Starting
  <2>25. ASSUME Restart PROVE GateInv'
    BY <1>2, <2>25 DEF Restart, feed, ends, Over, Feed!FeedTypeOK, Feed!Endings
  <2>26. ASSUME NEW j \in Controlled,
             Cancel(j) \/ Watchdog(j)
      PROVE  GateInv'
    BY <1>2, <2>26 DEF Cancel, Watchdog, feed, ends
  <2>27. ASSUME ClearHistory PROVE GateInv'
    BY <1>2, <2>27 DEF ClearHistory, feed, ends
  <2>28. CASE UNCHANGED vars
    BY <1>2, <2>28 DEF vars, feed, ends
  <2> QED
    BY <1>2, <2>1, <2>2, <2>3, <2>4, <2>5, <2>6, <2>7, <2>8, <2>9, <2>10, <2>11, <2>12, <2>13,
       <2>14, <2>15, <2>16, <2>17, <2>18, <2>19, <2>20, <2>21, <2>22, <2>23, <2>24, <2>25,
       <2>26, <2>27, <2>28 DEF Next, Advance
<1> QED
  BY <1>1, <1>2, TypeCorrect, TableSound, ToldSound, WorkersStay, PTL DEF Spec


-----------------------------------------------------------------------------
(* The properties.                                                         *)

\* A job is either cancelled by the user or timed out, never both.
THEOREM BlameIsExclusive == Spec => []BlameExclusive
<1>1. TokenInv => BlameExclusive
  BY DEF TokenInv
<1> QED
  BY <1>1, TokensSound, PTL

\* Once a job is cancelled, by the user or by the watchdog, its count does not move.
THEOREM CancelStopsProgress == Spec => NoProgressAfterCancel
<1>1. ASSUME TypeOK, TokenInv, [Next]_vars
      PROVE  [\A j \in Jobs : cancel[j] => items'[j] = items[j]]_vars
  <2>1. ASSUME NEW j \in Jobs, ReportBegin(j), NEW k \in Jobs, cancel[k]
        PROVE  items'[k] = items[k]
    <3>1. k = j => ~AcceptsProgress(j)
      BY <1>1, <2>1 DEF TokenInv, AcceptsProgress
    <3>2. CASE AcceptsProgress(j)
      BY <1>1, <2>1, <3>1, <3>2 DEF ReportBegin, TypeOK
    <3>3. CASE ~AcceptsProgress(j)
      BY <2>1, <3>3 DEF ReportBegin
    <3> QED
      BY <3>2, <3>3
  <2>2. ASSUME NEW j \in Jobs,
               Plan(j) \/ Expire(j) \/ TakePlan(j) \/ WriteText(j) \/ Admit(j)
               \/ Register(j) \/ RecordStart(j) \/ Announce(j) \/ Dispatch(j)
               \/ DispatchFails(j) \/ Dequeue(j) \/ CheckTokens(j) \/ DoItem(j)
               \/ ItemFails(j) \/ ReportTell(j) \/ EndStatus(j) \/ EndStore(j)
               \/ EndCleanup(j) \/ EndTell(j) \/ GateTell(j) \/ Panic(j)
        PROVE  UNCHANGED items
    BY <2>2 DEF Plan, Expire, TakePlan, WriteText, Admit, Register, RecordStart, Announce,
       Dispatch, DispatchFails, Dequeue, CheckTokens, DoItem, ItemFails, ReportTell, EndStatus,
       EndStore, EndCleanup, EndTell, GateTell, Panic
  <2>3. ASSUME NEW j \in Controlled,
               Cancel(j) \/ PauseBegin(j) \/ ResumeBegin(j) \/ Watchdog(j)
        PROVE  UNCHANGED items
    BY <2>3 DEF Cancel, PauseBegin, ResumeBegin, Watchdog
  <2>4. ASSUME ClearHistory \/ Restart PROVE UNCHANGED items
    BY <2>4 DEF ClearHistory, Restart
  <2>5. CASE UNCHANGED vars
    BY <2>5 DEF vars
  <2> QED
    BY <1>1, <2>1, <2>2, <2>3, <2>4, <2>5 DEF Next, Advance
<1> QED
  BY <1>1, TypeCorrect, TokensSound, PTL DEF Spec, NoProgressAfterCancel

\* The webview never hears of an end before the history has it.
THEOREM EndsAreRecorded == Spec => []RecordedBeforeTold
<1>1. RecordInv => RecordedBeforeTold
  BY DEF RecordInv
<1> QED
  BY <1>1, RecordSound, PTL

\* The history says running of the jobs that run, and of no other.
THEOREM LiveJobsAreRecorded == Spec => []RowsOfLiveJobs
<1>1. RecordInv => RowsOfLiveJobs
  BY DEF RecordInv
<1> QED
  BY <1>1, RecordSound, PTL

\* Cancel, pause and resume find every job that runs.
THEOREM LiveJobsAreFound == Spec => []LiveJobsInTable
<1>1. TableInv => LiveJobsInTable
  BY DEF TableInv, LiveJobsInTable, Live, Starting, InTask, Running
<1> QED
  BY <1>1, TableSound, PTL

\* While no executor panics, job_status answers what the webview was told.
THEOREM StatusIsTold ==
  ASSUME MaxPanics = 0
  PROVE  Spec => []StatusAgrees
<1>1. TypeOK /\ TableInv /\ ToldInv /\ GateInv => StatusAgrees
  <2> SUFFICES ASSUME TypeOK, TableInv, ToldInv, GateInv,
                      NEW j \in table, told[j] # "none",
                      phase[j] \notin {"ended", "stored", "panicked"},
                      gate[j] \in {"free", "progress"}
               PROVE  told[j] = status[j]
    BY DEF StatusAgrees
  <2>1. j \in Jobs
    BY DEF TypeOK
  <2>2. phase[j] \in Running \cup {"told", "done"}
    BY <2>1 DEF TableInv, ToldInv, Running, Closing, Early
  <2>3. CASE phase[j] \in Running
    BY <2>1, <2>3 DEF GateInv
  <2>4. CASE phase[j] \in {"told", "done"}
    BY <2>1, <2>4 DEF GateInv, TableInv
  <2> QED
    BY <2>2, <2>3, <2>4
<1> QED
  BY <1>1, TypeCorrect, TableSound, ToldSound, GateSound, PTL

\* While no executor panics, the events of every job follow JobFeed.
THEOREM FeedImplemented ==
  ASSUME MaxPanics = 0
  PROVE  Spec => ImplementsFeed
<1>1. Init => Feed!FeedInit
  BY DEF Init
<1>2. ASSUME TypeOK, TypeOK', TableInv, ToldInv, GateInv, NoPanicInv, [Next]_vars
      PROVE  [Feed!FeedNext]_<<told, shown>>
  <2>1. ASSUME NEW j \in Jobs, Announce(j) PROVE Feed!Started(j)
    BY <1>2, <2>1 DEF Announce, Goto, ToldInv, Early, Feed!Started, Feed!Move
  <2>2. ASSUME NEW j \in Jobs, ReportTell(j) PROVE Feed!Progress(j)
    <3>1. phase[j] = "emitting"
      BY <2>2 DEF ReportTell, Continue, Returns, Goto
    <3>2. gate[j] = "progress" /\ status[j] = "running"
      BY <1>2, <3>1 DEF GateInv
    <3>3. told[j] = "running"
      BY <1>2, <3>1, <3>2 DEF GateInv, Running
    <3>4. /\ shown' = [shown EXCEPT ![j] = work[j]]
          /\ UNCHANGED told
      BY <2>2 DEF ReportTell
    <3>5. work[j] \in Nat /\ work[j] >= shown[j]
      BY <1>2 DEF GateInv, TypeOK
    <3> QED
      BY <1>2, <3>3, <3>4, <3>5 DEF Feed!Progress, TypeOK, Feed!FeedTypeOK
  <2>3. ASSUME NEW j \in Jobs, EndTell(j) PROVE Feed!Ended(j)
    <3>1. phase[j] = "stored" /\ told' = [told EXCEPT ![j] = outcome[j]] /\ UNCHANGED shown
      BY <2>3 DEF EndTell, Goto
    <3>2. told[j] \in {"running", "paused"}
      BY <1>2, <3>1 DEF ToldInv, Closing
    <3>3. outcome[j] \in Endings
      BY <1>2, <3>1 DEF TableInv, Closing
    <3> QED
      BY <3>1, <3>2, <3>3 DEF Feed!Ended, Feed!Move, Feed!Endings, Endings
  <2>4. ASSUME NEW j \in Jobs, GateTell(j) PROVE Feed!Paused(j) \/ Feed!Resumed(j)
    BY <1>2, <2>4 DEF GateTell, GateInv, Feed!Paused, Feed!Resumed, Feed!Move
  <2>5. ASSUME Restart PROVE Feed!Lost
    <3>1. told' = [j \in Jobs |-> IF told[j] = "none" THEN "none" ELSE "gone"] /\ UNCHANGED shown
      BY <2>5 DEF Restart
    <3> DEFINE S == {j \in Jobs : told[j] # "none"}
    <3>2. S \in SUBSET Jobs
      OBVIOUS
    <3>3. \A j \in Jobs \ S : told[j] = "none"
      OBVIOUS
    <3>4. told' = [j \in Jobs |-> IF j \in S THEN "gone" ELSE "none"]
      BY <3>1
    <3> HIDE DEF S
    <3> QED
      BY <3>1, <3>2, <3>3, <3>4 DEF Feed!Lost
  <2>6. ASSUME NEW j \in Jobs,
               Plan(j) \/ Expire(j) \/ TakePlan(j) \/ WriteText(j) \/ Admit(j)
               \/ Register(j) \/ RecordStart(j) \/ Dispatch(j) \/ DispatchFails(j)
               \/ Dequeue(j) \/ CheckTokens(j) \/ DoItem(j) \/ ItemFails(j)
               \/ EndStatus(j) \/ EndStore(j) \/ EndCleanup(j) \/ ReportBegin(j) \/ Panic(j)
        PROVE  UNCHANGED <<told, shown>>
    BY <2>6 DEF Plan, Expire, TakePlan, WriteText, Admit, Register, RecordStart, Dispatch,
       DispatchFails, Dequeue, CheckTokens, DoItem, ItemFails, EndStatus, EndStore, EndCleanup,
       ReportBegin, Panic, feed
  <2>7. ASSUME NEW j \in Controlled,
               Cancel(j) \/ PauseBegin(j) \/ ResumeBegin(j) \/ Watchdog(j)
        PROVE  UNCHANGED <<told, shown>>
    BY <2>7 DEF Cancel, PauseBegin, ResumeBegin, Watchdog, feed
  <2>8. ASSUME ClearHistory PROVE UNCHANGED <<told, shown>>
    BY <2>8 DEF ClearHistory, feed
  <2>9. CASE UNCHANGED vars
    BY <2>9 DEF vars, feed
  <2> QED
    BY <1>2, <2>1, <2>2, <2>3, <2>4, <2>5, <2>6, <2>7, <2>8, <2>9
    DEF Next, Advance, Feed!FeedNext
<1> QED
  BY <1>1, <1>2, TypeCorrect, TableSound, ToldSound, GateSound, WorkersStay, PTL
  DEF Spec, ImplementsFeed, Feed!FeedSpec

-----------------------------------------------------------------------------
(* What counts: the limit of admission is kept exactly, and with it the        *)
(* dispatch channel never fills up, with any number of panics.                 *)


\* A task has a result only once it ran, or could not be queued.
THEOREM ResultsSound == Spec => []ResultInv
<1>1. Init => ResultInv
  BY DEF Init, Feed!FeedInit, ResultInv, Closing
<1>2. ASSUME TypeOK, ResultInv, [Next]_vars
      PROVE  ResultInv'
  <2> USE DEF TypeOK, ResultInv, Closing, Goto, ends
  <2>1. ASSUME NEW j \in Jobs, Plan(j) PROVE ResultInv'
    BY <1>2, <2>1 DEF Plan
  <2>2. ASSUME NEW j \in Jobs, Expire(j) PROVE ResultInv'
    BY <1>2, <2>2 DEF Expire
  <2>3. ASSUME NEW j \in Jobs, TakePlan(j) PROVE ResultInv'
    BY <1>2, <2>3 DEF TakePlan
  <2>4. ASSUME NEW j \in Jobs, WriteText(j) PROVE ResultInv'
    BY <1>2, <2>4 DEF WriteText
  <2>5. ASSUME NEW j \in Jobs, Admit(j) PROVE ResultInv'
    BY <1>2, <2>5 DEF Admit
  <2>6. ASSUME NEW j \in Jobs, Register(j) PROVE ResultInv'
    BY <1>2, <2>6 DEF Register
  <2>7. ASSUME NEW j \in Jobs, RecordStart(j) PROVE ResultInv'
    BY <1>2, <2>7 DEF RecordStart, Save
  <2>8. ASSUME NEW j \in Jobs, Announce(j) PROVE ResultInv'
    BY <1>2, <2>8 DEF Announce, Feed!FeedTypeOK, Feed!Endings
  <2>9. ASSUME NEW j \in Jobs, Dispatch(j) PROVE ResultInv'
    BY <1>2, <2>9 DEF Dispatch
  <2>10. ASSUME NEW j \in Jobs, DispatchFails(j) PROVE ResultInv'
    BY <1>2, <2>10 DEF DispatchFails
  <2>11. ASSUME NEW j \in Jobs, Dequeue(j) PROVE ResultInv'
    <3>1. \E p \in {"report", "check", "work"} : Goto(j, "queued", p)
      BY <2>11 DEF Dequeue
    <3>2. UNCHANGED <<result>>
      BY <2>11 DEF Dequeue, ends
    <3> QED
      BY <1>2, <3>1, <3>2 DEF Goto, TypeOK, ResultInv, Closing
  <2>12. ASSUME NEW j \in Jobs, CheckTokens(j) PROVE ResultInv'
    BY <1>2, <2>12 DEF CheckTokens, Returns
  <2>13. ASSUME NEW j \in Jobs, DoItem(j) PROVE ResultInv'
    BY <1>2, <2>13 DEF DoItem, Returns
  <2>14. ASSUME NEW j \in Jobs, ItemFails(j) PROVE ResultInv'
    BY <1>2, <2>14 DEF ItemFails, Returns
  <2>15. ASSUME NEW j \in Jobs, ReportTell(j) PROVE ResultInv'
    BY <1>2, <2>15 DEF ReportTell, Returns, Continue, Feed!FeedTypeOK, Feed!Endings
  <2>16. ASSUME NEW j \in Jobs, EndStatus(j) PROVE ResultInv'
    BY <1>2, <2>16 DEF EndStatus, Verdict
  <2>17. ASSUME NEW j \in Jobs, EndStore(j) PROVE ResultInv'
    BY <1>2, <2>17 DEF EndStore, Save
  <2>18. ASSUME NEW j \in Jobs, EndCleanup(j) PROVE ResultInv'
    BY <1>2, <2>18 DEF EndCleanup
  <2>19. ASSUME NEW j \in Jobs, ReportBegin(j) PROVE ResultInv'
    BY <1>2, <2>19 DEF ReportBegin, Returns, Continue
  <2>20. ASSUME NEW j \in Jobs, EndTell(j) PROVE ResultInv'
    BY <1>2, <2>20 DEF EndTell, Feed!FeedTypeOK, Feed!Endings
  <2>21. ASSUME NEW j \in Jobs, Panic(j) PROVE ResultInv'
    BY <1>2, <2>21 DEF Panic
  <2>22. ASSUME Restart PROVE ResultInv'
    BY <1>2, <2>22 DEF Restart, Over, Feed!FeedTypeOK, Feed!Endings
  <2>23. ASSUME NEW j \in Jobs,
             GateTell(j)
      PROVE  ResultInv'
    BY <1>2, <2>23 DEF GateTell
  <2>24. ASSUME NEW j \in Controlled,
             Cancel(j) \/ PauseBegin(j) \/ ResumeBegin(j) \/ Watchdog(j)
      PROVE  ResultInv'
    BY <1>2, <2>24 DEF Cancel, PauseBegin, ResumeBegin, Watchdog
  <2>25. ASSUME ClearHistory PROVE ResultInv'
    BY <1>2, <2>25 DEF ClearHistory
  <2>26. CASE UNCHANGED vars
    BY <1>2, <2>26 DEF vars
  <2> QED
    BY <1>2, <2>1, <2>2, <2>3, <2>4, <2>5, <2>6, <2>7, <2>8, <2>9, <2>10, <2>11, <2>12, <2>13,
       <2>14, <2>15, <2>16, <2>17, <2>18, <2>19, <2>20, <2>21, <2>22, <2>23, <2>24, <2>25,
       <2>26 DEF Next, Advance
<1> QED
  BY <1>1, <1>2, TypeCorrect, PTL DEF Spec

\* Every task in the channel is that of another job.
THEOREM QueueSound == Spec => []QueueInv
<1>1. Init => QueueInv
  BY DEF Init, Feed!FeedInit, QueueInv
<1>2. ASSUME TypeOK, QueueInv, [Next]_vars
      PROVE  QueueInv'
  <2>a. phase \in [Jobs -> Phases] /\ \A i \in 1 .. Len(queue) : queue[i] \in Jobs
    BY <1>2 DEF TypeOK
  <2>0. ASSUME NEW j \in Jobs, NEW p, phase[j] # "queued",
               phase' = [phase EXCEPT ![j] = p], UNCHANGED queue
        PROVE  QueueInv'
    BY <1>2, <2>a, <2>0 DEF QueueInv
  <2>1. ASSUME NEW j \in Jobs, Plan(j) PROVE QueueInv'
    <3>1. \A k \in Jobs : phase[k] = "queued" => phase'[k] = "queued"
      BY <1>2, <2>1 DEF Plan, TypeOK
    <3>2. UNCHANGED queue
      BY <2>1 DEF Plan, pool
    <3> QED
      BY <1>2, <2>a, <3>1, <3>2 DEF QueueInv
  <2>2. ASSUME NEW j \in Jobs, Expire(j) PROVE QueueInv'
    <3>1. phase[j] = "planned" /\ phase' = [phase EXCEPT ![j] = "stale"]
      BY <2>2 DEF Expire, Goto
    <3>2. UNCHANGED queue
      BY <2>2 DEF Expire, pool
    <3> QED
      BY <2>0, <3>1, <3>2
  <2>3. ASSUME NEW j \in Jobs, TakePlan(j) PROVE QueueInv'
    <3>1. PICK p \in {"taken", "rejected"} :
             phase[j] \in {"planned", "stale"} /\ phase' = [phase EXCEPT ![j] = p]
      BY <2>3 DEF TakePlan, Goto
    <3>2. UNCHANGED queue
      BY <2>3 DEF TakePlan, pool
    <3> QED
      BY <2>0, <3>1, <3>2
  <2>4. ASSUME NEW j \in Jobs, WriteText(j) PROVE QueueInv'
    <3>1. phase[j] = "new" /\ phase' = [phase EXCEPT ![j] = "taken"]
      BY <2>4 DEF WriteText, Goto
    <3>2. UNCHANGED queue
      BY <2>4 DEF WriteText, pool
    <3> QED
      BY <2>0, <3>1, <3>2
  <2>5. ASSUME NEW j \in Jobs, Admit(j) PROVE QueueInv'
    <3>1. PICK p \in {"admitted", "rejected"} :
             phase[j] \in {"taken"} /\ phase' = [phase EXCEPT ![j] = p]
      BY <2>5 DEF Admit, Goto
    <3>2. UNCHANGED queue
      BY <2>5 DEF Admit
    <3> QED
      BY <2>0, <3>1, <3>2
  <2>6. ASSUME NEW j \in Jobs, Register(j) PROVE QueueInv'
    <3>1. phase[j] = "admitted" /\ phase' = [phase EXCEPT ![j] = "registered"]
      BY <2>6 DEF Register, Goto
    <3>2. UNCHANGED queue
      BY <2>6 DEF Register, pool
    <3> QED
      BY <2>0, <3>1, <3>2
  <2>7. ASSUME NEW j \in Jobs, RecordStart(j) PROVE QueueInv'
    <3>1. phase[j] = "registered" /\ phase' = [phase EXCEPT ![j] = "recorded"]
      BY <2>7 DEF RecordStart, Goto
    <3>2. UNCHANGED queue
      BY <2>7 DEF RecordStart, pool
    <3> QED
      BY <2>0, <3>1, <3>2
  <2>8. ASSUME NEW j \in Jobs, Announce(j) PROVE QueueInv'
    <3>1. phase[j] = "recorded" /\ phase' = [phase EXCEPT ![j] = "announced"]
      BY <2>8 DEF Announce, Goto
    <3>2. UNCHANGED queue
      BY <2>8 DEF Announce, pool
    <3> QED
      BY <2>0, <3>1, <3>2
  <2>9. ASSUME NEW j \in Jobs, Dispatch(j) PROVE QueueInv'
    <3>1. phase[j] = "announced" /\ phase' = [phase EXCEPT ![j] = "queued"]
      BY <2>9 DEF Dispatch, Goto
    <3>2. queue' = Append(queue, j)
      BY <2>9 DEF Dispatch
    <3>3. /\ phase \in [Jobs -> Phases]
          /\ \A i \in 1 .. Len(queue) : queue[i] \in Jobs /\ queue[i] # j
      BY <1>2, <3>1 DEF QueueInv, TypeOK
    <3>4. /\ Len(queue') = Len(queue) + 1 /\ Len(queue) \in Nat
          /\ queue'[Len(queue) + 1] = j
          /\ \A i \in 1 .. Len(queue) : queue'[i] = queue[i]
      BY <1>2, <3>2 DEF TypeOK
    <3>5. \A i \in 1 .. Len(queue') : i \in 1 .. Len(queue) \/ i = Len(queue) + 1
      BY <3>4
    <3>6. \A i \in 1 .. Len(queue') : phase'[queue'[i]] = "queued"
      BY <1>2, <3>1, <3>3, <3>4, <3>5 DEF QueueInv
    <3>7. \A i, k \in 1 .. Len(queue') : queue'[i] = queue'[k] => i = k
      BY <1>2, <3>3, <3>4, <3>5 DEF QueueInv
    <3> QED
      BY <3>6, <3>7 DEF QueueInv
  <2>10. ASSUME NEW j \in Jobs, DispatchFails(j) PROVE QueueInv'
    <3>1. phase[j] = "announced" /\ phase' = [phase EXCEPT ![j] = "ending"]
      BY <2>10 DEF DispatchFails, Goto
    <3>2. UNCHANGED queue
      BY <2>10 DEF DispatchFails
    <3> QED
      BY <2>0, <3>1, <3>2
  <2>11. ASSUME NEW j \in Jobs, Dequeue(j) PROVE QueueInv'
    <3>1. PICK p \in {"report", "check", "work"} :
             phase[j] \in {"queued"} /\ phase' = [phase EXCEPT ![j] = p]
      BY <2>11 DEF Dequeue, Goto
    <3>2. /\ queue \in Seq(Jobs) /\ queue # <<>> /\ queue[1] = j
          /\ queue' = Tail(queue)
      BY <1>2, <2>11 DEF Dequeue, TypeOK
    <3>3. /\ Len(queue') = Len(queue) - 1 /\ Len(queue) \in Nat \ {0}
          /\ \A i \in 1 .. Len(queue') : queue'[i] = queue[i + 1] /\ i + 1 \in 1 .. Len(queue)
      BY <3>2
    <3>4. \A i \in 1 .. Len(queue') :
             queue'[i] \in Jobs /\ queue'[i] # j /\ phase[queue'[i]] = "queued"
      BY <1>2, <3>2, <3>3 DEF QueueInv
    <3>5. \A i \in 1 .. Len(queue') : phase'[queue'[i]] = "queued"
      BY <1>2, <3>1, <3>4 DEF TypeOK
    <3>6. \A i, k \in 1 .. Len(queue') : queue'[i] = queue'[k] => i = k
      BY <1>2, <3>3 DEF QueueInv
    <3> QED
      BY <3>5, <3>6 DEF QueueInv
  <2>12. ASSUME NEW j \in Jobs, CheckTokens(j) PROVE QueueInv'
    <3>1. PICK p \in {"work", "report", "ending"} :
             phase[j] \in {"check", "recheck"} /\ phase' = [phase EXCEPT ![j] = p]
      BY <2>12 DEF CheckTokens, Goto, Returns
    <3>2. UNCHANGED queue
      BY <2>12 DEF CheckTokens, Returns, pool
    <3> QED
      BY <2>0, <3>1, <3>2
  <2>13. ASSUME NEW j \in Jobs, DoItem(j) PROVE QueueInv'
    <3>1. PICK p \in {"recheck", "report", "ending"} :
             phase[j] \in {"work"} /\ phase' = [phase EXCEPT ![j] = p]
      BY <2>13 DEF DoItem, Goto, Returns
    <3>2. UNCHANGED queue
      BY <2>13 DEF DoItem, Returns, pool
    <3> QED
      BY <2>0, <3>1, <3>2
  <2>14. ASSUME NEW j \in Jobs, ItemFails(j) PROVE QueueInv'
    <3>1. phase[j] = "work" /\ phase' = [phase EXCEPT ![j] = "ending"]
      BY <2>14 DEF ItemFails, Goto, Returns
    <3>2. UNCHANGED queue
      BY <2>14 DEF ItemFails, Returns, pool
    <3> QED
      BY <2>0, <3>1, <3>2
  <2>15. ASSUME NEW j \in Jobs, ReportTell(j) PROVE QueueInv'
    <3>1. PICK p \in {"check", "ending"} :
             phase[j] \in {"emitting"} /\ phase' = [phase EXCEPT ![j] = p]
      BY <2>15 DEF ReportTell, Goto, Returns, Continue
    <3>2. UNCHANGED queue
      BY <2>15 DEF ReportTell, Returns, Continue, pool
    <3> QED
      BY <2>0, <3>1, <3>2
  <2>16. ASSUME NEW j \in Jobs, EndStatus(j) PROVE QueueInv'
    <3>1. phase[j] = "ending" /\ phase' = [phase EXCEPT ![j] = "ended"]
      BY <2>16 DEF EndStatus, Goto
    <3>2. UNCHANGED queue
      BY <2>16 DEF EndStatus, pool
    <3> QED
      BY <2>0, <3>1, <3>2
  <2>17. ASSUME NEW j \in Jobs, EndStore(j) PROVE QueueInv'
    <3>1. phase[j] = "ended" /\ phase' = [phase EXCEPT ![j] = "stored"]
      BY <2>17 DEF EndStore, Goto
    <3>2. UNCHANGED queue
      BY <2>17 DEF EndStore, pool
    <3> QED
      BY <2>0, <3>1, <3>2
  <2>18. ASSUME NEW j \in Jobs, EndCleanup(j) PROVE QueueInv'
    <3>1. phase[j] = "told" /\ phase' = [phase EXCEPT ![j] = "done"]
      BY <2>18 DEF EndCleanup, Goto
    <3>2. UNCHANGED queue
      BY <2>18 DEF EndCleanup
    <3> QED
      BY <2>0, <3>1, <3>2
  <2>19. ASSUME NEW j \in Jobs, ReportBegin(j) PROVE QueueInv'
    <3>1. PICK p \in {"check", "ending", "emitting"} :
             phase[j] \in {"report"} /\ phase' = [phase EXCEPT ![j] = p]
      BY <2>19 DEF ReportBegin, Goto, Returns, Continue
    <3>2. UNCHANGED queue
      BY <2>19 DEF ReportBegin, Returns, Continue, pool
    <3> QED
      BY <2>0, <3>1, <3>2
  <2>20. ASSUME NEW j \in Jobs, EndTell(j) PROVE QueueInv'
    <3>1. PICK p \in {"done", "told"} :
             phase[j] \in {"stored"} /\ phase' = [phase EXCEPT ![j] = p]
      BY <2>20 DEF EndTell, Goto
    <3>2. UNCHANGED queue
      BY <2>20 DEF EndTell, pool
    <3> QED
      BY <2>0, <3>1, <3>2
  <2>21. ASSUME NEW j \in Jobs, Panic(j) PROVE QueueInv'
    <3>1. CASE workers = 1
      <4>1. queue' = <<>>
        BY <2>21, <3>1 DEF Panic
      <4> QED
        BY <4>1 DEF QueueInv
    <3>2. CASE workers # 1
      <4>1. UNCHANGED queue
        BY <2>21, <3>2 DEF Panic
      <4>2. \A k \in Jobs : phase[k] = "queued" => phase'[k] = "queued"
        BY <1>2, <2>21, <3>2 DEF Panic, TypeOK
      <4> QED
        BY <1>2, <2>a, <4>1, <4>2 DEF QueueInv
    <3> QED
      BY <3>1, <3>2
  <2>22. ASSUME Restart PROVE QueueInv'
    BY <1>2, <2>22 DEF Restart, QueueInv, TypeOK, Goto, pool, Over, Feed!FeedTypeOK, Feed!Endings
  <2>23. ASSUME NEW j \in Jobs,
             GateTell(j)
      PROVE  QueueInv'
    BY <1>2, <2>23 DEF GateTell, QueueInv, pool
  <2>24. ASSUME NEW j \in Controlled,
             Cancel(j) \/ PauseBegin(j) \/ ResumeBegin(j) \/ Watchdog(j)
      PROVE  QueueInv'
    BY <1>2, <2>24 DEF Cancel, PauseBegin, ResumeBegin, Watchdog, QueueInv, pool
  <2>25. ASSUME ClearHistory PROVE QueueInv'
    BY <1>2, <2>25 DEF ClearHistory, QueueInv, pool
  <2>26. CASE UNCHANGED vars
    BY <1>2, <2>26 DEF vars, QueueInv, pool
  <2> QED
    BY <1>2, <2>1, <2>2, <2>3, <2>4, <2>5, <2>6, <2>7, <2>8, <2>9, <2>10, <2>11, <2>12, <2>13,
       <2>14, <2>15, <2>16, <2>17, <2>18, <2>19, <2>20, <2>21, <2>22, <2>23, <2>24, <2>25,
       <2>26 DEF Next, Advance
<1> QED
  BY <1>1, <1>2, TypeCorrect, PTL DEF Spec

\* Every admission is given back exactly once, on every path, so the limit holds and the
\* capacity it stands for is never lost.
THEOREM AdmissionsAreExact == Spec => []AdmissionExact
<1> USE DEF TypeOK, ResultInv, Closing
<1>1. Init => AdmissionExact
  <2> SUFFICES ASSUME Init PROVE AdmissionExact
    OBVIOUS
  <2>1. Admitted = {}
    BY DEF Init, Admitted, Live, Starting, InTask
  <2> QED
    BY <2>1, FS_EmptySet, RuntimeConstants DEF Init, AdmissionExact
<1>2. ASSUME TypeOK, ResultInv, ResultInv', AdmissionExact, [Next]_vars
      PROVE  AdmissionExact'
  <2> DEFINE Unsent(k) == result[k] = "unsent"
  <2>a. IsFiniteSet(Admitted) /\ Cardinality(Admitted) \in Nat
    BY RuntimeConstants, FS_Subset, FS_CardinalityType DEF Admitted
  <2>b. ASSUME Admitted' = Admitted, UNCHANGED admitted PROVE AdmissionExact'
    BY <1>2, <2>b DEF AdmissionExact
  <2>c. ASSUME NEW j \in Jobs, NEW p, phase' = [phase EXCEPT ![j] = p],
               phase[j] \in Live <=> p \in Live,
               \A k \in Jobs : Unsent(k)' <=> Unsent(k),
               UNCHANGED admitted
        PROVE  AdmissionExact'
    <3>1. Admitted' = Admitted
      BY <1>2, <2>c DEF Admitted
    <3> QED
      BY <2>b, <2>c, <3>1
  <2>d. ASSUME NEW j \in Jobs, NEW p, phase' = [phase EXCEPT ![j] = p],
               phase[j] \in Live, ~Unsent(j), p \notin Live \/ Unsent(j)',
               \A k \in Jobs \ {j} : Unsent(k)' <=> Unsent(k),
               admitted' = admitted - 1
        PROVE  AdmissionExact'
    <3>1. Admitted' = Admitted \ {j} /\ j \in Admitted
      BY <1>2, <2>d DEF Admitted
    <3>2. Cardinality(Admitted \ {j}) = Cardinality(Admitted) - 1
      BY <2>a, <3>1, FS_RemoveElement
    <3> QED
      BY <1>2, <2>a, <2>d, <3>1, <3>2, RuntimeConstants DEF AdmissionExact
  <2>1. ASSUME NEW j \in Jobs, Plan(j) PROVE AdmissionExact'
    <3>1. UNCHANGED <<admitted, result>>
      BY <2>1 DEF Plan, pool, ends
    <3>2. \A k \in Jobs : phase'[k] \in Live <=> phase[k] \in Live
      BY <1>2, <2>1 DEF Plan, Live, Starting, InTask
    <3>3. Admitted' = Admitted
      BY <3>1, <3>2 DEF Admitted
    <3> QED
      BY <2>b, <3>1, <3>3
  <2>2. ASSUME NEW j \in Jobs, Expire(j) PROVE AdmissionExact'
    <3>1. phase[j] = "planned" /\ phase' = [phase EXCEPT ![j] = "stale"]
      BY <2>2 DEF Expire, Goto
    <3>2. UNCHANGED admitted
      BY <2>2 DEF Expire, pool
    <3>3. UNCHANGED result
      BY <2>2 DEF Expire, ends
    <3> QED
      BY <2>c, <3>1, <3>2, <3>3 DEF Live, Starting, InTask
  <2>3. ASSUME NEW j \in Jobs, TakePlan(j) PROVE AdmissionExact'
    <3>1. PICK p \in {"taken", "rejected"} :
             phase[j] \in {"planned", "stale"} /\ phase' = [phase EXCEPT ![j] = p]
      BY <2>3 DEF TakePlan, Goto
    <3>2. UNCHANGED admitted
      BY <2>3 DEF TakePlan, pool
    <3>3. UNCHANGED result
      BY <2>3 DEF TakePlan, ends
    <3> QED
      BY <2>c, <3>1, <3>2, <3>3 DEF Live, Starting, InTask
  <2>4. ASSUME NEW j \in Jobs, WriteText(j) PROVE AdmissionExact'
    <3>1. phase[j] = "new" /\ phase' = [phase EXCEPT ![j] = "taken"]
      BY <2>4 DEF WriteText, Goto
    <3>2. UNCHANGED admitted
      BY <2>4 DEF WriteText, pool
    <3>3. UNCHANGED result
      BY <2>4 DEF WriteText, ends
    <3> QED
      BY <2>c, <3>1, <3>2, <3>3 DEF Live, Starting, InTask
  <2>5. ASSUME NEW j \in Jobs, Admit(j) PROVE AdmissionExact'
    <3>1. UNCHANGED result /\ phase[j] = "taken"
      BY <2>5 DEF Admit, Goto, ends
    <3>2. CASE /\ admitted < ActiveLimit /\ admitted' = admitted + 1
               /\ phase' = [phase EXCEPT ![j] = "admitted"]
      <4>1. result[j] = "none" /\ j \notin Admitted
        BY <1>2, <3>1 DEF Admitted, Live, Starting, InTask
      <4>2. Admitted' = Admitted \cup {j}
        BY <1>2, <3>1, <3>2, <4>1 DEF Admitted, Live, Starting, InTask
      <4>3. Cardinality(Admitted') = Cardinality(Admitted) + 1
        BY <2>a, <4>1, <4>2, FS_AddElement
      <4> QED
        BY <1>2, <3>2, <4>3, RuntimeConstants DEF AdmissionExact
    <3>3. CASE phase' = [phase EXCEPT ![j] = "rejected"] /\ UNCHANGED admitted
      BY <2>c, <3>1, <3>3 DEF Live, Starting, InTask
    <3> QED
      BY <2>5, <3>2, <3>3 DEF Admit, Goto
  <2>6. ASSUME NEW j \in Jobs, Register(j) PROVE AdmissionExact'
    <3>1. phase[j] = "admitted" /\ phase' = [phase EXCEPT ![j] = "registered"]
      BY <2>6 DEF Register, Goto
    <3>2. UNCHANGED admitted
      BY <2>6 DEF Register, pool
    <3>3. UNCHANGED result
      BY <2>6 DEF Register, ends
    <3> QED
      BY <2>c, <3>1, <3>2, <3>3 DEF Live, Starting, InTask
  <2>7. ASSUME NEW j \in Jobs, RecordStart(j) PROVE AdmissionExact'
    <3>1. phase[j] = "registered" /\ phase' = [phase EXCEPT ![j] = "recorded"]
      BY <2>7 DEF RecordStart, Goto
    <3>2. UNCHANGED admitted
      BY <2>7 DEF RecordStart, pool
    <3>3. UNCHANGED result
      BY <2>7 DEF RecordStart, ends
    <3> QED
      BY <2>c, <3>1, <3>2, <3>3 DEF Live, Starting, InTask
  <2>8. ASSUME NEW j \in Jobs, Announce(j) PROVE AdmissionExact'
    <3>1. phase[j] = "recorded" /\ phase' = [phase EXCEPT ![j] = "announced"]
      BY <2>8 DEF Announce, Goto
    <3>2. UNCHANGED admitted
      BY <2>8 DEF Announce, pool
    <3>3. UNCHANGED result
      BY <2>8 DEF Announce, ends
    <3> QED
      BY <2>c, <3>1, <3>2, <3>3 DEF Live, Starting, InTask
  <2>9. ASSUME NEW j \in Jobs, Dispatch(j) PROVE AdmissionExact'
    <3>1. phase[j] = "announced" /\ phase' = [phase EXCEPT ![j] = "queued"]
      BY <2>9 DEF Dispatch, Goto
    <3>2. UNCHANGED admitted
      BY <2>9 DEF Dispatch
    <3>3. UNCHANGED result
      BY <2>9 DEF Dispatch, ends
    <3> QED
      BY <2>c, <3>1, <3>2, <3>3 DEF Live, Starting, InTask
  <2>10. ASSUME NEW j \in Jobs, DispatchFails(j) PROVE AdmissionExact'
    <3>1. phase[j] = "announced" /\ phase' = [phase EXCEPT ![j] = "ending"]
      BY <2>10 DEF DispatchFails, Goto
    <3>2. admitted' = admitted - 1 /\ result' = [result EXCEPT ![j] = "unsent"]
      BY <2>10 DEF DispatchFails
    <3>3. result[j] = "none"
      BY <1>2, <3>1
    <3>4. phase[j] \in Live
      BY <3>1 DEF Live, Starting
    <3>5. ~Unsent(j) /\ Unsent(j)'
      BY <1>2, <3>2, <3>3
    <3>6. \A k \in Jobs \ {j} : Unsent(k)' <=> Unsent(k)
      BY <1>2, <3>2
    <3> QED
      BY <2>d, <3>1, <3>2, <3>4, <3>5, <3>6
  <2>11. ASSUME NEW j \in Jobs, Dequeue(j) PROVE AdmissionExact'
    <3>1. PICK p \in {"report", "check", "work"} :
             phase[j] \in {"queued"} /\ phase' = [phase EXCEPT ![j] = p]
      BY <2>11 DEF Dequeue, Goto
    <3>2. UNCHANGED admitted
      BY <2>11 DEF Dequeue
    <3>3. UNCHANGED result
      BY <2>11 DEF Dequeue, ends
    <3> QED
      BY <2>c, <3>1, <3>2, <3>3 DEF Live, Starting, InTask
  <2>12. ASSUME NEW j \in Jobs, CheckTokens(j) PROVE AdmissionExact'
    <3>1. PICK p \in {"work", "report", "ending"} :
             phase[j] \in {"check", "recheck"} /\ phase' = [phase EXCEPT ![j] = p]
      BY <2>12 DEF CheckTokens, Goto, Returns
    <3>2. UNCHANGED admitted
      BY <2>12 DEF CheckTokens, pool
    <3>3. \/ UNCHANGED result
          \/ \E r \in {"ok", "cancelled", "error"} : result' = [result EXCEPT ![j] = r]
      BY <2>12 DEF CheckTokens, ends, Returns
    <3>4. \A k \in Jobs : Unsent(k)' <=> Unsent(k)
      BY <1>2, <3>1, <3>3
    <3> QED
      BY <2>c, <3>1, <3>2, <3>4 DEF Live, Starting, InTask
  <2>13. ASSUME NEW j \in Jobs, DoItem(j) PROVE AdmissionExact'
    <3>1. PICK p \in {"recheck", "report", "ending"} :
             phase[j] \in {"work"} /\ phase' = [phase EXCEPT ![j] = p]
      BY <2>13 DEF DoItem, Goto, Returns
    <3>2. UNCHANGED admitted
      BY <2>13 DEF DoItem, pool
    <3>3. \/ UNCHANGED result
          \/ \E r \in {"ok", "cancelled", "error"} : result' = [result EXCEPT ![j] = r]
      BY <2>13 DEF DoItem, ends, Returns
    <3>4. \A k \in Jobs : Unsent(k)' <=> Unsent(k)
      BY <1>2, <3>1, <3>3
    <3> QED
      BY <2>c, <3>1, <3>2, <3>4 DEF Live, Starting, InTask
  <2>14. ASSUME NEW j \in Jobs, ItemFails(j) PROVE AdmissionExact'
    <3>1. phase[j] = "work" /\ phase' = [phase EXCEPT ![j] = "ending"]
      BY <2>14 DEF ItemFails, Goto, Returns
    <3>2. UNCHANGED admitted
      BY <2>14 DEF ItemFails, pool
    <3>3. \/ UNCHANGED result
          \/ \E r \in {"ok", "cancelled", "error"} : result' = [result EXCEPT ![j] = r]
      BY <2>14 DEF ItemFails, ends, Returns
    <3>4. \A k \in Jobs : Unsent(k)' <=> Unsent(k)
      BY <1>2, <3>1, <3>3
    <3> QED
      BY <2>c, <3>1, <3>2, <3>4 DEF Live, Starting, InTask
  <2>15. ASSUME NEW j \in Jobs, ReportTell(j) PROVE AdmissionExact'
    <3>1. PICK p \in {"check", "ending"} :
             phase[j] \in {"emitting"} /\ phase' = [phase EXCEPT ![j] = p]
      BY <2>15 DEF ReportTell, Goto, Returns, Continue
    <3>2. UNCHANGED admitted
      BY <2>15 DEF ReportTell, pool
    <3>3. \/ UNCHANGED result
          \/ \E r \in {"ok", "cancelled", "error"} : result' = [result EXCEPT ![j] = r]
      BY <2>15 DEF ReportTell, ends, Returns, Continue
    <3>4. \A k \in Jobs : Unsent(k)' <=> Unsent(k)
      BY <1>2, <3>1, <3>3
    <3> QED
      BY <2>c, <3>1, <3>2, <3>4 DEF Live, Starting, InTask
  <2>16. ASSUME NEW j \in Jobs, EndStatus(j) PROVE AdmissionExact'
    <3>1. phase[j] = "ending" /\ phase' = [phase EXCEPT ![j] = "ended"]
      BY <2>16 DEF EndStatus, Goto
    <3>2. UNCHANGED admitted
      BY <2>16 DEF EndStatus, pool
    <3>3. UNCHANGED result
      BY <2>16 DEF EndStatus
    <3> QED
      BY <2>c, <3>1, <3>2, <3>3 DEF Live, Starting, InTask
  <2>17. ASSUME NEW j \in Jobs, EndStore(j) PROVE AdmissionExact'
    <3>1. phase[j] = "ended" /\ phase' = [phase EXCEPT ![j] = "stored"]
      BY <2>17 DEF EndStore, Goto
    <3>2. UNCHANGED admitted
      BY <2>17 DEF EndStore, pool
    <3>3. UNCHANGED result
      BY <2>17 DEF EndStore, ends
    <3> QED
      BY <2>c, <3>1, <3>2, <3>3 DEF Live, Starting, InTask
  <2>18. ASSUME NEW j \in Jobs, EndCleanup(j) PROVE AdmissionExact'
    <3>1. phase[j] = "told" /\ phase' = [phase EXCEPT ![j] = "done"]
      BY <2>18 DEF EndCleanup, Goto
    <3>2. admitted' = admitted - 1 /\ UNCHANGED result
      BY <2>18 DEF EndCleanup, ends
    <3> QED
      BY <1>2, <2>d, <3>1, <3>2 DEF Live, Starting, InTask
  <2>19. ASSUME NEW j \in Jobs, ReportBegin(j) PROVE AdmissionExact'
    <3>1. PICK p \in {"check", "ending", "emitting"} :
             phase[j] \in {"report"} /\ phase' = [phase EXCEPT ![j] = p]
      BY <2>19 DEF ReportBegin, Goto, Returns, Continue
    <3>2. UNCHANGED admitted
      BY <2>19 DEF ReportBegin, pool
    <3>3. \/ UNCHANGED result
          \/ \E r \in {"ok", "cancelled", "error"} : result' = [result EXCEPT ![j] = r]
      BY <2>19 DEF ReportBegin, ends, Returns, Continue
    <3>4. \A k \in Jobs : Unsent(k)' <=> Unsent(k)
      BY <1>2, <3>1, <3>3
    <3> QED
      BY <2>c, <3>1, <3>2, <3>4 DEF Live, Starting, InTask
  <2>20. ASSUME NEW j \in Jobs, EndTell(j) PROVE AdmissionExact'
    <3>1. /\ phase[j] = "stored"
          /\ phase' = [phase EXCEPT ![j] = IF result[j] = "unsent" THEN "done" ELSE "told"]
      BY <2>20 DEF EndTell, Goto
    <3>2. UNCHANGED <<admitted, result>>
      BY <2>20 DEF EndTell, pool, ends
    <3>3. Admitted' = Admitted
      BY <1>2, <3>1, <3>2 DEF Admitted, Live, Starting, InTask
    <3> QED
      BY <2>b, <3>2, <3>3
  <2>21. ASSUME NEW j \in Jobs, Panic(j) PROVE AdmissionExact'
    <3> DEFINE lost == {j} \cup IF workers = 1 THEN {k \in Jobs : phase[k] = "queued"} ELSE {}
    <3>1. phase[j] = "work" /\ admitted' = admitted - Cardinality(lost) /\ UNCHANGED result
      BY <2>21 DEF Panic, ends
    <3>2. phase' = [k \in Jobs |-> IF k \in lost THEN "panicked" ELSE phase[k]]
      BY <2>21 DEF Panic
    <3>3. \A k \in lost : k \in Jobs /\ phase[k] \in {"work", "queued"}
      BY <3>1
    <3> HIDE DEF lost
    <3>4. lost \subseteq Admitted
      BY <1>2, <3>3 DEF Admitted, Live, Starting, InTask
    <3>5. Admitted' = Admitted \ lost
      BY <1>2, <3>1, <3>2, <3>3 DEF Admitted, Live, Starting, InTask
    <3>6. Admitted \cap lost = lost
      BY <3>4
    <3>7. Cardinality(lost) \in Nat
      BY <2>a, <3>4, FS_Subset, FS_CardinalityType
    <3>8. Cardinality(Admitted \ lost) = Cardinality(Admitted) - Cardinality(Admitted \cap lost)
      BY <2>a, FS_Difference
    <3>9. Cardinality(Admitted') = Cardinality(Admitted) - Cardinality(lost)
      BY <3>5, <3>6, <3>8
    <3> QED
      BY <1>2, <2>a, <3>1, <3>7, <3>9, RuntimeConstants DEF AdmissionExact
  <2>22. ASSUME NEW j \in Jobs, GateTell(j) PROVE AdmissionExact'
    BY <2>b, <2>22 DEF GateTell, Admitted, pool, ends
  <2>23. ASSUME NEW j \in Controlled, Cancel(j) \/ PauseBegin(j) \/ ResumeBegin(j) \/ Watchdog(j)
        PROVE  AdmissionExact'
    BY <2>b, <2>23 DEF Cancel, PauseBegin, ResumeBegin, Watchdog, Admitted, pool, ends
  <2>24. ASSUME ClearHistory PROVE AdmissionExact'
    BY <2>b, <2>24 DEF ClearHistory, Admitted, pool, ends
  <2>25. ASSUME Restart PROVE AdmissionExact'
    <3>1. Admitted' = {}
      BY <2>25 DEF Restart, Admitted, Live, Starting, InTask, Over
    <3>2. admitted' = 0
      BY <2>25 DEF Restart
    <3> QED
      BY <3>1, <3>2, FS_EmptySet, RuntimeConstants DEF AdmissionExact
  <2>26. CASE UNCHANGED vars
    BY <2>b, <2>26 DEF vars, Admitted, pool, ends
  <2> QED
    BY <1>2, <2>1, <2>2, <2>3, <2>4, <2>5, <2>6, <2>7, <2>8, <2>9, <2>10, <2>11, <2>12, <2>13,
       <2>14, <2>15, <2>16, <2>17, <2>18, <2>19, <2>20, <2>21, <2>22, <2>23, <2>24, <2>25,
       <2>26 DEF Next, Advance
<1> QED
  BY <1>1, <1>2, TypeCorrect, ResultsSound, PTL DEF Spec

\* The channel always has room for the task of an admitted job, so the command that starts
\* a job never blocks: every queued task holds an admission, and so does the new one.
THEOREM SendsNeverBlock == Spec => []SendNeverBlocks
<1>1. TypeOK /\ ResultInv /\ QueueInv /\ AdmissionExact => SendNeverBlocks
  <2> SUFFICES ASSUME TypeOK, ResultInv, QueueInv, AdmissionExact,
                      NEW j \in Jobs, phase[j] = "announced"
               PROVE  Len(queue) < QueueCapacity
    BY DEF SendNeverBlocks
  <2> DEFINE others == Admitted \ {j}
  <2>1. IsFiniteSet(Admitted)
    BY RuntimeConstants, FS_Subset DEF Admitted
  <2>2. j \in Admitted
    BY DEF TypeOK, ResultInv, Closing, Admitted, Live, Starting
  <2>3. /\ IsFiniteSet(others) /\ Cardinality(others) = Cardinality(Admitted) - 1
        /\ Cardinality(Admitted) \in Nat /\ Cardinality(others) \in Nat
    BY <2>1, <2>2, FS_RemoveElement, FS_CardinalityType
  <2>4. Len(queue) \in Nat /\ \A i \in 1 .. Len(queue) : queue[i] \in Jobs
    BY DEF TypeOK
  <2>5. \A i \in 1 .. Len(queue) : queue[i] \in others
    <3> SUFFICES ASSUME NEW i \in 1 .. Len(queue) PROVE queue[i] \in others
      OBVIOUS
    <3>1. queue[i] \in Jobs /\ phase[queue[i]] = "queued"
      BY <2>4 DEF QueueInv
    <3>2. result[queue[i]] = "none"
      BY <3>1 DEF ResultInv, Closing, TypeOK
    <3> QED
      BY <3>1, <3>2 DEF Admitted, Live
  <2> HIDE DEF others
  <2> DEFINE task == [i \in 1 .. Len(queue) |-> queue[i]]
  <2>6. task \in Injection(1 .. Len(queue), others)
    BY <2>5 DEF QueueInv, Injection, IsInjective
  <2>7. Cardinality(1 .. Len(queue)) <= Cardinality(others)
    BY <2>3, <2>6, FS_Injection
  <2>8. Cardinality(1 .. Len(queue)) = Len(queue)
    <3> DEFINE n == Len(queue)
    <3>1. n \in Int /\ 1 \in Int
      BY <2>4
    <3> HIDE DEF n
    <3>2. Cardinality(1 .. n) = IF 1 > n THEN 0 ELSE n - 1 + 1
      BY <3>1, FS_Interval
    <3> QED
      BY <2>4, <3>1, <3>2 DEF n
  <2> QED
    BY <2>3, <2>4, <2>7, <2>8, RuntimeConstants, QueueHoldsEveryActiveJob DEF AdmissionExact
<1> QED
  BY <1>1, TypeCorrect, ResultsSound, QueueSound, AdmissionsAreExact, PTL

=============================================================================
