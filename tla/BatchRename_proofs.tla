------------------------- MODULE BatchRename_proofs -------------------------
(***************************************************************************)
(* Theorems about BatchRename, for any number of files, any plan and any   *)
(* interference by other programs.                                         *)
(***************************************************************************)
EXTENDS BatchRename, SequenceTheorems, TLAPS

\* A plan of n items is a sequence of n names.
LEMMA PlanIsSeq ==
  ASSUME NEW n \in Nat, NEW s \in [1 .. n -> Names]
  PROVE  s \in Seq(Names) /\ Len(s) = n
<1>1. s \in Seq(Names)
  BY SeqDef
<1> QED
  BY <1>1, LenProperties

\* What the type invariant says of plan and counters, in the form the provers want it.
LEMMA Shape ==
  ASSUME TypeOK
  PROVE  /\ Len(source) \in Nat /\ Len(source) <= MaxItems /\ Len(target) = Len(source)
         /\ source \in [1 .. Len(source) -> Names] /\ target \in [1 .. Len(source) -> Names]
         /\ DOMAIN source = Items /\ DOMAIN target = Items
         /\ Items \subseteq 1 .. MaxItems
         /\ staged \in Nat /\ committed \in Nat /\ committed <= staged /\ staged <= Len(source)
<1>1. source \in Seq(Names) /\ target \in Seq(Names)
  BY DEF TypeOK
<1>2. Len(source) \in Nat /\ source \in [1 .. Len(source) -> Names]
  BY <1>1, LenProperties
<1>3. target \in [1 .. Len(target) -> Names]
  BY <1>1, LenProperties
<1>4. staged \in Nat /\ committed \in Nat /\ committed <= staged /\ staged <= Len(source)
  BY <1>2 DEF TypeOK
<1> QED
  BY <1>2, <1>3, <1>4, BatchConstants DEF TypeOK, Items

LEMMA TempsAreDistinct == \A k, m : Temp(k) = Temp(m) => k = m
  BY DEF Temp

LEMMA TempIsPath == \A k \in 1 .. MaxItems : Temp(k) \in Paths /\ Temp(k) \notin Names
  BY TemporariesAreFresh DEF Paths, Temps

LEMMA NameIsPath == \A p \in Names : p \in Paths
  BY DEF Paths

LEMMA NoFileIsNoFile == NoFile \notin Files
  BY BatchConstants

-----------------------------------------------------------------------------
\* A rename moves one file and touches no other path.
LEMMA RenameMoves ==
  ASSUME TypeOK, NEW p \in Paths, NEW q \in Paths, Rename(p, q)
  PROVE  /\ at' \in [Paths -> Files \cup {NoFile}]
         /\ p # q /\ at[p] \in Files /\ at[q] = NoFile
         /\ at'[q] = at[p] /\ at'[p] = NoFile
         /\ \A x \in Paths : x # p /\ x # q => at'[x] = at[x]
<1>1. at[p] # NoFile /\ at[q] = NoFile /\ at' = [at EXCEPT ![q] = at[p], ![p] = NoFile]
  BY DEF Rename, CanRename
<1> QED
  BY <1>1 DEF TypeOK

\* A rename that is tried either moves the file or leaves everything as it is.
LEMMA TryType ==
  ASSUME TypeOK, NEW p \in Paths, NEW q \in Paths, Rename(p, q) \/ RenameFails(p, q)
  PROVE  at' \in [Paths -> Files \cup {NoFile}]
  BY RenameMoves DEF RenameFails, TypeOK

-----------------------------------------------------------------------------
\* Every variable keeps its type, and the counters follow the program point.
THEOREM ShapeSound == Spec => [](TypeOK /\ CountInv)
<1>1. Init => TypeOK /\ CountInv
  <2> SUFFICES ASSUME Init PROVE TypeOK /\ CountInv
    OBVIOUS
  <2>1. source \in Seq(Names) /\ Len(source) = 0 /\ target \in Seq(Names) /\ Len(target) = 0
    BY EmptySeq DEF Init
  <2>2. DOMAIN source = {} /\ DOMAIN target = {}
    BY <2>1, LenProperties
  <2>3. TypeOK
    <3>1. at \in [Paths -> Files \cup {NoFile}] /\ files \subseteq Files
      BY DEF Init, Files
    <3>2. taken \in [1 .. MaxItems -> Files \cup {NoFile}]
      BY DEF Init
    <3>3. pc = "new" /\ staged = 0 /\ committed = 0 /\ errors = {} /\ ~cancel /\ ~paused /\ gone = {}
      BY DEF Init
    <3>4. staged \in 0 .. Len(source) /\ committed \in 0 .. staged /\ Len(source) <= MaxItems
      BY <2>1, <3>3, BatchConstants
    <3>5. cancel \in BOOLEAN /\ paused \in BOOLEAN /\ disturbed \in BOOLEAN
      BY DEF Init
    <3>6. pc \in {"new", "planned"} /\ errors \subseteq 1 .. MaxItems /\ gone \subseteq Files
      BY <3>3
    <3> QED
      BY <2>1, <3>1, <3>2, <3>4, <3>5, <3>6 DEF TypeOK
  <2>4. CountInv
    BY <2>1, <2>2 DEF Init, CountInv, Distinct, Rollback, Over
  <2> QED
    BY <2>3, <2>4
<1>2. TypeOK /\ CountInv /\ [Next]_vars => TypeOK' /\ CountInv'
  <2> SUFFICES ASSUME TypeOK, CountInv, [Next]_vars PROVE TypeOK' /\ CountInv'
    OBVIOUS
  <2> USE DEF Forward, Rollback, Over
  <2>d. disturbed' \in BOOLEAN
    <3>1. disturbed \in BOOLEAN
      BY DEF TypeOK
    <3> QED
      BY <3>1 DEF Next, vars, ghosts, Plan, Prepare, StageCheck, Stage, CommitCheck, Check, Look,
         Commit, Unwind, Restore, RestoreMove, RolledBack, Cancel, PauseOrResume, Crash, Create,
         Delete
  <2>0. /\ Len(source) \in Nat /\ Len(source) <= MaxItems /\ Len(target) = Len(source)
        /\ source \in [1 .. Len(source) -> Names] /\ target \in [1 .. Len(source) -> Names]
        /\ staged \in Nat /\ committed \in Nat /\ committed <= staged /\ staged <= Len(source)
    BY Shape
  <2>1. ASSUME Plan PROVE TypeOK' /\ CountInv'
    <3>1. PICK n \in 1 .. MaxItems :
            source' \in [1 .. n -> Names] /\ target' \in [1 .. n -> Names]
      BY <2>1 DEF Plan
    <3>2. n \in Nat /\ n > 0 /\ n <= MaxItems
      BY BatchConstants
    <3>3. /\ source' \in Seq(Names) /\ Len(source') = n
          /\ target' \in Seq(Names) /\ Len(target') = n
      BY <3>1, <3>2, PlanIsSeq
    <3>4. staged = 0 /\ committed = 0 /\ errors = {}
      BY <2>0, <2>1 DEF Plan, Goto, CountInv
    <3>5. TypeOK'
      BY <2>1, <3>2, <3>3, <3>4 DEF Plan, Goto, TypeOK, tokens, ghosts
    <3>6. Distinct(source') /\ Distinct(target')
      BY <2>1 DEF Plan, Renamable
    <3>7. pc' = "planned" /\ staged' = staged /\ committed' = committed /\ errors' = errors
      BY <2>1 DEF Plan, Goto
    <3>8. CountInv'
      BY <3>2, <3>3, <3>4, <3>6, <3>7 DEF CountInv, Distinct
    <3> QED
      BY <3>5, <3>8
  <2>2. ASSUME Prepare PROVE TypeOK' /\ CountInv'
    <3>1. TypeOK'
      BY <2>2 DEF Prepare, Goto, TypeOK, plan, tokens, ghosts
    <3>2. staged = 0 /\ committed = 0 /\ Len(source) > 0 /\ errors = {}
      <4>1. pc = "planned"
        BY <2>2 DEF Prepare, Goto
      <4> QED
        BY <2>0, <4>1 DEF CountInv
    <3>3. pc' = "stageCheck" \/ pc' = "refused"
      BY <2>2 DEF Prepare, Goto
    <3>4. UNCHANGED <<source, target, staged, committed, errors>>
      BY <2>2 DEF Prepare, plan
    <3>5. CountInv'
      BY <3>2, <3>3, <3>4 DEF CountInv, Distinct
    <3> QED
      BY <3>1, <3>5
  <2>3. ASSUME StageCheck \/ CommitCheck PROVE TypeOK' /\ CountInv'
    <3>1. TypeOK'
      BY <2>3 DEF StageCheck, CommitCheck, Check, Goto, TypeOK, plan, tokens, ghosts
    <3>2. CountInv'
      BY <2>3 DEF StageCheck, CommitCheck, Check, Goto, CountInv, Distinct, plan
    <3> QED
      BY <3>1, <3>2
  <2>4. ASSUME Stage PROVE TypeOK' /\ CountInv'
    <3> DEFINE k == staged + 1
    <3>1. pc = "stage" /\ staged < Len(source) /\ committed = 0
      BY <2>4 DEF Stage, CountInv
    <3>2. k \in 1 .. Len(source) /\ k \in 1 .. MaxItems
      BY <2>0, <3>1, BatchConstants
    <3>3. source[k] \in Paths /\ Temp(k) \in Paths
      BY <2>0, <3>2, NameIsPath, TempIsPath
    <3>4. at' \in [Paths -> Files \cup {NoFile}]
      BY <2>4, <3>3, TryType DEF Stage
    <3>5. at[source[k]] \in Files \cup {NoFile}
      BY <3>3 DEF TypeOK
    <3>6. taken' \in [1 .. MaxItems -> Files \cup {NoFile}]
      BY <2>4, <3>2, <3>5 DEF Stage, TypeOK
    <3>7. staged' \in 0 .. Len(source) /\ committed' = 0
      <4>1. staged' = k \/ staged' = staged
        BY <2>4 DEF Stage
      <4>2. committed' = 0
        BY <2>4, <3>1 DEF Stage
      <4> QED
        BY <2>0, <3>2, <4>1, <4>2
    <3>8. pc' \in {"commitCheck", "stageCheck", "unwind"}
      BY <2>4 DEF Stage
    <3>9. UNCHANGED <<source, target, committed, errors, cancel, paused, files, gone>>
      BY <2>4 DEF Stage, plan, tokens, ghosts
    <3>10. TypeOK'
      BY <2>0, <2>d, <3>1, <3>4, <3>6, <3>7, <3>8, <3>9 DEF TypeOK
    <3>11. \/ pc' = "unwind" /\ staged' = staged
           \/ staged' = k /\ pc' = IF k = Len(source) THEN "commitCheck" ELSE "stageCheck"
      BY <2>4 DEF Stage
    <3>12. CountInv'
      <4>1. CASE pc' = "unwind" /\ staged' = staged
        BY <2>0, <3>1, <3>9, <4>1 DEF CountInv, Distinct
      <4>2. CASE pc' = "commitCheck" /\ staged' = k /\ k = Len(source)
        <5>1. committed' < staged' /\ Len(source) > 0
          BY <2>0, <3>1, <3>9, <4>2
        <5> QED
          BY <3>1, <3>9, <4>2, <5>1 DEF CountInv, Distinct
      <4>3. CASE pc' = "stageCheck" /\ staged' = k /\ k # Len(source)
        <5>1. staged' < Len(source') /\ Len(source) > 0
          <6>1. staged \in Nat /\ Len(source) \in Nat /\ staged < Len(source)
            BY <2>0, <3>1
          <6>2. staged' = staged + 1 /\ staged + 1 # Len(source) /\ source' = source
            BY <3>9, <4>3
          <6> QED
            BY <6>1, <6>2
        <5> QED
          BY <3>1, <3>9, <4>3, <5>1 DEF CountInv, Distinct
      <4> QED
        BY <3>11, <4>1, <4>2, <4>3
    <3> QED
      BY <3>10, <3>12
  <2>5. ASSUME Look PROVE TypeOK' /\ CountInv'
    <3>1. TypeOK'
      BY <2>5 DEF Look, TypeOK, plan, tokens, ghosts
    <3>2. CountInv'
      BY <2>5 DEF Look, CountInv, Distinct, plan
    <3> QED
      BY <3>1, <3>2
  <2>6. ASSUME Commit PROVE TypeOK' /\ CountInv'
    <3> DEFINE k == committed + 1
    <3>1. pc = "commit" /\ staged = Len(source) /\ committed < staged
      BY <2>6 DEF Commit, CountInv
    <3>2. k \in 1 .. Len(source) /\ k \in 1 .. MaxItems
      BY <2>0, <3>1, BatchConstants
    <3>3. target[k] \in Paths /\ Temp(k) \in Paths
      BY <2>0, <3>2, NameIsPath, TempIsPath
    <3>4. at' \in [Paths -> Files \cup {NoFile}]
      BY <2>6, <3>3, TryType DEF Commit
    <3>5. committed' \in 0 .. staged /\ staged' = staged
      <4>1. (committed' = k \/ committed' = committed) /\ staged' = staged
        BY <2>6 DEF Commit
      <4> QED
        BY <2>0, <3>1, <4>1
    <3>6. TypeOK'
      BY <2>0, <2>6, <3>4, <3>5 DEF Commit, TypeOK, plan, tokens, ghosts
    <3>7. UNCHANGED <<source, target, staged, errors>>
      BY <2>6 DEF Commit, plan
    <3>8. \/ pc' = "unwind" /\ committed' = committed
          \/ committed' = k /\ pc' = IF k = Len(source) THEN "ok" ELSE "commitCheck"
      BY <2>6 DEF Commit
    <3>9. CountInv'
      <4>1. CASE pc' = "unwind" /\ committed' = committed
        BY <2>0, <3>1, <3>7, <4>1 DEF CountInv, Distinct
      <4>2. CASE pc' = "ok" /\ committed' = k /\ k = Len(source)
        BY <2>0, <3>1, <3>7, <4>2 DEF CountInv, Distinct
      <4>3. CASE pc' = "commitCheck" /\ committed' = k /\ k # Len(source)
        <5>1. committed' < staged'
          <6>1. committed \in Nat /\ staged \in Nat /\ committed < staged
            BY <2>0, <3>1
          <6>2. committed' = committed + 1 /\ committed + 1 # staged /\ staged' = staged
            BY <3>1, <3>7, <4>3
          <6> QED
            BY <6>1, <6>2
        <5> QED
          BY <3>1, <3>7, <4>3, <5>1 DEF CountInv, Distinct
      <4> QED
        BY <3>8, <4>1, <4>2, <4>3
    <3> QED
      BY <3>6, <3>9
  <2>7. ASSUME Unwind PROVE TypeOK' /\ CountInv'
    <3>1. at' \in [Paths -> Files \cup {NoFile}]
      <4>1. CASE committed = 0
        BY <2>7, <4>1 DEF Unwind, TypeOK
      <4>2. CASE committed > 0
        <5>1. committed \in 1 .. Len(source) /\ committed \in 1 .. MaxItems
          BY <2>0, <4>2, BatchConstants
        <5>2. target[committed] \in Paths /\ Temp(committed) \in Paths
          BY <2>0, <5>1, NameIsPath, TempIsPath
        <5> QED
          BY <2>7, <4>2, <5>2, TryType DEF Unwind
      <4> QED
        BY <2>0, <4>1, <4>2
    <3>2. committed' \in 0 .. staged /\ staged' = staged
      BY <2>0, <2>7 DEF Unwind
    <3>3. errors' \subseteq 1 .. MaxItems
      <4>1. errors' = errors \/ (committed > 0 /\ errors' = errors \cup {committed})
        BY <2>7 DEF Unwind
      <4>2. committed > 0 => committed \in 1 .. MaxItems
        BY <2>0, BatchConstants
      <4> QED
        BY <4>1, <4>2 DEF TypeOK
    <3>4. pc' \in {"unwind", "restore"}
      BY <2>7 DEF Unwind
    <3>5. UNCHANGED <<source, target, cancel, paused, taken, files, gone>>
      BY <2>7 DEF Unwind, plan, tokens, ghosts
    <3>6. TypeOK'
      BY <2>0, <2>d, <3>1, <3>2, <3>3, <3>4, <3>5 DEF TypeOK
    <3>7. CountInv'
      BY <2>0, <2>7 DEF Unwind, CountInv, Distinct, plan
    <3> QED
      BY <3>6, <3>7
  <2>8. ASSUME Restore PROVE TypeOK' /\ CountInv'
    <3>1. committed = 0 /\ staged' \in 0 .. Len(source)
      BY <2>0, <2>8 DEF Restore, CountInv
    <3>2. UNCHANGED <<at, source, target, committed, cancel, paused, taken, files, gone>>
      BY <2>8 DEF Restore, plan, tokens, ghosts
    <3>3. pc' \in {"restore", "restoring"} /\ errors' \subseteq 1 .. MaxItems
      <4>1. staged \in 1 .. MaxItems
        BY <2>0, <2>8, BatchConstants DEF Restore
      <4>2. errors' = errors \/ errors' = errors \cup {staged}
        BY <2>8 DEF Restore
      <4>3. pc' = pc \/ pc' = "restoring"
        BY <2>8 DEF Restore
      <4>4. pc = "restore"
        BY <2>8 DEF Restore
      <4> QED
        BY <4>1, <4>2, <4>3, <4>4 DEF TypeOK
    <3>4. TypeOK'
      BY <2>0, <2>d, <3>1, <3>2, <3>3 DEF TypeOK
    <3>5. CountInv'
      BY <2>0, <2>8 DEF Restore, CountInv, Distinct, plan
    <3> QED
      BY <3>4, <3>5
  <2>9. ASSUME RestoreMove PROVE TypeOK' /\ CountInv'
    <3>1. committed = 0 /\ staged > 0
      BY <2>9 DEF RestoreMove, Goto, CountInv
    <3>2. staged \in 1 .. Len(source) /\ staged \in 1 .. MaxItems
      BY <2>0, <3>1, BatchConstants
    <3>3. source[staged] \in Paths /\ Temp(staged) \in Paths
      BY <2>0, <3>2, NameIsPath, TempIsPath
    <3>4. at' \in [Paths -> Files \cup {NoFile}]
      BY <2>9, <3>3, TryType DEF RestoreMove
    <3>5. UNCHANGED <<source, target, committed, cancel, paused, taken, files, gone>>
      BY <2>9 DEF RestoreMove, plan, tokens, ghosts
    <3>6. pc' = "restore" /\ errors' \subseteq 1 .. MaxItems /\ staged' = staged - 1
      BY <2>9, <3>2 DEF RestoreMove, Goto, TypeOK
    <3>7. staged' \in 0 .. Len(source)
      BY <2>0, <3>1, <3>6
    <3>8. TypeOK'
      BY <2>0, <2>d, <3>1, <3>4, <3>5, <3>6, <3>7 DEF TypeOK
    <3>9. CountInv'
      BY <2>0, <2>9, <3>1 DEF RestoreMove, Goto, CountInv, Distinct, plan
    <3> QED
      BY <3>8, <3>9
  <2>10. ASSUME RolledBack PROVE TypeOK' /\ CountInv'
    <3>1. TypeOK'
      BY <2>10 DEF RolledBack, Goto, TypeOK, plan, tokens, ghosts
    <3>2. CountInv'
      BY <2>10 DEF RolledBack, Goto, CountInv, Distinct, plan
    <3> QED
      BY <3>1, <3>2
  <2>11. ASSUME Cancel \/ PauseOrResume PROVE TypeOK' /\ CountInv'
    <3>1. TypeOK'
      BY <2>11 DEF Cancel, PauseOrResume, TypeOK, plan, ghosts
    <3>2. CountInv'
      BY <2>11 DEF Cancel, PauseOrResume, CountInv, Distinct, plan
    <3> QED
      BY <3>1, <3>2
  <2>12. ASSUME Crash PROVE TypeOK' /\ CountInv'
    <3>1. TypeOK'
      BY <2>12 DEF Crash, TypeOK, plan, tokens, ghosts
    <3>2. CountInv'
      BY <2>12 DEF Crash, CountInv, Distinct, plan
    <3> QED
      BY <3>1, <3>2
  <2>13. ASSUME NEW p \in Names, NEW f \in Strangers, Create(p, f) PROVE TypeOK' /\ CountInv'
    <3>1. f \in Files
      BY DEF Files
    <3>2. TypeOK'
      BY <2>13, <3>1, NameIsPath DEF Create, TypeOK, plan, tokens
    <3>3. CountInv'
      BY <2>13 DEF Create, CountInv, Distinct, plan
    <3> QED
      BY <3>2, <3>3
  <2>14. ASSUME NEW p \in Paths, Delete(p) PROVE TypeOK' /\ CountInv'
    <3>1. at[p] \in Files
      BY <2>14 DEF Delete, TypeOK
    <3>2. TypeOK'
      BY <2>14, <3>1 DEF Delete, TypeOK, plan, tokens
    <3>3. CountInv'
      BY <2>14 DEF Delete, CountInv, Distinct, plan
    <3> QED
      BY <3>2, <3>3
  <2>15. ASSUME UNCHANGED vars PROVE TypeOK' /\ CountInv'
    <3>1. TypeOK'
      BY <2>15 DEF vars, TypeOK, plan, tokens, ghosts
    <3>2. CountInv'
      BY <2>15 DEF vars, CountInv, Distinct, plan
    <3> QED
      BY <3>1, <3>2
  <2> QED
    BY <2>1, <2>2, <2>3, <2>4, <2>5, <2>6, <2>7, <2>8, <2>9, <2>10, <2>11, <2>12, <2>13,
       <2>14, <2>15 DEF Next
<1> QED
  BY <1>1, <1>2, PTL DEF Spec

-----------------------------------------------------------------------------
\* What a step does to the directory: nothing, one rename, or what another program does.
LEMMA StepKinds ==
  ASSUME TypeOK, CountInv, [Next]_vars
  PROVE  \/ UNCHANGED <<at, files>>
         \/ \E p, q \in Paths : Rename(p, q) /\ UNCHANGED files
         \/ \E p \in Names, f \in Strangers : Create(p, f)
         \/ \E p \in Paths : Delete(p)
<1> DEFINE Quiet == UNCHANGED <<at, files>>
           Renames == \E p, q \in Paths : Rename(p, q) /\ UNCHANGED files
<1>0. /\ Len(source) \in Nat /\ Len(source) <= MaxItems
      /\ source \in [1 .. Len(source) -> Names] /\ target \in [1 .. Len(source) -> Names]
      /\ staged \in Nat /\ committed \in Nat /\ committed <= staged /\ staged <= Len(source)
  BY Shape
<1>1. ASSUME NEW k \in Nat, k > 0, k <= Len(source)
      PROVE  source[k] \in Paths /\ target[k] \in Paths /\ Temp(k) \in Paths
  <2>1. k \in 1 .. Len(source) /\ k \in 1 .. MaxItems
    BY <1>0, <1>1, BatchConstants
  <2> QED
    BY <1>0, <2>1, NameIsPath, TempIsPath
<1>2. CASE Stage
  <2>0. staged < Len(source)
    BY <1>2 DEF Stage, CountInv
  <2>1. staged + 1 \in Nat /\ staged + 1 > 0 /\ staged + 1 <= Len(source)
    BY <1>0, <2>0
  <2>2. source[staged + 1] \in Paths /\ Temp(staged + 1) \in Paths
    BY <1>1, <2>1
  <2> QED
    BY <1>2, <2>2 DEF Stage, RenameFails, ghosts
<1>3. CASE Commit
  <2>1. pc = "commit" /\ staged = Len(source) /\ committed < staged
    BY <1>3 DEF Commit, CountInv
  <2>2. committed + 1 \in Nat /\ committed + 1 > 0 /\ committed + 1 <= Len(source)
    BY <1>0, <2>1
  <2>3. target[committed + 1] \in Paths /\ Temp(committed + 1) \in Paths
    BY <1>1, <2>2
  <2> QED
    BY <1>3, <2>3 DEF Commit, RenameFails, ghosts
<1>4. CASE Unwind
  <2>1. CASE committed = 0
    BY <1>4, <2>1 DEF Unwind, ghosts
  <2>2. CASE committed > 0
    <3>1. target[committed] \in Paths /\ Temp(committed) \in Paths
      BY <1>0, <1>1, <2>2
    <3> QED
      BY <1>4, <2>2, <3>1 DEF Unwind, RenameFails, ghosts
  <2> QED
    BY <1>0, <2>1, <2>2
<1>5. CASE RestoreMove
  <2>1. staged > 0
    BY <1>5 DEF RestoreMove, Goto, CountInv
  <2>2. source[staged] \in Paths /\ Temp(staged) \in Paths
    BY <1>0, <1>1, <2>1
  <2> QED
    BY <1>5, <2>2 DEF RestoreMove, RenameFails, ghosts
<1>6. CASE Plan \/ Prepare \/ StageCheck \/ CommitCheck \/ Look \/ Restore \/ RolledBack
           \/ Cancel \/ PauseOrResume \/ Crash \/ UNCHANGED vars
  <2>1. UNCHANGED <<at, files>>
    BY <1>6 DEF Plan, Prepare, StageCheck, CommitCheck, Check, Look, Restore, RolledBack,
       Cancel, PauseOrResume, Crash, vars, ghosts
  <2> QED
    BY <2>1
<1> QED
  BY <1>2, <1>3, <1>4, <1>5, <1>6 DEF Next

\* A rename keeps every file, at one path.
LEMMA RenameKeepsFiles ==
  ASSUME TypeOK, OnePlace, \A f \in files : \E x \in Paths : at[x] = f,
         NEW p \in Paths, NEW q \in Paths, Rename(p, q), files' = files
  PROVE  OnePlace' /\ \A f \in files' : \E x \in Paths : at'[x] = f
<1>1. /\ p # q /\ at[p] \in Files /\ at[q] = NoFile
      /\ at'[q] = at[p] /\ at'[p] = NoFile
      /\ \A x \in Paths : x # p /\ x # q => at'[x] = at[x]
  BY RenameMoves
<1>2. ASSUME NEW x \in Paths, NEW y \in Paths, at'[x] = at'[y], at'[x] # NoFile PROVE x = y
  BY <1>1, <1>2 DEF OnePlace
<1>3. ASSUME NEW x \in Paths, at'[x] # NoFile PROVE at'[x] \in files'
  BY <1>1, <1>3 DEF OnePlace
<1>4. ASSUME NEW f \in files PROVE \E x \in Paths : at'[x] = f
  <2>1. PICK x \in Paths : at[x] = f
    OBVIOUS
  <2>2. f # NoFile
    BY NoFileIsNoFile DEF TypeOK
  <2>3. CASE x = p
    BY <1>1, <2>1, <2>3
  <2>4. CASE x # p
    BY <1>1, <2>1, <2>2, <2>4
  <2> QED
    BY <2>3, <2>4
<1> QED
  BY <1>2, <1>3, <1>4 DEF OnePlace

\* No file is lost or doubled, whatever the passes, the rollback and others do.
THEOREM FilesSound == Spec => [](NothingLost /\ OnePlace)
<1> DEFINE Kept == \A f \in files : \E x \in Paths : at[x] = f
<1>1. Init => OnePlace /\ Kept
  BY NameIsPath DEF Init, OnePlace
<1>2. TypeOK /\ CountInv /\ OnePlace /\ Kept /\ [Next]_vars => OnePlace' /\ Kept'
  <2> SUFFICES ASSUME TypeOK, CountInv, OnePlace, Kept, [Next]_vars PROVE OnePlace' /\ Kept'
    OBVIOUS
  <2>1. CASE UNCHANGED <<at, files>>
    BY <2>1 DEF OnePlace
  <2>2. ASSUME NEW p \in Paths, NEW q \in Paths, Rename(p, q), files' = files
        PROVE  OnePlace' /\ Kept'
    BY <2>2, RenameKeepsFiles
  <2>3. ASSUME NEW p \in Names, NEW f \in Strangers, Create(p, f) PROVE OnePlace' /\ Kept'
    <3>1. /\ at[p] = NoFile /\ f \notin files /\ files' = files \cup {f}
          /\ at' = [at EXCEPT ![p] = f] /\ p \in Paths /\ f # NoFile
      BY <2>3, NameIsPath, NoFileIsNoFile DEF Create, Files
    <3>2. at'[p] = f /\ \A x \in Paths : x # p => at'[x] = at[x]
      BY <3>1 DEF TypeOK
    <3>3. OnePlace'
      BY <3>1, <3>2 DEF OnePlace
    <3>4. ASSUME NEW g \in files' PROVE \E x \in Paths : at'[x] = g
      <4>1. CASE g = f
        BY <3>1, <3>2, <4>1
      <4>2. CASE g \in files
        <5>1. PICK x \in Paths : at[x] = g
          BY <4>2
        <5>2. g # NoFile
          BY <4>2, NoFileIsNoFile DEF TypeOK
        <5> QED
          BY <3>1, <3>2, <5>1, <5>2
      <4> QED
        BY <3>1, <4>1, <4>2
    <3> QED
      BY <3>3, <3>4
  <2>4. ASSUME NEW p \in Paths, Delete(p) PROVE OnePlace' /\ Kept'
    <3>1. /\ at[p] # NoFile /\ files' = files \ {at[p]}
          /\ at' = [at EXCEPT ![p] = NoFile]
      BY <2>4 DEF Delete
    <3>2. at'[p] = NoFile /\ \A x \in Paths : x # p => at'[x] = at[x]
      BY <3>1 DEF TypeOK
    <3>3. OnePlace'
      BY <3>1, <3>2 DEF OnePlace
    <3>4. ASSUME NEW g \in files' PROVE \E x \in Paths : at'[x] = g
      <4>1. g \in files /\ g # at[p]
        BY <3>1
      <4>2. PICK x \in Paths : at[x] = g
        BY <4>1
      <4> QED
        BY <3>2, <4>1, <4>2
    <3> QED
      BY <3>3, <3>4
  <2> QED
    BY <2>1, <2>2, <2>3, <2>4, StepKinds
<1>3. TypeOK /\ OnePlace /\ Kept => NothingLost
  <2> SUFFICES ASSUME TypeOK, OnePlace, Kept, NEW f \in files
               PROVE  \E x \in Paths : at[x] = f /\ \A q \in Paths : at[q] = f => q = x
    BY DEF NothingLost
  <2>1. PICK x \in Paths : at[x] = f
    OBVIOUS
  <2>2. f # NoFile
    BY NoFileIsNoFile DEF TypeOK
  <2> QED
    BY <2>1, <2>2 DEF OnePlace
<1> QED
  BY <1>1, <1>2, <1>3, ShapeSound, PTL DEF Spec

-----------------------------------------------------------------------------
\* The file found at a source exists, or was deleted by somebody else.
THEOREM TakenSound == Spec => []TakenInv
<1>1. Init => TakenInv
  BY DEF Init, TakenInv
<1>2. TypeOK /\ CountInv /\ OnePlace /\ TakenInv /\ [Next]_vars => TakenInv'
  <2> SUFFICES ASSUME TypeOK, CountInv, OnePlace, TakenInv, [Next]_vars PROVE TakenInv'
    OBVIOUS
  <2>1. CASE Stage
    <3> DEFINE k == staged + 1
    <3>0. staged < Len(source) /\ Len(source) \in Nat /\ staged \in Nat /\ Len(source) <= MaxItems
      BY <2>1, Shape DEF Stage, CountInv
    <3>1. k \in 1 .. Len(source)
      BY <3>0
    <3>2. source[k] \in Paths
      BY <3>1, Shape, NameIsPath
    <3>3. at[source[k]] \in files \cup {NoFile}
      BY <3>2 DEF OnePlace
    <3>4. pc' # "new" /\ UNCHANGED <<files, gone>>
      BY <2>1 DEF Stage, ghosts
    <3>5. taken' = taken \/ taken' = [taken EXCEPT ![k] = at[source[k]]]
      BY <2>1 DEF Stage
    <3> QED
      BY <3>3, <3>4, <3>5 DEF TakenInv, TypeOK
  <2>2. CASE Plan \/ Prepare \/ StageCheck \/ CommitCheck \/ Look \/ Commit \/ Unwind \/ Restore
             \/ RestoreMove \/ RolledBack
    <3>1. UNCHANGED <<taken, files, gone>>
      BY <2>2 DEF Plan, Prepare, StageCheck, CommitCheck, Check, Look, Commit, Unwind, Restore,
         RestoreMove, RolledBack, ghosts
    <3>2. pc' # "new"
      BY <2>2 DEF Plan, Prepare, StageCheck, CommitCheck, Check, Goto, Look, Commit, Unwind,
         Restore, RestoreMove, RolledBack
    <3> QED
      BY <3>1, <3>2 DEF TakenInv
  <2>3. CASE Cancel \/ PauseOrResume \/ Crash \/ UNCHANGED vars
    <3>1. UNCHANGED <<taken, files, gone>> /\ (pc' = "new" => pc = "new")
      BY <2>3 DEF Cancel, PauseOrResume, Crash, vars, ghosts
    <3> QED
      BY <3>1 DEF TakenInv
  <2>4. ASSUME NEW p \in Names, NEW f \in Strangers, Create(p, f) PROVE TakenInv'
    BY <2>4 DEF Create, TakenInv
  <2>5. ASSUME NEW p \in Paths, Delete(p) PROVE TakenInv'
    BY <2>5 DEF Delete, TakenInv
  <2> QED
    BY <2>1, <2>2, <2>3, <2>4, <2>5 DEF Next
<1> QED
  BY <1>1, <1>2, ShapeSound, FilesSound, PTL DEF Spec

\* No two items have the same place.
LEMMA PlacesAreDistinct ==
  ASSUME TypeOK, CountInv, NEW k \in Items, NEW m \in Items, k # m
  PROVE  Place(k) \in Paths /\ Place(k) # Place(m)
<1>1. /\ Len(source) \in Nat /\ Items = 1 .. Len(source)
      /\ source \in [Items -> Names] /\ target \in [Items -> Names]
      /\ DOMAIN source = Items /\ DOMAIN target = Items /\ Items \subseteq 1 .. MaxItems
      /\ staged \in Nat /\ committed \in Nat /\ committed <= staged /\ staged <= Len(source)
  BY Shape DEF Items
<1>2. source[k] # source[m] /\ target[k] # target[m]
  BY <1>1 DEF CountInv, Distinct
<1>3. Temp(k) # Temp(m)
  BY TempsAreDistinct
<1>4. /\ Temp(k) \in Paths /\ Temp(k) \notin Names /\ Temp(m) \notin Names
      /\ source[k] \in Names /\ source[m] \in Names /\ target[k] \in Names /\ target[m] \in Names
      /\ source[k] \in Paths /\ target[k] \in Paths
  BY <1>1, TempIsPath, NameIsPath
<1>5. committed > 0 => k <= staged /\ m <= staged
  BY <1>1 DEF CountInv
<1>6. k \in Nat /\ k > 0 /\ m \in Nat /\ m > 0
  BY <1>1
<1> QED
  BY <1>1, <1>2, <1>3, <1>4, <1>5, <1>6 DEF Place

\* A file at its place stays there while another path is the source of a rename.
LEMMA OthersStay ==
  ASSUME TypeOK, CountInv, TakenInv, PlaceInv, errors = {},
         NEW k \in Items, NEW q \in Paths, Rename(Place(k), q),
         NEW m \in Items, m # k, taken[m] \in files
  PROVE  at'[Place(m)] = taken[m]
<1>1. Place(m) \in Paths /\ Place(m) # Place(k) /\ Place(k) \in Paths
  BY PlacesAreDistinct
<1>2. at[Place(m)] = taken[m]
  BY DEF PlaceInv, InPlace
<1>3. taken[m] # NoFile
  BY NoFileIsNoFile DEF TypeOK
<1> QED
  BY <1>1, <1>2, <1>3, RenameMoves

\* Where the items are after the counters moved past item k.
LEMMA PlacesAfter ==
  ASSUME TypeOK, CountInv, NEW k \in Items, UNCHANGED plan,
         \/ k = staged + 1 /\ staged' = k /\ committed = 0 /\ committed' = 0
         \/ k = committed + 1 /\ committed' = k /\ staged' = staged /\ k <= staged
         \/ k = committed /\ committed' = k - 1 /\ staged' = staged
         \/ k = staged /\ staged' = k - 1 /\ committed = 0 /\ committed' = 0
  PROVE  /\ \A m \in Items : m # k => Place(m)' = Place(m)
         /\ Place(k)' = IF k <= committed' THEN target[k]
                        ELSE IF k <= staged' THEN Temp(k) ELSE source[k]
<1>1. /\ Items \subseteq Nat /\ 0 \notin Items
      /\ staged \in Nat /\ committed \in Nat /\ committed <= staged
  BY Shape DEF Items
<1>2. source' = source /\ target' = target
  BY DEF plan
<1>3. ASSUME NEW m \in Items, m # k
      PROVE  (m <= committed' <=> m <= committed) /\ (m <= staged' <=> m <= staged)
  BY <1>1, <1>3
<1>4. ASSUME NEW m \in Items, m # k PROVE Place(m)' = Place(m)
  BY <1>2, <1>3, <1>4 DEF Place
<1> QED
  BY <1>2, <1>4 DEF Place

\* A rename that moves item k to its next place keeps every item in place.
LEMMA MoveKeepsPlaces ==
  ASSUME TypeOK, CountInv, TakenInv, PlaceInv, errors = {},
         NEW k \in Items, NEW q \in Paths, Rename(Place(k), q), Place(k)' = q,
         \A m \in Items : m # k => Place(m)' = Place(m),
         UNCHANGED <<source, files>>,
         taken'[k] \in files => at[Place(k)] = taken'[k],
         \A m \in Items : m # k => taken'[m] = taken[m]
  PROVE  InPlace'
<1>1. Items' = Items /\ files' = files
  BY DEF Items
<1>2. Place(k) \in Paths
  <2>1. CASE \E m \in Items : m # k
    BY <2>1, PlacesAreDistinct
  <2>2. CASE ~ \E m \in Items : m # k
    <3>1. /\ source \in [Items -> Names] /\ target \in [Items -> Names] /\ k \in 1 .. MaxItems
      BY Shape DEF Items
    <3>2. source[k] \in Paths /\ target[k] \in Paths /\ Temp(k) \in Paths
      BY <3>1, NameIsPath, TempIsPath
    <3> QED
      BY <3>2 DEF Place
  <2> QED
    BY <2>1, <2>2
<1>3. at'[q] = at[Place(k)]
  BY <1>2, RenameMoves
<1>4. ASSUME NEW m \in Items, taken'[m] \in files PROVE at'[Place(m)'] = taken'[m]
  <2>1. CASE m = k
    BY <1>3, <1>4, <2>1
  <2>2. CASE m # k
    BY <1>4, <2>2, OthersStay
  <2> QED
    BY <2>1, <2>2
<1> QED
  BY <1>1, <1>4 DEF InPlace

\* Until the rollback has an error, every file is where the counters say.
THEOREM PlacesSound == Spec => []PlaceInv
<1>1. Init => PlaceInv
  <2> SUFFICES ASSUME Init PROVE InPlace /\ TempsInUse
    BY DEF PlaceInv
  <2>1. Items = {}
    BY EmptySeq DEF Init, Items
  <2>2. ASSUME NEW k \in 1 .. MaxItems PROVE at[Temp(k)] = NoFile
    BY TempIsPath DEF Init
  <2> QED
    BY <2>1, <2>2 DEF InPlace, TempsInUse
<1>2. TypeOK /\ CountInv /\ OnePlace /\ TakenInv /\ PlaceInv /\ [Next]_vars => PlaceInv'
  <2> SUFFICES ASSUME TypeOK, CountInv, OnePlace, TakenInv, PlaceInv, [Next]_vars, errors' = {}
               PROVE  InPlace' /\ TempsInUse'
    BY DEF PlaceInv
  <2>0. /\ Items = 1 .. Len(source) /\ Len(source) \in Nat /\ Items \subseteq 1 .. MaxItems
        /\ source \in [Items -> Names] /\ target \in [Items -> Names]
        /\ staged \in Nat /\ committed \in Nat /\ committed <= staged /\ staged <= Len(source)
    BY Shape DEF Items
  <2>1. ASSUME NEW k \in Items PROVE
          /\ source[k] \in Paths /\ target[k] \in Paths /\ Temp(k) \in Paths
          /\ source[k] \in Names /\ target[k] \in Names /\ Temp(k) \notin Names
    BY <2>0, NameIsPath, TempIsPath
  <2>2. CASE Plan
    <3>1. pc = "new" /\ UNCHANGED <<at, staged, committed, taken, files, errors>>
      BY <2>2 DEF Plan, Goto, ghosts
    <3>2. \A k \in 1 .. MaxItems : taken[k] = NoFile
      BY <3>1 DEF TakenInv
    <3>3. Items' \subseteq 1 .. MaxItems
      <4>1. PICK n \in 1 .. MaxItems : source' \in [1 .. n -> Names]
        BY <2>2 DEF Plan
      <4>2. Len(source') = n
        BY <4>1, PlanIsSeq, BatchConstants
      <4> QED
        BY <4>2, BatchConstants DEF Items
    <3>4. InPlace'
      BY <3>1, <3>2, <3>3, NoFileIsNoFile DEF InPlace, TypeOK
    <3> QED
      BY <3>1, <3>4 DEF TempsInUse, PlaceInv
  <2>3. CASE Stage
    <3>0. staged < Len(source) /\ committed = 0 /\ pc = "stage"
      BY <2>3 DEF Stage, CountInv
    <3>k. PICK k \in Items : k = staged + 1
      BY <2>0, <3>0
    <3>1. k \in Items /\ k > staged /\ k > committed
      BY <2>0, <3>0, <3>k
    <3>2. Place(k) = source[k]
      BY <2>0, <3>1 DEF Place
    <3>3. errors = {} /\ UNCHANGED <<source, target, committed, files>>
      BY <2>3 DEF Stage, plan, ghosts
    <3>4. CASE Rename(source[k], Temp(k)) /\ staged' = k
               /\ taken' = [taken EXCEPT ![k] = at[source[k]]]
      <4>1. /\ \A m \in Items : m # k => Place(m)' = Place(m)
            /\ Place(k)' = IF k <= committed' THEN target[k]
                           ELSE IF k <= staged' THEN Temp(k) ELSE source[k]
        BY <3>0, <3>1, <3>3, <3>4, <3>k, PlacesAfter DEF plan
      <4>2. Place(k)' = Temp(k)
        BY <2>0, <3>0, <3>3, <3>4, <4>1
      <4>3. taken'[k] = at[source[k]] /\ \A m \in Items : m # k => taken'[m] = taken[m]
        BY <2>0, <3>1, <3>4 DEF TypeOK
      <4>4. InPlace'
        BY <2>1, <3>1, <3>2, <3>3, <3>4, <4>1, <4>2, <4>3, MoveKeepsPlaces
      <4>5. \A m \in 1 .. MaxItems : m # k => at'[Temp(m)] = at[Temp(m)]
        BY <2>1, <3>1, <3>4, RenameMoves, TempIsPath, TempsAreDistinct
      <4>6. ASSUME NEW m \in 1 .. MaxItems, at'[Temp(m)] # NoFile
            PROVE  committed' < m /\ m <= staged'
        <5>1. CASE m = k
          BY <2>0, <3>k, <3>0, <3>3, <3>4, <5>1
        <5>2. CASE m # k
          <6>1. committed < m /\ m <= staged
            BY <3>3, <4>5, <4>6, <5>2 DEF PlaceInv, TempsInUse
          <6> QED
            BY <2>0, <3>k, <3>3, <3>4, <6>1
        <5> QED
          BY <5>1, <5>2
      <4> QED
        BY <4>4, <4>6 DEF TempsInUse
    <3>5. CASE UNCHANGED <<at, staged, taken>>
      BY <3>3, <3>5 DEF PlaceInv, InPlace, TempsInUse, Place, Items
    <3> QED
      BY <2>3, <3>k, <3>4, <3>5 DEF Stage, RenameFails
  <2>4. CASE Commit
    <3>0. staged = Len(source) /\ committed < staged /\ pc = "commit"
      BY <2>4 DEF Commit, CountInv
    <3>k. PICK k \in Items : k = committed + 1
      BY <2>0, <3>0
    <3>1. k \in Items /\ k > committed /\ k <= staged
      BY <2>0, <3>0, <3>k
    <3>2. Place(k) = Temp(k)
      BY <2>0, <3>1 DEF Place
    <3>3. errors = {} /\ UNCHANGED <<source, target, staged, taken, files>>
      BY <2>4 DEF Commit, plan, ghosts
    <3>4. CASE Rename(Temp(k), target[k]) /\ committed' = k
      <4>1. /\ \A m \in Items : m # k => Place(m)' = Place(m)
            /\ Place(k)' = IF k <= committed' THEN target[k]
                           ELSE IF k <= staged' THEN Temp(k) ELSE source[k]
        BY <3>1, <3>3, <3>4, <3>k, PlacesAfter DEF plan
      <4>2. Place(k)' = target[k]
        BY <2>0, <3>4, <4>1
      <4>3. taken[k] \in files => at[Place(k)] = taken[k]
        BY <3>1, <3>3 DEF PlaceInv, InPlace
      <4>4. InPlace'
        BY <2>1, <3>1, <3>2, <3>3, <3>4, <4>1, <4>2, <4>3, MoveKeepsPlaces
      <4>5. /\ \A m \in 1 .. MaxItems : m # k => at'[Temp(m)] = at[Temp(m)]
            /\ at'[Temp(k)] = NoFile
        BY <2>1, <3>1, <3>4, RenameMoves, TempIsPath, TempsAreDistinct
      <4>6. ASSUME NEW m \in 1 .. MaxItems, at'[Temp(m)] # NoFile
            PROVE  committed' < m /\ m <= staged'
        <5>1. m # k
          BY <4>5, <4>6
        <5>2. committed < m /\ m <= staged
          BY <3>3, <4>5, <4>6, <5>1 DEF PlaceInv, TempsInUse
        <5> QED
          BY <2>0, <3>k, <3>3, <3>4, <5>1, <5>2
      <4> QED
        BY <4>4, <4>6 DEF TempsInUse
    <3>5. CASE UNCHANGED <<at, committed>>
      BY <3>3, <3>5 DEF PlaceInv, InPlace, TempsInUse, Place, Items
    <3> QED
      BY <2>4, <3>k, <3>4, <3>5 DEF Commit, RenameFails
  <2>5. CASE Unwind
    <3>1. UNCHANGED <<source, target, staged, taken, files>>
      BY <2>5 DEF Unwind, plan, ghosts
    <3>2. CASE committed = 0
      <4>1. UNCHANGED <<at, committed, errors>>
        BY <2>5, <3>2 DEF Unwind
      <4> QED
        BY <3>1, <4>1 DEF PlaceInv, InPlace, TempsInUse, Place, Items
    <3>3. CASE committed > 0
      <4>k. PICK k \in Items : k = committed
        BY <2>0, <3>3
      <4>1. k \in Items /\ k <= staged
        BY <2>0, <3>3, <4>k
      <4>2. errors = {} /\ Rename(target[k], Temp(k)) /\ committed' = k - 1
        BY <2>5, <3>3, <4>k DEF Unwind
      <4>3. Place(k) = target[k]
        BY <2>0, <4>k, <4>1 DEF Place
      <4>4. /\ \A m \in Items : m # k => Place(m)' = Place(m)
            /\ Place(k)' = IF k <= committed' THEN target[k]
                           ELSE IF k <= staged' THEN Temp(k) ELSE source[k]
        BY <3>1, <4>1, <4>2, <4>k, PlacesAfter DEF plan
      <4>5. Place(k)' = Temp(k)
        BY <2>0, <3>1, <4>k, <4>1, <4>2, <4>4
      <4>6. taken[k] \in files => at[Place(k)] = taken[k]
        BY <4>1, <4>2 DEF PlaceInv, InPlace
      <4>7. InPlace'
        BY <2>1, <3>1, <4>1, <4>2, <4>3, <4>4, <4>5, <4>6, MoveKeepsPlaces
      <4>8. \A m \in 1 .. MaxItems : m # k => at'[Temp(m)] = at[Temp(m)]
        BY <2>1, <4>1, <4>2, RenameMoves, TempIsPath, TempsAreDistinct
      <4>9. ASSUME NEW m \in 1 .. MaxItems, at'[Temp(m)] # NoFile
            PROVE  committed' < m /\ m <= staged'
        <5>1. CASE m = k
          BY <2>0, <3>1, <4>k, <4>1, <4>2, <5>1
        <5>2. CASE m # k
          <6>1. committed < m /\ m <= staged
            BY <4>2, <4>8, <4>9, <5>2 DEF PlaceInv, TempsInUse
          <6> QED
            BY <2>0, <3>1, <4>k, <4>2, <6>1
        <5> QED
          BY <5>1, <5>2
      <4> QED
        BY <4>7, <4>9 DEF TempsInUse
    <3> QED
      BY <2>0, <3>2, <3>3
  <2>6. CASE Restore
    <3>1. /\ UNCHANGED <<at, source, target, committed, taken, files>> /\ errors = {}
          /\ committed = 0 /\ staged > 0
      BY <2>6 DEF Restore, plan, ghosts, CountInv
    <3>2. CASE staged' = staged
      BY <3>1, <3>2 DEF PlaceInv, InPlace, TempsInUse, Place, Items
    <3>3. CASE at[Temp(staged)] = NoFile /\ staged' = staged - 1
      <4>1. PICK k \in Items : k = staged
        BY <2>0, <3>1
      <4>2. taken[k] \notin files
        <5>1. Place(k) = Temp(k)
          BY <2>0, <3>1, <4>1 DEF Place
        <5> QED
          BY <3>1, <3>3, <4>1, <5>1, NoFileIsNoFile DEF PlaceInv, InPlace, TypeOK
      <4>3. \A m \in Items : m # k => Place(m)' = Place(m)
        BY <3>1, <3>3, <4>1, PlacesAfter DEF plan
      <4>4. InPlace'
        BY <3>1, <4>2, <4>3 DEF PlaceInv, InPlace, Items
      <4>5. ASSUME NEW m \in 1 .. MaxItems, at[Temp(m)] # NoFile
            PROVE  committed' < m /\ m <= staged'
        <5>1. committed < m /\ m <= staged /\ m # staged
          BY <3>1, <3>3, <4>5 DEF PlaceInv, TempsInUse
        <5> QED
          BY <2>0, <3>1, <3>3, <5>1
      <4> QED
        BY <3>1, <4>4, <4>5 DEF TempsInUse
    <3> QED
      BY <2>6, <3>2, <3>3 DEF Restore
  <2>7. CASE RestoreMove
    <3>0. committed = 0 /\ staged > 0
      BY <2>7 DEF RestoreMove, Goto, CountInv
    <3>k. PICK k \in Items : k = staged
      BY <2>0, <3>0
    <3>1. committed = 0 /\ staged > 0 /\ staged' = k - 1
      BY <2>7, <3>0, <3>k DEF RestoreMove
    <3>2. errors = {} /\ Rename(Temp(k), source[k])
      BY <2>7, <3>k DEF RestoreMove
    <3>3. UNCHANGED <<source, target, committed, taken, files>>
      BY <2>7 DEF RestoreMove, plan, ghosts
    <3>4. k \in Items
      BY <3>k
    <3>5. Place(k) = Temp(k)
      BY <2>0, <3>1, <3>k DEF Place
    <3>6. /\ \A m \in Items : m # k => Place(m)' = Place(m)
          /\ Place(k)' = IF k <= committed' THEN target[k]
                         ELSE IF k <= staged' THEN Temp(k) ELSE source[k]
      BY <3>1, <3>3, <3>4, <3>k, PlacesAfter DEF plan
    <3>7. Place(k)' = source[k]
      BY <2>0, <3>k, <3>1, <3>3, <3>6
    <3>8. taken[k] \in files => at[Place(k)] = taken[k]
      BY <3>2, <3>4 DEF PlaceInv, InPlace
    <3>9. InPlace'
      BY <2>1, <3>2, <3>3, <3>4, <3>5, <3>6, <3>7, <3>8, MoveKeepsPlaces
    <3>10. /\ \A m \in 1 .. MaxItems : m # k => at'[Temp(m)] = at[Temp(m)]
           /\ at'[Temp(k)] = NoFile
      BY <2>1, <3>2, <3>4, RenameMoves, TempIsPath, TempsAreDistinct
    <3>11. ASSUME NEW m \in 1 .. MaxItems, at'[Temp(m)] # NoFile
           PROVE  committed' < m /\ m <= staged'
      <4>1. m # k
        BY <3>10, <3>11
      <4>2. committed < m /\ m <= staged
        BY <3>2, <3>10, <3>11, <4>1 DEF PlaceInv, TempsInUse
      <4> QED
        BY <2>0, <3>k, <3>1, <3>3, <4>1, <4>2
    <3> QED
      BY <3>9, <3>11 DEF TempsInUse
  <2>8. CASE Prepare \/ StageCheck \/ CommitCheck \/ Look \/ RolledBack
             \/ Cancel \/ PauseOrResume \/ Crash \/ UNCHANGED vars
    <3>1. UNCHANGED <<at, source, target, staged, committed, errors, taken, files>>
      BY <2>8 DEF Prepare, StageCheck, CommitCheck, Check, Look, RolledBack, Cancel,
         PauseOrResume, Crash, vars, plan, ghosts
    <3> QED
      BY <3>1 DEF PlaceInv, InPlace, TempsInUse, Place, Items
  <2>9. ASSUME NEW p \in Names, NEW f \in Strangers, Create(p, f) PROVE InPlace' /\ TempsInUse'
    <3>1. /\ at[p] = NoFile /\ f \notin files \cup gone /\ f # NoFile
          /\ files' = files \cup {f} /\ at' = [at EXCEPT ![p] = f]
          /\ UNCHANGED <<source, target, staged, committed, errors, taken>>
      BY <2>9, NoFileIsNoFile DEF Create, plan, Files
    <3>2. /\ InPlace /\ TempsInUse
      BY <3>1 DEF PlaceInv
    <3>3. Items' = Items /\ \A m \in Items : Place(m)' = Place(m)
      BY <3>1 DEF Items, Place
    <3>4. ASSUME NEW m \in Items, taken[m] \in files' PROVE at'[Place(m)] = taken[m]
      <4>1. taken[m] \in files /\ taken[m] # NoFile
        BY <2>0, <3>1, <3>4, NoFileIsNoFile DEF TakenInv, TypeOK
      <4>2. at[Place(m)] = taken[m] /\ Place(m) # p
        BY <3>1, <3>2, <4>1 DEF InPlace
      <4>3. Place(m) \in Paths
        BY <2>1 DEF Place
      <4> QED
        BY <3>1, <4>2, <4>3 DEF TypeOK
    <3>5. \A m \in 1 .. MaxItems : at'[Temp(m)] = at[Temp(m)]
      BY <3>1, TempIsPath DEF TypeOK
    <3> QED
      BY <3>1, <3>2, <3>3, <3>4, <3>5 DEF InPlace, TempsInUse
  <2>10. ASSUME NEW p \in Paths, Delete(p) PROVE InPlace' /\ TempsInUse'
    <3>1. /\ at[p] # NoFile /\ files' = files \ {at[p]} /\ at' = [at EXCEPT ![p] = NoFile]
          /\ UNCHANGED <<source, target, staged, committed, errors, taken>>
      BY <2>10 DEF Delete, plan
    <3>2. /\ InPlace /\ TempsInUse
      BY <3>1 DEF PlaceInv
    <3>3. Items' = Items /\ \A m \in Items : Place(m)' = Place(m)
      BY <3>1 DEF Items, Place
    <3>4. ASSUME NEW m \in Items, taken[m] \in files' PROVE at'[Place(m)] = taken[m]
      <4>1. taken[m] \in files /\ taken[m] # at[p]
        BY <3>1, <3>4
      <4>2. at[Place(m)] = taken[m]
        BY <3>2, <4>1 DEF InPlace
      <4>3. Place(m) \in Paths
        BY <2>1 DEF Place
      <4> QED
        BY <3>1, <4>1, <4>2, <4>3 DEF TypeOK
    <3>5. \A m \in 1 .. MaxItems : at'[Temp(m)] # NoFile => at[Temp(m)] # NoFile
      BY <3>1, TempIsPath DEF TypeOK
    <3> QED
      BY <3>1, <3>2, <3>3, <3>4, <3>5 DEF InPlace, TempsInUse
  <2> QED
    BY <2>2, <2>3, <2>4, <2>5, <2>6, <2>7, <2>8, <2>9, <2>10 DEF Next
<1> QED
  BY <1>1, <1>2, ShapeSound, FilesSound, TakenSound, PTL DEF Spec

\* The answer of a batch rename is true: success means that every file is at its new name,
\* a plain error that every file is back, and neither leaves a file at a temporary name.
THEOREM AnswersAreHonest == Spec => []HonestAnswer
<1>1. TypeOK /\ CountInv /\ PlaceInv => HonestAnswer
  <2> SUFFICES ASSUME TypeOK, CountInv, PlaceInv PROVE HonestAnswer
    OBVIOUS
  <2>0. /\ Items = 1 .. Len(source) /\ Len(source) \in Nat
        /\ staged \in Nat /\ committed \in Nat /\ committed <= staged /\ staged <= Len(source)
    BY Shape DEF Items
  <2>1. CASE pc = "ok"
    <3>1. staged = Len(source) /\ committed = staged /\ InPlace /\ TempsInUse
      BY <2>1 DEF CountInv, PlaceInv
    <3>2. \A k \in Items : Place(k) = target[k]
      BY <2>0, <3>1 DEF Place
    <3>3. \A k \in 1 .. MaxItems : at[Temp(k)] = NoFile
      BY <2>0, <3>1, BatchConstants DEF TempsInUse
    <3> QED
      BY <2>1, <3>1, <3>2, <3>3 DEF HonestAnswer, InPlace, Temps
  <2>2. CASE pc = "undone"
    <3>1. staged = 0 /\ committed = 0 /\ InPlace /\ TempsInUse
      BY <2>2 DEF CountInv, PlaceInv
    <3>2. \A k \in Items : Place(k) = source[k]
      BY <2>0, <3>1 DEF Place
    <3>3. \A k \in 1 .. MaxItems : at[Temp(k)] = NoFile
      BY <3>1, BatchConstants DEF TempsInUse
    <3> QED
      BY <2>2, <3>1, <3>2, <3>3 DEF HonestAnswer, InPlace, Temps
  <2>3. CASE pc \notin {"ok", "undone"}
    BY <2>3 DEF HonestAnswer
  <2> QED
    BY <2>1, <2>2, <2>3
<1> QED
  BY <1>1, ShapeSound, PlacesSound, PTL

-----------------------------------------------------------------------------
\* A rollback that nobody disturbs succeeds, cycles and chains of names included.
THEOREM UndisturbedUndoSucceeds == Spec => []UndisturbedUndo
<1>1. Init => QuietInv
  BY DEF Init, QuietInv
<1>2. TypeOK /\ CountInv /\ OnePlace /\ PlaceInv /\ QuietInv /\ [Next]_vars => QuietInv'
  <2> SUFFICES ASSUME TypeOK, CountInv, OnePlace, PlaceInv, QuietInv, [Next]_vars,
                      ~disturbed'
               PROVE  /\ errors' = {}
                      /\ \A k \in 1 .. staged' :
                           /\ taken'[k] \in files'
                           /\ at'[source'[k]] # NoFile =>
                                \E m \in 1 .. committed' : target'[m] = source'[k]
    BY DEF QuietInv
  <2>0. /\ Items = 1 .. Len(source) /\ Len(source) \in Nat /\ Items \subseteq 1 .. MaxItems
        /\ source \in [Items -> Names] /\ target \in [Items -> Names]
        /\ DOMAIN source = Items /\ DOMAIN target = Items
        /\ staged \in Nat /\ committed \in Nat /\ committed <= staged /\ staged <= Len(source)
    BY Shape DEF Items
  <2>1. ASSUME NEW k \in Items PROVE
          /\ source[k] \in Paths /\ target[k] \in Paths /\ Temp(k) \in Paths
          /\ source[k] \in Names /\ target[k] \in Names /\ Temp(k) \notin Names
    BY <2>0, NameIsPath, TempIsPath
  <2>a. ~disturbed
    BY DEF Next, vars, ghosts, Plan, Prepare, StageCheck, Stage, CommitCheck, Check, Look, Commit,
       Unwind, Restore, RestoreMove, RolledBack, Cancel, PauseOrResume, Crash, Create, Delete
  <2>2. /\ errors = {} /\ InPlace /\ TempsInUse
        /\ \A k \in 1 .. staged :
             /\ taken[k] \in files
             /\ at[source[k]] # NoFile => \E m \in 1 .. committed : target[m] = source[k]
    BY <2>a DEF QuietInv, PlaceInv
  <2>3. \A k, m \in Items : k # m => source[k] # source[m] /\ target[k] # target[m]
    BY <2>0 DEF CountInv, Distinct
  <2>4. NoFile \notin files
    BY NoFileIsNoFile DEF TypeOK
  <2>5. CASE Stage
    <3>0. staged < Len(source) /\ committed = 0
      BY <2>5 DEF Stage, CountInv
    <3>1. PICK k \in Items : k = staged + 1
      BY <2>0, <3>0
    <3>2. UNCHANGED <<source, target, committed, errors, files>>
      BY <2>5 DEF Stage, plan, ghosts
    <3>3. CASE Rename(source[k], Temp(k)) /\ staged' = k
               /\ taken' = [taken EXCEPT ![k] = at[source[k]]]
      <4>1. /\ at[source[k]] # NoFile /\ at'[source[k]] = NoFile
            /\ \A x \in Names : x # source[k] => at'[x] = at[x]
        BY <2>1, <3>1, <3>3, RenameMoves, NameIsPath, NoFileIsNoFile
      <4>2. at[source[k]] \in files
        BY <2>1, <3>1, <4>1 DEF OnePlace
      <4>3. /\ taken'[k] = at[source[k]]
            /\ \A m \in 1 .. staged : taken'[m] = taken[m]
        BY <2>0, <3>1, <3>3 DEF TypeOK
      <4>4. ASSUME NEW m \in 1 .. k PROVE taken'[m] \in files /\ at'[source[m]] = NoFile
        <5>1. CASE m = k
          BY <4>1, <4>2, <4>3, <5>1
        <5>2. CASE m # k
          <6>1. m \in 1 .. staged /\ m \in Items
            BY <2>0, <3>1, <5>2
          <6>2. at[source[m]] = NoFile /\ taken[m] \in files
            BY <2>2, <3>0, <6>1
          <6>3. source[m] \in Names /\ source[m] # source[k]
            BY <2>1, <2>3, <3>1, <5>2, <6>1
          <6> QED
            BY <4>1, <4>3, <6>1, <6>2, <6>3
        <5> QED
          BY <5>1, <5>2
      <4> QED
        BY <2>2, <3>2, <3>3, <4>4
    <3>4. CASE UNCHANGED <<at, staged, taken>>
      BY <2>2, <3>2, <3>4
    <3> QED
      BY <2>5, <3>1, <3>3, <3>4 DEF Stage, RenameFails
  <2>6. CASE Commit
    <3>0. staged = Len(source) /\ committed < staged
      BY <2>6 DEF Commit, CountInv
    <3>1. PICK k \in Items : k = committed + 1
      BY <2>0, <3>0
    <3>2. UNCHANGED <<source, target, staged, errors, taken, files>>
      BY <2>6 DEF Commit, plan, ghosts
    <3>3. CASE Rename(Temp(k), target[k]) /\ committed' = k
      <4>1. \A x \in Names : x # target[k] => at'[x] = at[x]
        BY <2>1, <3>1, <3>3, RenameMoves, NameIsPath
      <4>2. ASSUME NEW m \in 1 .. staged, at'[source[m]] # NoFile
            PROVE  \E n \in 1 .. k : target[n] = source[m]
        <5>1. CASE source[m] = target[k]
          BY <2>0, <5>1
        <5>2. CASE source[m] # target[k]
          <6>1. at[source[m]] # NoFile
            BY <2>0, <2>1, <4>1, <4>2, <5>2
          <6>2. PICK n \in 1 .. committed : target[n] = source[m]
            BY <2>2, <6>1
          <6> QED
            BY <2>0, <3>1, <6>2
        <5> QED
          BY <5>1, <5>2
      <4> QED
        BY <2>2, <3>2, <3>3, <4>2
    <3>4. CASE UNCHANGED <<at, committed>>
      BY <2>2, <3>2, <3>4
    <3> QED
      BY <2>6, <3>1, <3>3, <3>4 DEF Commit, RenameFails
  <2>7. CASE Unwind
    <3>1. UNCHANGED <<source, target, staged, taken, files>>
      BY <2>7 DEF Unwind, plan, ghosts
    <3>2. CASE committed = 0
      <4>1. UNCHANGED <<at, committed, errors>>
        BY <2>7, <3>2 DEF Unwind
      <4> QED
        BY <2>2, <3>1, <4>1
    <3>3. CASE committed > 0
      <4>1. PICK k \in Items : k = committed
        BY <2>0, <3>3
      <4>2. at[target[k]] # NoFile /\ at[Temp(k)] = NoFile
        <5>1. Place(k) = target[k]
          BY <2>0, <4>1 DEF Place
        <5>2. k \in 1 .. staged
          BY <2>0, <4>1
        <5> QED
          BY <2>0, <2>2, <2>4, <4>1, <5>1, <5>2 DEF InPlace, TempsInUse
      <4>3. Rename(target[k], Temp(k)) /\ errors' = {} /\ committed' = k - 1
        <5>1. CanRename(target[committed], Temp(committed))
          BY <4>1, <4>2 DEF CanRename
        <5>2. committed # 0
          BY <2>0, <3>3
        <5>3. /\ Rename(target[committed], Temp(committed)) /\ UNCHANGED errors
              /\ committed' = committed - 1
          BY <2>7, <5>1, <5>2, Zenon DEF Unwind
        <5> QED
          BY <2>2, <4>1, <5>3
      <4>4. at'[target[k]] = NoFile /\ \A x \in Names : x # target[k] => at'[x] = at[x]
        BY <2>1, <4>1, <4>3, RenameMoves, NameIsPath
      <4>5. ASSUME NEW m \in 1 .. staged, at'[source[m]] # NoFile
            PROVE  \E n \in 1 .. k - 1 : target[n] = source[m]
        <5>1. source[m] # target[k]
          BY <4>4, <4>5
        <5>2. at[source[m]] # NoFile
          BY <2>0, <2>1, <4>4, <4>5, <5>1
        <5>3. PICK n \in 1 .. committed : target[n] = source[m]
          BY <2>2, <5>2
        <5> QED
          BY <2>0, <4>1, <5>1, <5>3
      <4> QED
        BY <2>2, <3>1, <4>3, <4>5
    <3> QED
      BY <2>0, <3>2, <3>3
  <2>8. CASE Restore
    <3>1. /\ UNCHANGED <<at, source, target, committed, taken, files>>
          /\ committed = 0 /\ staged > 0
      BY <2>8 DEF Restore, plan, ghosts, CountInv
    <3>2. at[source[staged]] = NoFile
      BY <2>0, <2>2, <3>1
    <3>3. errors' = {} /\ (staged' = staged \/ staged' = staged - 1)
      BY <2>2, <2>8, <3>2 DEF Restore
    <3>4. 1 .. staged' \subseteq 1 .. staged
      BY <2>0, <3>3
    <3> QED
      BY <2>2, <3>1, <3>3, <3>4
  <2>9. CASE RestoreMove
    <3>0. committed = 0 /\ staged > 0
      BY <2>9 DEF RestoreMove, Goto, CountInv
    <3>1. PICK k \in Items : k = staged
      BY <2>0, <3>0
    <3>2. UNCHANGED <<source, target, committed, taken, files>>
      BY <2>9 DEF RestoreMove, plan, ghosts
    <3>3. at[source[k]] = NoFile /\ at[Temp(k)] # NoFile
      <4>1. Place(k) = Temp(k)
        BY <2>0, <3>0, <3>1 DEF Place
      <4>2. k \in 1 .. staged
        BY <2>0, <3>0, <3>1
      <4> QED
        BY <2>2, <2>4, <3>0, <3>1, <4>1, <4>2 DEF InPlace
    <3>4. Rename(Temp(k), source[k]) /\ errors' = {} /\ staged' = k - 1
      BY <2>2, <2>9, <3>1, <3>3 DEF RestoreMove, RenameFails, CanRename
    <3>5. \A x \in Names : x # source[k] => at'[x] = at[x]
      BY <2>1, <3>1, <3>4, RenameMoves, NameIsPath
    <3>6. ASSUME NEW m \in 1 .. k - 1 PROVE taken[m] \in files /\ at'[source[m]] = NoFile
      <4>1. m \in 1 .. staged /\ m \in Items /\ m # k
        BY <2>0, <3>1
      <4>2. at[source[m]] = NoFile /\ taken[m] \in files
        BY <2>2, <3>0, <4>1
      <4> QED
        BY <2>1, <2>3, <3>1, <3>5, <4>1, <4>2
    <3> QED
      BY <3>2, <3>4, <3>6
  <2>10. CASE Plan
    <3>1. staged' = 0 /\ errors' = errors
      BY <2>10 DEF Plan, Goto, CountInv
    <3> QED
      BY <2>2, <3>1
  <2>11. CASE Prepare \/ StageCheck \/ CommitCheck \/ Look \/ RolledBack
              \/ Cancel \/ PauseOrResume \/ Crash \/ UNCHANGED vars
    <3>1. UNCHANGED <<at, source, target, staged, committed, errors, taken, files>>
      BY <2>11 DEF Prepare, StageCheck, CommitCheck, Check, Look, RolledBack, Cancel,
         PauseOrResume, Crash, vars, plan, ghosts
    <3> QED
      BY <2>2, <3>1
  <2>12. CASE (\E p \in Names, f \in Strangers : Create(p, f)) \/ (\E p \in Paths : Delete(p))
    BY <2>12 DEF Create, Delete
  <2> QED
    BY <2>5, <2>6, <2>7, <2>8, <2>9, <2>10, <2>11, <2>12 DEF Next
<1>3. CountInv /\ QuietInv => UndisturbedUndo
  <2> SUFFICES ASSUME CountInv, QuietInv, ~disturbed, pc = "stuck"
               PROVE  FALSE
    BY DEF UndisturbedUndo
  <2>1. errors = {}
    BY DEF QuietInv
  <2> QED
    BY <2>1 DEF CountInv
<1> QED
  BY <1>1, <1>2, <1>3, ShapeSound, FilesSound, PlacesSound, PTL DEF Spec

=============================================================================
