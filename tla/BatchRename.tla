---------------------------- MODULE BatchRename ----------------------------
(***************************************************************************)
(* The batch rename of the fs-core crate: the files of one directory are   *)
(* renamed in two passes, first each to a fresh temporary name, then each  *)
(* to its new name, so that swaps and cycles work.  A pass that fails or   *)
(* is cancelled is rolled back.  Every rename refuses to replace a file.   *)
(* Other programs create and delete files between any two system calls.    *)
(*                                                                         *)
(* Files 1 .. staged have left their source, files 1 .. committed have     *)
(* reached their target; a rollback counts both down again.                *)
(***************************************************************************)
EXTENDS Integers, Sequences

CONSTANTS
    Names,          \* the names in the directory
    Strangers,      \* the files other programs may create
    NoFile,
    MaxItems,       \* bound on the items of a plan
    OthersDelete,   \* whether other programs delete files
    RenamesMayFail  \* whether a system call may fail for no reason seen here

Temp(k) == <<"temporary", k>>
Temps   == {Temp(k) : k \in 1 .. MaxItems}
Paths   == Names \cup Temps

\* The file that has name n at first is called n.
Files == Names \cup Strangers

ASSUME BatchConstants ==
    /\ MaxItems \in Nat
    /\ Names \cap Strangers = {} /\ NoFile \notin Files
    /\ OthersDelete \in BOOLEAN /\ RenamesMayFail \in BOOLEAN

\* Temporary names are random and do not exist yet.
ASSUME TemporariesAreFresh == Names \cap Temps = {}

VARIABLES
    at,         \* the directory: the file at each path
    pc,         \* where execute_batch_rename is
    source,     \* the plan: the name of each item ...
    target,     \* ... and its new name
    staged,
    committed,
    errors,     \* the items the rollback had errors with
    cancel, paused,
    taken,      \* ghost: the file that was found at each source
    files, gone,\* ghost: the files there are, and those other programs deleted
    disturbed   \* ghost: other programs were at work, or a call of the rollback failed for
                \* no reason seen here

plan   == <<source, target>>
tokens == <<cancel, paused>>
ghosts == <<files, gone, disturbed>>
vars   == <<at, pc, plan, staged, committed, errors, tokens, taken, ghosts>>

Items    == 1 .. Len(source)
Forward  == {"stageCheck", "stage", "commitCheck", "look", "commit"}
Rollback == {"unwind", "restore", "restoring"}
Over     == {"refused", "ok", "undone", "stuck", "crashed"}

TypeOK ==
    /\ at \in [Paths -> Files \cup {NoFile}]
    /\ pc \in {"new", "planned"} \cup Forward \cup Rollback \cup Over
    /\ {source, target} \subseteq Seq(Names)
    /\ Len(source) <= MaxItems /\ Len(target) = Len(source)
    /\ staged \in 0 .. Len(source) /\ committed \in 0 .. staged
    /\ errors \subseteq 1 .. MaxItems /\ cancel \in BOOLEAN /\ paused \in BOOLEAN
    /\ taken \in [1 .. MaxItems -> Files \cup {NoFile}]
    /\ files \subseteq Files /\ gone \subseteq Files /\ disturbed \in BOOLEAN

Init ==
    /\ \E present \in SUBSET Names :
        /\ at = [p \in Paths |-> IF p \in present THEN p ELSE NoFile]
        /\ files = present
    /\ pc = "new"
    /\ source = <<>> /\ target = <<>>
    /\ staged = 0 /\ committed = 0
    /\ errors = {}
    /\ cancel = FALSE /\ paused = FALSE
    /\ taken = [k \in 1 .. MaxItems |-> NoFile]
    /\ gone = {} /\ disturbed = FALSE

Goto(from, to) == pc = from /\ pc' = to

-----------------------------------------------------------------------------
(* The plan.                                                               *)

Distinct(f) == \A k, m \in DOMAIN f : f[k] = f[m] => k = m

\* Every source is there; a new name is free or the name of another source.
Renamable(s, t) ==
    /\ Distinct(s) /\ Distinct(t)
    /\ \A k \in DOMAIN s : at[s[k]] # NoFile
    /\ \A k \in DOMAIN t : at[t[k]] # NoFile => \E m \in DOMAIN s : s[m] = t[k]

\* plan_batch_rename_items; items that keep their name are left out.  The checks are one
\* step: what a plan found may be gone by the time it is executed anyhow.
Plan ==
    /\ Goto("new", "planned")
    /\ \E n \in 1 .. MaxItems : source' \in [1 .. n -> Names] /\ target' \in [1 .. n -> Names]
    /\ Renamable(source', target')
    /\ \A k \in DOMAIN source' : source'[k] # target'[k]
    /\ UNCHANGED <<at, staged, committed, errors, tokens, taken, ghosts>>

\* prepare_batch_rename_stages checks the plan again.
Prepare ==
    /\ \/ Renamable(source, target) /\ Goto("planned", "stageCheck")
       \/ (RenamesMayFail \/ ~Renamable(source, target)) /\ Goto("planned", "refused")
    /\ UNCHANGED <<at, plan, staged, committed, errors, tokens, taken, ghosts>>

-----------------------------------------------------------------------------
(* The two passes.                                                         *)

\* Mutant: a rename replaces what is at its destination.
CanReplace(p, q) == at[p] # NoFile

\* rename_no_replace succeeds only then ...
CanRename(p, q) == at[p] # NoFile /\ at[q] = NoFile

Rename(p, q) ==
    /\ CanRename(p, q)
    /\ at' = [at EXCEPT ![q] = at[p], ![p] = NoFile]

\* ... and fails otherwise, or for reasons of the file system.
RenameFails(p, q) ==
    /\ RenamesMayFail \/ ~CanRename(p, q)
    /\ UNCHANGED at

\* Mutant: a cancelled job leaves the files that reached their new name there.
CheckSkipsUnwind(from, to) ==
    /\ ~paused \/ cancel
    /\ IF cancel THEN Goto(from, "restore") ELSE Goto(from, to)
    /\ UNCHANGED <<at, plan, staged, committed, errors, tokens, taken, ghosts>>

\* check_cancelled waits while the job is paused and not cancelled.
Check(from, to) ==
    /\ ~paused \/ cancel
    /\ IF cancel THEN Goto(from, "unwind") ELSE Goto(from, to)
    /\ UNCHANGED <<at, plan, staged, committed, errors, tokens, taken, ghosts>>

StageCheck  == Check("stageCheck", "stage")
CommitCheck == Check("commitCheck", "look")

Stage ==
    LET k == staged + 1
    IN  /\ pc = "stage"
        /\ \/ /\ Rename(source[k], Temp(k))
              /\ pc' = IF k = Len(source) THEN "commitCheck" ELSE "stageCheck"
              /\ staged' = k
              /\ taken' = [taken EXCEPT ![k] = at[source[k]]]
           \/ /\ RenameFails(source[k], Temp(k))
              /\ pc' = "unwind"
              /\ UNCHANGED <<staged, taken>>
        /\ UNCHANGED <<plan, committed, errors, tokens, ghosts>>

\* symlink_metadata of the new name
Look ==
    /\ pc = "look"
    /\ \/ at[target[committed + 1]] = NoFile /\ pc' = "commit"
       \/ (RenamesMayFail \/ at[target[committed + 1]] # NoFile) /\ pc' = "unwind"
    /\ UNCHANGED <<at, plan, staged, committed, errors, tokens, taken, ghosts>>

Commit ==
    LET k == committed + 1
    IN  /\ pc = "commit"
        /\ \/ /\ Rename(Temp(k), target[k])
              /\ pc' = IF k = Len(source) THEN "ok" ELSE "commitCheck"
              /\ committed' = k
           \/ /\ RenameFails(Temp(k), target[k])
              /\ pc' = "unwind"
              /\ UNCHANGED committed
        /\ UNCHANGED <<plan, staged, errors, tokens, taken, ghosts>>

-----------------------------------------------------------------------------
(* rollback_batch_rename, last item first.                                 *)

\* Mutant: files are restored without taking the committed ones out of the way first.
UnwindNothing ==
    /\ Goto("unwind", "restore")
    /\ committed' = 0
    /\ UNCHANGED <<at, plan, staged, errors, tokens, taken, ghosts>>

\* Files that reached their new name go back to their temporary one ...
Unwind ==
    /\ pc = "unwind"
    /\ \/ committed = 0 /\ pc' = "restore" /\ UNCHANGED <<at, committed, errors, disturbed>>
       \/ /\ committed > 0
          /\ committed' = committed - 1
          /\ \/ Rename(target[committed], Temp(committed)) /\ UNCHANGED <<errors, disturbed>>
             \/ /\ RenameFails(target[committed], Temp(committed))
                /\ errors' = errors \cup {committed}
                /\ disturbed' = (disturbed \/ CanRename(target[committed], Temp(committed)))
          /\ UNCHANGED pc
    /\ UNCHANGED <<plan, staged, tokens, taken, files, gone>>

\* Mutant: a source that is taken is not an error.
RestoreQuietly ==
    /\ pc = "restore" /\ staged > 0
    /\ IF at[Temp(staged)] # NoFile /\ at[source[staged]] = NoFile
       THEN pc' = "restoring" /\ UNCHANGED staged
       ELSE staged' = staged - 1 /\ UNCHANGED pc
    /\ UNCHANGED <<at, plan, committed, errors, tokens, taken, ghosts>>

\* ... and every file at a temporary name to its source, if that is free.
Restore ==
    /\ pc = "restore" /\ staged > 0
    /\ \/ at[Temp(staged)] # NoFile /\ at[source[staged]] = NoFile
          /\ pc' = "restoring" /\ UNCHANGED <<staged, errors, disturbed>>
       \/ at[Temp(staged)] = NoFile
          /\ staged' = staged - 1 /\ UNCHANGED <<pc, errors, disturbed>>
       \/ (RenamesMayFail \/ (at[Temp(staged)] # NoFile /\ at[source[staged]] # NoFile))
          /\ staged' = staged - 1 /\ errors' = errors \cup {staged} /\ UNCHANGED pc
          /\ disturbed' = (disturbed \/ at[Temp(staged)] = NoFile \/ at[source[staged]] = NoFile)
    /\ UNCHANGED <<at, plan, committed, tokens, taken, files, gone>>

RestoreMove ==
    /\ Goto("restoring", "restore")
    /\ staged' = staged - 1
    /\ \/ Rename(Temp(staged), source[staged]) /\ UNCHANGED <<errors, disturbed>>
       \/ /\ RenameFails(Temp(staged), source[staged])
          /\ errors' = errors \cup {staged}
          /\ disturbed' = (disturbed \/ CanRename(Temp(staged), source[staged]))
    /\ UNCHANGED <<plan, committed, tokens, taken, files, gone>>

\* batch_rename_failure: the first error, with "rollback incomplete" if there were others.
RolledBack ==
    /\ staged = 0
    /\ Goto("restore", IF errors = {} THEN "undone" ELSE "stuck")
    /\ UNCHANGED <<at, plan, staged, committed, errors, tokens, taken, ghosts>>

-----------------------------------------------------------------------------
(* The user, other programs, and the end of the process.                   *)

Cancel ==
    /\ pc \notin Over
    /\ cancel' = TRUE
    /\ UNCHANGED <<at, pc, plan, staged, committed, errors, paused, taken, ghosts>>

PauseOrResume ==
    /\ pc \notin Over
    /\ paused' = ~paused
    /\ UNCHANGED <<at, pc, plan, staged, committed, errors, cancel, taken, ghosts>>

\* Nobody guesses a temporary name, but what is there can be deleted.
Create(p, f) ==
    /\ pc \notin Over
    /\ at[p] = NoFile /\ f \notin files \cup gone
    /\ at' = [at EXCEPT ![p] = f]
    /\ files' = files \cup {f} /\ disturbed' = TRUE
    /\ UNCHANGED <<pc, plan, staged, committed, errors, tokens, taken, gone>>

Delete(p) ==
    /\ OthersDelete
    /\ pc \notin Over
    /\ at[p] # NoFile
    /\ at' = [at EXCEPT ![p] = NoFile]
    /\ files' = files \ {at[p]}
    /\ gone' = gone \cup {at[p]} /\ disturbed' = TRUE
    /\ UNCHANGED <<pc, plan, staged, committed, errors, tokens, taken>>

Crash ==
    /\ pc \notin Over
    /\ pc' = "crashed"
    /\ UNCHANGED <<at, plan, staged, committed, errors, tokens, taken, ghosts>>

Next ==
    \/ Plan \/ Prepare
    \/ StageCheck \/ Stage \/ CommitCheck \/ Look \/ Commit
    \/ Unwind \/ Restore \/ RestoreMove \/ RolledBack
    \/ Cancel \/ PauseOrResume \/ Crash
    \/ \E p \in Names, f \in Strangers : Create(p, f)
    \/ \E p \in Paths : Delete(p)

Spec == Init /\ [][Next]_vars

-----------------------------------------------------------------------------
(* Properties.                                                             *)

\* Whatever happens, every file that nobody else deleted is at exactly one path: neither
\* the passes nor the rollback nor a crash between any two calls loses or doubles one.
NothingLost ==
    \A f \in files : \E p \in Paths :
        at[p] = f /\ \A q \in Paths : at[q] = f => q = p

\* The answer is the truth: after success every file is at its new name, after a plain
\* error every file is back at its old one, as far as nobody else deleted it; and
\* neither leaves a file at a temporary name.
HonestAnswer ==
    /\ pc = "ok" => \A k \in Items : taken[k] \in files => at[target[k]] = taken[k]
    /\ pc = "undone" => \A k \in Items : taken[k] \in files => at[source[k]] = taken[k]
    /\ pc \in {"ok", "undone"} => \A t \in Temps : at[t] = NoFile

\* A rollback nobody disturbs succeeds, cycles included, from wherever it starts: after a
\* cancel, and after any failure of the two passes.
UndisturbedUndo == ~disturbed => pc # "stuck"

-----------------------------------------------------------------------------
(* The inductive invariants behind them.                                   *)

\* Where the rename has the file of item k.
Place(k) ==
    IF k <= committed THEN target[k] ELSE IF k <= staged THEN Temp(k) ELSE source[k]

\* A file is at one path at most, and what is at a path is a file that there is.
OnePlace ==
    /\ \A p, q \in Paths : at[p] = at[q] /\ at[p] # NoFile => p = q
    /\ \A p \in Paths : at[p] # NoFile => at[p] \in files

\* The counters and the program point.
CountInv ==
    /\ pc \in {"new", "planned", "refused"} => staged = 0
    /\ pc \notin {"new", "crashed"} => Len(source) > 0
    /\ pc \in {"stageCheck", "stage"} => committed = 0 /\ staged < Len(source)
    /\ pc \in {"commitCheck", "look", "commit"} => staged = Len(source) /\ committed < staged
    /\ pc = "ok" => staged = Len(source) /\ committed = staged
    /\ pc \in {"restore", "restoring", "undone", "stuck"} => committed = 0
    /\ pc = "restoring" => staged > 0
    /\ pc \in {"undone", "stuck"} => staged = 0
    /\ committed > 0 => staged = Len(source)
    /\ pc = "stuck" => errors # {}
    /\ pc \in {"ok", "undone"} \/ pc \notin Rollback \cup Over => errors = {}
    /\ Distinct(source) /\ Distinct(target)

\* What was found at a source was a file that is there, or that somebody deleted since.
TakenInv ==
    \A k \in 1 .. MaxItems :
        /\ taken[k] \in files \cup gone \cup {NoFile}
        /\ pc = "new" => taken[k] = NoFile

\* Every file taken is at its place, if nobody deleted it, and temporary names hold
\* nothing but files that are staged and not committed.
InPlace    == \A k \in Items : taken[k] \in files => at[Place(k)] = taken[k]
TempsInUse == \A k \in 1 .. MaxItems : at[Temp(k)] # NoFile => committed < k /\ k <= staged

\* So it is until the rollback has an error.
PlaceInv == errors = {} => InPlace /\ TempsInUse

\* Undisturbed, the source of a staged file is free, unless a committed one is there.
QuietInv ==
    ~disturbed =>
        /\ errors = {}
        /\ \A k \in 1 .. staged :
             /\ taken[k] \in files
             /\ at[source[k]] # NoFile => \E m \in 1 .. committed : target[m] = source[k]

=============================================================================
