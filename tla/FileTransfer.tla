---------------------------- MODULE FileTransfer ----------------------------
(***************************************************************************)
(* Copying and moving local files and directories (the copy and move       *)
(* executors of the fs-core crate).  A plan lists the items below the      *)
(* roots with a target for each, below one of the top folders.  The items  *)
(* are copied one by one, a file by way of a staging file beside its       *)
(* target; what to do about a target that exists is decided when the item  *)
(* is copied.  A move of one root tries a rename first; any other move     *)
(* copies, then removes the sources of the roots it copied completely.     *)
(*                                                                         *)
(* One action is one or several system calls on one path.  Other programs  *)
(* create and delete files between them.  A copy of a file is the file, as *)
(* far as losing it goes: at[p] is the content of the file at path p.      *)
(***************************************************************************)
EXTENDS Integers, Sequences, FiniteSets

CONSTANTS
    Tops,           \* folders that are always there
    Names,
    Initial,        \* bound: the paths where there may be something at first
    Strangers,      \* the files other programs may create ...
    OthersAt,       \* ... and bound: where
    Nothing, Dir,
    LastNumber,     \* 9_999: the last number next_available_path tries
    Kinds, Policies,\* bounds: the operations and conflict policies of the instance
    MaxRoots,       \* bound on the sources of an operation
    DeletedAt,      \* the paths at which other programs delete files
    CallsMayFail    \* whether a system call may fail for no reason seen here

Numbered(n, i) == <<n, i>>
Entries == Names \cup {Numbered(n, i) : n \in Names, i \in 1 .. LastNumber}
Paths   == {<<t, n>> : t \in Tops, n \in Entries}
             \cup {<<t, n, m>> : t \in Tops, n \in Entries, m \in Entries}

\* The file that is at path p at first is called p.
Files == Initial \cup Strangers

ASSUME TransferConstants ==
    /\ LastNumber \in Nat \ {0} /\ MaxRoots \in Nat
    /\ \A n, m \in Names, i \in 1 .. LastNumber : n # Numbered(m, i)
    /\ \A p \in Initial : p \in Paths /\ \A k \in 2 .. Len(p) : p[k] \in Names
    /\ OthersAt \subseteq Paths /\ DeletedAt \subseteq Paths
    /\ Initial \cap Strangers = {} /\ Nothing # Dir /\ {Nothing, Dir} \cap Files = {}
    /\ Kinds \subseteq {"copy", "move"}
    /\ Policies \subseteq {"fail", "skip", "overwrite", "renameNew", "renameExisting"}
    /\ CallsMayFail \in BOOLEAN

VARIABLES
    at,         \* what is at each path
    pc,
    kind, policy, roots, top,   \* the request
    oneDevice,  \* whether the top folders are on one device
    items,      \* plan.items: [source, target, dir]
    conflicts,  \* plan.conflicts: the targets that existed
    todo,       \* the items the loop has not come to
    item,       \* the item it is at
    doing,      \* what the conflict is resolved for: "move", "file" or "dir"
    goal,       \* the path that is resolved ...
    to,         \* ... what it is resolved to ...
    spare,      \* ... and where what was there is to go
    held,       \* the content of the staging file
    copied,     \* copied_items
    removing,   \* sources_to_remove
    cancel,     \* CancellationToken
    found,      \* ghost: the files below the roots when the plan was made
    files,      \* ghost: the files there were, except those other programs deleted
    overwritten \* ghost: the files removed because the policy says so

request == <<kind, policy, roots, top, oneDevice, items, conflicts, found>>
copying == <<todo, item, held, copied, removing>>
target  == <<doing, goal, to, spare>>
ghosts  == <<files, overwritten>>
vars    == <<at, pc, request, copying, target, cancel, ghosts>>

Over   == {"refused", "ok", "cancelled", "error", "crashed"}
NoItem == [source |-> <<>>, target |-> <<>>, dir |-> FALSE]

-----------------------------------------------------------------------------
(* Paths and trees.                                                        *)

Folder(p)    == SubSeq(p, 1, Len(p) - 1)
Within(p, q) == Len(p) >= Len(q) /\ SubSeq(p, 1, Len(q)) = q
Below(p, q)  == Within(p, q) /\ p # q

HasFolder(p) == Len(p) > 2 => at[Folder(p)] = Dir
IsFile(p)    == at[p] \in Files
Empty(p)     == \A q \in Paths : Below(q, p) => at[q] = Nothing

TreeShape == \A p \in Paths : at[p] # Nothing => HasFolder(p)

TypeOK ==
    /\ at \in [Paths -> Files \cup {Nothing, Dir}] /\ TreeShape
    /\ pc \in {"new", "planned", "next", "stage", "resolve", "clear", "aside", "act", "settle",
               "remove"} \cup Over
    /\ \A i \in items : {i.source, i.target} \subseteq Paths /\ i.dir \in BOOLEAN
    /\ todo \subseteq items /\ copied \subseteq items
    /\ held \in Files \cup {Nothing} /\ (held # Nothing => pc \notin Over \ {"crashed"})
    /\ removing \subseteq {i.source : i \in items}
    /\ cancel \in BOOLEAN /\ files \subseteq Files /\ overwritten \subseteq Files

Init ==
    /\ \E tree \in [Initial -> {"absent", "file", "dir"}] :
        /\ \A p \in Initial : tree[p] = "dir" => Len(p) = 2
        /\ at = [p \in Paths |-> IF p \notin Initial \/ tree[p] = "absent" THEN Nothing
                                ELSE IF tree[p] = "dir" THEN Dir ELSE p]
    /\ TreeShape
    /\ pc = "new"
    /\ kind = "copy" /\ policy = "fail" /\ roots = {} /\ top = CHOOSE t \in Tops : TRUE
    /\ oneDevice = TRUE /\ items = {} /\ conflicts = {} /\ found = {}
    /\ todo = {} /\ item = NoItem /\ held = Nothing /\ copied = {} /\ removing = {}
    /\ doing = "move" /\ goal = <<>> /\ to = <<>> /\ spare = <<>>
    /\ cancel = FALSE
    /\ files = {at[p] : p \in Paths} \ {Nothing, Dir}
    /\ overwritten = {}

Goto(from, next) == pc = from /\ pc' = next

-----------------------------------------------------------------------------
(* The plan.                                                               *)

\* collect_copy_or_move_items, for one root
ItemsOf(r, t) ==
    {[source |-> p, target |-> <<t>> \o SubSeq(p, Len(r), Len(p)), dir |-> at[p] = Dir] :
        p \in {q \in Paths : Within(q, r) /\ at[q] # Nothing}}

\* plan_file_operation, for roots that are there; the checks of the request itself and
\* the plan are one step.
Plan ==
    /\ Goto("new", "planned")
    /\ kind' \in Kinds /\ policy' \in Policies /\ top' \in Tops /\ oneDevice' \in BOOLEAN
    /\ roots' \in SUBSET {p \in Initial : at[p] # Nothing}
    /\ roots' # {} /\ Cardinality(roots') <= MaxRoots
    /\ items' = UNION {ItemsOf(r, top') : r \in roots'}
    /\ conflicts' = {i.target : i \in {k \in items' : at[k.target] # Nothing}}
    /\ found' = {at[i.source] : i \in items'} \ {Dir}
    /\ todo' = items'
    /\ UNCHANGED <<at, item, held, copied, removing, target, cancel, ghosts>>

\* execute_file_operation; execute_move tries to rename a single root, and looks for every
\* root before it copies.
Execute ==
    /\ \/ policy = "fail" /\ conflicts # {} /\ Goto("planned", "refused") /\ UNCHANGED <<doing, goal>>
       \/ /\ policy = "fail" => conflicts = {}
          /\ \/ kind = "copy" /\ Goto("planned", "next") /\ UNCHANGED <<doing, goal>>
             \/ kind = "move" /\ cancel /\ Goto("planned", "cancelled") /\ UNCHANGED <<doing, goal>>
             \/ /\ kind = "move" /\ ~cancel /\ Cardinality(roots) > 1
                /\ \/ (\A r \in roots : at[r] # Nothing) /\ Goto("planned", "next")
                   \/ (CallsMayFail \/ \E r \in roots : at[r] = Nothing) /\ Goto("planned", "error")
                /\ UNCHANGED <<doing, goal>>
             \/ \E r \in roots :
                /\ kind = "move" /\ ~cancel /\ roots = {r}
                /\ goal' = <<top, r[Len(r)]>>
                /\ doing' = "move"
                /\ IF at[goal'] # Nothing /\ policy = "skip"
                   THEN Goto("planned", "ok") ELSE Goto("planned", "resolve")
    /\ UNCHANGED <<at, request, copying, to, spare, cancel, ghosts>>

-----------------------------------------------------------------------------
(* The file system.                                                        *)

\* rename_no_replace, and creating a file that is complete
CanInstall(p) == at[p] = Nothing /\ HasFolder(p)

\* rename of the operating system replaces a file by a file and an empty directory by
\* a directory.
CanRename(p, q) ==
    /\ at[p] # Nothing /\ HasFolder(q)
    /\ \/ p = q \/ at[q] = Nothing
       \/ IsFile(p) /\ IsFile(q)
       \/ at[p] = Dir /\ at[q] = Dir /\ Empty(q)

\* What is at q after p with everything below it was renamed to r.
AfterRename(p, r, q) ==
    LET origin == p \o SubSeq(q, Len(r) + 1, Len(q))
    IN  IF Within(q, r) THEN IF origin \in Paths THEN at[origin] ELSE Nothing
        ELSE IF Within(q, p) THEN Nothing ELSE at[q]

Rename(p, r) ==
    /\ CanRename(p, r)
    /\ at' = [q \in Paths |-> AfterRename(p, r, q)]

Remaining(p)  == [q \in Paths |-> IF Within(q, p) THEN Nothing ELSE at[q]]
FilesAt(p)    == {at[q] : q \in {r \in Paths : Within(r, p)}} \ {Nothing, Dir}
Fails(can)    == (CallsMayFail \/ ~can) /\ UNCHANGED at

\* A numbered name of p, and next_available_path.
Variant(p, i) == Append(Folder(p), Numbered(p[Len(p)], i))
NextAvailable(p) ==
    LET free == {i \in 1 .. LastNumber : at[Variant(p, i)] = Nothing}
    IN  IF free = {} THEN p ELSE Variant(p, CHOOSE i \in free : \A k \in free : i <= k)

-----------------------------------------------------------------------------
(* resolve_conflict_uri and resolve_conflict_path.                         *)

Resolve ==
    /\ pc = "resolve"
    /\ \/ /\ at[goal] = Nothing \/ policy = "skip"
          /\ pc' = "act" /\ to' = goal /\ UNCHANGED <<spare, held>>
       \/ /\ at[goal] # Nothing /\ policy = "fail"
          /\ pc' = "error" /\ held' = Nothing /\ UNCHANGED <<to, spare>>
       \/ /\ at[goal] # Nothing /\ policy = "overwrite"
          /\ pc' = "clear" /\ to' = goal /\ UNCHANGED <<spare, held>>
       \/ /\ at[goal] # Nothing /\ policy = "renameNew"
          /\ pc' = "act" /\ to' = NextAvailable(goal) /\ UNCHANGED <<spare, held>>
       \/ /\ at[goal] # Nothing /\ policy = "renameExisting"
          /\ pc' = "aside" /\ to' = goal /\ spare' = NextAvailable(goal) /\ UNCHANGED held
    /\ UNCHANGED <<at, request, todo, item, copied, removing, doing, goal, cancel, ghosts>>

\* remove_dir_all or remove_file
Clear ==
    /\ pc = "clear"
    /\ \/ /\ at[to] # Nothing
          /\ at' = Remaining(to)
          /\ overwritten' = overwritten \cup FilesAt(to)
          /\ pc' = "act" /\ UNCHANGED held
       \/ Fails(at[to] # Nothing) /\ pc' = "error" /\ held' = Nothing /\ UNCHANGED overwritten
    /\ UNCHANGED <<request, todo, item, copied, removing, target, cancel, files>>

Aside ==
    /\ pc = "aside"
    /\ \/ Rename(to, spare) /\ pc' = "act" /\ UNCHANGED held
       \/ Fails(CanRename(to, spare)) /\ pc' = "error" /\ held' = Nothing
    /\ UNCHANGED <<request, todo, item, copied, removing, target, cancel, ghosts>>

\* execute_move: the rename of the only root, unless it is on another device
MoveRoot ==
    \E r \in roots :
        /\ pc = "act" /\ doing = "move"
        /\ \/ (oneDevice \/ r[1] = top) /\ Rename(r, to) /\ pc' = "ok"
           \/ ~oneDevice /\ r[1] # top /\ at[r] # Nothing /\ pc' = "next" /\ UNCHANGED at
           \/ Fails(CanRename(r, to)) /\ pc' = "error"
        /\ UNCHANGED <<request, copying, target, cancel, ghosts>>

-----------------------------------------------------------------------------
(* execute_copy_with_report and copy_file_streaming.                       *)

\* The loop takes the items in the order of their sources, so a directory comes before
\* what is in it.
First(i) == i \in todo /\ \A k \in todo : ~Below(i.source, k.source)

Skips(p) == at[p] # Nothing /\ policy = "skip"

NextItem(i) ==
    /\ pc = "next" /\ ~cancel /\ First(i)
    /\ todo' = todo \ {i} /\ item' = i /\ goal' = i.target
    /\ doing' = IF i.dir THEN "dir" ELSE "file"
    /\ \/ Skips(i.target) /\ pc' = "next" /\ UNCHANGED held
       \/ ~Skips(i.target) /\ i.dir /\ pc' = "resolve" /\ UNCHANGED held
       \/ /\ ~i.dir /\ ~Skips(i.target)
          /\ at[i.target] # Nothing => policy # "fail"
          /\ IsFile(i.source) /\ HasFolder(i.target)
          /\ held' = at[i.source] /\ pc' = "stage"
       \/ /\ ~i.dir
          /\ \/ CallsMayFail \/ ~IsFile(i.source) \/ ~HasFolder(i.target)
             \/ at[i.target] # Nothing /\ policy = "fail"
          /\ pc' = "error" /\ UNCHANGED held
    /\ UNCHANGED <<at, request, copied, removing, to, spare, cancel, ghosts>>

\* Mutant: the staging file of a copy that is cancelled stays.
StageLeaks ==
    /\ pc = "stage"
    /\ \/ cancel /\ pc' = "cancelled" /\ UNCHANGED held
       \/ CallsMayFail /\ pc' = "error" /\ held' = Nothing
       \/ ~cancel /\ Skips(goal) /\ pc' = "next" /\ held' = Nothing
       \/ ~cancel /\ ~Skips(goal) /\ pc' = "resolve" /\ UNCHANGED held
    /\ UNCHANGED <<at, request, todo, item, copied, removing, target, cancel, ghosts>>

\* The staging file is written, with a check of the token before every read; the
\* staging file is removed when its item ends early.
Stage ==
    /\ pc = "stage"
    /\ \/ cancel /\ pc' = "cancelled" /\ held' = Nothing
       \/ CallsMayFail /\ pc' = "error" /\ held' = Nothing
       \/ ~cancel /\ Skips(goal) /\ pc' = "next" /\ held' = Nothing
       \/ ~cancel /\ ~Skips(goal) /\ pc' = "resolve" /\ UNCHANGED held
    /\ UNCHANGED <<at, request, todo, item, copied, removing, target, cancel, ghosts>>

Install ==
    /\ pc = "act" /\ doing = "file"
    /\ \/ CanInstall(to) /\ at' = [at EXCEPT ![to] = held] /\ pc' = "settle"
       \/ Fails(CanInstall(to)) /\ pc' = "error"
    /\ held' = Nothing
    /\ UNCHANGED <<request, todo, item, copied, removing, target, cancel, ghosts>>

\* create_dir_all
MakeDir ==
    LET made == {to} \cup IF Len(to) = 2 THEN {} ELSE {Folder(to)}
    IN  /\ pc = "act" /\ doing = "dir"
        /\ \/ /\ \A p \in made : ~IsFile(p)
              /\ at' = [p \in Paths |-> IF p \in made THEN Dir ELSE at[p]]
              /\ pc' = "settle"
           \/ Fails(\A p \in made : ~IsFile(p)) /\ pc' = "error"
        /\ UNCHANGED <<request, copying, target, cancel, ghosts>>

Settle ==
    /\ \/ cancel /\ Goto("settle", "cancelled") /\ UNCHANGED copied
       \/ ~cancel /\ Goto("settle", "next") /\ copied' = copied \cup {item}
    /\ UNCHANGED <<at, request, todo, item, held, removing, target, cancel, ghosts>>

CancelBetween ==
    /\ cancel /\ todo # {} /\ Goto("next", "cancelled")
    /\ UNCHANGED <<at, request, copying, target, cancel, ghosts>>

-----------------------------------------------------------------------------
(* remove_copied_move_sources.                                             *)

FullyCopied(r) == \A i \in items : Within(i.source, r) => i \in copied

\* Mutant: every source that was copied is removed, whatever became of the rest of its root.
RemovableCopied == {i.source : i \in copied}

Removable == {s \in {i.source : i \in items} : \A r \in roots : Within(s, r) => FullyCopied(r)}

CopyDone ==
    /\ todo = {}
    /\ IF kind = "copy" THEN Goto("next", "ok") /\ UNCHANGED removing
       ELSE Goto("next", "remove") /\ removing' = Removable
    /\ UNCHANGED <<at, request, todo, item, held, copied, target, cancel, ghosts>>

\* The deepest first, and a directory only if it is empty.
RemoveSource(p) ==
    /\ pc = "remove" /\ p \in removing /\ \A q \in removing : Len(q) <= Len(p)
    /\ \/ /\ at[p] # Nothing /\ Empty(p)
          /\ at' = [at EXCEPT ![p] = Nothing]
          /\ removing' = removing \ {p} /\ UNCHANGED pc
       \/ Fails(at[p] # Nothing /\ Empty(p)) /\ pc' = "error" /\ UNCHANGED removing
    /\ UNCHANGED <<request, todo, item, held, copied, target, cancel, ghosts>>

MoveDone ==
    /\ removing = {} /\ Goto("remove", "ok")
    /\ UNCHANGED <<at, request, copying, target, cancel, ghosts>>

-----------------------------------------------------------------------------
(* The user, other programs, and the end of the process.                   *)

Cancel ==
    /\ pc \notin Over \cup {"new"} /\ ~cancel
    /\ cancel' = TRUE
    /\ UNCHANGED <<at, pc, request, copying, target, ghosts>>

\* What they create before the plan is made is part of the tree at first.
Create(p, f) ==
    /\ pc \notin Over \cup {"new"}
    /\ CanInstall(p) /\ f \notin files
    /\ \A q \in Paths : at[q] # f
    /\ at' = [at EXCEPT ![p] = f]
    /\ files' = files \cup {f}
    /\ UNCHANGED <<pc, request, copying, target, cancel, overwritten>>

\* They delete every copy they know of.
Delete(p) ==
    /\ pc \notin Over
    /\ at[p] # Nothing /\ Empty(p)
    /\ at' = [at EXCEPT ![p] = Nothing]
    /\ files' = files \ {at[p]}
    /\ UNCHANGED <<pc, request, copying, target, cancel, overwritten>>

Crash ==
    /\ pc \notin Over \cup {"new"}
    /\ pc' = "crashed"
    /\ UNCHANGED <<at, request, copying, target, cancel, ghosts>>

Next ==
    \/ Plan \/ Execute
    \/ Resolve \/ Clear \/ Aside \/ MoveRoot
    \/ \E i \in items : NextItem(i)
    \/ Stage \/ Install \/ MakeDir \/ Settle \/ CancelBetween \/ CopyDone
    \/ \E p \in Paths : RemoveSource(p)
    \/ MoveDone
    \/ Cancel \/ Crash
    \/ \E p \in OthersAt, f \in Strangers : Create(p, f)
    \/ \E p \in DeletedAt : Delete(p)

Spec == Init /\ [][Next]_vars

-----------------------------------------------------------------------------
(* Properties.                                                             *)

Kept(f) == \E p \in Paths : at[p] = f

\* The roots come from elsewhere and no two have the same name.
Separate ==
    /\ \A r \in roots : r[1] # top
    /\ \A r, s \in roots : r[Len(r)] = s[Len(s)] => r = s

\* A copy or a move from elsewhere never loses a file it was to transfer, whatever is
\* at the targets, whatever fails, and whenever the process ends.
SourcesKept == Separate => \A f \in found \cap files : Kept(f)

\* The policies other than overwrite lose nothing else either, except to the plain rename
\* of a move or of renameExisting, which replaces a file that has just been created.
OthersKept ==
    (Strangers = {} /\ Separate) \/ (kind = "copy" /\ policy # "renameExisting") =>
        \A f \in files \ overwritten : Kept(f)

\* No file is lost: neither one that was to be copied or moved, whatever fails, is cancelled
\* or happens meanwhile, nor one that was at a target and was not to be replaced.
FilesKept == SourcesKept /\ OthersKept

\* "ok" is the truth: what was not skipped is below the top folder, and a move has left
\* nothing of it behind.
HonestAnswer ==
    pc = "ok" /\ Separate /\ policy # "skip" =>
        /\ \A f \in found \cap files : \E p \in Paths : p[1] = top /\ at[p] = f
        /\ kind = "move" => \A i \in items : ~i.dir => at[i.source] \notin found

\* A root of a move is moved as a whole or, when something of it was skipped, stays as a
\* whole; and a cancelled move has removed nothing.
WholeRoots ==
    Separate /\ pc \in {"ok", "cancelled"} =>
        \A r \in roots :
            LET left == {i \in items : Within(i.source, r) /\ at[i.source] \in {i.source, Dir}}
                kept == {i \in items : Within(i.source, r) /\ ~i.dir /\ i.source \in files}
            IN  left # {} \/ pc = "cancelled" => kept \subseteq left

\* What several roots of one transfer share is neither lost nor torn apart.
RootsKept == FilesKept /\ WholeRoots

\* "Overwrite removes the existing destination, then writes the new content": the new
\* content is not lost with it.
OverwriteKeepsNew == \A f \in found \cap files : Kept(f)

=============================================================================
