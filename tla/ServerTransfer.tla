--------------------------- MODULE ServerTransfer ---------------------------
(***************************************************************************)
(* File operations on servers: what the executors of FileTransfer do when  *)
(* a source or the destination is on an SFTP server, in an S3 bucket or on *)
(* a WebDAV server.  Sources are entries of the folder From, a copy or a   *)
(* move goes to the folder To.  Which of the two is on a server is the way *)
(* of the operation:                                                       *)
(*     "up"      a local folder to a server      "within"  one server      *)
(*     "down"    a server to a local folder      "across"  two servers     *)
(*                                                                         *)
(* disk maps every path where there is something to the file there or to   *)
(* Tree.  In S3 a folder is a marker object, or just the common beginning  *)
(* of keys; a file and a marker of the same name are one entry, the file.  *)
(* An action is one call of a provider, or one request where another       *)
(* client may come between two (the rename of S3, the upload of WebDAV).   *)
(* A transfer is one step, its staging file is left out.                   *)
(***************************************************************************)
EXTENDS Naturals, Sequences, FiniteSets, TLC, SequencesExt

CONSTANTS
    From, To,
    AtFirst,        \* bound: the paths where there may be something at first
    HiddenNames,    \* names that begin with a dot
    NewName,        \* what an entry is renamed to, and what is created
    Tree,           \* a directory
    Fresh,          \* the content of a file that is created
    Intruder,       \* the file another client creates ...
    IntrudesAt,     \* ... and bound: where
    Schemes, Ways, Acts, Rules, \* bounds: the instance's servers, ways, operations, policies
    MaxSources,     \* bound on the sources of an operation
    ServersFail     \* whether a call to a server may fail

AnotherName(n) == <<n, 1>>
SrvFiles == AtFirst \cup {Fresh, Intruder}

ASSUME ServerConstants ==
    /\ From # To /\ MaxSources \in Nat /\ ServersFail \in BOOLEAN
    /\ \A p \in AtFirst : Len(p) > 1 /\ p[1] \in {From, To}
    /\ Tree \notin SrvFiles /\ Fresh # Intruder /\ AtFirst \cap {Fresh, Intruder} = {}
    /\ Schemes \subseteq {"sftp", "s3", "webdav"}
    /\ Ways \subseteq {"up", "down", "within", "across"}
    /\ Acts \subseteq {"copy", "move", "rename", "delete", "createFile", "createDirectory"}
    /\ Rules \subseteq {"fail", "skip", "overwrite", "renameNew", "renameExisting"}

VARIABLES
    disk,   \* what is at the paths where there is something
    op,     \* the operation and the point its executor is at
    traces  \* ghosts: files found below the sources, removed by policy, written over

serverVars == <<disk, op, traces>>

Closed   == {"ok", "error", "cancelled"}
NoMember == [src |-> <<>>, dst |-> <<>>, dir |-> FALSE]

-----------------------------------------------------------------------------
(* Paths, and what there is at them.                                       *)

Far(p)    == op.way \in {"within", "across"} \/ (op.way = "up" <=> p[1] = To)
System(p) == IF Far(p) THEN op.scheme ELSE "local"

Subtree(p) == {q \in DOMAIN disk : IsPrefix(p, q)}
Inner(p)   == Subtree(p) \ {p}
Stored     == {disk[p] : p \in DOMAIN disk} \ {Tree}

\* Whether stat finds something, and whether that is a directory.
There(p)  == p \in DOMAIN disk \/ (System(p) = "s3" /\ Inner(p) # {})
IsTree(p) == There(p) /\ (p \in DOMAIN disk => disk[p] = Tree)
Housed(p) == Len(p) = 1 \/ IsTree(Front(p))     \* the folder of p is there

Put(d, p, c)   == (p :> c) @@ d
Without(S)     == [p \in DOMAIN disk \ S |-> disk[p]]
Rebased(p, q)  ==   \* the tree at p is at q
    [r \in DOMAIN disk \ Subtree(p) |-> disk[r]]
        @@ [r \in {q \o SubSeq(s, Len(p) + 1, Len(s)) : s \in Subtree(p)} |->
                disk[p \o SubSeq(r, Len(q) + 1, Len(r))]]

\* next_available_path, with one number
NextFree(p) ==
    LET other == Append(Front(p), AnotherName(Last(p))) IN IF There(other) THEN p ELSE other

-----------------------------------------------------------------------------
(* The calls of the providers: the outcomes of a call are what it makes of *)
(* the disk and whether it says that it succeeded.  A call to a server may *)
(* fail before, amid or after its effect.                                  *)

Good(d) == [disk |-> d, ok |-> TRUE]
Bad(d)  == [disk |-> d, ok |-> FALSE]

Breaks(p, S) == IF ServersFail /\ Far(p) THEN {Bad(d) : d \in S} ELSE {}
If(can, d, p) == IF can THEN {Good(d)} \cup Breaks(p, {disk, d}) ELSE {Bad(disk)}

\* exists.  The stat of S3 takes every error of its first request for a missing object.
Looks(p) ==
    {IF There(p) THEN "yes" ELSE "no"}
        \cup (IF ~(ServersFail /\ Far(p)) THEN {}
              ELSE IF op.scheme # "s3" THEN {"error"}
              ELSE {IF Inner(p) = {} THEN "no" ELSE "yes"})

\* remove.  In S3 removing a tree deletes the keys below it, and no file of that name;
\* removing one entry deletes the key, and no marker.
Removal(p, recursive) ==
    LET gone == IF System(p) # "s3" THEN Subtree(p)
                ELSE IF recursive THEN {q \in Subtree(p) : q # p \/ disk[q] = Tree}
                ELSE {q \in Subtree(p) : q = p /\ disk[q] # Tree}
        can  == System(p) = "s3" \/ (p \in DOMAIN disk /\ (recursive \/ Inner(p) = {}))
    IN  If(can, Without(gone), p)
            \cup (IF can THEN Breaks(p, {Without(S) : S \in SUBSET {q \in gone : disk[q] # Tree}})
                  ELSE {})

\* create_directory.  The local one makes the folders above too and accepts one that is there.
MakingTree(p) ==
    CASE System(p) = "local" -> If(p \in DOMAIN disk => disk[p] = Tree,
                                   [q \in {SubSeq(p, 1, k) : k \in 1 .. Len(p)} \ DOMAIN disk |-> Tree]
                                       @@ disk, p)
      [] System(p) = "s3"    -> If(TRUE, IF p \in DOMAIN disk THEN disk ELSE Put(disk, p, Tree), p)
      [] OTHER               -> If(p \notin DOMAIN disk /\ Housed(p), Put(disk, p, Tree), p)

\* create_file
MakingFile(p) ==
    If(System(p) = "s3" \/ (p \notin DOMAIN disk /\ Housed(p)), Put(disk, p, Fresh), p)

\* copy_file, within a server or between a server and the local disk, except the upload of
\* WebDAV.  Between two servers there is none, nor between S3 and the local disk.
Copying(p, q) ==
    LET source == p \in DOMAIN disk /\ disk[p] # Tree
        can    == /\ op.way # "across"
                  /\ IF op.scheme = "s3" THEN op.way = "within" ELSE q \notin DOMAIN disk /\ Housed(q)
    IN  IF source /\ can THEN If(TRUE, Put(disk, q, disk[p]), IF Far(q) THEN q ELSE p) ELSE {Bad(disk)}

\* rename of SFTP and WebDAV; the first half of the one of S3
Renaming(p, q) ==
    IF op.scheme = "s3" THEN If(p \in DOMAIN disk /\ disk[p] # Tree, Put(disk, q, disk[p]), q)
    ELSE If(p \in DOMAIN disk /\ q \notin DOMAIN disk /\ Housed(q) /\ ~IsPrefix(p, q),
            Rebased(p, q), q)

-----------------------------------------------------------------------------
(* The plan.                                                               *)

\* What a listing of r and of the folders in it shows: nothing hidden below r, and in S3
\* the folders that keys begin with.
Listed(r) ==
    LET named == DOMAIN disk \cup (IF System(r) # "s3" THEN {} ELSE
                                   UNION {{SubSeq(p, 1, k) : k \in 1 .. Len(p)} : p \in DOMAIN disk})
    IN  IF ~IsTree(r) THEN {r}
        ELSE {p \in named : IsPrefix(r, p) /\ \A k \in Len(r) + 1 .. Len(p) : p[k] \notin HiddenNames}

\* collect_copy_items.  On the way up the contents of a directory go to the destination
\* itself, and the folders in it are not among the items.
Members(r) ==
    LET rest(p) == SubSeq(p, Len(r) + 1, Len(p))
        files   == {p \in Subtree(r) : disk[p] # Tree}
    IN  IF op.way = "up" /\ IsTree(r)
        THEN {[src |-> r, dst |-> <<To>>, dir |-> TRUE]}
                 \cup {[src |-> p, dst |-> <<To>> \o rest(p), dir |-> FALSE] : p \in files}
        ELSE {[src |-> p, dst |-> <<To, Last(r)>> \o rest(p), dir |-> IsTree(p)] : p \in Listed(r)}

\* The items of an operation.  The new name of an entry on a server goes below the entry.
PlannedItems(act, sources) ==
    CASE act \in {"copy", "move"} -> UNION {Members(r) : r \in sources}
      [] act = "rename"  -> {[src |-> r, dst |-> Append(r, NewName), dir |-> IsTree(r)] : r \in sources}
      [] act = "delete"  -> {[src |-> r, dst |-> <<>>, dir |-> IsTree(r)] : r \in sources}
      [] OTHER -> {[src |-> <<>>, dst |-> <<To, NewName>>, dir |-> act = "createDirectory"]}

\* plan_file_operation.  A conflict that cannot be looked for is no conflict.
SrvPlan ==
    /\ op.pc = "idle"
    /\ \E act \in Acts, rule \in Rules,
          sources \in SUBSET {p \in AtFirst : p[1] = From /\ Len(p) = 2 /\ There(p)} :
        LET items   == PlannedItems(act, sources)
            clashes == {i \in items : i.dst # <<>> /\ There(i.dst)}
        IN
        /\ IF act \in {"createFile", "createDirectory"} THEN sources = {} ELSE sources # {}
        /\ Cardinality(sources) <= IF act = "rename" THEN 1 ELSE MaxSources
        /\ act \in {"rename", "delete"} => Far(<<From>>)
        /\ act \in {"createFile", "createDirectory"} => Far(<<To>>)
        /\ \E clash \in {clashes # {}} \cup (IF ServersFail THEN {FALSE} ELSE {}) :
            op' = [op EXCEPT !.pc = "planned", !.act = act, !.rule = rule, !.sources = sources,
                             !.items = items, !.clash = clash, !.todo = items]
        /\ traces' = [traces EXCEPT !.found =
                         {disk[p] : p \in UNION {Subtree(r) : r \in sources}} \ {Tree}]
    /\ UNCHANGED disk

-----------------------------------------------------------------------------
(* The executors.                                                          *)

Goes(pc) == op' = [op EXCEPT !.pc = pc]

Only(S) == CHOOSE x \in S : TRUE

\* execute_file_operation, and the way each kind goes.  A move of one root begins with the
\* name it gets, which cannot be made between a server and the local disk.
Begin ==
    /\ op.pc = "planned"
    /\ op' = IF op.rule = "fail" /\ op.clash THEN [op EXCEPT !.pc = "error"]
             ELSE IF op.act = "move" /\ op.cancel THEN [op EXCEPT !.pc = "cancelled"]
             ELSE IF op.act = "move" /\ Cardinality(op.sources) = 1
             THEN IF op.way \in {"up", "down"} THEN [op EXCEPT !.pc = "error"]
                  ELSE [op EXCEPT !.pc = "look", !.doing = "root",
                                  !.goal = <<To, Last(Only(op.sources))>>]
             ELSE CASE op.act \in {"copy", "move"} -> [op EXCEPT !.pc = "next", !.doing = "item"]
               [] op.act = "delete" -> [op EXCEPT !.pc = "remove", !.removing = op.sources]
               [] OTHER -> [op EXCEPT !.pc = "look", !.goal = Only(op.items).dst,
                                      !.doing = IF op.act = "rename" THEN "rename" ELSE "create"]
    /\ UNCHANGED <<disk, traces>>

\* Mutant: every source that was copied is removed, whatever became of the rest of its root.
MovableCopied == {i.src : i \in op.copied}

\* The sources of the roots all of whose items were copied (remove_copied_move_sources).
Movable ==
    LET below(r) == {i \in op.items : IsPrefix(r, i.src)}
    IN  {i.src : i \in {k \in op.items :
            \A r \in op.sources : k \in below(r) => below(r) \subseteq op.copied}}

NextMember ==
    /\ op.pc = "next"
    /\ \/ op.cancel /\ op.todo # {} /\ Goes("cancelled")
       \/ ~op.cancel /\ \E i \in op.todo :
            /\ \A k \in op.todo : ~IsStrictPrefix(k.src, i.src)
            /\ op' = [op EXCEPT !.pc = "look", !.item = i, !.goal = i.dst, !.todo = @ \ {i}]
       \/ op.todo = {} /\ op' = IF op.act = "copy" THEN [op EXCEPT !.pc = "ok"]
                                ELSE [op EXCEPT !.pc = "remove", !.removing = Movable]
    /\ UNCHANGED <<disk, traces>>

\* vfs.exists and resolve_conflict_uri, up to the removal of what is there
LookAtGoal ==
    /\ op.pc = "look"
    /\ \E answer \in Looks(op.goal) :
        \/ answer = "error" /\ Goes("error") /\ UNCHANGED disk
        \/ answer = "no" /\ Goes("act") /\ UNCHANGED disk
        \/ /\ answer = "yes"
           /\ IF op.doing = "create" \/ op.rule = "fail" THEN Goes("error") /\ UNCHANGED disk
              ELSE IF op.rule = "skip" THEN Goes(IF op.doing = "item" THEN "next" ELSE "ok") /\ UNCHANGED disk
              ELSE IF op.rule = "overwrite" THEN Goes("clear") /\ UNCHANGED disk
              ELSE IF Far(op.goal) THEN Goes("error") /\ UNCHANGED disk
              ELSE IF op.rule = "renameNew"
                   THEN op' = [op EXCEPT !.pc = "act", !.goal = NextFree(op.goal)] /\ UNCHANGED disk
              ELSE Goes("act") /\ disk' = Rebased(op.goal, NextFree(op.goal))
    /\ UNCHANGED traces

Contents(S) == {disk[p] : p \in S \cap DOMAIN disk} \ {Tree}

\* The policy is to overwrite: what is at the goal is removed.
ClearGoal ==
    /\ op.pc = "clear"
    /\ \E result \in Removal(op.goal, TRUE) :
        /\ disk' = result.disk
        /\ Goes(IF result.ok THEN "act" ELSE "error")
        /\ traces' = [traces EXCEPT !.cleared = @ \cup Contents(DOMAIN disk \ DOMAIN result.disk)]

\* What a call wrote over a file that was there
Writes(d) ==
    /\ disk' = d
    /\ traces' = [traces EXCEPT !.replaced =
                     @ \cup Contents({p \in DOMAIN disk \cap DOMAIN d : disk[p] # d[p]})]

\* The next step after a call for the goal; a copy is followed by a look at the token.
Went(ok) ==
    IF ~ok THEN Goes("error")
    ELSE IF op.doing # "item" THEN Goes("ok")
    ELSE IF op.cancel THEN Goes("cancelled")
    ELSE op' = [op EXCEPT !.pc = "next", !.copied = @ \cup {op.item}]

MakeGoal ==
    /\ op.pc = "act"
    /\ \/ op.doing = "create"
       \/ op.doing = "item" /\ op.item.dir
    /\ \E result \in IF op.act = "createFile" THEN MakingFile(op.goal) ELSE MakingTree(op.goal) :
        Writes(result.disk) /\ Went(result.ok)

CopyToGoal ==
    /\ op.pc = "act" /\ op.doing = "item" /\ ~op.item.dir
    /\ ~(op.scheme = "webdav" /\ op.way = "up")
    /\ \E result \in Copying(op.item.src, op.goal) : Writes(result.disk) /\ Went(result.ok)

\* write_file_from_reader of WebDAV looks what is there, and uploads on the condition that
\* it still is.
LookForUpload ==
    /\ op.pc = "act" /\ op.doing = "item" /\ ~op.item.dir
    /\ op.scheme = "webdav" /\ op.way = "up"
    /\ \/ op' = [op EXCEPT !.pc = "upload",
                           !.seen = IF There(op.goal) THEN {disk[op.goal]} ELSE {}]
       \/ ServersFail /\ Goes("error")
    /\ UNCHANGED <<disk, traces>>

Upload ==
    /\ op.pc = "upload"
    /\ LET same == (IF There(op.goal) THEN {disk[op.goal]} ELSE {}) = op.seen
           can  == same /\ Tree \notin op.seen /\ Housed(op.goal) /\ op.item.src \in DOMAIN disk
       IN  \E result \in If(can, Put(disk, op.goal, disk[op.item.src]), op.goal) :
            Writes(result.disk) /\ Went(result.ok)

\* A root or an entry is renamed, in S3 by a copy and a delete; between two servers a root
\* is copied like several roots.
RenameToGoal ==
    /\ op.pc = "act" /\ op.doing \in {"root", "rename"}
    /\ IF op.doing = "root" /\ op.way = "across"
       THEN op' = [op EXCEPT !.pc = "next", !.doing = "item"] /\ UNCHANGED <<disk, traces>>
       ELSE \E result \in Renaming(Only(op.sources), op.goal) :
                /\ Writes(result.disk)
                /\ IF result.ok /\ op.scheme = "s3" THEN Goes("drop") ELSE Went(result.ok)

DropOld ==
    /\ op.pc = "drop"
    /\ \E result \in Removal(Only(op.sources), FALSE) : disk' = result.disk /\ Went(result.ok)
    /\ UNCHANGED traces

\* remove_copied_move_sources, the deepest first; execute_delete_permanently.  Neither looks
\* at the token.
RemoveNext ==
    /\ op.pc = "remove"
    /\ \/ op.removing = {} /\ Goes("ok") /\ UNCHANGED disk
       \/ \E p \in op.removing :
            /\ \A q \in op.removing : ~IsStrictPrefix(p, q)
            /\ \E result \in Removal(p, op.act = "delete") :
                /\ disk' = result.disk
                /\ op' = IF result.ok THEN [op EXCEPT !.removing = @ \ {p}]
                         ELSE [op EXCEPT !.pc = "error"]
    /\ UNCHANGED traces

\* The user cancels the job.
SrvCancel ==
    /\ op.pc \notin Closed \cup {"idle"} /\ ~op.cancel
    /\ op.act \in {"copy", "move"}
    /\ op' = [op EXCEPT !.cancel = TRUE]
    /\ UNCHANGED <<disk, traces>>

\* Another client or program creates a file.
Intrude ==
    /\ op.pc \notin Closed \cup {"idle"} /\ ~traces.intruded
    /\ \E p \in IntrudesAt :
        /\ ~There(p) /\ Housed(p)
        /\ disk' = Put(disk, p, Intruder)
    /\ traces' = [traces EXCEPT !.intruded = TRUE]
    /\ UNCHANGED op

ServerInit ==
    /\ op \in [pc : {"idle"}, way : Ways, scheme : Schemes, act : {"copy"}, rule : {"fail"},
               sources : {{}}, items : {{}}, clash : {FALSE}, todo : {{}}, item : {NoMember},
               goal : {<<>>}, doing : {"item"}, copied : {{}}, removing : {{}}, seen : {{}},
               cancel : {FALSE}]
    /\ \E files \in SUBSET AtFirst, trees \in SUBSET {p \in AtFirst : Len(p) = 2} :
        /\ files \cap trees = {}
        /\ disk = [p \in files \cup trees \cup {<<From>>, <<To>>} |-> IF p \in files THEN p ELSE Tree]
        /\ \A p \in files : \A k \in 2 .. Len(p) - 1 : IsTree(SubSeq(p, 1, k))
    /\ traces = [found |-> {}, cleared |-> {}, replaced |-> {}, intruded |-> FALSE,
                 begun |-> {disk[p] : p \in DOMAIN disk} \ {Tree}]

ServerNext ==
    \/ SrvPlan \/ Begin \/ NextMember \/ LookAtGoal \/ ClearGoal
    \/ MakeGoal \/ CopyToGoal \/ LookForUpload \/ Upload
    \/ RenameToGoal \/ DropOld \/ RemoveNext
    \/ SrvCancel \/ Intrude

-----------------------------------------------------------------------------
(* Properties.                                                             *)

\* The operation is made of parts of the plan, and there is something at every folder of
\* what there is, except in S3.
SrvTypeOK ==
    /\ op.pc \in {"idle", "planned", "next", "look", "clear", "act", "upload", "drop", "remove"}
                  \cup Closed
    /\ op.todo \subseteq op.items /\ op.copied \subseteq op.items \ op.todo
    /\ op.removing \subseteq {i.src : i \in op.items}
    /\ \A p \in DOMAIN disk :
        /\ disk[p] \in SrvFiles \cup {Tree}
        /\ System(p) # "s3" /\ Len(p) > 1 => Front(p) \in DOMAIN disk /\ disk[Front(p)] = Tree
    /\ traces.found \cup traces.cleared \cup traces.replaced \subseteq SrvFiles

\* A directory that is copied to a server: its contents take the place of the destination's.
Flattens == \E i \in op.items : i.dst = <<To>>

\* A server that writes over what another client puts at a target after the look, or what
\* a failed look did not find: any write of S3, and an upload to WebDAV.
Clobbers == op.scheme = "s3" \/ (op.scheme = "webdav" /\ op.way = "up")

Gone == (traces.begun \cup (IF traces.intruded THEN {Intruder} ELSE {})) \ Stored

\* Whatever fails, whoever interferes and whenever the user cancels, a copy, a move or a
\* rename never loses a file it was asked to transfer, and no other file unless the policy is
\* to overwrite what is at or below a target of the plan, or the server clobbers; a delete
\* removes nothing but what it was asked to.
ServerFilesKept ==
    IF op.act = "delete" THEN Gone \subseteq traces.found
    ELSE /\ ~(Flattens /\ op.rule = "overwrite") =>
                /\ op.act # "rename" => Gone \cap traces.found = {}
                /\ \A f \in Gone \cap AtFirst : ~(\E i \in op.items : IsPrefix(i.dst, f)) => f \in traces.replaced
         /\ op.rule # "overwrite" => Gone \subseteq traces.replaced
         /\ ~Clobbers => traces.replaced = {} /\ Gone \subseteq traces.cleared

\* A move removes what it copied only from roots of which it copied everything.
ServerRootsWhole ==
    op.act = "move" /\ op.doing = "item" =>
        \A r \in op.sources :
            (\E i \in op.items : IsPrefix(r, i.src) /\ i.src \notin DOMAIN disk /\ ~i.dir) =>
                {i \in op.items : IsPrefix(r, i.src)} \subseteq op.copied

\* An operation that succeeds did what it was asked to: a file that was copied or moved is
\* at its target, unless it was to be skipped or its target was renamed, and nothing that
\* was moved is left; what was deleted is gone, except a file in S3, which stays; an entry
\* that was renamed, which only files in S3 are, is below its old name; what was created is
\* there, though a new folder of S3 may be behind a file of its name.
ServerAnswerTrue ==
    op.pc = "ok" =>
        CASE op.act \in {"copy", "move"} /\ op.rule \notin {"skip", "renameNew"} ->
                ~(Flattens /\ op.rule = "overwrite") =>
                    \A i \in op.items : ~i.dir =>
                        /\ i.dst \in DOMAIN disk /\ disk[i.dst] = i.src
                        /\ op.act = "move" => i.src \notin DOMAIN disk
          [] op.act \in {"copy", "move"} /\ op.rule \in {"skip", "renameNew"} ->
                \A i \in op.items : ~i.dir => i.src \in Stored
          [] op.act = "delete" ->
                \A r \in op.sources : There(r) => op.scheme = "s3" /\ disk[r] # Tree
          [] op.act = "rename" /\ op.rule # "skip" ->
                \A i \in op.items : op.scheme = "s3" /\ i.dst \in DOMAIN disk /\ disk[i.dst] = i.src
          [] op.act = "createFile"      -> disk[op.goal] = Fresh
          [] op.act = "createDirectory" -> IsTree(op.goal) \/ (op.scheme = "s3" /\ There(op.goal))
          [] OTHER                      -> TRUE

\* docs/architecture/modules/fs-core.md:114: "**Copy** (`execute_copy`) - recreates directory
\* hierarchy through `VfsFilesystem::mkdir`."  What was copied without a conflict that
\* renames is below the destination as it is below the folder of its root.
HierarchyRecreated ==
    op.pc = "ok" /\ op.act = "copy" /\ op.rule \in {"fail", "overwrite"} =>
        \A i \in op.items : <<To>> \o Tail(i.src) \in DOMAIN disk

=============================================================================
