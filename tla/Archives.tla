------------------------------ MODULE Archives ------------------------------
(***************************************************************************)
(* Making and unpacking archives of local files.  An archive is written in *)
(* place: the file is created, each source is added to it, and it is       *)
(* finished.  Unpacking takes a snapshot of the archive, which must be the *)
(* one that was planned, and brings each entry to its target by way of a   *)
(* staging file; a file that is to be overwritten is kept under a second   *)
(* hidden name until the new one is in its place.                          *)
(*                                                                         *)
(* An action is one system call, or several without a change in between.   *)
(* Other programs create a file and change the archive at any time, and    *)
(* the process may end.  A file at a spot is the record of what it is: a   *)
(* plain file, or an archive with the files in it.  Removing a staging     *)
(* file is taken to succeed.                                               *)
(***************************************************************************)
EXTENDS Naturals, Sequences, FiniteSets, SequencesExt

CONSTANTS
    Sacks,          \* folders whose files are put into an archive
    Labels,         \* names of files
    Pack, Spare,    \* the path of the archive, and the next free name beside it
    Out,            \* the folder an archive is unpacked to
    Staging, Backup,\* the hidden names in it
    Foreign,        \* the file another program creates ...
    ForeignAt,      \* ... and bound: where
    Formats, ArcRules, \* bounds: formats and conflict policies of the instance
    MaxJobs,        \* bound on the operations, one after the other
    DiskFails       \* whether the renames of unpacking may fail

Spot(f, n)  == <<f, n>>
Second(n)   == <<n, 1>>
OutSpots    == {Spot(Out, n) : n \in Labels} \cup {Spot(Out, Second(n)) : n \in Labels}
SackSpots   == {Spot(s, n) : s \in Sacks, n \in Labels}
Spots       == OutSpots \cup SackSpots \cup {Pack, Spare, Staging, Backup}

NoFile      == [kind |-> "none", name |-> <<>>, has |-> <<>>]
Folder_     == [kind |-> "dir", name |-> <<>>, has |-> <<>>]
Plain(s)    == [kind |-> "file", name |-> s, has |-> <<>>]
\* An entry of an archive is [label, file]; "part" is one that was not finished.
Packed(kind, entries) == [kind |-> kind, name |-> <<>>, has |-> entries]

\* Hidden names are unique, and what another program creates is no file there was.
ASSUME ArchiveConstants ==
    /\ IsFiniteSet(Sacks) /\ IsFiniteSet(Labels) /\ Out \notin Sacks /\ Pack \notin Labels
    /\ Pack # Spare /\ Staging # Backup /\ {Pack, Spare} \cap {Staging, Backup} = {}
    /\ {Pack, Spare, Staging, Backup} \cap (OutSpots \cup SackSpots) = {}
    /\ ForeignAt \subseteq Spots \ {Staging, Backup} /\ Foreign \notin Spots
    /\ \A n \in Labels : Foreign # <<n>>
    /\ MaxJobs \in Nat /\ DiskFails \in BOOLEAN
    /\ Formats \subseteq {"zip", "tar"}
    /\ ArcRules \subseteq {"fail", "skip", "overwrite", "renameNew", "renameExisting"}

VARIABLES
    shelf,  \* what is at each spot
    arc,    \* the operation and the point its executor is at
    marks   \* ghosts: what there was, what the policy removed, what was written over, and
            \* whether the archive had no free name

archiveVars == <<shelf, arc, marks>>

Ended  == {"ok", "error", "cancelled"}
Is(s)  == shelf[s] # NoFile

\* What is at a spot, and in the archive there, as plain files
Held(s) == {shelf[s]} \cup {shelf[s].has[k].file : k \in DOMAIN shelf[s].has}

-----------------------------------------------------------------------------
(* Making an archive.                                                      *)

\* collect_archive_files: the files of the sacks; with `own` the path of the archive is
\* in one of them.
Gathered(sacks, own) ==
    {s \in SackSpots : s[1] \in sacks /\ Is(s)} \cup (IF own /\ Is(Pack) THEN {Pack} ELSE {})

\* The next operation.  Hidden names are unique: one that is left would not be used again.
CanBegin == arc.pc \in Ended \cup {"idle"} /\ arc.jobs < MaxJobs /\ ~Is(Staging) /\ ~Is(Backup)

\* plan_create_archive_items, sorted
PlanPack ==
    /\ CanBegin
    /\ \E sacks \in SUBSET Sacks \ {{}}, own \in BOOLEAN, rule \in ArcRules, format \in Formats :
        LET items == SetToSeq(Gathered(sacks, own)) IN
        /\ arc.jobs > 0 => ~own
        /\ arc' = [arc EXCEPT !.pc = "make", !.jobs = @ + 1, !.act = "pack", !.sacks = sacks, !.rule = rule,
                              !.format = format, !.items = items, !.todo = items, !.target = Pack,
                              !.clash = Is(Pack) /\ items # <<>>, !.cancel = FALSE, !.skipped = {},
                              !.wanted = [k \in DOMAIN items |-> shelf[items[k]]]]
    /\ UNCHANGED <<shelf, marks>>

Ends(pc) == arc' = [arc EXCEPT !.pc = pc]

\* resolve_conflict_path for the archive
PackLook ==
    /\ arc.pc = "make"
    /\ IF arc.rule = "fail" /\ (arc.clash \/ Is(Pack)) THEN Ends("error") /\ UNCHANGED <<shelf, marks>>
       ELSE IF ~Is(Pack) THEN Ends("create") /\ UNCHANGED <<shelf, marks>>
       ELSE CASE arc.rule = "skip" ->
                    arc' = [arc EXCEPT !.pc = "ok", !.skipped = {Pack}] /\ UNCHANGED <<shelf, marks>>
              [] arc.rule = "overwrite" ->
                    /\ Ends("create") /\ shelf' = [shelf EXCEPT ![Pack] = NoFile]
                    /\ marks' = [marks EXCEPT !.overruled = @ \cup Held(Pack)]
              [] arc.rule = "renameNew" ->
                    /\ arc' = [arc EXCEPT !.pc = "create", !.target = IF Is(Spare) THEN Pack ELSE Spare]
                    /\ marks' = [marks EXCEPT !.crowded = @ \/ Is(Spare)] /\ UNCHANGED shelf
              [] OTHER ->
                    /\ Ends("create") /\ marks' = [marks EXCEPT !.crowded = @ \/ Is(Spare)]
                    /\ shelf' = IF Is(Spare) THEN shelf
                                ELSE [shelf EXCEPT ![Spare] = shelf[Pack], ![Pack] = NoFile]

\* File::create: what has come to be there is emptied.
PackCreate ==
    /\ arc.pc = "create"
    /\ Ends("add")
    /\ shelf' = [shelf EXCEPT ![arc.target] = Packed("part", <<>>)]
    /\ marks' = [marks EXCEPT !.emptied = @ \cup (Held(arc.target) \ {NoFile})]

LabelOf(s) == IF s = Pack THEN Pack ELSE s[2]   \* archive_entry_name: the folder is dropped

\* Mutant: whatever goes wrong with an entry, the archive is finished.
PackAddAnyway ==
    /\ arc.pc = "add" /\ arc.todo # <<>>
    /\ LET s    == Head(arc.todo)
           into == shelf[arc.target].has
       IN  IF arc.cancel THEN Ends("cancelled") /\ UNCHANGED shelf
           ELSE /\ arc' = [arc EXCEPT !.todo = Tail(@)]
                /\ shelf' = [shelf EXCEPT ![arc.target] = Packed("part",
                       IF ~Is(s) \/ s = arc.target THEN into
                       ELSE Append(into, [label |-> LabelOf(s), file |-> shelf[s]]))]
    /\ UNCHANGED marks

\* One item.  A zip file refuses a second entry of the same name.  An archive that is put
\* into itself is read while it is written.
PackAdd ==
    /\ arc.pc = "add" /\ arc.todo # <<>>
    /\ LET s    == Head(arc.todo)
           into == shelf[arc.target].has
           full == arc.format = "zip" /\ \E k \in DOMAIN into : into[k].label = LabelOf(s)
       IN  IF arc.cancel THEN Ends("cancelled") /\ UNCHANGED shelf
           ELSE IF full \/ ~Is(s) THEN Ends("error") /\ UNCHANGED shelf
           ELSE \/ /\ arc' = [arc EXCEPT !.todo = Tail(@)]
                   /\ shelf' = [shelf EXCEPT ![arc.target] =
                                   Packed("part", Append(into, [label |-> LabelOf(s),
                                              file |-> IF s = arc.target THEN NoFile ELSE shelf[s]]))]
                \/ (DiskFails \/ s = arc.target) /\ Ends("error") /\ UNCHANGED shelf
    /\ UNCHANGED marks

PackFinish ==
    /\ arc.pc = "add" /\ arc.todo = <<>>
    /\ Ends("ok")
    /\ shelf' = [shelf EXCEPT ![arc.target] = Packed("archive", @.has)]
    /\ UNCHANGED marks

-----------------------------------------------------------------------------
(* Unpacking.                                                              *)

Distinct(entries) == \A j, k \in DOMAIN entries : entries[j].label = entries[k].label => j = k

\* inspect_archive, which refuses two entries of one name; an archive that was not finished
\* may be read as far as it goes.
Readable(f) == f.kind \in {"archive", "part"} /\ Distinct(f.has)

Goal(e) == Spot(Out, e.label)

\* plan_extract_archive_items with the fingerprint of the archive
PlanUnpack ==
    /\ CanBegin
    /\ Readable(shelf[Pack])
    /\ \A k \in DOMAIN shelf[Pack].has : shelf[Pack].has[k].label \in Labels
    /\ \E rule \in ArcRules :
        arc' = [arc EXCEPT !.pc = "open", !.jobs = @ + 1, !.act = "unpack", !.rule = rule, !.print = shelf[Pack],
                           !.todo = <<>>, !.items = <<>>, !.wanted = <<>>, !.skipped = {}, !.cancel = FALSE,
                           !.clash = \E k \in DOMAIN shelf[Pack].has : Is(Goal(shelf[Pack].has[k]))]
    /\ UNCHANGED <<shelf, marks>>

\* snapshot_archive, verify_archive_fingerprint and validate_archive_manifest_plan
UnpackOpen ==
    /\ arc.pc = "open"
    /\ arc' = IF (arc.rule = "fail" /\ arc.clash) \/ shelf[Pack] # arc.print
              THEN [arc EXCEPT !.pc = "error"]
              ELSE [arc EXCEPT !.pc = "entry", !.todo = arc.print.has]
    /\ UNCHANGED <<shelf, marks>>

\* next_available_name: a folder of that name stops the search with an error.
FreeName(s)  == Spot(Out, Second(s[2]))
NoFreeName(s) == Is(FreeName(s))

\* The next entry, up to its staging file: the look at its target, the name it gets
UnpackEntry ==
    /\ arc.pc = "entry"
    /\ IF arc.todo = <<>> THEN Ends("ok")
       ELSE LET s == Goal(Head(arc.todo)) IN
            IF arc.cancel THEN Ends("cancelled")
            ELSE IF shelf[s].kind = "dir" \/ (Is(s) /\ arc.rule = "fail") THEN Ends("error")
            ELSE IF Is(s) /\ arc.rule = "skip"
                 THEN arc' = [arc EXCEPT !.todo = Tail(@), !.skipped = @ \cup {s}]
            ELSE IF Is(s) /\ arc.rule = "renameNew"
                 THEN IF NoFreeName(s) THEN Ends("error")
                      ELSE arc' = [arc EXCEPT !.pc = "stage", !.target = FreeName(s)]
            ELSE arc' = [arc EXCEPT !.pc = "stage", !.target = s]
    /\ UNCHANGED <<shelf, marks>>

\* copy_archive_entry: the token is looked at between chunks; what is staged is removed when
\* it fails (StagingCleanup).
UnpackStage ==
    /\ arc.pc = "stage"
    /\ \/ arc.cancel /\ Ends("cancelled") /\ UNCHANGED shelf
       \/ DiskFails /\ Ends("error") /\ UNCHANGED shelf
       \/ Ends("settle") /\ shelf' = [shelf EXCEPT ![Staging] = Head(arc.todo).file]
    /\ UNCHANGED marks

Unstage == shelf' = [shelf EXCEPT ![Staging] = NoFile]

\* The second look, and what the policy does to a file that is there
UnpackSettle ==
    /\ arc.pc = "settle"
    /\ LET s == arc.target IN
       IF ~Is(s) THEN Ends("commit") /\ UNCHANGED shelf
       ELSE IF shelf[s].kind = "dir" \/ arc.rule = "fail" THEN Ends("error") /\ Unstage
       ELSE IF arc.rule = "skip"
            THEN /\ arc' = [arc EXCEPT !.pc = "entry", !.todo = Tail(@), !.skipped = @ \cup {s}]
                 /\ Unstage
       ELSE IF arc.rule = "overwrite"
            THEN \/ /\ arc' = [arc EXCEPT !.pc = "commit", !.kept = {Backup}]
                    /\ shelf' = [shelf EXCEPT ![Backup] = shelf[s], ![s] = NoFile]
                 \/ DiskFails /\ Ends("error") /\ Unstage
       ELSE IF NoFreeName(Goal(Head(arc.todo))) THEN Ends("error") /\ Unstage
       ELSE IF arc.rule = "renameNew"
            THEN arc' = [arc EXCEPT !.pc = "commit", !.target = FreeName(Goal(Head(arc.todo)))] /\ UNCHANGED shelf
       ELSE /\ arc' = [arc EXCEPT !.pc = "commit", !.kept = {FreeName(s)}]
            /\ shelf' = [shelf EXCEPT ![FreeName(s)] = shelf[s], ![s] = NoFile]
    /\ UNCHANGED marks

\* The staging file gets the name of its target, in place of what has come to be there; if
\* that fails, what was there goes back.
UnpackCommit ==
    /\ arc.pc = "commit"
    /\ \/ /\ shelf[arc.target].kind # "dir"
          /\ shelf' = [shelf EXCEPT ![arc.target] = shelf[Staging], ![Staging] = NoFile]
          /\ marks' = [marks EXCEPT !.emptied = @ \cup (Held(arc.target) \ {NoFile})]
          /\ arc' = IF arc.kept = {Backup} THEN [arc EXCEPT !.pc = "drop"]
                    ELSE [arc EXCEPT !.pc = "entry", !.todo = Tail(@), !.kept = {}]
       \/ /\ DiskFails \/ shelf[arc.target].kind = "dir"
          /\ arc' = [arc EXCEPT !.pc = "error", !.kept = {}]
          /\ IF arc.kept = {} THEN Unstage /\ UNCHANGED marks
             ELSE \/ Unstage /\ UNCHANGED marks
                  \/ /\ shelf[arc.target].kind # "dir"
                     /\ \E s \in arc.kept :
                            shelf' = [shelf EXCEPT ![arc.target] = shelf[s], ![s] = NoFile, ![Staging] = NoFile]
                     /\ marks' = [marks EXCEPT !.emptied = @ \cup (Held(arc.target) \ {NoFile})]

\* The file that was overwritten is removed.
UnpackDrop ==
    /\ arc.pc = "drop"
    /\ \/ /\ shelf' = [shelf EXCEPT ![Backup] = NoFile]
          /\ marks' = [marks EXCEPT !.overruled = @ \cup Held(Backup)]
          /\ arc' = [arc EXCEPT !.pc = "entry", !.todo = Tail(@), !.kept = {}]
       \/ DiskFails /\ Ends("error") /\ UNCHANGED <<shelf, marks>>

-----------------------------------------------------------------------------

CancelArchive ==
    /\ arc.pc \notin Ended \cup {"idle", "crashed"} /\ ~arc.cancel
    /\ arc' = [arc EXCEPT !.cancel = TRUE]
    /\ UNCHANGED <<shelf, marks>>

\* Another program creates a file, or puts a different archive in the place of this one.
Meddle ==
    /\ arc.pc \notin Ended \cup {"idle", "crashed"} /\ ~marks.meddled
    /\ \E s \in ForeignAt :
        /\ IF s = Pack THEN TRUE ELSE ~Is(s)
        /\ s = Pack /\ Is(Pack) => arc.act = "unpack"
        /\ shelf' = [shelf EXCEPT ![s] = Plain(Foreign)]
        /\ marks' = [marks EXCEPT !.meddled = TRUE,
                                  !.swapped = IF s = Pack THEN Held(Pack) ELSE {}]
    /\ UNCHANGED arc

\* The process ends; what is staged or kept aside stays.
ArchiveCrash ==
    /\ arc.pc \notin Ended \cup {"idle", "crashed"}
    /\ Ends("crashed")
    /\ UNCHANGED <<shelf, marks>>

\* At first there are files in the sacks, perhaps some at the targets, and at the path of
\* the archive nothing, a file or an archive of some of the labels.
ArchiveInit ==
    /\ \E sources \in SUBSET SackSpots, taken \in SUBSET {Spot(Out, n) : n \in Labels},
          kind \in {"file", "dir"}, inside \in SUBSET Labels, old \in BOOLEAN :
        /\ inside # {} => sources = {} /\ old
        /\ inside = {} => taken = {} /\ kind = "file"
        /\ shelf = [s \in Spots |->
                IF s \in sources THEN Plain(s)
                ELSE IF s \in taken THEN IF kind = "file" THEN Plain(s) ELSE Folder_
                ELSE IF s = Pack /\ inside # {} THEN
                        Packed("archive", [k \in 1 .. Cardinality(inside) |->
                            [label |-> SetToSeq(inside)[k], file |-> Plain(<<SetToSeq(inside)[k]>>)]])
                ELSE IF s = Pack /\ old THEN Plain(Pack) ELSE NoFile]
    /\ arc = [pc |-> "idle", jobs |-> 0, act |-> "pack", rule |-> "fail", format |-> "zip", sacks |-> {},
              items |-> <<>>, wanted |-> <<>>, todo |-> <<>>, target |-> Pack, clash |-> FALSE,
              print |-> NoFile, kept |-> {}, skipped |-> {}, cancel |-> FALSE]
    /\ marks = [begun |-> UNION {Held(s) : s \in Spots} \ {NoFile, Folder_}, overruled |-> {}, emptied |-> {},
                swapped |-> {}, meddled |-> FALSE, crowded |-> FALSE]

ArchiveNext ==
    \/ PlanPack \/ PackLook \/ PackCreate \/ PackAdd \/ PackFinish
    \/ PlanUnpack \/ UnpackOpen \/ UnpackEntry \/ UnpackStage \/ UnpackSettle \/ UnpackCommit \/ UnpackDrop
    \/ CancelArchive \/ Meddle \/ ArchiveCrash

-----------------------------------------------------------------------------
(* Properties.                                                             *)

\* The operation is at a point of its kind; a staging file or a file kept aside is there only
\* while an entry is unpacked, or after the process ended or a call failed.
ArcTypeOK ==
    /\ arc.act = "pack" => arc.pc \in {"idle", "make", "create", "add", "crashed"} \cup Ended
    /\ arc.act = "unpack" => arc.pc \in {"open", "entry", "stage", "settle", "commit", "drop", "crashed"} \cup Ended
    /\ \A s \in Spots : shelf[s].kind \in {"none", "file", "dir", "archive", "part"}
    /\ Is(Staging) => arc.pc \in {"settle", "commit", "crashed"}
    /\ Is(Backup) => arc.pc \in {"commit", "drop", "crashed", "error"}

OnShelf == UNION {Held(s) : s \in Spots}
Missing == {f \in marks.begun : f.kind = "file"} \ OnShelf

\* The archive is one of the files to be put into it.
OwnSource == \E k \in DOMAIN arc.items : arc.items[k] = Pack

\* Making and unpacking archives loses no file, whatever fails and wherever the process ends,
\* but an old archive or a file at the target of an entry when the policy is to overwrite, and
\* that of an entry only once the entry has taken its place.  An archive is written over a file
\* there was only when its policy is to rename and every other name for it is taken.
ArchivesKeep ==
    /\ Missing \subseteq marks.overruled \cup marks.swapped \cup marks.emptied
    /\ marks.emptied \cap marks.begun # {} => marks.crowded
    /\ arc.rule # "overwrite" /\ arc.jobs = 1 => marks.overruled = {}
    /\ arc.act = "unpack" /\ arc.jobs = 1 =>
           Cardinality({f \in Missing : f.name \in OutSpots} \ marks.emptied)
               <= Cardinality({k \in DOMAIN arc.print.has : arc.print.has[k].file \in {shelf[s] : s \in OutSpots}})

\* An operation that succeeds did what it was asked to: the archive is finished and holds every
\* file of the plan as it was, but not the archive that it replaces, and can be unpacked unless two folders gave a tar file entries
\* of one name; every entry that was unpacked is at its target or beside it, unless its target
\* was taken and to be skipped.
ArchivesTrue ==
    arc.pc = "ok" =>
        /\ arc.act = "pack" /\ Pack \notin arc.skipped =>
            LET made == shelf[arc.target] IN
            \/ marks.meddled
            \/ /\ made.kind = "archive"
               /\ ~(OwnSource /\ arc.target = Pack) =>
                    {made.has[k].file : k \in DOMAIN made.has} = {arc.wanted[k] : k \in DOMAIN arc.wanted}
               /\ arc.format = "zip" \/ Cardinality(arc.sacks) = 1 => Readable(made)
        /\ arc.act = "unpack" =>
            \A k \in DOMAIN arc.print.has :
                LET e == arc.print.has[k] IN
                \/ shelf[Goal(e)] = e.file
                \/ arc.rule = "renameNew" /\ shelf[FreeName(Goal(e))] = e.file
                \/ Goal(e) \in arc.skipped /\ arc.rule = "skip"

=============================================================================
