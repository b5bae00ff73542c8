------------------------------- MODULE MCFiles -------------------------------
(* Instances of the local, the remote and the archive executors for TLC.  They *)
(* share no state: a run takes up one of them and leaves the others as they    *)
(* begin.                                                                      *)
EXTENDS MCTransfer, ServerTransfer, Archives

CONSTANTS src_, dst_, hidden, l1, l2, pk, sp, out

VARIABLE focus

\* A tree with a hidden file, a second entry, and a target that may be taken.
ServerTree == {<<src_, e1>>, <<src_, e1, hidden>>, <<src_, e1, e2>>, <<src_, e2>>, <<dst_, e1>>}

ServerTargets == {<<dst_, e1>>, <<dst_, e1, e2>>}

\* Where another program may put a file while archives are made and unpacked.
ArchiveTargets == {<<out, l1>>, pk}

FilesInit ==
    /\ focus \in {"local", "servers", "archives"}
    /\ Init
    /\ focus # "local" => \A p \in Paths : at[p] = Nothing
    /\ ServerInit
    /\ focus # "servers" =>
        /\ op.way = (CHOOSE w \in Ways : TRUE) /\ op.scheme = (CHOOSE s \in Schemes : TRUE)
        /\ DOMAIN disk = {<<From>>, <<To>>}
    /\ ArchiveInit
    /\ focus # "archives" => \A s \in Spots : shelf[s] = NoFile

FilesNext ==
    \/ focus = "local" /\ Next /\ UNCHANGED <<serverVars, archiveVars, focus>>
    \/ focus = "servers" /\ ServerNext /\ UNCHANGED <<vars, archiveVars, focus>>
    \/ focus = "archives" /\ ArchiveNext /\ UNCHANGED <<vars, serverVars, focus>>

FilesSpec == FilesInit /\ [][FilesNext]_<<vars, serverVars, archiveVars, focus>>

\* The variables have their types; staging files and files kept aside are removed on every
\* way out of an operation, unless the process ends or a call fails.
TypesHold == TypeOK /\ SrvTypeOK /\ ArcTypeOK

\* No operation on files loses a file it was asked to transfer, to pack or to unpack, and no
\* other file unless the policy is to overwrite it: wherever files are, whatever fails,
\* whoever interferes, and whenever it is cancelled or the process ends.
NothingIsLost == FilesKept /\ ServerFilesKept /\ ServerRootsWhole /\ ArchivesKeep

\* An operation that says it succeeded did what it was asked to.
AnswersTrue == HonestAnswer /\ ServerAnswerTrue /\ ArchivesTrue

==============================================================================
