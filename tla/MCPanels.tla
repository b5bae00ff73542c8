------------------------------ MODULE MCPanels ------------------------------
(* Instances of the panels and of the connections for TLC.  They share no  *)
(* state: a run takes up one of them and leaves the other as it begins.    *)
EXTENDS PanelListing, RemoteSessions

CONSTANTS home, docs, zip, file, f, p1, h1, h2

VARIABLE focus

\* The documents directory and an archive are in the home directory.
HomeOf == [u \in Uris |-> home]

\* One panel at home, the other in the documents.
HomeAndDocs == {[p \in Panels |-> IF p = "left" THEN home ELSE docs]}

ToTheArchive == <<zip>>

OneFile == {<<home, f>>}

\* The names of the hosts do not matter.
Alike == Permutations(Hosts)

MCInit ==
    /\ focus \in {"panels", "remote"}
    /\ Init /\ RemoteInit
    /\ focus # "remote" => \A q \in Profiles : rows[q].pinned = NoKey

MCNext ==
    \/ focus = "panels" /\ Next /\ UNCHANGED <<remoteVars, focus>>
    \/ focus = "remote" /\ RemoteNext /\ UNCHANGED <<vars, focus>>

PanelsSpec == MCInit /\ [][MCNext]_<<vars, remoteVars, focus>>

\* The variables have their types, and the lock of a profile is held by a call about it.
TypesHold == TypeOK /\ RemoteTypeOK /\ LocksBelongToCalls

\* A connection is said to be what it is, and nobody logs in twice.
SessionsTrue == StatusIsTrue /\ NoSecondLogin

=============================================================================
