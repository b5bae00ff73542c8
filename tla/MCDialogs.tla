------------------------------ MODULE MCDialogs ------------------------------
(* Instances of the git review, the editor, and the dialogs for copies and    *)
(* servers for TLC.  They share no state: a run takes up one of them and      *)
(* leaves the others as they begin.                                           *)
EXTENDS GitReview, EditorPane, CopyDialog, ServerDialog

CONSTANTS r1, r2, i1, i2, e1, e2, f1, f2, d1, d2

VARIABLE focus

\* The names of repositories, items, tabs and files do not matter to their modules;
\* CopyDialog names a destination when it is closed.
Alike == Permutations(Repositories) \cup Permutations(GitItems)
             \cup Permutations(EditTabs) \cup Permutations(EditFiles)

Init ==
    /\ focus \in {"git", "editor", "copy", "servers"}
    /\ GitInit /\ EditInit /\ CopyInit /\ ServerInit
    /\ focus # "git" => git.section = CHOOSE s \in GitSections : TRUE
    /\ focus # "servers" => server.id = 0 /\ servers[1].pinned = 0

Next ==
    \/ focus = "git" /\ GitNext /\ UNCHANGED <<editVars, copyVars, serverVars, focus>>
    \/ focus = "editor" /\ EditNext /\ UNCHANGED <<gitVars, copyVars, serverVars, focus>>
    \/ focus = "copy" /\ CopyNext /\ UNCHANGED <<gitVars, editVars, serverVars, focus>>
    \/ focus = "servers" /\ ServerNext /\ UNCHANGED <<gitVars, editVars, copyVars, focus>>

DialogsSpec == Init /\ [][Next]_<<gitVars, editVars, copyVars, serverVars, focus>>

\* The variables have their types; at most one save and one submission are under way, and
\* what is chosen in the git review is in the list that is shown.
TypeOK == GitTypeOK /\ EditTypeOK /\ CopyTypeOK /\ ServerTypeOK

\* When every call has been answered, however it was, no view is left loading, saving,
\* testing or planning: there is always a button that works.
NothingStaysBusy == LoadingEnds /\ EditSettles /\ PlanningEnds /\ ServersSettle

\* A form is carried out as it is on screen, and once: copies, moves and servers.
AsAsked == PlansAsAsked /\ ServersTrue

==============================================================================
