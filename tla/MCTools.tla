------------------------------- MODULE MCTools -------------------------------
(* Instances for TLC of parts of the application that share no state: a run    *)
(* takes up one of them and leaves the others as they begin.                   *)
EXTENDS ContentSearch, TerminalDock, PaneSelection, Stores, ShellProfiles, Comparison,
        PreviewTransport, TerminalService

CONSTANTS t1, line, n1, n2, n3, p1, u1, u2, m1, m2, h1, h2

ThreeNames == <<n1, n2, n3>>
OneOfThem  == {n2}

\* Two files, the second newer and longer, and a directory whose date is not known.
SomeEntries == {[size |-> 1, date |-> 1, dir |-> FALSE], [size |-> 2, date |-> 2, dir |-> FALSE],
                [size |-> 0, date |-> 0, dir |-> TRUE]}

\* Six lines are enough for two changes with a hunk's end between them.
FewLines == Len(text["left"].lines) + Len(text["right"].lines) <= 6
NoTexts  == text = [f \in Sides |-> [lines |-> <<>>, ended |-> FALSE]]
NoTrees  == trees = [f \in Sides |-> [n \in EntryNames |-> NoEntry]]

VARIABLE focus

Init ==
    /\ focus \in {"search", "terminals", "selection", "stores", "profiles", "files", "folders", "preview", "shells"}
    /\ IF focus = "files" THEN TRUE ELSE NoTexts
    /\ IF focus = "folders" THEN TRUE ELSE NoTrees
    /\ ComparisonInit /\ FewLines
    /\ SearchInit /\ TermInit /\ SelectionInit /\ ShellProfilesInit /\ PreviewInit
    /\ ServiceInit
    /\ StoresInit /\ (focus = "stores" \/ version["network"] = 0)

Next ==
    \/ focus = "search" /\ SearchNext
       /\ UNCHANGED <<dockVars, selectionVars, storeVars, profileVars, compareVars, previewVars, serviceVars, focus>>
    \/ focus = "terminals" /\ TermNext
       /\ UNCHANGED <<searchVars, selectionVars, storeVars, profileVars, compareVars, previewVars, serviceVars, focus>>
    \/ focus = "selection" /\ SelectionNext
       /\ UNCHANGED <<searchVars, dockVars, storeVars, profileVars, compareVars, previewVars, serviceVars, focus>>
    \/ focus = "stores" /\ StoresNext
       /\ UNCHANGED <<searchVars, dockVars, selectionVars, profileVars, compareVars, previewVars, serviceVars, focus>>
    \/ focus = "profiles" /\ ShellProfilesNext
       /\ UNCHANGED <<searchVars, dockVars, selectionVars, storeVars, compareVars, previewVars, serviceVars, focus>>
    \/ focus = "files" /\ OnFiles
       /\ UNCHANGED <<searchVars, dockVars, selectionVars, storeVars, profileVars, previewVars, serviceVars, focus>>
    \/ focus = "folders" /\ OnFolders
       /\ UNCHANGED <<searchVars, dockVars, selectionVars, storeVars, profileVars, previewVars, serviceVars, focus>>
    \/ focus = "preview" /\ PreviewNext
       /\ UNCHANGED <<searchVars, dockVars, selectionVars, storeVars, profileVars, compareVars, serviceVars, focus>>
    \/ focus = "shells" /\ ServiceNext
       /\ UNCHANGED <<searchVars, dockVars, selectionVars, storeVars, profileVars, compareVars, previewVars, focus>>

ToolsSpec == Init /\ [][Next]_<<searchVars, dockVars, selectionVars, storeVars, profileVars, compareVars, previewVars, serviceVars, focus>>

\* The variables have their types and the buffers keep to their limits; what is not taken
\* up stays as it began.
TypeOK ==
    CASE focus = "search"    -> SearchTypeOK
      [] focus = "terminals" -> TermTypeOK
      [] focus = "selection" -> SelTypeOK
      [] focus = "stores"    -> StoresTypeOK
      [] focus = "profiles"  -> ShellProfilesTypeOK
      [] focus = "preview"   -> PreviewTypeOK
      [] focus = "shells"    -> ServiceTypeOK
      [] OTHER               -> ComparisonTypeOK

\* Searches and comparisons show what they were asked for, and all of it.
FindingsTrue == IF focus = "search" THEN SearchTrue ELSE ComparisonTrue

\* What a shell writes is shown once and whole, and the dock shows the shells there are;
\* the preview hands on what its shells write in the same way; and the service says what
\* becomes of a shell in the order in which it happens, and lets none out of its table.
TerminalsTrue == CASE focus = "preview" -> PreviewTrue
                   [] focus = "shells"  -> ServiceTrue
                   [] OTHER             -> UnbrokenText /\ DockTrue

\* Settings survive, and the profiles shown are those there are.
SettingsTrue == IF focus = "stores" THEN StoresTrue ELSE ProfilesTrue

==============================================================================
