------------------------------- MODULE GitReview -------------------------------
(***************************************************************************)
(* The git review tab (GitReviewTab.tsx): a list per section, and under    *)
(* the chosen item of a list what is loaded for it.  Every load is a call  *)
(* whose answer comes at any later time; an effect that runs again first   *)
(* cancels the call of its last run.                                       *)
(*                                                                         *)
(* Level 1 of a section is its list, level k+1 hangs on the item chosen at *)
(* level k: the diff of a file, of a commit, of a branch, the status of a  *)
(* worktree and, under it, the diff of a file.  Answers are sets of items, *)
(* of the last level none: what is chosen inside a diff is left out.  An   *)
(* effect runs in the step that changed what it depends on.                *)
(***************************************************************************)
EXTENDS Integers, SequencesExt

CONSTANTS
    Repositories,  \* roots a tab of the pane can be about
    GitSections,   \* the sections the user visits
    GitItems,      \* files, commits, branches and worktrees
    MaxGitActs     \* bound on what the user does

ASSUME GitConstants ==
    /\ GitSections \subseteq {"changes", "history", "branches", "worktrees", "files"}
    /\ MaxGitActs \in Nat

VARIABLES
    git,      \* [repo, section, shown, chosen, busy, calls] of the tab
    gitActs,
    raced     \* ghost: a refresh was under way beside another call for its list

gitVars == <<git, gitActs, raced>>

NoItem == "no item"
NoCall == 0

Depth(s)     == CASE s = "files" -> 1 [] s = "worktrees" -> 3 [] OTHER -> 2
Levels       == 1 .. 3
Slots        == {sk \in GitSections \X Levels : sk[2] <= Depth(sk[1])}
\* The diff of one file goes when another is asked for; the rest stays until the answer.
IsFileDiff(s, k) == <<s, k>> \in {<<"changes", 2>>, <<"worktrees", 3>>}

GitCall == [slot : Slots, repo : Repositories, of : GitItems \cup {NoItem},
            effect : BOOLEAN,    \* started by an effect, which can cancel it
            live   : BOOLEAN,    \* neither answered nor cancelled: a cancelled answer does nothing
            items  : SUBSET GitItems]

GitTypeOK ==
    /\ git.repo \in Repositories /\ git.section \in GitSections
    /\ git.calls \in Seq(GitCall) /\ git.busy \in [Slots -> BOOLEAN]
    /\ \A sk \in Slots : git.shown[sk] \in {NoCall} \cup DOMAIN git.calls
    \* what is chosen is in the list that is shown
    /\ \A sk \in Slots : \/ git.chosen[sk] = NoItem
                         \/ /\ git.shown[sk] # NoCall
                            /\ git.chosen[sk] \in git.calls[git.shown[sk]].items

\* selectedFile, selectedHistoryCommit, selectedBranch, selectedWorktree, ...
Selected(g, s, k) ==
    IF g.shown[<<s, k>>] # NoCall /\ g.chosen[<<s, k>>] \in g.calls[g.shown[<<s, k>>]].items
    THEN g.chosen[<<s, k>>] ELSE NoItem

-----------------------------------------------------------------------------
(* Loads.                                                                  *)

Asked(g, sk, item, effect) ==
    [g EXCEPT !.busy[sk] = TRUE,
              !.calls = Append(@, [slot |-> sk, repo |-> g.repo, of |-> item, effect |-> effect,
                                   live |-> TRUE, items |-> {}])]

\* The cleanup of the effects that fill these slots.
Cancelled(g, slots) ==
    [g EXCEPT !.calls = [i \in DOMAIN @ |->
        IF @[i].slot \in slots /\ @[i].effect THEN [@[i] EXCEPT !.live = FALSE] ELSE @[i]]]

\* The effect that loads what hangs on the chosen item.
LoadUnder(g, s, k) ==
    LET item  == Selected(g, s, k - 1)
        empty == [g EXCEPT !.shown[<<s, k>>] = NoCall, !.chosen[<<s, k>>] = NoItem]
    IN  IF g.section # s \/ item = NoItem THEN empty
        ELSE Asked(IF IsFileDiff(s, k) THEN empty ELSE g, <<s, k>>, item, TRUE)

\* Mutant: the effect depends on the name of the item.
DependsOnName(g, s, k) ==
    <<g.section = s, IF s \in {"history", "branches"} THEN g.repo ELSE "any", Selected(g, s, k - 1)>>

\* What that effect depends on; the chosen item is an object of the answer it is in.
Depends(g, s, k) ==
    <<g.section = s,
      IF s \in {"history", "branches"} THEN g.repo ELSE "any",
      Selected(g, s, k - 1),
      IF Selected(g, s, k - 1) = NoItem THEN NoCall ELSE g.shown[<<s, k - 1>>]>>

RunEffect(before, g, s, k) ==
    IF k > Depth(s) \/ Depends(before, s, k) = Depends(g, s, k) THEN g
    ELSE LoadUnder(Cancelled(g, {<<s, k>>}), s, k)

\* The effects after a change, the outer level first.  Those of a section that neither
\* is on screen nor was have nothing to clear.
Rendered(before, after) ==
    LET Section(s, g) == RunEffect(before, RunEffect(before, g, s, 2), s, 3)
        left          == IF before.section = after.section THEN after
                         ELSE Section(before.section, after)
    IN  Section(after.section, left)

\* The effect that loads the list of the section.
LoadList(g) == Asked(Cancelled(g, {<<s, 1>> : s \in GitSections}), <<g.section, 1>>, NoItem, TRUE)

\* The calls for the list of a section whose answers will be taken.
Pending(g, s) == {i \in DOMAIN g.calls : g.calls[i].slot = <<s, 1>> /\ g.calls[i].live}
-----------------------------------------------------------------------------
(* The user.                                                               *)

Then(after) ==
    /\ git' = Rendered(git, after)
    /\ gitActs < MaxGitActs /\ gitActs' = gitActs + 1
    /\ raced' = (raced \/ \E s \in GitSections : \E i, j \in Pending(git', s) : i # j /\ ~git'.calls[i].effect)

OpenSection(s) == s # git.section /\ Then(LoadList([git EXCEPT !.section = s]))

\* Another git tab of the pane, or the same repository again, whose token moves on:
\* the view stays mounted.
OpenRepository(r) == Then(LoadList([git EXCEPT !.repo = r]))

Choose(k, item) ==
    /\ <<git.section, k>> \in Slots
    /\ git.shown[<<git.section, k>>] # NoCall
    /\ item \in git.calls[git.shown[<<git.section, k>>]].items
    /\ Then([git EXCEPT !.chosen[<<git.section, k>>] = item])

\* refreshActiveTab throws the cancel function of its call away.
RefreshSection == Then(Asked(git, <<git.section, 1>>, NoItem, FALSE))

-----------------------------------------------------------------------------
(* Answers.                                                                *)

\* Mutant: a choice is always kept.
KeptAlways(current, items) == IF current # NoItem \/ items = {} THEN {current} ELSE items

\* The choice is kept if the answer has it; else the first item, if there is one.
Kept(current, items) ==
    IF current \in items THEN {current} ELSE IF items = {} THEN {NoItem} ELSE items

\* Mutant: a failure leaves the spinner.
HearFailing(i) ==
    /\ git.calls[i].live
    /\ git' = Rendered(git, [git EXCEPT !.calls[i].live = FALSE, !.shown[git.calls[i].slot] = NoCall,
                                        !.chosen[git.calls[i].slot] = NoItem])
    /\ UNCHANGED <<gitActs, raced>>

Hear(i) ==
    LET sk  == git.calls[i].slot
        end == [git EXCEPT !.calls[i].live = FALSE, !.busy[sk] = FALSE]
    IN  /\ git.calls[i].live
        /\ \/ git' = Rendered(git, [end EXCEPT !.shown[sk] = NoCall, !.chosen[sk] = NoItem])
           \/ \E items \in IF sk[2] = Depth(sk[1]) /\ sk[2] > 1 THEN {{}} ELSE SUBSET GitItems :
                 \E item \in Kept(git.chosen[sk], items) :
                    git' = Rendered(git, [end EXCEPT !.shown[sk] = i, !.chosen[sk] = item,
                                                     !.calls[i].items = items])
        /\ UNCHANGED <<gitActs, raced>>

GitInit ==
    \E r \in Repositories, s \in GitSections :
        /\ git = LoadList([repo |-> r, section |-> s, calls |-> <<>>,
                           shown  |-> [sk \in Slots |-> NoCall],
                           chosen |-> [sk \in Slots |-> NoItem],
                           busy   |-> [sk \in Slots |-> FALSE]])
        /\ gitActs = 0 /\ raced = FALSE

GitNext ==
    \/ \E s \in GitSections : OpenSection(s)
    \/ \E r \in Repositories : OpenRepository(r)
    \/ \E k \in Levels, item \in GitItems : Choose(k, item)
    \/ RefreshSection
    \/ \E i \in DOMAIN git.calls : Hear(i)
-----------------------------------------------------------------------------
(* Properties.                                                             *)

NothingAsked == \A i \in DOMAIN git.calls : ~git.calls[i].live
Under        == {sk \in Slots : sk[2] > 1}
ListOf(sk)   == <<sk[1], sk[2] - 1>>

\* What is on screen under a list, once it is loaded, was asked for the item now
\* chosen, and after the list it is chosen from was: a refresh or a slow answer never
\* leaves the diff of another file, or of an older list, beside the selection.
DetailFits ==
    \A sk \in Under :
        git.shown[sk] # NoCall /\ ~git.busy[sk] =>
            /\ sk[1] = git.section
            /\ git.calls[git.shown[sk]].of = Selected(git, sk[1], sk[2] - 1)
            /\ git.shown[sk] > git.shown[ListOf(sk)]

\* No spinner stays: when every call is answered, neither the list on screen nor what
\* hangs on the selection is still loading.
LoadingEnds ==
    NothingAsked =>
        /\ ~git.busy[<<git.section, 1>>]
        /\ \A sk \in Under : sk[1] = git.section /\ Selected(git, sk[1], sk[2] - 1) # NoItem
                                => ~git.busy[sk]

\* When every call is answered the list on screen is the answer to the last call made
\* for it, and about the repository of the tab - unless a refresh ran beside another
\* call for the same list, whose answers apply in the order they come.
LastListShown ==
    NothingAsked /\ ~raced =>
        LET list == git.shown[<<git.section, 1>>]
        IN  list # NoCall =>
                /\ git.calls[list].repo = git.repo
                /\ \A i \in DOMAIN git.calls :
                       git.calls[i].slot = <<git.section, 1>> => i <= list

\* What is on screen belongs together, list and detail, and is the answer to what was
\* asked last.
ReviewTrue == DetailFits /\ LastListShown

==============================================================================
