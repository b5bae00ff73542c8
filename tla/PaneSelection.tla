---------------------------- MODULE PaneSelection ----------------------------
(***************************************************************************)
(* The selection of a panel, and the operations on what is selected.  The  *)
(* rows of a tab are listed again and again while the user selects, sorts, *)
(* filters, deletes, renames, cuts and drags: a listing in the background  *)
(* collects its rows aside, a reload begins with no rows.  A renamed entry *)
(* gets its new name in the rows when its job was started, not when it     *)
(* ended.                                                                  *)
(*                                                                         *)
(* A name stands for the uri of an entry of the folder.  Sessions, tabs    *)
(* and the folder that is moved to are in PanelListing and FileTransfer.   *)
(***************************************************************************)
EXTENDS Filtering, Integers, SequencesExt

CONSTANTS
    RowOrder,       \* the names in the order they are sorted in
    Up,             \* the row of the parent folder, which is always shown first
    Nowhere,        \* no row
    MaxActs,        \* bound on what the user does in the panel
    MaxOps,         \* bound on the operations
    OthersChange    \* bound: what another program creates or deletes

Entries_ == ToSet(RowOrder)

ASSUME SelectionConstants ==
    /\ RowOrder \in Seq(Entries_) \ {<<>>} /\ IsInjective(RowOrder)
    /\ Up \notin Entries_ /\ Nowhere \notin Entries_ \cup {Up}
    /\ {MaxActs, MaxOps} \subseteq Nat /\ OthersChange \subseteq Entries_

VARIABLES
    folder,     \* the names that are in the folder
    tab,        \* the panel's tab
    listing,    \* the listing under way in the shell, or Absent
    ask,        \* the dialog: what it is about, or Absent
    clip,       \* the file clipboard: what is to be copied or moved, or Absent
    ops,        \* the operations, in the order they were asked for
    told        \* ghosts: what the user chose last, whether the folder changed unseen or the
                \* rows were renamed too late, and the counters

selectionVars == <<folder, tab, listing, ask, clip, ops, told>>

Absent == [kind |-> "none"]

Without(s, S) == Among(s, ToSet(s) \ S)

Known(t)   == ToSet(t.rows)
Shown(t)   == Known(t) \cap t.passes                    \* selectVisibleEntries
Sorted(t)  == LET up == Among(RowOrder, Shown(t))
              IN  IF t.asc THEN up ELSE Reverse(up)
Displayed(t) == <<Up>> \o Sorted(t)                     \* selectDisplayedEntries
Chosen(t)  == Among(t.sel, Known(t))                    \* operationalSelectionIds, selectedEntries
Leading(s) == IF s = <<>> THEN Nowhere ELSE s[1]
Place(s, n) == CHOOSE k \in DOMAIN s : s[k] = n

-----------------------------------------------------------------------------
(* Selecting.                                                              *)

WithSel(t, s, lead, focus, anchor) ==
    [t EXCEPT !.sel = s, !.lead = lead, !.focus = focus, !.anchor = anchor]

Single(t, n) == WithSel(t, <<n>>, n, n, n)

Toggled(t, n) ==
    IF n = Up THEN Single(t, n)
    ELSE LET old == Without(t.sel, {Up})
             s   == IF n \in ToSet(old) THEN Without(old, {n}) ELSE Append(old, n)
         IN  WithSel(t, s, Leading(s), n, n)

\* From the anchor to the row, in the order they are shown in
Ranged(t, n) ==
    LET rows   == Sorted(t)
        anchor == CHOOSE m \in {t.anchor, t.focus, n} :
                      m = IF t.anchor # Nowhere THEN t.anchor
                          ELSE IF t.focus # Nowhere THEN t.focus ELSE n
    IN  IF {anchor, n} \subseteq ToSet(rows)
        THEN LET i == Place(rows, anchor)
                 k == Place(rows, n)
                 s == IF i < k THEN SubSeq(rows, i, k) ELSE SubSeq(rows, k, i)
             IN  WithSel(t, s, Leading(s), n, anchor)
        ELSE Single(t, n)

\* moveSelection, by rows, by pages, or to the ends
Moved(t, delta) ==
    LET rows == Displayed(t)
        here == {k \in DOMAIN rows : rows[k] \in {t.focus, t.lead}}
        i    == IF here = {} THEN 1 ELSE CHOOSE k \in here : \A j \in here : k <= j
        last == Len(rows)
    IN  Single(t, rows[IF i + delta < 1 THEN 1 ELSE IF i + delta > last THEN last ELSE i + delta])

\* selectAll, invertSelection
Together(t, s) == WithSel(t, s, Leading(s), Leading(s), Leading(s))
Inverted(t)    == Without(Sorted(t), ToSet(t.sel))

\* A rubber band takes rows that follow each other, and none but those that are known.
Banded(t) == {SubSeq(Sorted(t), i, k) : i, k \in DOMAIN Sorted(t)}
Rows(t, s) ==
    LET end == IF s = <<>> THEN Nowhere ELSE Last(s)
    IN  WithSel(t, s, end, end, Leading(s))

Act     == told.acts < MaxActs
Counted == told' = [told EXCEPT !.acts = @ + 1]

\* What the selection may become by an act of the user
Selections(t) ==
    {Single(t, n) : n \in ToSet(Displayed(t))}
        \cup {Toggled(t, n) : n \in ToSet(Displayed(t))}
        \cup {Ranged(t, n) : n \in Shown(t)}
        \cup {Moved(t, delta) : delta \in {-1, 1} \cup {-Len(t.rows), Len(t.rows)}}
        \cup {Together(t, Sorted(t)), Together(t, Inverted(t))}
        \cup {Rows(t, s) : s \in Banded(t)}
        \cup {WithSel(t, <<>>, Nowhere, Nowhere, Nowhere)}

Choose_ ==
    /\ Act
    /\ tab' \in Selections(tab)
    /\ told' = [told EXCEPT !.acts = @ + 1,
                            !.chosen = ToSet(tab'.sel) \cap (ToSet(Displayed(tab)) \cup @)]
    /\ UNCHANGED <<folder, listing, ask, clip, ops>>

\* setFilter and setSort leave the selection as it is.
FilterOrSort ==
    /\ Act /\ Counted
    /\ \/ \E passes \in {Entries_, {RowOrder[Len(RowOrder)]}} \ {tab.passes} :
              tab' = [tab EXCEPT !.passes = passes]
       \/ tab' = [tab EXCEPT !.asc = ~@]
    /\ UNCHANGED <<folder, listing, ask, clip, ops>>

-----------------------------------------------------------------------------
(* Listings.                                                               *)

\* Plausible bug: a listing in the background begins with the rows that are shown.
OntoTheRows == [tab EXCEPT !.aside = tab.rows, !.waits = TRUE, !.back = TRUE]

\* A listing that replaces the rows when it is complete
InBackground == [tab EXCEPT !.aside = <<>>, !.waits = TRUE, !.back = TRUE]

\* A listing that begins with no rows: a navigation to the same folder, which also takes the
\* filter away
FromNothing == [tab EXCEPT !.rows = <<>>, !.sel = <<>>, !.lead = Nowhere, !.focus = Nowhere,
                           !.anchor = Nowhere, !.aside = <<>>, !.waits = TRUE, !.back = FALSE,
                           !.passes = Entries_]

\* The listing that was under way is cancelled, or its batches are no longer taken.
List(t) ==
    /\ tab' = t
    /\ listing' = [kind |-> "asked"]

Refresh_ ==
    /\ Act /\ Counted
    /\ \/ List(InBackground) \/ List(FromNothing)
    /\ UNCHANGED <<folder, ask, clip, ops>>

\* The shell reads the folder and sends one or two batches, in any order of names.
ReadFolder ==
    /\ listing.kind = "asked"
    /\ \E s \in SetToSeqs(folder) : listing' = [kind |-> "read", rest |-> s, fresh |-> TRUE]
    /\ UNCHANGED <<folder, tab, ask, clip, ops, told>>

\* applyBatch, with the names of a batch that are new after those that are known
BatchTab(t, names, complete) ==
    LET old   == IF t.back THEN t.aside ELSE t.rows
        rows  == old \o Without(names, ToSet(old))
        kept  == Among(t.sel, ToSet(rows))
        first == IF kept # <<>> THEN kept[1] ELSE IF t.lead # Nowhere THEN t.lead ELSE Leading(rows)
        now   == [t EXCEPT !.rows = rows, !.lead = first, !.focus = first,
                           !.sel = IF kept # <<>> THEN kept
                                   ELSE IF first = Nowhere THEN <<>> ELSE <<first>>]
    IN  IF complete THEN [now EXCEPT !.waits = FALSE, !.back = FALSE, !.aside = <<>>]
        ELSE IF t.back THEN [t EXCEPT !.aside = rows]
        ELSE now

ApplyBatch_ ==
    /\ listing.kind = "read"
    /\ \E k \in {Len(listing.rest)} \cup (IF Len(listing.rest) > 1 THEN {1} ELSE {}) :
        LET complete == k = Len(listing.rest) IN
        /\ tab' = BatchTab(tab, SubSeq(listing.rest, 1, k), complete)
        /\ listing' = IF complete THEN Absent ELSE [listing EXCEPT !.rest = SubSeq(@, k + 1, Len(@))]
        /\ told' = IF complete THEN [told EXCEPT !.unseen = ~listing.fresh] ELSE told
    /\ UNCHANGED <<folder, ask, clip, ops>>

\* A batch with an error: the rows stay as they are.
ListingFails ==
    /\ listing # Absent
    /\ listing' = Absent
    /\ tab' = [tab EXCEPT !.waits = FALSE, !.back = FALSE, !.aside = <<>>]
    /\ told' = [told EXCEPT !.unseen = TRUE]
    /\ UNCHANGED <<folder, ask, clip, ops>>

-----------------------------------------------------------------------------
(* Operations.                                                             *)

\* What is to be done with which names; "more" is a ghost, those the user had not chosen.
About(kind, names, new) ==
    [kind |-> kind, names |-> names, new |-> new, more |-> names \ told.chosen]

NewOp(what) == [what |-> what, state |-> "asked", answered |-> FALSE, heard |-> FALSE]

Submit(what) == Len(ops) < MaxOps /\ ops' = Append(ops, NewOp(what))

\* handlePermanentDelete, handleTrash: with a dialog or, when the preference says so, at once
AskDelete ==
    /\ Act /\ Counted /\ ask = Absent /\ Chosen(tab) # <<>>
    /\ LET what == About("delete", ToSet(Chosen(tab)), Nowhere) IN
        \/ ask' = what /\ UNCHANGED ops
        \/ Submit(what) /\ UNCHANGED ask
    /\ UNCHANGED <<folder, tab, listing, clip>>

\* handleRename, and the name that is typed
AskRename ==
    /\ Act /\ Counted /\ ask = Absent /\ Len(Chosen(tab)) = 1
    /\ \E new \in Entries_ \ {Chosen(tab)[1]} : ask' = About("rename", {Chosen(tab)[1]}, new)
    /\ UNCHANGED <<folder, tab, listing, clip, ops>>

\* handleCreateFile
AskCreate ==
    /\ Act /\ Counted /\ ask = Absent
    /\ \E new \in Entries_ : ask' = About("create", {}, new)
    /\ UNCHANGED <<folder, tab, listing, clip, ops>>

\* What goes with a row that is dragged: all that is selected, when that is more than a row,
\* whether or not the row is among it.
Dragged(n) == IF Len(tab.sel) > 1 THEN ToSet(tab.sel) ELSE {n}

\* A row is dropped on the other panel.
Drop(n) ==
    /\ Act /\ Counted /\ ask = Absent
    /\ LET names == Dragged(n) \cap Known(tab)
       IN  names # {} /\ ask' = About("move", names, Nowhere)
    /\ UNCHANGED <<folder, tab, listing, clip, ops>>

\* copySelectionToFileClipboard, to move
Cut ==
    /\ Act /\ Counted /\ Chosen(tab) # <<>>
    /\ clip' = About("move", ToSet(Chosen(tab)), Nowhere)
    /\ UNCHANGED <<folder, tab, listing, ask, ops>>

\* pasteClipboard, in another folder: the plan finds conflicts there, and a dialog is shown, or
\* it is started
PasteClip ==
    /\ Act /\ Counted /\ clip # Absent /\ clip.names \subseteq folder
    /\ \/ ask = Absent /\ ask' = clip /\ UNCHANGED ops
       \/ Submit([clip EXCEPT !.kind = "paste"]) /\ UNCHANGED ask
    /\ UNCHANGED <<folder, tab, listing, clip>>

\* The dialog is submitted (it stays until the answer) or dismissed.
SubmitDialog ==
    /\ ask # Absent /\ Submit(ask)
    /\ UNCHANGED <<folder, tab, listing, ask, clip, told>>

DismissDialog ==
    /\ ask # Absent /\ ask' = Absent
    /\ UNCHANGED <<folder, tab, listing, clip, ops, told>>

Stale(l) == IF l.kind = "read" THEN [l EXCEPT !.fresh = FALSE] ELSE l

\* The plan and the job.  A source that is gone when it is planned refuses it, one that goes
\* after that fails the job, as does a name that is taken, unless the dialog saw the conflict
\* in the plan.
Perform(i) ==
    /\ ops[i].state = "asked"
    /\ LET what == ops[i].what
           can  == what.names \subseteq folder
           ok   == can /\ what.new \notin folder
       IN  /\ \E end \in IF ok THEN {"done"} ELSE IF can /\ what.kind = "rename" THEN {"failed"}
                        ELSE {"failed", "refused"} :
                 ops' = [ops EXCEPT ![i].state = end]
           /\ folder' = IF ok THEN (folder \ what.names) \cup ({what.new} \ {Nowhere}) ELSE folder
           /\ listing' = IF ok THEN Stale(listing) ELSE listing
    /\ UNCHANGED <<tab, ask, clip, told>>

\* renameEntryInState
RenameRow(t, old, new) ==
    IF old \notin Known(t) THEN t
    ELSE LET now(n) == IF n = old THEN new ELSE n
             all(s) == [k \in DOMAIN s |-> now(s[k])]
         IN  [t EXCEPT !.rows = all(@), !.sel = all(@), !.lead = now(@), !.focus = now(@),
                       !.anchor = now(@)]

\* The answer to a start: the dialog that is shown is closed, a paste clears the clipboard.
\* What has been renamed is renamed in the rows, what is created is selected.
Answer_(i) ==
    /\ ops[i].state # "asked" /\ ~ops[i].answered
    /\ ops' = [ops EXCEPT ![i].answered = TRUE]
    /\ LET what == ops[i].what
           old  == CHOOSE n \in what.names : TRUE
       IN  IF ops[i].state = "refused" THEN UNCHANGED <<tab, ask, clip, told>>
           ELSE CASE what.kind = "paste" -> clip' = Absent /\ UNCHANGED <<tab, ask, told>>
             [] what.kind = "create" ->
                    /\ ask' = Absent /\ tab' = Single(tab, what.new)
                    /\ told' = [told EXCEPT !.chosen = {what.new}]
                    /\ UNCHANGED clip
             [] what.kind = "rename" ->
                    /\ ask' = Absent /\ tab' = RenameRow(tab, old, what.new)
                    /\ told' = IF old \in Known(tab)
                               THEN [told EXCEPT !.chosen = {IF n = old THEN what.new ELSE n : n \in @},
                                                 !.late = @ \/ ops[i].heard]
                               ELSE told
                    /\ UNCHANGED clip
             [] OTHER -> ask' = Absent /\ UNCHANGED <<tab, clip, told>>
    /\ UNCHANGED <<folder, listing>>

\* The end of a job: the folder is listed, from nothing after a delete that succeeded.
HearEnd_(i) ==
    /\ ops[i].state \in {"done", "failed"} /\ ~ops[i].heard
    /\ ops' = [ops EXCEPT ![i].heard = TRUE]
    /\ List(IF ops[i].what.kind = "delete" /\ ops[i].state = "done" THEN FromNothing ELSE InBackground)
    /\ told' = [told EXCEPT !.late = FALSE]
    /\ UNCHANGED <<folder, ask, clip>>

\* Another program
OthersAct ==
    /\ ~told.others
    /\ \E n \in OthersChange :
        folder' = IF n \in folder THEN folder \ {n} ELSE folder \cup {n}
    /\ listing' = Stale(listing)
    /\ told' = [told EXCEPT !.others = TRUE, !.unseen = TRUE]
    /\ UNCHANGED <<tab, ask, clip, ops>>

SelectionInit ==
    /\ folder = Entries_ \ {RowOrder[Len(RowOrder)]}
    /\ tab = [rows |-> <<>>, sel |-> <<>>, lead |-> Nowhere, focus |-> Nowhere, anchor |-> Nowhere,
              passes |-> Entries_, asc |-> TRUE, aside |-> <<>>, waits |-> TRUE, back |-> FALSE]
    /\ listing = [kind |-> "asked"]
    /\ ask = Absent /\ clip = Absent /\ ops = <<>>
    /\ told = [chosen |-> {}, unseen |-> FALSE, late |-> FALSE, others |-> FALSE,
               acts |-> 0]

SelectionNext ==
    \/ Choose_ \/ FilterOrSort
    \/ Refresh_ \/ ReadFolder \/ ApplyBatch_ \/ ListingFails
    \/ AskDelete \/ AskRename \/ AskCreate \/ Cut \/ PasteClip
    \/ \E n \in Shown(tab) : Drop(n)
    \/ SubmitDialog \/ DismissDialog
    \/ \E i \in DOMAIN ops : Perform(i) \/ Answer_(i) \/ HearEnd_(i)
    \/ OthersAct

-----------------------------------------------------------------------------
(* Properties.                                                             *)

\* The rows and the selection are of the folder, and no name is selected twice unless a row
\* was renamed to a name that was taken.
SelTypeOK ==
    /\ folder \subseteq Entries_
    /\ ToSet(tab.rows) \cup ToSet(tab.aside) \subseteq Entries_
    /\ ToSet(tab.sel) \subseteq Entries_ \cup {Up}
    /\ {tab.lead, tab.focus, tab.anchor} \subseteq Entries_ \cup {Up, Nowhere}
    /\ tab.passes \subseteq Entries_ /\ {tab.asc, tab.waits, tab.back} \subseteq BOOLEAN
    /\ listing.kind \in {"none", "asked", "read"} /\ tab.waits = (listing # Absent)
    /\ IsInjective(tab.aside)
    /\ (\A i \in DOMAIN ops : ops[i].what.kind # "rename") => IsInjective(tab.rows) /\ IsInjective(tab.sel)

Acts == ({ask, clip} \ {Absent}) \cup {ops[i].what : i \in DOMAIN ops}

\* What is deleted, moved or renamed is what the user chose among the rows that were shown,
\* however often the rows were listed, filtered and renamed since, and one row more at most:
\* the row the panel selects itself when nothing of what was chosen is left.
ActsOnChosen == \A what \in Acts : Cardinality(what.more) <= 1

\* When no listing is under way and every operation has been answered and its end heard of,
\* the rows are the folder: what was deleted and the old names of what was renamed are gone,
\* the names that a failed rename gave to rows are taken back.  Not so if another program
\* changed the folder, a listing failed or is older than the change, or the end of a rename
\* was heard of before its start was answered.
RowsSettle ==
    /\ listing = Absent /\ ~told.unseen /\ ~told.late
    /\ \A i \in DOMAIN ops :
        ops[i].answered /\ (ops[i].state = "refused" \/ ops[i].heard)
    => ToSet(tab.rows) = folder /\ IsInjective(tab.rows)

SelectionTrue == ActsOnChosen /\ RowsSettle

=============================================================================
