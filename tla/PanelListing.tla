---------------------------- MODULE PanelListing ----------------------------
(***************************************************************************)
(* The two panes of the window and the directory listings behind their     *)
(* tabs: panelStore.ts with its reducer slices, the navigation controller, *)
(* the directory watcher's refresh, the refresh a finished file operation  *)
(* asks for, and the registry of the shell that cancels superseded         *)
(* listings.  A call to the shell is answered in one message; the rows of  *)
(* a listing come in batches, which the answer may overtake or trail.      *)
(*                                                                         *)
(* A row is a pair of a directory and a name.  Sessions are left out: a    *)
(* batch is looked up by its session first, but the tab with that session  *)
(* takes it only if it still waits for the request of the session.         *)
(***************************************************************************)
EXTENDS Integers, SequencesExt

CONSTANTS
    Uris,         \* the directories
    Once,         \* those listed in one answer: archives, the network neighbourhood
    Parent,       \* the parent of each directory
    FileUri,      \* what a preview or editor tab shows
    Names,
    MaxRequests,  \* bound on the listings started
    MaxTabs,      \* bound on the tabs of a pane
    MaxActs,      \* bound on what the user does and the watcher sees
    Initial,      \* the entries there are at first ...
    Places,       \* ... what the two panes may show
    Ahead,        \* ... and where they came back from
    Kinds         \* the file operations the user starts

Panels == {"left", "right"}
Other(p) == CHOOSE q \in Panels : q # p
Rows   == Uris \X Names
None   == 0
NoPlan == [folders |-> {}, removed |-> {}]

ASSUME PanelConstants ==
    /\ Once \subseteq Uris /\ FileUri \notin Uris
    /\ Parent \in [Uris -> Uris] /\ Initial \subseteq Rows
    /\ Places \subseteq [Panels -> Uris] /\ Ahead \in Seq(Uris)
    /\ {MaxRequests, MaxTabs, MaxActs} \subseteq Nat
    /\ Kinds \subseteq {"delete", "move", "copy"}

VARIABLES
    panes,      \* the tabs of each pane and which is active
    calls,      \* every listing started, with what the shell does for it
    disk,       \* the entries there are
    op,         \* the file operation
    acts,       \* what the user did and the watcher saw, counted
    mixed       \* ghost: a second tab was opened, the panes were swapped, or the shell
                \* took up two listings of a pane in the wrong order

vars == <<panes, calls, disk, op, acts, mixed>>

Requests == 0 .. MaxRequests
Tab == [kind : {"directory", "content"}, uri : Uris \cup {FileUri},
        load : {"loading", "loaded", "empty", "error"},
        req : Requests,
        bg : Requests, aside : SUBSET Rows,    \* backgroundListing: its request and rows
        rows : SUBSET Rows,
        back : Seq(Uris \cup {FileUri}), forward : Seq(Uris \cup {FileUri})]

Call == [uri : Uris \cup {FileUri}, pane : Panels,
         answer : {"pending", "ok", "refused", "delivered"},
         run : {"no", "yes", "cancelled", "complete", "broken", "over"},
         seen : SUBSET Rows, out : SUBSET Rows]  \* rows read, and those not yet delivered

Pane == [active : Nat, tabs : Seq(Tab)]

Plan == [folders : SUBSET Uris, removed : SUBSET Rows]
Work == [phase : {"running", "done", "failed", "told"}, ok : BOOLEAN, answered : BOOLEAN, plan : Plan,
         kind : {"delete", "move", "copy"}, entry : Rows, dest : Uris]
NoWork == [phase |-> "none", ok |-> FALSE, answered |-> FALSE, plan |-> NoPlan]

TypeOK ==
    /\ panes \in [Panels -> Pane] /\ \A p \in Panels : panes[p].active \in DOMAIN panes[p].tabs
    /\ calls \in Seq(Call) /\ Len(calls) <= MaxRequests
    /\ acts \in 0 .. MaxActs /\ disk \subseteq Rows /\ mixed \in BOOLEAN
    /\ op \in Work \cup {NoWork}

Active(ps, p) == ps[p].tabs[ps[p].active]
Content(u)    == {e \in disk : e[1] = u}
Settled(rows) == IF rows = {} THEN "empty" ELSE "loaded"

NewTab(u) ==
    [kind |-> "directory", uri |-> u, load |-> "loading", req |-> None, bg |-> None,
     aside |-> {}, rows |-> {}, back |-> <<>>, forward |-> <<>>]

\* After the first listings: a tab in each pane, with what its directory has.
Init ==
    /\ disk = Initial
    /\ \E u \in Places :
         panes = [p \in Panels |->
            [active |-> 1,
             tabs |-> <<[NewTab(u[p]) EXCEPT !.forward = Ahead, !.rows = Content(u[p]), !.load = Settled(Content(u[p]))]>>]]
    /\ calls = <<>> /\ acts = 0 /\ mixed = FALSE
    /\ op = NoWork

-----------------------------------------------------------------------------
(* The reducer.  A window is the pair of panes and calls.                  *)

Window == [panes |-> panes, calls |-> calls]

Becomes(w) == panes' = w.panes /\ calls' = w.calls

\* applyNavigation, unless it is a soft refresh of the same directory ...
ApplyNavigation(tab, u, back, forward) ==
    [NewTab(u) EXCEPT !.back = back, !.forward = forward]

\* ... which only forgets the listing it had.
SoftRefresh(tab, u) ==
    IF u = tab.uri /\ tab.load # "error"
    THEN [tab EXCEPT !.req = None, !.bg = None, !.aside = {}]
    ELSE ApplyNavigation(tab, u, tab.back, tab.forward)

\* startRequest and the call that follows, for the active tab of p.
StartListing(w, p, tab, background) ==
    LET r == Len(w.calls) + 1
        started == [tab EXCEPT !.req = r, !.aside = {},
                       !.bg = IF background THEN r ELSE None,
                       !.load = IF background THEN @ ELSE "loading"]
    IN  [panes |-> [w.panes EXCEPT ![p].tabs[w.panes[p].active] = started],
         calls |-> Append(w.calls, [uri |-> tab.uri, pane |-> p, answer |-> "pending",
                                    run |-> "no", seen |-> {}, out |-> {}])]

\* refreshPanel
RefreshPanel(w, p, soft) ==
    LET tab == Active(w.panes, p)
    IN  IF tab.kind # "directory" THEN w
        ELSE StartListing(w, p, IF soft THEN SoftRefresh(tab, tab.uri)
                                ELSE ApplyNavigation(tab, tab.uri, tab.back, tab.forward), soft)

RefreshPanels(S, soft) ==
    LET w == IF "left" \in S THEN RefreshPanel(Window, "left", soft) ELSE Window
    IN  IF "right" \in S THEN RefreshPanel(w, "right", soft) ELSE w

\* updateRequestTab: the tab that waits for request r, if it is still in pane p.
UpdateRequestTab(p, r, Patched(_)) ==
    panes' = [panes EXCEPT ![p].tabs =
                [i \in DOMAIN @ |-> IF @[i].req = r THEN Patched(@[i]) ELSE @[i]]]

-----------------------------------------------------------------------------
(* The user.                                                               *)

\* A handler that starts n listings, within the bound.
Room(n) == Len(calls) + n <= MaxRequests

Navigate(p, u) ==
    LET tab == Active(panes, p)
        changed == u # tab.uri
    IN  /\ Room(1)
        /\ Becomes(StartListing(Window, p,
             ApplyNavigation(tab, u, IF changed THEN Append(tab.back, tab.uri) ELSE tab.back,
                                     IF changed THEN <<>> ELSE tab.forward), FALSE))
        /\ UNCHANGED <<disk, op, mixed>>

GoBack(p) ==
    LET tab == Active(panes, p)
    IN  /\ Room(1) /\ tab.back # <<>>
        /\ Becomes(StartListing(Window, p,
             ApplyNavigation(tab, Last(tab.back), Front(tab.back), <<tab.uri>> \o tab.forward), FALSE))
        /\ UNCHANGED <<disk, op, mixed>>

GoForward(p) ==
    LET tab == Active(panes, p)
    IN  /\ Room(1) /\ tab.forward # <<>>
        /\ Becomes(StartListing(Window, p,
             ApplyNavigation(tab, Head(tab.forward), Append(tab.back, tab.uri), Tail(tab.forward)), FALSE))
        /\ UNCHANGED <<disk, op, mixed>>

Refresh(p) ==
    /\ Room(1)
    /\ Becomes(RefreshPanel(Window, p, FALSE))
    /\ UNCHANGED <<disk, op, mixed>>

\* onWatchChanged: the directory of the active pane is watched, which may be either.
WatchChanged(p) ==
    /\ Room(1)
    /\ Active(panes, p).uri \in Uris \ Once
    /\ Becomes(RefreshPanel(Window, p, TRUE))
    /\ UNCHANGED <<disk, op, mixed>>

AddTab(p, tab) ==
    /\ Len(panes[p].tabs) < MaxTabs
    /\ panes' = [panes EXCEPT ![p] = [active |-> Len(@.tabs) + 1, tabs |-> Append(@.tabs, tab)]]
    /\ mixed' = TRUE
    /\ UNCHANGED <<calls, disk, op>>

\* createFreshTab: rows are copied from the active tab if it is settled at the same place.
OpenTab(p, u) ==
    LET source == Active(panes, p)
        clone == source.uri = u /\ source.load \in {"loaded", "empty"}
    IN  AddTab(p, IF clone THEN [NewTab(u) EXCEPT !.rows = source.rows, !.load = source.load]
                  ELSE NewTab(u))

\* A preview or an editor opens in the opposite pane.
OpenContentTab(p) == AddTab(Other(p), [NewTab(FileUri) EXCEPT !.kind = "content", !.load = "loaded"])

SwitchTab(p, i) ==
    /\ i \in DOMAIN panes[p].tabs
    /\ panes' = [panes EXCEPT ![p].active = i]
    /\ UNCHANGED <<calls, disk, op, mixed>>

\* Mutant: closing a tab before the active one does not move the active one.
CloseTabOnly(p, i) ==
    /\ Len(panes[p].tabs) > 1 /\ i \in DOMAIN panes[p].tabs
    /\ panes' = [panes EXCEPT ![p].tabs = RemoveAt(@, i)]
    /\ UNCHANGED <<calls, disk, op, mixed>>

CloseTab(p, i) ==
    /\ Len(panes[p].tabs) > 1 /\ i \in DOMAIN panes[p].tabs
    /\ panes' = [panes EXCEPT ![p] =
            [active |-> IF @.active > i \/ (@.active = i /\ i > 1) THEN @.active - 1 ELSE @.active,
             tabs   |-> RemoveAt(@.tabs, i)]]
    /\ UNCHANGED <<calls, disk, op, mixed>>

SwapPanes ==
    /\ panes' = [p \in Panels |-> panes[Other(p)]]
    /\ mixed' = TRUE
    /\ UNCHANGED <<calls, disk, op>>

-----------------------------------------------------------------------------
(* The shell.                                                              *)

Streams(r) == calls[r].uri \notin Once

\* fs_list_start registers the listing, and cancels the one registered for the pane.
Accept(r) ==
    /\ Streams(r) /\ calls[r].answer = "pending"
    /\ calls' = [s \in DOMAIN calls |->
          IF s = r THEN [calls[r] EXCEPT !.answer = "ok", !.run = "yes"]
          ELSE IF calls[s].pane = calls[r].pane /\ calls[s].run = "yes"
               THEN [calls[s] EXCEPT !.run = "cancelled"] ELSE calls[s]]
    /\ mixed' = (mixed \/ \E s \in r + 1 .. Len(calls) :
                            calls[s].pane = calls[r].pane /\ calls[s].run # "no")
    /\ UNCHANGED <<panes, disk, op>>

\* list_archive and discover_neighborhood answer with all the rows.
AnswerAtOnce(r) ==
    /\ ~Streams(r) /\ calls[r].answer = "pending"
    /\ calls' = [calls EXCEPT ![r].answer = "ok", ![r].out = Content(calls[r].uri)]
    /\ UNCHANGED <<panes, disk, op, mixed>>

Refuse(r) ==
    /\ calls[r].answer = "pending"
    /\ calls' = [calls EXCEPT ![r].answer = "refused"]
    /\ UNCHANGED <<panes, disk, op, mixed>>

Unread(r) == Content(calls[r].uri) \ calls[r].seen

\* The provider reads on ...
Read(r) ==
    /\ calls[r].run = "yes" /\ Unread(r) # {}
    /\ calls' = [calls EXCEPT ![r].seen = @ \cup Unread(r), ![r].out = @ \cup Unread(r)]
    /\ UNCHANGED <<panes, disk, op, mixed>>

\* ... to the end, or to an error or the timeout.
EndListing(r) ==
    /\ calls[r].run = "yes"
    /\ \/ Unread(r) = {} /\ calls[r].uri # FileUri /\ calls' = [calls EXCEPT ![r].run = "complete"]
       \/ calls' = [calls EXCEPT ![r].run = "broken"]
    /\ UNCHANGED <<panes, disk, op, mixed>>

-----------------------------------------------------------------------------
(* What reaches the page.                                                  *)

Delivered(r) == calls' = [calls EXCEPT ![r].answer = "delivered"]

\* Mutant: the tab takes the session even when its listing has ended.
StartSessionAnyway(r) ==
    /\ Streams(r) /\ calls[r].answer = "ok"
    /\ Delivered(r)
    /\ panes' = [panes EXCEPT ![calls[r].pane].tabs[panes[calls[r].pane].active].req = r]
    /\ UNCHANGED <<disk, op, mixed>>

StartSession(r) ==
    /\ Streams(r) /\ calls[r].answer = "ok"
    /\ Delivered(r)
    /\ UpdateRequestTab(calls[r].pane, r, LAMBDA tab : [tab EXCEPT !.req = r])
    /\ UNCHANGED <<disk, op, mixed>>

SetPaneError(r) ==
    /\ calls[r].answer = "refused"
    /\ Delivered(r)
    /\ UpdateRequestTab(calls[r].pane, r, LAMBDA tab : [tab EXCEPT !.req = None, !.load = "error"])
    /\ UNCHANGED <<disk, op, mixed>>

SetArchiveEntries(r) ==
    /\ ~Streams(r) /\ calls[r].answer = "ok"
    /\ Delivered(r)
    /\ UpdateRequestTab(calls[r].pane, r, LAMBDA tab :
          [tab EXCEPT !.rows = calls[r].out, !.load = "loaded", !.req = None, !.bg = None, !.aside = {}])
    /\ UNCHANGED <<disk, op, mixed>>

\* Mutant: rows of a background refresh are added to those shown.
BatchRowsMerge(tab, r) == tab.rows \cup calls[r].out

\* A background refresh collects its rows aside.
BatchRows(tab, r) == (IF tab.bg = r THEN tab.aside ELSE tab.rows) \cup calls[r].out

WithRows(tab, r) ==
    IF tab.bg = r THEN [tab EXCEPT !.aside = BatchRows(tab, r)]
    ELSE [tab EXCEPT !.rows = BatchRows(tab, r), !.load = "loading"]

Ended(tab, r) ==
    [tab EXCEPT !.req = None, !.bg = IF @ = r THEN None ELSE @,
                !.aside = IF tab.bg = r THEN {} ELSE @]

WithLastRows(tab, r) ==
    [Ended(tab, r) EXCEPT !.rows = BatchRows(tab, r), !.load = Settled(BatchRows(tab, r))]

WithError(tab, r) == [Ended(tab, r) EXCEPT !.load = "error"]

\* Mutant: a tab takes every batch meant for its pane.
TakesBatchOfPane(tab, r) == tab.kind = "directory"

\* shouldApplyBatch
TakesBatch(tab, r) == tab.req = r

WithBatch(tab, r, status) ==
    CASE status = "listing"  -> WithRows(tab, r)
      [] status = "complete" -> WithLastRows(tab, r)
      [] status = "error"    -> WithError(tab, r)

ToTab(r, status) ==
    panes' = [p \in Panels |-> [panes[p] EXCEPT !.tabs =
                [i \in DOMAIN @ |-> IF TakesBatch(@[i], r) THEN WithBatch(@[i], r, status) ELSE @[i]]]]

\* Batches come in order; an error is sent by another task and may overtake them.
ApplyBatch(r) ==
    /\ \/ /\ calls[r].run # "no" /\ calls[r].out # {}
          /\ ToTab(r, "listing")
          /\ calls' = [calls EXCEPT ![r].out = {}]
       \/ /\ calls[r].run = "complete"
          /\ ToTab(r, "complete")
          /\ calls' = [calls EXCEPT ![r].out = {}, ![r].run = "over"]
       \/ /\ calls[r].run = "broken"
          /\ ToTab(r, "error")
          /\ calls' = [calls EXCEPT ![r].run = "over"]
    /\ UNCHANGED <<disk, op, mixed>>

-----------------------------------------------------------------------------
(* A file operation and the refresh after it.                              *)

Folder(u) == Parent[u]

\* registerOperationRefresh: the directories of the sources, and the parent of the
\* destination, which for a copy or a move is itself a directory.
Targets(kind, e, d) ==
    CASE kind = "delete" -> [folders |-> {e[1]}, removed |-> {e}]
      [] kind = "move"   -> [folders |-> {e[1], Folder(d)}, removed |-> {}]
      [] kind = "copy"   -> [folders |-> {Folder(d)}, removed |-> {}]

StartOperation(kind, e, d) ==
    /\ op.phase = "none"
    /\ \E p \in Panels : e \in Active(panes, p).rows \cap disk
    /\ d \in Uris \ (Once \cup {e[1]})
    /\ op' = [phase |-> "running", ok |-> FALSE, answered |-> FALSE, plan |-> NoPlan,
              kind |-> kind, entry |-> e, dest |-> d]
    /\ UNCHANGED <<panes, calls, disk, mixed>>

EndOperation ==
    /\ op.phase = "running"
    /\ \/ /\ op' = [op EXCEPT !.phase = "done", !.ok = TRUE]
          /\ disk' = (disk \ IF op.kind = "copy" THEN {} ELSE {op.entry})
                     \cup IF op.kind = "delete" THEN {} ELSE {<<op.dest, op.entry[2]>>}
       \/ op' = [op EXCEPT !.phase = "failed"] /\ UNCHANGED disk
    /\ UNCHANGED <<panes, calls, mixed>>

\* The start response registers the targets, maybe after the operation was heard to end.
StartAnswered ==
    /\ op.phase # "none" /\ ~op.answered
    /\ op' = [op EXCEPT !.answered = TRUE, !.plan = Targets(op.kind, op.entry, op.dest)]
    /\ UNCHANGED <<panes, calls, disk, mixed>>

\* refreshOperationTargets: the panes that show a target, or else both.
RefreshTargets(folders) ==
    LET shown == {p \in Panels : Active(panes, p).uri \in folders}
    IN  IF shown = {} THEN Panels ELSE shown

RemoveEntries(ps, gone) ==
    [p \in Panels |-> [ps[p] EXCEPT !.tabs =
        [i \in DOMAIN @ |-> [@[i] EXCEPT !.rows = ps[p].tabs[i].rows \ gone]]]]

\* onJobCompleted and onJobFailed
HearEnd ==
    LET soft == ~(op.kind = "delete" /\ op.phase = "done")
        gone == IF op.phase = "done" THEN op.plan.removed ELSE {}
        w    == RefreshPanels(RefreshTargets(op.plan.folders), soft)
    IN  /\ op.phase \in {"done", "failed"} /\ Room(2)
        /\ Becomes([w EXCEPT !.panes = RemoveEntries(@, gone)])
        /\ op' = [op EXCEPT !.phase = "told", !.plan = NoPlan]
        /\ UNCHANGED <<disk, mixed>>

-----------------------------------------------------------------------------

User ==
    /\ acts < MaxActs /\ acts' = acts + 1
    /\ \/ \E p \in Panels, u \in Uris : Navigate(p, u) \/ OpenTab(p, u)
       \/ \E p \in Panels : GoBack(p) \/ GoForward(p) \/ Refresh(p) \/ OpenContentTab(p)
       \/ \E p \in Panels, i \in 1 .. MaxTabs : SwitchTab(p, i) \/ CloseTab(p, i)
       \/ SwapPanes \/ \E p \in Panels : WatchChanged(p)
       \/ \E kind \in Kinds, e \in disk, d \in Uris : StartOperation(kind, e, d)

Shell(r)  == Accept(r) \/ AnswerAtOnce(r) \/ Refuse(r) \/ Read(r) \/ EndListing(r)
Page(r)   == StartSession(r) \/ SetPaneError(r) \/ SetArchiveEntries(r) \/ ApplyBatch(r)
Operation == EndOperation \/ StartAnswered \/ HearEnd

Next ==
    \/ User
    \/ /\ \/ Operation
          \/ \E r \in DOMAIN calls : Shell(r) \/ Page(r)
       /\ UNCHANGED acts

Spec == Init /\ [][Next]_vars

-----------------------------------------------------------------------------
(* Properties.                                                             *)

Tabs == UNION {Range(panes[p].tabs) : p \in Panels}

\* No listing is under way and every answer and batch has been delivered.
Quiet ==
    \A r \in DOMAIN calls :
        calls[r].answer = "delivered" /\ calls[r].run \in {"no", "cancelled", "over"}

\* A tab shows rows of its own directory only, whatever listings of other directories,
\* tabs and panes are still under way; and so does what it collects for a refresh.
OwnFolder == \A tab \in Tabs : \A e \in tab.rows \cup tab.aside : e[1] = tab.uri

\* Every listing ends for its tab, whether it is superseded, refused, broken off or
\* complete before its answer, as long as each pane has one tab and keeps its side.
ListingsEnd == Quiet /\ ~mixed => \A tab \in Tabs : tab.load # "loading" /\ tab.req = None

\* When an operation has been heard to have deleted or moved an entry, no listing that
\* read it before brings it back, whichever of its end and its start response came first.
GoneIsGone ==
    op.phase = "told" /\ op.ok /\ op.kind # "copy" /\ Quiet /\ ~mixed =>
        \A tab \in Tabs : op.entry \in tab.rows => tab.load = "error"

=============================================================================
