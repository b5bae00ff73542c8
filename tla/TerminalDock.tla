----------------------------- MODULE TerminalDock -----------------------------
(***************************************************************************)
(* The terminals of the panes and of the activity rail: TerminalProvider   *)
(* with the reducer of terminalSlice.ts, the views that show a session     *)
(* while it is on screen, and the shells of the terminal service with the  *)
(* thread that reads each one.  What a shell writes and its exit come as   *)
(* events, which may overtake the answer to the call that started it.      *)
(*                                                                         *)
(* The chunks a shell writes are numbered; a session has the number of its *)
(* shell.  Titles, sizes and profiles are left out.                        *)
(***************************************************************************)
EXTENDS Integers, SequencesExt

CONSTANTS
    MaxShells,     \* bound on the shells asked for
    MaxChunks,     \* bound on what a shell writes
    BufferMax,     \* chunks the page keeps for a session without a view
    MaxDockActs    \* bound on what the user does

ASSUME DockConstants == {MaxShells, MaxChunks, BufferMax, MaxDockActs} \subseteq Nat

VARIABLES
    sessions,      \* the tabs, in the order they were added
    activeSession,
    chrome,        \* the terminal of each pane
    segment,       \* what the activity rail shows
    shells,        \* the shells asked for and what became of them
    buffered,      \* outputBuffer
    shown,         \* what each view shows; it has registered its handlers
    dockActs

dockVars == <<sessions, activeSession, chrome, segment, shells, buffered, shown, dockActs>>

Docks == {"left", "right"}
Ids   == 1 .. MaxShells
None  == 0

Session == [id : Ids, pane : Docks \cup {"rail"}, status : {"running", "exited"}]
Shell   == [pane : Docks \cup {"rail"},
            reuse : BOOLEAN,   \* a running session of the pane will do
            step  : {"profiles", "asked", "answered", "over"},   \* of the call for it
            life  : {"none", "alive", "ended", "told"},
            said  : 0 .. MaxChunks, heard : 0 .. MaxChunks,
            kill  : BOOLEAN,   \* a kill is on its way
            early : BOOLEAN]   \* ghost: the end was heard before the answer

TermTypeOK ==
    /\ sessions \in Seq(Session) /\ activeSession \in Ids \cup {None}
    /\ chrome \in [Docks -> [open : BOOLEAN, collapsed : BOOLEAN, session : Ids \cup {None}]]
    /\ segment \in {"activity", "terminal"}
    /\ shells \in Seq(Shell) /\ Len(shells) <= MaxShells
    /\ buffered \in [Ids -> Seq(1 .. MaxChunks)]
    /\ \A i \in Ids : Len(buffered[i]) <= BufferMax
    /\ DOMAIN shown \subseteq Ids

Closed == [open |-> FALSE, collapsed |-> FALSE, session |-> None]
On(i)  == [open |-> TRUE, collapsed |-> FALSE, session |-> i]

TermInit ==
    /\ sessions = <<>> /\ activeSession = None /\ segment = "activity"
    /\ chrome = [p \in Docks |-> Closed]
    /\ shells = <<>> /\ dockActs = 0
    /\ buffered = [i \in Ids |-> <<>>] /\ shown = <<>>

Listed   == {s.id : s \in Range(sessions)}
The(i)   == CHOOSE s \in Range(sessions) : s.id = i
InPane(ss, p)    == SelectSeq(ss, LAMBDA s : s.pane = p)
RunningIn(p)     == SelectSeq(sessions, LAMBDA s : s.pane = p /\ s.status # "exited")

-----------------------------------------------------------------------------
(* The user.                                                               *)

\* A new shell is asked for; most calls read the terminal profiles first.
Ask(pane, reuse, step) ==
    /\ Len(shells) < MaxShells
    /\ shells' = Append(shells, [pane |-> pane, reuse |-> reuse, step |-> step, life |-> "none",
                                 said |-> 0, heard |-> 0, kill |-> FALSE, early |-> FALSE])

\* A local terminal takes a running session of the pane, a remote one is always new.
OpenPaneTerminal(p) ==
    /\ \E reuse \in BOOLEAN : Ask(p, reuse, "profiles")
    /\ UNCHANGED <<sessions, activeSession, chrome, segment, buffered, shown>>

OpenAdditionalPaneTab(p) ==
    /\ Ask(p, FALSE, "profiles")
    /\ UNCHANGED <<sessions, activeSession, chrome, segment, buffered, shown>>

\* openNewTerminalTab, openProfileTerminalTab and spawnAndRunTerminalCommand without a pane
OpenRailTab ==
    /\ Ask("rail", FALSE, "profiles")
    /\ segment' = "terminal"
    /\ UNCHANGED <<sessions, activeSession, chrome, buffered, shown>>

DuplicateTab(i) ==
    /\ i \in Listed
    /\ Ask(The(i).pane, FALSE, "asked")
    /\ UNCHANGED <<sessions, activeSession, chrome, segment, buffered, shown>>

TogglePaneTerminal(p) ==
    \/ ~chrome[p].open /\ OpenPaneTerminal(p)
    \/ /\ chrome[p].open
       /\ chrome' = [chrome EXCEPT ![p].collapsed = ~@]
       /\ UNCHANGED <<sessions, activeSession, segment, shells, buffered, shown>>

\* switchSession and, for a tab of a pane, setPaneActiveSession
SwitchSession(i) ==
    /\ i \in Listed
    /\ activeSession' = i
    /\ IF The(i).pane = "rail" THEN segment' = "terminal" /\ UNCHANGED chrome
       ELSE chrome' = [chrome EXCEPT ![The(i).pane] = On(i)] /\ UNCHANGED segment
    /\ UNCHANGED <<sessions, shells, buffered, shown>>

\* The first session of a sequence, or none.
FirstOf(ss) == IF ss = <<>> THEN None ELSE Head(ss).id

\* The session runCommandInActiveTerminal takes for its command.
CommandTarget ==
    LET running == SelectSeq(sessions, LAMBDA s : s.status # "exited")
    IN  CASE activeSession \in {s.id : s \in Range(running)} -> activeSession
          [] OTHER -> FirstOf(InPane(running, "rail") \o running)

RunCommand == CommandTarget # None /\ SwitchSession(CommandTarget)

\* Mutant: a pane keeps its binding.
BoundStill(c, i, rest) == c

\* clearPaneBinding
Unbound(c, i, rest) ==
    [p \in Docks |->
        IF c[p].session # i THEN c[p]
        ELSE LET sibling == FirstOf(InPane(rest, p))
             IN  IF sibling = None THEN Closed ELSE On(sibling)]

Kill(i) == shells' = [shells EXCEPT ![i].kill = TRUE]

CloseTerminalTab(i) ==
    LET rest  == SelectSeq(sessions, LAMBDA s : s.id # i)
        index == SelectInSeq(sessions, LAMBDA s : s.id = i) - 1
    IN  /\ i \in Listed
        /\ Kill(i)
        /\ sessions' = rest
        /\ activeSession' = IF activeSession # i THEN activeSession
                            ELSE IF rest = <<>> THEN None
                            ELSE rest[IF index = 0 THEN 1 ELSE index].id
        /\ chrome' = Unbound(chrome, i, rest)
        /\ segment' = IF rest = <<>> THEN "activity" ELSE segment
        /\ UNCHANGED <<buffered, shown>>

\* Its sessions go on.
ClosePaneTerminal(p) ==
    /\ chrome[p].open
    /\ chrome' = [chrome EXCEPT ![p] = Closed]
    /\ UNCHANGED <<sessions, activeSession, segment, shells, buffered, shown>>

SetSegment ==
    /\ segment' = IF segment = "activity" THEN "terminal" ELSE "activity"
    /\ UNCHANGED <<sessions, activeSession, chrome, shells, buffered, shown>>

-----------------------------------------------------------------------------
(* The calls for a shell.                                                  *)

\* The session findRunningPaneSession finds: the one shown, or the pane's first.
Reusable(p) ==
    IF \E s \in Range(RunningIn(p)) : s.id = chrome[p].session THEN chrome[p].session
    ELSE FirstOf(RunningIn(p))

HearProfiles(i) ==
    LET p     == shells[i].pane
        found == IF shells[i].reuse THEN Reusable(p) ELSE None
    IN  /\ shells[i].step = "profiles"
        /\ IF found = None
           THEN shells' = [shells EXCEPT ![i].step = "asked"] /\ UNCHANGED <<chrome, activeSession>>
           ELSE /\ shells' = [shells EXCEPT ![i].step = "over"]
                /\ chrome' = [chrome EXCEPT ![p] = On(found)]
                /\ activeSession' = found
        /\ UNCHANGED <<sessions, segment, buffered, shown, dockActs>>

Spawn(i) ==
    /\ shells[i].step = "asked"
    /\ \/ shells' = [shells EXCEPT ![i].step = "answered", ![i].life = "alive"]
       \/ shells' = [shells EXCEPT ![i].step = "over"]
    /\ UNCHANGED <<sessions, activeSession, chrome, segment, buffered, shown, dockActs>>

\* The answer: addSession, and openPaneTerminal for a pane.
AddSession(i) ==
    LET p == shells[i].pane
    IN  /\ shells[i].step = "answered"
        /\ shells' = [shells EXCEPT ![i].step = "over"]
        /\ sessions' = Append(sessions, [id |-> i, pane |-> p, status |-> "running"])
        /\ activeSession' = i
        /\ IF p = "rail" THEN segment' = "terminal" /\ UNCHANGED chrome
           ELSE chrome' = [chrome EXCEPT ![p] = On(i)] /\ UNCHANGED segment
        /\ UNCHANGED <<buffered, shown, dockActs>>

-----------------------------------------------------------------------------
(* The shells.                                                             *)

Say(i) ==
    /\ shells[i].life = "alive" /\ shells[i].said < MaxChunks
    /\ shells' = [shells EXCEPT ![i].said = @ + 1]
    /\ UNCHANGED <<sessions, activeSession, chrome, segment, buffered, shown, dockActs>>

\* The shell ends by itself, or a kill reaches it.
End(i) ==
    /\ \/ shells[i].kill /\ shells' = [shells EXCEPT ![i].kill = FALSE,
                                                     ![i].life = IF @ = "alive" THEN "ended" ELSE @]
       \/ shells[i].life = "alive" /\ shells' = [shells EXCEPT ![i].life = "ended"]
    /\ UNCHANGED <<sessions, activeSession, chrome, segment, buffered, shown, dockActs>>

\* A full buffer drops its oldest chunks.
KeepLast(s) == SubSeq(s, Len(s) - BufferMax + 1, Len(s))

Trim(s) == IF Len(s) > BufferMax THEN KeepLast(s) ELSE s

HearOutput(i) ==
    LET n == shells[i].heard + 1
    IN  /\ n <= shells[i].said
        /\ shells' = [shells EXCEPT ![i].heard = n]
        /\ IF i \in DOMAIN shown
           THEN shown' = [shown EXCEPT ![i] = Append(@, n)] /\ UNCHANGED buffered
           ELSE buffered' = [buffered EXCEPT ![i] = Trim(Append(@, n))] /\ UNCHANGED shown
        /\ UNCHANGED <<sessions, activeSession, chrome, segment, dockActs>>

SetSessionExited(ss, i) ==
    [k \in DOMAIN ss |-> IF ss[k].id = i THEN [ss[k] EXCEPT !.status = "exited"] ELSE ss[k]]

HearExit(i) ==
    /\ shells[i].life = "ended" /\ shells[i].heard = shells[i].said
    /\ shells' = [shells EXCEPT ![i].life = "told", ![i].early = (shells[i].step = "answered")]
    /\ sessions' = SetSessionExited(sessions, i)
    /\ UNCHANGED <<activeSession, chrome, segment, buffered, shown, dockActs>>

-----------------------------------------------------------------------------
(* The views, which follow some time after what they render.               *)

OnScreen(i) ==
    /\ i \in Listed
    /\ IF The(i).pane = "rail" THEN segment = "terminal"
       ELSE chrome[The(i).pane].open /\ ~chrome[The(i).pane].collapsed

\* registerTerminalSessionHandlers
Mount(i) ==
    /\ OnScreen(i) /\ i \notin DOMAIN shown
    /\ shown' = [k \in DOMAIN shown \cup {i} |-> IF k = i THEN buffered[i] ELSE shown[k]]
    /\ buffered' = [buffered EXCEPT ![i] = <<>>]
    /\ UNCHANGED <<sessions, activeSession, chrome, segment, shells, dockActs>>

Unmount(i) ==
    /\ ~OnScreen(i) /\ i \in DOMAIN shown
    /\ shown' = [k \in DOMAIN shown \ {i} |-> shown[k]]
    /\ UNCHANGED <<sessions, activeSession, chrome, segment, shells, buffered, dockActs>>

-----------------------------------------------------------------------------

TermUser ==
    /\ dockActs < MaxDockActs /\ dockActs' = dockActs + 1
    /\ \/ \E p \in Docks : OpenPaneTerminal(p) \/ OpenAdditionalPaneTab(p)
                           \/ TogglePaneTerminal(p) \/ ClosePaneTerminal(p)
       \/ \E i \in Ids : DuplicateTab(i) \/ SwitchSession(i) \/ CloseTerminalTab(i)
       \/ OpenRailTab \/ RunCommand \/ SetSegment

TermSystem ==
    \E i \in DOMAIN shells : \/ HearProfiles(i) \/ Spawn(i) \/ AddSession(i)
                             \/ Say(i) \/ End(i) \/ HearOutput(i) \/ HearExit(i)
                             \/ Mount(i) \/ Unmount(i)

TermNext == TermUser \/ TermSystem

-----------------------------------------------------------------------------
(* Properties.                                                             *)

\* What a view shows is an unbroken run of its shell's output up to the last chunk heard,
\* nothing twice and nothing missing, however often the view came and went meanwhile.
UnbrokenText ==
    \A i \in DOMAIN shown : LET text == shown[i] IN
        text # <<>> => text = [k \in 1 .. Len(text) |-> shells[i].heard - Len(text) + k]

\* A pane's terminal is open exactly when it is bound to a session, which is one of its
\* own tabs, and the active session is a tab as long as there are tabs.
DockAgrees ==
    /\ \A p \in Docks : LET c == chrome[p] IN
        /\ c.open <=> c.session # None
        /\ c.open => c.session \in {s.id : s \in Range(InPane(sessions, p))}
    /\ activeSession \in Listed \/ (activeSession = None /\ sessions = <<>>)

\* No shell lives on without a tab: it has one, or its answer or a kill is on the way.
NoOrphanShell ==
    \A i \in DOMAIN shells : shells[i].life = "alive" =>
        i \in Listed \/ shells[i].step = "answered" \/ shells[i].kill

\* When the page has heard a shell end its tab says so, wherever the tab is, unless the
\* end was heard before the answer that makes the tab.
EndIsShown ==
    \A s \in Range(sessions) : shells[s.id].life = "told" /\ ~shells[s.id].early => s.status = "exited"

\* Tabs, panes and shells agree: every shell that lives has or gets a tab, a pane shows one
\* of its own tabs, and the tab of a shell that has ended says so.
DockTrue == DockAgrees /\ NoOrphanShell /\ EndIsShown

=============================================================================
