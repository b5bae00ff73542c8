---------------------------- MODULE TerminalService ----------------------------
(***************************************************************************)
(* The terminal service and its commands: the table of sessions, the       *)
(* thread that reads a local shell, the loop that serves a remote one, and *)
(* the calls that write to, resize and kill a session while both go on.    *)
(* Every event goes through one channel to one thread, which hands it to   *)
(* the window of the session: `sent' is what the channel took, in order.   *)
(*                                                                         *)
(* Calls of another window are answered like calls for an unknown session  *)
(* and are left out, as are sizes, titles and the environment of a shell.  *)
(***************************************************************************)
EXTENDS Integers, SequencesExt

CONSTANTS
    MaxTerminals,   \* bound on the sessions asked for
    MaxSaid,        \* bound on the chunks a shell writes
    UnreadMax,      \* writes a terminal takes before its shell reads one
    MaxCalls,       \* bound on the calls of the window
    MaxKeyChanges   \* bound on new keys of the server and new pins

ASSUME ServiceConstants ==
    /\ {MaxTerminals, MaxSaid, UnreadMax, MaxCalls, MaxKeyChanges} \subseteq Nat
    /\ UnreadMax > 0

VARIABLES
    terminals,   \* the sessions asked for, with their shell and its thread
    asks,        \* the calls made, with how far each has come
    sent,        \* the events sent
    hostKeys,    \* the key of the server, the pin of its profile, the changes made
    queue,       \* the calls on their way to the loop of a remote session
    unread,      \* the writes a terminal has taken and its shell has not
    got          \* the writes a shell has read

inputVars   == <<queue, unread, got>>
serviceVars == <<terminals, asks, sent, hostKeys, inputVars>>

HostKeys == 1 .. 1 + MaxKeyChanges
NoKey    == 0
NoCall   == 0
NoCode   == "unknown"

Terminal == [kind    : {"local", "ssh"},
             step    : {"asked", "verified", "opened", "inserted", "snapped", "started",
                        "command", "over"},                  \* of terminal_spawn
             answer  : {"none", "id", "error"},
             initial : 0 .. MaxCalls,                       \* the call of its first command
             snap    : {"running", "exited"},
             pin     : HostKeys \cup {NoKey},               \* of the profile as first read
             pins    : SUBSET (HostKeys \cup {NoKey}),      \* ghost: the pins since
             key     : HostKeys \cup {NoKey},               \* of the server logged in to
             listed  : BOOLEAN,                              \* in the table
             alive   : BOOLEAN,
             status  : {"running", "exited"},
             code    : {NoCode, "own"},
             child   : BOOLEAN,                              \* the handle is in its slot
             reader  : {"none", "reads", "serves", "polls", "ended", "waits", "coded", "marked", "exit", "done"},
             process : {"none", "runs", "ended"},
             open    : BOOLEAN,                              \* somebody holds the terminal
             said    : 0 .. MaxSaid, read : 0 .. MaxSaid]

AskOf == [op   : {"write", "resize", "kill"}, of : 1 .. MaxTerminals,
          step : {"asked", "holds", "sized", "found", "removed", "signalled", "over"},
          ok   : BOOLEAN]

Event == [what : {"output", "exit", "started", "updated", "killed", "exited"},
          of : 1 .. MaxTerminals, status : {"running", "exited"}, n : 0 .. MaxSaid]

ServiceTypeOK ==
    /\ terminals \in Seq(Terminal) /\ Len(terminals) <= MaxTerminals
    /\ asks \in Seq(AskOf) /\ Len(asks) <= MaxCalls
    /\ sent \in Seq(Event)
    /\ hostKeys \in [server : HostKeys, pin : HostKeys \cup {NoKey}, changes : 0 .. MaxKeyChanges]
    /\ \A i \in 1 .. MaxTerminals : /\ queue[i] \in Seq(DOMAIN asks)
                                    /\ unread[i] \in Seq(DOMAIN asks) /\ got[i] \in Seq(DOMAIN asks)
                                    /\ Len(unread[i]) <= UnreadMax

ServiceInit ==
    /\ terminals = <<>> /\ asks = <<>> /\ sent = <<>>
    /\ hostKeys = [server |-> 1, pin |-> 1, changes |-> 0]
    /\ queue = [i \in 1 .. MaxTerminals |-> <<>>]
    /\ unread   = [i \in 1 .. MaxTerminals |-> <<>>]
    /\ got      = [i \in 1 .. MaxTerminals |-> <<>>]

Send(what, i, status, n) == sent' = Append(sent, [what |-> what, of |-> i, status |-> status, n |-> n])

\* Only the session changes, to the one given.
Becomes(i, t) == terminals' = [terminals EXCEPT ![i] = t]

-----------------------------------------------------------------------------
(* Starting a session.                                                     *)

\* The profile of a remote session is read at once; a session without a pin is refused.
AskTerminal(kind) ==
    /\ Len(terminals) < MaxTerminals
    /\ terminals' = Append(terminals,
         [kind |-> kind, step |-> "asked", answer |-> "none", initial |-> NoCall,
          snap |-> "running", pin |-> hostKeys.pin, pins |-> {hostKeys.pin}, key |-> NoKey,
          listed |-> FALSE, alive |-> TRUE, status |-> "running", code |-> NoCode,
          child |-> kind = "local", reader |-> "none", process |-> "none", open |-> FALSE,
          said |-> 0, read |-> 0])
    /\ UNCHANGED <<asks, sent, hostKeys, inputVars>>

\* verify_profile_host_key reads the profile for itself and looks at the server.
VerifyKey(i) ==
    LET t == terminals[i]
    IN  /\ t.kind = "ssh" /\ t.step = "asked"
        /\ t.pin # NoKey /\ hostKeys.pin = hostKeys.server
        /\ Becomes(i, [t EXCEPT !.step = "verified"])
        /\ UNCHANGED <<asks, sent, hostKeys, inputVars>>

\* verify_observed_host_key, after the handshake of the session
KeyFits(t) == t.pin = hostKeys.server

\* connect_ssh_session and the shell of its channel; the loop starts before the session is listed.
LogIn(i) ==
    LET t == terminals[i]
    IN  /\ t.step = "verified" /\ KeyFits(t)
        /\ Becomes(i, [t EXCEPT !.step = "opened", !.key = hostKeys.server, !.reader = "serves",
                                !.process = "runs", !.open = TRUE])
        /\ UNCHANGED <<asks, sent, hostKeys, inputVars>>

InsertRemote(i) ==
    LET t == terminals[i]
    IN  /\ t.step = "opened"
        /\ Becomes(i, [t EXCEPT !.step = "inserted", !.listed = TRUE])
        /\ UNCHANGED <<asks, sent, hostKeys, inputVars>>

OpenShell(i) ==
    LET t == terminals[i]
    IN  /\ t.kind = "local" /\ t.step = "asked"
        /\ Becomes(i, [t EXCEPT !.step = "inserted", !.listed = TRUE, !.process = "runs", !.open = TRUE])
        /\ UNCHANGED <<asks, sent, hostKeys, inputVars>>

\* No folder, no network, no key, no login: any step before the session may fail.
NotOpened(i) ==
    LET t == terminals[i]
    IN  /\ t.step \in {"asked", "verified"}
        /\ Becomes(i, [t EXCEPT !.step = "over", !.answer = "error"])
        /\ UNCHANGED <<asks, sent, hostKeys, inputVars>>

\* The snapshot is taken under its lock and sent after it.
Snapshot(i) ==
    LET t == terminals[i]
    IN  /\ t.step = "inserted"
        /\ Becomes(i, [t EXCEPT !.step = "snapped", !.snap = t.status])
        /\ UNCHANGED <<asks, sent, hostKeys, inputVars>>

\* The thread of a local shell starts last.
Started(i) ==
    LET t == terminals[i]
    IN  /\ t.step = "snapped"
        /\ Becomes(i, [t EXCEPT !.step = "started",
                                !.reader = IF t.kind = "local" THEN "reads" ELSE t.reader])
        /\ Send("started", i, t.snap, 0)
        /\ UNCHANGED <<asks, hostKeys, inputVars>>

\* Bound: sessions whose server or pin has changed are followed without calls.
MayCall == Len(asks) < MaxCalls /\ hostKeys.changes = 0

\* run_command for the first command of the request or of its profile
InitialCommand(i) ==
    /\ terminals[i].step = "started" /\ MayCall
    /\ Becomes(i, [terminals[i] EXCEPT !.step = "command", !.initial = Len(asks) + 1])
    /\ asks' = Append(asks, [op |-> "write", of |-> i, step |-> "asked", ok |-> FALSE])
    /\ UNCHANGED <<sent, hostKeys, inputVars>>

Answer(i) ==
    LET t == terminals[i]
    IN  /\ \/ t.step = "started"
           \/ t.step = "command" /\ asks[t.initial].step = "over"
        /\ Becomes(i, [t EXCEPT !.step = "over",
                                !.answer = IF t.step = "started" \/ asks[t.initial].ok THEN "id" ELSE "error"])
        /\ UNCHANGED <<asks, sent, hostKeys, inputVars>>

-----------------------------------------------------------------------------
(* The calls for a session.                                                *)

\* The window has the identifier from the answer, or from the list of its sessions.
Makes(op, i) ==
    /\ MayCall
    /\ terminals[i].listed \/ terminals[i].answer = "id"
    /\ asks' = Append(asks, [op |-> op, of |-> i, step |-> "asked", ok |-> FALSE])
    /\ UNCHANGED <<terminals, sent, hostKeys, inputVars>>

Moves(c, step, ok) == asks' = [asks EXCEPT ![c].step = step, ![c].ok = ok]
Fails(c)           == Moves(c, "over", FALSE)

\* A write or a resize keeps its entry of the table until it is over.
InTable(i) == \E c \in DOMAIN asks : asks[c].of = i /\ asks[c].step \in {"holds", "sized"}

\* not_found, or session_exited for a write and for what a remote session is asked
Unfit(c, t) == \/ ~t.listed
               \/ ~t.alive /\ (asks[c].op = "write" \/ (asks[c].op = "resize" /\ t.kind = "ssh"))

Look(c) ==
    LET t == terminals[asks[c].of]
    IN  /\ asks[c].step = "asked"
        /\ IF Unfit(c, t) THEN Fails(c)
           ELSE Moves(c, IF asks[c].op = "kill" THEN "found" ELSE "holds", FALSE)
        /\ UNCHANGED <<terminals, sent, hostKeys, inputVars>>

\* The loop that takes the commands has not returned.
Served(t) == t.reader \in {"serves", "polls"}

\* A terminal that is full makes the call wait; one that nobody holds takes it or refuses it.
WriteLocal(c) ==
    LET i == asks[c].of
        t == terminals[i]
    IN  /\ asks[c].op = "write" /\ asks[c].step = "holds" /\ t.kind = "local"
        /\ \/ /\ t.open /\ Len(unread[i]) < UnreadMax
              /\ unread' = [unread EXCEPT ![i] = Append(@, c)]
              /\ Moves(c, "over", TRUE)
           \/ ~t.open /\ (Fails(c) \/ Moves(c, "over", TRUE)) /\ UNCHANGED unread
        /\ UNCHANGED <<terminals, sent, hostKeys, queue, got>>

SendRemote(c) ==
    LET i == asks[c].of
        t == terminals[i]
    IN  /\ asks[c].step = "holds" /\ t.kind = "ssh"
        /\ IF Served(t)
           THEN /\ Moves(c, IF asks[c].op = "write" THEN "over" ELSE "sized", TRUE)
                /\ queue' = [queue EXCEPT ![i] = Append(@, c)]
           ELSE Fails(c) /\ UNCHANGED queue
        /\ UNCHANGED <<terminals, sent, hostKeys, unread, got>>

ResizeLocal(c) ==
    /\ asks[c].op = "resize" /\ asks[c].step = "holds" /\ terminals[asks[c].of].kind = "local"
    /\ Moves(c, "sized", TRUE)
    /\ UNCHANGED <<terminals, sent, hostKeys, inputVars>>

\* The size is set and the event sent under the lock of the snapshot.
Resized(c) ==
    /\ asks[c].step = "sized"
    /\ Moves(c, "over", TRUE)
    /\ Send("updated", asks[c].of, terminals[asks[c].of].status, 0)
    /\ UNCHANGED <<terminals, hostKeys, inputVars>>

\* Taking the session out of the table waits for the calls that hold its entry.
RemoveSession(c) ==
    LET i == asks[c].of
        t == terminals[i]
    IN  /\ asks[c].step = "found"
        /\ IF t.listed
           THEN ~InTable(i) /\ Moves(c, "removed", TRUE) /\ Becomes(i, [t EXCEPT !.listed = FALSE])
           ELSE Fails(c) /\ UNCHANGED terminals
        /\ UNCHANGED <<sent, hostKeys, inputVars>>

\* The thread that waits for a shell to end holds the slot of its handle.
SignalLocal(c) ==
    LET i == asks[c].of
        t == terminals[i]
    IN  /\ asks[c].step = "removed" /\ t.kind = "local" /\ t.reader # "waits"
        /\ Moves(c, "signalled", TRUE)
        /\ \E open \in IF t.child THEN {t.open, FALSE} ELSE {t.open} :
             Becomes(i, IF t.child THEN [t EXCEPT !.child = FALSE, !.process = "ended", !.open = open] ELSE t)
        /\ UNCHANGED <<sent, hostKeys, inputVars>>

SignalRemote(c) ==
    LET i == asks[c].of
    IN  /\ asks[c].step = "removed" /\ terminals[i].kind = "ssh"
        /\ Moves(c, "signalled", TRUE)
        /\ queue' = IF Served(terminals[i]) THEN [queue EXCEPT ![i] = Append(@, c)] ELSE queue
        /\ UNCHANGED <<terminals, sent, hostKeys, unread, got>>

Killed(c) ==
    LET i == asks[c].of
    IN  /\ asks[c].step = "signalled"
        /\ Moves(c, "over", TRUE)
        /\ Becomes(i, [terminals[i] EXCEPT !.status = "exited"])
        /\ Send("killed", i, "exited", 0)
        /\ UNCHANGED <<hostKeys, inputVars>>

-----------------------------------------------------------------------------
(* The threads.                                                            *)

\* A local thread reads on; the loop of a remote session looks for commands between reads.
NextRound(t) == IF t.kind = "local" THEN "reads" ELSE "serves"

ReadChunk(i) ==
    LET t == terminals[i]
    IN  /\ t.reader \in {"reads", "polls"} /\ t.read < t.said
        /\ Becomes(i, [t EXCEPT !.read = @ + 1, !.reader = NextRound(t)])
        /\ Send("output", i, "running", t.read + 1)
        /\ UNCHANGED <<asks, hostKeys, inputVars>>

\* All is read and nobody holds the terminal; a remote channel may also be lost at any time.
AtEnd(t) == \/ t.reader = "reads" /\ ~t.open /\ t.read = t.said
            \/ t.reader = "polls"

\* The code of a remote shell is left out.
EndOfOutput(i) ==
    LET t == terminals[i]
    IN  /\ AtEnd(t)
        /\ Becomes(i, [t EXCEPT !.reader = "ended", !.alive = t.kind = "ssh"])
        /\ queue' = [queue EXCEPT ![i] = <<>>]
        /\ UNCHANGED <<asks, sent, hostKeys, unread, got>>

\* No command is left and one read follows, which may bring nothing.
Polls(i) ==
    LET t == terminals[i]
    IN  /\ \/ t.reader = "serves" /\ queue[i] = <<>> /\ Becomes(i, [t EXCEPT !.reader = "polls"])
           \/ t.reader = "polls" /\ t.read = t.said /\ Becomes(i, [t EXCEPT !.reader = "serves"])
        /\ UNCHANGED <<asks, sent, hostKeys, inputVars>>

\* The loop takes a command: a write goes to the channel, or is lost when the channel is not
\* ready; a kill closes the channel and ends the loop.
TakeCommand(i) ==
    LET t == terminals[i]
        c == Head(queue[i])
    IN  /\ t.reader = "serves" /\ queue[i] # <<>>
        /\ \/ /\ asks[c].op = "kill"
              /\ Becomes(i, [t EXCEPT !.reader = "ended", !.open = FALSE, !.process = "ended"])
              /\ queue' = [queue EXCEPT ![i] = <<>>] /\ UNCHANGED unread
           \/ /\ asks[c].op = "write" /\ t.open /\ Len(unread[i]) < UnreadMax
              /\ unread' = [unread EXCEPT ![i] = Append(@, c)]
              /\ queue' = [queue EXCEPT ![i] = Tail(@)] /\ UNCHANGED terminals
           \/ /\ asks[c].op # "kill"
              /\ queue' = [queue EXCEPT ![i] = Tail(@)] /\ UNCHANGED <<terminals, unread>>
        /\ UNCHANGED <<asks, sent, hostKeys, got>>

\* The thread of a local shell waits for it, with the slot of its handle locked.
TakeHandle(i) ==
    LET t == terminals[i]
    IN  /\ t.kind = "local" /\ t.reader = "ended"
        /\ Becomes(i, [t EXCEPT !.reader = IF t.child THEN "waits" ELSE "coded"])
        /\ UNCHANGED <<asks, sent, hostKeys, inputVars>>

Reaped(i) ==
    LET t == terminals[i]
    IN  /\ t.reader = "waits" /\ t.process = "ended"
        /\ Becomes(i, [t EXCEPT !.reader = "coded", !.code = "own"])
        /\ UNCHANGED <<asks, sent, hostKeys, inputVars>>

LoopReturned(i) ==
    LET t == terminals[i]
    IN  /\ t.kind = "ssh" /\ t.reader = "ended"
        /\ Becomes(i, [t EXCEPT !.reader = "coded", !.alive = FALSE])
        /\ UNCHANGED <<asks, sent, hostKeys, inputVars>>

MarkExited(i) ==
    LET t == terminals[i]
    IN  /\ t.reader = "coded"
        /\ Becomes(i, [t EXCEPT !.reader = "marked", !.status = "exited"])
        /\ UNCHANGED <<asks, sent, hostKeys, inputVars>>

TellExit(i) ==
    LET t == terminals[i]
    IN  /\ t.reader = "marked"
        /\ Becomes(i, [t EXCEPT !.reader = "exit"])
        /\ Send("exit", i, "exited", 0)
        /\ UNCHANGED <<asks, hostKeys, inputVars>>

TellExited(i) ==
    LET t == terminals[i]
    IN  /\ t.reader = "exit"
        /\ Becomes(i, [t EXCEPT !.reader = "done"])
        /\ Send("exited", i, "exited", 0)
        /\ UNCHANGED <<asks, hostKeys, inputVars>>

-----------------------------------------------------------------------------
(* What the service does not decide.                                       *)

\* The shell, or what it has started, writes, reads, ends and lets go of its terminal.
ShellSays(i) ==
    LET t == terminals[i]
    IN  /\ t.open /\ t.said < MaxSaid
        /\ Becomes(i, [t EXCEPT !.said = @ + 1])
        /\ UNCHANGED <<asks, sent, hostKeys, inputVars>>

ShellReads(i) ==
    /\ terminals[i].process = "runs" /\ unread[i] # <<>>
    /\ got' = [got EXCEPT ![i] = Append(@, Head(unread[i]))]
    /\ unread' = [unread EXCEPT ![i] = Tail(@)]
    /\ UNCHANGED <<terminals, asks, sent, hostKeys, queue>>

\* What a local shell has started may hold the terminal longer than the shell, which may let
\* go of it before its end; of a remote one the end of the channel is all that shows.
ShellEnds(i) ==
    LET t == terminals[i]
    IN  /\ t.process = "runs"
        /\ Becomes(i, [t EXCEPT !.process = "ended", !.open = @ /\ t.kind = "local"])
        /\ UNCHANGED <<asks, sent, hostKeys, inputVars>>

LetsGo(i) ==
    LET t == terminals[i]
    IN  /\ t.open /\ t.kind = "local"
        /\ Becomes(i, [t EXCEPT !.open = FALSE])
        /\ UNCHANGED <<asks, sent, hostKeys, inputVars>>

\* Another server answers, or another key is pinned or forgotten; of interest until the login.
KeysChange ==
    /\ hostKeys.changes < MaxKeyChanges
    /\ \E t \in Range(terminals) : t.kind = "ssh" /\ t.step \in {"asked", "verified"}
    /\ \E server \in HostKeys, pin \in HostKeys \cup {NoKey} :
         /\ server = hostKeys.server \/ pin = hostKeys.pin
         /\ hostKeys' = [server |-> server, pin |-> pin, changes |-> hostKeys.changes + 1]
         /\ terminals' = [i \in DOMAIN terminals |-> [terminals[i] EXCEPT !.pins = @ \cup {pin}]]
    /\ UNCHANGED <<asks, sent, inputVars>>

-----------------------------------------------------------------------------

ServiceNext ==
    \/ \E kind \in {"local", "ssh"} : AskTerminal(kind)
    \/ KeysChange
    \/ \E i \in DOMAIN terminals :
        \/ VerifyKey(i) \/ LogIn(i) \/ InsertRemote(i) \/ OpenShell(i) \/ NotOpened(i)
        \/ Snapshot(i) \/ Started(i) \/ InitialCommand(i) \/ Answer(i)
        \/ \E op \in {"write", "resize", "kill"} : Makes(op, i)
        \/ ReadChunk(i) \/ EndOfOutput(i) \/ Polls(i) \/ TakeCommand(i) \/ TakeHandle(i) \/ Reaped(i)
        \/ LoopReturned(i) \/ MarkExited(i) \/ TellExit(i) \/ TellExited(i)
        \/ ShellSays(i) \/ ShellReads(i) \/ ShellEnds(i) \/ LetsGo(i)
    \/ \E c \in DOMAIN asks :
        \/ Look(c) \/ WriteLocal(c) \/ SendRemote(c) \/ ResizeLocal(c) \/ Resized(c)
        \/ RemoveSession(c) \/ SignalLocal(c) \/ SignalRemote(c) \/ Killed(c)

-----------------------------------------------------------------------------
(* Properties.                                                             *)

Of(i)       == SelectSeq(sent, LAMBDA e : e.of = i)
Outputs(ee) == SelectSeq(ee, LAMBDA e : e.what = "output")

\* What a shell writes is sent whole and in order, the end once and after it, and once a
\* session has been said to be over no resize says that it runs.
ToldInOrder ==
    \A i \in DOMAIN terminals :
        LET ee == Of(i) IN
        /\ \A k \in DOMAIN Outputs(ee) : Outputs(ee)[k].n = k
        /\ \A k, l \in DOMAIN ee : k < l =>
             /\ ee[k].what = "exit" => ee[l].what \notin {"output", "exit"}
             /\ ee[k].what \in {"exit", "exited", "killed"} /\ ee[l].what = "updated" => ee[l].status = "exited"
        /\ terminals[i].kind = "local" /\ (\E e \in Range(ee) : e.what = "exit") => terminals[i].read = terminals[i].said

\* A shell that runs is in the table or about to be, or a kill is on its way to it, and a
\* session that was answered stays in the table, ended or not, until it is killed.
ShellsKept ==
    \A i \in DOMAIN terminals :
        LET t == terminals[i]
            kills == {c \in DOMAIN asks : asks[c].of = i /\ asks[c].op = "kill" /\ asks[c].ok}
        IN  /\ t.process = "runs" => \/ t.listed \/ t.step = "opened"
                                     \/ \E c \in kills : asks[c].step = "removed"
                                     \/ t.kind = "ssh" /\ (Served(t) => kills \cap Range(queue[i]) # {})
            /\ t.answer = "id" => t.listed \/ kills # {}

\* A session is over for the table no later than for the window, and the code of a local
\* shell is missing only when a kill took its handle first.
EndsTold ==
    \A i \in DOMAIN terminals :
        LET t == terminals[i] IN
        /\ (\E e \in Range(Of(i)) : e.what \in {"exit", "exited", "killed"}) => t.status = "exited"
        /\ t.kind = "local" /\ t.reader \in {"coded", "marked", "exit", "done"} => (t.code = NoCode => ~t.child)

\* A write that was refused has not reached the shell, and what has reached it was read in
\* the order in which it was accepted, nothing twice.
WritesHonest ==
    \A i \in DOMAIN terminals :
        /\ \A c \in Range(got[i] \o unread[i]) : asks[c].ok /\ asks[c].of = i
        /\ IsInjective(got[i] \o unread[i] \o queue[i])

\* The server a terminal logged in to had the key that was pinned when the terminal was
\* asked for or since.
LoginsPinned == \A t \in Range(terminals) : t.key # NoKey => t.key \in t.pins

ServiceTrue == ToldInOrder /\ ShellsKept /\ EndsTold /\ WritesHonest /\ LoginsPinned

=============================================================================
