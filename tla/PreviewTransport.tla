-------------------------- MODULE PreviewTransport ---------------------------
(* The transport that stands in for the desktop shell when the page runs in a    *)
(* browser (packages/ts-api/src/transports/preview.ts).                          *)
(*                                                                               *)
(* invoke is an async function: what it does to the state is done at once, its   *)
(* answer reaches the caller in a later microtask, and the events it promises    *)
(* are tasks of their own, setTimeout(0), which run in order and only once no    *)
(* microtask is left.  What an answer says is left out, but for ranges of a file. *)
EXTENDS Naturals, Sequences, FiniteSets, SequencesExt

CONSTANTS
    Handlers,        \* functions the page listens with
    OutputMax,       \* outputs kept while nobody listens (100 in the code)
    FileLength,      \* bytes of the file that is read range by range
    MaxPreviewActs   \* bounds the calls, and the listening and its end

ASSUME PreviewAssumption ==
    /\ OutputMax \in Nat \ {0} /\ FileLength \in Nat /\ MaxPreviewActs \in Nat

VARIABLES
    sessionIndex,    \* numbers listings, shells and profiles alike
    profiles_,       \* previewTerminalProfiles: [id, isDefault]
    running,          \* previewTerminalSessions: the ids of shells, which nothing takes out
    listeners,       \* per event, the functions that listen
    outputs,         \* terminalOutputBuffer
    tasks,           \* what setTimeout is to run: [event, call]
    answers,         \* calls whose answers are on their way
    answered,        \* calls whose answers have been heard
    heard,           \* the events each function heard, in order: [event, call]
    written,         \* outputs emitted so far
    dropped,         \* outputs the buffer has thrown away
    reading,         \* a file read range by range: what has come of it, and eof
    strayed,         \* was a profile made the default that is not there
    previewActs

previewVars == <<sessionIndex, profiles_, running, listeners, outputs, tasks, answers, answered,
                 heard, written, dropped, reading, strayed, previewActs>>

Channels == {"batch", "folderSize", "search", "output", "session"}
Later  == {"batch", "folderSize", "search"}

\* A call: answered later; `event` is what a task is to tell of it, if anything.
Invoke(event) ==
    /\ previewActs < MaxPreviewActs
    /\ previewActs' = previewActs + 1
    /\ answers' = Append(answers, previewActs)
    /\ tasks' = IF event = "" THEN tasks ELSE Append(tasks, [event |-> event, call |-> previewActs])
    /\ UNCHANGED <<answered, written, dropped>>

\* What functions hear of an event, each of them once.
Tell(to, e) == [h \in Handlers |-> IF h \in to THEN Append(heard[h], e) ELSE heard[h]]

-------------------------------------------------------------------------------
(* Commands.                                                                      *)

ListStart ==
    /\ Invoke("batch")
    /\ sessionIndex' = sessionIndex + 1
    /\ UNCHANGED <<profiles_, running, listeners, outputs, heard, reading, strayed>>

StartFolderSize ==
    /\ Invoke("folderSize")
    /\ UNCHANGED <<sessionIndex, profiles_, running, listeners, outputs, heard, reading, strayed>>

StartRecursiveSearch ==
    /\ Invoke("search")
    /\ UNCHANGED <<sessionIndex, profiles_, running, listeners, outputs, heard, reading, strayed>>

\* spawn and spawnAndRun: the session is told of before the call is answered.
SpawnShell ==
    /\ Invoke("output")
    /\ sessionIndex' = sessionIndex + 1
    /\ running' = running \cup {sessionIndex + 1}
    /\ heard' = Tell(listeners["session"], [event |-> "session", call |-> previewActs])
    /\ UNCHANGED <<profiles_, listeners, outputs, reading, strayed>>

\* write, sendText and runCommand echo what they are given, for any session.
WriteToShell ==
    /\ Invoke("output")
    /\ running # {}
    /\ UNCHANGED <<sessionIndex, profiles_, running, listeners, outputs, heard, reading, strayed>>

\* The answers that are constants, and kill and resize: everything stays as it is.
ConstantAnswer ==
    /\ Invoke("")
    /\ UNCHANGED <<sessionIndex, profiles_, running, listeners, outputs, heard, reading, strayed>>

ProfilesAre(ps) ==
    /\ Invoke("")
    /\ profiles_' = ps
    /\ UNCHANGED <<running, listeners, outputs, heard, reading>>

ProfileAdd ==
    /\ ProfilesAre(Append(profiles_, [id |-> sessionIndex + 1, isDefault |-> FALSE]))
    /\ sessionIndex' = sessionIndex + 1
    /\ UNCHANGED strayed

\* The default profile stays, and the answer is the same.
DeleteKept(id) == SelectSeq(profiles_, LAMBDA p : p.id # id \/ p.isDefault)
ProfileDelete(id) ==
    ProfilesAre(DeleteKept(id)) /\ UNCHANGED <<sessionIndex, strayed>>

\* A profile that is not there leaves no default.
ProfileSetDefault(id) ==
    /\ ProfilesAre([k \in 1 .. Len(profiles_) |-> [profiles_[k] EXCEPT !.isDefault = profiles_[k].id = id]])
    /\ strayed' = \A k \in 1 .. Len(profiles_) : profiles_[k].id # id
    /\ UNCHANGED sessionIndex

\* read_file_range; the page goes on from where it got to until the end is told.
RangeFrom(offset, length) ==
    LET n == IF offset >= FileLength THEN 0
             ELSE IF offset + length > FileLength THEN FileLength - offset ELSE length
    IN  [bytes |-> [k \in 1 .. n |-> offset + k - 1], eof |-> offset + n >= FileLength]

ReadRange(length) ==
    /\ ~reading.eof
    /\ Invoke("")
    /\ LET r == RangeFrom(Len(reading.bytes), length)
       IN  reading' = [bytes |-> reading.bytes \o r.bytes, eof |-> r.eof]
    /\ UNCHANGED <<sessionIndex, profiles_, running, listeners, outputs, heard, strayed>>

-------------------------------------------------------------------------------
(* Channels.                                                                        *)

\* The newest of the outputs that are kept.
Newest(s) == IF Len(s) > OutputMax THEN SubSeq(s, Len(s) - OutputMax + 1, Len(s)) ELSE s

AnswerHeard ==
    /\ answers # <<>>
    /\ answered' = answered \cup {Head(answers)}
    /\ answers' = Tail(answers)
    /\ UNCHANGED <<sessionIndex, profiles_, running, listeners, outputs, tasks, heard, written, dropped,
                   reading, strayed, previewActs>>

\* A task runs; only an output waits for somebody to listen.
RunTask ==
    /\ answers = <<>> /\ tasks # <<>>
    /\ tasks' = Tail(tasks)
    /\ LET e == Head(tasks)
           to == listeners[e.event]
           out == IF e.event = "output" THEN [event |-> "output", call |-> written] ELSE e
       IN  /\ heard' = Tell(to, out)
           /\ written' = IF e.event = "output" THEN written + 1 ELSE written
           /\ IF e.event = "output" /\ to = {}
              THEN /\ outputs' = Newest(Append(outputs, out))
                   /\ dropped' = IF Len(outputs) >= OutputMax THEN dropped + 1 ELSE dropped
              ELSE UNCHANGED <<outputs, dropped>>
    /\ UNCHANGED <<sessionIndex, profiles_, running, listeners, answers, answered, reading, strayed, previewActs>>

\* The first to listen to the outputs is given those that were kept.
Listen(event, h) ==
    /\ previewActs < MaxPreviewActs
    /\ h \notin listeners[event]
    /\ previewActs' = previewActs + 1
    /\ listeners' = [listeners EXCEPT ![event] = @ \cup {h}]
    /\ IF event = "output"
       THEN heard' = [heard EXCEPT ![h] = @ \o outputs] /\ outputs' = <<>>
       ELSE UNCHANGED <<heard, outputs>>
    /\ UNCHANGED <<sessionIndex, profiles_, running, tasks, answers, answered, written, dropped, reading, strayed>>

Unlisten(event, h) ==
    /\ previewActs < MaxPreviewActs
    /\ h \in listeners[event]
    /\ previewActs' = previewActs + 1
    /\ listeners' = [listeners EXCEPT ![event] = @ \ {h}]
    /\ UNCHANGED <<sessionIndex, profiles_, running, outputs, tasks, answers, answered, heard, written,
                   dropped, reading, strayed>>

-------------------------------------------------------------------------------

PreviewInit ==
    /\ sessionIndex = 0
    /\ profiles_ = <<[id |-> 0, isDefault |-> TRUE]>>
    /\ running = {} /\ listeners = [e \in Channels |-> {}]
    /\ outputs = <<>> /\ tasks = <<>> /\ answers = <<>> /\ answered = {}
    /\ heard = [h \in Handlers |-> <<>>]
    /\ written = 0 /\ dropped = 0
    /\ reading = [bytes |-> <<>>, eof |-> FALSE]
    /\ strayed = FALSE /\ previewActs = 0

PreviewNext ==
    \/ ListStart
    \/ StartFolderSize
    \/ StartRecursiveSearch
    \/ SpawnShell
    \/ WriteToShell
    \/ ConstantAnswer
    \/ ProfileAdd
    \/ \E id \in 0 .. sessionIndex : ProfileDelete(id)
    \/ \E id \in 0 .. sessionIndex : ProfileSetDefault(id)
    \/ \E length \in 1 .. 2 : ReadRange(length)
    \/ AnswerHeard
    \/ RunTask
    \/ \E e \in Channels, h \in Handlers : Listen(e, h)
    \/ \E e \in Channels, h \in Handlers : Unlisten(e, h)

PreviewTypeOK ==
    /\ \A k \in 1 .. Len(profiles_) : profiles_[k].id \in 0 .. sessionIndex /\ profiles_[k].isDefault \in BOOLEAN
    /\ running \subseteq 1 .. sessionIndex
    /\ listeners \in [Channels -> SUBSET Handlers]
    /\ Len(outputs) <= OutputMax
    /\ answered \subseteq 0 .. previewActs
    /\ previewActs \in 0 .. MaxPreviewActs

-------------------------------------------------------------------------------
(* What the page relies on.                                                       *)

HeardOf(h, event) == SelectSeq(heard[h], LAMBDA e : e.event = event)

\* What shells write is heard in order and by no function twice, however listening begins
\* and ends; what nobody heard is kept, and only the oldest is thrown away, at the limit.
OutputHeard ==
    LET got(h) == {HeardOf(h, "output")[k].call : k \in 1 .. Len(HeardOf(h, "output"))}
        kept   == {outputs[k].call : k \in 1 .. Len(outputs)}
        all    == UNION {got(h) : h \in Handlers}
    IN  /\ \A h \in Handlers : \A j, k \in 1 .. Len(HeardOf(h, "output")) :
              j < k => HeardOf(h, "output")[j].call < HeardOf(h, "output")[k].call
        /\ all \cap kept = {}
        /\ Cardinality(all) + Cardinality(kept) + dropped = written
        /\ dropped > 0 => written > OutputMax
        /\ kept # {} => listeners["output"] = {} /\ written - 1 \in kept

\* The caller of a listing, a size or a search knows its answer before an event tells of it;
\* the start of a shell is told of before.
AnswerFirst ==
    \A h \in Handlers : \A k \in 1 .. Len(heard[h]) :
        heard[h][k].event \in Later => heard[h][k].call \in answered

\* Ids are not given twice; there is one default profile, whatever is added and deleted, as
\* long as no profile is made the default that has been deleted.
PreviewProfilesTrue ==
    /\ \A j, k \in 1 .. Len(profiles_) : j # k => profiles_[j].id # profiles_[k].id
    /\ \A k \in 1 .. Len(profiles_) : profiles_[k].id \notin running
    /\ Cardinality({k \in 1 .. Len(profiles_) : profiles_[k].isDefault}) = IF strayed THEN 0 ELSE 1

\* Once the end of the file is told, every byte has come once, in order.
RangesWhole == reading.eof => reading.bytes = [k \in 1 .. FileLength |-> k - 1]

PreviewTrue == OutputHeard /\ AnswerFirst /\ PreviewProfilesTrue /\ RangesWhole

===============================================================================
