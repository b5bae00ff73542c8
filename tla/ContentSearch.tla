---------------------------- MODULE ContentSearch ----------------------------
(***************************************************************************)
(* The content search of the tabs: contentSearchSlice.ts, the handlers of  *)
(* useMetadataHandlers.ts that start and cancel searches, and the shell's  *)
(* search job with its thread.  The start of a job is answered in one      *)
(* message, its matches and its end come as events, and neither waits for  *)
(* the other.  While the page subscribes anew an event can be missed, or   *)
(* heard twice.                                                            *)
(***************************************************************************)
EXTENDS Integers, SequencesExt

CONSTANTS
    SearchTabs,    \* the tabs
    Lines,         \* what there is to match
    MaxSearches,   \* bound on the searches started
    AbsorbedMax,   \* jobs the page remembers to be done with
    MaxFaults      \* bound on events missed or heard twice

ASSUME SearchConstants == {MaxSearches, AbsorbedMax, MaxFaults} \subseteq Nat

VARIABLES
    searches,   \* the content search of every tab
    tracked,    \* contentSearchRequestsRef: the request and job a tab waits for
    pending,    \* pendingContentSearchEvents, of the jobs in its domain
    absorbed,   \* absorbedContentSearchJobIds
    searchJobs, \* the jobs of the shell, numbered like the requests
    swapped,    \* the panes were swapped
    faults,     \* events missed or heard twice
    crossed     \* ghost: the answer to a cancel made a tab forget a newer request

searchVars == <<searches, tracked, pending, absorbed, searchJobs, swapped, faults, crossed>>

SearchIds == 1 .. MaxSearches
NoJob     == 0

Gone     == [req |-> NoJob, status |-> "gone", job |-> NoJob, matches |-> {}]
NoSearch == [req |-> NoJob, status |-> "none", job |-> NoJob, matches |-> {}]
Idle     == [req |-> NoJob, job |-> NoJob, side |-> FALSE]

Search == [req : SearchIds \cup {NoJob}, job : SearchIds \cup {NoJob}, matches : SUBSET Lines,
           status : {"gone", "none", "starting", "running", "completed", "failed", "cancelled"}]

Ends   == [kind : {"completed"}, lines : SUBSET Lines] \cup [kind : {"failed", "cancelled"}]
Events == [kind : {"match"}, line : Lines] \cup Ends
NoEnd  == [kind |-> "none"]

SearchJob == [tab : SearchTabs,
              answer : {"pending", "ok", "refused", "delivered"},
              status : {"none", "running", "completed", "failed", "cancelled"},
              thread : BOOLEAN,               \* its thread runs
              found  : SUBSET Lines,
              events : Seq(Events),           \* not yet heard
              ask    : {"no", "quietly", "panel", "list"},   \* who asks to cancel it
              told   : BOOLEAN]               \* the panel waits for the answer of that

SearchTypeOK ==
    /\ searches \in [SearchTabs -> Search]
    /\ tracked \in [SearchTabs -> [req : SearchIds \cup {NoJob}, job : SearchIds \cup {NoJob}, side : BOOLEAN]]
    /\ DOMAIN pending \subseteq SearchIds
    /\ \A j \in DOMAIN pending : pending[j] \in [matches : SUBSET Lines, end : Ends \cup {NoEnd}]
    /\ absorbed \in Seq(SearchIds) /\ Len(absorbed) <= AbsorbedMax /\ IsInjective(absorbed)
    /\ searchJobs \in Seq(SearchJob) /\ Len(searchJobs) <= MaxSearches

SearchInit ==
    /\ searches = [t \in SearchTabs |-> NoSearch]
    /\ tracked = [t \in SearchTabs |-> Idle]
    /\ pending = <<>> /\ absorbed = <<>> /\ searchJobs = <<>>
    /\ swapped = FALSE /\ faults = 0 /\ crossed = FALSE

SearchActive(s) == s.status \in {"starting", "running"}
Jobs == DOMAIN searchJobs

-----------------------------------------------------------------------------
(* The reducer: operators over its buffers.                                *)

Forget(p, j) == [i \in DOMAIN p \ {j} |-> p[i]]

\* Mutant: a job is noted again each time.
AbsorbAgain(a, j) == Append(a, j)

\* absorbJob
Absorb(a, j) ==
    IF j \in Range(a) THEN a
    ELSE IF Len(a) = AbsorbedMax THEN Tail(Append(a, j)) ELSE Append(a, j)

PendingOf(j) == IF j \in DOMAIN pending THEN pending[j] ELSE [matches |-> {}, end |-> NoEnd]

Buffer(j, events) == pending' = [i \in DOMAIN pending \cup {j} |-> IF i = j THEN events ELSE pending[i]]

\* What the end of a job makes of its search.
EndedBy(search, end) ==
    [search EXCEPT !.status = end.kind,
                   !.matches = IF end.kind = "completed" THEN end.lines ELSE @]

\* discardContentSearchJobEvents
Discard(js) ==
    /\ absorbed' = FoldLeft(Absorb, absorbed, SetToSeq(js))
    /\ pending' = [i \in DOMAIN pending \ js |-> pending[i]]

\* bindContentSearchJob applies to the search that asked, while it is starting.
Bound(t, j) == searches[t].status = "starting" /\ searches[t].req = j

Bind(t, j) ==
    LET b    == PendingOf(j)
        with == [searches[t] EXCEPT !.status = "running", !.job = j, !.matches = @ \cup b.matches]
        next == IF b.end = NoEnd THEN with ELSE EndedBy(with, b.end)
    IN  IF ~Bound(t, j) THEN UNCHANGED <<searches, pending, absorbed>>
        ELSE /\ searches' = [searches EXCEPT ![t] = next]
             /\ pending' = Forget(pending, j)
             /\ absorbed' = IF next.status = "running" THEN absorbed ELSE Absorb(absorbed, j)

-----------------------------------------------------------------------------
(* The user.                                                               *)

Asked(jobs, js, who) ==
    [j \in DOMAIN jobs |-> IF j \in js THEN [jobs[j] EXCEPT !.ask = who, !.told = (who = "panel")] ELSE jobs[j]]

\* The job a new search in tab t replaces.
Replaces(t) ==
    ({IF tracked[t].job # NoJob THEN tracked[t].job
      ELSE IF SearchActive(searches[t]) THEN searches[t].job ELSE NoJob}) \ {NoJob}

RunContentSearch(t) ==
    LET r == Len(searchJobs) + 1
    IN  /\ searches[t].status # "gone" /\ r <= MaxSearches
        /\ searches' = [searches EXCEPT ![t] = [req |-> r, status |-> "starting", job |-> NoJob, matches |-> {}]]
        /\ tracked' = [tracked EXCEPT ![t] = [req |-> r, job |-> NoJob, side |-> swapped]]
        /\ Discard(Replaces(t))
        /\ searchJobs' = Append(Asked(searchJobs, Replaces(t), "quietly"),
              [tab |-> t, answer |-> "pending", status |-> "none", thread |-> FALSE, found |-> {},
               events |-> <<>>, ask |-> "no", told |-> FALSE])
        /\ UNCHANGED <<swapped, faults, crossed>>

CancelContentSearch(t) ==
    LET j == IF tracked[t].job # NoJob THEN tracked[t].job ELSE searches[t].job
    IN  /\ j # NoJob /\ SearchActive(searches[t]) /\ ~searchJobs[j].told
        /\ searchJobs' = Asked(searchJobs, {j}, "panel")
        /\ UNCHANGED <<searches, tracked, pending, absorbed, swapped, faults, crossed>>

\* From the activity list.
CancelActiveJob(j) ==
    /\ searchJobs[j].status = "running" /\ searchJobs[j].ask = "no"
    /\ searchJobs' = Asked(searchJobs, {j}, "list")
    /\ UNCHANGED <<searches, tracked, pending, absorbed, swapped, faults, crossed>>

\* applyNavigation to another directory.
LeaveDirectory(t) ==
    /\ searches[t].status \notin {"gone", "none"}
    /\ searches' = [searches EXCEPT ![t] = NoSearch]
    /\ UNCHANGED <<tracked, pending, absorbed, searchJobs, swapped, faults, crossed>>

CloseSearchTab(t) ==
    /\ searches[t].status # "gone"
    /\ searches' = [searches EXCEPT ![t] = Gone]
    /\ UNCHANGED <<tracked, pending, absorbed, searchJobs, swapped, faults, crossed>>

SwapSearchPanes ==
    /\ ~swapped /\ swapped' = TRUE
    /\ UNCHANGED <<searches, tracked, pending, absorbed, searchJobs, faults, crossed>>

-----------------------------------------------------------------------------
(* The effect of useMetadataHandlers, after a render.                      *)

\* The search tracked for tab t is no more there; a tab is looked up in the pane it was in.
Lost(t)  == tracked[t].side # swapped \/ searches[t].req # tracked[t].req
Untidy(t) == tracked[t].req # NoJob /\ (Lost(t) \/ ~SearchActive(searches[t]))

Tidy ==
    LET lost == {tracked[t].job : t \in {u \in SearchTabs : Untidy(u) /\ Lost(u)}} \ {NoJob}
    IN  /\ \E t \in SearchTabs : Untidy(t)
        /\ Discard(lost)
        /\ searchJobs' = Asked(searchJobs, lost, "quietly")
        /\ tracked' = [t \in SearchTabs |-> IF Untidy(t) THEN Idle ELSE tracked[t]]
        /\ UNCHANGED <<searches, swapped, faults, crossed>>

-----------------------------------------------------------------------------
(* The shell.                                                              *)

StartJob(j) ==
    /\ searchJobs[j].answer = "pending"
    /\ \/ searchJobs' = [searchJobs EXCEPT ![j].answer = "ok", ![j].status = "running", ![j].thread = TRUE]
       \/ searchJobs' = [searchJobs EXCEPT ![j].answer = "refused"]
    /\ UNCHANGED <<searches, tracked, pending, absorbed, swapped, faults, crossed>>

FindLine(j) ==
    /\ searchJobs[j].thread
    /\ \E l \in Lines \ searchJobs[j].found :
         searchJobs' = [searchJobs EXCEPT ![j].found = @ \cup {l},
                           ![j].events = Append(@, [kind |-> "match", line |-> l])]
    /\ UNCHANGED <<searches, tracked, pending, absorbed, swapped, faults, crossed>>

\* set_metadata_job_status keeps a status that is final; no event tells then.
FinishSearch(j) ==
    LET job == searchJobs[j]
        Say(e) == IF job.status \in {"running", e.kind}
                  THEN [job EXCEPT !.thread = FALSE, !.status = e.kind, !.events = Append(@, e)]
                  ELSE [job EXCEPT !.thread = FALSE]
    IN  /\ job.thread
        /\ \/ searchJobs' = [searchJobs EXCEPT ![j] = Say([kind |-> "completed", lines |-> job.found])]
           \/ searchJobs' = [searchJobs EXCEPT ![j] = Say([kind |-> "failed"])]
           \/ job.status = "cancelled" /\ searchJobs' = [searchJobs EXCEPT ![j] = Say([kind |-> "cancelled"])]
        /\ UNCHANGED <<searches, tracked, pending, absorbed, swapped, faults, crossed>>

\* cancel_metadata_job marks the job, also one that is over.
CancelMetadataJob(j) ==
    /\ searchJobs[j].ask # "no"
    /\ searchJobs' = [searchJobs EXCEPT ![j].ask = "no", ![j].status = "cancelled"]
    /\ UNCHANGED <<searches, tracked, pending, absorbed, swapped, faults, crossed>>

-----------------------------------------------------------------------------
(* What reaches the page.                                                  *)

HearStarted(j) ==
    LET t == searchJobs[j].tab
        answered == [searchJobs EXCEPT ![j].answer = "delivered"]
    IN  \/ /\ searchJobs[j].answer = "ok" /\ tracked[t].req = j
           /\ tracked' = [tracked EXCEPT ![t].job = j]
           /\ Bind(t, j)
           /\ searchJobs' = answered
           /\ UNCHANGED <<swapped, faults, crossed>>
        \/ /\ searchJobs[j].answer = "ok" /\ tracked[t].req # j
           /\ Discard({j})
           /\ searchJobs' = Asked(answered, {j}, "quietly")
           /\ UNCHANGED <<searches, tracked, swapped, faults, crossed>>
        \/ /\ searchJobs[j].answer = "refused"
           /\ searchJobs' = answered
           /\ tracked' = IF tracked[t].req = j THEN [tracked EXCEPT ![t] = Idle] ELSE tracked
           /\ searches' = IF tracked[t].req = j /\ Bound(t, j)
                          THEN [searches EXCEPT ![t].status = "failed"] ELSE searches
           /\ UNCHANGED <<pending, absorbed, swapped, faults, crossed>>

\* The tabs that show job j.
Shows(j) == {t \in SearchTabs : searches[t].job = j}

BufferEvent(j, e) ==
    IF j \in Range(absorbed) THEN UNCHANGED pending
    ELSE Buffer(j, IF e.kind = "match"
                   THEN [PendingOf(j) EXCEPT !.matches = @ \cup {e.line}]
                   ELSE IF PendingOf(j).end.kind = "completed" THEN PendingOf(j)
                   ELSE [PendingOf(j) EXCEPT !.end = e])

\* Mutant: a match is shown in whatever search the tab of its job has.
ApplyAnywhere(j, e) ==
    LET t == searchJobs[j].tab
    IN  /\ searches' = IF e.kind = "match" THEN [searches EXCEPT ![t].matches = @ \cup {e.line}]
                       ELSE [searches EXCEPT ![t] = EndedBy(@, e)]
        /\ UNCHANGED <<pending, absorbed>>

\* applyContentSearchMatch, applyContentSearchCompleted and terminateContentSearchJob
ApplyEvent(j, e) ==
    LET live == \E t \in Shows(j) : SearchActive(searches[t])
    IN  IF Shows(j) = {} THEN BufferEvent(j, e) /\ UNCHANGED <<searches, absorbed>>
        ELSE /\ searches' = [t \in SearchTabs |->
                  IF t \notin Shows(j) \/ ~live THEN searches[t]
                  ELSE IF e.kind = "match" THEN [searches[t] EXCEPT !.matches = @ \cup {e.line}]
                  ELSE EndedBy(searches[t], e)]
             /\ IF live /\ e.kind # "match" THEN Discard({j}) ELSE UNCHANGED <<pending, absorbed>>

\* The next event of j, heard once, twice, or not at all.
HearEvent(j) ==
    LET e == Head(searchJobs[j].events)
        rest == [searchJobs EXCEPT ![j].events = Tail(@)]
    IN  /\ searchJobs[j].events # <<>>
        /\ \/ ApplyEvent(j, e) /\ searchJobs' = rest /\ UNCHANGED faults
           \/ ApplyEvent(j, e) /\ UNCHANGED searchJobs /\ faults < MaxFaults /\ faults' = faults + 1
           \/ /\ faults < MaxFaults /\ faults' = faults + 1
              /\ searchJobs' = rest /\ UNCHANGED <<searches, pending, absorbed>>
        /\ UNCHANGED <<tracked, swapped, crossed>>

\* The panel hears that its cancel was done; the tab waits for no request any more.
HearCancelled(j) ==
    /\ crossed' = (crossed \/ tracked[searchJobs[j].tab].req \notin {NoJob, j})
    /\ searchJobs[j].told /\ searchJobs[j].ask = "no"
    /\ searchJobs' = [searchJobs EXCEPT ![j].told = FALSE]
    /\ tracked' = [t \in SearchTabs |-> IF t = searchJobs[j].tab THEN Idle ELSE tracked[t]]
    /\ ApplyEvent(j, [kind |-> "cancelled"])
    /\ UNCHANGED <<swapped, faults>>

-----------------------------------------------------------------------------

\* A render's effect has run before the user's next event; the effect of such an event
\* runs at once, that of what the page hears later.
SearchUser ==
    /\ \A t \in SearchTabs : ~Untidy(t)
    /\ \/ \E t \in SearchTabs : RunContentSearch(t) \/ CancelContentSearch(t) \/ LeaveDirectory(t) \/ CloseSearchTab(t)
       \/ \E j \in Jobs : CancelActiveJob(j)
       \/ SwapSearchPanes

SearchSystem ==
    \/ Tidy
    \/ \E j \in Jobs : StartJob(j) \/ FindLine(j) \/ FinishSearch(j) \/ CancelMetadataJob(j)
    \/ /\ ~\E t \in SearchTabs : Untidy(t) /\ Lost(t)
       /\ \E j \in Jobs : HearStarted(j) \/ HearEvent(j) \/ HearCancelled(j)

SearchNext == SearchUser \/ SearchSystem

-----------------------------------------------------------------------------
(* Properties.                                                             *)

\* Nothing is on its way and nothing is left to tidy.
SearchQuiet ==
    /\ \A j \in Jobs : searchJobs[j].answer \in {"delivered"} /\ searchJobs[j].events = <<>>
                       /\ searchJobs[j].ask = "no" /\ ~searchJobs[j].told
    /\ \A t \in SearchTabs : ~Untidy(t)

\* A search shows only what its own job has found, whatever older searches of the same
\* tab still send, also when events are missed or heard twice.
SearchOwn ==
    \A t \in SearchTabs : LET s == searches[t] IN
        /\ s.job \in {NoJob, s.req}
        /\ s.matches # {} => s.req # NoJob /\ s.matches \subseteq searchJobs[s.req].found

\* A search that says it is complete shows all its job has found, also when events of
\* single matches were missed.
SearchWhole ==
    \A t \in SearchTabs : searches[t].status = "completed" => searches[t].matches = searchJobs[searches[t].req].found

\* A search does not stay busy when its job has ended, whichever of its answer, its
\* matches and its end came first, unless the end was missed, the panes were swapped,
\* the job was cancelled behind the panel's back, or a cancel was answered after the
\* next search had been asked for.
SearchEnds ==
    SearchQuiet /\ faults = 0 /\ ~swapped /\ ~crossed =>
        \A t \in SearchTabs : SearchActive(searches[t]) =>
            searchJobs[searches[t].req].thread \/ searchJobs[searches[t].req].status = "cancelled"

\* No job goes on for a search nobody sees: it is replaced, navigated away from or closed
\* only together with a cancel, also when the job's id comes after that.
NoJobForNothing ==
    SearchQuiet /\ ~crossed => \A j \in Jobs : searchJobs[j].status = "running" => Shows(j) # {}

\* No events are kept for jobs that are not going to be shown.
NothingKept == SearchQuiet /\ ~crossed /\ Len(searchJobs) <= AbsorbedMax => pending = <<>>

\* The results shown are those of the tab's own search, whole once it is completed, with
\* jobs of replaced and of other searches sending theirs to the same listeners; and when
\* everything has been heard, no search, job or buffer is left that waits for something
\* that will not come.
SearchTrue == SearchOwn /\ SearchWhole /\ SearchEnds /\ NoJobForNothing /\ NothingKept

=============================================================================
