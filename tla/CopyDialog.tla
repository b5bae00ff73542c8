------------------------------- MODULE CopyDialog -------------------------------
(***************************************************************************)
(* The copy and move dialog: its form, the preview of a plan, the question *)
(* about conflicts, and paste, which asks the same question.  Planning and *)
(* starting are calls that answer at any later time, when the dialog may   *)
(* have been edited, cancelled or opened anew: every answer puts back the  *)
(* dialog as it was when its call was made (setDialog of a snapshot).      *)
(*                                                                         *)
(* Plans are numbered in the order the backend answers.  Sources, names    *)
(* and error texts are left out.                                           *)
(***************************************************************************)
EXTENDS Integers, SequencesExt

CONSTANTS
    Destinations,  \* folders a copy can go to
    MaxPlans,      \* bound on the plans asked for
    MaxCopyActs    \* bound on what else the user does

ASSUME CopyConstants == Destinations # {} /\ {MaxPlans, MaxCopyActs} \subseteq Nat

VARIABLES
    dialog,
    calls,     \* calls under way
    submitting, \* submitInFlightRef
    plans,     \* what the backend planned
    started,   \* the plans whose operation was started, in order
    planned,   \* plans asked for
    copyActs

copyVars == <<dialog, calls, submitting, plans, started, planned, copyActs>>

NoPlan   == 0
Policies == {"fail", "overwrite", "renameNew"}
Dialog   == [open : BOOLEAN, dest : Destinations, policy : Policies,
             preview : BOOLEAN,                      \* planningEnabled
             plan : 0 .. MaxPlans, planning : BOOLEAN,
             step : {"review", "confirm"}]
Plan     == [dest : Destinations, policy : Policies, conflicts : BOOLEAN,
             kept : BOOLEAN]                         \* in the registry of the backend
CopyCall == [by : {"plan", "submit", "resolve", "paste"},
             step : {"planning", "starting"},
             snap : Dialog, plan : 0 .. MaxPlans]

CopyTypeOK ==
    /\ dialog \in Dialog /\ calls \in Seq(CopyCall) /\ submitting \in BOOLEAN
    /\ plans \in Seq(Plan) /\ Len(plans) <= planned /\ planned <= MaxPlans
    /\ started \in Seq(DOMAIN plans)
    \* one submission at a time
    /\ Cardinality({i \in DOMAIN calls : calls[i].by \in {"submit", "resolve"}})
         = IF submitting THEN 1 ELSE 0

Form(d, policy) == [open |-> TRUE, dest |-> d, policy |-> policy, preview |-> FALSE,
                    plan |-> NoPlan, planning |-> FALSE, step |-> "review"]
Closed == [Form(CHOOSE d \in Destinations : TRUE, "fail") EXCEPT !.open = FALSE]

Reviewing  == dialog.open /\ dialog.step = "review"
Confirming == dialog.open /\ dialog.step = "confirm"
CopyAct    == copyActs < MaxCopyActs /\ copyActs' = copyActs + 1

-----------------------------------------------------------------------------
(* The form.                                                               *)

\* handleCopyOrMove and onDropFiles
OpenDialog(d, policy) ==
    /\ ~dialog.open /\ CopyAct
    /\ dialog' = Form(d, policy)
    /\ UNCHANGED <<calls, submitting, plans, started, planned>>

\* Every edit forgets the plan.
Edited(new) == [new EXCEPT !.plan = NoPlan]

EditDialog ==
    /\ Reviewing /\ CopyAct
    /\ \E d \in Destinations, policy \in Policies, preview \in BOOLEAN :
          /\ <<d, policy, preview>> # <<dialog.dest, dialog.policy, dialog.preview>>
          /\ dialog' = Edited([dialog EXCEPT !.dest = d, !.policy = policy, !.preview = preview])
    /\ UNCHANGED <<calls, submitting, plans, started, planned>>

\* Cancel and Escape; calls under way go on.
CancelDialog ==
    /\ dialog.open /\ CopyAct
    /\ dialog' = Closed
    /\ UNCHANGED <<calls, submitting, plans, started, planned>>

BackFromConflicts ==
    /\ Confirming /\ ~dialog.planning /\ CopyAct
    /\ dialog' = [dialog EXCEPT !.step = "review"]
    /\ UNCHANGED <<calls, submitting, plans, started, planned>>

-----------------------------------------------------------------------------
(* Calls.                                                                  *)

AskPlan(by, snap) ==
    /\ planned < MaxPlans /\ planned' = planned + 1
    /\ calls' = Append(calls, [by |-> by, step |-> "planning", snap |-> snap, plan |-> NoPlan])
    /\ UNCHANGED <<plans, started, copyActs>>

\* startPlannedOperation; no plan is started while a start of it is under way
Start(cs, by, snap, p) ==
    IF \E i \in DOMAIN cs : cs[i].step = "starting" /\ cs[i].plan = p THEN cs
    ELSE Append(cs, [by |-> by, step |-> "starting", snap |-> snap, plan |-> p])

\* reviewCopyMoveDialog from the Plan button
PlanButton ==
    /\ Reviewing /\ dialog.preview /\ ~dialog.planning
    /\ AskPlan("plan", dialog)
    /\ dialog' = [dialog EXCEPT !.planning = TRUE]
    /\ UNCHANGED submitting

\* submitCopyMove of the form: without a plan it makes one, with one it starts it or asks.
SubmitForm ==
    /\ Reviewing /\ ~dialog.planning /\ (dialog.preview => dialog.plan # NoPlan)
    /\ ~submitting
    /\ \/ /\ dialog.plan = NoPlan
          /\ AskPlan("submit", dialog)
          /\ dialog' = [dialog EXCEPT !.planning = TRUE]
          /\ submitting' = TRUE
       \/ /\ dialog.plan # NoPlan /\ CopyAct
          /\ IF plans[dialog.plan].conflicts
             THEN dialog' = [dialog EXCEPT !.step = "confirm"] /\ UNCHANGED <<calls, submitting>>
             ELSE /\ calls' = Start(calls, "submit", dialog, dialog.plan)
                  /\ submitting' = (calls' # calls)
                  /\ UNCHANGED dialog
          /\ UNCHANGED <<plans, started, planned>>

\* submitCopyMove of the question about conflicts: it plans again with the answer.
Resolve(action) ==
    LET snap == [dialog EXCEPT !.policy = action, !.plan = NoPlan]
    IN  /\ Confirming /\ ~dialog.planning /\ ~submitting
        /\ AskPlan("resolve", snap)
        /\ dialog' = [snap EXCEPT !.planning = TRUE]
        /\ submitting' = TRUE

\* pasteClipboard plans before there is a dialog.
Paste(d) ==
    /\ ~dialog.open
    /\ AskPlan("paste", [Form(d, "fail") EXCEPT !.step = "confirm"])
    /\ UNCHANGED <<dialog, submitting>>

\* Mutant: paste, which renames, does not ask.
AsksIfForm(c, conflicts) == conflicts /\ c.by = "submit"

\* The conflicts of a plan are asked about unless the user has answered just now.
Asks(c, conflicts) == conflicts /\ c.by # "resolve"

\* The backend has planned: the items that are at the destination already are conflicts
\* under any policy.
PlanAnswered(i, conflicts) ==
    LET c    == calls[i]
        p    == Len(plans) + 1
        rest == RemoveAt(calls, i)
        snap == [c.snap EXCEPT !.plan = p]
    IN  /\ c.step = "planning"
        /\ plans' = Append(plans, [dest |-> c.snap.dest, conflicts |-> conflicts, kept |-> TRUE,
                                   policy |-> IF c.by = "paste" THEN "renameNew" ELSE c.snap.policy])
        /\ IF c.by = "plan" \/ (c.by = "submit" /\ c.snap.preview)
           THEN calls' = rest /\ dialog' = snap
           ELSE IF Asks(c, conflicts)
           THEN calls' = rest /\ dialog' = [snap EXCEPT !.step = "confirm"]
           ELSE   /\ calls' = Start(rest, c.by, snap, p)
                  /\ dialog' = IF c.by = "paste" THEN dialog ELSE snap
        /\ submitting' = IF c.by \in {"submit", "resolve"} THEN Len(calls') = Len(calls) ELSE submitting
        /\ UNCHANGED <<started, planned, copyActs>>

\* The dialog when there is no plan.
Unplanned(c) == IF c.by = "paste" THEN dialog ELSE [c.snap EXCEPT !.planning = FALSE]

PlanFailed(i) ==
    LET c == calls[i]
    IN  /\ c.step = "planning"
        /\ calls' = RemoveAt(calls, i)
        /\ dialog' = Unplanned(c)
        /\ submitting' = (submitting /\ c.by \notin {"submit", "resolve"})
        /\ UNCHANGED <<plans, started, planned, copyActs>>

\* The dialog after a start; whatever dialog is open goes with a start that went well.
AfterStart(c, ok) ==
    CASE c.by = "paste" -> dialog
      [] c.by # "paste" /\ ok -> Closed
      [] c.by = "resolve" /\ ~ok -> c.snap
      [] OTHER -> dialog

\* start_planned takes the plan out of the registry, whatever comes of it.
Taken(p) == [plans EXCEPT ![p].kept = FALSE]

StartAnswered(i, ok) ==
    LET c == calls[i]
    IN  /\ c.step = "starting" /\ (ok => plans[c.plan].kept)
        /\ plans' = Taken(c.plan)
        /\ started' = IF ok THEN Append(started, c.plan) ELSE started
        /\ dialog' = AfterStart(c, ok)
        /\ calls' = RemoveAt(calls, i)
        /\ submitting' = (submitting /\ c.by = "paste")
        /\ UNCHANGED <<planned, copyActs>>

CopyInit ==
    /\ dialog = Closed /\ calls = <<>> /\ submitting = FALSE
    /\ plans = <<>> /\ started = <<>> /\ planned = 0 /\ copyActs = 0

CopyNext ==
    \/ \E d \in Destinations, policy \in Policies : OpenDialog(d, policy)
    \/ EditDialog \/ CancelDialog \/ BackFromConflicts
    \/ PlanButton \/ SubmitForm
    \/ \E action \in {"overwrite", "renameNew"} : Resolve(action)   \* and "skip"
    \/ \E d \in Destinations : Paste(d)
    \/ \E i \in DOMAIN calls :
          \/ \E b \in BOOLEAN : PlanAnswered(i, b) \/ StartAnswered(i, b)
          \/ PlanFailed(i)

-----------------------------------------------------------------------------
(* Properties.                                                             *)

\* A plan in the dialog is a plan for what the dialog says, so what the user sees is what
\* starts; a plan of paste, made to rename, is only there with conflicts to ask about.
PlanFits ==
    dialog.plan # NoPlan =>
        /\ plans[dialog.plan].dest = dialog.dest
        /\ plans[dialog.plan].policy = dialog.policy \/ plans[dialog.plan].conflicts

\* Nothing that is at the destination already is dealt with unasked: a plan with
\* conflicts is started only with the answer given in the question about conflicts.
AskedBeforeReplacing ==
    \A i \in DOMAIN calls :
        calls[i].step = "starting" /\ plans[calls[i].plan].conflicts =>
            calls[i].by = "resolve" /\ plans[calls[i].plan].policy = calls[i].snap.policy

\* A plan is carried out once.
StartedOnce == IsInjective(started)

\* What is started is what was asked for: the plan of the settings on screen, with every
\* conflict answered, and only once.
PlansAsAsked == PlanFits /\ AskedBeforeReplacing /\ StartedOnce

\* When no call is under way the dialog is not planning: its buttons work.
PlanningEnds == calls = <<>> => ~dialog.planning /\ ~submitting

==============================================================================
