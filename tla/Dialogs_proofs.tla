---------------------------- MODULE Dialogs_proofs ----------------------------
(***************************************************************************)
(* What is proved of the dialogs and the git review, for any repositories, *)
(* items, destinations, servers and keys, and any number of acts.          *)
(*                                                                         *)
(* The copy dialog puts back what it was when each of its calls was made,  *)
(* so its invariant is about the calls under way as much as about the      *)
(* dialog: every snapshot a call carries fits the plans (CallFits), a plan *)
(* that is being started is one the user was asked about, one call at most *)
(* belongs to a submitted form (OneSubmit), and a dialog that is planning  *)
(* waits for a call that will answer (Awaits).                             *)
(*                                                                         *)
(* The dialog of the servers keeps lists that its calls fetched earlier:   *)
(* they agree with the servers but for what a call under way will fetch    *)
(* again, and each call waits for what made it (WaitsFit).                 *)
(*                                                                         *)
(* The git review is right slot by slot: what is loaded under a list, and  *)
(* every call for it whose answer will be taken, was asked for the item    *)
(* chosen and is younger than the list (LevelFits), and the list on screen *)
(* has a last call (ListFits).  An effect touches its own slot only        *)
(* (Touches), so the slots can be taken one after the other.               *)
(***************************************************************************)
EXTENDS MCDialogs, EditorPane_proofs

-----------------------------------------------------------------------------
(* The copy dialog: its invariant.                                         *)

\* A plan in a dialog is one the backend made, for what the dialog says.
Fitting(d, ps) ==
    d.plan # NoPlan =>
        /\ d.plan \in DOMAIN ps /\ ps[d.plan].dest = d.dest
        /\ ps[d.plan].policy = d.policy \/ ps[d.plan].conflicts

\* A call under way: what it puts back is not planning; what it starts was asked about.
CallFits(c, ps) ==
    /\ (c.by = "paste" /\ c.step = "starting") \/ Fitting(c.snap, ps)
    /\ ~c.snap.planning
    /\ c.step = "starting" =>
        /\ c.by # "plan" /\ c.plan \in DOMAIN ps
        /\ ps[c.plan].conflicts => c.by = "resolve" /\ ps[c.plan].policy = c.snap.policy
AllFit(cs, ps) == \A i \in DOMAIN cs : CallFits(cs[i], ps)

\* The calls of a form that was submitted: one at most, and exactly when the dialog knows of it.
Submits(cs) == {i \in DOMAIN cs : cs[i].by \in {"submit", "resolve"}}
OneSubmit(cs, b) ==
    /\ \A i, j \in Submits(cs) : i = j
    /\ b <=> Submits(cs) # {}

\* The calls the backend plans for; those whose answer the dialog waits for.
PlanCalls  == {c \in CopyCall : c.step = "planning"}
Those(s, T) == {j \in DOMAIN s : s[j] \in T}
Asking(cs) == Those(cs, PlanCalls)
Awaited(c) == c.step = "planning" /\ c.by # "paste"
Awaits(cs) == \E i \in DOMAIN cs : Awaited(cs[i])

CopyTypes ==
    /\ dialog \in Dialog /\ calls \in Seq(CopyCall) /\ submitting \in BOOLEAN
    /\ plans \in Seq(Plan) /\ started \in Seq(DOMAIN plans)
    /\ planned \in 0 .. MaxPlans /\ Len(plans) + Cardinality(Asking(calls)) <= planned
\* What was started is no longer in the registry, and so is not started again.
StartsFit ==
    /\ \A k \in DOMAIN started : ~plans[started[k]].kept
    /\ IsInjective(started)
DialogFits == Fitting(dialog, plans) /\ (dialog.planning => Awaits(calls))

CopyInv ==
    /\ CopyTypes /\ StartsFit /\ DialogFits
    /\ AllFit(calls, plans) /\ OneSubmit(calls, submitting)

-----------------------------------------------------------------------------
(* Sequences of calls.                                                     *)

\* What is left of a sequence is the rest of it, in another numbering.
LEMMA RestIs ==
    ASSUME NEW S, NEW s \in Seq(S), NEW i \in DOMAIN s
    PROVE  \E f \in [DOMAIN RemoveAt(s, i) -> DOMAIN s \ {i}] :
               /\ \A j \in DOMAIN RemoveAt(s, i) : RemoveAt(s, i)[j] = s[f[j]]
               /\ \A j, k \in DOMAIN RemoveAt(s, i) : f[j] = f[k] => j = k
               /\ \A m \in DOMAIN s \ {i} : \E j \in DOMAIN RemoveAt(s, i) : f[j] = m
<1> DEFINE r == RemoveAt(s, i)
           f == [j \in DOMAIN r |-> IF j < i THEN j ELSE j + 1]
<1>1. /\ DOMAIN r = 1 .. Len(s) - 1 /\ DOMAIN s = 1 .. Len(s) /\ Len(s) \in Nat
      /\ \A j \in DOMAIN r : /\ j < i => j \in DOMAIN s /\ r[j] = s[j]
                             /\ j >= i => j + 1 \in DOMAIN s /\ r[j] = s[j + 1]
  BY RemoveAtIs
<1> HIDE DEF r
<1>2. \A j \in DOMAIN r : f[j] \in DOMAIN s \ {i} /\ r[j] = s[f[j]]
  <2> TAKE j \in DOMAIN r
  <2>1. j \in Int /\ i \in Int
    BY <1>1
  <2>2. CASE j < i
    BY <1>1, <2>1, <2>2
  <2>3. CASE j >= i
    BY <1>1, <2>1, <2>3
  <2> QED BY <2>1, <2>2, <2>3
<1>3. f \in [DOMAIN r -> DOMAIN s \ {i}]
  BY <1>2
<1>4. \A j, k \in DOMAIN r : f[j] = f[k] => j = k
  BY <1>1
<1>5. \A m \in DOMAIN s \ {i} : \E j \in DOMAIN r : f[j] = m
  <2> TAKE m \in DOMAIN s \ {i}
  <2>1. m \in Int /\ i \in Int /\ m # i /\ m \in 1 .. Len(s) /\ i \in 1 .. Len(s)
    BY <1>1
  <2>2. CASE m < i
    BY <1>1, <2>1, <2>2
  <2>3. CASE m > i
    <3>1. m - 1 \in DOMAIN r /\ ~(m - 1 < i) /\ (m - 1) + 1 = m
      BY <1>1, <2>1, <2>3
    <3> QED BY <3>1
  <2> QED BY <2>1, <2>2, <2>3
<1> HIDE DEF f
<1> QED BY <1>2, <1>3, <1>4, <1>5 DEF r

\* How many elements of a kind a sequence has when one is taken out.
LEMMA CountRest ==
    ASSUME NEW S, NEW T, NEW s \in Seq(S), NEW i \in DOMAIN s
    PROVE  /\ Cardinality(Those(RemoveAt(s, i), T)) \in Nat
           /\ Cardinality(Those(s, T)) \in Nat
           /\ Cardinality(Those(RemoveAt(s, i), T))
                <= Cardinality(Those(s, T)) - (IF s[i] \in T THEN 1 ELSE 0)
<1> DEFINE r == RemoveAt(s, i)
           A == Those(s, T)
           B == Those(r, T)
<1>1. PICK f \in [DOMAIN r -> DOMAIN s \ {i}] :
          /\ \A j \in DOMAIN r : r[j] = s[f[j]]
          /\ \A j, k \in DOMAIN r : f[j] = f[k] => j = k
  BY RestIs
<1> HIDE DEF r
<1>2. IsFiniteSet(A)
  <2>1. DOMAIN s = 1 .. Len(s) /\ Len(s) \in Nat
    OBVIOUS
  <2>2. IsFiniteSet(DOMAIN s)
    BY <2>1, FS_Interval
  <2> QED BY <2>2, FS_Subset DEF Those
<1> DEFINE g == [j \in B |-> f[j]]
           C == A \ {i}
<1>3. IsFiniteSet(C) /\ Cardinality(C) = IF i \in A THEN Cardinality(A) - 1 ELSE Cardinality(A)
  <2> HIDE DEF A
  <2> QED BY <1>2, FS_RemoveElement
<1>4. g \in Injection(B, C)
  <2>1. \A j \in B : g[j] \in C
    BY <1>1 DEF Those
  <2>2. g \in [B -> C]
    <3> HIDE DEF B, C
    <3> QED BY <2>1
  <2>3. \A j, k \in B : g[j] = g[k] => j = k
    BY <1>1 DEF Those
  <2> HIDE DEF B, C, g
  <2> QED BY <2>2, <2>3 DEF Injection, IsInjective
<1>5. IsFiniteSet(B) /\ Cardinality(B) <= Cardinality(C)
  <2> HIDE DEF B, C, g
  <2> QED BY <1>3, <1>4, FS_Injection
<1>6. i \in A <=> s[i] \in T
  BY DEF Those
<1>7. Cardinality(A) \in Nat /\ Cardinality(B) \in Nat /\ Cardinality(C) \in Nat
  <2> HIDE DEF A, B, C
  <2> QED BY <1>2, <1>3, <1>5, FS_CardinalityType
<1>8. Cardinality(B) <= Cardinality(A) - (IF s[i] \in T THEN 1 ELSE 0)
  <2> HIDE DEF A, B, C
  <2> QED BY <1>3, <1>5, <1>6, <1>7
<1> HIDE DEF A, B
<1> QED BY <1>7, <1>8 DEF A, B, r

\* How many it has when one is put at its end.
LEMMA CountMore ==
    ASSUME NEW S, NEW T, NEW s \in Seq(S), NEW x \in S
    PROVE  /\ Cardinality(Those(s, T)) \in Nat
           /\ Cardinality(Those(Append(s, x), T))
                = Cardinality(Those(s, T)) + (IF x \in T THEN 1 ELSE 0)
<1> DEFINE n == Len(s) + 1
           A == Those(s, T)
           B == Those(Append(s, x), T)
<1>1. /\ DOMAIN s = 1 .. Len(s) /\ Len(s) \in Nat /\ n \notin DOMAIN s
      /\ DOMAIN Append(s, x) = DOMAIN s \cup {n}
      /\ \A j \in DOMAIN s : Append(s, x)[j] = s[j]
      /\ Append(s, x)[n] = x
  OBVIOUS
<1>2. IsFiniteSet(A) /\ n \notin A
  <2>1. IsFiniteSet(DOMAIN s)
    BY <1>1, FS_Interval
  <2> QED BY <1>1, <2>1, FS_Subset DEF Those
<1>3. Cardinality(A) \in Nat
  <2> HIDE DEF A
  <2> QED BY <1>2, FS_CardinalityType
<1>4. B = IF x \in T THEN A \cup {n} ELSE A
  BY <1>1 DEF Those
<1>5. Cardinality(A \cup {n}) = Cardinality(A) + 1
  <2> HIDE DEF A
  <2> QED BY <1>2, FS_AddElement
<1>6. Cardinality(B) = Cardinality(A) + (IF x \in T THEN 1 ELSE 0)
  <2> HIDE DEF A, B
  <2> QED BY <1>3, <1>4, <1>5
<1> HIDE DEF A, B
<1> QED BY <1>3, <1>6 DEF A, B

\* One call is answered.
LEMMA RestKeeps ==
    ASSUME NEW cs \in Seq(CopyCall), NEW i \in DOMAIN cs, NEW ps, NEW b \in BOOLEAN
    PROVE  /\ RemoveAt(cs, i) \in Seq(CopyCall) /\ Len(RemoveAt(cs, i)) = Len(cs) - 1 /\ Len(cs) \in Nat
           /\ AllFit(cs, ps) => AllFit(RemoveAt(cs, i), ps)
           /\ OneSubmit(cs, b) =>
                IF cs[i].by \in {"submit", "resolve"} THEN b /\ OneSubmit(RemoveAt(cs, i), FALSE)
                ELSE OneSubmit(RemoveAt(cs, i), b)
           /\ Awaits(cs) /\ ~Awaited(cs[i]) => Awaits(RemoveAt(cs, i))
           /\ Cardinality(Asking(RemoveAt(cs, i))) \in Nat /\ Cardinality(Asking(cs)) \in Nat
           /\ Cardinality(Asking(RemoveAt(cs, i))) <=
                Cardinality(Asking(cs)) - (IF cs[i].step = "planning" THEN 1 ELSE 0)
<1> DEFINE r == RemoveAt(cs, i)
<1>1. r \in Seq(CopyCall) /\ DOMAIN r = 1 .. Len(cs) - 1
  BY RemoveAtIs
<1>2. Len(r) = Len(cs) - 1 /\ Len(cs) \in Nat
  BY RemoveAtIs
<1>3. PICK f \in [DOMAIN r -> DOMAIN cs \ {i}] :
          /\ \A j \in DOMAIN r : r[j] = cs[f[j]]
          /\ \A j, k \in DOMAIN r : f[j] = f[k] => j = k
          /\ \A m \in DOMAIN cs \ {i} : \E j \in DOMAIN r : f[j] = m
  BY RestIs
<1>4. cs[i] \in CopyCall /\ (cs[i] \in PlanCalls <=> cs[i].step = "planning")
  BY DEF PlanCalls
<1>5. /\ Cardinality(Asking(r)) \in Nat /\ Cardinality(Asking(cs)) \in Nat
      /\ Cardinality(Asking(r)) <= Cardinality(Asking(cs)) - (IF cs[i].step = "planning" THEN 1 ELSE 0)
  BY <1>4, CountRest DEF Asking
<1> HIDE DEF r
<1>6. AllFit(cs, ps) => AllFit(r, ps)
  BY <1>3 DEF AllFit
<1>7. Awaits(cs) /\ ~Awaited(cs[i]) => Awaits(r)
  BY <1>3 DEF Awaits
<1>8. ASSUME OneSubmit(cs, b)
      PROVE  IF cs[i].by \in {"submit", "resolve"} THEN b /\ OneSubmit(r, FALSE) ELSE OneSubmit(r, b)
  <2>1. \A j \in DOMAIN r : j \in Submits(r) <=> f[j] \in Submits(cs)
    BY <1>3 DEF Submits
  <2>2. Submits(r) \subseteq DOMAIN r /\ Submits(cs) \subseteq DOMAIN cs
    BY DEF Submits
  <2>3. CASE cs[i].by \in {"submit", "resolve"}
    <3>1. i \in Submits(cs)
      BY <2>3 DEF Submits
    <3>2. Submits(r) = {}
      BY <1>3, <1>8, <2>1, <2>2, <3>1 DEF OneSubmit
    <3> QED BY <1>8, <2>3, <3>1, <3>2 DEF OneSubmit
  <2>4. CASE cs[i].by \notin {"submit", "resolve"}
    <3>1. i \notin Submits(cs)
      BY <2>4 DEF Submits
    <3>2. \A j, k \in Submits(r) : j = k
      BY <1>3, <1>8, <2>1, <2>2 DEF OneSubmit
    <3>3. Submits(r) # {} <=> Submits(cs) # {}
      BY <1>3, <2>1, <2>2, <3>1
    <3> QED BY <1>8, <2>4, <3>2, <3>3 DEF OneSubmit
  <2> QED BY <2>3, <2>4
<1> QED BY <1>1, <1>2, <1>5, <1>6, <1>7, <1>8 DEF r

\* One call is made.
LEMMA MoreKeeps ==
    ASSUME NEW cs \in Seq(CopyCall), NEW c \in CopyCall, NEW ps, NEW b \in BOOLEAN
    PROVE  /\ Append(cs, c) \in Seq(CopyCall) /\ Len(Append(cs, c)) = Len(cs) + 1 /\ Len(cs) \in Nat
           /\ AllFit(cs, ps) /\ CallFits(c, ps) => AllFit(Append(cs, c), ps)
           /\ OneSubmit(cs, b) /\ c.by \notin {"submit", "resolve"} => OneSubmit(Append(cs, c), b)
           /\ OneSubmit(cs, FALSE) /\ c.by \in {"submit", "resolve"} => OneSubmit(Append(cs, c), TRUE)
           /\ Awaits(cs) \/ Awaited(c) => Awaits(Append(cs, c))
           /\ Cardinality(Asking(cs)) \in Nat
           /\ Cardinality(Asking(Append(cs, c))) = Cardinality(Asking(cs)) + (IF c.step = "planning" THEN 1 ELSE 0)
<1> DEFINE n == Len(cs) + 1
           r == Append(cs, c)
<1>1. r \in Seq(CopyCall) /\ Len(r) = Len(cs) + 1 /\ Len(cs) \in Nat
  OBVIOUS
<1>2. /\ DOMAIN r = DOMAIN cs \cup {n} /\ n \notin DOMAIN cs /\ r[n] = c
      /\ \A j \in DOMAIN cs : r[j] = cs[j]
  OBVIOUS
<1>3. c \in PlanCalls <=> c.step = "planning"
  BY DEF PlanCalls
<1>4. /\ Cardinality(Asking(cs)) \in Nat
      /\ Cardinality(Asking(r)) = Cardinality(Asking(cs)) + (IF c.step = "planning" THEN 1 ELSE 0)
  BY <1>3, CountMore DEF Asking
<1> HIDE DEF r, n
<1>5. AllFit(cs, ps) /\ CallFits(c, ps) => AllFit(r, ps)
  BY <1>2 DEF AllFit
<1>6. Awaits(cs) \/ Awaited(c) => Awaits(r)
  BY <1>2 DEF Awaits
<1>7. Submits(r) = IF c.by \in {"submit", "resolve"} THEN Submits(cs) \cup {n} ELSE Submits(cs)
  BY <1>2 DEF Submits
<1>8. OneSubmit(cs, b) /\ c.by \notin {"submit", "resolve"} => OneSubmit(r, b)
  BY <1>7 DEF OneSubmit
<1>9. OneSubmit(cs, FALSE) /\ c.by \in {"submit", "resolve"} => OneSubmit(r, TRUE)
  BY <1>7 DEF OneSubmit
<1> QED BY <1>1, <1>4, <1>5, <1>6, <1>8, <1>9 DEF r

-----------------------------------------------------------------------------
(* The copy dialog: its steps.                                             *)

\* The form that is opened, the one that is closed, and plans in them.
LEMMA FormsFit ==
    ASSUME NEW d \in Destinations, NEW policy \in Policies, NEW ps
    PROVE  /\ Form(d, policy) \in Dialog /\ ~Form(d, policy).planning /\ Fitting(Form(d, policy), ps)
           /\ Closed \in Dialog /\ ~Closed.planning /\ Fitting(Closed, ps)
<1>1. /\ Destinations # {} /\ MaxPlans \in Nat /\ (CHOOSE x \in Destinations : TRUE) \in Destinations
  BY CopyConstants
<1>2. \A x \in Destinations, q \in Policies :
         Form(x, q) \in Dialog /\ ~Form(x, q).planning /\ Form(x, q).plan = NoPlan
  BY <1>1 DEF Form, Dialog, NoPlan
<1>3. "fail" \in Policies
  BY DEF Policies
<1>4. Closed \in Dialog /\ ~Closed.planning /\ Closed.plan = NoPlan
  <2> DEFINE f == Form(CHOOSE x \in Destinations : TRUE, "fail")
  <2>1. f \in Dialog /\ ~f.planning /\ f.plan = NoPlan
    BY <1>1, <1>2, <1>3
  <2>2. Closed = [f EXCEPT !.open = FALSE]
    BY DEF Closed
  <2> HIDE DEF f
  <2> QED BY <2>1, <2>2 DEF Dialog
<1> QED BY <1>2, <1>4 DEF Fitting

\* A step that only changes the form.
LEMMA FormKeeps ==
    ASSUME CopyInv, UNCHANGED <<calls, submitting, plans, started, planned>>,
           dialog' \in Dialog, Fitting(dialog', plans), dialog'.planning => dialog.planning
    PROVE  CopyInv'
  BY DEF CopyInv, CopyTypes, StartsFit, DialogFits

\* The backend is asked for a plan.
LEMMA AskKeeps ==
    ASSUME CopyInv, NEW by \in {"plan", "submit", "resolve", "paste"}, NEW snap \in Dialog, AskPlan(by, snap),
           ~snap.planning, Fitting(snap, plans),
           dialog' \in Dialog, Fitting(dialog', plans), by = "paste" => dialog' = dialog,
           IF by \in {"submit", "resolve"} THEN ~submitting /\ submitting' = TRUE ELSE submitting' = submitting
    PROVE  CopyInv'
<1> DEFINE c == [by |-> by, step |-> "planning", snap |-> snap, plan |-> NoPlan]
<1>1. /\ planned < MaxPlans /\ planned' = planned + 1 /\ calls' = Append(calls, c)
      /\ plans' = plans /\ started' = started
  BY DEF AskPlan
<1>2. c \in CopyCall /\ c.step = "planning" /\ c.by = by /\ CallFits(c, plans) /\ (by # "paste" => Awaited(c))
  BY CopyConstants DEF CopyCall, NoPlan, CallFits, Awaited
<1> HIDE DEF c
<1>3. calls \in Seq(CopyCall) /\ submitting \in BOOLEAN
  BY DEF CopyInv, CopyTypes
<1>4. /\ calls' \in Seq(CopyCall) /\ AllFit(calls', plans)
      /\ c.by \notin {"submit", "resolve"} => OneSubmit(calls', submitting)
      /\ submitting = FALSE /\ c.by \in {"submit", "resolve"} => OneSubmit(calls', TRUE)
      /\ Awaits(calls) \/ Awaited(c) => Awaits(calls')
      /\ Cardinality(Asking(calls)) \in Nat /\ Cardinality(Asking(calls')) = Cardinality(Asking(calls)) + 1
  BY <1>1, <1>2, <1>3, MoreKeeps DEF CopyInv
<1>5. OneSubmit(calls', submitting')
  BY <1>2, <1>3, <1>4
<1>6. DialogFits'
  BY <1>1, <1>2, <1>4 DEF CopyInv, DialogFits
<1>7. Len(plans) \in Nat /\ planned \in Nat /\ MaxPlans \in Nat
  BY CopyConstants DEF CopyInv, CopyTypes
<1>8. CopyTypes'
  <2> DEFINE n == Cardinality(Asking(calls))
             m == Cardinality(Asking(calls'))
  <2>1. Len(plans) + n <= planned
    BY DEF CopyInv, CopyTypes
  <2>2. n \in Nat /\ m = n + 1
    BY <1>4
  <2> HIDE DEF n, m
  <2>3. planned' \in 0 .. MaxPlans /\ Len(plans') + m <= planned'
    BY <1>1, <1>7, <2>1, <2>2
  <2>4. submitting' \in BOOLEAN
    BY <1>3
  <2> QED BY <1>1, <1>4, <2>3, <2>4 DEF CopyInv, CopyTypes, m
<1>9. StartsFit'
  BY <1>1 DEF CopyInv, StartsFit
<1>10. AllFit(calls', plans')
  BY <1>1, <1>4
<1> QED BY <1>5, <1>6, <1>8, <1>9, <1>10 DEF CopyInv

\* Nothing is started of a plan that is being started; what is started was asked about.
LEMMA StartIs ==
    ASSUME NEW cs \in Seq(CopyCall), NEW ps, AllFit(cs, ps), NEW by \in {"submit", "resolve", "paste"},
           NEW snap \in Dialog, NEW p \in 1 .. MaxPlans, p \in DOMAIN ps, ~snap.planning,
           by = "paste" \/ Fitting(snap, ps), 
           ps[p].conflicts => by = "resolve" /\ ps[p].policy = snap.policy
    PROVE  /\ Start(cs, by, snap, p) \in Seq(CopyCall) /\ AllFit(Start(cs, by, snap, p), ps)
           /\ \/ /\ Start(cs, by, snap, p) = cs
                 /\ \E i \in DOMAIN cs : cs[i].step = "starting" /\ cs[i].plan = p
              \/ /\ Len(Start(cs, by, snap, p)) = Len(cs) + 1 /\ Len(cs) \in Nat
                 /\ by = "paste" /\ OneSubmit(cs, TRUE) => OneSubmit(Start(cs, by, snap, p), TRUE)
                 /\ by = "paste" /\ OneSubmit(cs, FALSE) => OneSubmit(Start(cs, by, snap, p), FALSE)
                 /\ by # "paste" /\ OneSubmit(cs, FALSE) => OneSubmit(Start(cs, by, snap, p), TRUE)
           /\ Awaits(cs) => Awaits(Start(cs, by, snap, p))
<1> DEFINE c == [by |-> by, step |-> "starting", snap |-> snap, plan |-> p]
<1>1. CASE \E i \in DOMAIN cs : cs[i].step = "starting" /\ cs[i].plan = p
  BY <1>1 DEF Start
<1>2. CASE ~\E i \in DOMAIN cs : cs[i].step = "starting" /\ cs[i].plan = p
  <2>1. Start(cs, by, snap, p) = Append(cs, c)
    BY <1>2 DEF Start
  <2>2. c \in CopyCall /\ c.step = "starting" /\ c.by = by
    BY CopyConstants DEF CopyCall
  <2>3. CallFits(c, ps)
    BY DEF CallFits
  <2> HIDE DEF c
  <2>4. /\ Append(cs, c) \in Seq(CopyCall) /\ Len(Append(cs, c)) = Len(cs) + 1 /\ Len(cs) \in Nat
        /\ AllFit(Append(cs, c), ps)
        /\ c.by \notin {"submit", "resolve"} /\ OneSubmit(cs, TRUE) => OneSubmit(Append(cs, c), TRUE)
        /\ c.by \notin {"submit", "resolve"} /\ OneSubmit(cs, FALSE) => OneSubmit(Append(cs, c), FALSE)
        /\ OneSubmit(cs, FALSE) /\ c.by \in {"submit", "resolve"} => OneSubmit(Append(cs, c), TRUE)
        /\ Awaits(cs) => Awaits(Append(cs, c))
    BY <2>2, <2>3, MoreKeeps
  <2>5. /\ by = "paste" /\ OneSubmit(cs, TRUE) => OneSubmit(Append(cs, c), TRUE)
        /\ by = "paste" /\ OneSubmit(cs, FALSE) => OneSubmit(Append(cs, c), FALSE)
        /\ by # "paste" /\ OneSubmit(cs, FALSE) => OneSubmit(Append(cs, c), TRUE)
    BY <2>2, <2>4
  <2>6. /\ Start(cs, by, snap, p) \in Seq(CopyCall) /\ AllFit(Start(cs, by, snap, p), ps)
        /\ Awaits(cs) => Awaits(Start(cs, by, snap, p))
        /\ Len(Start(cs, by, snap, p)) = Len(cs) + 1 /\ Len(cs) \in Nat
    BY <2>1, <2>4
  <2>8. /\ by = "paste" /\ OneSubmit(cs, TRUE) => OneSubmit(Start(cs, by, snap, p), TRUE)
        /\ by = "paste" /\ OneSubmit(cs, FALSE) => OneSubmit(Start(cs, by, snap, p), FALSE)
        /\ by # "paste" /\ OneSubmit(cs, FALSE) => OneSubmit(Start(cs, by, snap, p), TRUE)
    BY <2>1, <2>5
  <2> QED BY <2>6, <2>8
<1> QED BY <1>1, <1>2

\* Starting asks for no plan.
LEMMA StartAsksNone ==
    ASSUME NEW cs \in Seq(CopyCall), NEW by \in {"submit", "resolve", "paste"},
           NEW snap \in Dialog, NEW p \in 1 .. MaxPlans
    PROVE  Cardinality(Asking(Start(cs, by, snap, p))) = Cardinality(Asking(cs))
<1> DEFINE c == [by |-> by, step |-> "starting", snap |-> snap, plan |-> p]
<1>1. c \in CopyCall /\ c.step = "starting"
  BY CopyConstants DEF CopyCall
<1>2. Start(cs, by, snap, p) = cs \/ Start(cs, by, snap, p) = Append(cs, c)
  BY DEF Start
<1> HIDE DEF c
<1>3. Cardinality(Asking(cs)) \in Nat /\ Cardinality(Asking(Append(cs, c))) = Cardinality(Asking(cs)) + 0
  BY <1>1, MoreKeeps
<1>4. CASE Start(cs, by, snap, p) = cs
  BY <1>4
<1>5. CASE Start(cs, by, snap, p) = Append(cs, c)
  BY <1>3, <1>5
<1> QED BY <1>2, <1>4, <1>5

\* A form that starts its plan is submitted; if it is being started already, it is not.
LEMMA StartSubmits ==
    ASSUME NEW cs \in Seq(CopyCall), NEW snap \in Dialog, NEW p \in 1 .. MaxPlans, OneSubmit(cs, FALSE)
    PROVE  LET r == Start(cs, "submit", snap, p)
           IN  r = cs \/ (Len(r) = Len(cs) + 1 /\ Len(cs) \in Nat /\ OneSubmit(r, TRUE))
<1> DEFINE c == [by |-> "submit", step |-> "starting", snap |-> snap, plan |-> p]
<1>1. c \in CopyCall /\ c.by \in {"submit", "resolve"}
  BY CopyConstants DEF CopyCall
<1>2. Start(cs, "submit", snap, p) = cs \/ Start(cs, "submit", snap, p) = Append(cs, c)
  BY DEF Start
<1> HIDE DEF c
<1>3. Len(Append(cs, c)) = Len(cs) + 1 /\ Len(cs) \in Nat /\ OneSubmit(Append(cs, c), TRUE)
  BY <1>1, MoreKeeps
<1> QED BY <1>2, <1>3

\* The plans only grow in what dialogs and calls say of them.
LEMMA StillFits ==
    ASSUME NEW ps, NEW qs, DOMAIN ps \subseteq DOMAIN qs,
           \A p \in DOMAIN ps : /\ qs[p].dest = ps[p].dest /\ qs[p].policy = ps[p].policy
                                /\ qs[p].conflicts = ps[p].conflicts
    PROVE  /\ \A d : Fitting(d, ps) => Fitting(d, qs)
           /\ \A cs : AllFit(cs, ps) => AllFit(cs, qs)
  BY DEF Fitting, AllFit, CallFits

\* A sequence of places of the plans remains one when there are more plans.
LEMMA StillStarted ==
    ASSUME NEW S, NEW T, S \subseteq T, NEW s \in Seq(S)
    PROVE  s \in Seq(T)
<1>1. \A i \in 1 .. Len(s) : s[i] \in T
  OBVIOUS
<1>2. s = [i \in 1 .. Len(s) |-> s[i]] /\ Len(s) \in Nat
  OBVIOUS
<1> QED BY <1>1, <1>2

\* A call under way.
LEMMA CallIs ==
    ASSUME NEW cs \in Seq(CopyCall), NEW i \in DOMAIN cs
    PROVE  /\ cs[i] \in CopyCall /\ cs[i].snap \in Dialog /\ cs[i].plan \in 0 .. MaxPlans
           /\ cs[i].by \in {"plan", "submit", "resolve", "paste"} /\ cs[i].step \in {"planning", "starting"}
<1>1. cs[i] \in CopyCall
  OBVIOUS
<1> QED BY <1>1 DEF CopyCall

\* The backend has planned.
LEMMA PlanAnsweredKeeps ==
    ASSUME CopyInv, NEW i \in DOMAIN calls, NEW conflicts \in BOOLEAN, PlanAnswered(i, conflicts)
    PROVE  CopyInv'
<1> DEFINE c    == calls[i]
           p    == Len(plans) + 1
           rest == RemoveAt(calls, i)
           snap == [c.snap EXCEPT !.plan = p]
           plan == [dest |-> c.snap.dest, conflicts |-> conflicts, kept |-> TRUE,
                    policy |-> IF c.by = "paste" THEN "renameNew" ELSE c.snap.policy]
           quiet == c.by = "plan" \/ (c.by = "submit" /\ c.snap.preview)
<1>1. /\ c.step = "planning" /\ plans' = Append(plans, plan)
      /\ quiet => calls' = rest /\ dialog' = snap
      /\ ~quiet /\ Asks(c, conflicts) => calls' = rest /\ dialog' = [snap EXCEPT !.step = "confirm"]
      /\ ~quiet /\ ~Asks(c, conflicts) =>
            /\ calls' = Start(rest, c.by, snap, p)
            /\ dialog' = IF c.by = "paste" THEN dialog ELSE snap
      /\ submitting' = IF c.by \in {"submit", "resolve"} THEN Len(calls') = Len(calls) ELSE submitting
      /\ started' = started /\ planned' = planned
  BY DEF PlanAnswered
<1>2. /\ calls \in Seq(CopyCall) /\ plans \in Seq(Plan) /\ started \in Seq(DOMAIN plans) /\ dialog \in Dialog
      /\ submitting \in BOOLEAN /\ planned \in 0 .. MaxPlans /\ MaxPlans \in Nat
      /\ Len(plans) \in Nat /\ Len(plans) + Cardinality(Asking(calls)) <= planned
      /\ AllFit(calls, plans) /\ OneSubmit(calls, submitting)
  BY CopyConstants DEF CopyInv, CopyTypes
<1>3. /\ c \in CopyCall /\ CallFits(c, plans) /\ c.snap \in Dialog /\ ~c.snap.planning
      /\ c.by \in {"plan", "submit", "resolve", "paste"}
  BY <1>1, <1>2, CallIs DEF AllFit, CallFits
<1>4. /\ rest \in Seq(CopyCall) /\ Len(rest) = Len(calls) - 1 /\ Len(calls) \in Nat
      /\ AllFit(rest, plans)
      /\ IF c.by \in {"submit", "resolve"} THEN submitting /\ OneSubmit(rest, FALSE) ELSE OneSubmit(rest, submitting)
      /\ Awaits(calls) /\ ~Awaited(c) => Awaits(rest)
      /\ Cardinality(Asking(rest)) \in Nat /\ Cardinality(Asking(calls)) \in Nat
      /\ Cardinality(Asking(rest)) <= Cardinality(Asking(calls)) - 1
  BY <1>1, <1>2, RestKeeps
<1>5. plan \in Plan /\ plan.dest = c.snap.dest /\ plan.conflicts = conflicts /\ plan.kept
      /\ plan.policy = IF c.by = "paste" THEN "renameNew" ELSE c.snap.policy
  BY <1>3 DEF Plan, Dialog, Policies
<1>6. p \in 1 .. MaxPlans /\ p # NoPlan
  BY <1>2, <1>4 DEF NoPlan
<1>7. /\ snap \in Dialog /\ ~snap.planning /\ snap.plan = p /\ snap.dest = c.snap.dest /\ snap.policy = c.snap.policy
      /\ [snap EXCEPT !.step = "confirm"] \in Dialog /\ ~[snap EXCEPT !.step = "confirm"].planning
      /\ [snap EXCEPT !.step = "confirm"].plan = p /\ [snap EXCEPT !.step = "confirm"].dest = c.snap.dest
      /\ [snap EXCEPT !.step = "confirm"].policy = c.snap.policy
  <2>1. p \in 0 .. MaxPlans
    BY <1>6
  <2> HIDE DEF c, p
  <2> QED BY <1>3, <2>1 DEF Dialog
<1> DEFINE asked == [snap EXCEPT !.step = "confirm"]
<1> HIDE DEF plan, rest
<1>8. /\ plans' \in Seq(Plan) /\ Len(plans') = Len(plans) + 1 /\ DOMAIN plans' = 1 .. Len(plans) + 1
      /\ DOMAIN plans = 1 .. Len(plans) /\ plans'[p] = plan /\ p \in DOMAIN plans'
      /\ \A k \in DOMAIN plans : k \in DOMAIN plans' /\ plans'[k] = plans[k]
  BY <1>1, <1>2, <1>5
<1>9. /\ \A d : Fitting(d, plans) => Fitting(d, plans')
      /\ \A cs : AllFit(cs, plans) => AllFit(cs, plans')
  BY <1>8, StillFits
<1>10. c.by # "paste" \/ conflicts => Fitting(snap, plans') /\ Fitting(asked, plans')
  BY <1>5, <1>7, <1>8 DEF Fitting
<1>11. started' \in Seq(DOMAIN plans')
  <2>1. DOMAIN plans \subseteq DOMAIN plans'
    BY <1>8
  <2> QED BY <1>1, <1>2, <2>1, StillStarted
<1>12. StartsFit'
  <2>1. \A k \in DOMAIN started : started[k] \in DOMAIN plans
    BY <1>2
  <2> QED BY <1>1, <1>8, <2>1 DEF CopyInv, StartsFit
<1>13. Cardinality(Asking(calls')) = Cardinality(Asking(rest)) => Len(plans') + Cardinality(Asking(calls')) <= planned'
  <2> DEFINE n == Cardinality(Asking(calls))
             m == Cardinality(Asking(rest))
  <2>1. n \in Nat /\ m \in Nat /\ m <= n - 1 /\ Len(plans) + n <= planned
    BY <1>2, <1>4
  <2> HIDE DEF n, m
  <2>2. Len(plans') + m <= planned'
    BY <1>1, <1>2, <1>8, <2>1
  <2> QED BY <2>2 DEF m
<1>14. planned' \in 0 .. MaxPlans
  BY <1>1, <1>2
<1>15. CASE quiet \/ Asks(c, conflicts)
  <2>1. calls' = rest /\ dialog' \in {snap, asked} /\ (c.by = "paste" => conflicts)
    BY <1>1, <1>15 DEF Asks
  <2>2. submitting' = IF c.by \in {"submit", "resolve"} THEN FALSE ELSE submitting
    <3>1. Len(calls') # Len(calls)
      BY <1>4, <2>1
    <3> QED BY <1>1, <3>1
  <2>3. OneSubmit(calls', submitting') /\ submitting' \in BOOLEAN
    BY <1>2, <1>4, <2>1, <2>2
  <2>4. dialog' \in Dialog /\ ~dialog'.planning /\ Fitting(dialog', plans')
    BY <1>7, <1>10, <2>1
  <2>5. AllFit(calls', plans') /\ calls' \in Seq(CopyCall)
    BY <1>4, <1>9, <2>1
  <2>6. CopyTypes'
    BY <1>8, <1>11, <1>13, <1>14, <2>1, <2>3, <2>4, <2>5 DEF CopyTypes
  <2> QED BY <1>12, <2>3, <2>4, <2>5, <2>6 DEF CopyInv, DialogFits
<1>16. CASE ~quiet /\ ~Asks(c, conflicts)
  <2>1. /\ calls' = Start(rest, c.by, snap, p) /\ dialog' = IF c.by = "paste" THEN dialog ELSE snap
        /\ conflicts => c.by = "resolve"
        /\ c.by \in {"submit", "resolve", "paste"}
    BY <1>1, <1>3, <1>16 DEF Asks
  <2> DEFINE b == IF c.by = "paste" THEN submitting ELSE FALSE
  <2>2. OneSubmit(rest, b) /\ b \in BOOLEAN /\ AllFit(rest, plans') /\ (c.by # "paste" => ~b)
    BY <1>2, <1>4, <1>9, <2>1
  <2>3. plans'[p].conflicts => c.by = "resolve" /\ plans'[p].policy = snap.policy
    BY <1>5, <1>7, <1>8, <2>1
  <2>4. ~\E k \in DOMAIN rest : rest[k].step = "starting" /\ rest[k].plan = p
    <3> SUFFICES ASSUME NEW k \in DOMAIN rest, rest[k].step = "starting", rest[k].plan = p PROVE FALSE
      OBVIOUS
    <3>1. p \in DOMAIN plans
      BY <1>4 DEF AllFit, CallFits
    <3> QED BY <1>2, <1>8, <3>1
  <2>5. /\ calls' \in Seq(CopyCall) /\ AllFit(calls', plans')
        /\ Len(calls') = Len(rest) + 1 /\ (c.by = "paste" => OneSubmit(calls', b))
        /\ c.by # "paste" => OneSubmit(calls', TRUE)
        /\ Awaits(rest) => Awaits(calls')
        /\ Cardinality(Asking(calls')) = Cardinality(Asking(rest))
    <3>1. c.by = "paste" \/ Fitting(snap, plans')
      BY <1>10
    <3>2. rest \in Seq(CopyCall) /\ snap \in Dialog /\ ~snap.planning /\ p \in DOMAIN plans'
      BY <1>4, <1>7, <1>8
    <3> DEFINE by == c.by
               r == Start(rest, by, snap, p)
    <3>4. by \in {"submit", "resolve", "paste"} /\ (by \in {"submit", "resolve"} => ~b)
      BY <2>1, <2>2
    <3>5. /\ p \in 1 .. MaxPlans /\ (by = "paste" \/ Fitting(snap, plans'))
          /\ plans'[p].conflicts => by = "resolve" /\ plans'[p].policy = snap.policy
      BY <1>6, <2>3, <3>1
    <3> HIDE DEF by
    <3>6. calls' = r
      BY <2>1 DEF by
    <3> HIDE DEF c, snap, p, b, rest
    <3>3. /\ r \in Seq(CopyCall) /\ AllFit(r, plans')
          /\ Len(r) = Len(rest) + 1
          /\ by = "paste" => OneSubmit(r, b)
          /\ by # "paste" => OneSubmit(r, TRUE)
          /\ Awaits(rest) => Awaits(r)
          /\ Cardinality(Asking(r)) = Cardinality(Asking(rest))
      <4> HIDE DEF r
      <4>1. /\ r \in Seq(CopyCall) /\ AllFit(r, plans')
            /\ Awaits(rest) => Awaits(r)
            /\ Cardinality(Asking(r)) = Cardinality(Asking(rest))
        <5>1. r \in Seq(CopyCall) /\ AllFit(r, plans')
          BY <2>2, <3>2, <3>4, <3>5, StartIs DEF r
        <5>2. Awaits(rest) => Awaits(r)
          BY <2>2, <3>2, <3>4, <3>5, StartIs DEF r
        <5>3. Cardinality(Asking(r)) = Cardinality(Asking(rest))
          BY <3>2, <3>4, <3>5, StartAsksNone DEF r
        <5> QED BY <5>1, <5>2, <5>3
      <4>2. /\ Len(r) = Len(rest) + 1
            /\ by = "paste" /\ OneSubmit(rest, TRUE) => OneSubmit(r, TRUE)
            /\ by = "paste" /\ OneSubmit(rest, FALSE) => OneSubmit(r, FALSE)
            /\ by # "paste" /\ OneSubmit(rest, FALSE) => OneSubmit(r, TRUE)
        BY <2>2, <2>4, <3>2, <3>4, <3>5, StartIs DEF r
      <4>3. CASE b = TRUE
        <5>1. OneSubmit(rest, TRUE) /\ by = "paste"
          BY <2>2, <3>4, <4>3
        <5>2. OneSubmit(r, b)
          BY <4>2, <4>3, <5>1
        <5> QED BY <4>1, <4>2, <5>1, <5>2
      <4>4. CASE b = FALSE
        <5>1. OneSubmit(rest, FALSE)
          BY <2>2, <4>4
        <5>2. by = "paste" => OneSubmit(r, b)
          BY <4>2, <4>4, <5>1
        <5> QED BY <4>1, <4>2, <5>1, <5>2
      <4> QED BY <2>2, <4>3, <4>4
    <3> HIDE DEF r
    <3> QED BY <3>3, <3>6 DEF by
  <2>6. submitting' = IF c.by = "paste" THEN b ELSE TRUE
    <3>1. CASE c.by = "paste"
      BY <1>1, <3>1
    <3>2. CASE c.by # "paste"
      <4>1. Len(calls') = Len(calls)
        BY <1>4, <2>5
      <4> QED BY <1>1, <2>1, <3>2, <4>1
    <3> QED BY <3>1, <3>2
  <2>7. OneSubmit(calls', submitting') /\ submitting' \in BOOLEAN
    BY <2>2, <2>5, <2>6
  <2>8. dialog' \in Dialog /\ Fitting(dialog', plans') /\ (dialog'.planning => Awaits(calls'))
    <3>1. CASE c.by = "paste"
      <4>1. dialog' = dialog /\ ~Awaited(c)
        BY <2>1, <3>1 DEF Awaited
      <4> QED BY <1>2, <1>4, <1>9, <2>5, <4>1 DEF CopyInv, DialogFits
    <3>2. CASE c.by # "paste"
      BY <1>7, <1>10, <2>1, <3>2
    <3> QED BY <3>1, <3>2
  <2>9. CopyTypes'
    BY <1>8, <1>11, <1>13, <1>14, <2>5, <2>7, <2>8 DEF CopyTypes
  <2> QED BY <1>12, <2>5, <2>7, <2>8, <2>9 DEF CopyInv, DialogFits
<1> QED BY <1>15, <1>16

\* The backend has not planned.
LEMMA PlanFailedKeeps ==
    ASSUME CopyInv, NEW i \in DOMAIN calls, PlanFailed(i)
    PROVE  CopyInv'
<1> DEFINE c == calls[i]
<1>1. /\ c.step = "planning" /\ calls' = RemoveAt(calls, i) /\ dialog' = Unplanned(c)
      /\ submitting' = (submitting /\ c.by \notin {"submit", "resolve"})
      /\ UNCHANGED <<plans, started, planned>>
  BY DEF PlanFailed
<1>2. /\ calls \in Seq(CopyCall) /\ submitting \in BOOLEAN /\ planned \in Nat /\ Len(plans) \in Nat
      /\ AllFit(calls, plans) /\ OneSubmit(calls, submitting)
  BY CopyConstants DEF CopyInv, CopyTypes
<1>3. c \in CopyCall /\ CallFits(c, plans) /\ c.snap \in Dialog
  BY <1>2, CallIs DEF AllFit
<1>4. /\ calls' \in Seq(CopyCall) /\ AllFit(calls', plans)
      /\ IF c.by \in {"submit", "resolve"} THEN OneSubmit(calls', FALSE) ELSE OneSubmit(calls', submitting)
      /\ Awaits(calls) /\ ~Awaited(c) => Awaits(calls')
      /\ Cardinality(Asking(calls')) \in Nat /\ Cardinality(Asking(calls)) \in Nat
      /\ Cardinality(Asking(calls')) <= Cardinality(Asking(calls)) - 1
  BY <1>1, <1>2, RestKeeps
<1>5. OneSubmit(calls', submitting') /\ submitting' \in BOOLEAN
  BY <1>1, <1>2, <1>4
<1>6. dialog' \in Dialog /\ Fitting(dialog', plans) /\ (dialog'.planning => Awaits(calls'))
  <2>1. CASE c.by = "paste"
    BY <1>1, <1>4, <2>1 DEF Unplanned, Awaited, CopyInv, CopyTypes, DialogFits
  <2>2. CASE c.by # "paste"
    <3>1. dialog' = [c.snap EXCEPT !.planning = FALSE] /\ Fitting(c.snap, plans)
      BY <1>1, <1>3, <2>2 DEF Unplanned, CallFits
    <3>2. dialog' \in Dialog /\ ~dialog'.planning /\ dialog'.plan = c.snap.plan /\ dialog'.dest = c.snap.dest
          /\ dialog'.policy = c.snap.policy
      BY <1>3, <3>1 DEF Dialog
    <3> QED BY <3>1, <3>2 DEF Fitting
  <2> QED BY <2>1, <2>2
<1>7. Len(plans) + Cardinality(Asking(calls')) <= planned
  <2> DEFINE n == Cardinality(Asking(calls))
             m == Cardinality(Asking(calls'))
  <2>1. n \in Nat /\ m \in Nat /\ m <= n - 1 /\ Len(plans) + n <= planned
    BY <1>4 DEF CopyInv, CopyTypes
  <2> HIDE DEF n, m
  <2>2. Len(plans) + m <= planned
    BY <1>2, <2>1
  <2> QED BY <2>2 DEF m
<1>8. CopyTypes'
  BY <1>1, <1>4, <1>5, <1>6, <1>7 DEF CopyInv, CopyTypes
<1> QED BY <1>1, <1>4, <1>5, <1>6, <1>8 DEF CopyInv, DialogFits, StartsFit

\* The operation of a plan was started, or not.
LEMMA StartAnsweredKeeps ==
    ASSUME CopyInv, NEW i \in DOMAIN calls, NEW ok \in BOOLEAN, StartAnswered(i, ok)
    PROVE  CopyInv'
<1> DEFINE c == calls[i]
<1>1. /\ c.step = "starting" /\ (ok => plans[c.plan].kept)
      /\ plans' = [plans EXCEPT ![c.plan].kept = FALSE]
      /\ started' = (IF ok THEN Append(started, c.plan) ELSE started)
      /\ dialog' = AfterStart(c, ok) /\ calls' = RemoveAt(calls, i)
      /\ submitting' = (submitting /\ c.by = "paste")
      /\ planned' = planned
  BY DEF StartAnswered, Taken
<1>2. /\ calls \in Seq(CopyCall) /\ submitting \in BOOLEAN /\ planned \in 0 .. MaxPlans /\ plans \in Seq(Plan)
      /\ started \in Seq(DOMAIN plans) /\ dialog \in Dialog /\ Len(plans) \in Nat
      /\ AllFit(calls, plans) /\ OneSubmit(calls, submitting)
  BY CopyConstants DEF CopyInv, CopyTypes
<1>3. /\ c \in CopyCall /\ CallFits(c, plans) /\ c.snap \in Dialog /\ c.by \in {"submit", "resolve", "paste"}
      /\ c.plan \in DOMAIN plans /\ ~c.snap.planning /\ (c.by # "paste" => Fitting(c.snap, plans))
  BY <1>1, <1>2, CallIs DEF AllFit, CallFits
<1>4. /\ calls' \in Seq(CopyCall) /\ AllFit(calls', plans)
      /\ IF c.by \in {"submit", "resolve"} THEN OneSubmit(calls', FALSE) ELSE OneSubmit(calls', submitting)
      /\ Awaits(calls) => Awaits(calls')
      /\ Cardinality(Asking(calls')) \in Nat /\ Cardinality(Asking(calls)) \in Nat
      /\ Cardinality(Asking(calls')) <= Cardinality(Asking(calls)) - 0
  <2>1. ~Awaited(c)
    BY <1>1 DEF Awaited
  <2> QED BY <1>1, <1>2, <2>1, RestKeeps
<1>5. OneSubmit(calls', submitting') /\ submitting' \in BOOLEAN
  BY <1>1, <1>2, <1>3, <1>4
<1>6. /\ plans' \in Seq(Plan) /\ DOMAIN plans' = DOMAIN plans /\ Len(plans') = Len(plans)
      /\ \A p \in DOMAIN plans : /\ plans'[p].dest = plans[p].dest /\ plans'[p].policy = plans[p].policy
                                 /\ plans'[p].conflicts = plans[p].conflicts
                                 /\ plans'[p].kept = (plans[p].kept /\ p # c.plan)
  <2> DEFINE taken == [plans[c.plan] EXCEPT !.kept = FALSE]
  <2>1. plans[c.plan] \in Plan
    BY <1>2, <1>3
  <2>2. /\ taken \in Plan /\ taken.dest = plans[c.plan].dest /\ taken.policy = plans[c.plan].policy
        /\ taken.conflicts = plans[c.plan].conflicts /\ taken.kept = FALSE
    BY <2>1 DEF Plan
  <2>3. plans' = [plans EXCEPT ![c.plan] = taken]
    BY <1>1
  <2> HIDE DEF taken, c
  <2>4. plans' \in Seq(Plan) /\ DOMAIN plans' = DOMAIN plans /\ Len(plans') = Len(plans)
    BY <1>2, <1>3, <2>2, <2>3
  <2>5. \A p \in DOMAIN plans : plans'[p] = IF p = c.plan THEN taken ELSE plans[p]
    BY <1>2, <2>3
  <2>6. \A p \in DOMAIN plans : plans[p].kept \in BOOLEAN
    <3> TAKE p \in DOMAIN plans
    <3>1. plans[p] \in Plan
      BY <1>2
    <3> QED BY <3>1 DEF Plan
  <2> QED BY <2>2, <2>4, <2>5, <2>6
<1>7. /\ \A d : Fitting(d, plans) => Fitting(d, plans')
      /\ \A cs : AllFit(cs, plans) => AllFit(cs, plans')
  BY <1>6, StillFits
<1>8. started' \in Seq(DOMAIN plans') /\ StartsFit'
  <2>1. \A k \in DOMAIN started : started[k] \in DOMAIN plans /\ ~plans[started[k]].kept
    BY <1>2 DEF CopyInv, StartsFit
  <2>2. CASE ok
    <3>1. started' = Append(started, c.plan) /\ \A k \in DOMAIN started : started[k] # c.plan
      BY <1>1, <2>1, <2>2
    <3> DEFINE n == Len(started) + 1
    <3> HIDE DEF c
    <3>2. /\ started' \in Seq(DOMAIN plans) /\ DOMAIN started' = DOMAIN started \cup {n} /\ started'[n] = c.plan
          /\ \A k \in DOMAIN started : started'[k] = started[k]
      BY <1>2, <1>3, <3>1
    <3> HIDE DEF n
    <3>3. \A k \in DOMAIN started' : ~plans'[started'[k]].kept
      BY <1>3, <1>6, <2>1, <3>2
    <3>4. IsInjective(started')
      BY <3>1, <3>2 DEF CopyInv, StartsFit, IsInjective
    <3> QED BY <1>6, <3>2, <3>3, <3>4 DEF StartsFit
  <2>3. CASE ~ok
    BY <1>1, <1>2, <1>6, <2>1, <2>3 DEF CopyInv, StartsFit
  <2> QED BY <2>2, <2>3
<1>9. dialog' \in Dialog /\ Fitting(dialog', plans') /\ (dialog'.planning => Awaits(calls'))
  <2>1. CASE dialog' = dialog
    BY <1>2, <1>4, <1>7, <2>1 DEF CopyInv, DialogFits
  <2>2. CASE dialog' = Closed
    <3>1. PICK d \in Destinations : TRUE
      BY CopyConstants
    <3> QED BY <2>2, <3>1, FormsFit DEF Policies
  <2>3. CASE dialog' = c.snap /\ c.by # "paste"
    BY <1>3, <1>7, <2>3
  <2> QED BY <1>1, <2>1, <2>2, <2>3 DEF AfterStart
<1>10. Len(plans') + Cardinality(Asking(calls')) <= planned'
  <2> DEFINE n == Cardinality(Asking(calls))
             m == Cardinality(Asking(calls'))
  <2>1. n \in Nat /\ m \in Nat /\ m <= n - 0 /\ Len(plans) + n <= planned
    BY <1>4 DEF CopyInv, CopyTypes
  <2> HIDE DEF n, m
  <2>2. Len(plans') + m <= planned'
    BY <1>1, <1>2, <1>6, <2>1
  <2> QED BY <2>2 DEF m
<1>11. CopyTypes'
  BY <1>1, <1>2, <1>4, <1>5, <1>6, <1>8, <1>9, <1>10 DEF CopyTypes
<1> QED BY <1>4, <1>5, <1>7, <1>8, <1>9, <1>11 DEF CopyInv, DialogFits

\* The form is submitted: for a plan of it, or with its plan.
LEMMA SubmitKeeps ==
    ASSUME CopyInv, SubmitForm
    PROVE  CopyInv'
<1>1. /\ calls \in Seq(CopyCall) /\ dialog \in Dialog /\ submitting = FALSE /\ ~dialog.planning
      /\ Fitting(dialog, plans) /\ AllFit(calls, plans) /\ OneSubmit(calls, FALSE)
      /\ planned \in 0 .. MaxPlans /\ Len(plans) \in Nat /\ DOMAIN plans = 1 .. Len(plans)
      /\ Len(plans) + Cardinality(Asking(calls)) <= planned /\ MaxPlans \in Nat
  <2>1. submitting = FALSE /\ ~dialog.planning
    BY DEF SubmitForm, CopyInv, CopyTypes
  <2>2. plans \in Seq(Plan)
    BY DEF CopyInv, CopyTypes
  <2>3. OneSubmit(calls, FALSE)
    BY <2>1 DEF CopyInv
  <2>4. /\ calls \in Seq(CopyCall) /\ dialog \in Dialog /\ planned \in 0 .. MaxPlans
        /\ Len(plans) + Cardinality(Asking(calls)) <= planned /\ Fitting(dialog, plans) /\ AllFit(calls, plans)
    BY DEF CopyInv, CopyTypes, DialogFits
  <2>5. Len(plans) \in Nat /\ DOMAIN plans = 1 .. Len(plans) /\ MaxPlans \in Nat
    BY <2>2, CopyConstants
  <2> QED BY <2>1, <2>3, <2>4, <2>5
<1>2. CASE dialog.plan = NoPlan /\ AskPlan("submit", dialog) /\ dialog' = [dialog EXCEPT !.planning = TRUE] /\ submitting' = TRUE
  <2>1. dialog' \in Dialog /\ dialog'.plan = NoPlan
    BY <1>1, <1>2 DEF Dialog
  <2>2. Fitting(dialog', plans)
    BY <2>1 DEF Fitting
  <2> QED BY <1>1, <1>2, <2>1, <2>2, AskKeeps
<1>3. CASE dialog.plan # NoPlan /\ plans[dialog.plan].conflicts
  <2>1. dialog' = [dialog EXCEPT !.step = "confirm"] /\ UNCHANGED <<calls, submitting, plans, started, planned>>
    BY <1>3 DEF SubmitForm
  <2>2. /\ dialog' \in Dialog /\ dialog'.plan = dialog.plan /\ dialog'.dest = dialog.dest
        /\ dialog'.policy = dialog.policy /\ dialog'.planning = dialog.planning
    BY <1>1, <2>1 DEF Dialog
  <2>3. Fitting(dialog', plans)
    BY <1>1, <2>2 DEF Fitting
  <2> QED BY <2>1, <2>2, <2>3, FormKeeps
<1>4. CASE dialog.plan # NoPlan /\ ~plans[dialog.plan].conflicts
  <2>1. /\ calls' = Start(calls, "submit", dialog, dialog.plan) /\ submitting' = (calls' # calls)
        /\ UNCHANGED <<dialog, plans, started, planned>>
    BY <1>4 DEF SubmitForm
  <2>2. dialog.plan \in DOMAIN plans /\ dialog.plan \in 1 .. MaxPlans
    BY <1>1, <1>4 DEF Fitting, Dialog, NoPlan
  <2>3. /\ calls' \in Seq(CopyCall) /\ AllFit(calls', plans)
        /\ \/ calls' = calls
           \/ Len(calls') = Len(calls) + 1 /\ Len(calls) \in Nat /\ OneSubmit(calls', TRUE)
        /\ Awaits(calls) => Awaits(calls')
        /\ Cardinality(Asking(calls')) = Cardinality(Asking(calls))
    <3> DEFINE p == dialog.plan
               r == Start(calls, "submit", dialog, p)
    <3>1. p \in 1 .. MaxPlans /\ p \in DOMAIN plans /\ ~plans[p].conflicts
      BY <1>4, <2>2
    <3> HIDE DEF p
    <3>2. /\ r \in Seq(CopyCall) /\ AllFit(r, plans)
          /\ Awaits(calls) => Awaits(r)
      BY <1>1, <3>1, StartIs
    <3>3. r = calls \/ (Len(r) = Len(calls) + 1 /\ Len(calls) \in Nat /\ OneSubmit(r, TRUE))
      BY <1>1, <3>1, StartSubmits
    <3>5. Cardinality(Asking(r)) = Cardinality(Asking(calls))
      BY <1>1, <3>1, StartAsksNone
    <3>4. calls' = r
      BY <2>1 DEF p
    <3> HIDE DEF r
    <3> QED BY <3>2, <3>3, <3>4, <3>5
  <2>4. OneSubmit(calls', submitting') /\ submitting' \in BOOLEAN
    <3>1. CASE calls' = calls
      <4>1. submitting' = FALSE
        BY <2>1, <3>1
      <4> QED BY <1>1, <3>1, <4>1
    <3>2. CASE Len(calls') = Len(calls) + 1 /\ Len(calls) \in Nat /\ OneSubmit(calls', TRUE)
      <4>1. Len(calls') # Len(calls)
        BY <3>2
      <4>2. calls' # calls
        BY <4>1
      <4>3. submitting' = TRUE
        BY <2>1, <4>2
      <4> QED BY <3>2, <4>3
    <3> QED BY <2>3, <3>1, <3>2
  <2>5. CopyTypes'
    BY <1>1, <2>1, <2>3, <2>4 DEF CopyInv, CopyTypes
  <2>6. StartsFit' /\ DialogFits'
    BY <1>1, <2>1 DEF CopyInv, StartsFit, DialogFits
  <2>7. AllFit(calls', plans')
    BY <2>1, <2>3
  <2> QED BY <2>4, <2>5, <2>6, <2>7 DEF CopyInv
<1> QED BY <1>2, <1>3, <1>4 DEF SubmitForm

\* What the user does to the form, and the plans asked for.
LEMMA UserKeeps ==
    ASSUME CopyInv
    PROVE  /\ \A d \in Destinations, policy \in Policies : OpenDialog(d, policy) => CopyInv'
           /\ EditDialog \/ CancelDialog \/ BackFromConflicts \/ PlanButton => CopyInv'
           /\ \A action \in {"overwrite", "renameNew"} : Resolve(action) => CopyInv'
           /\ \A d \in Destinations : Paste(d) => CopyInv'
<1>1. dialog \in Dialog /\ Fitting(dialog, plans) /\ "fail" \in Policies /\ {"overwrite", "renameNew"} \subseteq Policies
  BY DEF CopyInv, CopyTypes, DialogFits, Policies
<1>2. ASSUME NEW d \in Destinations, NEW policy \in Policies, OpenDialog(d, policy) PROVE CopyInv'
  <2>1. dialog' = Form(d, policy) /\ UNCHANGED <<calls, submitting, plans, started, planned>>
    BY <1>2 DEF OpenDialog
  <2>2. Form(d, policy) \in Dialog /\ ~Form(d, policy).planning /\ Fitting(Form(d, policy), plans)
    BY FormsFit
  <2> QED BY <2>1, <2>2, FormKeeps
<1>3. CASE EditDialog
  <2>1. PICK d \in Destinations, policy \in Policies, preview \in BOOLEAN :
            dialog' = [[dialog EXCEPT !.dest = d, !.policy = policy, !.preview = preview] EXCEPT !.plan = NoPlan]
    BY <1>3 DEF EditDialog, Edited
  <2>2. UNCHANGED <<calls, submitting, plans, started, planned>>
    BY <1>3 DEF EditDialog
  <2>3. NoPlan \in 0 .. MaxPlans
    BY CopyConstants DEF NoPlan
  <2>4. dialog' \in Dialog /\ dialog'.plan = NoPlan /\ dialog'.planning = dialog.planning
    BY <1>1, <2>1, <2>3 DEF Dialog
  <2>5. Fitting(dialog', plans)
    BY <2>4 DEF Fitting
  <2> QED BY <2>2, <2>4, <2>5, FormKeeps
<1>4. CASE CancelDialog
  <2>1. dialog' = Closed /\ UNCHANGED <<calls, submitting, plans, started, planned>>
    BY <1>4 DEF CancelDialog
  <2>2. PICK d \in Destinations : TRUE
    BY CopyConstants
  <2>3. Closed \in Dialog /\ ~Closed.planning /\ Fitting(Closed, plans)
    BY <1>1, <2>2, FormsFit
  <2> QED BY <2>1, <2>3, FormKeeps
<1>5. CASE BackFromConflicts
  <2>1. dialog' = [dialog EXCEPT !.step = "review"] /\ UNCHANGED <<calls, submitting, plans, started, planned>>
    BY <1>5 DEF BackFromConflicts
  <2>2. /\ dialog' \in Dialog /\ dialog'.plan = dialog.plan /\ dialog'.dest = dialog.dest
        /\ dialog'.policy = dialog.policy /\ dialog'.planning = dialog.planning
    BY <1>1, <2>1 DEF Dialog
  <2>3. Fitting(dialog', plans)
    BY <1>1, <2>2 DEF Fitting
  <2> QED BY <2>1, <2>2, <2>3, FormKeeps
<1>6. CASE PlanButton
  <2>1. AskPlan("plan", dialog) /\ ~dialog.planning /\ dialog' = [dialog EXCEPT !.planning = TRUE] /\ submitting' = submitting
    BY <1>6 DEF PlanButton
  <2>2. /\ dialog' \in Dialog /\ dialog'.plan = dialog.plan /\ dialog'.dest = dialog.dest
        /\ dialog'.policy = dialog.policy
    BY <1>1, <2>1 DEF Dialog
  <2>3. Fitting(dialog', plans)
    BY <1>1, <2>2 DEF Fitting
  <2> QED BY <1>1, <2>1, <2>2, <2>3, AskKeeps
<1>7. ASSUME NEW action \in {"overwrite", "renameNew"}, Resolve(action) PROVE CopyInv'
  <2> DEFINE snap == [dialog EXCEPT !.policy = action, !.plan = NoPlan]
  <2>1. /\ AskPlan("resolve", snap) /\ ~dialog.planning /\ ~submitting /\ submitting' = TRUE
        /\ dialog' = [snap EXCEPT !.planning = TRUE]
    BY <1>7 DEF Resolve
  <2>2. NoPlan \in 0 .. MaxPlans
    BY CopyConstants DEF NoPlan
  <2>3. snap \in Dialog /\ snap.plan = NoPlan /\ snap.planning = dialog.planning
    BY <1>1, <2>2 DEF Dialog
  <2> HIDE DEF snap
  <2>4. dialog' \in Dialog /\ dialog'.plan = NoPlan
    BY <2>1, <2>3 DEF Dialog
  <2>5. Fitting(snap, plans) /\ Fitting(dialog', plans)
    BY <2>3, <2>4 DEF Fitting
  <2> QED BY <2>1, <2>3, <2>4, <2>5, AskKeeps
<1>8. ASSUME NEW d \in Destinations, Paste(d) PROVE CopyInv'
  <2> DEFINE form == Form(d, "fail")
             snap == [form EXCEPT !.step = "confirm"]
  <2>1. AskPlan("paste", snap) /\ UNCHANGED <<dialog, submitting>>
    BY <1>8 DEF Paste
  <2>2. form \in Dialog /\ ~form.planning /\ form.plan = NoPlan
    <3>1. form \in Dialog /\ ~form.planning
      BY <1>1, FormsFit
    <3> QED BY <3>1 DEF Form
  <2> HIDE DEF form
  <2>3. snap \in Dialog /\ ~snap.planning /\ snap.plan = NoPlan
    BY <2>2 DEF Dialog
  <2> HIDE DEF snap
  <2>4. Fitting(snap, plans)
    BY <2>3 DEF Fitting
  <2> QED BY <1>1, <2>1, <2>3, <2>4, AskKeeps
<1> QED BY <1>2, <1>3, <1>4, <1>5, <1>6, <1>7, <1>8

\* Every step of the copy dialog keeps its invariant.
LEMMA CopyKeeps ==
    ASSUME CopyInv, [CopyNext]_copyVars
    PROVE  CopyInv'
<1>1. CASE UNCHANGED copyVars
  <2>1. UNCHANGED <<dialog, calls, submitting, plans, started, planned>>
    BY <1>1 DEF copyVars
  <2>2. dialog' \in Dialog /\ Fitting(dialog', plans) /\ (dialog'.planning => dialog.planning)
    BY <2>1 DEF CopyInv, CopyTypes, DialogFits
  <2> QED BY <2>1, <2>2, FormKeeps
<1>2. ASSUME NEW i \in DOMAIN calls, NEW b \in BOOLEAN, PlanAnswered(i, b) \/ StartAnswered(i, b) \/ PlanFailed(i)
      PROVE  CopyInv'
  BY <1>2, PlanAnsweredKeeps, StartAnsweredKeeps, PlanFailedKeeps
<1>3. ASSUME NEW i \in DOMAIN calls, PlanFailed(i) PROVE CopyInv'
  BY <1>3, PlanFailedKeeps
<1> QED BY <1>1, <1>2, <1>3, SubmitKeeps, UserKeeps DEF CopyNext

\* At the start no dialog is open and nothing is under way.
LEMMA CopyStarts ==
    ASSUME CopyInit
    PROVE  CopyInv
<1>1. dialog \in Dialog /\ ~dialog.planning /\ Fitting(dialog, plans)
  <2>1. PICK d \in Destinations : TRUE
    BY CopyConstants
  <2> QED BY <2>1, FormsFit DEF CopyInit, Policies
<1>2. /\ calls = <<>> /\ plans = <<>> /\ started = <<>> /\ submitting = FALSE /\ planned = 0
      /\ DOMAIN calls = {} /\ DOMAIN plans = {} /\ DOMAIN started = {} /\ Len(plans) = 0
  BY DEF CopyInit
<1>3. Asking(calls) = {} /\ Submits(calls) = {}
  BY <1>2 DEF Asking, Those, Submits
<1>4. Cardinality(Asking(calls)) = 0
  BY <1>3, FS_EmptySet
<1>5. calls \in Seq(CopyCall) /\ plans \in Seq(Plan) /\ started \in Seq(DOMAIN plans)
  BY <1>2
<1>6. Len(plans) + Cardinality(Asking(calls)) <= planned /\ planned \in 0 .. MaxPlans
  BY <1>2, <1>4, CopyConstants
<1>7. CopyTypes
  BY <1>1, <1>2, <1>5, <1>6 DEF CopyTypes
<1>8. StartsFit /\ DialogFits /\ AllFit(calls, plans) /\ OneSubmit(calls, submitting)
  BY <1>1, <1>2, <1>3 DEF StartsFit, DialogFits, AllFit, OneSubmit, IsInjective
<1> QED BY <1>7, <1>8 DEF CopyInv

\* What the invariant says of the dialog.
LEMMA CopyIsTrue ==
    ASSUME CopyInv
    PROVE  CopyTypeOK /\ PlansAsAsked /\ PlanningEnds
<1>1. PlanFits
  BY DEF CopyInv, DialogFits, Fitting, PlanFits
<1>2. AskedBeforeReplacing
  BY DEF CopyInv, AllFit, CallFits, AskedBeforeReplacing
<1>3. StartedOnce
  BY DEF CopyInv, StartsFit, StartedOnce
<1>4. PlanningEnds
  <2> SUFFICES ASSUME calls = <<>> PROVE ~dialog.planning /\ ~submitting
    BY DEF PlanningEnds
  <2>1. ~Awaits(calls) /\ Submits(calls) = {}
    BY DEF Awaits, Submits
  <2> QED BY <2>1 DEF CopyInv, DialogFits, OneSubmit
<1>5. Cardinality(Submits(calls)) = IF submitting THEN 1 ELSE 0
  <2>1. CASE Submits(calls) = {}
    BY <2>1, FS_EmptySet DEF CopyInv, OneSubmit
  <2>2. CASE Submits(calls) # {}
    <3>1. PICK i \in Submits(calls) : TRUE
      BY <2>2
    <3>2. Submits(calls) = {i}
      BY <3>1 DEF CopyInv, OneSubmit
    <3>3. Cardinality({i}) = 1
      BY FS_Singleton
    <3> QED BY <2>2, <3>2, <3>3 DEF CopyInv, OneSubmit
  <2> QED BY <2>1, <2>2
<1>6. Len(plans) <= planned /\ planned <= MaxPlans
  <2> DEFINE n == Cardinality(Asking(calls))
  <2>1. calls \in Seq(CopyCall) /\ Len(plans) \in Nat /\ planned \in 0 .. MaxPlans /\ MaxPlans \in Nat /\ Len(plans) + n <= planned
    BY CopyConstants DEF CopyInv, CopyTypes
  <2>2. n \in Nat
    <3>1. DOMAIN calls = 1 .. Len(calls) /\ Len(calls) \in Nat
      BY <2>1
    <3>2. IsFiniteSet(DOMAIN calls) /\ Asking(calls) \in SUBSET DOMAIN calls
      BY <3>1, FS_Interval DEF Asking, Those
    <3>3. IsFiniteSet(Asking(calls))
      BY <3>2, FS_Subset
    <3> QED BY <3>3, FS_CardinalityType
  <2> HIDE DEF n
  <2> QED BY <2>1, <2>2
<1>7. CopyTypeOK
  BY <1>5, <1>6 DEF CopyInv, CopyTypes, CopyTypeOK, Submits
<1> QED BY <1>1, <1>2, <1>3, <1>4, <1>7 DEF PlansAsAsked

-----------------------------------------------------------------------------
(* The dialog of the servers: its invariant.                               *)

TestOf   == [status : {"idle", "testing", "answered"}, of : Ids \cup {Unsaved_},
             key : Keys \cup {NoKey}, offer : BOOLEAN]
ServerForm == [open : BOOLEAN, id : Ids \cup {Unsaved_}, host : Hosts \cup {NoHost}, login : Logins,
               path : Paths, secret : BOOLEAN, saving : BOOLEAN, test : TestOf, draft : Nat, own : Paths]
Lists    == UNION {[S -> Row] : S \in SUBSET Ids}
Tests    == {"test", "testDraft", "trust"}
Ghosts   == [acts : Nat, drafts : Seq(Nat), halfSaved : BOOLEAN, unlisted : BOOLEAN,
             mixed : BOOLEAN, crossed : BOOLEAN]
ServerCall ==
    [kind : {"save", "test", "testDraft", "trust", "forget", "remove", "connect", "disconnect"},
     id : Ids \cup {Unsaved_}, at : {"write", "secret", "list", "answer"}, form : ServerForm,
     key : Keys \cup {NoKey}, list : Lists, relist : BOOLEAN, ok : BOOLEAN, offer : BOOLEAN,
     row : Row \cup {<<>>}]

\* What a call is about, and what it has when it has written.
CallIsFit(c) ==
    /\ c.kind = "save" => c.form.host \in Hosts
    /\ c.kind \notin {"save", "testDraft"} => c.id \in Ids
    /\ c.kind = "save" /\ c.ok /\ c.at # "write" => c.id \in Ids /\ c.row \in Row
    /\ c.relist => c.at = "answer"
    /\ c.at # "answer" => c.ok
CallsFit(cs) == \A i \in DOMAIN cs : CallIsFit(cs[i])

ServerTypes ==
    /\ servers \in Lists /\ listed \in Lists /\ localList \in Lists
    /\ challenges \in [Ids -> Keys \cup {NoKey}]
    /\ server \in ServerForm /\ looking \in {"off", "empty", "filled"} /\ busyServers \subseteq Ids
    /\ serverCalls \in Seq(ServerCall) /\ CallsFit(serverCalls) /\ seen \in Ghosts

\* The saves under way: one at most, and exactly when the dialog knows of it.
SavesOf(cs) == {i \in DOMAIN cs : cs[i].kind = "save"}
OneSave(cs, s) ==
    /\ \A i, k \in SavesOf(cs) : i = k
    /\ s.saving <=> SavesOf(cs) # {}

\* Who shows that something is under way waits for a call.
WaitsFit(s, cs, busy) ==
    /\ s.test.status = "testing" => \E i \in DOMAIN cs : cs[i].kind \in Tests
    /\ \A id \in busy : \E i \in DOMAIN cs : cs[i].kind \in {"connect", "disconnect"} /\ cs[i].id = id

\* A form has the number of one that began no later; one that was saved is no longer new,
\* or its answer is on the way and will load the server over it.
Numbered(drafts) == \A i \in DOMAIN drafts : drafts[i] < i
DraftSaved(s, cs, local, drafts) ==
    s.open /\ s.draft \in Range(drafts) =>
        \/ s.id \in DOMAIN local
        \/ \E i \in DOMAIN cs : cs[i].kind = "save" /\ cs[i].ok /\ cs[i].at # "write"
DraftsFit(cs, drafts, half) ==
    \A i \in DOMAIN cs : cs[i].form.draft <= Len(drafts)
        /\ (cs[i].kind = "save" /\ cs[i].at = "write" /\ cs[i].id = Unsaved_ /\ ~half
              => cs[i].form.draft \notin Range(drafts))

\* What is in the table is listed, or a call under way will list it, or has it.
Listings(ss, ls, cs) ==
    \/ \E i \in DOMAIN cs : cs[i].at \in {"secret", "list"}
    \/ \E i \in DOMAIN cs : cs[i].relist /\ cs[i].list = ss
    \/ ls = ss /\ \A i \in DOMAIN cs : ~cs[i].relist
ListsFit(ss, ls, cs, g) ==
    ~g.halfSaved /\ ~g.unlisted /\ ~g.mixed =>
        /\ \A i, k \in DOMAIN cs : cs[i].relist /\ cs[k].relist => i = k
        /\ Listings(ss, ls, cs)

SearchFits == looking = "empty" => server.path = ""

ServerInv ==
    /\ ServerTypes /\ OneSave(serverCalls, server)
    /\ WaitsFit(server, serverCalls, busyServers)
    /\ PinsTrue /\ TestFits /\ PathKept /\ SearchFits
    /\ Numbered(seen.drafts) /\ SavedOnce /\ server.draft <= Len(seen.drafts)
    /\ ~seen.halfSaved => DraftSaved(server, serverCalls, localList, seen.drafts)
    /\ DraftsFit(serverCalls, seen.drafts, seen.halfSaved)
    /\ ListsFit(servers, listed, serverCalls, seen)

\* Lists of servers.
LEMMA ListsAre ==
    /\ \A s \in Lists : Listing(s) /\ DOMAIN s \subseteq Ids /\ \A id \in DOMAIN s : s[id] \in Row
    /\ <<>> \in Lists /\ DOMAIN <<>> = {}
    /\ \A S \in SUBSET Ids : \A s \in [S -> Row] : s \in Lists
    /\ Ids \subseteq Nat /\ Unsaved_ \notin Ids /\ 1 \in Ids /\ 2 \in Ids
<1>1. \A s \in Lists : Listing(s) /\ DOMAIN s \subseteq Ids /\ \A id \in DOMAIN s : s[id] \in Row
  BY DEF Lists, Listing
<1>2. <<>> \in [{} -> Row] /\ DOMAIN <<>> = {}
  OBVIOUS
<1>3. Ids \subseteq Nat /\ Unsaved_ \notin Ids /\ 1 \in Ids /\ 2 \in Ids
  BY ServerConstants DEF Ids, Unsaved_
<1> QED BY <1>1, <1>2, <1>3 DEF Lists

\* A list with one server more, or with another row for one.
LEMMA ListMore ==
    ASSUME NEW s \in Lists, NEW id \in Ids, NEW row \in Row
    PROVE  /\ With(s, id, row) \in Lists /\ DOMAIN With(s, id, row) = DOMAIN s \cup {id}
           /\ With(s, id, row)[id] = row
           /\ \A k \in DOMAIN s : k # id => With(s, id, row)[k] = s[k]
<1>1. PICK S \in SUBSET Ids : s \in [S -> Row]
  BY DEF Lists
<1>2. With(s, id, row) \in [S \cup {id} -> Row]
  BY <1>1 DEF With
<1> QED BY <1>1, <1>2, ListsAre DEF With

\* A row of a list is replaced.
LEMMA ListSet ==
    ASSUME NEW s \in Lists, NEW id \in DOMAIN s, NEW row \in Row
    PROVE  /\ [s EXCEPT ![id] = row] \in Lists /\ DOMAIN [s EXCEPT ![id] = row] = DOMAIN s
           /\ [s EXCEPT ![id] = row][id] = row
           /\ \A k \in DOMAIN s : k # id => [s EXCEPT ![id] = row][k] = s[k]
<1>1. PICK S \in SUBSET Ids : s \in [S -> Row]
  BY DEF Lists
<1>2. [s EXCEPT ![id] = row] \in [S -> Row]
  BY <1>1
<1> QED BY <1>1, <1>2, ListsAre

\* A server is taken off a list.
LEMMA ListLess ==
    ASSUME NEW s \in Lists, NEW id
    PROVE  [k \in DOMAIN s \ {id} |-> s[k]] \in Lists
<1>1. [k \in DOMAIN s \ {id} |-> s[k]] \in [DOMAIN s \ {id} -> Row]
  BY ListsAre
<1> QED BY <1>1, ListsAre

\* The list of the dialog.
LEMMA ShownIs ==
    ASSUME localList \in Lists, listed \in Lists
    PROVE  /\ Shown \in Lists /\ DOMAIN Shown = DOMAIN localList \cup DOMAIN listed
           /\ CurrentProfile \in Ids \cup {Unsaved_}
           /\ CurrentProfile = Unsaved_ => server.id \notin DOMAIN Shown
<1>1. Shown \in [DOMAIN localList \cup DOMAIN listed -> Row]
  BY ListsAre DEF Shown
<1>2. Shown \in Lists /\ DOMAIN Shown = DOMAIN localList \cup DOMAIN listed
  BY <1>1, ListsAre
<1>3. DOMAIN Shown \subseteq Ids
  BY <1>2, ListsAre
<1> QED BY <1>2, <1>3, ListsAre DEF CurrentProfile

\* One call goes on.
LEMMA CallSet ==
    ASSUME NEW cs \in Seq(ServerCall), NEW i \in DOMAIN cs, NEW c \in ServerCall,
           NEW ds, ds = [cs EXCEPT ![i] = c]
    PROVE  /\ ds \in Seq(ServerCall) /\ DOMAIN ds = DOMAIN cs /\ ds[i] = c
           /\ \A k \in DOMAIN cs : k # i => ds[k] = cs[k]
           /\ CallsFit(cs) /\ CallIsFit(c) => CallsFit(ds)
           /\ c.kind = cs[i].kind => SavesOf(ds) = SavesOf(cs)
<1>1. ds \in Seq(ServerCall) /\ DOMAIN ds = DOMAIN cs /\ ds[i] = c
  OBVIOUS
<1>2. \A k \in DOMAIN cs : k # i => ds[k] = cs[k]
  OBVIOUS
<1>3. CallsFit(cs) /\ CallIsFit(c) => CallsFit(ds)
  BY <1>1, <1>2 DEF CallsFit
<1>4. c.kind = cs[i].kind => SavesOf(ds) = SavesOf(cs)
  BY <1>1, <1>2 DEF SavesOf
<1> QED BY <1>1, <1>2, <1>3, <1>4

\* A call goes on: the dialog waits for it as before.
LEMMA CallSetWaits ==
    ASSUME NEW cs \in Seq(ServerCall), NEW i \in DOMAIN cs, NEW c \in ServerCall,
           NEW ds, ds = [cs EXCEPT ![i] = c], c.kind = cs[i].kind, c.kind = "save" \/ c.id = cs[i].id,
           NEW s, NEW busy, WaitsFit(s, cs, busy)
    PROVE  WaitsFit(s, ds, busy)
<1>1. DOMAIN ds = DOMAIN cs /\ \A k \in DOMAIN cs : ds[k].kind = cs[k].kind
  BY CallSet
<1>2. \A k \in DOMAIN cs : cs[k].kind # "save" => ds[k].id = cs[k].id
  BY CallSet
<1> QED BY <1>1, <1>2 DEF WaitsFit

\* A call is made.
LEMMA CallMore ==
    ASSUME NEW cs \in Seq(ServerCall), NEW c \in ServerCall, NEW ds, ds = Append(cs, c)
    PROVE  /\ ds \in Seq(ServerCall) /\ Len(cs) \in Nat /\ DOMAIN ds = DOMAIN cs \cup {Len(cs) + 1}
           /\ Len(cs) + 1 \notin DOMAIN cs
           /\ ds[Len(cs) + 1] = c /\ \A k \in DOMAIN cs : ds[k] = cs[k]
           /\ CallsFit(cs) /\ CallIsFit(c) => CallsFit(ds)
<1>1. /\ ds \in Seq(ServerCall) /\ Len(cs) \in Nat /\ DOMAIN ds = DOMAIN cs \cup {Len(cs) + 1}
      /\ Len(cs) + 1 \notin DOMAIN cs
      /\ ds[Len(cs) + 1] = c /\ \A k \in DOMAIN cs : ds[k] = cs[k]
  OBVIOUS
<1>2. CallsFit(cs) /\ CallIsFit(c) => CallsFit(ds)
  BY <1>1 DEF CallsFit
<1> QED BY <1>1, <1>2

\* The search for keys is under way with no path only for a form that has none.
LEMMA SearchIs ==
    ASSUME NEW now, SearchFits, looking \in {"off", "empty", "filled"}
    PROVE  Search(now) \in {"off", "empty", "filled"} /\ (Search(now) = "empty" => now.path = "")
  BY DEF Search, SearchFits

\* A row is a form, and a form that is filled in is a row.
LEMMA RowsAre ==
    /\ \A row \in Row : row.host \in Hosts /\ row.login \in Logins /\ row.path \in Paths /\ row.pinned \in Keys \cup {NoKey}
    /\ \A f \in ServerForm : f.host \in Hosts => RowOf(f, NoKey) \in Row /\ RowOf(f, NoKey).pinned = NoKey
    /\ Hosts \subseteq Keys
  BY DEF Row, ServerForm, RowOf, Keys, Paths, Logins

\* What the user does to the form, and the end of the search, in terms of the form.
FormMoves(s, t, local, more) ==
    /\ t \in ServerForm /\ t.saving = s.saving
    /\ (t.test = s.test /\ t.id = s.id) \/ t.test = NoTest
    /\ \/ t.own = t.path
       \/ t.own = s.own /\ t.path = s.path
       \/ t.own = s.own /\ looking = "empty"
    /\ \/ t.open = s.open /\ t.id = s.id /\ t.draft = s.draft /\ more = local
       \/ t.open => t.draft = Len(seen.drafts)
    /\ t.draft \in {s.draft, Len(seen.drafts)}

\* What filling in the form changes.
LEMMA FormIs ==
    ASSUME ServerTypes, SearchFits,
           OpenServers \/ CloseServers \/ PickServer \/ FillIn \/ KeysFound
    PROVE  /\ FormMoves(server, server', localList, localList') /\ localList' \in Lists
           /\ looking' \in {"off", "empty", "filled"} /\ SearchFits'
           /\ UNCHANGED <<servers, challenges, listed, busyServers, serverCalls>>
           /\ seen' \in Ghosts /\ seen'.drafts = seen.drafts /\ seen'.halfSaved = seen.halfSaved
           /\ seen'.unlisted = seen.unlisted /\ seen'.mixed = seen.mixed /\ seen'.crossed = seen.crossed
<1>1. /\ server \in ServerForm /\ looking \in {"off", "empty", "filled"} /\ localList \in Lists
      /\ listed \in Lists /\ seen \in Ghosts
  BY DEF ServerTypes
<1>2. Len(seen.drafts) \in Nat
  BY <1>1 DEF Ghosts
<1>3. NoTest \in TestOf /\ Unsaved_ \in Ids \cup {Unsaved_} /\ "" \in Paths /\ "password" \in Logins
  BY DEF NoTest, TestOf, Unsaved_, Keys, NoKey, Paths, Logins
<1>4. ASSUME Becomes(server') PROVE looking' \in {"off", "empty", "filled"} /\ SearchFits'
  <2>1. looking' = Search(server')
    BY <1>4 DEF Becomes
  <2> QED BY <1>1, <2>1, SearchIs DEF SearchFits
<1>5. ASSUME Counts \/ UNCHANGED seen
      PROVE  /\ seen' \in Ghosts /\ seen'.drafts = seen.drafts /\ seen'.halfSaved = seen.halfSaved
             /\ seen'.unlisted = seen.unlisted /\ seen'.mixed = seen.mixed /\ seen'.crossed = seen.crossed
  BY <1>1, <1>5 DEF Counts, Ghosts
<1>6. \A h \in Hosts \cup {NoHost} :
          /\ LoadNew(h) \in ServerForm /\ LoadNew(h).saving = server.saving /\ LoadNew(h).test = NoTest
          /\ LoadNew(h).own = LoadNew(h).path /\ LoadNew(h).draft = Len(seen.drafts)
          /\ LoadNew(h).open = server.open
  BY <1>1, <1>2, <1>3 DEF LoadNew, ServerForm
<1>7. CASE OpenServers
  <2>1. PICK h \in {NoHost, 1} : Becomes([LoadNew(h) EXCEPT !.open = TRUE])
    BY <1>7 DEF OpenServers
  <2>2. h \in Hosts \cup {NoHost}
    BY DEF Hosts
  <2>3. server' = [LoadNew(h) EXCEPT !.open = TRUE]
    BY <2>1 DEF Becomes
  <2>4. /\ server' \in ServerForm /\ server'.saving = server.saving /\ server'.test = NoTest
        /\ server'.own = server'.path /\ server'.draft = Len(seen.drafts)
    <3> DEFINE l == LoadNew(h)
    <3>1. /\ l \in ServerForm /\ l.saving = server.saving /\ l.test = NoTest
          /\ l.own = l.path /\ l.draft = Len(seen.drafts)
      BY <1>6, <2>2
    <3>2. server' = [l EXCEPT !.open = TRUE]
      BY <2>3
    <3> HIDE DEF l
    <3> QED BY <3>1, <3>2 DEF ServerForm
  <2>5. FormMoves(server, server', localList, localList')
    BY <2>4 DEF FormMoves
  <2>6. Becomes(server')
    BY <2>1, <2>3
  <2>7. localList' = localList /\ Quiet /\ UNCHANGED serverCalls /\ Counts
    BY <1>7 DEF OpenServers
  <2> QED BY <1>1, <1>4, <1>5, <2>5, <2>6, <2>7 DEF Quiet
<1>8. CASE CloseServers
  <2>1. server' = [server EXCEPT !.open = FALSE] /\ Becomes(server') /\ localList' = <<>> /\ Quiet /\ UNCHANGED serverCalls /\ Counts
    BY <1>8 DEF CloseServers, Becomes
  <2>2. /\ server' \in ServerForm /\ server'.saving = server.saving /\ server'.test = server.test /\ server'.id = server.id
        /\ server'.own = server.own /\ server'.path = server.path /\ ~server'.open /\ server'.draft = server.draft
    BY <1>1, <2>1 DEF ServerForm
  <2>3. FormMoves(server, server', localList, localList')
    BY <2>2 DEF FormMoves
  <2> QED BY <1>4, <1>5, <2>1, <2>3, ListsAre DEF Quiet
<1>9. CASE PickServer
  <2>1. localList' = localList /\ Quiet /\ UNCHANGED serverCalls /\ Counts
    BY <1>9 DEF PickServer
  <2>2. CASE Becomes(LoadNew(NoHost))
    <3>1. server' = LoadNew(NoHost) /\ Becomes(server')
      BY <2>2 DEF Becomes
    <3>2. FormMoves(server, server', localList, localList')
      BY <1>6, <3>1 DEF FormMoves
    <3> QED BY <1>1, <1>4, <1>5, <2>1, <3>1, <3>2 DEF Quiet
  <2>3. ASSUME NEW id \in DOMAIN Shown, Becomes([LoadProfile(id, Shown[id]) EXCEPT !.draft = Len(seen.drafts)])
        PROVE  FormMoves(server, server', localList, localList') /\ Becomes(server')
    <3>1. id \in Ids /\ Shown[id] \in Row
      BY <1>1, ShownIs, ListsAre
    <3> DEFINE row == Shown[id]
    <3>2. row.host \in Hosts /\ row.login \in Logins /\ row.path \in Paths
      BY <3>1, RowsAre
    <3>3. server' = [LoadProfile(id, row) EXCEPT !.draft = Len(seen.drafts)] /\ Becomes(server')
      BY <2>3 DEF Becomes
    <3> HIDE DEF row
    <3>4. /\ server' \in ServerForm /\ server'.saving = server.saving /\ server'.test = NoTest
          /\ server'.own = server'.path /\ server'.draft = Len(seen.drafts)
      BY <1>1, <1>2, <1>3, <3>1, <3>2, <3>3 DEF LoadProfile, ServerForm
    <3> QED BY <3>3, <3>4 DEF FormMoves
  <2>4. FormMoves(server, server', localList, localList') /\ Becomes(server')
    <3>1. CASE Becomes(LoadNew(NoHost))
      <4>1. server' = LoadNew(NoHost) /\ Becomes(server')
        BY <3>1 DEF Becomes
      <4> QED BY <1>6, <4>1 DEF FormMoves
    <3> QED BY <1>9, <2>3, <3>1 DEF PickServer
  <2> QED BY <1>1, <1>4, <1>5, <2>1, <2>4 DEF Quiet
<1>10. CASE FillIn
  <2>1. localList' = localList /\ Quiet /\ UNCHANGED serverCalls /\ Counts
    BY <1>10 DEF FillIn
  <2> DEFINE Filled == /\ server' \in ServerForm /\ server'.saving = server.saving /\ server'.id = server.id
                       /\ server'.test = server.test \/ server'.test = NoTest
                       /\ (server'.own = server.own /\ server'.path = server.path) \/ server'.own = server'.path
                       /\ server'.open = server.open /\ server'.draft = server.draft /\ Becomes(server')
  <2>2. Filled
    <3>1. ASSUME NEW h \in Hosts, NEW b \in BOOLEAN, Becomes([server EXCEPT !.host = h, !.secret = b])
          PROVE  Filled
      BY <1>1, <3>1 DEF Becomes, ServerForm
    <3>2. ASSUME NEW p \in Paths, Becomes([server EXCEPT !.path = p, !.own = p])
          PROVE  Filled
      BY <1>1, <3>2 DEF Becomes, ServerForm
    <3>3. ASSUME NEW l \in Logins, Becomes([server EXCEPT !.login = l]) \/ Becomes([server EXCEPT !.login = l, !.test = NoTest])
          PROVE  Filled
      BY <1>1, <1>3, <3>3 DEF Becomes, ServerForm
    <3>4. {"password", "privateKey"} \subseteq Logins /\ {"password", "webdav"} \subseteq Logins
      BY DEF Logins
    <3> QED BY <1>10, <3>1, <3>2, <3>3, <3>4 DEF FillIn
  <2>3. FormMoves(server, server', localList, localList')
    BY <2>1, <2>2 DEF FormMoves
  <2> QED BY <1>1, <1>4, <1>5, <2>1, <2>2, <2>3 DEF Quiet
<1>11. CASE KeysFound
  <2>1. localList' = localList /\ Quiet /\ UNCHANGED <<serverCalls, seen>>
    BY <1>11 DEF KeysFound
  <2>2. CASE looking = "empty" /\ Becomes([server EXCEPT !.path = "found"])
    <3>1. server' = [server EXCEPT !.path = "found"] /\ Becomes(server')
      BY <2>2 DEF Becomes
    <3>2. /\ server' \in ServerForm /\ server'.saving = server.saving /\ server'.test = server.test /\ server'.id = server.id
          /\ server'.own = server.own /\ server'.open = server.open /\ server'.draft = server.draft
      BY <1>1, <3>1 DEF ServerForm, Paths
    <3>3. FormMoves(server, server', localList, localList')
      BY <2>1, <2>2, <3>2 DEF FormMoves
    <3> QED BY <1>1, <1>4, <1>5, <2>1, <3>1, <3>3 DEF Quiet
  <2>3. CASE looking' = "off" /\ UNCHANGED server
    <3>1. FormMoves(server, server', localList, localList') /\ SearchFits'
      BY <1>1, <2>1, <2>3 DEF FormMoves, SearchFits
    <3> QED BY <1>1, <1>5, <2>1, <2>3, <3>1 DEF Quiet
  <2> QED BY <1>11, <2>2, <2>3 DEF KeysFound
<1> QED BY <1>7, <1>8, <1>9, <1>10, <1>11

\* The numbers of drafts are those of earlier forms: no form that begins now is saved already.
LEMMA NewDraft ==
    ASSUME NEW drafts \in Seq(Nat), Numbered(drafts)
    PROVE  Len(drafts) \in Nat /\ Len(drafts) \notin Range(drafts)
<1>1. Len(drafts) \in Nat /\ DOMAIN drafts = 1 .. Len(drafts)
  OBVIOUS
<1>2. \A i \in DOMAIN drafts : drafts[i] # Len(drafts)
  BY <1>1 DEF Numbered
<1> QED BY <1>1, <1>2 DEF Range

\* What the user does to the form.
LEMMA FormStepKeeps ==
    ASSUME ServerInv, OpenServers \/ CloseServers \/ PickServer \/ FillIn \/ KeysFound
    PROVE  ServerInv'
<1>1. /\ FormMoves(server, server', localList, localList') /\ localList' \in Lists
      /\ looking' \in {"off", "empty", "filled"} /\ SearchFits'
      /\ UNCHANGED <<servers, challenges, listed, busyServers, serverCalls>>
      /\ seen' \in Ghosts /\ seen'.drafts = seen.drafts /\ seen'.halfSaved = seen.halfSaved
      /\ seen'.unlisted = seen.unlisted /\ seen'.mixed = seen.mixed /\ seen'.crossed = seen.crossed
  BY FormIs DEF ServerInv
<1>2. ServerTypes'
  BY <1>1 DEF ServerInv, ServerTypes, FormMoves
<1>3. OneSave(serverCalls', server')
  BY <1>1 DEF ServerInv, OneSave, FormMoves
<1>4. WaitsFit(server', serverCalls', busyServers')
  <2>1. server'.test.status = "testing" => server.test.status = "testing"
    BY <1>1 DEF FormMoves, NoTest
  <2> QED BY <1>1, <2>1 DEF ServerInv, WaitsFit
<1>5. TestFits'
  BY <1>1 DEF ServerInv, TestFits, FormMoves, NoTest
<1>6. PathKept'
  <2>1. looking = "empty" => server.own = "" \/ server.own = server.path
    BY DEF ServerInv, PathKept
  <2>2. CASE server'.own = server'.path
    BY <2>2 DEF PathKept
  <2>3. CASE server'.own = server.own /\ server'.path = server.path
    BY <2>3 DEF ServerInv, PathKept
  <2>4. CASE server'.own = server.own /\ looking = "empty"
    <3>1. server.path = ""
      BY <2>4 DEF ServerInv, SearchFits
    <3>2. server.own = ""
      BY <2>1, <2>4, <3>1
    <3> QED BY <2>4, <3>2 DEF PathKept
  <2> QED BY <1>1, <2>2, <2>3, <2>4 DEF FormMoves
<1>7. seen.drafts \in Seq(Nat) /\ Numbered(seen.drafts)
  BY DEF ServerInv, ServerTypes, Ghosts
<1>8. Numbered(seen'.drafts) /\ server'.draft <= Len(seen'.drafts)
  <2>1. server.draft <= Len(seen.drafts)
    BY DEF ServerInv
  <2> QED BY <1>1, <1>7, <2>1, NewDraft DEF FormMoves
<1>9. ~seen'.halfSaved => DraftSaved(server', serverCalls', localList', seen'.drafts)
  <2>1. CASE server'.open => server'.draft = Len(seen.drafts)
    BY <1>1, <1>7, <2>1, NewDraft DEF DraftSaved
  <2>2. CASE server'.open = server.open /\ server'.id = server.id /\ server'.draft = server.draft /\ localList' = localList
    BY <1>1, <2>2 DEF ServerInv, DraftSaved
  <2> QED BY <1>1, <2>1, <2>2 DEF FormMoves
<1>10. DraftsFit(serverCalls', seen'.drafts, seen'.halfSaved) /\ PinsTrue' /\ SavedOnce'
  BY <1>1 DEF ServerInv, PinsTrue, SavedOnce
<1>11. ListsFit(servers', listed', serverCalls', seen')
  BY <1>1 DEF ServerInv, ListsFit
<1> QED BY <1>1, <1>2, <1>3, <1>4, <1>5, <1>6, <1>8, <1>9, <1>10, <1>11 DEF ServerInv

-----------------------------------------------------------------------------
(* Calls are made.                                                         *)

\* A call as it is made
NewCall(c) ==
    /\ c \in ServerCall /\ c.at = "write" /\ ~c.relist /\ c.ok /\ c.form = server
    /\ c.kind = "save" => server.host \in Hosts /\ c.id = CurrentProfile /\ ~server.saving /\ server'.saving /\ server.open
    /\ c.kind \notin {"save", "testDraft"} => c.id \in Ids

MadeBy(c) ==
    /\ serverCalls' = Append(serverCalls, c)
    /\ server' \in ServerForm /\ (c.kind # "save" => server'.saving = server.saving)
    /\ server'.test.status = "testing" => server.test.status = "testing" \/ c.kind \in Tests
    /\ server'.test.status = "answered" => server'.test = server.test
    /\ server'.open = server.open /\ server'.id = server.id /\ server'.draft = server.draft
    /\ server'.own = server.own /\ server'.path = server.path
    /\ \A id \in busyServers' : id \in busyServers \/ (c.kind \in {"connect", "disconnect"} /\ c.id = id)
    /\ busyServers' \subseteq Ids
    /\ seen' \in Ghosts /\ seen'.drafts = seen.drafts /\ seen'.halfSaved = seen.halfSaved
    /\ seen'.unlisted = seen.unlisted /\ seen'.mixed = seen.mixed /\ seen'.crossed = seen.crossed
    /\ UNCHANGED <<servers, challenges, listed, localList, looking>>

\* Each button that calls the backend makes one such call.
LEMMA MadeIs ==
    ASSUME ServerTypes, SaveServer \/ TestServer \/ TrustKey \/ ForgetKey \/ UseSidebar
    PROVE  \E c : NewCall(c) /\ MadeBy(c)
<1>1. /\ server \in ServerForm /\ localList \in Lists /\ listed \in Lists /\ seen \in Ghosts
      /\ CurrentProfile \in Ids \cup {Unsaved_} /\ busyServers \subseteq Ids
  BY ShownIs DEF ServerTypes
<1> DEFINE Made(kind, id, key) ==
        [kind |-> kind, id |-> id, at |-> "write", form |-> server, key |-> key, list |-> <<>>,
         relist |-> FALSE, ok |-> TRUE, offer |-> FALSE, row |-> <<>>]
<1>2. ASSUME NEW kind \in {"save", "test", "testDraft", "trust", "forget", "remove", "connect", "disconnect"},
             NEW id \in Ids \cup {Unsaved_}, NEW key \in Keys \cup {NoKey}
      PROVE  /\ Made(kind, id, key) \in ServerCall /\ Made(kind, id, key).kind = kind /\ Made(kind, id, key).id = id
             /\ Made(kind, id, key).at = "write" /\ ~Made(kind, id, key).relist /\ Made(kind, id, key).ok
             /\ Made(kind, id, key).form = server
             /\ (Call(kind, id, key) <=> serverCalls' = Append(serverCalls, Made(kind, id, key)))
  BY <1>1, ListsAre DEF ServerCall, Call
<1>3. ASSUME Counts
      PROVE  /\ seen' \in Ghosts /\ seen'.drafts = seen.drafts /\ seen'.halfSaved = seen.halfSaved
             /\ seen'.unlisted = seen.unlisted /\ seen'.mixed = seen.mixed /\ seen'.crossed = seen.crossed
  BY <1>1, <1>3 DEF Counts, Ghosts
<1>4. Testing \in TestOf /\ Testing.status = "testing"
  BY DEF Testing, NoTest, TestOf, Unsaved_, NoKey, Keys
<1>5. server.test \in TestOf /\ server.test.key \in Keys \cup {NoKey} /\ NoKey \in Keys \cup {NoKey}
  BY <1>1 DEF ServerForm, TestOf
<1> HIDE DEF Made
<1>6. CASE SaveServer
  <2> DEFINE c == Made("save", CurrentProfile, NoKey)
  <2>1. /\ Call("save", CurrentProfile, NoKey) /\ server' = [server EXCEPT !.saving = TRUE] /\ server.host # NoHost
        /\ Counts /\ ~server.saving /\ server.open /\ UNCHANGED <<servers, challenges, listed, busyServers, localList, looking>>
    BY <1>6 DEF SaveServer, Quiet, Validate
  <2>2. /\ c \in ServerCall /\ c.kind = "save" /\ c.id = CurrentProfile /\ c.at = "write" /\ ~c.relist /\ c.ok /\ c.form = server
        /\ serverCalls' = Append(serverCalls, c)
    BY <1>1, <1>2, <1>5, <2>1
  <2>3. /\ server' \in ServerForm /\ server'.saving /\ server'.test = server.test /\ server.host \in Hosts
        /\ server'.open = server.open /\ server'.id = server.id /\ server'.draft = server.draft
        /\ server'.own = server.own /\ server'.path = server.path
    BY <1>1, <2>1 DEF ServerForm
  <2> HIDE DEF c
  <2>4. NewCall(c)
    BY <2>1, <2>2, <2>3 DEF NewCall
  <2>5. MadeBy(c)
    BY <1>1, <1>3, <2>1, <2>2, <2>3 DEF MadeBy
  <2> QED BY <2>4, <2>5
<1>7. ASSUME NEW kind \in Tests, NEW id \in Ids \cup {Unsaved_}, NEW key \in Keys \cup {NoKey}, kind # "testDraft" => id \in Ids,
             Call(kind, id, key), Counts, server' = [server EXCEPT !.test = Testing], Quiet, UNCHANGED <<localList, looking>>
      PROVE  \E c : NewCall(c) /\ MadeBy(c)
  <2> DEFINE c == Made(kind, id, key)
  <2>0. kind \in {"save", "test", "testDraft", "trust", "forget", "remove", "connect", "disconnect"} /\ kind # "save"
    BY DEF Tests
  <2>1. /\ c \in ServerCall /\ c.kind = kind /\ c.id = id /\ c.at = "write" /\ ~c.relist /\ c.ok /\ c.form = server
        /\ serverCalls' = Append(serverCalls, c) /\ UNCHANGED <<servers, challenges, listed, busyServers, localList, looking>>
    BY <1>2, <1>7, <2>0 DEF Quiet
  <2>2. /\ server' \in ServerForm /\ server'.saving = server.saving /\ server'.test.status = "testing"
        /\ server'.open = server.open /\ server'.id = server.id /\ server'.draft = server.draft
        /\ server'.own = server.own /\ server'.path = server.path
    BY <1>1, <1>4, <1>7 DEF ServerForm
  <2> HIDE DEF c
  <2>3. NewCall(c)
    BY <1>7, <2>0, <2>1 DEF NewCall
  <2>4. MadeBy(c)
    BY <1>1, <1>3, <1>7, <2>0, <2>1, <2>2 DEF MadeBy
  <2> QED BY <2>3, <2>4
<1>8. CASE TestServer
  BY <1>1, <1>5, <1>7, <1>8 DEF TestServer, Tests
<1>9. CASE TrustKey
  BY <1>1, <1>5, <1>7, <1>9 DEF TrustKey, Tests
<1>10. ASSUME NEW kind \in {"forget", "remove", "connect", "disconnect"}, NEW id \in Ids,
              Call(kind, id, NoKey), Counts, UNCHANGED <<servers, challenges, listed, server, localList, looking>>,
              busyServers' = busyServers \/ (kind \in {"connect", "disconnect"} /\ busyServers' = busyServers \cup {id})
       PROVE  \E c : NewCall(c) /\ MadeBy(c)
  <2> DEFINE c == Made(kind, id, NoKey)
  <2>1. /\ c \in ServerCall /\ c.kind = kind /\ c.id = id /\ c.at = "write" /\ ~c.relist /\ c.ok /\ c.form = server
        /\ serverCalls' = Append(serverCalls, c)
    BY <1>2, <1>5, <1>10
  <2> HIDE DEF c
  <2>2. kind # "save" /\ kind \notin Tests
    BY <1>10 DEF Tests
  <2>3. NewCall(c)
    BY <1>10, <2>1, <2>2 DEF NewCall
  <2>4. MadeBy(c)
    BY <1>1, <1>3, <1>10, <2>1, <2>2 DEF MadeBy
  <2> QED BY <2>3, <2>4
<1>11. CASE ForgetKey
  <2>1. CurrentProfile \in Ids
    BY <1>1, <1>11 DEF ForgetKey
  <2> QED BY <1>10, <1>11, <2>1 DEF ForgetKey, Quiet
<1>12. CASE UseSidebar
  <2>1. DOMAIN listed \subseteq Ids
    BY <1>1, ListsAre
  <2>2. PICK id \in DOMAIN listed :
            \/ Call("remove", id, NoKey) /\ UNCHANGED busyServers
            \/ \E kind \in {"connect", "disconnect"} : Call(kind, id, NoKey) /\ busyServers' = busyServers \cup {id}
    BY <1>12 DEF UseSidebar
  <2>3. Counts /\ UNCHANGED <<servers, challenges, listed, server, localList, looking>>
    BY <1>12 DEF UseSidebar
  <2> QED BY <1>10, <2>1, <2>2, <2>3
<1> QED BY <1>6, <1>8, <1>9, <1>11, <1>12

\* What the user asks for.
LEMMA MadeKeeps ==
    ASSUME ServerInv, SaveServer \/ TestServer \/ TrustKey \/ ForgetKey \/ UseSidebar
    PROVE  ServerInv'
<1>1. PICK c : NewCall(c) /\ MadeBy(c)
  BY MadeIs DEF ServerInv
<1>2. /\ server \in ServerForm /\ localList \in Lists /\ listed \in Lists /\ servers \in Lists
      /\ serverCalls \in Seq(ServerCall) /\ CallsFit(serverCalls) /\ seen.drafts \in Seq(Nat)
      /\ server.draft <= Len(seen.drafts)
  BY DEF ServerInv, ServerTypes, Ghosts
<1> DEFINE n == Len(serverCalls) + 1
<1>3. /\ c \in ServerCall /\ c.at = "write" /\ ~c.relist /\ c.ok /\ c.form = server
      /\ serverCalls' = Append(serverCalls, c)
  BY <1>1 DEF NewCall, MadeBy
<1>4. /\ serverCalls' \in Seq(ServerCall) /\ DOMAIN serverCalls' = DOMAIN serverCalls \cup {n} /\ n \notin DOMAIN serverCalls
      /\ serverCalls'[n] = c /\ \A k \in DOMAIN serverCalls : serverCalls'[k] = serverCalls[k]
      /\ CallsFit(serverCalls) /\ CallIsFit(c) => CallsFit(serverCalls')
      /\ c.kind # "save" => SavesOf(serverCalls') = SavesOf(serverCalls)
      /\ c.kind = "save" => SavesOf(serverCalls') = SavesOf(serverCalls) \cup {n}
  <2> DEFINE ds == serverCalls'
  <2>1. ds = Append(serverCalls, c)
    BY <1>3
  <2> HIDE DEF ds
  <2>2. /\ ds \in Seq(ServerCall) /\ DOMAIN ds = DOMAIN serverCalls \cup {n} /\ n \notin DOMAIN serverCalls
        /\ ds[n] = c /\ \A k \in DOMAIN serverCalls : ds[k] = serverCalls[k]
    BY <1>2, <1>3, <2>1, CallMore
  <2>3. CallsFit(serverCalls) /\ CallIsFit(c) => CallsFit(ds)
    BY <1>2, <1>3, <2>1, CallMore
  <2>4. /\ c.kind # "save" => SavesOf(ds) = SavesOf(serverCalls)
        /\ c.kind = "save" => SavesOf(ds) = SavesOf(serverCalls) \cup {n}
    BY <2>2 DEF SavesOf
  <2> QED BY <2>2, <2>3, <2>4 DEF ds
<1> HIDE DEF n
<1>5. CallIsFit(c)
  BY <1>1, <1>3 DEF NewCall, CallIsFit
<1>6. ServerTypes'
  BY <1>1, <1>2, <1>4, <1>5 DEF ServerInv, ServerTypes, MadeBy
<1>7. OneSave(serverCalls', server')
  <2>1. CASE c.kind = "save"
    <3>1. SavesOf(serverCalls) = {} /\ server'.saving
      BY <1>1, <2>1 DEF ServerInv, OneSave, NewCall
    <3> QED BY <1>4, <2>1, <3>1 DEF OneSave
  <2>2. CASE c.kind # "save"
    BY <1>1, <1>4, <2>2 DEF ServerInv, OneSave, MadeBy
  <2> QED BY <2>1, <2>2
<1>8. WaitsFit(server', serverCalls', busyServers')
  <2>1. server'.test.status = "testing" => \E i \in DOMAIN serverCalls' : serverCalls'[i].kind \in Tests
    BY <1>1, <1>4 DEF ServerInv, WaitsFit, MadeBy
  <2>2. ASSUME NEW id \in busyServers'
        PROVE  \E i \in DOMAIN serverCalls' : serverCalls'[i].kind \in {"connect", "disconnect"} /\ serverCalls'[i].id = id
    <3>1. id \in busyServers \/ (c.kind \in {"connect", "disconnect"} /\ c.id = id)
      BY <1>1 DEF MadeBy
    <3>2. CASE id \in busyServers
      BY <1>4, <3>2 DEF ServerInv, WaitsFit
    <3>3. CASE c.kind \in {"connect", "disconnect"} /\ c.id = id
      BY <1>4, <3>3
    <3> QED BY <3>1, <3>2, <3>3
  <2> QED BY <2>1, <2>2 DEF WaitsFit
<1>9. PinsTrue' /\ SavedOnce' /\ PathKept' /\ SearchFits' /\ TestFits'
  <2>1. PinsTrue' /\ SavedOnce'
    BY <1>1 DEF ServerInv, MadeBy, PinsTrue, SavedOnce
  <2>2. PathKept' /\ SearchFits'
    BY <1>1 DEF ServerInv, MadeBy, PathKept, SearchFits
  <2>3. TestFits'
    BY <1>1 DEF ServerInv, MadeBy, TestFits
  <2> QED BY <2>1, <2>2, <2>3
<1>10. Numbered(seen'.drafts) /\ server'.draft <= Len(seen'.drafts)
  BY <1>1 DEF ServerInv, MadeBy
<1>11. ~seen'.halfSaved => DraftSaved(server', serverCalls', localList', seen'.drafts)
  BY <1>1, <1>4 DEF ServerInv, MadeBy, DraftSaved
<1>12. DraftsFit(serverCalls', seen'.drafts, seen'.halfSaved)
  <2>1. DraftsFit(serverCalls, seen.drafts, seen.halfSaved) /\ seen'.drafts = seen.drafts /\ seen'.halfSaved = seen.halfSaved
    BY <1>1 DEF ServerInv, MadeBy
  <2>2. ASSUME c.kind = "save", c.id = Unsaved_, ~seen.halfSaved PROVE server.draft \notin Range(seen.drafts)
    <3>1. c.id = CurrentProfile /\ server.open /\ ~server.saving
      BY <1>1, <2>2 DEF NewCall
    <3>2. server.id \notin DOMAIN localList
      BY <1>2, <2>2, <3>1, ShownIs
    <3>3. SavesOf(serverCalls) = {}
      BY <3>1 DEF ServerInv, OneSave
    <3>4. ~\E i \in DOMAIN serverCalls : serverCalls[i].kind = "save"
      BY <3>3 DEF SavesOf
    <3> QED BY <2>2, <3>1, <3>2, <3>4 DEF ServerInv, DraftSaved
  <2>3. ASSUME NEW i \in DOMAIN serverCalls'
        PROVE  /\ serverCalls'[i].form.draft <= Len(seen.drafts)
               /\ serverCalls'[i].kind = "save" /\ serverCalls'[i].at = "write" /\ serverCalls'[i].id = Unsaved_ /\ ~seen.halfSaved
                    => serverCalls'[i].form.draft \notin Range(seen.drafts)
    <3>1. CASE i = n
      BY <1>2, <1>3, <1>4, <2>2, <3>1
    <3>2. CASE i \in DOMAIN serverCalls
      BY <1>4, <2>1, <3>2 DEF DraftsFit
    <3> QED BY <1>4, <3>1, <3>2
  <2> QED BY <2>1, <2>3 DEF DraftsFit
<1>13. ListsFit(servers', listed', serverCalls', seen')
  <2>1. /\ seen'.halfSaved = seen.halfSaved /\ seen'.unlisted = seen.unlisted /\ seen'.mixed = seen.mixed
        /\ servers' = servers /\ listed' = listed
    BY <1>1 DEF MadeBy
  <2>2. ASSUME ~seen.halfSaved, ~seen.unlisted, ~seen.mixed
        PROVE  /\ \A i, k \in DOMAIN serverCalls' : serverCalls'[i].relist /\ serverCalls'[k].relist => i = k
               /\ Listings(servers, listed, serverCalls')
    <3>1. /\ \A i, k \in DOMAIN serverCalls : serverCalls[i].relist /\ serverCalls[k].relist => i = k
          /\ Listings(servers, listed, serverCalls)
      BY <2>2 DEF ServerInv, ListsFit
    <3>2. \A i \in DOMAIN serverCalls' : serverCalls'[i].relist => i \in DOMAIN serverCalls
      BY <1>3, <1>4
    <3>3. \A i, k \in DOMAIN serverCalls' : serverCalls'[i].relist /\ serverCalls'[k].relist => i = k
      BY <1>4, <3>1, <3>2
    <3>4. Listings(servers, listed, serverCalls')
      BY <1>4, <3>1, <3>2 DEF Listings
    <3> QED BY <3>3, <3>4
  <2> QED BY <2>1, <2>2 DEF ListsFit
<1> QED BY <1>6, <1>7, <1>8, <1>9, <1>10, <1>11, <1>12, <1>13 DEF ServerInv

-----------------------------------------------------------------------------
(* Calls go on.                                                            *)

\* The pin of a row is none, the key of its host, or the one it had from the beginning.
PinTrue(id, row) ==
    row.pinned \in {NoKey, row.host} \/ (row.pinned = OldKey /\ id = 1 /\ row.host = 1)

Wrote(i, c) ==
    /\ c \in ServerCall /\ CallIsFit(c) /\ c.kind = serverCalls[i].kind /\ c.form = serverCalls[i].form
    /\ ~c.relist /\ c.at # "write" /\ serverCalls[i].at = "write"
    /\ c.kind = "save" \/ c.id = serverCalls[i].id
    /\ serverCalls' = [serverCalls EXCEPT ![i] = c]
    /\ servers' \in Lists /\ challenges' \in [Ids -> Keys \cup {NoKey}] /\ PinsTrue'
    /\ c.at = "answer" => servers' = servers
    /\ \/ seen' = seen
       \/ /\ c.kind = "save" /\ serverCalls[i].id = Unsaved_ /\ c.ok
          /\ seen' = [seen EXCEPT !.drafts = Append(@, c.form.draft)]
    /\ UNCHANGED <<listed, localList, server, looking, busyServers>>

\* The table, and its pins, when one row is written or taken out.
LEMMA PinsKeep ==
    ASSUME servers \in Lists, PinsTrue
    PROVE  /\ \A id \in Ids, row \in Row : PinTrue(id, row) /\ servers' = With(servers, id, row) => servers' \in Lists /\ PinsTrue'
           /\ \A id \in DOMAIN servers, row \in Row :
                  PinTrue(id, row) /\ servers' = [servers EXCEPT ![id] = row] => servers' \in Lists /\ PinsTrue'
           /\ \A id : servers' = [k \in DOMAIN servers \ {id} |-> servers[k]] => servers' \in Lists /\ PinsTrue'
           /\ servers' = servers => servers' \in Lists /\ PinsTrue'
           /\ \A id \in DOMAIN servers : PinTrue(id, servers[id])
<1>1. PinsTrue' <=> \A id \in DOMAIN servers' : PinTrue(id, servers'[id])
  BY DEF PinsTrue, PinTrue
<1>2. \A id \in DOMAIN servers : PinTrue(id, servers[id])
  BY DEF PinsTrue, PinTrue
<1>3. ASSUME NEW id \in Ids, NEW row \in Row, PinTrue(id, row), servers' = With(servers, id, row)
      PROVE  servers' \in Lists /\ PinsTrue'
  <2>1. /\ With(servers, id, row) \in Lists /\ DOMAIN With(servers, id, row) = DOMAIN servers \cup {id}
        /\ With(servers, id, row)[id] = row
        /\ \A k \in DOMAIN servers : k # id => With(servers, id, row)[k] = servers[k]
    BY ListMore
  <2>2. \A k \in DOMAIN servers' : PinTrue(k, servers'[k])
    BY <1>2, <1>3, <2>1
  <2> QED BY <1>1, <1>3, <2>1, <2>2
<1>4. ASSUME NEW id \in DOMAIN servers, NEW row \in Row, PinTrue(id, row), servers' = [servers EXCEPT ![id] = row]
      PROVE  servers' \in Lists /\ PinsTrue'
  <2>1. /\ servers' \in Lists /\ DOMAIN servers' = DOMAIN servers /\ servers'[id] = row
        /\ \A k \in DOMAIN servers : k # id => servers'[k] = servers[k]
    BY <1>4, ListSet
  <2> QED BY <1>1, <1>2, <1>4, <2>1
<1>5. ASSUME NEW id, servers' = [k \in DOMAIN servers \ {id} |-> servers[k]]
      PROVE  servers' \in Lists /\ PinsTrue'
  <2>1. servers' \in Lists
    BY <1>5, ListLess
  <2> QED BY <1>1, <1>2, <1>5, <2>1
<1>6. ASSUME servers' = servers PROVE servers' \in Lists /\ PinsTrue'
  BY <1>1, <1>2, <1>6
<1> QED BY <1>2, <1>3, <1>4, <1>5, <1>6

\* What a call writes in the backend.
LEMMA WrittenIs ==
    ASSUME ServerTypes, PinsTrue, NEW i \in DOMAIN serverCalls, WriteServer(i)
    PROVE  \E c : Wrote(i, c)
<1> DEFINE c == serverCalls[i]
<1>1. /\ c \in ServerCall /\ CallIsFit(c) /\ servers \in Lists /\ challenges \in [Ids -> Keys \cup {NoKey}] /\ seen \in Ghosts
      /\ c.at = "write" /\ c.ok /\ ~c.relist
  <2>1. c.at = "write"
    BY DEF WriteServer
  <2>2. c \in ServerCall /\ CallIsFit(c)
    BY DEF ServerTypes, CallsFit
  <2> QED BY <2>1, <2>2 DEF ServerTypes, CallIsFit
<1>2. /\ c.kind \in {"save", "test", "testDraft", "trust", "forget", "remove", "connect", "disconnect"}
      /\ c.id \in Ids \cup {Unsaved_} /\ c.form \in ServerForm /\ c.key \in Keys \cup {NoKey}
      /\ c.kind = "save" => c.form.host \in Hosts
      /\ c.kind \notin {"save", "testDraft"} => c.id \in Ids
      /\ Unsaved_ \notin Ids
  BY <1>1, ListsAre DEF ServerCall, CallIsFit
<1>3. UNCHANGED <<listed, localList, server, looking, busyServers>>
  BY DEF WriteServer
<1>4. \A f \in ServerForm : f.host \in Hosts => RowOf(f, NoKey) \in Row /\ RowOf(f, NoKey).pinned = NoKey
  BY RowsAre
<1>5. NextStep(c) = IF c.kind = "testDraft" THEN "answer"
                    ELSE IF c.kind = "save" /\ c.form.secret THEN "secret" ELSE "list"
  BY <1>1 DEF NextStep
<1>6. \A id : [challenges EXCEPT ![id] = NoKey] \in [Ids -> Keys \cup {NoKey}]
  BY <1>1
<1>7. \A id \in Ids, h \in Hosts : [challenges EXCEPT ![id] = h] \in [Ids -> Keys \cup {NoKey}]
  BY <1>1, RowsAre
<1>8. CASE c.kind = "save" /\ c.id = Unsaved_ /\ AddServer(i)
  <2> DEFINE id  == Len(seen.drafts) + 1
             row == RowOf(c.form, NoKey)
             d   == [c EXCEPT !.at = NextStep(c), !.id = id, !.row = row]
  <2>1. /\ id \in Ids /\ servers' = With(servers, id, row) /\ UNCHANGED challenges
        /\ seen' = [seen EXCEPT !.drafts = Append(@, c.form.draft)] /\ serverCalls' = [serverCalls EXCEPT ![i] = d]
    BY <1>8 DEF AddServer, Goes
  <2>2. row \in Row /\ row.pinned = NoKey
    BY <1>2, <1>4, <1>8
  <2> HIDE DEF id, row
  <2>3. servers' \in Lists /\ PinsTrue'
    BY <1>1, <2>1, <2>2, PinsKeep DEF PinTrue
  <2>4. NextStep(c) \in {"secret", "list"}
    BY <1>5, <1>8
  <2>5. /\ d \in ServerCall /\ d.kind = c.kind /\ d.form = c.form /\ d.relist = c.relist /\ d.ok = c.ok
        /\ d.at = NextStep(c) /\ d.id = id /\ d.row = row
    BY <1>1, <2>1, <2>2, <2>4 DEF ServerCall
  <2> HIDE DEF c, d
  <2>6. CallIsFit(d)
    BY <1>1, <1>2, <1>8, <2>1, <2>2, <2>5, <2>4 DEF CallIsFit
  <2>7. Wrote(i, d)
    BY <1>1, <1>3, <1>8, <2>1, <2>3, <2>4, <2>5, <2>6 DEF Wrote, c
  <2> QED BY <2>7
<1>9. CASE c.kind = "save" /\ c.id # Unsaved_ /\ UpdateServer(i, c.id)
  <2> DEFINE id  == c.id
             row == Unpinned(servers[id], RowOf(c.form, NoKey))
             d   == [c EXCEPT !.at = NextStep(c), !.row = row]
  <2>1. /\ id \in DOMAIN servers /\ servers' = [servers EXCEPT ![id] = row] /\ UNCHANGED seen
        /\ challenges' = IF row = servers[id] THEN challenges ELSE [challenges EXCEPT ![id] = NoKey]
        /\ serverCalls' = [serverCalls EXCEPT ![i] = d]
    BY <1>9 DEF UpdateServer, Goes
  <2>2. row \in Row /\ PinTrue(id, row)
    <3>1. RowOf(c.form, NoKey) \in Row /\ RowOf(c.form, NoKey).pinned = NoKey
      BY <1>2, <1>4, <1>9
    <3>2. servers[id] \in Row /\ PinTrue(id, servers[id])
      BY <1>1, <2>1, ListsAre, PinsKeep
    <3>3. row = servers[id] \/ row = RowOf(c.form, NoKey)
      BY DEF Unpinned
    <3> QED BY <3>1, <3>2, <3>3 DEF PinTrue
  <2> HIDE DEF row
  <2>3. servers' \in Lists /\ PinsTrue' /\ id \in Ids
    BY <1>1, <2>1, <2>2, PinsKeep, ListsAre
  <2>4. NextStep(c) \in {"secret", "list"}
    BY <1>5, <1>9
  <2>5. /\ d \in ServerCall /\ d.kind = c.kind /\ d.form = c.form /\ d.relist = c.relist /\ d.ok = c.ok
        /\ d.at = NextStep(c) /\ d.id = id /\ d.row = row
    BY <1>1, <2>1, <2>2, <2>4 DEF ServerCall
  <2>6. challenges' \in [Ids -> Keys \cup {NoKey}]
    BY <1>1, <1>6, <2>1
  <2> HIDE DEF c, d
  <2>7. CallIsFit(d)
    BY <1>1, <1>2, <1>9, <2>2, <2>3, <2>5, <2>4 DEF CallIsFit
  <2>8. Wrote(i, d)
    BY <1>1, <1>3, <1>9, <2>1, <2>3, <2>4, <2>5, <2>6, <2>7 DEF Wrote, c
  <2> QED BY <2>8
\* What a step that is not a save needs
<1>10. ASSUME NEW d \in ServerCall, d.kind = c.kind, d.form = c.form, ~d.relist, d.id = c.id, d.at \in {"list", "answer"},
              c.kind = "save" => ~d.ok /\ d.at = "answer",
              d.at = "list" => d.ok,
              d.at = "answer" => servers' = servers,
              serverCalls' = [serverCalls EXCEPT ![i] = d], servers' \in Lists, PinsTrue',
              challenges' \in [Ids -> Keys \cup {NoKey}], UNCHANGED seen
       PROVE  Wrote(i, d)
  <2> HIDE DEF c
  <2>1. CallIsFit(d)
    BY <1>1, <1>2, <1>10 DEF CallIsFit
  <2> QED BY <1>1, <1>3, <1>10, <2>1 DEF Wrote, c
<1>11. ASSUME Fails(i), UNCHANGED <<servers, challenges, seen>> PROVE \E d : Wrote(i, d)
  <2> DEFINE d == [c EXCEPT !.at = "answer", !.ok = FALSE]
  <2>1. /\ d \in ServerCall /\ d.kind = c.kind /\ d.form = c.form /\ ~d.relist /\ d.id = c.id /\ d.at = "answer" /\ ~d.ok
    BY <1>1 DEF ServerCall
  <2>2. serverCalls' = [serverCalls EXCEPT ![i] = d]
    BY <1>11 DEF Fails, Goes
  <2>3. servers' \in Lists /\ PinsTrue'
    BY <1>1, <1>11, PinsKeep
  <2> HIDE DEF d
  <2>4. Wrote(i, d)
    BY <1>1, <1>10, <1>11, <2>1, <2>2, <2>3
  <2> QED BY <2>4
<1>12. ASSUME c.kind # "save", NEW a \in {"list", "answer"}, NEW k \in Keys \cup {NoKey}, NEW o \in BOOLEAN,
              \/ serverCalls' = [serverCalls EXCEPT ![i] = [c EXCEPT !.at = a]]
              \/ serverCalls' = [serverCalls EXCEPT ![i] = [c EXCEPT !.at = a, !.key = k]]
              \/ serverCalls' = [serverCalls EXCEPT ![i] = [c EXCEPT !.at = a, !.key = k, !.offer = o]],
              a = "answer" => servers' = servers, servers' \in Lists, PinsTrue',
              challenges' \in [Ids -> Keys \cup {NoKey}], UNCHANGED seen
       PROVE  \E d : Wrote(i, d)
  <2> DEFINE Fine(d) == /\ d \in ServerCall /\ d.kind = c.kind /\ d.form = c.form /\ ~d.relist /\ d.id = c.id /\ d.at = a /\ d.ok
  <2>1. Fine([c EXCEPT !.at = a])
    BY <1>1 DEF ServerCall
  <2>2. Fine([c EXCEPT !.at = a, !.key = k])
    BY <1>1 DEF ServerCall
  <2>3. Fine([c EXCEPT !.at = a, !.key = k, !.offer = o])
    BY <1>1 DEF ServerCall
  <2>4. \E d : Fine(d) /\ serverCalls' = [serverCalls EXCEPT ![i] = d]
    <3> HIDE DEF Fine, c
    <3> QED BY <1>12, <2>1, <2>2, <2>3
  <2>5. PICK d : Fine(d) /\ serverCalls' = [serverCalls EXCEPT ![i] = d]
    BY <2>4
  <2>6. Wrote(i, d)
    BY <1>10, <1>12, <2>5
  <2> QED BY <2>6
<1>13. CASE c.kind \in {"test", "connect"} /\ Connects(i, c.id)
  <2> DEFINE id   == c.id
             row  == servers[id]
             fits == ~Ssh(row.login) \/ row.pinned = row.host
  <2>1. /\ id \in DOMAIN servers /\ UNCHANGED <<servers, seen>>
        /\ challenges' = IF fits THEN challenges ELSE [challenges EXCEPT ![id] = row.host]
        /\ \/ serverCalls' = [serverCalls EXCEPT ![i] = [c EXCEPT !.at = "list", !.key = IF Ssh(row.login) THEN row.host ELSE NoKey]]
           \/ serverCalls' = [serverCalls EXCEPT ![i] = [c EXCEPT !.at = "list", !.key = row.host, !.offer = TRUE]]
           \/ Fails(i)
    BY <1>13 DEF Connects, Goes
  <2>2. id \in Ids /\ row.host \in Hosts
    BY <1>1, <2>1, ListsAre, RowsAre
  <2>3. challenges' \in [Ids -> Keys \cup {NoKey}] /\ row.host \in Keys \cup {NoKey} /\ NoKey \in Keys \cup {NoKey}
    BY <1>1, <1>7, <2>1, <2>2, RowsAre
  <2>4. servers' \in Lists /\ PinsTrue'
    BY <1>1, <2>1, PinsKeep
  <2> DEFINE key == IF Ssh(row.login) THEN row.host ELSE NoKey
  <2>5. key \in Keys \cup {NoKey}
    BY <2>3
  <2>6. CASE serverCalls' = [serverCalls EXCEPT ![i] = [c EXCEPT !.at = "list", !.key = key]]
    <3> HIDE DEF c, key
    <3> QED BY <1>12, <1>13, <2>1, <2>3, <2>4, <2>5, <2>6
  <2>7. CASE serverCalls' = [serverCalls EXCEPT ![i] = [c EXCEPT !.at = "list", !.key = row.host, !.offer = TRUE]]
    <3> DEFINE h == row.host
    <3>1. h \in Keys \cup {NoKey} /\ serverCalls' = [serverCalls EXCEPT ![i] = [c EXCEPT !.at = "list", !.key = h, !.offer = TRUE]]
      BY <2>3, <2>7
    <3> HIDE DEF c, h
    <3> QED BY <1>12, <1>13, <2>1, <2>3, <2>4, <3>1
  <2>8. CASE Fails(i)
    <3> DEFINE d == [c EXCEPT !.at = "answer", !.ok = FALSE]
    <3>1. /\ d \in ServerCall /\ d.kind = c.kind /\ d.form = c.form /\ ~d.relist /\ d.id = c.id /\ d.at = "answer" /\ ~d.ok
      BY <1>1 DEF ServerCall
    <3>2. serverCalls' = [serverCalls EXCEPT ![i] = d]
      BY <2>8 DEF Fails, Goes
    <3> HIDE DEF d
    <3>3. Wrote(i, d)
      BY <1>10, <2>1, <2>3, <2>4, <3>1, <3>2
    <3> QED BY <3>3
  <2> QED BY <2>1, <2>6, <2>7, <2>8
<1>14. CASE c.kind = "trust" /\ Trusts(i, c.id)
  <2> DEFINE id  == c.id
             row == [servers[id] EXCEPT !.pinned = challenges[id]]
  <2>1. /\ id \in DOMAIN servers /\ challenges[id] = servers[id].host /\ servers' = [servers EXCEPT ![id] = row]
        /\ challenges' = [challenges EXCEPT ![id] = NoKey] /\ UNCHANGED seen
        /\ serverCalls' = [serverCalls EXCEPT ![i] = [c EXCEPT !.at = "list"]]
    BY <1>14 DEF Trusts, Goes
  <2>2. servers[id] \in Row /\ servers[id].host \in Keys
    BY <1>1, <2>1, ListsAre, RowsAre
  <2>3. row \in Row /\ row.pinned = row.host
    BY <2>1, <2>2 DEF Row
  <2> HIDE DEF row
  <2>4. servers' \in Lists /\ PinsTrue'
    BY <1>1, <2>1, <2>3, PinsKeep DEF PinTrue
  <2>5. challenges' \in [Ids -> Keys \cup {NoKey}] /\ NoKey \in Keys \cup {NoKey}
    BY <1>6, <2>1
  <2> HIDE DEF c
  <2> QED BY <1>12, <1>14, <2>1, <2>4, <2>5
<1>15. CASE c.kind = "forget" /\ c.id \in DOMAIN servers /\ servers' = [servers EXCEPT ![c.id].pinned = NoKey]
            /\ challenges' = [challenges EXCEPT ![c.id] = NoKey]
            /\ Goes(i, [c EXCEPT !.at = "list"]) /\ UNCHANGED seen
  <2> DEFINE row == [servers[c.id] EXCEPT !.pinned = NoKey]
  <2>1. servers[c.id] \in Row
    BY <1>1, <1>15, ListsAre
  <2>2. row \in Row /\ row.pinned = NoKey /\ servers' = [servers EXCEPT ![c.id] = row]
    BY <1>15, <2>1 DEF Row
  <2> HIDE DEF row
  <2>3. servers' \in Lists /\ PinsTrue'
    BY <1>1, <1>15, <2>2, PinsKeep DEF PinTrue
  <2>4. challenges' \in [Ids -> Keys \cup {NoKey}] /\ NoKey \in Keys \cup {NoKey}
    BY <1>6, <1>15
  <2>5. serverCalls' = [serverCalls EXCEPT ![i] = [c EXCEPT !.at = "list"]]
    BY <1>15 DEF Goes
  <2> HIDE DEF c
  <2> QED BY <1>12, <1>15, <2>3, <2>4, <2>5
<1>16. CASE c.kind = "remove" /\ c.id \in DOMAIN servers /\ servers' = [id \in DOMAIN servers \ {c.id} |-> servers[id]]
            /\ challenges' = [challenges EXCEPT ![c.id] = NoKey]
            /\ Goes(i, [c EXCEPT !.at = "list"]) /\ UNCHANGED seen
  <2>3. servers' \in Lists /\ PinsTrue'
    BY <1>1, <1>16, PinsKeep
  <2>4. challenges' \in [Ids -> Keys \cup {NoKey}] /\ NoKey \in Keys \cup {NoKey}
    BY <1>6, <1>16
  <2>5. serverCalls' = [serverCalls EXCEPT ![i] = [c EXCEPT !.at = "list"]]
    BY <1>16 DEF Goes
  <2> HIDE DEF c
  <2> QED BY <1>12, <1>16, <2>3, <2>4, <2>5
<1>17. CASE c.kind \in {"disconnect", "testDraft"} /\ Goes(i, [c EXCEPT !.at = NextStep(c)]) /\ UNCHANGED <<servers, challenges, seen>>
  <2>1. NextStep(c) \in {"list", "answer"}
    BY <1>5, <1>17
  <2>2. servers' \in Lists /\ PinsTrue'
    BY <1>1, <1>17, PinsKeep
  <2>3. serverCalls' = [serverCalls EXCEPT ![i] = [c EXCEPT !.at = NextStep(c)]]
    BY <1>17 DEF Goes
  <2>4. challenges' \in [Ids -> Keys \cup {NoKey}] /\ NoKey \in Keys \cup {NoKey}
    BY <1>1, <1>17
  <2> DEFINE a == NextStep(c)
  <2>5. a \in {"list", "answer"} /\ serverCalls' = [serverCalls EXCEPT ![i] = [c EXCEPT !.at = a]]
    BY <2>1, <2>3
  <2> HIDE DEF c, a
  <2> QED BY <1>12, <1>17, <2>2, <2>4, <2>5
<1> QED BY <1>8, <1>9, <1>11, <1>13, <1>14, <1>15, <1>16, <1>17 DEF WriteServer

\* The ghosts when a call goes on from c to d
SeenBy(c, d) ==
    /\ seen' \in Ghosts /\ seen'.crossed = seen.crossed
    /\ seen.halfSaved => seen'.halfSaved
    /\ c.kind = "save" /\ c.ok /\ c.at # "write" => d.ok \/ seen'.halfSaved
    /\ \/ seen'.drafts = seen.drafts
       \/ /\ seen'.drafts = Append(seen.drafts, c.form.draft)
          /\ c.kind = "save" /\ c.at = "write" /\ c.id = Unsaved_ /\ d.ok

\* A call goes on: all but what is listed.
LEMMA GoesKeeps ==
    ASSUME ServerInv, NEW i \in DOMAIN serverCalls, NEW d \in ServerCall, CallIsFit(d),
           d.kind = serverCalls[i].kind, d.form = serverCalls[i].form,
           d.kind = "save" \/ d.id = serverCalls[i].id, d.at # "write",
           serverCalls' = [serverCalls EXCEPT ![i] = d], SeenBy(serverCalls[i], d),
           UNCHANGED <<listed, localList, server, looking, busyServers>>,
           servers' \in Lists, challenges' \in [Ids -> Keys \cup {NoKey}], PinsTrue',
           ListsFit(servers', listed', serverCalls', seen')
    PROVE  ServerInv'
<1> DEFINE c == serverCalls[i]
           drafts == seen.drafts
<1>1. /\ serverCalls \in Seq(ServerCall) /\ CallsFit(serverCalls) /\ drafts \in Seq(Nat) /\ seen \in Ghosts
      /\ Numbered(drafts) /\ server.draft <= Len(drafts) /\ server \in ServerForm
  BY DEF ServerInv, ServerTypes, Ghosts
<1>2. /\ serverCalls' \in Seq(ServerCall) /\ DOMAIN serverCalls' = DOMAIN serverCalls /\ serverCalls'[i] = d
      /\ \A k \in DOMAIN serverCalls : k # i => serverCalls'[k] = serverCalls[k]
      /\ CallsFit(serverCalls') /\ SavesOf(serverCalls') = SavesOf(serverCalls)
  <2> DEFINE ds == serverCalls'
             cs == serverCalls
  <2>1. ds = [cs EXCEPT ![i] = d] /\ cs \in Seq(ServerCall) /\ i \in DOMAIN cs /\ CallsFit(cs) /\ d.kind = cs[i].kind
    BY <1>1
  <2> HIDE DEF ds, cs
  <2>2. /\ ds \in Seq(ServerCall) /\ DOMAIN ds = DOMAIN cs /\ ds[i] = d
        /\ \A k \in DOMAIN cs : k # i => ds[k] = cs[k]
    BY <2>1, CallSet
  <2>3. CallsFit(ds)
    BY <2>1, CallSet
  <2>4. SavesOf(ds) = SavesOf(cs)
    BY <2>1, <2>2 DEF SavesOf
  <2> QED BY <2>2, <2>3, <2>4 DEF ds, cs
<1>3. ServerTypes'
  BY <1>2 DEF ServerInv, ServerTypes, SeenBy
<1>4. OneSave(serverCalls', server')
  BY <1>2 DEF ServerInv, OneSave
<1>5. WaitsFit(server', serverCalls', busyServers')
  <2>1. WaitsFit(server, serverCalls, busyServers)
    BY DEF ServerInv
  <2>2. WaitsFit(server, serverCalls', busyServers)
    BY <1>1, <2>1, CallSetWaits
  <2> QED BY <2>2
<1>6. PathKept' /\ SearchFits' /\ TestFits'
  BY DEF ServerInv, PathKept, SearchFits, TestFits, SeenBy
<1>7. c \in ServerCall /\ c.form \in ServerForm /\ c.form.draft \in Nat /\ c.form.draft <= Len(drafts) /\ Len(drafts) \in Nat
  <2>1. c \in ServerCall
    BY <1>1
  <2>2. c.form \in ServerForm
    BY <2>1 DEF ServerCall
  <2> QED BY <1>1, <2>1, <2>2 DEF ServerForm, ServerInv, DraftsFit
<1>8. \A k \in DOMAIN serverCalls : serverCalls[k].form.draft \in Nat
  <2> TAKE k \in DOMAIN serverCalls
  <2>1. serverCalls[k] \in ServerCall
    BY <1>1
  <2>2. serverCalls[k].form \in ServerForm
    BY <2>1 DEF ServerCall
  <2> QED BY <2>2 DEF ServerForm
<1>9. CASE seen'.drafts = drafts
  <2>1. Numbered(seen'.drafts) /\ server'.draft <= Len(seen'.drafts)
    BY <1>1, <1>9
  <2>2. SavedOnce'
    BY <1>9 DEF ServerInv, SavedOnce, SeenBy
  <2>3. ~seen'.halfSaved => DraftSaved(server', serverCalls', localList', seen'.drafts)
    <3> SUFFICES ASSUME ~seen'.halfSaved, server.open, server.draft \in Range(drafts), server.id \notin DOMAIN localList
                 PROVE  \E k \in DOMAIN serverCalls' : serverCalls'[k].kind = "save" /\ serverCalls'[k].ok /\ serverCalls'[k].at # "write"
      BY <1>9 DEF DraftSaved
    <3>1. PICK k \in DOMAIN serverCalls : serverCalls[k].kind = "save" /\ serverCalls[k].ok /\ serverCalls[k].at # "write"
      BY DEF ServerInv, DraftSaved, SeenBy
    <3>2. CASE k = i
      BY <1>2, <3>1, <3>2 DEF SeenBy
    <3>3. CASE k # i
      BY <1>2, <3>1, <3>3
    <3> QED BY <3>2, <3>3
  <2>4. DraftsFit(serverCalls', seen'.drafts, seen'.halfSaved)
    <3>1. DraftsFit(serverCalls, drafts, seen.halfSaved)
      BY DEF ServerInv
    <3>2. ASSUME NEW k \in DOMAIN serverCalls
          PROVE  /\ serverCalls'[k].form.draft <= Len(drafts)
                 /\ serverCalls'[k].kind = "save" /\ serverCalls'[k].at = "write" /\ serverCalls'[k].id = Unsaved_ /\ ~seen'.halfSaved
                      => serverCalls'[k].form.draft \notin Range(drafts)
      <4>1. CASE k = i
        BY <1>2, <1>7, <4>1
      <4>2. CASE k # i
        BY <1>2, <3>1, <4>2 DEF DraftsFit, SeenBy
      <4> QED BY <4>1, <4>2
    <3> QED BY <1>2, <1>9, <3>2 DEF DraftsFit
  <2> QED BY <1>3, <1>4, <1>5, <1>6, <2>1, <2>2, <2>3, <2>4 DEF ServerInv
<1>10. CASE /\ seen'.drafts = Append(drafts, c.form.draft)
            /\ c.kind = "save" /\ c.at = "write" /\ c.id = Unsaved_ /\ d.ok
  <2> DEFINE x  == c.form.draft
             ds == Append(drafts, x)
  <2>1. /\ ds \in Seq(Nat) /\ Len(ds) = Len(drafts) + 1 /\ DOMAIN ds = DOMAIN drafts \cup {Len(drafts) + 1}
        /\ DOMAIN drafts = 1 .. Len(drafts)
        /\ ds[Len(drafts) + 1] = x /\ \A k \in DOMAIN drafts : ds[k] = drafts[k]
    BY <1>1, <1>7
  <2>2. x \in Nat /\ x <= Len(drafts)
    BY <1>7
  <2>3. seen'.drafts = ds
    BY <1>10
  <2> HIDE DEF x, ds
  <2>4. Numbered(ds) /\ server.draft <= Len(ds)
    <3>1. \A k \in DOMAIN drafts : drafts[k] < k
      BY <1>1 DEF Numbered
    <3>2. server.draft \in Nat
      BY <1>1 DEF ServerForm
    <3>3. server.draft <= Len(ds)
      BY <1>1, <1>7, <2>1, <3>2
    <3>4. \A k \in DOMAIN ds : ds[k] < k
      BY <1>7, <2>1, <2>2, <3>1
    <3> QED BY <3>3, <3>4 DEF Numbered
  <2>5. SavedOnce'
    <3>1. ~seen'.halfSaved => ~seen.halfSaved
      BY DEF SeenBy
    <3>2. ~seen.halfSaved => x \notin Range(drafts)
      BY <1>10 DEF ServerInv, DraftsFit, x
    <3>3. ~seen.halfSaved => \A k \in DOMAIN drafts : drafts[k] # x
      BY <3>2 DEF Range
    <3>4. \A j, k \in DOMAIN drafts : j # k /\ drafts[j] = drafts[k] /\ drafts[j] # 0 => seen.halfSaved
      BY DEF ServerInv, SavedOnce
    <3>5. \A j, k \in DOMAIN ds : j # k /\ ds[j] = ds[k] /\ ds[j] # 0 => seen'.halfSaved
      BY <2>1, <3>1, <3>3, <3>4
    <3> QED BY <2>3, <3>5 DEF SavedOnce
  <2>6. DraftSaved(server', serverCalls', localList', seen'.drafts)
    <3>1. serverCalls'[i].kind = "save" /\ serverCalls'[i].ok /\ serverCalls'[i].at # "write" /\ i \in DOMAIN serverCalls'
      BY <1>2, <1>10
    <3> QED BY <3>1 DEF DraftSaved
  <2>7. DraftsFit(serverCalls', seen'.drafts, seen'.halfSaved)
    <3>1. \A k \in DOMAIN serverCalls : serverCalls'[k].form.draft <= Len(ds)
      <4>1. \A k \in DOMAIN serverCalls : serverCalls[k].form.draft <= Len(drafts)
        BY DEF ServerInv, DraftsFit
      <4>2. \A k \in DOMAIN serverCalls : serverCalls'[k].form = serverCalls[k].form
        BY <1>2
      <4> QED BY <1>7, <1>8, <2>1, <4>1, <4>2
    <3>2. \A k \in DOMAIN serverCalls : ~(serverCalls'[k].kind = "save" /\ serverCalls'[k].at = "write")
      <4> SUFFICES ASSUME NEW k \in DOMAIN serverCalls, serverCalls'[k].kind = "save", serverCalls'[k].at = "write" PROVE FALSE
        OBVIOUS
      <4>1. k # i /\ serverCalls[k].kind = "save"
        BY <1>2
      <4>2. k \in SavesOf(serverCalls) /\ i \in SavesOf(serverCalls)
        BY <1>10, <4>1 DEF SavesOf
      <4> QED BY <4>1, <4>2 DEF ServerInv, OneSave
    <3> QED BY <1>2, <2>3, <3>1, <3>2 DEF DraftsFit
  <2>8. Numbered(seen'.drafts) /\ server'.draft <= Len(seen'.drafts)
    BY <2>3, <2>4
  <2> QED BY <1>3, <1>4, <1>5, <1>6, <2>5, <2>6, <2>7, <2>8 DEF ServerInv
<1> QED BY <1>9, <1>10 DEF SeenBy

\* The first command of a call
LEMMA WriteKeeps ==
    ASSUME ServerInv, NEW i \in DOMAIN serverCalls, WriteServer(i)
    PROVE  ServerInv'
<1>1. PICK d : Wrote(i, d)
  BY WrittenIs DEF ServerInv
<1> DEFINE c  == serverCalls[i]
           ds == serverCalls'
<1>2. /\ serverCalls \in Seq(ServerCall) /\ CallsFit(serverCalls) /\ seen \in Ghosts /\ c \in ServerCall /\ CallIsFit(c)
      /\ seen.drafts \in Seq(Nat)
  BY DEF ServerInv, ServerTypes, CallsFit, Ghosts
<1>3. /\ d \in ServerCall /\ CallIsFit(d) /\ d.kind = c.kind /\ d.form = c.form /\ ~d.relist /\ d.at # "write" /\ c.at = "write"
      /\ d.kind = "save" \/ d.id = c.id
      /\ ds = [serverCalls EXCEPT ![i] = d]
      /\ servers' \in Lists /\ challenges' \in [Ids -> Keys \cup {NoKey}] /\ PinsTrue'
      /\ d.at = "answer" => servers' = servers
      /\ UNCHANGED <<listed, localList, server, looking, busyServers>>
  BY <1>1 DEF Wrote
<1>4. \/ seen' = seen
      \/ /\ d.kind = "save" /\ c.id = Unsaved_ /\ d.ok
         /\ seen' = [seen EXCEPT !.drafts = Append(@, d.form.draft)]
  BY <1>1 DEF Wrote
<1>5. c.form.draft \in Nat
  <2>1. c.form \in ServerForm
    BY <1>2 DEF ServerCall
  <2> QED BY <2>1 DEF ServerForm
<1> HIDE DEF c, ds
<1>6. /\ SeenBy(c, d)
      /\ seen'.halfSaved = seen.halfSaved /\ seen'.unlisted = seen.unlisted /\ seen'.mixed = seen.mixed
  <2>1. CASE seen' = seen
    BY <1>2, <1>3, <2>1 DEF SeenBy
  <2>2. CASE d.kind = "save" /\ c.id = Unsaved_ /\ d.ok /\ seen' = [seen EXCEPT !.drafts = Append(@, d.form.draft)]
    <3> DEFINE ns == Append(seen.drafts, c.form.draft)
    <3>1. ns \in Seq(Nat)
      BY <1>2, <1>5
    <3>2. seen' = [seen EXCEPT !.drafts = ns]
      BY <1>3, <2>2
    <3> HIDE DEF ns
    <3>3. /\ seen' \in Ghosts /\ seen'.crossed = seen.crossed /\ seen'.drafts = ns
          /\ seen'.halfSaved = seen.halfSaved /\ seen'.unlisted = seen.unlisted /\ seen'.mixed = seen.mixed
      BY <1>2, <3>1, <3>2 DEF Ghosts
    <3> QED BY <1>3, <2>2, <3>3 DEF SeenBy, ns
  <2> QED BY <1>4, <2>1, <2>2
<1>7. DOMAIN ds = DOMAIN serverCalls /\ ds[i] = d /\ \A k \in DOMAIN serverCalls : k # i => ds[k] = serverCalls[k]
  BY <1>2, <1>3
<1>8. ListsFit(servers', listed', ds, seen')
  <2>1. ASSUME ~seen.halfSaved, ~seen.unlisted, ~seen.mixed
        PROVE  /\ \A j, k \in DOMAIN ds : ds[j].relist /\ ds[k].relist => j = k
               /\ Listings(servers', listed, ds)
    <3>1. /\ \A j, k \in DOMAIN serverCalls : serverCalls[j].relist /\ serverCalls[k].relist => j = k
          /\ Listings(servers, listed, serverCalls)
      BY <2>1 DEF ServerInv, ListsFit
    <3>2. serverCalls[i].at = "write" /\ ~serverCalls[i].relist
      BY <1>2, <1>3 DEF CallIsFit, c
    <3>3. CASE d.at \in {"secret", "list"}
      BY <1>3, <1>7, <3>1, <3>3 DEF Listings
    <3>4. CASE d.at = "answer"
      <4>1. \A k \in DOMAIN serverCalls : serverCalls[k].relist => k # i
        BY <3>2
      <4>2. \A k \in DOMAIN serverCalls : serverCalls[k].at \in {"secret", "list"} => k # i
        BY <3>2
      <4>3. Listings(servers, listed, ds)
        BY <1>3, <1>7, <3>1, <4>1, <4>2 DEF Listings
      <4> QED BY <1>3, <1>7, <3>1, <3>4, <4>3
    <3>5. d.at \in {"secret", "list", "answer"}
      BY <1>3 DEF ServerCall
    <3> QED BY <3>3, <3>4, <3>5
  <2> QED BY <1>3, <1>6, <2>1 DEF ListsFit
<1>9. /\ d.kind = serverCalls[i].kind /\ d.form = serverCalls[i].form
      /\ d.kind = "save" \/ d.id = serverCalls[i].id
      /\ serverCalls' = [serverCalls EXCEPT ![i] = d] /\ SeenBy(serverCalls[i], d)
      /\ ListsFit(servers', listed', serverCalls', seen')
  BY <1>3, <1>6, <1>8 DEF c, ds
<1> QED BY <1>3, <1>9, GoesKeeps

\* The secret of a save
LEMMA StoreKeeps ==
    ASSUME ServerInv, NEW i \in DOMAIN serverCalls, StoreSecret(i)
    PROVE  ServerInv'
<1> DEFINE c  == serverCalls[i]
           went == [c EXCEPT !.at = "list"]
           fell == [c EXCEPT !.at = "answer", !.ok = FALSE]
<1>1. /\ serverCalls \in Seq(ServerCall) /\ CallsFit(serverCalls) /\ seen \in Ghosts /\ c \in ServerCall /\ CallIsFit(c)
      /\ servers \in Lists /\ challenges \in [Ids -> Keys \cup {NoKey}] /\ PinsTrue
  BY DEF ServerInv, ServerTypes, CallsFit
<1>2. /\ c.at = "secret" /\ UNCHANGED <<servers, challenges, listed, localList, server, looking, busyServers>>
      /\ \/ serverCalls' = [serverCalls EXCEPT ![i] = went] /\ seen' = seen
         \/ serverCalls' = [serverCalls EXCEPT ![i] = fell] /\ seen' = [seen EXCEPT !.halfSaved = TRUE]
  BY DEF StoreSecret, Quiet, Goes, Fails
<1>3. PinsTrue' /\ servers' \in Lists /\ challenges' \in [Ids -> Keys \cup {NoKey}]
  BY <1>1, <1>2 DEF PinsTrue
<1>4. /\ went \in ServerCall /\ went.kind = c.kind /\ went.form = c.form /\ went.id = c.id /\ went.at = "list" /\ went.ok = c.ok
      /\ went.relist = c.relist /\ went.row = c.row
  BY <1>1 DEF ServerCall
<1>5. /\ fell \in ServerCall /\ fell.kind = c.kind /\ fell.form = c.form /\ fell.id = c.id /\ fell.at = "answer" /\ ~fell.ok
      /\ fell.relist = c.relist
  BY <1>1 DEF ServerCall
<1> HIDE DEF went, fell, c
<1>6. c.ok /\ ~c.relist /\ CallIsFit(went) /\ CallIsFit(fell)
  BY <1>1, <1>2, <1>4, <1>5 DEF CallIsFit
<1>7. CASE serverCalls' = [serverCalls EXCEPT ![i] = went] /\ seen' = seen
  <2>1. SeenBy(c, went)
    BY <1>1, <1>4, <1>6, <1>7 DEF SeenBy
  <2>2. DOMAIN serverCalls' = DOMAIN serverCalls /\ serverCalls'[i] = went
        /\ \A k \in DOMAIN serverCalls : k # i => serverCalls'[k] = serverCalls[k]
    BY <1>1, <1>7
  <2>3. ListsFit(servers, listed, serverCalls', seen)
    <3>1. ASSUME ~seen.halfSaved, ~seen.unlisted, ~seen.mixed
          PROVE  /\ \A j, k \in DOMAIN serverCalls' : serverCalls'[j].relist /\ serverCalls'[k].relist => j = k
                 /\ Listings(servers, listed, serverCalls')
      <4>1. \A j, k \in DOMAIN serverCalls : serverCalls[j].relist /\ serverCalls[k].relist => j = k
        BY <3>1 DEF ServerInv, ListsFit
      <4>2. \A k \in DOMAIN serverCalls' : serverCalls'[k].relist => k # i /\ serverCalls[k].relist
        BY <1>4, <1>6, <2>2
      <4>3. Listings(servers, listed, serverCalls')
        BY <1>4, <2>2 DEF Listings
      <4> QED BY <2>2, <4>1, <4>2, <4>3
    <3> QED BY <3>1 DEF ListsFit
  <2>4. ListsFit(servers', listed', serverCalls', seen')
    BY <1>2, <1>7, <2>3
  <2> QED BY <1>2, <1>3, <1>4, <1>6, <1>7, <2>1, <2>4, GoesKeeps DEF c
<1>8. CASE serverCalls' = [serverCalls EXCEPT ![i] = fell] /\ seen' = [seen EXCEPT !.halfSaved = TRUE]
  <2>1. SeenBy(c, fell) /\ seen'.halfSaved
    BY <1>1, <1>4, <1>6, <1>8 DEF SeenBy, Ghosts
  <2>2. ListsFit(servers', listed', serverCalls', seen')
    BY <2>1 DEF ListsFit
  <2> QED BY <1>2, <1>3, <1>5, <1>6, <1>8, <2>1, <2>2, GoesKeeps DEF c
<1> QED BY <1>2, <1>7, <1>8

\* The servers are listed again.
LEMMA ListKeeps ==
    ASSUME ServerInv, NEW i \in DOMAIN serverCalls, ListServers(i)
    PROVE  ServerInv'
<1> DEFINE c  == serverCalls[i]
           went == [c EXCEPT !.at = "answer", !.list = servers, !.relist = TRUE]
           fell == [c EXCEPT !.at = "answer"]
           two == \E k \in DOMAIN serverCalls : serverCalls[k].relist
<1>1. /\ serverCalls \in Seq(ServerCall) /\ CallsFit(serverCalls) /\ seen \in Ghosts /\ c \in ServerCall /\ CallIsFit(c)
      /\ servers \in Lists /\ challenges \in [Ids -> Keys \cup {NoKey}] /\ PinsTrue
  BY DEF ServerInv, ServerTypes, CallsFit
<1>2. /\ c.at = "list" /\ UNCHANGED <<servers, challenges, listed, localList, server, looking, busyServers>>
      /\ \/ serverCalls' = [serverCalls EXCEPT ![i] = went] /\ seen' = [seen EXCEPT !.mixed = seen.mixed \/ two]
         \/ serverCalls' = [serverCalls EXCEPT ![i] = fell] /\ seen' = [seen EXCEPT !.unlisted = TRUE]
  BY DEF ListServers, Quiet, Goes
<1>3. PinsTrue' /\ servers' \in Lists /\ challenges' \in [Ids -> Keys \cup {NoKey}]
  BY <1>1, <1>2 DEF PinsTrue
<1>4. /\ went \in ServerCall /\ went.kind = c.kind /\ went.form = c.form /\ went.id = c.id /\ went.at = "answer" /\ went.ok = c.ok
      /\ went.relist /\ went.list = servers /\ went.row = c.row
  BY <1>1 DEF ServerCall
<1>5. /\ fell \in ServerCall /\ fell.kind = c.kind /\ fell.form = c.form /\ fell.id = c.id /\ fell.at = "answer" /\ fell.ok = c.ok
      /\ fell.relist = c.relist /\ fell.row = c.row
  BY <1>1 DEF ServerCall
<1>6. two \in BOOLEAN
  BY DEF two
<1> HIDE DEF went, fell, c
<1>7. c.ok /\ ~c.relist /\ CallIsFit(went) /\ CallIsFit(fell)
  BY <1>1, <1>2, <1>4, <1>5 DEF CallIsFit
<1>8. CASE serverCalls' = [serverCalls EXCEPT ![i] = went] /\ seen' = [seen EXCEPT !.mixed = seen.mixed \/ two]
  <2>1. SeenBy(c, went) /\ seen'.halfSaved = seen.halfSaved /\ seen'.unlisted = seen.unlisted /\ (~seen'.mixed => ~two)
    <3> HIDE DEF two
    <3> QED BY <1>1, <1>4, <1>6, <1>7, <1>8 DEF SeenBy, Ghosts
  <2>2. DOMAIN serverCalls' = DOMAIN serverCalls /\ serverCalls'[i] = went
        /\ \A k \in DOMAIN serverCalls : k # i => serverCalls'[k] = serverCalls[k]
    BY <1>1, <1>8
  <2>3. ListsFit(servers, listed, serverCalls', seen')
    <3>1. ASSUME ~two
          PROVE  /\ \A j, k \in DOMAIN serverCalls' : serverCalls'[j].relist /\ serverCalls'[k].relist => j = k
                 /\ Listings(servers, listed, serverCalls')
      <4>1. \A k \in DOMAIN serverCalls' : serverCalls'[k].relist => k = i
        BY <2>2, <3>1
      <4>2. Listings(servers, listed, serverCalls')
        BY <1>4, <2>2 DEF Listings
      <4> QED BY <4>1, <4>2
    <3> QED BY <2>1, <3>1 DEF ListsFit
  <2>4. ListsFit(servers', listed', serverCalls', seen')
    BY <1>2, <2>3
  <2> QED BY <1>2, <1>3, <1>4, <1>7, <1>8, <2>1, <2>4, GoesKeeps DEF c
<1>9. CASE serverCalls' = [serverCalls EXCEPT ![i] = fell] /\ seen' = [seen EXCEPT !.unlisted = TRUE]
  <2>1. SeenBy(c, fell) /\ seen'.unlisted
    BY <1>1, <1>5, <1>7, <1>9 DEF SeenBy, Ghosts
  <2>2. ListsFit(servers', listed', serverCalls', seen')
    BY <2>1 DEF ListsFit
  <2> QED BY <1>2, <1>3, <1>5, <1>7, <1>9, <2>1, <2>2, GoesKeeps DEF c
<1> QED BY <1>2, <1>8, <1>9

-----------------------------------------------------------------------------
(* Calls are answered.                                                     *)

\* One call is taken out.
LEMMA CallsRest ==
    ASSUME NEW cs \in Seq(ServerCall), NEW i \in DOMAIN cs, NEW r, r = RemoveAt(cs, i)
    PROVE  /\ r \in Seq(ServerCall)
           /\ \A j \in DOMAIN r : \E m \in DOMAIN cs \ {i} : r[j] = cs[m]
           /\ \A m \in DOMAIN cs \ {i} : \E j \in DOMAIN r : r[j] = cs[m]
           /\ (\A j, k \in SavesOf(cs) : j = k) =>
                 (\A j, k \in SavesOf(r) : j = k) /\ (cs[i].kind = "save" => SavesOf(r) = {})
           /\ cs[i].kind # "save" => (SavesOf(r) # {} <=> SavesOf(cs) # {})
           /\ (\A j, k \in DOMAIN cs : cs[j].relist /\ cs[k].relist => j = k) =>
                 /\ \A j, k \in DOMAIN r : r[j].relist /\ r[k].relist => j = k
                 /\ cs[i].relist => \A j \in DOMAIN r : ~r[j].relist
<1>1. r \in Seq(ServerCall)
  BY RemoveAtIs
<1>2. PICK f \in [DOMAIN r -> DOMAIN cs \ {i}] :
          /\ \A j \in DOMAIN r : r[j] = cs[f[j]]
          /\ \A j, k \in DOMAIN r : f[j] = f[k] => j = k
          /\ \A m \in DOMAIN cs \ {i} : \E j \in DOMAIN r : f[j] = m
  <2>1. \E f \in [DOMAIN RemoveAt(cs, i) -> DOMAIN cs \ {i}] :
            /\ \A j \in DOMAIN RemoveAt(cs, i) : RemoveAt(cs, i)[j] = cs[f[j]]
            /\ \A j, k \in DOMAIN RemoveAt(cs, i) : f[j] = f[k] => j = k
            /\ \A m \in DOMAIN cs \ {i} : \E j \in DOMAIN RemoveAt(cs, i) : f[j] = m
    BY RestIs
  <2> QED BY <2>1
<1>3. /\ \A j \in DOMAIN r : \E m \in DOMAIN cs \ {i} : r[j] = cs[m]
      /\ \A m \in DOMAIN cs \ {i} : \E j \in DOMAIN r : r[j] = cs[m]
  BY <1>2
<1>4. \A j \in DOMAIN r : f[j] \in DOMAIN cs \ {i} /\ (j \in SavesOf(r) <=> f[j] \in SavesOf(cs))
  BY <1>2 DEF SavesOf
<1>5. /\ SavesOf(r) \subseteq DOMAIN r /\ SavesOf(cs) \subseteq DOMAIN cs
      /\ i \in SavesOf(cs) <=> cs[i].kind = "save"
  BY DEF SavesOf
<1>6. ASSUME \A j, k \in SavesOf(cs) : j = k
      PROVE  (\A j, k \in SavesOf(r) : j = k) /\ (cs[i].kind = "save" => SavesOf(r) = {})
  BY <1>2, <1>4, <1>5, <1>6
<1>7. cs[i].kind # "save" => (SavesOf(r) # {} <=> SavesOf(cs) # {})
  BY <1>2, <1>4, <1>5
<1>8. ASSUME \A j, k \in DOMAIN cs : cs[j].relist /\ cs[k].relist => j = k
      PROVE  /\ \A j, k \in DOMAIN r : r[j].relist /\ r[k].relist => j = k
             /\ cs[i].relist => \A j \in DOMAIN r : ~r[j].relist
  BY <1>2, <1>4, <1>8
<1> QED BY <1>1, <1>3, <1>6, <1>7, <1>8

\* What the answer of call c does to the dialog
AnswerOf(c) ==
    /\ server' \in ServerForm /\ looking' \in {"off", "empty", "filled"} /\ localList' \in Lists
    /\ SearchFits' /\ PathKept' /\ TestFits'
    /\ seen' \in Ghosts /\ seen'.drafts = seen.drafts /\ seen'.halfSaved = seen.halfSaved
    /\ seen'.unlisted = seen.unlisted /\ seen'.mixed = seen.mixed
    /\ c.kind = "save" => ~server'.saving
    /\ c.kind # "save" => server'.saving = server.saving
    /\ server'.test.status = "testing" => server.test.status = "testing" /\ c.kind \notin Tests
    /\ server'.draft = server.draft
    /\ c.kind = "save" /\ c.ok => server'.id \in DOMAIN localList'
    /\ ~(c.kind = "save" /\ c.ok) => server'.id = server.id /\ server'.open = server.open /\ localList' = localList

\* What each answer does to the dialog.
LEMMA ServerHeardIs ==
    ASSUME ServerInv, NEW i \in DOMAIN serverCalls, ServerHears(i)
    PROVE  AnswerOf(serverCalls[i])
<1> DEFINE c == serverCalls[i]
<1>1. /\ c \in ServerCall /\ CallIsFit(c) /\ server \in ServerForm /\ looking \in {"off", "empty", "filled"}
      /\ localList \in Lists /\ seen \in Ghosts /\ SearchFits /\ PathKept /\ TestFits
  BY DEF ServerInv, ServerTypes, CallsFit
<1>2. /\ c.at = "answer"
      /\ localList' = IF c.kind = "save" /\ c.ok THEN With(localList, c.id, c.row) ELSE localList
      /\ c.kind = "save" => Becomes(Saved(c)) /\ UNCHANGED seen
      /\ c.kind \in Tests => /\ server' = [server EXCEPT !.test = Tested(c)]
                             /\ seen' = [seen EXCEPT !.crossed = @ \/ c.id # server.id]
                             /\ UNCHANGED looking
      /\ c.kind \notin Tests \cup {"save"} => UNCHANGED <<server, looking, seen>>
  BY DEF ServerHears, Tests
<1>3. NoTest \in TestOf /\ NoTest.status = "idle" /\ "save" \notin Tests
  BY DEF NoTest, TestOf, Unsaved_, Keys, NoKey, Tests
<1> HIDE DEF c
<1>4. CASE c.kind = "save" /\ c.ok
  <2> DEFINE id  == c.id
             row == c.row
  <2>1. id \in Ids /\ row \in Row
    BY <1>1, <1>2, <1>4 DEF CallIsFit
  <2>2. row.host \in Hosts /\ row.login \in Logins /\ row.path \in Paths
    BY <2>1, RowsAre
  <2>3. server' = [LoadProfile(id, row) EXCEPT !.saving = FALSE] /\ looking' = Search(server') /\ UNCHANGED seen
    BY <1>2, <1>4 DEF Becomes, Saved
  <2>4. localList' = With(localList, id, row)
    BY <1>2, <1>4
  <2> HIDE DEF id, row
  <2>5. localList' \in Lists /\ id \in DOMAIN localList'
    <3>1. With(localList, id, row) \in Lists /\ DOMAIN With(localList, id, row) = DOMAIN localList \cup {id}
      BY <1>1, <2>1, ListMore
    <3> QED BY <2>4, <3>1
  <2>6. /\ server' \in ServerForm /\ ~server'.saving /\ server'.test = NoTest /\ server'.own = server'.path
        /\ server'.draft = server.draft /\ server'.id = id
    BY <1>1, <1>3, <2>1, <2>2, <2>3 DEF LoadProfile, ServerForm
  <2>7. looking' \in {"off", "empty", "filled"} /\ SearchFits'
    <3>1. Search(server') \in {"off", "empty", "filled"} /\ (Search(server') = "empty" => server'.path = "")
      BY <1>1, SearchIs
    <3> QED BY <2>3, <3>1 DEF SearchFits
  <2>8. PathKept' /\ TestFits'
    BY <1>3, <2>6 DEF PathKept, TestFits
  <2> QED BY <1>1, <1>3, <1>4, <2>3, <2>5, <2>6, <2>7, <2>8 DEF AnswerOf, c
<1>5. CASE c.kind = "save" /\ ~c.ok
  <2>1. server' = [server EXCEPT !.saving = FALSE] /\ looking' = Search(server') /\ UNCHANGED <<seen, localList>>
    BY <1>2, <1>5 DEF Becomes, Saved
  <2>2. /\ server' \in ServerForm /\ ~server'.saving /\ server'.test = server.test /\ server'.own = server.own
        /\ server'.path = server.path /\ server'.draft = server.draft /\ server'.id = server.id /\ server'.open = server.open
    BY <1>1, <2>1 DEF ServerForm
  <2>3. looking' \in {"off", "empty", "filled"} /\ SearchFits'
    <3>1. Search(server') \in {"off", "empty", "filled"} /\ (Search(server') = "empty" => server'.path = "")
      BY <1>1, SearchIs
    <3> QED BY <2>1, <3>1 DEF SearchFits
  <2>4. PathKept' /\ TestFits'
    BY <1>1, <2>1, <2>2 DEF PathKept, TestFits
  <2> QED BY <1>1, <1>3, <1>5, <2>1, <2>2, <2>3, <2>4 DEF AnswerOf, c
<1>6. CASE c.kind \in Tests
  <2> DEFINE t == Tested(c)
             x == seen.crossed \/ c.id # server.id
  <2>1. server' = [server EXCEPT !.test = t] /\ seen' = [seen EXCEPT !.crossed = x] /\ UNCHANGED <<looking, localList>>
    BY <1>1, <1>2, <1>3, <1>6
  <2>2. t \in TestOf /\ t.status = "answered" /\ t.of = c.id
    <3> DEFINE o == c.offer \/ (c.kind = "trust" /\ ~c.ok)
    <3>1. c.id \in Ids \cup {Unsaved_} /\ c.key \in Keys \cup {NoKey}
      BY <1>1 DEF ServerCall
    <3>2. o \in BOOLEAN /\ t = [status |-> "answered", of |-> c.id, key |-> c.key, offer |-> o]
      <4>1. (c.offer \/ (c.kind = "trust" /\ ~c.ok)) \in BOOLEAN
        OBVIOUS
      <4> QED BY <4>1, Zenon DEF Tested
    <3> HIDE DEF o, t
    <3> QED BY <3>1, <3>2 DEF TestOf
  <2>3. x \in BOOLEAN /\ (x \/ c.id = server.id)
    OBVIOUS
  <2> HIDE DEF t, x
  <2>4. /\ server' \in ServerForm /\ server'.saving = server.saving /\ server'.test = t /\ server'.own = server.own
        /\ server'.path = server.path /\ server'.draft = server.draft /\ server'.id = server.id /\ server'.open = server.open
    BY <1>1, <2>1, <2>2 DEF ServerForm
  <2>5. /\ seen' \in Ghosts /\ seen'.drafts = seen.drafts /\ seen'.halfSaved = seen.halfSaved
        /\ seen'.unlisted = seen.unlisted /\ seen'.mixed = seen.mixed /\ seen'.crossed = x
    BY <1>1, <2>1, <2>3 DEF Ghosts
  <2>6. SearchFits' /\ PathKept' /\ looking' = looking
    BY <1>1, <2>1, <2>4 DEF SearchFits, PathKept
  <2>7. TestFits'
    BY <2>2, <2>3, <2>4, <2>5 DEF TestFits
  <2> QED BY <1>1, <1>3, <1>6, <2>1, <2>2, <2>4, <2>5, <2>6, <2>7 DEF AnswerOf, c
<1>7. CASE c.kind \notin Tests \cup {"save"}
  <2>1. UNCHANGED <<server, looking, seen, localList>>
    BY <1>2, <1>7
  <2>2. SearchFits' /\ PathKept' /\ TestFits'
    BY <1>1, <2>1 DEF SearchFits, PathKept, TestFits
  <2> QED BY <1>1, <1>7, <2>1, <2>2 DEF AnswerOf, c
<1> QED BY <1>4, <1>5, <1>6, <1>7 DEF c

\* A call is answered.
LEMMA HearsKeeps ==
    ASSUME ServerInv, NEW i \in DOMAIN serverCalls, ServerHears(i)
    PROVE  ServerInv'
<1> DEFINE cs == serverCalls
           c  == serverCalls[i]
           r  == serverCalls'
           drafts == seen.drafts
<1>1. /\ cs \in Seq(ServerCall) /\ CallsFit(cs) /\ c \in ServerCall /\ CallIsFit(c) /\ server \in ServerForm
      /\ servers \in Lists /\ listed \in Lists /\ challenges \in [Ids -> Keys \cup {NoKey}] /\ busyServers \subseteq Ids
  BY DEF ServerInv, ServerTypes, CallsFit
<1>2. /\ r = RemoveAt(cs, i) /\ c.at = "answer"
      /\ listed' = IF c.relist THEN c.list ELSE listed
      /\ busyServers' = IF c.kind \in {"connect", "disconnect"} THEN busyServers \ {c.id} ELSE busyServers
      /\ UNCHANGED <<servers, challenges>>
  BY DEF ServerHears
<1>3. AnswerOf(c)
  BY ServerHeardIs
<1>4. /\ OneSave(cs, server) /\ WaitsFit(server, cs, busyServers) /\ PinsTrue /\ Numbered(drafts) /\ SavedOnce
      /\ server.draft <= Len(drafts) /\ DraftsFit(cs, drafts, seen.halfSaved) /\ ListsFit(servers, listed, cs, seen)
      /\ ~seen.halfSaved => DraftSaved(server, cs, localList, drafts)
  BY DEF ServerInv
<1> HIDE DEF cs, c, r
<1>5. i \in DOMAIN cs /\ c = cs[i]
  BY DEF cs, c
<1>6. /\ r \in Seq(ServerCall)
      /\ \A j \in DOMAIN r : \E m \in DOMAIN cs \ {i} : r[j] = cs[m]
      /\ \A m \in DOMAIN cs \ {i} : \E j \in DOMAIN r : r[j] = cs[m]
  BY <1>1, <1>2, <1>5, CallsRest
<1>7. /\ (\A j, k \in SavesOf(cs) : j = k) =>
            (\A j, k \in SavesOf(r) : j = k) /\ (cs[i].kind = "save" => SavesOf(r) = {})
      /\ cs[i].kind # "save" => (SavesOf(r) # {} <=> SavesOf(cs) # {})
      /\ (\A j, k \in DOMAIN cs : cs[j].relist /\ cs[k].relist => j = k) =>
            /\ \A j, k \in DOMAIN r : r[j].relist /\ r[k].relist => j = k
            /\ cs[i].relist => \A j \in DOMAIN r : ~r[j].relist
  <2>1. (\A j, k \in SavesOf(cs) : j = k) => (\A j, k \in SavesOf(r) : j = k) /\ (cs[i].kind = "save" => SavesOf(r) = {})
    BY <1>1, <1>2, <1>5, CallsRest
  <2>2. cs[i].kind # "save" => (SavesOf(r) # {} <=> SavesOf(cs) # {})
    BY <1>1, <1>2, <1>5, CallsRest
  <2>3. (\A j, k \in DOMAIN cs : cs[j].relist /\ cs[k].relist => j = k) =>
            /\ \A j, k \in DOMAIN r : r[j].relist /\ r[k].relist => j = k
            /\ cs[i].relist => \A j \in DOMAIN r : ~r[j].relist
    BY <1>1, <1>2, <1>5, CallsRest
  <2> QED BY <2>1, <2>2, <2>3
<1>8. ServerTypes'
  <2>1. CallsFit(r)
    BY <1>1, <1>6 DEF CallsFit
  <2>2. listed' \in Lists
    BY <1>1, <1>2 DEF ServerCall
  <2>3. busyServers' \subseteq Ids
    BY <1>1, <1>2
  <2>4. servers' \in Lists /\ challenges' \in [Ids -> Keys \cup {NoKey}]
    BY <1>1, <1>2
  <2> QED BY <1>3, <1>6, <2>1, <2>2, <2>3, <2>4 DEF ServerTypes, AnswerOf, r
<1>9. OneSave(r, server')
  <2>1. CASE c.kind = "save"
    BY <1>3, <1>4, <1>5, <1>7, <2>1 DEF OneSave, AnswerOf
  <2>2. CASE c.kind # "save"
    BY <1>3, <1>4, <1>5, <1>7, <2>2 DEF OneSave, AnswerOf
  <2> QED BY <2>1, <2>2
<1>10. WaitsFit(server', r, busyServers')
  <2>1. ASSUME server'.test.status = "testing" PROVE \E j \in DOMAIN r : r[j].kind \in Tests
    <3>1. server.test.status = "testing" /\ c.kind \notin Tests
      BY <1>3, <2>1 DEF AnswerOf
    <3>2. PICK m \in DOMAIN cs : cs[m].kind \in Tests
      BY <1>4, <3>1 DEF WaitsFit
    <3>3. m \in DOMAIN cs \ {i}
      BY <1>5, <3>1, <3>2
    <3> QED BY <1>6, <3>2, <3>3
  <2>2. ASSUME NEW id \in busyServers'
        PROVE  \E j \in DOMAIN r : r[j].kind \in {"connect", "disconnect"} /\ r[j].id = id
    <3>1. id \in busyServers /\ ~(c.kind \in {"connect", "disconnect"} /\ c.id = id)
      BY <1>2, <2>2
    <3>2. PICK m \in DOMAIN cs : cs[m].kind \in {"connect", "disconnect"} /\ cs[m].id = id
      BY <1>4, <3>1 DEF WaitsFit
    <3>3. m \in DOMAIN cs \ {i}
      BY <1>5, <3>1, <3>2
    <3> QED BY <1>6, <3>2, <3>3
  <2> QED BY <2>1, <2>2 DEF WaitsFit
<1>11. PinsTrue' /\ SavedOnce' /\ Numbered(seen'.drafts) /\ server'.draft <= Len(seen'.drafts)
  BY <1>2, <1>3, <1>4 DEF PinsTrue, SavedOnce, AnswerOf
<1>12. ~seen'.halfSaved => DraftSaved(server', r, localList', seen'.drafts)
  <2>1. CASE c.kind = "save" /\ c.ok
    BY <1>3, <2>1 DEF DraftSaved, AnswerOf
  <2>2. CASE ~(c.kind = "save" /\ c.ok)
    <3>1. server'.id = server.id /\ server'.open = server.open /\ server'.draft = server.draft /\ localList' = localList
      BY <1>3, <2>2 DEF AnswerOf
    <3>2. ASSUME ~seen.halfSaved, server.open, server.draft \in Range(drafts), server.id \notin DOMAIN localList
          PROVE  \E j \in DOMAIN r : r[j].kind = "save" /\ r[j].ok /\ r[j].at # "write"
      <4>1. PICK m \in DOMAIN cs : cs[m].kind = "save" /\ cs[m].ok /\ cs[m].at # "write"
        BY <1>4, <3>2 DEF DraftSaved
      <4>2. m \in DOMAIN cs \ {i}
        BY <1>5, <2>2, <4>1
      <4> QED BY <1>6, <4>1, <4>2
    <3>3. seen'.drafts = drafts /\ seen'.halfSaved = seen.halfSaved
      BY <1>3 DEF AnswerOf
    <3> HIDE DEF drafts
    <3> QED BY <3>1, <3>2, <3>3 DEF DraftSaved
  <2> QED BY <2>1, <2>2
<1>13. DraftsFit(r, seen'.drafts, seen'.halfSaved)
  <2>1. seen'.drafts = drafts /\ seen'.halfSaved = seen.halfSaved
    BY <1>3 DEF AnswerOf
  <2> HIDE DEF drafts
  <2> QED BY <1>4, <1>6, <2>1 DEF DraftsFit
<1>14. ListsFit(servers', listed', r, seen')
  <2>1. ASSUME ~seen.halfSaved, ~seen.unlisted, ~seen.mixed
        PROVE  /\ \A j, k \in DOMAIN r : r[j].relist /\ r[k].relist => j = k
               /\ Listings(servers, listed', r)
    <3>1. (\A j, k \in DOMAIN cs : cs[j].relist /\ cs[k].relist => j = k) /\ Listings(servers, listed, cs)
      BY <1>4, <2>1 DEF ListsFit
    <3>2. /\ \A j, k \in DOMAIN r : r[j].relist /\ r[k].relist => j = k
          /\ c.relist => \A j \in DOMAIN r : ~r[j].relist
      BY <1>5, <1>7, <3>1
    <3>3. CASE \E m \in DOMAIN cs : cs[m].at \in {"secret", "list"}
      <4>1. PICK m \in DOMAIN cs : cs[m].at \in {"secret", "list"}
        BY <3>3
      <4>2. m \in DOMAIN cs \ {i}
        BY <1>2, <1>5, <4>1
      <4> QED BY <1>6, <3>2, <4>1, <4>2 DEF Listings
    <3>4. CASE \E m \in DOMAIN cs : cs[m].relist /\ cs[m].list = servers
      <4>1. PICK m \in DOMAIN cs : cs[m].relist /\ cs[m].list = servers
        BY <3>4
      <4>2. CASE m = i
        BY <1>2, <1>5, <3>2, <4>1, <4>2 DEF Listings
      <4>3. CASE m # i
        BY <1>6, <3>2, <4>1, <4>3 DEF Listings
      <4> QED BY <4>2, <4>3
    <3>5. CASE listed = servers /\ \A m \in DOMAIN cs : ~cs[m].relist
      BY <1>2, <1>5, <1>6, <3>2, <3>5 DEF Listings
    <3> QED BY <3>1, <3>3, <3>4, <3>5, <3>2 DEF Listings
  <2> QED BY <1>2, <1>3, <2>1 DEF ListsFit, AnswerOf
<1>15. PathKept' /\ SearchFits' /\ TestFits'
  BY <1>3 DEF AnswerOf
<1> QED BY <1>8, <1>9, <1>10, <1>11, <1>12, <1>13, <1>14, <1>15 DEF ServerInv, r

\* Every step of the dialog of the servers keeps its invariant.
LEMMA ServerKeeps ==
    ASSUME ServerInv, [ServerNext]_serverVars
    PROVE  ServerInv'
<1>1. CASE OpenServers \/ CloseServers \/ PickServer \/ FillIn \/ KeysFound
  BY <1>1, FormStepKeeps
<1>2. CASE SaveServer \/ TestServer \/ TrustKey \/ ForgetKey \/ UseSidebar
  BY <1>2, MadeKeeps
<1>3. ASSUME NEW i \in DOMAIN serverCalls, WriteServer(i) \/ StoreSecret(i) \/ ListServers(i) \/ ServerHears(i)
      PROVE  ServerInv'
  BY <1>3, WriteKeeps, StoreKeeps, ListKeeps, HearsKeeps
<1>4. CASE UNCHANGED serverVars
  <2>1. UNCHANGED <<servers, challenges, listed, localList, server, looking, serverCalls, busyServers, seen>>
    BY <1>4 DEF serverVars
  <2>2. ServerTypes' /\ OneSave(serverCalls', server') /\ WaitsFit(server', serverCalls', busyServers')
    BY <2>1 DEF ServerInv, ServerTypes
  <2>3. PinsTrue' /\ TestFits' /\ PathKept' /\ SearchFits' /\ SavedOnce'
    BY <2>1 DEF ServerInv, PinsTrue, TestFits, PathKept, SearchFits, SavedOnce
  <2> QED BY <2>1, <2>2, <2>3 DEF ServerInv
<1> QED BY <1>1, <1>2, <1>3, <1>4 DEF ServerNext

\* At the start there is no call, and what the dialog saved is in the table and in the list.
LEMMA ServerStarts ==
    ASSUME ServerInit
    PROVE  ServerInv
<1> DEFINE form == [open |-> TRUE, id |-> Unsaved_, host |-> NoHost, login |-> "password", path |-> "",
                    secret |-> FALSE, saving |-> FALSE, test |-> NoTest, draft |-> 2, own |-> ""]
           none == [id \in Ids |-> NoKey]
           shown == [status |-> "answered", of |-> 1, key |-> 1, offer |-> TRUE]
<1>1. /\ servers \in [1 .. 2 -> Row] /\ listed = servers /\ looking = "empty" /\ serverCalls = <<>> /\ busyServers = {}
      /\ servers[1].host = 1 /\ servers[1].pinned # 2
      /\ servers[2].host = 2 /\ servers[2].pinned = NoKey
      /\ seen = [acts |-> 0, drafts |-> <<0, 0>>, halfSaved |-> FALSE, unlisted |-> FALSE, mixed |-> FALSE, crossed |-> FALSE]
  <2>1. servers \in [1 .. 2 -> Row] /\ listed = servers /\ looking = "empty" /\ serverCalls = <<>> /\ busyServers = {}
    BY DEF ServerInit
  <2>2. servers[1].host = 1 /\ servers[1].pinned # 2
    BY DEF ServerInit
  <2>3. servers[2] = [host |-> 2, login |-> "privateKey", path |-> "typed", pinned |-> NoKey]
    BY DEF ServerInit
  <2>4. seen = [acts |-> 0, drafts |-> <<0, 0>>, halfSaved |-> FALSE, unlisted |-> FALSE, mixed |-> FALSE, crossed |-> FALSE]
    BY DEF ServerInit
  <2> QED BY <2>1, <2>2, <2>3, <2>4
<1>2. \/ localList = <<>> /\ server = form /\ challenges = none
      \/ /\ servers[1].pinned = NoKey
         /\ localList = [id \in {1} |-> servers[1]] /\ challenges = [none EXCEPT ![1] = 1]
         /\ server = [form EXCEPT !.id = 1, !.host = 1, !.test = shown]
  BY DEF ServerInit
<1>3. 1 \in Ids /\ 2 \in Ids /\ Unsaved_ \notin Ids /\ Ids \subseteq Nat
  BY ListsAre
<1>4. servers \in Lists /\ localList \in Lists
  <2>1. servers[1] \in Row
    BY <1>1
  <2>2. [id \in {1} |-> servers[1]] \in [{1} -> Row]
    BY <2>1
  <2>3. 1 .. 2 \in SUBSET Ids /\ {1} \in SUBSET Ids
    BY <1>3
  <2> QED BY <1>1, <1>2, <2>2, <2>3, ListsAre
<1>5. challenges \in [Ids -> Keys \cup {NoKey}]
  <2>1. none \in [Ids -> Keys \cup {NoKey}] /\ 1 \in Keys
    BY DEF Keys, Hosts
  <2> QED BY <1>2, <2>1
<1>6. shown \in TestOf /\ NoTest \in TestOf
  BY <1>3 DEF NoTest, TestOf, Unsaved_, Keys, Hosts, NoKey
<1>7. form \in ServerForm
  BY <1>6 DEF ServerForm, Hosts, NoHost, Logins, Paths, Unsaved_
<1>8. /\ server \in ServerForm /\ ~server.saving /\ server.draft = 2 /\ server.path = "" /\ server.own = ""
      /\ server.test.status # "testing" /\ (server.test.status = "answered" => server.test.of = server.id)
  <2>1. CASE server = form
    BY <1>7, <2>1 DEF NoTest
  <2>2. CASE server = [form EXCEPT !.id = 1, !.host = 1, !.test = shown]
    <3>1. ~form.saving /\ form.draft = 2 /\ form.path = "" /\ form.own = ""
      OBVIOUS
    <3>2. shown.status = "answered" /\ shown.of = 1 /\ 1 \in Hosts
      BY DEF Hosts
    <3> HIDE DEF form, shown
    <3>3. /\ server \in ServerForm /\ ~server.saving /\ server.draft = 2 /\ server.path = "" /\ server.own = ""
          /\ server.test = shown /\ server.id = 1
      BY <1>3, <1>6, <1>7, <2>2, <3>1, <3>2 DEF ServerForm
    <3> QED BY <3>2, <3>3
  <2> QED BY <1>2, <2>1, <2>2
<1>9. serverCalls \in Seq(ServerCall) /\ CallsFit(serverCalls) /\ seen \in Ghosts
  BY <1>1 DEF CallsFit, Ghosts
<1>10. ServerTypes
  BY <1>1, <1>4, <1>5, <1>8, <1>9 DEF ServerTypes
<1>11. OneSave(serverCalls, server) /\ WaitsFit(server, serverCalls, busyServers)
  <2>1. SavesOf(serverCalls) = {}
    BY <1>1 DEF SavesOf
  <2> QED BY <1>1, <1>8, <2>1 DEF OneSave, WaitsFit
<1>12. PinsTrue
  BY <1>1 DEF PinsTrue, NoKey, Row, Keys, Hosts
<1>13. TestFits /\ PathKept /\ SearchFits
  BY <1>1, <1>8 DEF TestFits, PathKept, SearchFits
<1>14. /\ Numbered(seen.drafts) /\ SavedOnce /\ server.draft <= Len(seen.drafts) /\ 2 \notin Range(seen.drafts)
  <2> DEFINE ds == seen.drafts
  <2>1. ds = <<0, 0>>
    BY <1>1
  <2>2. DOMAIN ds = {1, 2} /\ Len(ds) = 2 /\ \A i \in DOMAIN ds : ds[i] = 0
    BY <2>1
  <2> HIDE DEF ds
  <2>3. Numbered(ds) /\ 2 \notin Range(ds) /\ server.draft <= Len(ds)
    <3>1. \A i \in DOMAIN ds : ds[i] < i /\ ds[i] # 2
      BY <2>2
    <3>2. server.draft <= Len(ds)
      <4>1. server.draft = 2
        BY <1>8
      <4>2. Len(ds) = 2
        BY <2>2
      <4> QED BY <4>1, <4>2
    <3>3. 2 \notin Range(ds)
      BY <3>1 DEF Range
    <3> QED BY <3>1, <3>2, <3>3 DEF Numbered
  <2>4. \A i \in DOMAIN ds : ds[i] = 0
    BY <2>2
  <2> QED BY <2>3, <2>4 DEF ds, SavedOnce
<1>15. DraftSaved(server, serverCalls, localList, seen.drafts) /\ DraftsFit(serverCalls, seen.drafts, seen.halfSaved)
  <2>1. DraftSaved(server, serverCalls, localList, seen.drafts)
    BY <1>8, <1>14 DEF DraftSaved
  <2>2. DOMAIN serverCalls = {}
    BY <1>1
  <2> QED BY <2>1, <2>2 DEF DraftsFit
<1>16. ListsFit(servers, listed, serverCalls, seen)
  BY <1>1 DEF ListsFit, Listings
<1> QED BY <1>10, <1>11, <1>12, <1>13, <1>14, <1>15, <1>16 DEF ServerInv

\* What the invariant says of the dialog.
LEMMA ServerIsTrue ==
    ASSUME ServerInv
    PROVE  ServerTypeOK /\ ServersTrue /\ ServersSettle
<1>1. ServersSettle
  <2> SUFFICES ASSUME serverCalls = <<>> PROVE ~server.saving /\ server.test.status # "testing" /\ busyServers = {}
    BY DEF ServersSettle
  <2>1. SavesOf(serverCalls) = {} /\ DOMAIN serverCalls = {}
    BY DEF SavesOf
  <2> QED BY <2>1 DEF ServerInv, OneSave, WaitsFit
<1>2. ListsTrue
  <2> SUFFICES ASSUME serverCalls = <<>>, ~seen.halfSaved, ~seen.unlisted, ~seen.mixed PROVE listed = servers
    BY DEF ListsTrue
  <2>1. DOMAIN serverCalls = {}
    OBVIOUS
  <2> QED BY <2>1 DEF ServerInv, ListsFit, Listings
<1>3. Cardinality(SavesOf(serverCalls)) = IF server.saving THEN 1 ELSE 0
  <2>1. CASE SavesOf(serverCalls) = {}
    BY <2>1, FS_EmptySet DEF ServerInv, OneSave
  <2>2. CASE SavesOf(serverCalls) # {}
    <3>1. PICK i \in SavesOf(serverCalls) : TRUE
      BY <2>2
    <3>2. SavesOf(serverCalls) = {i}
      BY <3>1 DEF ServerInv, OneSave
    <3>3. Cardinality({i}) = 1
      BY FS_Singleton
    <3> QED BY <2>2, <3>2, <3>3 DEF ServerInv, OneSave
  <2> QED BY <2>1, <2>2
<1>4. ServerTypeOK
  <2>1. /\ servers \in Lists /\ listed \in Lists /\ localList \in Lists /\ server \in ServerForm
        /\ challenges \in [Ids -> Keys \cup {NoKey}] /\ looking \in {"off", "empty", "filled"} /\ busyServers \subseteq Ids
    BY DEF ServerInv, ServerTypes
  <2>2. Listing(servers) /\ Listing(listed) /\ Listing(localList)
    BY <2>1, ListsAre
  <2>3. server.id \in Ids \cup {Unsaved_} /\ server.host \in Hosts \cup {NoHost} /\ server.login \in Logins /\ server.path \in Paths
    BY <2>1 DEF ServerForm
  <2> QED BY <1>3, <2>1, <2>2, <2>3 DEF ServerTypeOK, SavesOf
<1> QED BY <1>1, <1>2, <1>4 DEF ServerInv, ServersTrue

-----------------------------------------------------------------------------
(* The git review: its invariant.                                          *)

Review == [repo : Repositories, section : GitSections, shown : [Slots -> Nat],
           chosen : [Slots -> GitItems \cup {NoItem}], busy : [Slots -> BOOLEAN], calls : Seq(GitCall)]

\* What is shown is the answer of a call for its slot, and what is chosen is in it.
ShownFits(g) ==
    \A sk \in Slots :
        /\ g.shown[sk] # NoCall => g.shown[sk] \in DOMAIN g.calls /\ g.calls[g.shown[sk]].slot = sk
        /\ g.chosen[sk] # NoItem => g.shown[sk] # NoCall /\ g.chosen[sk] \in g.calls[g.shown[sk]].items

\* The calls for a slot whose answers will be taken
Unheard(g, sk) == {i \in DOMAIN g.calls : g.calls[i].slot = sk /\ g.calls[i].live}

\* What is loaded under a list, when item is chosen in it and it was call "list"
UnderFits(g, sk, item, list) ==
    /\ item = NoItem => g.shown[sk] = NoCall /\ Unheard(g, sk) = {}
    /\ \A i \in Unheard(g, sk) : g.calls[i].effect /\ g.calls[i].of = item /\ i > list
    /\ g.shown[sk] # NoCall /\ ~g.busy[sk] => g.calls[g.shown[sk]].of = item /\ g.shown[sk] > list
    /\ item # NoItem /\ g.busy[sk] => Unheard(g, sk) # {}

\* Nothing counts as chosen in a section that is not on screen.
OnScreen(g, sk) == IF g.section = sk[1] THEN g.chosen[ListOf(sk)] ELSE NoItem
LevelFits(g, sk) == UnderFits(g, sk, OnScreen(g, sk), g.shown[ListOf(sk)])

\* There is a last call for the list on screen; without a race no other one is under way,
\* and its answer is shown when it has come.
ListFits(g, race) ==
    LET sk == <<g.section, 1>> IN
    /\ g.busy[sk] => Unheard(g, sk) # {}
    /\ \E last \in DOMAIN g.calls :
          /\ g.calls[last].slot = sk /\ g.calls[last].repo = g.repo
          /\ \A i \in DOMAIN g.calls : g.calls[i].slot = sk => i <= last
          /\ ~race => /\ \A i \in Unheard(g, sk) : i = last
                      /\ g.calls[last].live \/ g.shown[sk] \in {NoCall, last}

GitInv ==
    /\ git \in Review /\ ShownFits(git) /\ raced \in BOOLEAN
    /\ \A sk \in Under : LevelFits(git, sk)
    /\ ListFits(git, raced)

\* The slots: the list of each section, and what hangs on it.
LEMMA SlotsAre ==
    /\ \A s \in GitSections : <<s, 1>> \in Slots /\ <<s, 1>> \notin Under
    /\ \A sk \in Slots : sk[1] \in GitSections /\ sk[2] \in Levels /\ sk = <<sk[1], sk[2]>> /\ sk[2] <= Depth(sk[1])
    /\ \A sk \in Slots : sk \notin Under => sk = <<sk[1], 1>>
    /\ \A sk \in Under : /\ sk \in Slots /\ ListOf(sk) \in Slots /\ ListOf(sk) # sk /\ sk[2] \in {2, 3}
                         /\ ListOf(sk) = <<sk[1], sk[2] - 1>>
    /\ \A s \in GitSections, k \in {2, 3} : k <= Depth(s) => <<s, k>> \in Under
    /\ \A s \in GitSections : ListOf(<<s, 2>>) = <<s, 1>> /\ ListOf(<<s, 3>>) = <<s, 2>>
    /\ \A s \in GitSections : Depth(s) \in Levels
<1>1. \A s \in GitSections : Depth(s) \in Levels
  BY DEF Depth, Levels
<1>2. \A sk \in Slots : sk[1] \in GitSections /\ sk[2] \in Levels /\ sk = <<sk[1], sk[2]>> /\ sk[2] <= Depth(sk[1])
  BY DEF Slots
<1>3. \A s \in GitSections, k \in Levels : k <= Depth(s) => <<s, k>> \in Slots /\ <<s, k>>[1] = s /\ <<s, k>>[2] = k
  BY DEF Slots
<1>4. \A s \in GitSections : <<s, 1>> \in Slots /\ <<s, 1>> \notin Under
  <2> TAKE s \in GitSections
  <2>1. 1 \in Levels /\ 1 <= Depth(s)
    BY <1>1 DEF Levels
  <2>2. <<s, 1>> \in Slots /\ <<s, 1>>[2] = 1
    BY <1>3, <2>1
  <2>3. \A sk \in Under : sk[2] > 1
    BY DEF Under
  <2>4. ~(1 > 1)
    OBVIOUS
  <2> QED BY <2>2, <2>3, <2>4
<1>5. \A sk \in Slots : sk \notin Under => sk = <<sk[1], 1>>
  BY <1>2 DEF Under, Levels
<1>6. ASSUME NEW sk \in Under
      PROVE  /\ sk \in Slots /\ ListOf(sk) \in Slots /\ ListOf(sk) # sk /\ sk[2] \in {2, 3}
             /\ ListOf(sk) = <<sk[1], sk[2] - 1>>
  <2>1. sk \in Slots /\ sk[2] > 1
    BY DEF Under
  <2>2. sk[1] \in GitSections /\ sk[2] \in {2, 3} /\ sk[2] <= Depth(sk[1]) /\ Depth(sk[1]) \in Levels
    BY <1>1, <1>2, <2>1 DEF Levels
  <2>3. sk[2] - 1 \in Levels /\ sk[2] - 1 <= Depth(sk[1]) /\ sk[2] - 1 # sk[2]
    BY <2>2 DEF Levels
  <2>4. ListOf(sk) \in Slots /\ ListOf(sk)[2] # sk[2]
    BY <1>3, <2>2, <2>3 DEF ListOf
  <2> QED BY <2>1, <2>2, <2>4 DEF ListOf
<1>7. \A s \in GitSections, k \in {2, 3} : k <= Depth(s) => <<s, k>> \in Under
  <2> TAKE s \in GitSections, k \in {2, 3}
  <2> HAVE k <= Depth(s)
  <2>1. k \in Levels /\ k > 1
    BY DEF Levels
  <2>2. <<s, k>> \in Slots /\ <<s, k>>[2] = k
    BY <1>3, <2>1
  <2> QED BY <2>1, <2>2 DEF Under
<1>8. \A s \in GitSections : ListOf(<<s, 2>>) = <<s, 1>> /\ ListOf(<<s, 3>>) = <<s, 2>>
  BY DEF ListOf
<1> QED BY <1>1, <1>2, <1>4, <1>5, <1>6, <1>7, <1>8

\* What is selected is what is chosen.
LEMMA SelectedIs ==
    ASSUME NEW g, g \in Review, ShownFits(g), NEW s, NEW k, <<s, k>> \in Slots
    PROVE  Selected(g, s, k) = g.chosen[<<s, k>>]
  BY DEF ShownFits, Selected

\* The effect does not run again while the same item of the same list is chosen.
LEMMA DependsIs ==
    ASSUME NEW b, b \in Review, ShownFits(b), NEW g, g \in Review, ShownFits(g),
           NEW sk \in Under, Depends(b, sk[1], sk[2]) = Depends(g, sk[1], sk[2])
    PROVE  /\ OnScreen(b, sk) = OnScreen(g, sk)
           /\ OnScreen(g, sk) # NoItem => b.shown[ListOf(sk)] = g.shown[ListOf(sk)]
<1> DEFINE s == sk[1]
           k == sk[2]
           l == ListOf(sk)
<1>1. l = <<s, k - 1>> /\ l \in Slots
  BY SlotsAre
<1>2. Selected(b, s, k - 1) = b.chosen[l] /\ Selected(g, s, k - 1) = g.chosen[l]
  BY <1>1, SelectedIs
<1>3. /\ (b.section = s) = (g.section = s)
      /\ Selected(b, s, k - 1) = Selected(g, s, k - 1)
      /\ (IF Selected(b, s, k - 1) = NoItem THEN NoCall ELSE b.shown[<<s, k - 1>>])
           = (IF Selected(g, s, k - 1) = NoItem THEN NoCall ELSE g.shown[<<s, k - 1>>])
  <2> DEFINE b1 == (b.section = s)
             g1 == (g.section = s)
             b2 == IF s \in {"history", "branches"} THEN b.repo ELSE "any"
             g2 == IF s \in {"history", "branches"} THEN g.repo ELSE "any"
             b3 == Selected(b, s, k - 1)
             g3 == Selected(g, s, k - 1)
             b4 == IF Selected(b, s, k - 1) = NoItem THEN NoCall ELSE b.shown[<<s, k - 1>>]
             g4 == IF Selected(g, s, k - 1) = NoItem THEN NoCall ELSE g.shown[<<s, k - 1>>]
  <2>1. <<b1, b2, b3, b4>> = <<g1, g2, g3, g4>>
    BY DEF Depends
  <2> HIDE DEF b1, g1, b2, g2, b3, g3, b4, g4
  <2>2. b1 = g1 /\ b3 = g3 /\ b4 = g4
    BY <2>1
  <2> QED BY <2>2 DEF b1, g1, b3, g3, b4, g4
<1> HIDE DEF l
<1>4. b.chosen[l] = g.chosen[l] /\ (g.chosen[l] # NoItem => b.shown[l] = g.shown[l])
  BY <1>1, <1>2, <1>3
<1> QED BY <1>3, <1>4 DEF OnScreen, l

\* Only the slots of S are touched between g and h.
Touches(g, h, S) ==
    /\ h \in Review /\ ShownFits(h) /\ h.repo = g.repo /\ h.section = g.section
    /\ \A tk \in Slots \ S : h.shown[tk] = g.shown[tk] /\ h.chosen[tk] = g.chosen[tk] /\ h.busy[tk] = g.busy[tk]
    /\ DOMAIN g.calls \subseteq DOMAIN h.calls
    /\ \A i \in DOMAIN g.calls : h.calls[i].slot = g.calls[i].slot /\ (g.calls[i].slot \notin S => h.calls[i] = g.calls[i])
    /\ \A i \in DOMAIN h.calls : i \notin DOMAIN g.calls => h.calls[i].slot \in S

\* A slot that is not touched keeps its calls, and what fits under its list.
LEMMA TouchKeeps ==
    ASSUME NEW g, g \in Review, ShownFits(g), NEW h, NEW S, Touches(g, h, S), NEW tk \in Slots, tk \notin S
    PROVE  /\ Unheard(h, tk) = Unheard(g, tk) /\ \A i \in Unheard(g, tk) : h.calls[i] = g.calls[i]
           /\ \A item, list : UnderFits(g, tk, item, list) => UnderFits(h, tk, item, list)
<1>1. Unheard(h, tk) = Unheard(g, tk)
  BY DEF Unheard, Touches
<1>2. \A i \in Unheard(g, tk) : i \in DOMAIN g.calls /\ g.calls[i].slot = tk
  BY DEF Unheard
<1>3. h.shown[tk] = g.shown[tk] /\ h.busy[tk] = g.busy[tk]
  BY DEF Touches
<1>4. \A i \in DOMAIN g.calls : g.calls[i].slot = tk => h.calls[i] = g.calls[i]
  BY DEF Touches
<1>5. g.shown[tk] # NoCall => h.calls[g.shown[tk]] = g.calls[g.shown[tk]]
  BY <1>4 DEF ShownFits
<1>6. \A item, list : UnderFits(g, tk, item, list) => UnderFits(h, tk, item, list)
  BY <1>1, <1>2, <1>3, <1>4, <1>5 DEF UnderFits
<1> QED BY <1>1, <1>2, <1>4, <1>6

\* The list on screen still fits when its slot is not touched.
LEMMA TouchKeepsList ==
    ASSUME NEW g, g \in Review, ShownFits(g), NEW h, NEW S, <<g.section, 1>> \notin S, Touches(g, h, S),
           NEW race, ListFits(g, race)
    PROVE  ListFits(h, race)
<1> DEFINE tk == <<g.section, 1>>
<1>1. tk \in Slots /\ tk \notin S
  BY SlotsAre DEF Review
<1>2. Unheard(h, tk) = Unheard(g, tk)
  BY <1>1, TouchKeeps
<1>3. h.section = g.section /\ h.repo = g.repo /\ h.busy[tk] = g.busy[tk] /\ h.shown[tk] = g.shown[tk]
      /\ DOMAIN g.calls \subseteq DOMAIN h.calls
  BY <1>1 DEF Touches
<1>4. \A i \in DOMAIN g.calls : g.calls[i].slot = tk => h.calls[i] = g.calls[i]
  BY <1>1 DEF Touches
<1>5. \A i \in DOMAIN h.calls : h.calls[i].slot = tk => i \in DOMAIN g.calls /\ g.calls[i].slot = tk
  BY <1>1 DEF Touches
<1>6. PICK last \in DOMAIN g.calls :
          /\ g.calls[last].slot = tk /\ g.calls[last].repo = g.repo
          /\ \A i \in DOMAIN g.calls : g.calls[i].slot = tk => i <= last
          /\ ~race => /\ \A i \in Unheard(g, tk) : i = last
                      /\ g.calls[last].live \/ g.shown[tk] \in {NoCall, last}
  BY DEF ListFits
<1>7. g.busy[tk] => Unheard(g, tk) # {}
  BY DEF ListFits
<1> HIDE DEF tk
<1>8. /\ last \in DOMAIN h.calls /\ h.calls[last].slot = tk /\ h.calls[last].repo = h.repo
      /\ \A i \in DOMAIN h.calls : h.calls[i].slot = tk => i <= last
      /\ ~race => /\ \A i \in Unheard(h, tk) : i = last
                  /\ h.calls[last].live \/ h.shown[tk] \in {NoCall, last}
  BY <1>2, <1>3, <1>4, <1>5, <1>6
<1>9. h.busy[tk] => Unheard(h, tk) # {}
  BY <1>2, <1>3, <1>7
<1> QED BY <1>3, <1>8, <1>9 DEF ListFits, tk

\* One change after the other
LEMMA TouchMore ==
    ASSUME NEW g, NEW h, NEW x, NEW S, NEW T, Touches(g, h, S), Touches(h, x, T)
    PROVE  Touches(g, x, S \cup T)
  BY DEF Touches

-----------------------------------------------------------------------------
(* Calls of the tab.                                                       *)

\* What is kept when calls are cancelled
SameBut(g, h) ==
    /\ h \in Review /\ ShownFits(h) /\ h.repo = g.repo /\ h.section = g.section
    /\ h.shown = g.shown /\ h.chosen = g.chosen

\* What the cleanup of the effects of some slots changes.
LEMMA CancelledIs ==
    ASSUME NEW g, g \in Review, ShownFits(g), NEW slots, NEW h, h = Cancelled(g, slots)
    PROVE  /\ SameBut(g, h) /\ h.busy = g.busy /\ DOMAIN h.calls = DOMAIN g.calls
           /\ \A i \in DOMAIN g.calls :
                  /\ h.calls[i].slot = g.calls[i].slot /\ h.calls[i].repo = g.calls[i].repo /\ h.calls[i].of = g.calls[i].of
                  /\ h.calls[i].effect = g.calls[i].effect /\ h.calls[i].items = g.calls[i].items
                  /\ h.calls[i].live => g.calls[i].live /\ ~(g.calls[i].slot \in slots /\ g.calls[i].effect)
                  /\ g.calls[i].slot \notin slots => h.calls[i] = g.calls[i]
<1> DEFINE cs == g.calls
           ds == [i \in DOMAIN cs |-> IF cs[i].slot \in slots /\ cs[i].effect THEN [cs[i] EXCEPT !.live = FALSE] ELSE cs[i]]
<1>1. h = [g EXCEPT !.calls = ds]
  BY DEF Cancelled
<1>2. cs \in Seq(GitCall) /\ DOMAIN cs = 1 .. Len(cs) /\ Len(cs) \in Nat
  BY DEF Review
<1> HIDE DEF cs
<1>3. DOMAIN ds = DOMAIN cs
  OBVIOUS
<1>4. ASSUME NEW i \in DOMAIN cs
      PROVE  /\ ds[i] \in GitCall
             /\ ds[i].slot = cs[i].slot /\ ds[i].repo = cs[i].repo /\ ds[i].of = cs[i].of
             /\ ds[i].effect = cs[i].effect /\ ds[i].items = cs[i].items
             /\ ds[i].live => cs[i].live /\ ~(cs[i].slot \in slots /\ cs[i].effect)
             /\ cs[i].slot \notin slots => ds[i] = cs[i]
  <2> DEFINE c == cs[i]
  <2>1. c \in GitCall
    BY <1>2
  <2>2. ds[i] = IF c.slot \in slots /\ c.effect THEN [c EXCEPT !.live = FALSE] ELSE c
    OBVIOUS
  <2> HIDE DEF c, ds
  <2>3. CASE c.slot \in slots /\ c.effect
    BY <2>1, <2>2, <2>3 DEF GitCall, c
  <2>4. CASE ~(c.slot \in slots /\ c.effect)
    BY <2>1, <2>2, <2>4 DEF c
  <2> QED BY <2>3, <2>4
<1> HIDE DEF ds
<1>5. ds \in Seq(GitCall)
  <2>1. ds \in [1 .. Len(cs) -> GitCall]
    <3>1. \A i \in DOMAIN cs : ds[i] \in GitCall
      BY <1>4
    <3>2. ds = [i \in DOMAIN cs |-> ds[i]]
      BY DEF ds
    <3> QED BY <1>2, <3>1, <3>2
  <2> QED BY <1>2, <2>1, SeqDef
<1>6. /\ h \in Review /\ h.repo = g.repo /\ h.section = g.section /\ h.shown = g.shown /\ h.chosen = g.chosen
      /\ h.busy = g.busy /\ h.calls = ds
  BY <1>1, <1>5 DEF Review
<1>7. ShownFits(h)
  <2> SUFFICES ASSUME NEW sk \in Slots
               PROVE  /\ h.shown[sk] # NoCall => h.shown[sk] \in DOMAIN h.calls /\ h.calls[h.shown[sk]].slot = sk
                      /\ h.chosen[sk] # NoItem => h.shown[sk] # NoCall /\ h.chosen[sk] \in h.calls[h.shown[sk]].items
    BY DEF ShownFits
  <2>1. /\ g.shown[sk] # NoCall => g.shown[sk] \in DOMAIN cs /\ cs[g.shown[sk]].slot = sk
        /\ g.chosen[sk] # NoItem => g.shown[sk] # NoCall /\ g.chosen[sk] \in cs[g.shown[sk]].items
    BY DEF ShownFits, cs
  <2> QED BY <1>3, <1>4, <1>6, <2>1
<1> QED BY <1>3, <1>4, <1>6, <1>7 DEF SameBut, cs

\* A call is made, by an effect or by a refresh.
LEMMA AskedIs ==
    ASSUME NEW g, g \in Review, ShownFits(g), NEW sk \in Slots, NEW item \in GitItems \cup {NoItem}, NEW e \in BOOLEAN,
           NEW h, h = Asked(g, sk, item, e), NEW n, n = Len(g.calls) + 1
    PROVE  /\ SameBut(g, h) /\ h.busy[sk] /\ \A tk \in Slots : tk # sk => h.busy[tk] = g.busy[tk]
           /\ DOMAIN h.calls = DOMAIN g.calls \cup {n}
           /\ n \in Nat /\ \A i \in DOMAIN g.calls : i \in Nat /\ i < n /\ h.calls[i] = g.calls[i]
           /\ h.calls[n].slot = sk /\ h.calls[n].of = item /\ h.calls[n].repo = g.repo /\ h.calls[n].live
           /\ h.calls[n].effect = e
<1> DEFINE c == [slot |-> sk, repo |-> g.repo, of |-> item, effect |-> e, live |-> TRUE, items |-> {}]
           cs == g.calls
           ds == Append(cs, c)
           bs == [g.busy EXCEPT ![sk] = TRUE]
<1>1. h = [g EXCEPT !.busy = bs, !.calls = ds]
  BY DEF Asked, Review
<1>2. c \in GitCall /\ c.slot = sk /\ c.of = item /\ c.repo = g.repo /\ c.live /\ c.effect = e
  BY DEF GitCall, Review
<1>3. cs \in Seq(GitCall) /\ Len(cs) \in Nat
  BY DEF Review
<1>4. bs \in [Slots -> BOOLEAN] /\ bs[sk] /\ \A tk \in Slots : tk # sk => bs[tk] = g.busy[tk]
  BY DEF Review
<1> HIDE DEF c, bs
<1>5. /\ ds \in Seq(GitCall) /\ DOMAIN ds = DOMAIN cs \cup {n} /\ n \in Nat
      /\ \A i \in DOMAIN cs : i \in Nat /\ i < n /\ ds[i] = cs[i]
      /\ ds[n] = c
  BY <1>2, <1>3
<1> HIDE DEF ds, cs
<1>6. /\ h \in Review /\ h.repo = g.repo /\ h.section = g.section /\ h.shown = g.shown /\ h.chosen = g.chosen
      /\ h.busy = bs /\ h.calls = ds
  BY <1>1, <1>4, <1>5 DEF Review
<1>7. ShownFits(h)
  <2> SUFFICES ASSUME NEW tk \in Slots
               PROVE  /\ h.shown[tk] # NoCall => h.shown[tk] \in DOMAIN h.calls /\ h.calls[h.shown[tk]].slot = tk
                      /\ h.chosen[tk] # NoItem => h.shown[tk] # NoCall /\ h.chosen[tk] \in h.calls[h.shown[tk]].items
    BY DEF ShownFits
  <2>1. /\ g.shown[tk] # NoCall => g.shown[tk] \in DOMAIN cs /\ cs[g.shown[tk]].slot = tk
        /\ g.chosen[tk] # NoItem => g.shown[tk] # NoCall /\ g.chosen[tk] \in cs[g.shown[tk]].items
    BY DEF ShownFits, cs
  <2> QED BY <1>5, <1>6, <2>1
<1> QED BY <1>2, <1>4, <1>5, <1>6, <1>7 DEF SameBut, cs

-----------------------------------------------------------------------------
(* The effects of a change.                                                *)

\* What a slot shows goes.
Emptied(g, sk) == [g EXCEPT !.shown[sk] = NoCall, !.chosen[sk] = NoItem]

\* What emptying a slot changes.
LEMMA EmptyIs ==
    ASSUME NEW g, g \in Review, ShownFits(g), NEW sk \in Slots, NEW h, h = Emptied(g, sk)
    PROVE  /\ h \in Review /\ ShownFits(h) /\ h.repo = g.repo /\ h.section = g.section /\ h.busy = g.busy /\ h.calls = g.calls
           /\ h.shown[sk] = NoCall /\ h.chosen[sk] = NoItem
           /\ \A tk \in Slots : tk # sk => h.shown[tk] = g.shown[tk] /\ h.chosen[tk] = g.chosen[tk]
<1> DEFINE ss == [g.shown EXCEPT ![sk] = NoCall]
           cs == [g.chosen EXCEPT ![sk] = NoItem]
<1>1. h = [g EXCEPT !.shown = ss, !.chosen = cs]
  BY DEF Review, Emptied
<1>2. /\ ss \in [Slots -> Nat] /\ cs \in [Slots -> GitItems \cup {NoItem}]
      /\ ss[sk] = NoCall /\ cs[sk] = NoItem
      /\ \A tk \in Slots : tk # sk => ss[tk] = g.shown[tk] /\ cs[tk] = g.chosen[tk]
  BY DEF Review, NoCall
<1> HIDE DEF ss, cs
<1>3. /\ h \in Review /\ h.repo = g.repo /\ h.section = g.section /\ h.busy = g.busy /\ h.calls = g.calls
      /\ h.shown = ss /\ h.chosen = cs
  BY <1>1, <1>2 DEF Review
<1>4. ShownFits(h)
  BY <1>2, <1>3 DEF ShownFits
<1> QED BY <1>2, <1>3, <1>4

\* The effect of a slot leaves in it what fits the list it hangs on, and touches no other one.
LEMMA EffectKeeps ==
    ASSUME NEW b, b \in Review, ShownFits(b), NEW g, g \in Review, ShownFits(g), NEW sk \in Under,
           UnderFits(g, sk, OnScreen(b, sk), b.shown[ListOf(sk)]),
           NEW h, h = RunEffect(b, g, sk[1], sk[2])
    PROVE  Touches(g, h, {sk}) /\ LevelFits(h, sk)
<1> DEFINE s == sk[1]
           k == sk[2]
           l == ListOf(sk)
           c == Cancelled(g, {<<s, k>>})
           e == [c EXCEPT !.shown[<<s, k>>] = NoCall, !.chosen[<<s, k>>] = NoItem]
           item == Selected(c, s, k - 1)
<1>1. sk \in Slots /\ sk = <<s, k>> /\ k <= Depth(s) /\ l = <<s, k - 1>> /\ l \in Slots /\ l # sk /\ k \in {2, 3} /\ Depth(s) \in Levels
  BY SlotsAre
<1>2. CASE Depends(b, s, k) = Depends(g, s, k)
  <2>1. h = g
    BY <1>2 DEF RunEffect
  <2>2. Touches(g, g, {sk})
    BY DEF Touches
  <2>3. OnScreen(b, sk) = OnScreen(g, sk) /\ (OnScreen(g, sk) # NoItem => b.shown[l] = g.shown[l])
    BY <1>2, DependsIs
  <2>4. LevelFits(g, sk)
    BY <2>3 DEF LevelFits, UnderFits
  <2> QED BY <2>1, <2>2, <2>4
<1>3. CASE Depends(b, s, k) # Depends(g, s, k)
  <2>1. h = LoadUnder(c, s, k)
    BY <1>1, <1>3 DEF RunEffect, Levels
  <2> DEFINE slots == {<<s, k>>}
  <2>2. /\ SameBut(g, c) /\ c.busy = g.busy /\ DOMAIN c.calls = DOMAIN g.calls
        /\ \A i \in DOMAIN g.calls :
               /\ c.calls[i].slot = g.calls[i].slot /\ c.calls[i].of = g.calls[i].of
               /\ c.calls[i].live => g.calls[i].live /\ ~(g.calls[i].slot = sk /\ g.calls[i].effect)
               /\ g.calls[i].slot # sk => c.calls[i] = g.calls[i]
    <3>1. slots = {sk} /\ c = Cancelled(g, slots)
      BY <1>1
    <3> HIDE DEF slots, c
    <3> QED BY <3>1, CancelledIs
  <2>3. Unheard(c, sk) = {}
    BY <2>2 DEF Unheard, UnderFits
  <2>4. item = c.chosen[l]
    BY <1>1, <2>2, SelectedIs DEF SameBut
  <2>5. h = IF c.section # s \/ item = NoItem THEN e
            ELSE Asked(IF IsFileDiff(s, k) THEN e ELSE c, sk, item, TRUE)
    <3> HIDE DEF c
    <3> QED BY <1>1, <2>1 DEF LoadUnder
  <2>6. e = Emptied(c, sk)
    BY <1>1 DEF Emptied
  <2> HIDE DEF c, e, item
  <2>7. /\ e \in Review /\ ShownFits(e) /\ e.repo = c.repo /\ e.section = c.section /\ e.busy = c.busy /\ e.calls = c.calls
        /\ e.shown[sk] = NoCall /\ e.chosen[sk] = NoItem
        /\ \A tk \in Slots : tk # sk => e.shown[tk] = c.shown[tk] /\ e.chosen[tk] = c.chosen[tk]
    <3>1. c \in Review /\ ShownFits(c)
      BY <2>2 DEF SameBut
    <3>2. sk \in Slots
      BY <1>1
    <3> QED BY <2>6, <3>1, <3>2, EmptyIs
  <2>8. Touches(g, c, {sk}) /\ Touches(g, e, {sk})
    BY <2>2, <2>7 DEF Touches, SameBut
  <2>9. CASE c.section # s \/ item = NoItem
    <3>1. h = e
      BY <2>5, <2>9
    <3>2. OnScreen(e, sk) = NoItem
      BY <1>1, <2>4, <2>7, <2>9 DEF OnScreen
    <3>3. Unheard(e, sk) = {}
      BY <2>3, <2>7 DEF Unheard
    <3>4. LevelFits(e, sk)
      BY <2>7, <3>2, <3>3 DEF LevelFits, UnderFits
    <3> QED BY <2>8, <3>1, <3>4
  <2>10. CASE ~(c.section # s \/ item = NoItem)
    <3> DEFINE f == IF IsFileDiff(s, k) THEN e ELSE c
               n == Len(f.calls) + 1
    <3>1. h = Asked(f, sk, item, TRUE)
      BY <2>5, <2>10
    <3>2. /\ f \in Review /\ ShownFits(f) /\ Touches(g, f, {sk}) /\ Unheard(f, sk) = {}
          /\ f.section = s /\ f.chosen[l] = item /\ f.shown[l] = c.shown[l]
      <4>1. f = e \/ f = c
        OBVIOUS
      <4> HIDE DEF f
      <4>2. CASE f = e
        BY <1>1, <2>3, <2>4, <2>7, <2>8, <2>10, <4>2 DEF Unheard
      <4>3. CASE f = c
        BY <2>2, <2>3, <2>4, <2>8, <2>10, <4>3 DEF SameBut
      <4> QED BY <4>1, <4>2, <4>3
    <3> HIDE DEF f
    <3>3. item \in GitItems \cup {NoItem} /\ item # NoItem
      BY <1>1, <2>10, <3>2 DEF Review
    <3>4. /\ SameBut(f, h) /\ h.busy[sk] /\ (\A tk \in Slots : tk # sk => h.busy[tk] = f.busy[tk])
          /\ DOMAIN h.calls = DOMAIN f.calls \cup {n}
          /\ n \in Nat /\ (\A i \in DOMAIN f.calls : i \in Nat /\ i < n /\ h.calls[i] = f.calls[i])
          /\ h.calls[n].slot = sk /\ h.calls[n].of = item /\ h.calls[n].live
          /\ h.calls[n].effect = TRUE
      <4> DEFINE yes == TRUE
      <4>1. yes \in BOOLEAN /\ h = Asked(f, sk, item, yes)
        BY <3>1
      <4> HIDE DEF yes
      <4>2. f \in Review /\ ShownFits(f) /\ sk \in Slots /\ item \in GitItems \cup {NoItem}
        BY <1>1, <3>2, <3>3
      <4>3. n = Len(f.calls) + 1
        OBVIOUS
      <4> HIDE DEF n
      <4>4. /\ SameBut(f, h) /\ h.busy[sk] /\ (\A tk \in Slots : tk # sk => h.busy[tk] = f.busy[tk])
            /\ DOMAIN h.calls = DOMAIN f.calls \cup {n}
        BY <4>1, <4>2, <4>3, AskedIs
      <4>5. /\ n \in Nat /\ \A i \in DOMAIN f.calls : i \in Nat /\ i < n /\ h.calls[i] = f.calls[i]
            /\ h.calls[n].slot = sk /\ h.calls[n].of = item /\ h.calls[n].live
            /\ h.calls[n].effect = yes
        BY <4>1, <4>2, <4>3, AskedIs
      <4> QED BY <4>4, <4>5 DEF yes
    <3> HIDE DEF n
    <3>5. Touches(g, h, {sk})
      BY <3>2, <3>4 DEF Touches, SameBut
    <3>6. Unheard(h, sk) = {n}
      BY <3>2, <3>4 DEF Unheard
    <3>7. OnScreen(h, sk) = item
      BY <3>2, <3>4 DEF OnScreen, SameBut
    <3>8. n > h.shown[l]
      <4>1. h.shown[l] = f.shown[l] /\ (f.shown[l] = NoCall \/ f.shown[l] \in DOMAIN f.calls)
        BY <1>1, <3>2, <3>4 DEF SameBut, ShownFits
      <4>2. n > 0
        BY <3>2, <3>4, SeqDef DEF Review, n
      <4> QED BY <3>4, <4>1, <4>2 DEF NoCall
    <3>9. LevelFits(h, sk)
      BY <3>3, <3>4, <3>6, <3>7, <3>8 DEF LevelFits, UnderFits
    <3> QED BY <3>5, <3>9
  <2> QED BY <2>9, <2>10
<1> QED BY <1>2, <1>3

\* What hangs on the list of a section
UnderOf(s) == {sk \in Under : sk[1] = s}

\* The effects of one section
LEMMA SectionKeeps ==
    ASSUME NEW b, b \in Review, ShownFits(b), NEW g, g \in Review, ShownFits(g), NEW s \in GitSections,
           \A sk \in UnderOf(s) : UnderFits(g, sk, OnScreen(b, sk), b.shown[ListOf(sk)]),
           NEW h, h = RunEffect(b, RunEffect(b, g, s, 2), s, 3)
    PROVE  Touches(g, h, UnderOf(s)) /\ \A sk \in UnderOf(s) : LevelFits(h, sk)
<1> DEFINE two   == <<s, 2>>
           three == <<s, 3>>
           x     == RunEffect(b, g, s, 2)
<1>1. /\ two # three /\ <<s, 1>> # two /\ <<s, 1>> # three /\ two[1] = s /\ two[2] = 2 /\ three[1] = s /\ three[2] = 3
      /\ ListOf(two) = <<s, 1>> /\ ListOf(three) = two /\ Depth(s) \in 1 .. 3
  BY SlotsAre DEF Levels
<1>2. UnderOf(s) = IF Depth(s) = 1 THEN {} ELSE IF Depth(s) = 2 THEN {two} ELSE {two, three}
  <2>1. \A sk \in UnderOf(s) : sk \in Slots /\ sk \in Under /\ sk[1] = s /\ sk[2] \in {2, 3} /\ sk = <<s, sk[2]>> /\ sk[2] <= Depth(s)
    BY SlotsAre DEF UnderOf
  <2>2. 2 <= Depth(s) => two \in UnderOf(s)
    BY <1>1, SlotsAre DEF UnderOf
  <2>3. 3 <= Depth(s) => three \in UnderOf(s)
    BY <1>1, SlotsAre DEF UnderOf
  <2>4. \A sk \in UnderOf(s) : sk = two \/ (sk = three /\ Depth(s) = 3)
    BY <1>1, <2>1
  <2>5. Depth(s) = 1 => UnderOf(s) = {}
    BY <2>1
  <2> QED BY <1>1, <2>2, <2>3, <2>4, <2>5
<1>3. \A S : Touches(g, g, S)
  BY DEF Touches
<1>4. CASE Depth(s) = 1
  <2>1. x = g
    BY <1>4 DEF RunEffect
  <2>2. h = g
    BY <1>4, <2>1 DEF RunEffect
  <2> QED BY <1>2, <1>3, <1>4, <2>2
<1>5. CASE Depth(s) # 1
  <2>1. two \in Under /\ two \in UnderOf(s)
    BY <1>1, <1>2, <1>5 DEF UnderOf
  <2>2. x = RunEffect(b, g, two[1], two[2])
    BY <1>1
  <2>3. UnderFits(g, two, OnScreen(b, two), b.shown[ListOf(two)])
    BY <2>1
  <2> HIDE DEF x, two
  <2>4. Touches(g, x, {two}) /\ LevelFits(x, two)
    BY <2>1, <2>2, <2>3, EffectKeeps
  <2>5. x \in Review /\ ShownFits(x)
    BY <2>4 DEF Touches
  <2>6. CASE Depth(s) = 2
    <3>1. h = x
      BY <2>6 DEF RunEffect, x
    <3>2. UnderOf(s) = {two}
      BY <1>2, <2>6
    <3> QED BY <2>4, <3>1, <3>2
  <2>7. CASE Depth(s) = 3
    <3>1. three \in Under /\ three \in UnderOf(s) /\ UnderOf(s) = {two, three} /\ three \in Slots
      BY <1>1, <1>2, <2>7, SlotsAre DEF UnderOf
    <3>2. UnderFits(x, three, OnScreen(b, three), b.shown[ListOf(three)])
      <4>1. UnderFits(g, three, OnScreen(b, three), b.shown[ListOf(three)])
        BY <3>1
      <4>2. three \notin {two}
        BY <1>1
      <4> HIDE DEF three
      <4> QED BY <2>4, <3>1, <4>1, <4>2, TouchKeeps
    <3>3. h = RunEffect(b, x, three[1], three[2])
      BY <1>1 DEF x
    <3> HIDE DEF three
    <3>4. Touches(x, h, {three}) /\ LevelFits(h, three)
      BY <2>5, <3>1, <3>2, <3>3, EffectKeeps
    <3>5. Touches(g, h, {two, three})
      <4>1. {two} \cup {three} = {two, three}
        OBVIOUS
      <4> QED BY <2>4, <3>4, <4>1, TouchMore
    <3>6. LevelFits(h, two)
      <4>1. two \in Slots /\ ListOf(two) \in Slots /\ two \notin {three} /\ ListOf(two) \notin {three}
        BY <1>1, <2>1, SlotsAre
      <4>2. h.section = x.section /\ h.chosen[ListOf(two)] = x.chosen[ListOf(two)] /\ h.shown[ListOf(two)] = x.shown[ListOf(two)]
        BY <3>4, <4>1 DEF Touches
      <4>3. OnScreen(h, two) = OnScreen(x, two)
        BY <4>2 DEF OnScreen
      <4>4. UnderFits(x, two, OnScreen(x, two), x.shown[ListOf(two)])
        BY <2>4 DEF LevelFits
      <4>5. UnderFits(h, two, OnScreen(x, two), x.shown[ListOf(two)])
        BY <2>5, <3>4, <4>1, <4>4, TouchKeeps
      <4> QED BY <4>2, <4>3, <4>5 DEF LevelFits
    <3> QED BY <3>1, <3>4, <3>5, <3>6
  <2> QED BY <1>1, <1>5, <2>6, <2>7
<1> QED BY <1>4, <1>5

\* Two calls for one list are under way, and one is a refresh.
Races(g) == \E s \in GitSections : \E i, j \in Unheard(g, <<s, 1>>) : i # j /\ ~g.calls[i].effect

\* The effects after a change: what hangs on the lists fits them again, and nothing else changes.
LEMMA RenderedFits ==
    ASSUME NEW b, b \in Review, ShownFits(b), NEW a, a \in Review, ShownFits(a),
           \A sk \in Under : UnderFits(a, sk, OnScreen(b, sk), b.shown[ListOf(sk)]),
           NEW h, h = Rendered(b, a)
    PROVE  /\ h \in Review /\ ShownFits(h) /\ \A sk \in Under : LevelFits(h, sk)
           /\ \A race : ListFits(a, race) => ListFits(h, race)
           /\ Races(h) <=> Races(a)
<1> DEFINE from == b.section
           to   == a.section
           x    == IF from = to THEN a ELSE RunEffect(b, RunEffect(b, a, from, 2), from, 3)
<1>1. h = RunEffect(b, RunEffect(b, x, to, 2), to, 3)
  BY DEF Rendered
<1>2. from \in GitSections /\ to \in GitSections
  BY DEF Review
<1>3. \A s \in GitSections : \A sk \in UnderOf(s) : sk \in Under /\ sk[1] = s /\ sk \in Slots /\ ListOf(sk) \in Slots /\ ListOf(sk)[1] = s
  BY SlotsAre DEF UnderOf, ListOf
<1>4. /\ Touches(a, x, IF from = to THEN {} ELSE UnderOf(from))
      /\ from # to => \A sk \in UnderOf(from) : LevelFits(x, sk)
  <2>1. CASE from = to
    BY <2>1 DEF Touches
  <2>2. CASE from # to
    <3>1. x = RunEffect(b, RunEffect(b, a, from, 2), from, 3)
      BY <2>2
    <3>2. \A sk \in UnderOf(from) : UnderFits(a, sk, OnScreen(b, sk), b.shown[ListOf(sk)])
      BY DEF UnderOf
    <3> HIDE DEF x, from
    <3> QED BY <1>2, <2>2, <3>1, <3>2, SectionKeeps
  <2> QED BY <2>1, <2>2
<1> HIDE DEF x
<1>5. x \in Review /\ ShownFits(x) /\ x.section = to
  BY <1>4 DEF Touches
<1> DEFINE S == IF from = to THEN {} ELSE UnderOf(from)
<1>6. \A sk \in UnderOf(to) : UnderFits(x, sk, OnScreen(b, sk), b.shown[ListOf(sk)])
  <2> SUFFICES ASSUME NEW sk \in UnderOf(to) PROVE UnderFits(x, sk, OnScreen(b, sk), b.shown[ListOf(sk)])
    OBVIOUS
  <2>1. sk \in Slots /\ sk \notin S /\ UnderFits(a, sk, OnScreen(b, sk), b.shown[ListOf(sk)])
    BY <1>2, <1>3
  <2>2. Touches(a, x, S)
    BY <1>4
  <2> HIDE DEF S
  <2> QED BY <2>1, <2>2, TouchKeeps
<1>7. Touches(x, h, UnderOf(to)) /\ \A sk \in UnderOf(to) : LevelFits(h, sk)
  <2> HIDE DEF to
  <2> QED BY <1>1, <1>2, <1>5, <1>6, SectionKeeps
<1>8. Touches(a, h, S \cup UnderOf(to)) /\ S \cup UnderOf(to) \subseteq Under
  <2>1. Touches(a, x, S)
    BY <1>4
  <2>2. S \cup UnderOf(to) \subseteq Under
    BY <1>2, <1>3
  <2> HIDE DEF S
  <2> QED BY <1>7, <2>1, <2>2, TouchMore
<1>9. h \in Review /\ ShownFits(h) /\ h.section = to
  BY <1>8 DEF Touches
<1>10. ASSUME NEW sk \in Under PROVE LevelFits(h, sk)
  <2>1. sk[1] \in GitSections /\ sk \in UnderOf(sk[1])
    BY SlotsAre DEF UnderOf
  <2>2. CASE sk[1] = to
    BY <1>7, <2>1, <2>2
  <2>3. CASE sk[1] # to
    <3>1. sk \in Slots /\ ListOf(sk) \in Slots /\ sk \notin UnderOf(to) /\ ListOf(sk) \notin UnderOf(to)
      BY <1>2, <1>3, <2>1, <2>3
    <3>2. OnScreen(h, sk) = NoItem
      BY <1>9, <2>3 DEF OnScreen
    <3>3. \E item, list : UnderFits(x, sk, item, list) /\ item = NoItem
      <4>1. CASE sk[1] = from
        <5>1. LevelFits(x, sk)
          BY <1>4, <2>1, <2>3, <4>1
        <5>2. OnScreen(x, sk) = NoItem
          BY <1>5, <2>3 DEF OnScreen
        <5> QED BY <5>1, <5>2 DEF LevelFits
      <4>2. CASE sk[1] # from
        <5>1. OnScreen(b, sk) = NoItem
          BY <4>2 DEF OnScreen
        <5>2. sk \notin S
          BY <1>2, <1>3, <2>1, <4>2
        <5>3. Touches(a, x, S)
          BY <1>4
        <5> HIDE DEF S
        <5>4. UnderFits(x, sk, OnScreen(b, sk), b.shown[ListOf(sk)])
          BY <3>1, <5>2, <5>3, TouchKeeps
        <5> QED BY <5>1, <5>4
      <4> QED BY <4>1, <4>2
    <3>4. \E item, list : UnderFits(h, sk, item, list) /\ item = NoItem
      <4> HIDE DEF to
      <4> QED BY <1>5, <1>7, <3>1, <3>3, TouchKeeps
    <3> QED BY <3>2, <3>4 DEF LevelFits, UnderFits
  <2> QED BY <2>2, <2>3
<1> DEFINE T == S \cup UnderOf(to)
<1>11. Touches(a, h, T) /\ T \subseteq Under
  BY <1>8
<1> HIDE DEF T
<1>12. \A race : ListFits(a, race) => ListFits(h, race)
  <2>1. <<a.section, 1>> \notin T
    BY <1>2, <1>11, SlotsAre
  <2> QED BY <1>11, <2>1, TouchKeepsList
<1>13. ASSUME NEW s \in GitSections
       PROVE  Unheard(h, <<s, 1>>) = Unheard(a, <<s, 1>>) /\ \A i \in Unheard(a, <<s, 1>>) : h.calls[i] = a.calls[i]
  <2> DEFINE tk == <<s, 1>>
  <2>1. tk \in Slots /\ tk \notin T
    BY <1>11, SlotsAre
  <2> HIDE DEF tk
  <2>2. Unheard(h, tk) = Unheard(a, tk) /\ \A i \in Unheard(a, tk) : h.calls[i] = a.calls[i]
    BY <1>11, <2>1, TouchKeeps
  <2> QED BY <2>2 DEF tk
<1>14. Races(h) <=> Races(a)
  BY <1>13 DEF Races
<1> QED BY <1>9, <1>10, <1>12, <1>14

-----------------------------------------------------------------------------
(* The steps of the tab.                                                   *)

\* The lists of the sections
ListSlots == {<<s, 1>> : s \in GitSections}

\* A call for the list on screen is the last one; it races with another one only if one of
\* them is a refresh.
LEMMA AskListIs ==
    ASSUME NEW g, g \in Review, ShownFits(g), NEW e \in BOOLEAN, NEW h, h = Asked(g, <<g.section, 1>>, NoItem, e),
           ~e \/ \A i \in Unheard(g, <<g.section, 1>>) : ~g.calls[i].effect
    PROVE  /\ Touches(g, h, ListSlots) /\ DOMAIN h.calls = DOMAIN g.calls \cup {Len(g.calls) + 1}
           /\ \A race : (Races(h) => race) => ListFits(h, race)
<1> DEFINE tk == <<g.section, 1>>
           n  == Len(g.calls) + 1
           none == NoItem
<1>1. tk \in Slots /\ tk \in ListSlots /\ g.section \in GitSections
  BY SlotsAre DEF Review, ListSlots
<1>2. none \in GitItems \cup {NoItem} /\ h = Asked(g, tk, none, e) /\ n = Len(g.calls) + 1
  OBVIOUS
<1> HIDE DEF tk, n, none
<1>3. /\ SameBut(g, h) /\ h.busy[tk] /\ (\A uk \in Slots : uk # tk => h.busy[uk] = g.busy[uk])
      /\ DOMAIN h.calls = DOMAIN g.calls \cup {n}
  <2>1. SameBut(g, h) /\ h.busy[tk]
    BY <1>1, <1>2, AskedIs
  <2>2. \A uk \in Slots : uk # tk => h.busy[uk] = g.busy[uk]
    BY <1>1, <1>2, AskedIs
  <2>3. DOMAIN h.calls = DOMAIN g.calls \cup {n}
    BY <1>1, <1>2, AskedIs
  <2> QED BY <2>1, <2>2, <2>3
<1>4. /\ n \in Nat /\ \A i \in DOMAIN g.calls : i \in Nat /\ i < n /\ h.calls[i] = g.calls[i]
      /\ h.calls[n].slot = tk /\ h.calls[n].repo = g.repo /\ h.calls[n].live /\ h.calls[n].effect = e
  BY <1>1, <1>2, AskedIs
<1>5. Touches(g, h, ListSlots)
  BY <1>1, <1>3, <1>4 DEF Touches, SameBut
<1>6. n \in Unheard(h, tk) /\ \A i \in Unheard(h, tk) : i # n => i \in Unheard(g, tk) /\ h.calls[i] = g.calls[i]
  BY <1>3, <1>4 DEF Unheard
<1>7. Unheard(h, tk) # {n} => Races(h)
  <2> SUFFICES ASSUME NEW i \in Unheard(h, tk), i # n PROVE Races(h)
    BY <1>6
  <2>1. CASE ~e
    <3>1. ~h.calls[n].effect
      BY <1>4, <2>1
    <3> QED BY <1>1, <1>6, <3>1 DEF Races, tk
  <2>2. CASE e
    <3>1. i \in Unheard(g, tk) /\ h.calls[i] = g.calls[i]
      BY <1>6
    <3>2. ~g.calls[i].effect
      BY <2>2, <3>1 DEF tk
    <3>3. ~h.calls[i].effect
      BY <3>1, <3>2
    <3> QED BY <1>1, <1>6, <3>3 DEF Races, tk
  <2> QED BY <2>1, <2>2
<1>8. \A i \in DOMAIN h.calls : i <= n
  BY <1>3, <1>4
<1>9. ASSUME NEW race, Races(h) => race PROVE ListFits(h, race)
  <2>1. tk = <<h.section, 1>> /\ n \in DOMAIN h.calls /\ h.calls[n].repo = h.repo
    BY <1>3, <1>4 DEF SameBut, tk
  <2>2. ~race => \A i \in Unheard(h, tk) : i = n
    BY <1>7, <1>9
  <2> HIDE DEF tk
  <2> QED BY <1>4, <1>6, <1>8, <2>1, <2>2 DEF ListFits
<1> QED BY <1>3, <1>5, <1>9 DEF n

\* What the effect that loads the list of the section changes.
LEMMA LoadListIs ==
    ASSUME NEW g, g \in Review, ShownFits(g), NEW h, h = LoadList(g)
    PROVE  /\ Touches(g, h, ListSlots) /\ DOMAIN h.calls = DOMAIN g.calls \cup {Len(g.calls) + 1}
           /\ \A race : (Races(h) => race) => ListFits(h, race)
<1> DEFINE c == Cancelled(g, ListSlots)
           tk == <<g.section, 1>>
           yes == TRUE
<1>1. h = Asked(c, <<c.section, 1>>, NoItem, yes) /\ c.section = g.section
  <2>1. c.section = g.section
    BY DEF Cancelled, Review
  <2> QED BY <2>1 DEF LoadList, ListSlots
<1>2. c = Cancelled(g, ListSlots) /\ yes \in BOOLEAN /\ tk \in ListSlots
  BY DEF ListSlots, Review
<1> HIDE DEF c, yes
<1>3. /\ SameBut(g, c) /\ c.busy = g.busy /\ DOMAIN c.calls = DOMAIN g.calls
      /\ \A i \in DOMAIN g.calls :
             /\ c.calls[i].slot = g.calls[i].slot /\ c.calls[i].effect = g.calls[i].effect
             /\ c.calls[i].live => g.calls[i].live /\ ~(g.calls[i].slot \in ListSlots /\ g.calls[i].effect)
             /\ g.calls[i].slot \notin ListSlots => c.calls[i] = g.calls[i]
  BY <1>2, CancelledIs
<1>4. Touches(g, c, ListSlots) /\ c \in Review /\ ShownFits(c)
  BY <1>3 DEF Touches, SameBut
<1>5. \A i \in Unheard(c, <<c.section, 1>>) : ~c.calls[i].effect
  BY <1>1, <1>2, <1>3 DEF Unheard
<1>6. /\ Touches(c, h, ListSlots) /\ DOMAIN h.calls = DOMAIN c.calls \cup {Len(c.calls) + 1}
      /\ \A race : (Races(h) => race) => ListFits(h, race)
  BY <1>1, <1>2, <1>4, <1>5, AskListIs
<1>7. Len(c.calls) = Len(g.calls)
  BY <1>3, <1>4 DEF Review
<1>8. Touches(g, h, ListSlots)
  <2>1. ListSlots \cup ListSlots = ListSlots
    OBVIOUS
  <2> QED BY <1>4, <1>6, <2>1, TouchMore
<1> QED BY <1>3, <1>6, <1>7, <1>8

\* A change and its effects keep the invariant, if the change leaves in every slot what fits
\* the list as it was.
LEMMA RenderedKeeps ==
    ASSUME GitInv, NEW a, a \in Review, ShownFits(a),
           \A sk \in Under : UnderFits(a, sk, OnScreen(git, sk), git.shown[ListOf(sk)]),
           git' = Rendered(git, a), raced' \in BOOLEAN, ListFits(a, raced')
    PROVE  GitInv'
<1> DEFINE h == git'
           race == raced'
<1>1. git \in Review /\ ShownFits(git) /\ h = Rendered(git, a) /\ ListFits(a, race)
  BY DEF GitInv
<1> HIDE DEF h, race
<1>2. h \in Review /\ ShownFits(h) /\ \A sk \in Under : LevelFits(h, sk)
  BY <1>1, RenderedFits
<1>3. ListFits(h, race)
  BY <1>1, RenderedFits
<1>4. race \in BOOLEAN
  BY DEF race
<1> QED BY <1>2, <1>3, <1>4 DEF GitInv, h, race

\* An act of the user and the effects after it keep the invariant.
LEMMA ThenKeeps ==
    ASSUME GitInv, NEW a, a \in Review, ShownFits(a),
           \A sk \in Under : UnderFits(a, sk, OnScreen(git, sk), git.shown[ListOf(sk)]),
           Then(a), \A race : (raced => race) /\ (Races(a) => race) => ListFits(a, race)
    PROVE  GitInv'
<1>1. git' = Rendered(git, a) /\ raced' = (raced \/ Races(git'))
  BY DEF Then, Races, Pending, Unheard
<1>2. git \in Review /\ ShownFits(git)
  BY DEF GitInv
<1>3. Races(git') <=> Races(a)
  <2> DEFINE h == git'
  <2>1. h = Rendered(git, a)
    BY <1>1
  <2> HIDE DEF h
  <2>2. Races(h) <=> Races(a)
    BY <1>2, <2>1, RenderedFits
  <2> QED BY <2>2 DEF h
<1>4. raced' \in BOOLEAN /\ (raced => raced') /\ (Races(a) => raced')
  BY <1>1, <1>3
<1>5. ListFits(a, raced')
  BY <1>4
<1> QED BY <1>1, <1>4, <1>5, RenderedKeeps

\* A list is asked for, of a section or a repository.
LEMMA OpenKeeps ==
    ASSUME GitInv, NEW g, g \in Review, Then(LoadList(g)),
           g.shown = git.shown, g.chosen = git.chosen, g.busy = git.busy, g.calls = git.calls
    PROVE  GitInv'
<1> DEFINE a == LoadList(g)
<1>1. git \in Review /\ ShownFits(git) /\ \A sk \in Under : UnderFits(git, sk, OnScreen(git, sk), git.shown[ListOf(sk)])
  BY DEF GitInv, LevelFits
<1>2. ShownFits(g)
  BY <1>1 DEF ShownFits
<1>3. \A sk, item, list : UnderFits(git, sk, item, list) => UnderFits(g, sk, item, list)
  BY DEF UnderFits, Unheard
<1>4. Then(a) /\ a = LoadList(g)
  OBVIOUS
<1> HIDE DEF a
<1>5. Touches(g, a, ListSlots) /\ \A race : (Races(a) => race) => ListFits(a, race)
  BY <1>2, <1>4, LoadListIs
<1>6. ASSUME NEW sk \in Under PROVE UnderFits(a, sk, OnScreen(git, sk), git.shown[ListOf(sk)])
  <2>1. sk \in Slots /\ sk \notin ListSlots
    BY SlotsAre DEF ListSlots
  <2>2. UnderFits(g, sk, OnScreen(git, sk), git.shown[ListOf(sk)])
    BY <1>1, <1>3
  <2> QED BY <1>2, <1>5, <2>1, <2>2, TouchKeeps
<1>7. a \in Review /\ ShownFits(a)
  BY <1>5 DEF Touches
<1> QED BY <1>4, <1>5, <1>6, <1>7, ThenKeeps

\* A refresh keeps the invariant.
LEMMA RefreshKeeps ==
    ASSUME GitInv, RefreshSection
    PROVE  GitInv'
<1> DEFINE no == FALSE
           a  == Asked(git, <<git.section, 1>>, NoItem, no)
<1>1. git \in Review /\ ShownFits(git) /\ \A sk \in Under : UnderFits(git, sk, OnScreen(git, sk), git.shown[ListOf(sk)])
  BY DEF GitInv, LevelFits
<1>2. Then(a) /\ a = Asked(git, <<git.section, 1>>, NoItem, no) /\ no \in BOOLEAN /\ ~no
  BY DEF RefreshSection
<1> HIDE DEF a, no
<1>3. Touches(git, a, ListSlots) /\ \A race : (Races(a) => race) => ListFits(a, race)
  BY <1>1, <1>2, AskListIs
<1>4. ASSUME NEW sk \in Under PROVE UnderFits(a, sk, OnScreen(git, sk), git.shown[ListOf(sk)])
  <2>1. sk \in Slots /\ sk \notin ListSlots
    BY SlotsAre DEF ListSlots
  <2> QED BY <1>1, <1>3, <2>1, TouchKeeps
<1>5. a \in Review /\ ShownFits(a)
  BY <1>3 DEF Touches
<1> QED BY <1>2, <1>3, <1>4, <1>5, ThenKeeps

\* A choice keeps the invariant.
LEMMA ChooseKeeps ==
    ASSUME GitInv, NEW k \in Levels, NEW item \in GitItems, Choose(k, item)
    PROVE  GitInv'
<1> DEFINE sk == <<git.section, k>>
           cs == [git.chosen EXCEPT ![sk] = item]
           a  == [git EXCEPT !.chosen = cs]
<1>1. git \in Review /\ ShownFits(git) /\ ListFits(git, raced)
      /\ \A tk \in Under : UnderFits(git, tk, OnScreen(git, tk), git.shown[ListOf(tk)])
  BY DEF GitInv, LevelFits
<1>2. sk \in Slots /\ git.shown[sk] # NoCall /\ item \in git.calls[git.shown[sk]].items
  BY DEF Choose
<1>3. Then(a)
  <2>1. [git EXCEPT !.chosen[sk] = item] = a
    BY <1>1 DEF Review
  <2> QED BY <2>1 DEF Choose
<1>4. cs \in [Slots -> GitItems \cup {NoItem}] /\ cs[sk] = item /\ \A tk \in Slots : tk # sk => cs[tk] = git.chosen[tk]
  BY <1>1, <1>2 DEF Review
<1> HIDE DEF sk, cs
<1>5. /\ a \in Review /\ a.shown = git.shown /\ a.busy = git.busy /\ a.calls = git.calls /\ a.section = git.section
      /\ a.repo = git.repo /\ a.chosen = cs
  BY <1>1, <1>4 DEF Review
<1> HIDE DEF a
<1>6. ShownFits(a)
  <2> SUFFICES ASSUME NEW tk \in Slots
               PROVE  /\ a.shown[tk] # NoCall => a.shown[tk] \in DOMAIN a.calls /\ a.calls[a.shown[tk]].slot = tk
                      /\ a.chosen[tk] # NoItem => a.shown[tk] # NoCall /\ a.chosen[tk] \in a.calls[a.shown[tk]].items
    BY DEF ShownFits
  <2>1. CASE tk = sk
    BY <1>1, <1>2, <1>4, <1>5, <2>1 DEF ShownFits
  <2>2. CASE tk # sk
    BY <1>1, <1>4, <1>5, <2>2 DEF ShownFits
  <2> QED BY <2>1, <2>2
<1>7. \A tk \in Under : UnderFits(a, tk, OnScreen(git, tk), git.shown[ListOf(tk)])
  BY <1>1, <1>5 DEF UnderFits, Unheard
<1>8. ASSUME NEW race, raced => race PROVE ListFits(a, race)
  <2>1. ListFits(git, race)
    BY <1>1, <1>8 DEF ListFits
  <2> QED BY <1>5, <2>1 DEF ListFits, Unheard
<1> QED BY <1>3, <1>5, <1>6, <1>7, <1>8, ThenKeeps

\* The tab after the answer of call i: slot sk shows v, and w is chosen in it.
AnswerShown(a, i, v, w, c) ==
    LET sk == git.calls[i].slot IN
    /\ a.repo = git.repo /\ a.section = git.section
    /\ a.shown = [git.shown EXCEPT ![sk] = v] /\ a.chosen = [git.chosen EXCEPT ![sk] = w]
    /\ a.busy = [git.busy EXCEPT ![sk] = FALSE] /\ a.calls = [git.calls EXCEPT ![i] = c]
    /\ c \in GitCall /\ c.slot = sk /\ c.repo = git.calls[i].repo /\ c.of = git.calls[i].of
    /\ c.effect = git.calls[i].effect /\ ~c.live
    /\ \/ v = NoCall /\ w = NoItem
       \/ v = i /\ w \in c.items \cup {NoItem}

\* An answer leaves the tab in such a state, and its effects run.
LEMMA ReviewHears ==
    ASSUME GitInv, NEW i \in DOMAIN git.calls, Hear(i)
    PROVE  \E a, v, w, c : a \in Review /\ AnswerShown(a, i, v, w, c) /\ git' = Rendered(git, a)
<1> DEFINE c  == git.calls[i]
           sk == c.slot
           off == [c EXCEPT !.live = FALSE]
           bs == [git.busy EXCEPT ![sk] = FALSE]
           end == [git EXCEPT !.calls[i].live = FALSE, !.busy[sk] = FALSE]
           Shows(v) == [git.shown EXCEPT ![sk] = v]
           Takes(w) == [git.chosen EXCEPT ![sk] = w]
           Calls(d) == [git.calls EXCEPT ![i] = d]
           After(v, w, d) == [git EXCEPT !.shown = Shows(v), !.chosen = Takes(w), !.busy = bs, !.calls = Calls(d)]
<1>1. git \in Review /\ git.calls \in Seq(GitCall) /\ c \in GitCall /\ sk \in Slots /\ i \in Nat /\ c.items \subseteq GitItems
  <2>1. git \in Review /\ git.calls \in Seq(GitCall) /\ c \in GitCall
    BY DEF GitInv, Review
  <2> QED BY <2>1 DEF GitCall
<1>2. off \in GitCall /\ off.slot = sk /\ off.repo = c.repo /\ off.of = c.of /\ off.effect = c.effect /\ ~off.live
  BY <1>1 DEF GitCall
<1>3. \A items \in SUBSET GitItems :
          LET d == [off EXCEPT !.items = items] IN
          /\ d \in GitCall /\ d.slot = sk /\ d.repo = c.repo /\ d.of = c.of /\ d.effect = c.effect /\ ~d.live /\ d.items = items
  BY <1>1, <1>2 DEF GitCall
<1>4. ASSUME NEW v \in Nat, NEW w \in GitItems \cup {NoItem}, NEW d \in GitCall, d.slot = sk, d.repo = c.repo, d.of = c.of,
             d.effect = c.effect, ~d.live, (v = NoCall /\ w = NoItem) \/ (v = i /\ w \in d.items \cup {NoItem})
      PROVE  After(v, w, d) \in Review /\ AnswerShown(After(v, w, d), i, v, w, d)
  <2> DEFINE ss == Shows(v)
             ws == Takes(w)
             ds == Calls(d)
             a  == After(v, w, d)
  <2>1. ss \in [Slots -> Nat] /\ ws \in [Slots -> GitItems \cup {NoItem}] /\ bs \in [Slots -> BOOLEAN]
    BY <1>1, <1>4 DEF Review
  <2>2. ds \in Seq(GitCall)
    BY <1>1, <1>4
  <2>3. a = [git EXCEPT !.shown = ss, !.chosen = ws, !.busy = bs, !.calls = ds]
    OBVIOUS
  <2>4. ss = [git.shown EXCEPT ![git.calls[i].slot] = v] /\ ws = [git.chosen EXCEPT ![git.calls[i].slot] = w]
        /\ bs = [git.busy EXCEPT ![git.calls[i].slot] = FALSE] /\ ds = [git.calls EXCEPT ![i] = d]
    OBVIOUS
  <2> HIDE DEF ss, ws, bs, ds
  <2>5. /\ a \in Review /\ a.repo = git.repo /\ a.section = git.section /\ a.shown = ss /\ a.chosen = ws
        /\ a.busy = bs /\ a.calls = ds
    BY <1>1, <2>1, <2>2, <2>3 DEF Review
  <2> HIDE DEF a
  <2>6. AnswerShown(a, i, v, w, d)
    BY <1>4, <2>4, <2>5 DEF AnswerShown
  <2> QED BY <2>5, <2>6 DEF a
<1>5. \/ git' = Rendered(git, [end EXCEPT !.shown[sk] = NoCall, !.chosen[sk] = NoItem])
      \/ \E items \in SUBSET GitItems : \E item \in Kept(git.chosen[sk], items) :
             git' = Rendered(git, [end EXCEPT !.shown[sk] = i, !.chosen[sk] = item, !.calls[i].items = items])
  BY DEF Hear
<1>6. CASE git' = Rendered(git, [end EXCEPT !.shown[sk] = NoCall, !.chosen[sk] = NoItem])
  <2> DEFINE a == After(NoCall, NoItem, off)
  <2>1. a = [end EXCEPT !.shown[sk] = NoCall, !.chosen[sk] = NoItem]
    BY <1>1 DEF Review
  <2>2. NoCall \in Nat /\ NoItem \in GitItems \cup {NoItem}
    BY DEF NoCall
  <2>3. git' = Rendered(git, a)
    BY <1>6, <2>1
  <2> HIDE DEF off
  <2>4. a \in Review /\ AnswerShown(a, i, NoCall, NoItem, off)
    BY <1>2, <1>4, <2>2
  <2> HIDE DEF a
  <2> QED BY <2>3, <2>4
<1>7. ASSUME NEW items \in SUBSET GitItems, NEW item \in Kept(git.chosen[sk], items),
             git' = Rendered(git, [end EXCEPT !.shown[sk] = i, !.chosen[sk] = item, !.calls[i].items = items])
      PROVE  \E a, v, w, d : a \in Review /\ AnswerShown(a, i, v, w, d) /\ git' = Rendered(git, a)
  <2> DEFINE d == [off EXCEPT !.items = items]
             a == After(i, item, d)
  <2>1. a = [end EXCEPT !.shown[sk] = i, !.chosen[sk] = item, !.calls[i].items = items]
    BY <1>1 DEF Review
  <2>2. item \in items \cup {NoItem} /\ item \in GitItems \cup {NoItem}
    BY <1>7 DEF Kept
  <2>3. git' = Rendered(git, a)
    BY <1>7, <2>1
  <2>4. d \in GitCall /\ d.slot = sk /\ d.repo = c.repo /\ d.of = c.of /\ d.effect = c.effect /\ ~d.live /\ d.items = items
    BY <1>3
  <2> HIDE DEF d
  <2>5. a \in Review /\ AnswerShown(a, i, i, item, d)
    BY <1>1, <1>4, <2>2, <2>4
  <2> HIDE DEF a
  <2> QED BY <2>3, <2>5
<1> QED BY <1>5, <1>6, <1>7

\* An answer keeps the invariant.
LEMMA HearKeeps ==
    ASSUME GitInv, NEW i \in DOMAIN git.calls, Hear(i)
    PROVE  GitInv'
<1>1. PICK a, v, w, c : a \in Review /\ AnswerShown(a, i, v, w, c) /\ git' = Rendered(git, a)
  BY ReviewHears
<1> DEFINE sk == git.calls[i].slot
<1>2. /\ git \in Review /\ ShownFits(git) /\ ListFits(git, raced) /\ raced \in BOOLEAN
      /\ \A tk \in Under : UnderFits(git, tk, OnScreen(git, tk), git.shown[ListOf(tk)])
  BY DEF GitInv, LevelFits
<1>3. raced' = raced /\ git.calls[i].live
  BY DEF Hear
<1>4. i \in Nat /\ i # NoCall /\ sk \in Slots
  <2>1. git.calls \in Seq(GitCall)
    BY <1>2 DEF Review
  <2>2. git.calls[i] \in GitCall /\ i \in Nat /\ i # 0
    BY <2>1
  <2> QED BY <2>2 DEF GitCall, NoCall
<1>5. /\ a.repo = git.repo /\ a.section = git.section /\ DOMAIN a.calls = DOMAIN git.calls
      /\ a.shown[sk] = v /\ a.chosen[sk] = w /\ ~a.busy[sk] /\ a.calls[i] = c
      /\ \A tk \in Slots : tk # sk => a.shown[tk] = git.shown[tk] /\ a.chosen[tk] = git.chosen[tk] /\ a.busy[tk] = git.busy[tk]
      /\ \A j \in DOMAIN git.calls : j # i => a.calls[j] = git.calls[j]
  <2> DEFINE ss == git.shown
             cs == git.chosen
             bs == git.busy
             ds == git.calls
  <2>1. /\ ss \in [Slots -> Nat] /\ cs \in [Slots -> GitItems \cup {NoItem}] /\ bs \in [Slots -> BOOLEAN] /\ ds \in Seq(GitCall)
    BY <1>2 DEF Review
  <2>2. /\ a.repo = git.repo /\ a.section = git.section
        /\ a.shown = [ss EXCEPT ![sk] = v] /\ a.chosen = [cs EXCEPT ![sk] = w]
        /\ a.busy = [bs EXCEPT ![sk] = FALSE] /\ a.calls = [ds EXCEPT ![i] = c]
    BY <1>1 DEF AnswerShown
  <2>3. i \in DOMAIN ds
    OBVIOUS
  <2> HIDE DEF ss, cs, bs, ds, sk
  <2>4. /\ a.shown[sk] = v /\ a.chosen[sk] = w /\ ~a.busy[sk] /\ a.calls[i] = c /\ DOMAIN a.calls = DOMAIN ds
    BY <1>4, <2>1, <2>2, <2>3
  <2>5. \A tk \in Slots : tk # sk => a.shown[tk] = ss[tk] /\ a.chosen[tk] = cs[tk] /\ a.busy[tk] = bs[tk]
    BY <1>4, <2>1, <2>2
  <2>6. \A j \in DOMAIN ds : j # i => a.calls[j] = ds[j]
    BY <2>1, <2>2, <2>3
  <2> QED BY <2>2, <2>4, <2>5, <2>6 DEF ss, cs, bs, ds
<1>6. /\ c.slot = sk /\ c.repo = git.calls[i].repo /\ c.of = git.calls[i].of /\ c.effect = git.calls[i].effect /\ ~c.live
      /\ \/ v = NoCall /\ w = NoItem
         \/ v = i /\ w \in c.items \cup {NoItem}
  BY <1>1 DEF AnswerShown
<1> HIDE DEF sk
<1>7. ShownFits(a)
  <2> SUFFICES ASSUME NEW tk \in Slots
               PROVE  /\ a.shown[tk] # NoCall => a.shown[tk] \in DOMAIN a.calls /\ a.calls[a.shown[tk]].slot = tk
                      /\ a.chosen[tk] # NoItem => a.shown[tk] # NoCall /\ a.chosen[tk] \in a.calls[a.shown[tk]].items
    BY DEF ShownFits
  <2>1. CASE tk = sk
    BY <1>4, <1>5, <1>6, <2>1
  <2>2. CASE tk # sk
    <3>1. a.shown[tk] = git.shown[tk] /\ a.chosen[tk] = git.chosen[tk]
      BY <1>5, <2>2
    <3>2. /\ git.shown[tk] # NoCall => git.shown[tk] \in DOMAIN git.calls /\ git.calls[git.shown[tk]].slot = tk
          /\ git.chosen[tk] # NoItem => git.shown[tk] # NoCall /\ git.chosen[tk] \in git.calls[git.shown[tk]].items
      BY <1>2 DEF ShownFits
    <3>3. git.shown[tk] # NoCall => a.calls[git.shown[tk]] = git.calls[git.shown[tk]]
      BY <1>5, <2>2, <3>2 DEF sk
    <3> QED BY <1>5, <3>1, <3>2, <3>3
  <2> QED BY <2>1, <2>2
<1>8. Touches(git, a, {sk})
  <2>1. \A j \in DOMAIN git.calls : a.calls[j].slot = git.calls[j].slot /\ (git.calls[j].slot # sk => a.calls[j] = git.calls[j])
    BY <1>5, <1>6 DEF sk
  <2> QED BY <1>1, <1>5, <1>7, <2>1 DEF Touches
<1>9. i \in Unheard(git, sk) /\ Unheard(a, sk) = Unheard(git, sk) \ {i} /\ \A j \in Unheard(a, sk) : a.calls[j] = git.calls[j]
  BY <1>3, <1>5, <1>6 DEF Unheard, sk
<1>10. ASSUME NEW tk \in Under PROVE UnderFits(a, tk, OnScreen(git, tk), git.shown[ListOf(tk)])
  <2> DEFINE item == OnScreen(git, tk)
             list == git.shown[ListOf(tk)]
  <2>1. tk \in Slots /\ UnderFits(git, tk, item, list)
    BY <1>2, SlotsAre
  <2> HIDE DEF item, list
  <2>2. CASE tk # sk
    <3>1. tk \notin {sk}
      BY <2>2
    <3>2. UnderFits(a, tk, item, list)
      BY <1>2, <1>8, <2>1, <3>1, TouchKeeps
    <3> QED BY <3>2 DEF item, list
  <2>3. CASE tk = sk
    <3>1. item # NoItem /\ git.calls[i].of = item /\ i > list
      BY <1>9, <2>1, <2>3 DEF UnderFits
    <3>2. \A j \in Unheard(a, sk) : a.calls[j].effect /\ a.calls[j].of = item /\ j > list
      BY <1>9, <2>1, <2>3 DEF UnderFits
    <3>3. a.shown[sk] # NoCall => a.calls[a.shown[sk]].of = item /\ a.shown[sk] > list
      BY <1>5, <1>6, <3>1
    <3>4. UnderFits(a, tk, item, list)
      BY <1>5, <2>3, <3>1, <3>2, <3>3 DEF UnderFits
    <3> QED BY <3>4 DEF item, list
  <2> QED BY <2>2, <2>3
<1>11. ListFits(a, raced)
  <2> DEFINE tk == <<git.section, 1>>
  <2>1. CASE tk # sk
    <3>1. <<git.section, 1>> \notin {sk}
      BY <2>1
    <3> QED BY <1>2, <1>8, <3>1, TouchKeepsList
  <2>2. CASE tk = sk
    <3>1. PICK last \in DOMAIN git.calls :
              /\ git.calls[last].slot = tk /\ git.calls[last].repo = git.repo
              /\ \A j \in DOMAIN git.calls : git.calls[j].slot = tk => j <= last
              /\ ~raced => /\ \A j \in Unheard(git, tk) : j = last
                           /\ git.calls[last].live \/ git.shown[tk] \in {NoCall, last}
      BY <1>2 DEF ListFits
    <3>2. <<a.section, 1>> = sk
      BY <1>5, <2>2
    <3>3. \A j \in DOMAIN a.calls : a.calls[j].slot = git.calls[j].slot /\ a.calls[j].repo = git.calls[j].repo
      BY <1>5, <1>6 DEF sk
    <3>4. /\ last \in DOMAIN a.calls /\ a.calls[last].slot = sk /\ a.calls[last].repo = a.repo
          /\ \A j \in DOMAIN a.calls : a.calls[j].slot = sk => j <= last
      BY <1>5, <2>2, <3>1, <3>3
    <3>5. ~raced => Unheard(a, sk) = {} /\ a.shown[sk] \in {NoCall, last}
      BY <1>5, <1>6, <1>9, <2>2, <3>1
    <3> QED BY <1>5, <3>2, <3>4, <3>5 DEF ListFits
  <2> QED BY <2>1, <2>2
<1> QED BY <1>1, <1>2, <1>3, <1>7, <1>10, <1>11, RenderedKeeps

\* A step of the tab keeps its invariant.
LEMMA GitKeeps ==
    ASSUME GitInv, [GitNext]_gitVars
    PROVE  GitInv'
<1>1. git \in Review
  BY DEF GitInv
<1>2. CASE UNCHANGED gitVars
  <2>1. git' = git /\ raced' = raced
    BY <1>2 DEF gitVars
  <2>2. (git \in Review)' /\ (raced \in BOOLEAN)'
    BY <2>1 DEF GitInv, Review
  <2>3. ShownFits(git)'
    BY <2>1 DEF GitInv, ShownFits
  <2>4. ListFits(git, raced)'
    BY <2>1 DEF GitInv, ListFits, Unheard
  <2>5. (\A sk \in Under : LevelFits(git, sk))'
    BY <2>1 DEF GitInv, LevelFits, UnderFits, OnScreen, Unheard
  <2> QED BY <2>2, <2>3, <2>4, <2>5 DEF GitInv
<1>3. ASSUME NEW s \in GitSections, OpenSection(s) PROVE GitInv'
  <2> DEFINE g == [git EXCEPT !.section = s]
  <2>1. Then(LoadList(g))
    BY <1>3 DEF OpenSection
  <2>2. g \in Review /\ g.shown = git.shown /\ g.chosen = git.chosen /\ g.busy = git.busy /\ g.calls = git.calls
    BY <1>1 DEF Review
  <2> HIDE DEF g
  <2> QED BY <2>1, <2>2, OpenKeeps
<1>4. ASSUME NEW r \in Repositories, OpenRepository(r) PROVE GitInv'
  <2> DEFINE g == [git EXCEPT !.repo = r]
  <2>1. Then(LoadList(g))
    BY <1>4 DEF OpenRepository
  <2>2. g \in Review /\ g.shown = git.shown /\ g.chosen = git.chosen /\ g.busy = git.busy /\ g.calls = git.calls
    BY <1>1 DEF Review
  <2> HIDE DEF g
  <2> QED BY <2>1, <2>2, OpenKeeps
<1> QED BY <1>2, <1>3, <1>4, ChooseKeeps, RefreshKeeps, HearKeeps DEF GitNext

\* The tab opens with the first list asked for.
LEMMA GitStarts ==
    ASSUME GitInit
    PROVE  GitInv
<1>1. PICK r \in Repositories, s \in GitSections :
          /\ git = LoadList([repo |-> r, section |-> s, calls |-> <<>>,
                             shown  |-> [sk \in Slots |-> NoCall],
                             chosen |-> [sk \in Slots |-> NoItem],
                             busy   |-> [sk \in Slots |-> FALSE]])
          /\ raced = FALSE
  BY DEF GitInit
<1> DEFINE ss == [sk \in Slots |-> NoCall]
           cs == [sk \in Slots |-> NoItem]
           bs == [sk \in Slots |-> FALSE]
           ds == <<>>
           g  == [repo |-> r, section |-> s, calls |-> ds, shown |-> ss, chosen |-> cs, busy |-> bs]
<1>2. ss \in [Slots -> Nat] /\ cs \in [Slots -> GitItems \cup {NoItem}] /\ bs \in [Slots -> BOOLEAN]
  BY DEF NoCall
<1>3. ds \in Seq(GitCall) /\ DOMAIN ds = {} /\ Len(ds) = 0
  OBVIOUS
<1>4. \A sk \in Slots : ss[sk] = NoCall /\ cs[sk] = NoItem /\ bs[sk] = FALSE
  OBVIOUS
<1>5. git = LoadList(g)
  BY <1>1
<1> HIDE DEF ss, cs, bs, ds
<1>6. g \in Review /\ g.shown = ss /\ g.chosen = cs /\ g.busy = bs /\ g.calls = ds /\ g.section = s
  BY <1>2, <1>3 DEF Review
<1> HIDE DEF g
<1>7. ShownFits(g)
  BY <1>4, <1>6 DEF ShownFits
<1>8. /\ Touches(g, git, ListSlots) /\ DOMAIN git.calls = {1}
      /\ \A race : (Races(git) => race) => ListFits(git, race)
  <2>1. Len(g.calls) + 1 = 1 /\ DOMAIN g.calls = {}
    BY <1>3, <1>6
  <2> DEFINE n == Len(g.calls) + 1
             h == git
  <2>2. g \in Review /\ ShownFits(g) /\ h = LoadList(g)
    BY <1>5, <1>6, <1>7
  <2> HIDE DEF h
  <2>3. Touches(g, h, ListSlots) /\ DOMAIN h.calls = DOMAIN g.calls \cup {n}
    BY <2>2, LoadListIs
  <2>4. \A race : (Races(h) => race) => ListFits(h, race)
    BY <2>2, LoadListIs
  <2> QED BY <2>1, <2>3, <2>4 DEF h
<1>9. ~Races(git)
  BY <1>8 DEF Races, Unheard
<1>10. ListFits(git, raced)
  BY <1>8, <1>9
<1>11. git \in Review /\ ShownFits(git)
  BY <1>8 DEF Touches
<1>12. ASSUME NEW sk \in Under PROVE LevelFits(git, sk)
  <2>1. sk \in Slots /\ sk \notin ListSlots /\ Unheard(g, sk) = {} /\ g.shown[sk] = NoCall /\ ~g.busy[sk]
    BY <1>3, <1>4, <1>6, SlotsAre DEF ListSlots, Unheard
  <2> DEFINE none == NoItem
             list == git.shown[ListOf(sk)]
  <2>2. UnderFits(g, sk, none, list)
    BY <2>1 DEF UnderFits
  <2>3. OnScreen(git, sk) = none
    <3>1. ListOf(sk) \in Slots
      BY SlotsAre
    <3>2. git.chosen[ListOf(sk)] = NoItem
      BY <1>1, <1>8, <3>1 DEF LoadList, Asked, Cancelled
    <3> QED BY <3>2 DEF OnScreen
  <2> HIDE DEF none, list
  <2>4. UnderFits(git, sk, none, list)
    BY <1>6, <1>7, <1>8, <2>1, <2>2, TouchKeeps
  <2> QED BY <2>3, <2>4 DEF LevelFits, list
<1> QED BY <1>1, <1>10, <1>11, <1>12 DEF GitInv

\* What the invariant says of the tab: the runs' properties.
LEMMA GitIsTrue ==
    ASSUME GitInv
    PROVE  GitTypeOK /\ ReviewTrue /\ LoadingEnds
<1>1. git \in Review /\ ShownFits(git) /\ ListFits(git, raced) /\ \A sk \in Under : LevelFits(git, sk)
  BY DEF GitInv
<1>2. GitTypeOK
  BY <1>1 DEF GitTypeOK, Review, ShownFits
<1>3. ASSUME NEW sk \in Under
      PROVE  Selected(git, sk[1], sk[2] - 1) = git.chosen[ListOf(sk)]
  <2>1. ListOf(sk) = <<sk[1], sk[2] - 1>> /\ ListOf(sk) \in Slots
    BY SlotsAre
  <2> QED BY <1>1, <2>1, SelectedIs
<1>4. DetailFits
  <2> SUFFICES ASSUME NEW sk \in Under, git.shown[sk] # NoCall, ~git.busy[sk]
               PROVE  /\ sk[1] = git.section
                      /\ git.calls[git.shown[sk]].of = Selected(git, sk[1], sk[2] - 1)
                      /\ git.shown[sk] > git.shown[ListOf(sk)]
    BY DEF DetailFits
  <2>1. UnderFits(git, sk, OnScreen(git, sk), git.shown[ListOf(sk)])
    BY <1>1 DEF LevelFits
  <2>2. OnScreen(git, sk) # NoItem
    BY <2>1 DEF UnderFits
  <2>3. sk[1] = git.section /\ OnScreen(git, sk) = git.chosen[ListOf(sk)]
    BY <2>2 DEF OnScreen
  <2> QED BY <1>3, <2>1, <2>3 DEF UnderFits
<1>5. NothingAsked => \A sk \in Slots : Unheard(git, sk) = {}
  BY DEF NothingAsked, Unheard
<1>6. <<git.section, 1>> \in Slots
  BY <1>1, SlotsAre DEF Review
<1>7. LoadingEnds
  <2> SUFFICES ASSUME NothingAsked
               PROVE  /\ ~git.busy[<<git.section, 1>>]
                      /\ \A sk \in Under : sk[1] = git.section /\ Selected(git, sk[1], sk[2] - 1) # NoItem => ~git.busy[sk]
    BY DEF LoadingEnds
  <2>1. ~git.busy[<<git.section, 1>>]
    BY <1>1, <1>5, <1>6 DEF ListFits
  <2>2. ASSUME NEW sk \in Under, sk[1] = git.section, Selected(git, sk[1], sk[2] - 1) # NoItem PROVE ~git.busy[sk]
    <3>1. UnderFits(git, sk, OnScreen(git, sk), git.shown[ListOf(sk)])
      BY <1>1 DEF LevelFits
    <3>2. OnScreen(git, sk) # NoItem
      BY <1>3, <2>2 DEF OnScreen
    <3>3. Unheard(git, sk) = {}
      BY <1>5, SlotsAre
    <3> QED BY <3>1, <3>2, <3>3 DEF UnderFits
  <2> QED BY <2>1, <2>2
<1>8. LastListShown
  <2> DEFINE tk == <<git.section, 1>>
  <2> SUFFICES ASSUME NothingAsked, ~raced, git.shown[tk] # NoCall
               PROVE  /\ git.calls[git.shown[tk]].repo = git.repo
                      /\ \A i \in DOMAIN git.calls : git.calls[i].slot = tk => i <= git.shown[tk]
    BY DEF LastListShown
  <2>1. PICK last \in DOMAIN git.calls :
              /\ git.calls[last].slot = tk /\ git.calls[last].repo = git.repo
              /\ \A j \in DOMAIN git.calls : git.calls[j].slot = tk => j <= last
              /\ ~raced => git.calls[last].live \/ git.shown[tk] \in {NoCall, last}
    BY <1>1 DEF ListFits
  <2>2. git.shown[tk] = last
    BY <2>1 DEF NothingAsked
  <2> QED BY <2>1, <2>2
<1> QED BY <1>2, <1>4, <1>7, <1>8 DEF ReviewTrue

-----------------------------------------------------------------------------
(* The dialogs together: a step is a step of one of them.                  *)

\* The invariants of the git review, the editor and the dialogs of copies and of servers hold
\* beside each other.
LEMMA DialogsInvariant == DialogsSpec => [](GitInv /\ EditInv /\ CopyInv /\ ServerInv)
<1>1. Init => GitInv /\ EditInv /\ CopyInv /\ ServerInv
  BY GitStarts, EditStarts, CopyStarts, ServerStarts DEF Init
<1>2. GitInv /\ EditInv /\ CopyInv /\ ServerInv /\ [Next]_<<gitVars, editVars, copyVars, serverVars, focus>>
          => (GitInv /\ EditInv /\ CopyInv /\ ServerInv)'
  <2> SUFFICES ASSUME GitInv, EditInv, CopyInv, ServerInv,
                      [Next]_<<gitVars, editVars, copyVars, serverVars, focus>>
               PROVE  GitInv' /\ EditInv' /\ CopyInv' /\ ServerInv'
    OBVIOUS
  <2>1. [GitNext]_gitVars /\ [EditNext]_editVars /\ [CopyNext]_copyVars /\ [ServerNext]_serverVars
    BY DEF Next
  <2> QED BY <2>1, GitKeeps, EditKeeps, CopyKeeps, ServerKeeps
<1> QED BY <1>1, <1>2, PTL DEF DialogsSpec

\* What a copy or move starts is what was asked for: a plan for the destination and the policy on
\* screen, its conflicts answered in the question about them (submitCopyMove, pasteClipboard), and
\* started once (startPlannedOperation) - although every answer puts back the dialog of its call.
THEOREM CopiesAsAsked == DialogsSpec => []PlansAsAsked
<1>1. CopyInv => PlansAsAsked
  BY CopyIsTrue
<1> QED BY <1>1, DialogsInvariant, PTL

\* The dialog never stays planning or submitting when no call is under way, whatever the user did
\* to it meanwhile (setDialog of the snapshot, submitInFlightRef).
THEOREM CopyPlanningEnds == DialogsSpec => []PlanningEnds
<1>1. CopyInv => PlanningEnds
  BY CopyIsTrue
<1> QED BY <1>1, DialogsInvariant, PTL

\* The types of the copy dialog, and that submitInFlightRef is set exactly while one call of a
\* submitted form is under way.
THEOREM OneSubmission == DialogsSpec => []CopyTypeOK
<1>1. CopyInv => CopyTypeOK
  BY CopyIsTrue
<1> QED BY <1>1, DialogsInvariant, PTL

\* What the dialog of the servers does is what was asked for: a key is pinned only if its host has
\* shown it (network.rs trust_observed_host_key), a form is saved as one server (handleSubmit), the
\* answer on screen is about the server on screen, a typed path is never replaced by a found one,
\* and the page lists the servers there are when every call was answered.
THEOREM ServersAsAsked == DialogsSpec => []ServersTrue
<1>1. ServerInv => ServersTrue
  BY ServerIsTrue
<1> QED BY <1>1, DialogsInvariant, PTL

\* Copies and servers together: what the dialogs do is what was asked for.
THEOREM DialogsAsAsked == DialogsSpec => []AsAsked
<1>1. CopyInv /\ ServerInv => AsAsked
  BY CopyIsTrue, ServerIsTrue DEF AsAsked
<1> QED BY <1>1, DialogsInvariant, PTL

\* Whatever the answers do to the dialog of the servers, when the last one came nothing in it and
\* in the sidebar waits any more (saving, connectionTestState, busyProfileIds).
THEOREM ServerDialogSettles == DialogsSpec => []ServersSettle
<1>1. ServerInv => ServersSettle
  BY ServerIsTrue
<1> QED BY <1>1, DialogsInvariant, PTL

\* The types of the dialog of the servers; one save at most is under way, and the dialog knows it.
THEOREM OneSaveAtATime == DialogsSpec => []ServerTypeOK
<1>1. ServerInv => ServerTypeOK
  BY ServerIsTrue
<1> QED BY <1>1, DialogsInvariant, PTL

\* What is on screen in the git review belongs together (the effects of GitReviewTab): a diff is that of
\* the item chosen and younger than the list it is chosen from, and the list is the answer to the
\* last call made for it, whatever the order of the answers - unless a refresh raced.
THEOREM ReviewIsTrue == DialogsSpec => []ReviewTrue
<1>1. GitInv => ReviewTrue
  BY GitIsTrue
<1> QED BY <1>1, DialogsInvariant, PTL

\* When every call was answered, in any order and with any failures, no view loads, saves, tests or
\* plans any more.
THEOREM NoViewStaysBusy == DialogsSpec => []NothingStaysBusy
<1>1. GitInv /\ EditInv /\ CopyInv /\ ServerInv => NothingStaysBusy
  BY GitIsTrue, SettlesFromInv, CopyIsTrue, ServerIsTrue DEF NothingStaysBusy
<1> QED BY <1>1, DialogsInvariant, PTL

\* The types of the four views; one save and one submission at most are under way, and what is
\* chosen in the git review is in the list that is shown.
THEOREM DialogTypes == DialogsSpec => []TypeOK
<1>1. GitInv /\ EditInv /\ CopyInv /\ ServerInv => TypeOK
  BY GitIsTrue, TypeFromInv, CopyIsTrue, ServerIsTrue DEF TypeOK
<1> QED BY <1>1, DialogsInvariant, PTL

===============================================================================
