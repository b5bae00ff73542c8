------------------------------ MODULE Panels_proofs ------------------------------
(***************************************************************************)
(* Theorems about RemoteSessions, for any number of profiles, hosts, keys  *)
(* and calls; about PanelListing, for any directories, any number of tabs  *)
(* and listings; and about the panels and connections together.            *)
(***************************************************************************)
EXTENDS MCPanels, SequenceTheorems, TLAPS

-----------------------------------------------------------------------------
(* The inductive invariant of the remote sessions.                         *)

Forcing == {"row", "observe", "judge", "secrets", "shake", "insert", "drop", "mark", "tell", "answered"}
Locked  == Forcing \cup {"again", "cached", "ping"}
Logging == {"connect", "provider"}

Mine(p, i) == i \in DOMAIN remote /\ remote[i] # NoCall /\ remote[i].profile = p

\* The steps a kind of call takes, and what it has with it there.
Fits(c) ==
    /\ c.kind = "connect" => c.at \in {"look", "lock", "again"} \cup Forcing
    /\ c.kind = "provider" => c.at \in {"lock", "cached", "ping", "use"} \cup Forcing
    /\ c.kind = "verify" => c.at \in {"row", "observe", "judge"}
    /\ c.kind \in {"disconnect", "reap"} => c.at \in {"drop", "mark", "tell"} /\ c.then = "done"
    /\ c.kind = "update" => /\ c.at \in {"edit", "drop", "mark", "tell", "clear", "unpin", "write"}
                            /\ c.arg \in {<<h>> : h \in Hosts}
    /\ c.kind = "delete" => c.at \in {"drop", "mark", "tell", "clear", "remove"}
    /\ c.kind = "forget" => c.at \in {"drop", "mark", "tell", "clear", "unpin"}
    /\ c.kind = "trust" => c.at \in {"compare", "pin", "answered"} /\ c.arg \in Keys
    /\ c.kind \in Logging /\ c.at \in {"drop", "mark", "tell"} =>
           \/ c.then = "row" /\ c.outcome = "disconnected"
           \/ c.then = "answered" /\ c.outcome \in {"connected", "error"}
    /\ c.kind \notin Logging => c.outcome = "none"
    /\ c.at = "drop" => c.outcome # "connected"
    /\ c.at \in {"observe", "judge", "secrets", "shake", "insert"} => c.row \in Row
    /\ c.at = "judge" => c.key \in Keys /\ c.key[1] = c.row.host
    /\ c.at = "insert" => c.key \in Keys

CallsFit == \A i \in DOMAIN remote : remote[i] # NoCall => Fits(remote[i])

\* A call that connects holds the lock of its profile, and only such a call does.
LockHeld ==
    /\ \A i \in DOMAIN remote :
           remote[i].kind \in Logging /\ remote[i].at \in Locked => holder[P(i)] = i
    /\ \A p \in Profiles : holder[p] # NoOne =>
           /\ Mine(p, holder[p])
           /\ remote[holder[p]].kind \in Logging /\ remote[holder[p]].at \in Locked

Worn(s) == s # NoSession => ~s.alive \/ s.age # "fresh"

\* Whoever is on the way to a login has seen that there is no session worth keeping.
NoneFresh ==
    \A i \in DOMAIN remote : remote[i].kind \in Logging =>
        /\ remote[i].at \in {"row", "observe", "judge", "secrets", "shake", "insert"} => Worn(session[P(i)])
        /\ remote[i].at \in {"drop", "mark", "tell"} /\ remote[i].then = "row" => Worn(session[P(i)])

Known(p, k) == k = NoKey \/ <<p, k>> \in confirmed

\* Every key that is pinned, read from a row or logged in with has been confirmed.
KeysKnown ==
    /\ \A p \in Profiles : rows[p].there => Known(p, rows[p].pinned)
    /\ \A i \in DOMAIN remote : remote[i] # NoCall =>
           /\ remote[i].at \in {"observe", "judge", "secrets", "shake"} => Known(P(i), remote[i].row.pinned)
           /\ remote[i].at = "insert" => <<P(i), remote[i].key>> \in confirmed
    /\ ConfirmedOnly

LoginInv == RemoteTypeOK /\ CallsFit /\ LockHeld /\ NoneFresh /\ KeysKnown

OutcomeOf(d) == IF Undoing(d) THEN "disconnected" ELSE d.outcome

\* What a call has brought about where it is, while no disconnect or edit crosses a connect.
CallCalm(d, p) ==
    /\ d.at = "mark" => (session[p] # NoSession <=> OutcomeOf(d) = "connected")
    /\ d.at = "tell" => status[p] = OutcomeOf(d)
    /\ Undoing(d) /\ d.at # "drop" => session[p] = NoSession
    /\ d.at \in {"observe", "judge", "secrets", "shake", "insert", "pin"} => rows[p].there
    /\ d.at = "remove" => challenge[p] = Unasked
    /\ d.at = "pin" /\ rows[p].there => d.arg[1] = rows[p].host
    /\ d.at = "write" /\ rows[p].there => rows[p].pinned = NoKey
    /\ d.kind \in Logging /\ d.at \in {"shake", "insert"} => secret[p]
    /\ d.kind \in Logging /\ d.at \in {"mark", "tell", "answered"} /\ d.outcome = "connected" => secret[p]

CallsCalm(p) == \A j \in DOMAIN remote : Mine(p, j) => CallCalm(remote[j], p)

\* The status is that of the session, and has been told, or a call is about to see to it.
StatusCalm(p) ==
    /\ \/ \E j \in DOMAIN remote : Mine(p, j) /\ remote[j].at = "mark"
       \/ status[p] = "connected" <=> session[p] # NoSession
    /\ \/ \E j \in DOMAIN remote : Mine(p, j) /\ remote[j].at \in {"mark", "tell"}
       \/ told[p] = status[p]

\* A deleted profile leaves nothing; a row knows whether there is a password; keys are
\* those of the host.
RowCalm(p) ==
    /\ ~rows[p].there => session[p] = NoSession /\ challenge[p] = Unasked
    /\ rows[p].there => (rows[p].stored <=> secret[p])
    /\ challenge[p] # Unasked => challenge[p].key[1] = challenge[p].host
    /\ rows[p].there /\ rows[p].pinned # NoKey => rows[p].pinned[1] = rows[p].host

Calm(p) == CallsCalm(p) /\ StatusCalm(p) /\ RowCalm(p)

CalmInv ==
    /\ LoginInv
    /\ Tangled(remote) => tangled
    /\ ~tangled => \A p \in Profiles : Calm(p)

-----------------------------------------------------------------------------
(* What a step does to the calls.                                          *)

LEMMA KeysAreKeys ==
  ASSUME NEW k \in Keys
  PROVE  k # NoKey /\ k[1] \in Hosts
  BY DEF Keys, NoKey

\* A handle is told from none, a row from none, a question from none.
LEMMA NonesAreNone ==
  /\ \A s \in Handle : s # NoSession
  /\ \A r \in Row : r.there
  /\ ~NoRow.there
  /\ \A q \in Question : q # Unasked
<1>1. \A s \in Handle : s # NoSession
  BY KeysAreKeys DEF Handle, NoSession
<1>2. \A q \in Question : q # Unasked
  BY KeysAreKeys DEF Question, Unasked
<1> QED
  BY <1>1, <1>2 DEF Row, NoRow

LEMMA Caller ==
  ASSUME RemoteTypeOK, NEW i \in DOMAIN remote, remote[i] # NoCall
  PROVE  remote[i] \in RemoteCall /\ P(i) \in Profiles /\ i \in 1 .. MaxCalls
<1>1. remote[i] \in RemoteCall /\ i \in 1 .. Len(remote) /\ Len(remote) \in Nat /\ Len(remote) <= MaxCalls
  BY DEF RemoteTypeOK
<1> QED
  BY <1>1, RemoteConstants DEF P, RemoteCall

LEMMA NoCallIsNone == \A c \in RemoteCall : c # NoCall
  BY DEF NoCall, RemoteCall, CallKinds

LEMMA NoCallFits == NoCall.kind = "none" /\ NoCall.at = "done"
  BY DEF NoCall

\* RemoteCall i becomes c and the others stay.
CallBecomes(i, c) ==
    /\ DOMAIN remote' = DOMAIN remote
    /\ remote'[i] = c
    /\ \A j \in DOMAIN remote : j # i => remote'[j] = remote[j]

\* A call is over or goes on as the same call with what its step asks for.
GoesOn(i, c) ==
    /\ CallBecomes(i, c)
    /\ \/ c = NoCall
       \/ c \in RemoteCall /\ c.kind = remote[i].kind /\ c.profile = remote[i].profile /\ Fits(c)

LEMMA GoesBecomes ==
  ASSUME RemoteTypeOK, NEW i \in DOMAIN remote, NEW c \in RemoteCall \cup {NoCall},
         Goes([remote EXCEPT ![i] = c])
  PROVE  /\ CallBecomes(i, c)
         /\ remote' \in Seq(RemoteCall \cup {NoCall}) /\ Len(remote') = Len(remote)
         /\ tangled' \in BOOLEAN
  BY DEF Goes, CallBecomes, RemoteTypeOK, Tangled

LEMMA FitsOn ==
  ASSUME CallsFit, NEW i \in DOMAIN remote, NEW c, GoesOn(i, c)
  PROVE  CallsFit'
  BY DEF CallsFit, GoesOn, CallBecomes

-----------------------------------------------------------------------------
(* The lock: a step keeps it, takes it or gives it back.                   *)

LEMMA LockKept ==
  ASSUME CallsFit, LockHeld, NEW i \in DOMAIN remote, remote[i] \in RemoteCall, NEW c, GoesOn(i, c),
         remote[i].kind \in Logging => (remote[i].at \in Locked <=> c.at \in Locked),
         holder' = holder
  PROVE  LockHeld'
  BY NoCallFits DEF LockHeld, GoesOn, CallBecomes, Mine, P, Logging, NoOne, Locked, Forcing

LEMMA LockTaken ==
  ASSUME RemoteTypeOK, CallsFit, LockHeld, NEW i \in DOMAIN remote, remote[i] \in RemoteCall, NEW c, GoesOn(i, c),
         remote[i].kind \in Logging, c # NoCall, c.at \in Locked, holder[P(i)] = NoOne,
         holder' = [holder EXCEPT ![P(i)] = i]
  PROVE  LockHeld'
<1>1. P(i) \in Profiles /\ i # NoOne /\ \A p \in Profiles : holder'[p] = IF p = P(i) THEN i ELSE holder[p]
  BY NoCallIsNone, Caller DEF RemoteTypeOK, NoOne
<1>2. ASSUME NEW j \in DOMAIN remote, j # i, remote[j].kind \in Logging, remote[j].at \in Locked
      PROVE  holder'[P(j)] = j
  <2>1. holder[P(j)] = j /\ j # NoOne /\ P(j) \in Profiles
    BY <1>2, NoCallFits, Caller DEF LockHeld, Logging, NoOne
  <2> QED
    BY <1>1, <2>1
<1>3. ASSUME NEW p \in Profiles, p # P(i), holder[p] # NoOne PROVE holder[p] # i
  BY <1>3 DEF LockHeld, Mine, P
<1>4. c.kind = remote[i].kind /\ c.profile = P(i) /\ CallBecomes(i, c)
  BY DEF GoesOn, P
<1>5. \A j \in DOMAIN remote : P(j)' = P(j)
  BY <1>4 DEF CallBecomes, P
<1>6. \A j \in DOMAIN remote' :
         remote'[j].kind \in Logging /\ remote'[j].at \in Locked => holder'[P(j)'] = j
  BY <1>1, <1>2, <1>4, <1>5 DEF CallBecomes
<1>7. ASSUME NEW p \in Profiles, holder'[p] # NoOne
      PROVE  Mine(p, holder[p])' /\ remote'[holder'[p]].kind \in Logging /\ remote'[holder'[p]].at \in Locked
  BY <1>1, <1>3, <1>4, <1>7 DEF LockHeld, CallBecomes, Mine
<1> QED
  BY <1>6, <1>7 DEF LockHeld, P

LEMMA LockLeft ==
  ASSUME RemoteTypeOK, CallsFit, LockHeld, NEW i \in DOMAIN remote, remote[i] \in RemoteCall, NEW c, GoesOn(i, c),
         c = NoCall \/ c.at \notin Locked,
         holder' = [holder EXCEPT ![P(i)] = IF @ = i THEN NoOne ELSE @]
  PROVE  LockHeld'
<1>1. /\ P(i) \in Profiles /\ i # NoOne
      /\ \A p \in Profiles : holder'[p] = IF p = P(i) /\ holder[p] = i THEN NoOne ELSE holder[p]
  BY NoCallIsNone, Caller DEF RemoteTypeOK, NoOne
<1>2. CallBecomes(i, c) /\ ~(c.kind \in Logging /\ c.at \in Locked)
  BY NoCallFits DEF GoesOn, Locked, Forcing
<1>3. ASSUME NEW j \in DOMAIN remote, j # i, remote[j].kind \in Logging, remote[j].at \in Locked
      PROVE  holder'[P(j)] = j
  <2>1. holder[P(j)] = j /\ P(j) \in Profiles
    BY <1>3, NoCallFits, Caller DEF LockHeld, Logging
  <2> QED
    BY <1>1, <1>3, <2>1
<1>4. \A j \in DOMAIN remote : j # i => P(j)' = P(j)
  BY <1>2 DEF CallBecomes, P
<1>5. \A j \in DOMAIN remote' :
         remote'[j].kind \in Logging /\ remote'[j].at \in Locked => holder'[P(j)'] = j
  BY <1>2, <1>3, <1>4 DEF CallBecomes
<1>6. ASSUME NEW p \in Profiles, holder'[p] # NoOne
      PROVE  Mine(p, holder[p])' /\ remote'[holder'[p]].kind \in Logging /\ remote'[holder'[p]].at \in Locked
  <2>1. holder'[p] = holder[p] /\ holder[p] # i
    BY <1>1, <1>6 DEF LockHeld, Mine, P
  <2> QED
    BY <1>2, <1>6, <2>1 DEF LockHeld, CallBecomes, Mine
<1> QED
  BY <1>5, <1>6 DEF LockHeld, P

-----------------------------------------------------------------------------
(* What is worn stays worn, but for a login.                               *)

\* What a call has to have seen.
SeenWorn(c, s) ==
    c.kind \in Logging =>
        /\ c.at \in {"row", "observe", "judge", "secrets", "shake", "insert"} => Worn(s)
        /\ c.at \in {"drop", "mark", "tell"} /\ c.then = "row" => Worn(s)

LEMMA StaysWorn ==
  ASSUME NoneFresh, NEW i \in DOMAIN remote, NEW c, GoesOn(i, c), remote[i] \in RemoteCall,
         \A p \in Profiles : Worn(session[p]) => Worn(session'[p]),
         c # NoCall => SeenWorn(c, session'[P(i)]), RemoteTypeOK
  PROVE  NoneFresh'
<1>1. ASSUME NEW j \in DOMAIN remote, remote[j].kind \in Logging PROVE P(j) \in Profiles
  BY <1>1, NoCallFits, Caller DEF Logging
<1> QED
  BY NoCallFits, <1>1 DEF NoneFresh, GoesOn, CallBecomes, P, SeenWorn, Logging

-----------------------------------------------------------------------------
(* What is confirmed stays confirmed.                                      *)

KeyKnown(c) ==
    /\ c.at \in {"observe", "judge", "secrets", "shake"} => Known(c.profile, c.row.pinned)
    /\ c.at = "insert" => <<c.profile, c.key>> \in confirmed

LEMMA StaysKnown ==
  ASSUME KeysKnown, NEW i \in DOMAIN remote, NEW c, GoesOn(i, c), confirmed \subseteq confirmed',
         c # NoCall => KeyKnown(c)',
         \A p \in Profiles : rows'[p].there => Known(p, rows[p].pinned)' , ConfirmedOnly'
  PROVE  KeysKnown'
  BY NoCallFits DEF KeysKnown, GoesOn, CallBecomes, P, KeyKnown, Known

-----------------------------------------------------------------------------
(* What each step makes of its call.                                       *)

On(i, s) == IF s = "done" THEN NoCall ELSE [remote[i] EXCEPT !.at = s]
OnWith(i, s, o, then) == [remote[i] EXCEPT !.at = s, !.outcome = o, !.then = then]
FailedCall(i) == IF remote[i].kind = "verify" THEN NoCall ELSE OnWith(i, "drop", "error", "answered")

Moves(i, c) ==
    /\ GoesOn(i, c)
    /\ remote' \in Seq(RemoteCall \cup {NoCall}) /\ Len(remote') = Len(remote)
    /\ tangled' \in BOOLEAN /\ tangled' = (tangled \/ Tangled(remote'))

LEMMA OnType ==
  ASSUME NEW i, remote[i] \in RemoteCall, NEW s \in Steps
  PROVE  On(i, s) \in RemoteCall \cup {NoCall} /\ To(i, s) = [remote EXCEPT ![i] = On(i, s)]
<1>1. On(i, s) \in RemoteCall \cup {NoCall}
  BY DEF On, RemoteCall
<1> QED
  BY <1>1 DEF On, To

LEMMA OnDone == \A i : On(i, "done") = NoCall
  BY DEF On

LEMMA OnWithFits ==
  ASSUME NEW i, remote[i] \in RemoteCall, Fits(remote[i]), remote[i].kind \in Logging,
         NEW s \in {"drop", "mark"}, NEW o \in Statuses, NEW then \in {"row", "answered"},
         s = "drop" => o # "connected",
         then = "row" <=> o = "disconnected"
  PROVE  LET c == OnWith(i, s, o, then)
         IN  c \in RemoteCall /\ c.kind = remote[i].kind /\ c.profile = remote[i].profile /\ Fits(c)
<1> DEFINE c == OnWith(i, s, o, then)
<1>1. /\ c \in RemoteCall /\ c.kind = remote[i].kind /\ c.profile = remote[i].profile
      /\ c.at = s /\ c.outcome = o /\ c.then = then
  BY DEF RemoteCall, OnWith, Steps, Statuses
<1> HIDE DEF c
<1>2. Fits(c)
  BY <1>1 DEF Fits, Forcing, Logging, Statuses
<1> QED
  BY <1>1, <1>2 DEF c

LEMMA FailedFits ==
  ASSUME NEW i, remote[i] \in RemoteCall, Fits(remote[i]), remote[i].kind \in Logging \cup {"verify"}
  PROVE  LET c == FailedCall(i)
         IN  /\ c \in RemoteCall \cup {NoCall}
             /\ c # NoCall => c.kind = remote[i].kind /\ c.profile = remote[i].profile /\ Fits(c)
  BY OnWithFits DEF FailedCall, Logging, Statuses

LEMMA FailedIs == \A i : Failed(i) = [remote EXCEPT ![i] = FailedCall(i)]
  BY DEF Failed, FailedCall, To, OnTo, OnWith

LEMMA PresentedIsKey ==
  ASSUME RemoteTypeOK, NEW h \in Hosts
  PROVE  Presented(h) \in Keys /\ Presented(h)[1] = h
  BY DEF RemoteTypeOK, Presented, Keys

LEMMA Moving ==
  ASSUME RemoteTypeOK, NEW i \in DOMAIN remote, remote[i] \in RemoteCall, NEW c \in RemoteCall \cup {NoCall},
         Goes([remote EXCEPT ![i] = c]),
         c # NoCall => c.kind = remote[i].kind /\ c.profile = remote[i].profile /\ Fits(c)
  PROVE  Moves(i, c)
<1>1. /\ CallBecomes(i, c) /\ remote' \in Seq(RemoteCall \cup {NoCall}) /\ Len(remote') = Len(remote)
      /\ tangled' \in BOOLEAN
  BY GoesBecomes
<1>2. tangled' = (tangled \/ Tangled(remote'))
  BY DEF Goes
<1> QED
  BY <1>1, <1>2 DEF Moves, GoesOn

LEMMA LookMoves ==
  ASSUME LoginInv, NEW i \in DOMAIN remote, remote[i] \in RemoteCall, Look(i)
  PROVE  \E c \in RemoteCall \cup {NoCall} :
        /\ c = On(i, IF Live(session[P(i)]) THEN "done" ELSE "lock")
        /\ Moves(i, c)
<1>1. RemoteTypeOK /\ CallsFit /\ P(i) \in Profiles /\ Fits(remote[i])
  BY Caller, NoCallIsNone DEF LoginInv, CallsFit
<1>2. PICK c \in RemoteCall \cup {NoCall} :
        /\ c = On(i, IF Live(session[P(i)]) THEN "done" ELSE "lock")
        /\ Goes([remote EXCEPT ![i] = c])
  BY <1>1 DEF Look, To, RemoteCall, Steps, At, Statuses, RemoteTypeOK, On, OnWith, FailedCall, Fits, Forcing
<1>3. c # NoCall => c.kind = remote[i].kind /\ c.profile = remote[i].profile /\ Fits(c)
  BY <1>1, <1>2 DEF Look, At, RemoteCall, On, OnWith, FailedCall, Fits, Forcing, Logging
<1> QED
  BY <1>1, <1>2, <1>3, Moving

LEMMA LockMoves ==
  ASSUME LoginInv, NEW i \in DOMAIN remote, remote[i] \in RemoteCall, Lock(i)
  PROVE  \E c \in RemoteCall \cup {NoCall} :
        /\ c = On(i, IF remote[i].kind = "connect" THEN "again" ELSE "cached")
        /\ Moves(i, c)
<1>1. RemoteTypeOK /\ CallsFit /\ P(i) \in Profiles /\ Fits(remote[i])
  BY Caller, NoCallIsNone DEF LoginInv, CallsFit
<1>2. PICK c \in RemoteCall \cup {NoCall} :
        /\ c = On(i, IF remote[i].kind = "connect" THEN "again" ELSE "cached")
        /\ Goes([remote EXCEPT ![i] = c])
  BY <1>1 DEF Lock, To, RemoteCall, Steps, At, Statuses, RemoteTypeOK, On, OnWith, FailedCall, Fits, Forcing
<1>3. c # NoCall => c.kind = remote[i].kind /\ c.profile = remote[i].profile /\ Fits(c)
  BY <1>1, <1>2 DEF Lock, At, RemoteCall, On, OnWith, FailedCall, Fits, Forcing, Logging
<1> QED
  BY <1>1, <1>2, <1>3, Moving

LEMMA AgainMoves ==
  ASSUME LoginInv, NEW i \in DOMAIN remote, remote[i] \in RemoteCall, Again(i)
  PROVE  \E c \in RemoteCall \cup {NoCall} :
        /\ c = On(i, IF Live(session[P(i)]) THEN "done" ELSE "row")
        /\ Moves(i, c)
<1>1. RemoteTypeOK /\ CallsFit /\ P(i) \in Profiles /\ Fits(remote[i])
  BY Caller, NoCallIsNone DEF LoginInv, CallsFit
<1>2. PICK c \in RemoteCall \cup {NoCall} :
        /\ c = On(i, IF Live(session[P(i)]) THEN "done" ELSE "row")
        /\ Goes([remote EXCEPT ![i] = c])
  BY <1>1 DEF Again, To, Leave, RemoteCall, Steps, At, Statuses, RemoteTypeOK, On, OnWith, FailedCall, Fits, Forcing
<1>3. c # NoCall => c.kind = remote[i].kind /\ c.profile = remote[i].profile /\ Fits(c)
  BY <1>1, <1>2 DEF Again, At, RemoteCall, On, OnWith, FailedCall, Fits, Forcing, Logging
<1> QED
  BY <1>1, <1>2, <1>3, Moving

LEMMA CachedMoves ==
  ASSUME LoginInv, NEW i \in DOMAIN remote, remote[i] \in RemoteCall, Cached(i)
  PROVE  \E c \in RemoteCall \cup {NoCall} :
        /\ c = On(i, IF session[P(i)] = NoSession \/ session[P(i)].age = "idle" THEN "row" ELSE "ping")
        /\ Moves(i, c)
<1>1. RemoteTypeOK /\ CallsFit /\ P(i) \in Profiles /\ Fits(remote[i])
  BY Caller, NoCallIsNone DEF LoginInv, CallsFit
<1>2. PICK c \in RemoteCall \cup {NoCall} :
        /\ c = On(i, IF session[P(i)] = NoSession \/ session[P(i)].age = "idle" THEN "row" ELSE "ping")
        /\ Goes([remote EXCEPT ![i] = c])
  BY <1>1 DEF Cached, To, RemoteCall, Steps, At, Statuses, RemoteTypeOK, On, OnWith, FailedCall, Fits, Forcing
<1>3. c # NoCall => c.kind = remote[i].kind /\ c.profile = remote[i].profile /\ Fits(c)
  BY <1>1, <1>2 DEF Cached, At, RemoteCall, On, OnWith, FailedCall, Fits, Forcing, Logging
<1> QED
  BY <1>1, <1>2, <1>3, Moving

LEMMA PingMoves ==
  ASSUME LoginInv, NEW i \in DOMAIN remote, remote[i] \in RemoteCall, Ping(i)
  PROVE  \E c \in RemoteCall \cup {NoCall} :
        /\ \/ c = On(i, "use") /\ (session[P(i)] # NoSession => session[P(i)].alive) /\ Leave(i, "use")
           \/ c = OnWith(i, "drop", "disconnected", "row") /\ (session[P(i)] # NoSession => ~session[P(i)].alive)
                           /\ holder' = holder
        /\ Moves(i, c)
<1>1. RemoteTypeOK /\ CallsFit /\ P(i) \in Profiles /\ Fits(remote[i])
  BY Caller, NoCallIsNone DEF LoginInv, CallsFit
<1>2. remote[i].kind \in Logging
  BY <1>1 DEF Ping, At, Fits, Forcing, Logging, RemoteCall, CallKinds
<1>3. LET c == OnWith(i, "drop", "disconnected", "row")
      IN  /\ c \in RemoteCall \cup {NoCall}
          /\ c # NoCall => c.kind = remote[i].kind /\ c.profile = remote[i].profile /\ Fits(c)
  BY <1>1, <1>2, OnWithFits DEF Statuses, Logging
<1>4. PICK c :
        /\ \/ c = On(i, "use") /\ (session[P(i)] # NoSession => session[P(i)].alive) /\ Leave(i, "use")
           \/ c = OnWith(i, "drop", "disconnected", "row") /\ (session[P(i)] # NoSession => ~session[P(i)].alive)
                           /\ holder' = holder
        /\ Goes([remote EXCEPT ![i] = c])
  BY <1>1 DEF Ping, To, OnTo, OnWith, Leave, On
<1>5. CASE c = OnWith(i, "drop", "disconnected", "row")
  BY <1>1, <1>3, <1>4, <1>5, Moving
<1>6. CASE c # OnWith(i, "drop", "disconnected", "row")
  <2>1. c = On(i, "use") /\ (session[P(i)] # NoSession => session[P(i)].alive) /\ Leave(i, "use")
    BY <1>4, <1>6
  <2>2. c \in RemoteCall \cup {NoCall} /\ (c # NoCall => c.kind = remote[i].kind /\ c.profile = remote[i].profile)
    BY <1>1, <2>1, NoCallIsNone DEF Ping, At, On, RemoteCall, Steps, Fits
  <2>3. c # NoCall => Fits(c)
    BY <1>1, <1>2, <2>1, NoCallIsNone DEF Ping, At, On, RemoteCall, Fits, Forcing, Logging
  <2> QED
    BY <1>1, <1>4, <2>2, <2>3, Moving
<1> QED
  BY <1>5, <1>6

LEMMA ReadRowMoves ==
  ASSUME LoginInv, NEW i \in DOMAIN remote, remote[i] \in RemoteCall, ReadRow(i)
  PROVE  \E c \in RemoteCall \cup {NoCall} :
        /\ \/ rows[P(i)].there /\ c = [remote[i] EXCEPT !.at = "observe", !.row = rows[P(i)]]
           \/ ~rows[P(i)].there /\ c = NoCall
        /\ Moves(i, c)
<1>1. RemoteTypeOK /\ CallsFit /\ P(i) \in Profiles /\ Fits(remote[i])
  BY Caller, NoCallIsNone DEF LoginInv, CallsFit
<1>2. PICK c \in RemoteCall \cup {NoCall} :
        /\ \/ rows[P(i)].there /\ c = [remote[i] EXCEPT !.at = "observe", !.row = rows[P(i)]]
           \/ ~rows[P(i)].there /\ c = NoCall
        /\ Goes([remote EXCEPT ![i] = c])
  BY NonesAreNone, <1>1 DEF ReadRow, To, Leave, RemoteCall, Steps, At, Statuses, RemoteTypeOK, On, OnWith, FailedCall, Fits, Forcing
<1>3. c # NoCall => c.kind = remote[i].kind /\ c.profile = remote[i].profile /\ Fits(c)
  BY NonesAreNone, <1>1, <1>2 DEF ReadRow, At, RemoteCall, On, OnWith, FailedCall, Fits, Forcing, Logging
<1> QED
  BY <1>1, <1>2, <1>3, Moving

LEMMA ObserveMoves ==
  ASSUME LoginInv, NEW i \in DOMAIN remote, remote[i] \in RemoteCall, Observe(i)
  PROVE  \E c \in RemoteCall \cup {NoCall} :
        /\ \/ c = [remote[i] EXCEPT !.at = "judge", !.key = Presented(remote[i].row.host)]
           \/ c = FailedCall(i)
        /\ Moves(i, c)
<1>1. RemoteTypeOK /\ CallsFit /\ P(i) \in Profiles /\ Fits(remote[i])
  BY Caller, NoCallIsNone DEF LoginInv, CallsFit
<1>2. remote[i].kind \in Logging \cup {"verify"}
  BY <1>1 DEF Observe, At, Fits, Forcing, Logging, RemoteCall, CallKinds
<1>3. LET c == FailedCall(i)
      IN  /\ c \in RemoteCall \cup {NoCall}
          /\ c # NoCall => c.kind = remote[i].kind /\ c.profile = remote[i].profile /\ Fits(c)
  BY <1>1, <1>2, FailedFits DEF Statuses, Logging
<1>4. PICK c :
        /\ \/ c = [remote[i] EXCEPT !.at = "judge", !.key = Presented(remote[i].row.host)]
           \/ c = FailedCall(i)
        /\ Goes([remote EXCEPT ![i] = c])
  BY <1>1, FailedIs DEF Observe, To, On
<1>5. CASE c = FailedCall(i)
  BY <1>1, <1>3, <1>4, <1>5, Moving
<1>6. CASE c # FailedCall(i)
  <2>1. c = [remote[i] EXCEPT !.at = "judge", !.key = Presented(remote[i].row.host)]
    BY <1>4, <1>6
  <2>4. remote[i].row \in Row
    BY <1>1 DEF Observe, At, Fits
  <2>5. Presented(remote[i].row.host) \in Keys /\ Presented(remote[i].row.host)[1] = remote[i].row.host
    BY <1>1, <2>4, PresentedIsKey DEF Row
  <2>2. c \in RemoteCall \cup {NoCall} /\ (c # NoCall => c.kind = remote[i].kind /\ c.profile = remote[i].profile)
    BY <1>1, <2>1, <2>4, <2>5, NoCallIsNone DEF Observe, At, On, RemoteCall, Steps, Fits
  <2>3. c # NoCall => Fits(c)
    BY <1>1, <1>2, <2>1, <2>4, <2>5, NoCallIsNone DEF Observe, At, On, RemoteCall, Fits, Forcing, Logging
  <2> QED
    BY <1>1, <1>4, <2>2, <2>3, Moving
<1> QED
  BY <1>5, <1>6

LEMMA JudgeMoves ==
  ASSUME LoginInv, NEW i \in DOMAIN remote, remote[i] \in RemoteCall, Judge(i)
  PROVE  \E c \in RemoteCall \cup {NoCall} :
        /\ \/ remote[i].row.pinned = remote[i].key /\ c = On(i, IF remote[i].kind = "verify" THEN "done" ELSE "secrets")
           \/ remote[i].row.pinned # remote[i].key /\ c = FailedCall(i)
        /\ Moves(i, c)
<1>1. RemoteTypeOK /\ CallsFit /\ P(i) \in Profiles /\ Fits(remote[i])
  BY Caller, NoCallIsNone DEF LoginInv, CallsFit
<1>2. remote[i].kind \in Logging \cup {"verify"}
  BY <1>1 DEF Judge, At, Fits, Forcing, Logging, RemoteCall, CallKinds
<1>3. LET c == FailedCall(i)
      IN  /\ c \in RemoteCall \cup {NoCall}
          /\ c # NoCall => c.kind = remote[i].kind /\ c.profile = remote[i].profile /\ Fits(c)
  BY <1>1, <1>2, FailedFits DEF Statuses, Logging
<1>4. PICK c :
        /\ \/ remote[i].row.pinned = remote[i].key /\ c = On(i, IF remote[i].kind = "verify" THEN "done" ELSE "secrets")
           \/ remote[i].row.pinned # remote[i].key /\ c = FailedCall(i)
        /\ Goes([remote EXCEPT ![i] = c])
  BY <1>1, FailedIs DEF Judge, To, On
<1>5. CASE c = FailedCall(i)
  BY <1>1, <1>3, <1>4, <1>5, Moving
<1>6. CASE c # FailedCall(i)
  <2>1. remote[i].row.pinned = remote[i].key /\ c = On(i, IF remote[i].kind = "verify" THEN "done" ELSE "secrets")
    BY <1>4, <1>6
  <2>2. c \in RemoteCall \cup {NoCall} /\ (c # NoCall => c.kind = remote[i].kind /\ c.profile = remote[i].profile)
    BY <1>1, <2>1, NoCallIsNone DEF Judge, At, On, RemoteCall, Steps, Fits
  <2>3. c # NoCall => Fits(c)
    BY <1>1, <1>2, <2>1, NoCallIsNone DEF Judge, At, On, RemoteCall, Fits, Forcing, Logging
  <2> QED
    BY <1>1, <1>4, <2>2, <2>3, Moving
<1> QED
  BY <1>5, <1>6

LEMMA LoadSecretsMoves ==
  ASSUME LoginInv, NEW i \in DOMAIN remote, remote[i] \in RemoteCall, LoadSecrets(i)
  PROVE  \E c \in RemoteCall \cup {NoCall} :
        /\ \/ c = On(i, "shake") /\ secret[P(i)]
           \/ c = FailedCall(i)
        /\ Moves(i, c)
<1>1. RemoteTypeOK /\ CallsFit /\ P(i) \in Profiles /\ Fits(remote[i])
  BY Caller, NoCallIsNone DEF LoginInv, CallsFit
<1>2. remote[i].kind \in Logging
  BY <1>1 DEF LoadSecrets, At, Fits, Forcing, Logging, RemoteCall, CallKinds
<1>3. LET c == FailedCall(i)
      IN  /\ c \in RemoteCall \cup {NoCall}
          /\ c # NoCall => c.kind = remote[i].kind /\ c.profile = remote[i].profile /\ Fits(c)
  BY <1>1, <1>2, FailedFits DEF Statuses, Logging
<1>4. PICK c :
        /\ \/ c = On(i, "shake") /\ secret[P(i)]
           \/ c = FailedCall(i)
        /\ Goes([remote EXCEPT ![i] = c])
  BY <1>1, FailedIs DEF LoadSecrets, To, On
<1>5. CASE c = FailedCall(i)
  BY <1>1, <1>3, <1>4, <1>5, Moving
<1>6. CASE c # FailedCall(i)
  <2>1. c = On(i, "shake") /\ secret[P(i)]
    BY <1>4, <1>6
  <2>2. c \in RemoteCall \cup {NoCall} /\ (c # NoCall => c.kind = remote[i].kind /\ c.profile = remote[i].profile)
    BY <1>1, <2>1, NoCallIsNone DEF LoadSecrets, At, On, RemoteCall, Steps, Fits
  <2>3. c # NoCall => Fits(c)
    BY <1>1, <1>2, <2>1, NoCallIsNone DEF LoadSecrets, At, On, RemoteCall, Fits, Forcing, Logging
  <2> QED
    BY <1>1, <1>4, <2>2, <2>3, Moving
<1> QED
  BY <1>5, <1>6

LEMMA ShakeMoves ==
  ASSUME LoginInv, NEW i \in DOMAIN remote, remote[i] \in RemoteCall, Shake(i)
  PROVE  \E c \in RemoteCall \cup {NoCall} :
        /\ \/ /\ Presented(remote[i].row.host) = remote[i].row.pinned
                 /\ c = [remote[i] EXCEPT !.at = "insert", !.key = remote[i].row.pinned]
           \/ c = FailedCall(i)
        /\ Moves(i, c)
<1>1. RemoteTypeOK /\ CallsFit /\ P(i) \in Profiles /\ Fits(remote[i])
  BY Caller, NoCallIsNone DEF LoginInv, CallsFit
<1>2. remote[i].kind \in Logging
  BY <1>1 DEF Shake, At, Fits, Forcing, Logging, RemoteCall, CallKinds
<1>3. LET c == FailedCall(i)
      IN  /\ c \in RemoteCall \cup {NoCall}
          /\ c # NoCall => c.kind = remote[i].kind /\ c.profile = remote[i].profile /\ Fits(c)
  BY <1>1, <1>2, FailedFits DEF Statuses, Logging
<1>4. PICK c :
        /\ \/ /\ Presented(remote[i].row.host) = remote[i].row.pinned
                 /\ c = [remote[i] EXCEPT !.at = "insert", !.key = remote[i].row.pinned]
           \/ c = FailedCall(i)
        /\ Goes([remote EXCEPT ![i] = c])
  BY <1>1, FailedIs DEF Shake, To, On
<1>5. CASE c = FailedCall(i)
  BY <1>1, <1>3, <1>4, <1>5, Moving
<1>6. CASE c # FailedCall(i)
  <2>1. Presented(remote[i].row.host) = remote[i].row.pinned /\ c = [remote[i] EXCEPT !.at = "insert", !.key = remote[i].row.pinned]
    BY <1>4, <1>6
  <2>4. remote[i].row \in Row
    BY <1>1 DEF Shake, At, Fits
  <2>5. Presented(remote[i].row.host) \in Keys /\ Presented(remote[i].row.host)[1] = remote[i].row.host
    BY <1>1, <2>4, PresentedIsKey DEF Row
  <2>2. c \in RemoteCall \cup {NoCall} /\ (c # NoCall => c.kind = remote[i].kind /\ c.profile = remote[i].profile)
    BY <1>1, <2>1, <2>4, <2>5, NoCallIsNone DEF Shake, At, On, RemoteCall, Steps, Fits
  <2>3. c # NoCall => Fits(c)
    BY <1>1, <1>2, <2>1, <2>4, <2>5, NoCallIsNone DEF Shake, At, On, RemoteCall, Fits, Forcing, Logging
  <2> QED
    BY <1>1, <1>4, <2>2, <2>3, Moving
<1> QED
  BY <1>5, <1>6

LEMMA InsertMoves ==
  ASSUME LoginInv, NEW i \in DOMAIN remote, remote[i] \in RemoteCall, Insert(i)
  PROVE  \E c \in RemoteCall \cup {NoCall} :
        /\ c = OnWith(i, "mark", "connected", "answered")
        /\ Moves(i, c)
<1>1. RemoteTypeOK /\ CallsFit /\ P(i) \in Profiles /\ Fits(remote[i])
  BY Caller, NoCallIsNone DEF LoginInv, CallsFit
<1>2. remote[i].kind \in Logging
  BY <1>1 DEF Insert, At, Fits, Forcing, Logging, RemoteCall, CallKinds
<1>3. LET c == OnWith(i, "mark", "connected", "answered")
      IN  /\ c \in RemoteCall \cup {NoCall}
          /\ c # NoCall => c.kind = remote[i].kind /\ c.profile = remote[i].profile /\ Fits(c)
  BY <1>1, <1>2, OnWithFits DEF Statuses, Logging
<1>4. PICK c :
        /\ c = OnWith(i, "mark", "connected", "answered")
        /\ Goes([remote EXCEPT ![i] = c])
  BY <1>1 DEF Insert, To, OnTo, OnWith, Leave, On
<1> QED
  BY <1>1, <1>3, <1>4, Moving

LEMMA AnsweredMoves ==
  ASSUME LoginInv, NEW i \in DOMAIN remote, remote[i] \in RemoteCall, Answered(i)
  PROVE  \E c \in RemoteCall \cup {NoCall} :
        /\ c = NoCall \/ (c = On(i, "use") /\ remote[i].kind = "provider")
        /\ Moves(i, c)
<1>1. RemoteTypeOK /\ CallsFit /\ P(i) \in Profiles /\ Fits(remote[i])
  BY Caller, NoCallIsNone DEF LoginInv, CallsFit
<1>2. PICK s \in {"use", "done"} :
        (s = "use" => remote[i].kind = "provider") /\ Goes(To(i, s))
  BY DEF Answered, Leave
<1>3. PICK c \in RemoteCall \cup {NoCall} :
        /\ c = NoCall \/ (c = On(i, "use") /\ remote[i].kind = "provider")
        /\ Goes([remote EXCEPT ![i] = c])
  <2>1. On(i, s) \in RemoteCall \cup {NoCall} /\ Goes([remote EXCEPT ![i] = On(i, s)])
    BY <1>2, OnType DEF Steps
  <2>2. On(i, s) = NoCall \/ (On(i, s) = On(i, "use") /\ remote[i].kind = "provider")
    <3>1. CASE s = "use"
      BY <1>2, <3>1
    <3>2. CASE s = "done"
      BY <3>2, OnDone
    <3> QED
      BY <3>1, <3>2
  <2> QED
    BY <2>1, <2>2
<1>4. c # NoCall => c = [remote[i] EXCEPT !.at = "use"] /\ remote[i].kind = "provider"
  BY <1>3 DEF On
<1>5. c # NoCall => c.kind = remote[i].kind /\ c.profile = remote[i].profile /\ Fits(c)
  BY <1>1, <1>4 DEF RemoteCall, Fits, Logging
<1> QED
  BY <1>1, <1>3, <1>5, Moving

LEMMA TouchMoves ==
  ASSUME LoginInv, NEW i \in DOMAIN remote, remote[i] \in RemoteCall, Touch(i)
  PROVE  \E c \in RemoteCall \cup {NoCall} :
        /\ c = NoCall
        /\ Moves(i, c)
<1>1. RemoteTypeOK /\ CallsFit /\ P(i) \in Profiles /\ Fits(remote[i])
  BY Caller, NoCallIsNone DEF LoginInv, CallsFit
<1>2. PICK c \in RemoteCall \cup {NoCall} :
        /\ c = NoCall
        /\ Goes([remote EXCEPT ![i] = c])
  BY <1>1 DEF Touch, To, RemoteCall, Steps, At, Statuses, RemoteTypeOK, On, OnWith, FailedCall, Fits, Forcing
<1>3. c # NoCall => c.kind = remote[i].kind /\ c.profile = remote[i].profile /\ Fits(c)
  BY <1>1, <1>2 DEF Touch, At, RemoteCall, On, OnWith, FailedCall, Fits, Forcing, Logging
<1> QED
  BY <1>1, <1>2, <1>3, Moving

LEMMA DropHandleMoves ==
  ASSUME LoginInv, NEW i \in DOMAIN remote, remote[i] \in RemoteCall, DropHandle(i)
  PROVE  \E c \in RemoteCall \cup {NoCall} :
        /\ c = On(i, "mark")
        /\ Moves(i, c)
<1>1. RemoteTypeOK /\ CallsFit /\ P(i) \in Profiles /\ Fits(remote[i])
  BY Caller, NoCallIsNone DEF LoginInv, CallsFit
<1>2. PICK c \in RemoteCall \cup {NoCall} :
        /\ c = On(i, "mark")
        /\ Goes([remote EXCEPT ![i] = c])
  BY <1>1 DEF DropHandle, To, RemoteCall, Steps, At, Statuses, RemoteTypeOK, On, OnWith, FailedCall, Fits, Forcing
<1>3. c # NoCall => c.kind = remote[i].kind /\ c.profile = remote[i].profile /\ Fits(c)
  BY <1>1, <1>2 DEF DropHandle, At, RemoteCall, On, OnWith, FailedCall, Fits, Forcing, Logging
<1> QED
  BY <1>1, <1>2, <1>3, Moving

LEMMA MarkMoves ==
  ASSUME LoginInv, NEW i \in DOMAIN remote, remote[i] \in RemoteCall, Mark(i)
  PROVE  \E c \in RemoteCall \cup {NoCall} :
        /\ c = On(i, "tell")
        /\ Moves(i, c)
<1>1. RemoteTypeOK /\ CallsFit /\ P(i) \in Profiles /\ Fits(remote[i])
  BY Caller, NoCallIsNone DEF LoginInv, CallsFit
<1>2. PICK c \in RemoteCall \cup {NoCall} :
        /\ c = On(i, "tell")
        /\ Goes([remote EXCEPT ![i] = c])
  BY <1>1 DEF Mark, To, RemoteCall, Steps, At, Statuses, RemoteTypeOK, On, OnWith, FailedCall, Fits, Forcing
<1>3. c # NoCall => c.kind = remote[i].kind /\ c.profile = remote[i].profile /\ Fits(c)
  BY <1>1, <1>2 DEF Mark, At, RemoteCall, On, OnWith, FailedCall, Fits, Forcing, Logging
<1> QED
  BY <1>1, <1>2, <1>3, Moving

LEMMA TellMoves ==
  ASSUME LoginInv, NEW i \in DOMAIN remote, remote[i] \in RemoteCall, Tell(i)
  PROVE  \E c \in RemoteCall \cup {NoCall} :
        /\ c = On(i, IF remote[i].kind \in {"update", "delete", "forget"} THEN "clear" ELSE remote[i].then)
        /\ Moves(i, c)
<1>1. RemoteTypeOK /\ CallsFit /\ P(i) \in Profiles /\ Fits(remote[i])
  BY Caller, NoCallIsNone DEF LoginInv, CallsFit
<1>2. PICK c \in RemoteCall \cup {NoCall} :
        /\ c = On(i, IF remote[i].kind \in {"update", "delete", "forget"} THEN "clear" ELSE remote[i].then)
        /\ Goes([remote EXCEPT ![i] = c])
  <2> DEFINE s == IF remote[i].kind \in {"update", "delete", "forget"} THEN "clear" ELSE remote[i].then
  <2>1. s \in Steps
    BY DEF RemoteCall, Steps
  <2>2. Goes(To(i, s))
    BY DEF Tell
  <2> HIDE DEF s
  <2>3. On(i, s) \in RemoteCall \cup {NoCall} /\ Goes([remote EXCEPT ![i] = On(i, s)])
    BY <2>1, <2>2, OnType
  <2> QED
    BY <2>3 DEF s
<1> DEFINE s == IF remote[i].kind \in {"update", "delete", "forget"} THEN "clear" ELSE remote[i].then
<1>3. /\ remote[i].kind \in Logging => s \in {"row", "answered"}
      /\ remote[i].kind \in {"update", "delete", "forget"} => s = "clear"
      /\ remote[i].kind \notin Logging \cup {"update", "delete", "forget"} => s = "done"
  BY <1>1 DEF Tell, At, Fits, RemoteCall, CallKinds, Logging
<1>4. c = On(i, s)
  BY <1>2
<1> HIDE DEF s
<1>5. c # NoCall => c = [remote[i] EXCEPT !.at = s] /\ s # "done"
  BY <1>4 DEF On
<1>6. c # NoCall => /\ c.kind = remote[i].kind /\ c.profile = remote[i].profile /\ c.at = s
                    /\ c.arg = remote[i].arg /\ c.outcome = remote[i].outcome
  BY <1>5 DEF RemoteCall
<1>7. c # NoCall => Fits(c)
  BY <1>1, <1>3, <1>5, <1>6 DEF Fits, Forcing, Logging
<1> QED
  BY <1>1, <1>2, <1>6, <1>7, Moving

LEMMA EditMoves ==
  ASSUME LoginInv, NEW i \in DOMAIN remote, remote[i] \in RemoteCall, Edit(i)
  PROVE  \E c \in RemoteCall \cup {NoCall} :
        /\ c = NoCall \/ c = On(i, "drop")
        /\ Moves(i, c)
<1>1. RemoteTypeOK /\ CallsFit /\ P(i) \in Profiles /\ Fits(remote[i])
  BY Caller, NoCallIsNone DEF LoginInv, CallsFit
<1>2. PICK c \in RemoteCall \cup {NoCall} :
        /\ c = NoCall \/ c = On(i, "drop")
        /\ Goes([remote EXCEPT ![i] = c])
  BY <1>1 DEF Edit, To, RemoteCall, Steps, At, Statuses, RemoteTypeOK, On, OnWith, FailedCall, Fits, Forcing
<1>3. c # NoCall => c.kind = remote[i].kind /\ c.profile = remote[i].profile /\ Fits(c)
  BY <1>1, <1>2 DEF Edit, At, RemoteCall, On, OnWith, FailedCall, Fits, Forcing, Logging
<1> QED
  BY <1>1, <1>2, <1>3, Moving

LEMMA ClearObservedMoves ==
  ASSUME LoginInv, NEW i \in DOMAIN remote, remote[i] \in RemoteCall, ClearObserved(i)
  PROVE  \E c \in RemoteCall \cup {NoCall} :
        /\ c = On(i, IF remote[i].kind = "delete" THEN "remove" ELSE "unpin")
        /\ Moves(i, c)
<1>1. RemoteTypeOK /\ CallsFit /\ P(i) \in Profiles /\ Fits(remote[i])
  BY Caller, NoCallIsNone DEF LoginInv, CallsFit
<1>2. PICK c \in RemoteCall \cup {NoCall} :
        /\ c = On(i, IF remote[i].kind = "delete" THEN "remove" ELSE "unpin")
        /\ Goes([remote EXCEPT ![i] = c])
  BY <1>1 DEF ClearObserved, To, RemoteCall, Steps, At, Statuses, RemoteTypeOK, On, OnWith, FailedCall, Fits, Forcing
<1>3. c # NoCall => c.kind = remote[i].kind /\ c.profile = remote[i].profile /\ Fits(c)
  BY <1>1, <1>2 DEF ClearObserved, At, RemoteCall, On, OnWith, FailedCall, Fits, Forcing, Logging
<1> QED
  BY <1>1, <1>2, <1>3, Moving

LEMMA UnpinMoves ==
  ASSUME LoginInv, NEW i \in DOMAIN remote, remote[i] \in RemoteCall, Unpin(i)
  PROVE  \E c \in RemoteCall \cup {NoCall} :
        /\ c = On(i, IF rows[P(i)].there /\ remote[i].kind = "update" THEN "write" ELSE "done")
        /\ Moves(i, c)
<1>1. RemoteTypeOK /\ CallsFit /\ P(i) \in Profiles /\ Fits(remote[i])
  BY Caller, NoCallIsNone DEF LoginInv, CallsFit
<1>2. PICK c \in RemoteCall \cup {NoCall} :
        /\ c = On(i, IF rows[P(i)].there /\ remote[i].kind = "update" THEN "write" ELSE "done")
        /\ Goes([remote EXCEPT ![i] = c])
  BY <1>1 DEF Unpin, To, RemoteCall, Steps, At, Statuses, RemoteTypeOK, On, OnWith, FailedCall, Fits, Forcing
<1>3. c # NoCall => c.kind = remote[i].kind /\ c.profile = remote[i].profile /\ Fits(c)
  BY <1>1, <1>2 DEF Unpin, At, RemoteCall, On, OnWith, FailedCall, Fits, Forcing, Logging
<1> QED
  BY <1>1, <1>2, <1>3, Moving

LEMMA WriteRowMoves ==
  ASSUME LoginInv, NEW i \in DOMAIN remote, remote[i] \in RemoteCall, WriteRow(i)
  PROVE  \E c \in RemoteCall \cup {NoCall} :
        /\ c = NoCall
        /\ Moves(i, c)
<1>1. RemoteTypeOK /\ CallsFit /\ P(i) \in Profiles /\ Fits(remote[i])
  BY Caller, NoCallIsNone DEF LoginInv, CallsFit
<1>2. PICK c \in RemoteCall \cup {NoCall} :
        /\ c = NoCall
        /\ Goes([remote EXCEPT ![i] = c])
  BY <1>1 DEF WriteRow, To, RemoteCall, Steps, At, Statuses, RemoteTypeOK, On, OnWith, FailedCall, Fits, Forcing
<1>3. c # NoCall => c.kind = remote[i].kind /\ c.profile = remote[i].profile /\ Fits(c)
  BY <1>1, <1>2 DEF WriteRow, At, RemoteCall, On, OnWith, FailedCall, Fits, Forcing, Logging
<1> QED
  BY <1>1, <1>2, <1>3, Moving

LEMMA RemoveRowMoves ==
  ASSUME LoginInv, NEW i \in DOMAIN remote, remote[i] \in RemoteCall, RemoveRow(i)
  PROVE  \E c \in RemoteCall \cup {NoCall} :
        /\ c = NoCall
        /\ Moves(i, c)
<1>1. RemoteTypeOK /\ CallsFit /\ P(i) \in Profiles /\ Fits(remote[i])
  BY Caller, NoCallIsNone DEF LoginInv, CallsFit
<1>2. PICK c \in RemoteCall \cup {NoCall} :
        /\ c = NoCall
        /\ Goes([remote EXCEPT ![i] = c])
  BY <1>1 DEF RemoveRow, To, RemoteCall, Steps, At, Statuses, RemoteTypeOK, On, OnWith, FailedCall, Fits, Forcing
<1>3. c # NoCall => c.kind = remote[i].kind /\ c.profile = remote[i].profile /\ Fits(c)
  BY <1>1, <1>2 DEF RemoveRow, At, RemoteCall, On, OnWith, FailedCall, Fits, Forcing, Logging
<1> QED
  BY <1>1, <1>2, <1>3, Moving

LEMMA CompareMoves ==
  ASSUME LoginInv, NEW i \in DOMAIN remote, remote[i] \in RemoteCall, Compare(i)
  PROVE  \E c \in RemoteCall \cup {NoCall} :
        /\ \/ c = NoCall
           \/ c = On(i, "pin") /\ rows[P(i)].there /\ Answers(challenge[P(i)], rows[P(i)], remote[i].arg)
        /\ Moves(i, c)
<1>1. RemoteTypeOK /\ CallsFit /\ P(i) \in Profiles /\ Fits(remote[i])
  BY Caller, NoCallIsNone DEF LoginInv, CallsFit
<1>2. PICK c \in RemoteCall \cup {NoCall} :
        /\ \/ c = NoCall
           \/ c = On(i, "pin") /\ rows[P(i)].there /\ Answers(challenge[P(i)], rows[P(i)], remote[i].arg)
        /\ Goes([remote EXCEPT ![i] = c])
  BY <1>1 DEF Compare, To, RemoteCall, Steps, At, Statuses, RemoteTypeOK, On, OnWith, FailedCall, Fits, Forcing
<1>3. c # NoCall => c.kind = remote[i].kind /\ c.profile = remote[i].profile /\ Fits(c)
  BY <1>1, <1>2 DEF Compare, At, RemoteCall, On, OnWith, FailedCall, Fits, Forcing, Logging
<1> QED
  BY <1>1, <1>2, <1>3, Moving

LEMMA PinMoves ==
  ASSUME LoginInv, NEW i \in DOMAIN remote, remote[i] \in RemoteCall, Pin(i)
  PROVE  \E c \in RemoteCall \cup {NoCall} :
        /\ c = On(i, IF rows[P(i)].there THEN "answered" ELSE "done")
        /\ Moves(i, c)
<1>1. RemoteTypeOK /\ CallsFit /\ P(i) \in Profiles /\ Fits(remote[i])
  BY Caller, NoCallIsNone DEF LoginInv, CallsFit
<1>2. PICK c \in RemoteCall \cup {NoCall} :
        /\ c = On(i, IF rows[P(i)].there THEN "answered" ELSE "done")
        /\ Goes([remote EXCEPT ![i] = c])
  BY <1>1 DEF Pin, To, RemoteCall, Steps, At, Statuses, RemoteTypeOK, On, OnWith, FailedCall, Fits, Forcing
<1>3. c # NoCall => c.kind = remote[i].kind /\ c.profile = remote[i].profile /\ Fits(c)
  BY <1>1, <1>2 DEF Pin, At, RemoteCall, On, OnWith, FailedCall, Fits, Forcing, Logging
<1> QED
  BY <1>1, <1>2, <1>3, Moving

LEMMA SettleMoves ==
  ASSUME LoginInv, NEW i \in DOMAIN remote, remote[i] \in RemoteCall, Settle(i)
  PROVE  \E c \in RemoteCall \cup {NoCall} :
        /\ c = NoCall
        /\ Moves(i, c)
<1>1. RemoteTypeOK /\ CallsFit /\ P(i) \in Profiles /\ Fits(remote[i])
  BY Caller, NoCallIsNone DEF LoginInv, CallsFit
<1>2. PICK c \in RemoteCall \cup {NoCall} :
        /\ c = NoCall
        /\ Goes([remote EXCEPT ![i] = c])
  BY <1>1 DEF Settle, To, RemoteCall, Steps, At, Statuses, RemoteTypeOK, On, OnWith, FailedCall, Fits, Forcing
<1>3. c # NoCall => c.kind = remote[i].kind /\ c.profile = remote[i].profile /\ Fits(c)
  BY <1>1, <1>2 DEF Settle, At, RemoteCall, On, OnWith, FailedCall, Fits, Forcing, Logging
<1> QED
  BY <1>1, <1>2, <1>3, Moving

-----------------------------------------------------------------------------
(* Every step of a call keeps the invariant of logins.                     *)

LEMMA FailedAsksNothing ==
  ASSUME NEW i, remote[i] \in RemoteCall, FailedCall(i) # NoCall, NEW s
  PROVE  SeenWorn(FailedCall(i), s) /\ KeyKnown(FailedCall(i))
  BY DEF FailedCall, OnWith, SeenWorn, KeyKnown, RemoteCall

LEMMA RowsType ==
  ASSUME RemoteTypeOK, NEW p \in Profiles, rows[p].there
  PROVE  /\ rows[p] \in Row
         /\ \A r \in Row : [rows EXCEPT ![p] = r] \in [Profiles -> Row \cup {NoRow}]
         /\ \A v \in BOOLEAN : /\ [rows EXCEPT ![p].stored = v] = [rows EXCEPT ![p] = [@ EXCEPT !.stored = v]]
                               /\ [rows[p] EXCEPT !.stored = v] \in Row
         /\ \A k \in Keys \cup {NoKey} :
                /\ [rows EXCEPT ![p].pinned = k] = [rows EXCEPT ![p] = [@ EXCEPT !.pinned = k]]
                /\ [rows[p] EXCEPT !.pinned = k] \in Row
         /\ \A h \in Hosts : /\ [rows EXCEPT ![p].host = h] = [rows EXCEPT ![p] = [@ EXCEPT !.host = h]]
                             /\ [rows[p] EXCEPT !.host = h] \in Row
<1>1. rows[p] \in Row
  BY NonesAreNone DEF RemoteTypeOK
<1>2. \A r \in Row : [rows EXCEPT ![p] = r] \in [Profiles -> Row \cup {NoRow}]
  BY DEF RemoteTypeOK
<1>3. /\ \A v \in BOOLEAN : [rows[p] EXCEPT !.stored = v] \in Row
      /\ \A k \in Keys \cup {NoKey} : [rows[p] EXCEPT !.pinned = k] \in Row
      /\ \A h \in Hosts : [rows[p] EXCEPT !.host = h] \in Row
  BY <1>1 DEF Row
<1> QED
  BY <1>1, <1>2, <1>3

LEMMA CallerFacts ==
  ASSUME LoginInv, NEW i \in DOMAIN remote, remote[i] \in RemoteCall
  PROVE  /\ RemoteTypeOK /\ CallsFit /\ LockHeld /\ NoneFresh /\ KeysKnown
         /\ P(i) \in Profiles /\ P(i) = remote[i].profile /\ i \in 1 .. MaxCalls /\ Fits(remote[i])
  BY Caller, NoCallIsNone DEF LoginInv, CallsFit, P

LEMMA LeaveType ==
  ASSUME RemoteTypeOK, NEW i \in 1 .. MaxCalls, P(i) \in Profiles, NEW s, Leave(i, s)
  PROVE  /\ holder' \in [Profiles -> 0 .. MaxCalls]
         /\ holder' = [holder EXCEPT ![P(i)] = IF @ = i THEN NoOne ELSE @]
<1>1. NoOne \in 0 .. MaxCalls
  BY RemoteConstants DEF NoOne
<1> QED
  BY <1>1 DEF Leave, RemoteTypeOK

LEMMA LoginKept ==
  ASSUME LoginInv, NEW i \in DOMAIN remote, remote[i] \in RemoteCall, NEW c, Moves(i, c),
         RemoteTypeOK', LockHeld', confirmed \subseteq confirmed', ConfirmedOnly',
         \A p \in Profiles : Worn(session[p]) => Worn(session'[p]),
         \A p \in Profiles : rows'[p].there => Known(p, rows[p].pinned)',
         c # NoCall => SeenWorn(c, session'[P(i)]) /\ KeyKnown(c)'
  PROVE  LoginInv'
<1>1. GoesOn(i, c)
  BY DEF Moves
<1>2. CallsFit'
  BY <1>1, FitsOn DEF LoginInv
<1>3. NoneFresh'
  BY <1>1, StaysWorn DEF LoginInv
<1>4. KeysKnown'
  BY <1>1, StaysKnown DEF LoginInv
<1> QED
  BY <1>2, <1>3, <1>4 DEF LoginInv

LEMMA LoginQuiet ==
  ASSUME LoginInv, NEW i \in DOMAIN remote, remote[i] \in RemoteCall, NEW c, Moves(i, c),
         RemoteTypeOK', LockHeld', UNCHANGED <<rows, session, confirmed, exposed>>,
         c # NoCall => SeenWorn(c, session[P(i)]) /\ KeyKnown(c)
  PROVE  LoginInv'
<1>1. /\ confirmed \subseteq confirmed' /\ ConfirmedOnly'
      /\ \A p \in Profiles : Worn(session[p]) => Worn(session'[p])
      /\ \A p \in Profiles : rows'[p].there => Known(p, rows[p].pinned)'
  BY DEF LoginInv, KeysKnown, ConfirmedOnly, Known
<1>2. c # NoCall => SeenWorn(c, session'[P(i)]) /\ KeyKnown(c)'
  BY DEF KeyKnown, Known
<1> QED
  BY <1>1, <1>2, LoginKept

LEMMA OutcomeType ==
  ASSUME NEW i, remote[i] \in RemoteCall, Fits(remote[i]), remote[i].at \in {"mark", "tell"}
  PROVE  Outcome(i) \in Statuses
  BY DEF Outcome, Undoing, Fits, Statuses, RemoteCall, CallKinds, Logging

LEMMA LookKeeps ==
  ASSUME LoginInv, NEW i \in DOMAIN remote, remote[i] \in RemoteCall, Look(i)
  PROVE  LoginInv'
<1>1. /\ RemoteTypeOK /\ CallsFit /\ LockHeld /\ NoneFresh /\ KeysKnown
      /\ P(i) \in Profiles /\ P(i) = remote[i].profile /\ i \in 1 .. MaxCalls /\ Fits(remote[i])
  BY CallerFacts
<1>2. PICK c \in RemoteCall \cup {NoCall} :
        /\ c = On(i, IF Live(session[P(i)]) THEN "done" ELSE "lock")
        /\ Moves(i, c)
  BY LookMoves
<1>3. RemoteTypeOK'
  BY <1>1, <1>2 DEF Look, RemoteTypeOK, Moves
<1>4. LockHeld'
  <2>1. remote[i].kind \in Logging => (remote[i].at \in Locked <=> c.at \in Locked)
    BY <1>1, <1>2 DEF Look, At, On, OnWith, FailedCall, Locked, Forcing, Logging, Fits, RemoteCall, NoCall
  <2> QED
    BY <1>1, <1>2, <2>1, LockKept DEF Moves, Look
<1>5. c # NoCall => SeenWorn(c, session[P(i)]) /\ KeyKnown(c)
  BY <1>1, <1>2 DEF Look, NoneFresh, KeysKnown, SeenWorn, KeyKnown, Known, At, On, OnWith, FailedCall, Logging, Fits, RemoteCall, Live, Worn
<1> QED
  BY <1>2, <1>3, <1>4, <1>5, LoginQuiet DEF Look

LEMMA LockKeeps ==
  ASSUME LoginInv, NEW i \in DOMAIN remote, remote[i] \in RemoteCall, Lock(i)
  PROVE  LoginInv'
<1>1. /\ RemoteTypeOK /\ CallsFit /\ LockHeld /\ NoneFresh /\ KeysKnown
      /\ P(i) \in Profiles /\ P(i) = remote[i].profile /\ i \in 1 .. MaxCalls /\ Fits(remote[i])
  BY CallerFacts
<1>2. PICK c \in RemoteCall \cup {NoCall} :
        /\ c = On(i, IF remote[i].kind = "connect" THEN "again" ELSE "cached")
        /\ Moves(i, c)
  BY LockMoves
<1>3. RemoteTypeOK'
  BY <1>1, <1>2 DEF Lock, RemoteTypeOK, Moves
<1>4. LockHeld'
  <2>1. remote[i].kind \in Logging /\ c # NoCall /\ c.at \in Locked
    BY <1>1, <1>2, NoCallFits DEF Lock, At, On, Locked, Forcing, Logging, Fits, RemoteCall, CallKinds
  <2> QED
    BY <1>1, <1>2, <2>1, LockTaken DEF Moves, Lock
<1>5. c # NoCall => SeenWorn(c, session[P(i)]) /\ KeyKnown(c)
  BY <1>1, <1>2 DEF Lock, NoneFresh, KeysKnown, SeenWorn, KeyKnown, Known, At, On, OnWith, FailedCall, Logging, Fits, RemoteCall, Live, Worn
<1> QED
  BY <1>2, <1>3, <1>4, <1>5, LoginQuiet DEF Lock

LEMMA AgainKeeps ==
  ASSUME LoginInv, NEW i \in DOMAIN remote, remote[i] \in RemoteCall, Again(i)
  PROVE  LoginInv'
<1>1. /\ RemoteTypeOK /\ CallsFit /\ LockHeld /\ NoneFresh /\ KeysKnown
      /\ P(i) \in Profiles /\ P(i) = remote[i].profile /\ i \in 1 .. MaxCalls /\ Fits(remote[i])
  BY CallerFacts
<1>2. PICK c \in RemoteCall \cup {NoCall} :
        /\ c = On(i, IF Live(session[P(i)]) THEN "done" ELSE "row")
        /\ Moves(i, c)
  BY AgainMoves
<1>3. RemoteTypeOK'
  <2>1. holder' \in [Profiles -> 0 .. MaxCalls]
    BY <1>1, LeaveType DEF Again, RemoteTypeOK
  <2> QED
    BY <1>1, <1>2, <2>1 DEF Again, RemoteTypeOK, Moves
<1>4. LockHeld'
  <2>1. CASE Live(session[P(i)])
    <3>1. c = NoCall \/ c.at \notin Locked
      BY <1>1, <1>2, <2>1 DEF On, Locked, Forcing, RemoteCall
    <3>2. holder' = [holder EXCEPT ![P(i)] = IF @ = i THEN NoOne ELSE @]
      BY <1>1, <2>1, LeaveType DEF Again
    <3> QED
      BY <1>1, <1>2, <3>1, <3>2, LockLeft DEF Moves
  <2>2. CASE ~(Live(session[P(i)]))
    <3>1. remote[i].kind \in Logging => (remote[i].at \in Locked <=> c.at \in Locked)
      BY <1>1, <1>2, <2>2 DEF Again, At, On, OnWith, Locked, Forcing, Logging, Fits, RemoteCall
    <3> QED
      BY <1>1, <1>2, <2>2, <3>1, LockKept DEF Moves, Again
  <2> QED
    BY <2>1, <2>2
<1>5. c # NoCall => SeenWorn(c, session[P(i)]) /\ KeyKnown(c)
  BY <1>1, <1>2 DEF Again, NoneFresh, KeysKnown, SeenWorn, KeyKnown, Known, At, On, OnWith, FailedCall, Logging, Fits, RemoteCall, Live, Worn
<1> QED
  BY <1>2, <1>3, <1>4, <1>5, LoginQuiet DEF Again

LEMMA CachedKeeps ==
  ASSUME LoginInv, NEW i \in DOMAIN remote, remote[i] \in RemoteCall, Cached(i)
  PROVE  LoginInv'
<1>1. /\ RemoteTypeOK /\ CallsFit /\ LockHeld /\ NoneFresh /\ KeysKnown
      /\ P(i) \in Profiles /\ P(i) = remote[i].profile /\ i \in 1 .. MaxCalls /\ Fits(remote[i])
  BY CallerFacts
<1>2. PICK c \in RemoteCall \cup {NoCall} :
        /\ c = On(i, IF session[P(i)] = NoSession \/ session[P(i)].age = "idle" THEN "row" ELSE "ping")
        /\ Moves(i, c)
  BY CachedMoves
<1>3. RemoteTypeOK'
  BY <1>1, <1>2 DEF Cached, RemoteTypeOK, Moves
<1>4. LockHeld'
  <2>1. remote[i].kind \in Logging => (remote[i].at \in Locked <=> c.at \in Locked)
    BY <1>1, <1>2 DEF Cached, At, On, OnWith, FailedCall, Locked, Forcing, Logging, Fits, RemoteCall, NoCall
  <2> QED
    BY <1>1, <1>2, <2>1, LockKept DEF Moves, Cached
<1>5. c # NoCall => SeenWorn(c, session[P(i)]) /\ KeyKnown(c)
  BY <1>1, <1>2 DEF Cached, NoneFresh, KeysKnown, SeenWorn, KeyKnown, Known, At, On, OnWith, FailedCall, Logging, Fits, RemoteCall, Live, Worn
<1> QED
  BY <1>2, <1>3, <1>4, <1>5, LoginQuiet DEF Cached

LEMMA PingKeeps ==
  ASSUME LoginInv, NEW i \in DOMAIN remote, remote[i] \in RemoteCall, Ping(i)
  PROVE  LoginInv'
<1>1. /\ RemoteTypeOK /\ CallsFit /\ LockHeld /\ NoneFresh /\ KeysKnown
      /\ P(i) \in Profiles /\ P(i) = remote[i].profile /\ i \in 1 .. MaxCalls /\ Fits(remote[i])
  BY CallerFacts
<1>2. PICK c \in RemoteCall \cup {NoCall} :
        /\ \/ c = On(i, "use") /\ (session[P(i)] # NoSession => session[P(i)].alive) /\ Leave(i, "use")
           \/ c = OnWith(i, "drop", "disconnected", "row") /\ (session[P(i)] # NoSession => ~session[P(i)].alive)
                           /\ holder' = holder
        /\ Moves(i, c)
  BY PingMoves
<1>3. RemoteTypeOK'
  <2>1. holder' \in [Profiles -> 0 .. MaxCalls]
    BY <1>1, LeaveType DEF Ping, RemoteTypeOK
  <2> QED
    BY <1>1, <1>2, <2>1 DEF Ping, RemoteTypeOK, Moves
<1>4. LockHeld'
  <2>1. CASE c = On(i, "use")
    <3>1. c = NoCall \/ c.at \notin Locked
      BY <1>1, <1>2, <2>1 DEF On, Locked, Forcing, RemoteCall
    <3>2. holder' = [holder EXCEPT ![P(i)] = IF @ = i THEN NoOne ELSE @]
      BY <1>1, <1>2, <2>1, LeaveType DEF On, OnWith, RemoteCall
    <3> QED
      BY <1>1, <1>2, <3>1, <3>2, LockLeft DEF Moves
  <2>2. CASE ~(c = On(i, "use"))
    <3>1. remote[i].kind \in Logging => (remote[i].at \in Locked <=> c.at \in Locked)
      BY <1>1, <1>2, <2>2 DEF Ping, At, On, OnWith, Locked, Forcing, Logging, Fits, RemoteCall
    <3> QED
      BY <1>1, <1>2, <2>2, <3>1, LockKept DEF Moves, Ping
  <2> QED
    BY <2>1, <2>2
<1>5. c # NoCall => SeenWorn(c, session[P(i)]) /\ KeyKnown(c)
  BY <1>1, <1>2 DEF Ping, NoneFresh, KeysKnown, SeenWorn, KeyKnown, Known, At, On, OnWith, FailedCall, Logging, Fits, RemoteCall, Live, Worn
<1> QED
  BY <1>2, <1>3, <1>4, <1>5, LoginQuiet DEF Ping

LEMMA ReadRowKeeps ==
  ASSUME LoginInv, NEW i \in DOMAIN remote, remote[i] \in RemoteCall, ReadRow(i)
  PROVE  LoginInv'
<1>1. /\ RemoteTypeOK /\ CallsFit /\ LockHeld /\ NoneFresh /\ KeysKnown
      /\ P(i) \in Profiles /\ P(i) = remote[i].profile /\ i \in 1 .. MaxCalls /\ Fits(remote[i])
  BY CallerFacts
<1>2. PICK c \in RemoteCall \cup {NoCall} :
        /\ \/ rows[P(i)].there /\ c = [remote[i] EXCEPT !.at = "observe", !.row = rows[P(i)]]
           \/ ~rows[P(i)].there /\ c = NoCall
        /\ Moves(i, c)
  BY ReadRowMoves
<1>3. RemoteTypeOK'
  <2>1. holder' \in [Profiles -> 0 .. MaxCalls]
    BY <1>1, LeaveType DEF ReadRow, RemoteTypeOK
  <2> QED
    BY <1>1, <1>2, <2>1 DEF ReadRow, RemoteTypeOK, Moves
<1>4. LockHeld'
  <2>1. CASE ~rows[P(i)].there
    <3>1. c = NoCall \/ c.at \notin Locked
      BY <1>1, <1>2, <2>1 DEF On, Locked, Forcing, RemoteCall
    <3>2. holder' = [holder EXCEPT ![P(i)] = IF @ = i THEN NoOne ELSE @]
      BY <1>1, <2>1, LeaveType DEF ReadRow
    <3> QED
      BY <1>1, <1>2, <3>1, <3>2, LockLeft DEF Moves
  <2>2. CASE ~~rows[P(i)].there
    <3>1. remote[i].kind \in Logging => (remote[i].at \in Locked <=> c.at \in Locked)
      BY <1>1, <1>2, <2>2 DEF ReadRow, At, On, OnWith, Locked, Forcing, Logging, Fits, RemoteCall
    <3> QED
      BY <1>1, <1>2, <2>2, <3>1, LockKept DEF Moves, ReadRow
  <2> QED
    BY <2>1, <2>2
<1>5. c # NoCall => SeenWorn(c, session[P(i)]) /\ KeyKnown(c)
  BY <1>1, <1>2 DEF ReadRow, NoneFresh, KeysKnown, SeenWorn, KeyKnown, Known, At, On, OnWith, FailedCall, Logging, Fits, RemoteCall, Live, Worn
<1> QED
  BY <1>2, <1>3, <1>4, <1>5, LoginQuiet DEF ReadRow

LEMMA ObserveKeeps ==
  ASSUME LoginInv, NEW i \in DOMAIN remote, remote[i] \in RemoteCall, Observe(i)
  PROVE  LoginInv'
<1>1. /\ RemoteTypeOK /\ CallsFit /\ LockHeld /\ NoneFresh /\ KeysKnown
      /\ P(i) \in Profiles /\ P(i) = remote[i].profile /\ i \in 1 .. MaxCalls /\ Fits(remote[i])
  BY CallerFacts
<1>2. PICK c \in RemoteCall \cup {NoCall} :
        /\ \/ c = [remote[i] EXCEPT !.at = "judge", !.key = Presented(remote[i].row.host)]
           \/ c = FailedCall(i)
        /\ Moves(i, c)
  BY ObserveMoves
<1>3. RemoteTypeOK'
  BY <1>1, <1>2 DEF Observe, RemoteTypeOK, Moves
<1>4. LockHeld'
  <2>1. remote[i].kind \in Logging => (remote[i].at \in Locked <=> c.at \in Locked)
    BY <1>1, <1>2 DEF Observe, At, On, OnWith, FailedCall, Locked, Forcing, Logging, Fits, RemoteCall, NoCall
  <2> QED
    BY <1>1, <1>2, <2>1, LockKept DEF Moves, Observe
<1>5. c # NoCall => SeenWorn(c, session[P(i)]) /\ KeyKnown(c)
  <2>1. CASE c = FailedCall(i)
    BY <2>1, FailedAsksNothing
  <2>2. CASE c # FailedCall(i)
    <3>1. c = [remote[i] EXCEPT !.at = "judge", !.key = Presented(remote[i].row.host)]
      BY <1>2, <2>2
    <3> QED
      BY <1>1, <3>1, NoCallIsNone DEF Observe, NoneFresh, KeysKnown, SeenWorn, KeyKnown, Known, At, On, Logging, Fits, RemoteCall, Worn
  <2> QED
    BY <2>1, <2>2
<1> QED
  BY <1>2, <1>3, <1>4, <1>5, LoginQuiet DEF Observe

LEMMA JudgeKeeps ==
  ASSUME LoginInv, NEW i \in DOMAIN remote, remote[i] \in RemoteCall, Judge(i)
  PROVE  LoginInv'
<1>1. /\ RemoteTypeOK /\ CallsFit /\ LockHeld /\ NoneFresh /\ KeysKnown
      /\ P(i) \in Profiles /\ P(i) = remote[i].profile /\ i \in 1 .. MaxCalls /\ Fits(remote[i])
  BY CallerFacts
<1>2. PICK c \in RemoteCall \cup {NoCall} :
        /\ \/ remote[i].row.pinned = remote[i].key /\ c = On(i, IF remote[i].kind = "verify" THEN "done" ELSE "secrets")
           \/ remote[i].row.pinned # remote[i].key /\ c = FailedCall(i)
        /\ Moves(i, c)
  BY JudgeMoves
<1>3. RemoteTypeOK'
  <2>1. remote[i].row \in Row /\ remote[i].key \in Keys
    BY <1>1 DEF Judge, At, Fits
  <2>2. [host |-> remote[i].row.host, key |-> remote[i].key, fresh |-> TRUE] \in Question
    BY <2>1 DEF Question, Row
  <2>3. challenge' \in [Profiles -> Question \cup {Unasked}]
    BY <1>1, <2>2 DEF Judge, RemoteTypeOK
  <2> QED
    BY <1>1, <1>2, <2>3 DEF Judge, RemoteTypeOK, Moves
<1>4. LockHeld'
  <2>1. remote[i].kind \in Logging => (remote[i].at \in Locked <=> c.at \in Locked)
    BY <1>1, <1>2 DEF Judge, At, On, OnWith, FailedCall, Locked, Forcing, Logging, Fits, RemoteCall, NoCall
  <2> QED
    BY <1>1, <1>2, <2>1, LockKept DEF Moves, Judge
<1>5. c # NoCall => SeenWorn(c, session[P(i)]) /\ KeyKnown(c)
  <2>1. CASE c = FailedCall(i)
    BY <2>1, FailedAsksNothing
  <2>2. CASE c # FailedCall(i)
    <3>1. c = On(i, IF remote[i].kind = "verify" THEN "done" ELSE "secrets")
      BY <1>2, <2>2
    <3> QED
      BY <1>1, <3>1, NoCallIsNone DEF Judge, NoneFresh, KeysKnown, SeenWorn, KeyKnown, Known, At, On, Logging, Fits, RemoteCall, Worn
  <2> QED
    BY <2>1, <2>2
<1> QED
  BY <1>2, <1>3, <1>4, <1>5, LoginQuiet DEF Judge

LEMMA LoadSecretsKeeps ==
  ASSUME LoginInv, NEW i \in DOMAIN remote, remote[i] \in RemoteCall, LoadSecrets(i)
  PROVE  LoginInv'
<1>1. /\ RemoteTypeOK /\ CallsFit /\ LockHeld /\ NoneFresh /\ KeysKnown
      /\ P(i) \in Profiles /\ P(i) = remote[i].profile /\ i \in 1 .. MaxCalls /\ Fits(remote[i])
  BY CallerFacts
<1>2. PICK c \in RemoteCall \cup {NoCall} :
        /\ \/ c = On(i, "shake") /\ secret[P(i)]
           \/ c = FailedCall(i)
        /\ Moves(i, c)
  BY LoadSecretsMoves
<1>3. RemoteTypeOK'
  BY <1>1, <1>2 DEF LoadSecrets, RemoteTypeOK, Moves
<1>4. LockHeld'
  <2>1. remote[i].kind \in Logging => (remote[i].at \in Locked <=> c.at \in Locked)
    BY <1>1, <1>2 DEF LoadSecrets, At, On, OnWith, FailedCall, Locked, Forcing, Logging, Fits, RemoteCall, NoCall
  <2> QED
    BY <1>1, <1>2, <2>1, LockKept DEF Moves, LoadSecrets
<1>5. c # NoCall => SeenWorn(c, session[P(i)]) /\ KeyKnown(c)
  <2>1. CASE c = FailedCall(i)
    BY <2>1, FailedAsksNothing
  <2>2. CASE c # FailedCall(i)
    <3>1. c = On(i, "shake")
      BY <1>2, <2>2
    <3> QED
      BY <1>1, <3>1, NoCallIsNone DEF LoadSecrets, NoneFresh, KeysKnown, SeenWorn, KeyKnown, Known, At, On, Logging, Fits, RemoteCall, Worn
  <2> QED
    BY <2>1, <2>2
<1> QED
  BY <1>2, <1>3, <1>4, <1>5, LoginQuiet DEF LoadSecrets

LEMMA ShakeKeeps ==
  ASSUME LoginInv, NEW i \in DOMAIN remote, remote[i] \in RemoteCall, Shake(i)
  PROVE  LoginInv'
<1>1. /\ RemoteTypeOK /\ CallsFit /\ LockHeld /\ NoneFresh /\ KeysKnown
      /\ P(i) \in Profiles /\ P(i) = remote[i].profile /\ i \in 1 .. MaxCalls /\ Fits(remote[i])
  BY CallerFacts
<1>2. PICK c \in RemoteCall \cup {NoCall} :
        /\ \/ /\ Presented(remote[i].row.host) = remote[i].row.pinned
                 /\ c = [remote[i] EXCEPT !.at = "insert", !.key = remote[i].row.pinned]
           \/ c = FailedCall(i)
        /\ Moves(i, c)
  BY ShakeMoves
<1>3. RemoteTypeOK'
  <2>1. exposed' \in BOOLEAN
    BY <1>1 DEF Shake, RemoteTypeOK
  <2> QED
    BY <1>1, <1>2, <2>1 DEF Shake, RemoteTypeOK, Moves
<1>4. LockHeld'
  <2>1. remote[i].kind \in Logging => (remote[i].at \in Locked <=> c.at \in Locked)
    BY <1>1, <1>2 DEF Shake, At, On, OnWith, FailedCall, Locked, Forcing, Logging, Fits, RemoteCall, NoCall
  <2> QED
    BY <1>1, <1>2, <2>1, LockKept DEF Moves, Shake
<1>5. c # NoCall => SeenWorn(c, session[P(i)]) /\ KeyKnown(c)
  <2>1. CASE c = FailedCall(i)
    BY <2>1, FailedAsksNothing
  <2>2. CASE c # FailedCall(i)
    <3>1. /\ Presented(remote[i].row.host) = remote[i].row.pinned
          /\ c = [remote[i] EXCEPT !.at = "insert", !.key = remote[i].row.pinned]
      BY <1>2, <2>2
    <3>3. remote[i].row.pinned # NoKey /\ Known(P(i), remote[i].row.pinned)
      BY <1>1, <3>1, NoCallIsNone, KeysAreKeys, PresentedIsKey DEF Shake, At, Fits, Row, KeysKnown
    <3>4. SeenWorn(remote[i], session[P(i)])
      BY <1>1 DEF NoneFresh, SeenWorn
    <3> QED
      BY <1>1, <3>1, <3>3, <3>4 DEF SeenWorn, KeyKnown, Known, Shake, At, RemoteCall
  <2> QED
    BY <2>1, <2>2
<1>6. \A p \in Profiles : rows'[p].there => Known(p, rows[p].pinned)'
  BY <1>1 DEF Shake, KeysKnown, Known
<1>7. ConfirmedOnly'
  <2>1. remote[i].row.pinned = Presented(remote[i].row.host) => remote[i].row.pinned # NoKey
    BY <1>1, KeysAreKeys, PresentedIsKey DEF Shake, At, Fits, Row
  <2>2. Known(P(i), remote[i].row.pinned)
    BY <1>1, NoCallIsNone DEF Shake, At, KeysKnown
  <2> QED
    BY <1>1, <2>1, <2>2 DEF Shake, KeysKnown, ConfirmedOnly, Known
<1>8. c # NoCall => SeenWorn(c, session'[P(i)]) /\ KeyKnown(c)'
  BY <1>5 DEF KeyKnown, Known, Shake
<1> QED
  BY <1>2, <1>3, <1>4, <1>6, <1>7, <1>8, LoginKept DEF Shake

LEMMA InsertKeeps ==
  ASSUME LoginInv, NEW i \in DOMAIN remote, remote[i] \in RemoteCall, Insert(i)
  PROVE  LoginInv'
<1>1. /\ RemoteTypeOK /\ CallsFit /\ LockHeld /\ NoneFresh /\ KeysKnown
      /\ P(i) \in Profiles /\ P(i) = remote[i].profile /\ i \in 1 .. MaxCalls /\ Fits(remote[i])
  BY CallerFacts
<1>2. PICK c \in RemoteCall \cup {NoCall} :
        /\ c = OnWith(i, "mark", "connected", "answered")
        /\ Moves(i, c)
  BY InsertMoves
<1>3. RemoteTypeOK'
  <2>1. [key |-> remote[i].key, alive |-> TRUE, age |-> "fresh"] \in Handle
    BY <1>1 DEF Insert, At, Fits, Handle
  <2>2. session' \in [Profiles -> Handle \cup {NoSession}]
    BY <1>1, <2>1 DEF Insert, RemoteTypeOK
  <2> QED
    BY <1>1, <1>2, <2>2 DEF Insert, RemoteTypeOK, Moves
<1>4. LockHeld'
  <2>1. remote[i].kind \in Logging => (remote[i].at \in Locked <=> c.at \in Locked)
    BY <1>1, <1>2 DEF Insert, At, On, OnWith, FailedCall, Locked, Forcing, Logging, Fits, RemoteCall, NoCall
  <2> QED
    BY <1>1, <1>2, <2>1, LockKept DEF Moves, Insert
<1>5. c # NoCall => SeenWorn(c, session[P(i)]) /\ KeyKnown(c)
  BY <1>1, <1>2 DEF Insert, NoneFresh, KeysKnown, SeenWorn, KeyKnown, Known, At, On, OnWith, FailedCall, Logging, Fits, RemoteCall, Live, Worn
<1>6. CallsFit' /\ GoesOn(i, c)
  BY <1>1, <1>2, FitsOn DEF Moves
<1>7. NoneFresh'
  <2> SUFFICES ASSUME NEW j \in DOMAIN remote', remote'[j].kind \in Logging
               PROVE  SeenWorn(remote'[j], session'[P(j)'])
    BY DEF NoneFresh, SeenWorn, P
  <2>1. CASE j = i
    BY <1>1, <1>2, <1>6, <2>1 DEF GoesOn, CallBecomes, SeenWorn, OnWith, RemoteCall
  <2>2. CASE j # i
    <3>1. j \in DOMAIN remote /\ remote'[j] = remote[j] /\ P(j)' = P(j)
      BY <1>6, <2>2 DEF GoesOn, CallBecomes, P
    <3>2. remote[j] \in RemoteCall /\ P(j) \in Profiles
      BY <1>1, <3>1, NoCallFits, Caller DEF Logging
    <3>3. holder[P(i)] = i
      BY <1>1 DEF Insert, At, LockHeld, Fits, RemoteCall, CallKinds, Forcing, Locked, Logging
    <3>4. remote[j].at \in Locked => P(j) # P(i)
      BY <1>1, <2>2, <3>1, <3>3 DEF LockHeld
    <3>5. SeenWorn(remote[j], session[P(j)])
      BY <1>1, <3>1 DEF NoneFresh, SeenWorn
    <3>6. remote[j].at \notin Locked => SeenWorn(remote[j], session'[P(j)])
      BY DEF SeenWorn, Locked, Forcing
    <3>7. P(j) # P(i) => session'[P(j)] = session[P(j)]
      BY <1>1, <3>2 DEF Insert, RemoteTypeOK
    <3> QED
      BY <3>1, <3>4, <3>5, <3>6, <3>7
  <2> QED
    BY <2>1, <2>2
<1>8. ConfirmedOnly'
  <2>1. <<P(i), remote[i].key>> \in confirmed
    BY <1>1, NoCallIsNone DEF Insert, At, KeysKnown
  <2> QED
    BY <1>1, <2>1 DEF Insert, KeysKnown, ConfirmedOnly, RemoteTypeOK
<1>9. KeysKnown'
  <2>1. \A p \in Profiles : rows'[p].there => Known(p, rows[p].pinned)'
    BY <1>1 DEF Insert, KeysKnown, Known
  <2>2. c # NoCall => KeyKnown(c)'
    BY <1>5 DEF Insert, KeyKnown, Known
  <2> QED
    BY <1>1, <1>6, <1>8, <2>1, <2>2, StaysKnown DEF Insert
<1> QED
  BY <1>3, <1>4, <1>6, <1>7, <1>9 DEF LoginInv

LEMMA AnsweredKeeps ==
  ASSUME LoginInv, NEW i \in DOMAIN remote, remote[i] \in RemoteCall, Answered(i)
  PROVE  LoginInv'
<1>1. /\ RemoteTypeOK /\ CallsFit /\ LockHeld /\ NoneFresh /\ KeysKnown
      /\ P(i) \in Profiles /\ P(i) = remote[i].profile /\ i \in 1 .. MaxCalls /\ Fits(remote[i])
  BY CallerFacts
<1>2. PICK c \in RemoteCall \cup {NoCall} :
        /\ c = NoCall \/ (c = On(i, "use") /\ remote[i].kind = "provider")
        /\ Moves(i, c)
  BY AnsweredMoves
<1>3. RemoteTypeOK'
  <2>1. rows' \in [Profiles -> Row \cup {NoRow}]
    <3>1. CASE rows' = rows
      BY <1>1, <3>1 DEF RemoteTypeOK
    <3>2. CASE rows' # rows
      <4>1. rows[P(i)].there /\ rows' = [rows EXCEPT ![P(i)].stored = TRUE]
        BY <3>2 DEF Answered
      <4> QED
        BY <1>1, <4>1, RowsType
    <3> QED
      BY <3>1, <3>2
  <2>2. holder' \in [Profiles -> 0 .. MaxCalls]
    BY <1>1, LeaveType DEF Answered
  <2> QED
    BY <1>1, <1>2, <2>1, <2>2 DEF Answered, RemoteTypeOK, Moves
<1>4. LockHeld'
  <2>1. c = NoCall \/ c.at \notin Locked
    BY <1>1, <1>2 DEF On, Locked, Forcing, RemoteCall
  <2> QED
    BY <1>1, <1>2, <2>1, LockLeft, LeaveType DEF Moves, Answered
<1>5. c # NoCall => SeenWorn(c, session[P(i)]) /\ KeyKnown(c)
  BY <1>1, <1>2 DEF Answered, NoneFresh, KeysKnown, SeenWorn, KeyKnown, Known, At, On, OnWith, FailedCall, Logging, Fits, RemoteCall, Live, Worn
<1>6. \A p \in Profiles : rows'[p].there => Known(p, rows[p].pinned)'
  BY <1>1, NonesAreNone DEF Answered, KeysKnown, Known, RemoteTypeOK, Row
<1>7. ConfirmedOnly' /\ session' = session /\ confirmed' = confirmed
  BY <1>1 DEF Answered, KeysKnown, ConfirmedOnly
<1>8. c # NoCall => SeenWorn(c, session'[P(i)]) /\ KeyKnown(c)'
  BY <1>5, <1>7 DEF KeyKnown, Known
<1> QED
  BY <1>2, <1>3, <1>4, <1>6, <1>7, <1>8, LoginKept

LEMMA TouchedSession ==
  ASSUME RemoteTypeOK, NEW i, P(i) \in Profiles, Touch(i)
  PROVE  /\ session' \in [Profiles -> Handle \cup {NoSession}]
         /\ \A p \in Profiles : (session'[p] # NoSession <=> session[p] # NoSession)
         /\ \A p \in Profiles : session[p] # NoSession =>
                /\ session'[p].key = session[p].key /\ session'[p].alive = session[p].alive
                /\ session'[p].age = "fresh" => session[p].age = "fresh"
<1>1. CASE session' = session
  BY <1>1 DEF RemoteTypeOK
<1>2. CASE session' # session
  <2> DEFINE s == [session[P(i)] EXCEPT !.age = "revived"]
  <2>1. session[P(i)] \in Handle
    BY <1>2 DEF Touch, RemoteTypeOK
  <2>2. /\ s \in Handle /\ s # NoSession /\ s.key = session[P(i)].key /\ s.alive = session[P(i)].alive
        /\ s.age = "revived"
    BY <2>1, NonesAreNone DEF Handle
  <2>3. session' = [session EXCEPT ![P(i)] = s]
    BY <1>2 DEF Touch
  <2> HIDE DEF s
  <2>4. \A p \in Profiles : session'[p] = IF p = P(i) THEN s ELSE session[p]
    BY <2>3 DEF RemoteTypeOK
  <2>5. session' \in [Profiles -> Handle \cup {NoSession}]
    BY <2>2, <2>3 DEF RemoteTypeOK
  <2> QED
    BY <2>1, <2>2, <2>4, <2>5, NonesAreNone
<1> QED
  BY <1>1, <1>2

LEMMA TouchKeeps ==
  ASSUME LoginInv, NEW i \in DOMAIN remote, remote[i] \in RemoteCall, Touch(i)
  PROVE  LoginInv'
<1>1. /\ RemoteTypeOK /\ CallsFit /\ LockHeld /\ NoneFresh /\ KeysKnown
      /\ P(i) \in Profiles /\ P(i) = remote[i].profile /\ i \in 1 .. MaxCalls /\ Fits(remote[i])
  BY CallerFacts
<1>2. PICK c \in RemoteCall \cup {NoCall} :
        /\ c = NoCall
        /\ Moves(i, c)
  BY TouchMoves
<1>3. RemoteTypeOK'
  <2>1. session' \in [Profiles -> Handle \cup {NoSession}]
    BY <1>1, TouchedSession DEF RemoteTypeOK
  <2> QED
    BY <1>1, <1>2, <2>1 DEF Touch, RemoteTypeOK, Moves
<1>4. LockHeld'
  <2>1. remote[i].kind \in Logging => (remote[i].at \in Locked <=> c.at \in Locked)
    BY <1>1, <1>2 DEF Touch, At, On, OnWith, FailedCall, Locked, Forcing, Logging, Fits, RemoteCall, NoCall
  <2> QED
    BY <1>1, <1>2, <2>1, LockKept DEF Moves, Touch
<1>5. c # NoCall => SeenWorn(c, session[P(i)]) /\ KeyKnown(c)
  BY <1>1, <1>2 DEF Touch, NoneFresh, KeysKnown, SeenWorn, KeyKnown, Known, At, On, OnWith, FailedCall, Logging, Fits, RemoteCall, Live, Worn
<1>6. \A p \in Profiles : Worn(session[p]) => Worn(session'[p])
  BY <1>1, TouchedSession DEF Worn, RemoteTypeOK
<1>7. ConfirmedOnly'
  BY <1>1, TouchedSession DEF Touch, KeysKnown, ConfirmedOnly, RemoteTypeOK
<1>8. \A p \in Profiles : rows'[p].there => Known(p, rows[p].pinned)'
  BY <1>1 DEF Touch, KeysKnown, Known
<1>9. c # NoCall => SeenWorn(c, session'[P(i)]) /\ KeyKnown(c)'
  BY <1>1, <1>5, <1>6 DEF KeyKnown, Known, Touch, SeenWorn
<1> QED
  BY <1>2, <1>3, <1>4, <1>6, <1>7, <1>8, <1>9, LoginKept DEF Touch

LEMMA DropHandleKeeps ==
  ASSUME LoginInv, NEW i \in DOMAIN remote, remote[i] \in RemoteCall, DropHandle(i)
  PROVE  LoginInv'
<1>1. /\ RemoteTypeOK /\ CallsFit /\ LockHeld /\ NoneFresh /\ KeysKnown
      /\ P(i) \in Profiles /\ P(i) = remote[i].profile /\ i \in 1 .. MaxCalls /\ Fits(remote[i])
  BY CallerFacts
<1>2. PICK c \in RemoteCall \cup {NoCall} :
        /\ c = On(i, "mark")
        /\ Moves(i, c)
  BY DropHandleMoves
<1>3. RemoteTypeOK'
  BY <1>1, <1>2 DEF DropHandle, RemoteTypeOK, Moves
<1>4. LockHeld'
  <2>1. remote[i].kind \in Logging => (remote[i].at \in Locked <=> c.at \in Locked)
    BY <1>1, <1>2 DEF DropHandle, At, On, OnWith, FailedCall, Locked, Forcing, Logging, Fits, RemoteCall, NoCall
  <2> QED
    BY <1>1, <1>2, <2>1, LockKept DEF Moves, DropHandle
<1>5. c # NoCall => SeenWorn(c, session[P(i)]) /\ KeyKnown(c)
  BY <1>1, <1>2 DEF DropHandle, NoneFresh, KeysKnown, SeenWorn, KeyKnown, Known, At, On, OnWith, FailedCall, Logging, Fits, RemoteCall, Live, Worn
<1>6. \A p \in Profiles : Worn(session[p]) => Worn(session'[p])
  BY <1>1, NonesAreNone DEF DropHandle, Worn, RemoteTypeOK, Handle
<1>7. ConfirmedOnly'
  BY <1>1, NonesAreNone DEF DropHandle, KeysKnown, ConfirmedOnly, RemoteTypeOK, Handle
<1>8. \A p \in Profiles : rows'[p].there => Known(p, rows[p].pinned)'
  BY <1>1 DEF DropHandle, KeysKnown, Known
<1>9. c # NoCall => SeenWorn(c, session'[P(i)]) /\ KeyKnown(c)'
  BY <1>1, <1>5, <1>6 DEF KeyKnown, Known, DropHandle, SeenWorn
<1> QED
  BY <1>2, <1>3, <1>4, <1>6, <1>7, <1>8, <1>9, LoginKept DEF DropHandle

LEMMA MarkKeeps ==
  ASSUME LoginInv, NEW i \in DOMAIN remote, remote[i] \in RemoteCall, Mark(i)
  PROVE  LoginInv'
<1>1. /\ RemoteTypeOK /\ CallsFit /\ LockHeld /\ NoneFresh /\ KeysKnown
      /\ P(i) \in Profiles /\ P(i) = remote[i].profile /\ i \in 1 .. MaxCalls /\ Fits(remote[i])
  BY CallerFacts
<1>2. PICK c \in RemoteCall \cup {NoCall} :
        /\ c = On(i, "tell")
        /\ Moves(i, c)
  BY MarkMoves
<1>3. RemoteTypeOK'
  <2>1. Outcome(i) \in Statuses
    BY <1>1, OutcomeType DEF Mark, At
  <2> QED
    BY <1>1, <1>2, <2>1 DEF Mark, RemoteTypeOK, Moves
<1>4. LockHeld'
  <2>1. remote[i].kind \in Logging => (remote[i].at \in Locked <=> c.at \in Locked)
    BY <1>1, <1>2 DEF Mark, At, On, OnWith, FailedCall, Locked, Forcing, Logging, Fits, RemoteCall, NoCall
  <2> QED
    BY <1>1, <1>2, <2>1, LockKept DEF Moves, Mark
<1>5. c # NoCall => SeenWorn(c, session[P(i)]) /\ KeyKnown(c)
  BY <1>1, <1>2 DEF Mark, NoneFresh, KeysKnown, SeenWorn, KeyKnown, Known, At, On, OnWith, FailedCall, Logging, Fits, RemoteCall, Live, Worn
<1> QED
  BY <1>2, <1>3, <1>4, <1>5, LoginQuiet DEF Mark

LEMMA TellKeeps ==
  ASSUME LoginInv, NEW i \in DOMAIN remote, remote[i] \in RemoteCall, Tell(i)
  PROVE  LoginInv'
<1>1. /\ RemoteTypeOK /\ CallsFit /\ LockHeld /\ NoneFresh /\ KeysKnown
      /\ P(i) \in Profiles /\ P(i) = remote[i].profile /\ i \in 1 .. MaxCalls /\ Fits(remote[i])
  BY CallerFacts
<1>2. PICK c \in RemoteCall \cup {NoCall} :
        /\ c = On(i, IF remote[i].kind \in {"update", "delete", "forget"} THEN "clear" ELSE remote[i].then)
        /\ Moves(i, c)
  BY TellMoves
<1>3. RemoteTypeOK'
  <2>1. Outcome(i) \in Statuses
    BY <1>1, OutcomeType DEF Tell, At
  <2> QED
    BY <1>1, <1>2, <2>1 DEF Tell, RemoteTypeOK, Moves
<1>4. LockHeld'
  <2>1. remote[i].kind \in Logging => (remote[i].at \in Locked <=> c.at \in Locked)
    BY <1>1, <1>2 DEF Tell, At, On, OnWith, FailedCall, Locked, Forcing, Logging, Fits, RemoteCall, NoCall
  <2> QED
    BY <1>1, <1>2, <2>1, LockKept DEF Moves, Tell
<1>5. c # NoCall => SeenWorn(c, session[P(i)]) /\ KeyKnown(c)
  BY <1>1, <1>2 DEF Tell, NoneFresh, KeysKnown, SeenWorn, KeyKnown, Known, At, On, OnWith, FailedCall, Logging, Fits, RemoteCall, Live, Worn
<1> QED
  BY <1>2, <1>3, <1>4, <1>5, LoginQuiet DEF Tell

LEMMA EditKeeps ==
  ASSUME LoginInv, NEW i \in DOMAIN remote, remote[i] \in RemoteCall, Edit(i)
  PROVE  LoginInv'
<1>1. /\ RemoteTypeOK /\ CallsFit /\ LockHeld /\ NoneFresh /\ KeysKnown
      /\ P(i) \in Profiles /\ P(i) = remote[i].profile /\ i \in 1 .. MaxCalls /\ Fits(remote[i])
  BY CallerFacts
<1>2. PICK c \in RemoteCall \cup {NoCall} :
        /\ c = NoCall \/ c = On(i, "drop")
        /\ Moves(i, c)
  BY EditMoves
<1>3. RemoteTypeOK'
  BY <1>1, <1>2 DEF Edit, RemoteTypeOK, Moves
<1>4. LockHeld'
  <2>1. remote[i].kind \in Logging => (remote[i].at \in Locked <=> c.at \in Locked)
    BY <1>1, <1>2 DEF Edit, At, On, OnWith, FailedCall, Locked, Forcing, Logging, Fits, RemoteCall, NoCall
  <2> QED
    BY <1>1, <1>2, <2>1, LockKept DEF Moves, Edit
<1>5. c # NoCall => SeenWorn(c, session[P(i)]) /\ KeyKnown(c)
  BY <1>1, <1>2 DEF Edit, CallKinds, Forcing, NoneFresh, KeysKnown, SeenWorn, KeyKnown, Known, At, On, OnWith, FailedCall, Logging, Fits, RemoteCall, Live, Worn
<1> QED
  BY <1>2, <1>3, <1>4, <1>5, LoginQuiet DEF Edit

LEMMA ClearObservedKeeps ==
  ASSUME LoginInv, NEW i \in DOMAIN remote, remote[i] \in RemoteCall, ClearObserved(i)
  PROVE  LoginInv'
<1>1. /\ RemoteTypeOK /\ CallsFit /\ LockHeld /\ NoneFresh /\ KeysKnown
      /\ P(i) \in Profiles /\ P(i) = remote[i].profile /\ i \in 1 .. MaxCalls /\ Fits(remote[i])
  BY CallerFacts
<1>2. PICK c \in RemoteCall \cup {NoCall} :
        /\ c = On(i, IF remote[i].kind = "delete" THEN "remove" ELSE "unpin")
        /\ Moves(i, c)
  BY ClearObservedMoves
<1>3. RemoteTypeOK'
  BY <1>1, <1>2 DEF ClearObserved, RemoteTypeOK, Moves
<1>4. LockHeld'
  <2>1. remote[i].kind \in Logging => (remote[i].at \in Locked <=> c.at \in Locked)
    BY <1>1, <1>2 DEF ClearObserved, At, On, OnWith, FailedCall, Locked, Forcing, Logging, Fits, RemoteCall, NoCall
  <2> QED
    BY <1>1, <1>2, <2>1, LockKept DEF Moves, ClearObserved
<1>5. c # NoCall => SeenWorn(c, session[P(i)]) /\ KeyKnown(c)
  BY <1>1, <1>2 DEF ClearObserved, NoneFresh, KeysKnown, SeenWorn, KeyKnown, Known, At, On, OnWith, FailedCall, Logging, Fits, RemoteCall, Live, Worn
<1> QED
  BY <1>2, <1>3, <1>4, <1>5, LoginQuiet DEF ClearObserved

LEMMA UnpinKeeps ==
  ASSUME LoginInv, NEW i \in DOMAIN remote, remote[i] \in RemoteCall, Unpin(i)
  PROVE  LoginInv'
<1>1. /\ RemoteTypeOK /\ CallsFit /\ LockHeld /\ NoneFresh /\ KeysKnown
      /\ P(i) \in Profiles /\ P(i) = remote[i].profile /\ i \in 1 .. MaxCalls /\ Fits(remote[i])
  BY CallerFacts
<1>2. PICK c \in RemoteCall \cup {NoCall} :
        /\ c = On(i, IF rows[P(i)].there /\ remote[i].kind = "update" THEN "write" ELSE "done")
        /\ Moves(i, c)
  BY UnpinMoves
<1>3. RemoteTypeOK'
  <2>1. rows' \in [Profiles -> Row \cup {NoRow}]
    <3>1. CASE rows[P(i)].there
      <4> DEFINE r == [rows[P(i)] EXCEPT !.pinned = NoKey, !.stored = rows[P(i)].stored /\ ~(remote[i].kind = "update")]
      <4>1. r \in Row
        BY <1>1, <3>1, RowsType DEF Row
      <4>2. rows' = [rows EXCEPT ![P(i)] = r]
        BY <3>1 DEF Unpin
      <4> QED
        BY <1>1, <3>1, <4>1, <4>2, RowsType
    <3>2. CASE ~rows[P(i)].there
      BY <1>1, <3>2 DEF Unpin, RemoteTypeOK
    <3> QED
      BY <3>1, <3>2
  <2>2. secret' \in [Profiles -> BOOLEAN]
    BY <1>1 DEF Unpin, RemoteTypeOK
  <2> QED
    BY <1>1, <1>2, <2>1, <2>2 DEF Unpin, RemoteTypeOK, Moves
<1>4. LockHeld'
  <2>1. remote[i].kind \in Logging => (remote[i].at \in Locked <=> c.at \in Locked)
    BY <1>1, <1>2 DEF Unpin, At, On, OnWith, FailedCall, Locked, Forcing, Logging, Fits, RemoteCall, NoCall
  <2> QED
    BY <1>1, <1>2, <2>1, LockKept DEF Moves, Unpin
<1>5. c # NoCall => SeenWorn(c, session[P(i)]) /\ KeyKnown(c)
  BY <1>1, <1>2 DEF Unpin, NoneFresh, KeysKnown, SeenWorn, KeyKnown, Known, At, On, OnWith, FailedCall, Logging, Fits, RemoteCall, Live, Worn
<1>6. \A p \in Profiles : rows'[p].there => Known(p, rows[p].pinned)'
  <2>1. CASE rows[P(i)].there
    <3>1. /\ \A p \in Profiles : p # P(i) => rows'[p] = rows[p]
          /\ rows'[P(i)].pinned = NoKey
      <4> DEFINE r == [rows[P(i)] EXCEPT !.pinned = NoKey, !.stored = rows[P(i)].stored /\ ~(remote[i].kind = "update")]
      <4>1. rows' = [rows EXCEPT ![P(i)] = r] /\ rows \in [Profiles -> Row \cup {NoRow}]
        BY <1>1, <2>1 DEF Unpin, RemoteTypeOK
      <4>2. r.pinned = NoKey
        BY <1>1, <2>1, RowsType DEF Row
      <4> HIDE DEF r
      <4> QED
        BY <1>1, <4>1, <4>2
    <3> QED
      BY <1>1, <3>1 DEF KeysKnown, Known, Unpin
  <2>2. CASE ~rows[P(i)].there
    BY <1>1, <2>2 DEF Unpin, KeysKnown, Known
  <2> QED
    BY <2>1, <2>2
<1>7. ConfirmedOnly' /\ session' = session /\ confirmed' = confirmed
  BY <1>1 DEF Unpin, KeysKnown, ConfirmedOnly
<1>8. c # NoCall => SeenWorn(c, session'[P(i)]) /\ KeyKnown(c)'
  BY <1>5, <1>7 DEF KeyKnown, Known
<1> QED
  BY <1>2, <1>3, <1>4, <1>6, <1>7, <1>8, LoginKept

LEMMA WriteRowKeeps ==
  ASSUME LoginInv, NEW i \in DOMAIN remote, remote[i] \in RemoteCall, WriteRow(i)
  PROVE  LoginInv'
<1>1. /\ RemoteTypeOK /\ CallsFit /\ LockHeld /\ NoneFresh /\ KeysKnown
      /\ P(i) \in Profiles /\ P(i) = remote[i].profile /\ i \in 1 .. MaxCalls /\ Fits(remote[i])
  BY CallerFacts
<1>2. PICK c \in RemoteCall \cup {NoCall} :
        /\ c = NoCall
        /\ Moves(i, c)
  BY WriteRowMoves
<1>3. RemoteTypeOK'
  <2>1. remote[i].arg \in {<<h>> : h \in Hosts}
    BY <1>1 DEF WriteRow, At, Fits, RemoteCall, CallKinds, Forcing
  <2>2. remote[i].arg[1] \in Hosts
    BY <2>1
  <2>3. rows' \in [Profiles -> Row \cup {NoRow}]
    BY <1>1, <2>2, RowsType DEF WriteRow, RemoteTypeOK
  <2> QED
    BY <1>1, <1>2, <2>3 DEF WriteRow, RemoteTypeOK, Moves
<1>4. LockHeld'
  <2>1. remote[i].kind \in Logging => (remote[i].at \in Locked <=> c.at \in Locked)
    BY <1>1, <1>2 DEF WriteRow, At, On, OnWith, FailedCall, Locked, Forcing, Logging, Fits, RemoteCall, NoCall
  <2> QED
    BY <1>1, <1>2, <2>1, LockKept DEF Moves, WriteRow
<1>5. c # NoCall => SeenWorn(c, session[P(i)]) /\ KeyKnown(c)
  BY <1>1, <1>2 DEF WriteRow, NoneFresh, KeysKnown, SeenWorn, KeyKnown, Known, At, On, OnWith, FailedCall, Logging, Fits, RemoteCall, Live, Worn
<1>6. \A p \in Profiles : rows'[p].there => Known(p, rows[p].pinned)'
  BY <1>1, NonesAreNone DEF WriteRow, KeysKnown, Known, RemoteTypeOK, Row
<1>7. ConfirmedOnly' /\ session' = session /\ confirmed' = confirmed
  BY <1>1 DEF WriteRow, KeysKnown, ConfirmedOnly
<1>8. c # NoCall => SeenWorn(c, session'[P(i)]) /\ KeyKnown(c)'
  BY <1>5, <1>7 DEF KeyKnown, Known
<1> QED
  BY <1>2, <1>3, <1>4, <1>6, <1>7, <1>8, LoginKept

LEMMA RemoveRowKeeps ==
  ASSUME LoginInv, NEW i \in DOMAIN remote, remote[i] \in RemoteCall, RemoveRow(i)
  PROVE  LoginInv'
<1>1. /\ RemoteTypeOK /\ CallsFit /\ LockHeld /\ NoneFresh /\ KeysKnown
      /\ P(i) \in Profiles /\ P(i) = remote[i].profile /\ i \in 1 .. MaxCalls /\ Fits(remote[i])
  BY CallerFacts
<1>2. PICK c \in RemoteCall \cup {NoCall} :
        /\ c = NoCall
        /\ Moves(i, c)
  BY RemoveRowMoves
<1>3. RemoteTypeOK'
  <2>1. secret' \in [Profiles -> BOOLEAN]
    BY <1>1, NonesAreNone DEF RemoveRow, RemoteTypeOK
  <2> QED
    BY <1>1, <1>2, <2>1 DEF RemoveRow, RemoteTypeOK, Moves
<1>4. LockHeld'
  <2>1. remote[i].kind \in Logging => (remote[i].at \in Locked <=> c.at \in Locked)
    BY <1>1, <1>2 DEF RemoveRow, At, On, OnWith, FailedCall, Locked, Forcing, Logging, Fits, RemoteCall, NoCall
  <2> QED
    BY <1>1, <1>2, <2>1, LockKept DEF Moves, RemoveRow
<1>5. c # NoCall => SeenWorn(c, session[P(i)]) /\ KeyKnown(c)
  BY <1>1, <1>2 DEF RemoveRow, NoneFresh, KeysKnown, SeenWorn, KeyKnown, Known, At, On, OnWith, FailedCall, Logging, Fits, RemoteCall, Live, Worn
<1>6. \A p \in Profiles : rows'[p].there => Known(p, rows[p].pinned)'
  BY <1>1, NonesAreNone DEF RemoveRow, KeysKnown, Known, RemoteTypeOK, Row
<1>7. ConfirmedOnly' /\ session' = session /\ confirmed' = confirmed
  BY <1>1 DEF RemoveRow, KeysKnown, ConfirmedOnly
<1>8. c # NoCall => SeenWorn(c, session'[P(i)]) /\ KeyKnown(c)'
  BY <1>5, <1>7 DEF KeyKnown, Known
<1> QED
  BY <1>2, <1>3, <1>4, <1>6, <1>7, <1>8, LoginKept

LEMMA CompareKeeps ==
  ASSUME LoginInv, NEW i \in DOMAIN remote, remote[i] \in RemoteCall, Compare(i)
  PROVE  LoginInv'
<1>1. /\ RemoteTypeOK /\ CallsFit /\ LockHeld /\ NoneFresh /\ KeysKnown
      /\ P(i) \in Profiles /\ P(i) = remote[i].profile /\ i \in 1 .. MaxCalls /\ Fits(remote[i])
  BY CallerFacts
<1>2. PICK c \in RemoteCall \cup {NoCall} :
        /\ \/ c = NoCall
           \/ c = On(i, "pin") /\ rows[P(i)].there /\ Answers(challenge[P(i)], rows[P(i)], remote[i].arg)
        /\ Moves(i, c)
  BY CompareMoves
<1>3. RemoteTypeOK'
  BY <1>1, <1>2 DEF Compare, RemoteTypeOK, Moves
<1>4. LockHeld'
  <2>1. remote[i].kind \in Logging => (remote[i].at \in Locked <=> c.at \in Locked)
    BY <1>1, <1>2 DEF Compare, At, On, OnWith, FailedCall, Locked, Forcing, Logging, Fits, RemoteCall, NoCall
  <2> QED
    BY <1>1, <1>2, <2>1, LockKept DEF Moves, Compare
<1>5. c # NoCall => SeenWorn(c, session[P(i)]) /\ KeyKnown(c)
  BY <1>1, <1>2 DEF Compare, NoneFresh, KeysKnown, SeenWorn, KeyKnown, Known, At, On, OnWith, FailedCall, Logging, Fits, RemoteCall, Live, Worn
<1> QED
  BY <1>2, <1>3, <1>4, <1>5, LoginQuiet DEF Compare

LEMMA PinKeeps ==
  ASSUME LoginInv, NEW i \in DOMAIN remote, remote[i] \in RemoteCall, Pin(i)
  PROVE  LoginInv'
<1>1. /\ RemoteTypeOK /\ CallsFit /\ LockHeld /\ NoneFresh /\ KeysKnown
      /\ P(i) \in Profiles /\ P(i) = remote[i].profile /\ i \in 1 .. MaxCalls /\ Fits(remote[i])
  BY CallerFacts
<1>2. PICK c \in RemoteCall \cup {NoCall} :
        /\ c = On(i, IF rows[P(i)].there THEN "answered" ELSE "done")
        /\ Moves(i, c)
  BY PinMoves
<1>3. RemoteTypeOK'
  <2>1. remote[i].arg \in Keys
    BY <1>1 DEF Pin, At, Fits, RemoteCall, CallKinds, Forcing
  <2>2. rows' \in [Profiles -> Row \cup {NoRow}]
    <3>1. CASE rows[P(i)].there
      BY <1>1, <2>1, <3>1, RowsType DEF Pin
    <3>2. CASE ~rows[P(i)].there
      BY <1>1, <3>2 DEF Pin, RemoteTypeOK
    <3> QED
      BY <3>1, <3>2
  <2>3. confirmed' \subseteq Profiles \X (Keys \cup {NoKey})
    BY <1>1, <2>1 DEF Pin, RemoteTypeOK
  <2> QED
    BY <1>1, <1>2, <2>2, <2>3 DEF Pin, RemoteTypeOK, Moves
<1>4. LockHeld'
  <2>1. remote[i].kind \in Logging => (remote[i].at \in Locked <=> c.at \in Locked)
    BY <1>1, <1>2 DEF Pin, At, On, OnWith, FailedCall, Locked, Forcing, Logging, Fits, RemoteCall, NoCall
  <2> QED
    BY <1>1, <1>2, <2>1, LockKept DEF Moves, Pin
<1>5. c # NoCall => SeenWorn(c, session[P(i)]) /\ KeyKnown(c)
  BY <1>1, <1>2 DEF Pin, NoneFresh, KeysKnown, SeenWorn, KeyKnown, Known, At, On, OnWith, FailedCall, Logging, Fits, RemoteCall, Live, Worn
<1>6. \A p \in Profiles : rows'[p].there => Known(p, rows[p].pinned)'
  <2>1. CASE rows[P(i)].there
    <3>1. /\ rows' = [rows EXCEPT ![P(i)] = [@ EXCEPT !.pinned = remote[i].arg]]
          /\ confirmed' = confirmed \cup {<<P(i), remote[i].arg>>}
      BY <1>1, <2>1 DEF Pin
    <3>2. rows'[P(i)].pinned = remote[i].arg
      BY <1>1, <2>1, <3>1, RowsType DEF RemoteTypeOK, Row
    <3> QED
      BY <1>1, <3>1, <3>2 DEF KeysKnown, Known, RemoteTypeOK
  <2>2. CASE ~rows[P(i)].there
    BY <1>1, <2>2 DEF Pin, KeysKnown, Known
  <2> QED
    BY <2>1, <2>2
<1>7. ConfirmedOnly' /\ session' = session /\ confirmed \subseteq confirmed'
  BY <1>1 DEF Pin, KeysKnown, ConfirmedOnly
<1>8. c # NoCall => SeenWorn(c, session'[P(i)]) /\ KeyKnown(c)'
  BY <1>5, <1>7 DEF KeyKnown, Known
<1> QED
  BY <1>2, <1>3, <1>4, <1>6, <1>7, <1>8, LoginKept

LEMMA SettleKeeps ==
  ASSUME LoginInv, NEW i \in DOMAIN remote, remote[i] \in RemoteCall, Settle(i)
  PROVE  LoginInv'
<1>1. /\ RemoteTypeOK /\ CallsFit /\ LockHeld /\ NoneFresh /\ KeysKnown
      /\ P(i) \in Profiles /\ P(i) = remote[i].profile /\ i \in 1 .. MaxCalls /\ Fits(remote[i])
  BY CallerFacts
<1>2. PICK c \in RemoteCall \cup {NoCall} :
        /\ c = NoCall
        /\ Moves(i, c)
  BY SettleMoves
<1>3. RemoteTypeOK'
  BY <1>1, <1>2 DEF Settle, RemoteTypeOK, Moves
<1>4. LockHeld'
  <2>1. remote[i].kind \in Logging => (remote[i].at \in Locked <=> c.at \in Locked)
    BY <1>1, <1>2 DEF Settle, At, On, OnWith, FailedCall, Locked, Forcing, Logging, Fits, RemoteCall, NoCall
  <2> QED
    BY <1>1, <1>2, <2>1, LockKept DEF Moves, Settle
<1>5. c # NoCall => SeenWorn(c, session[P(i)]) /\ KeyKnown(c)
  BY <1>1, <1>2 DEF Settle, NoneFresh, KeysKnown, SeenWorn, KeyKnown, Known, At, On, OnWith, FailedCall, Logging, Fits, RemoteCall, Live, Worn
<1> QED
  BY <1>2, <1>3, <1>4, <1>5, LoginQuiet DEF Settle

-----------------------------------------------------------------------------
(* A call begins; time passes.                                             *)

NewCall(kind, p, s, arg) ==
    [kind |-> kind, profile |-> p, at |-> s, arg |-> arg, row |-> NoRow,
     key |-> NoKey, outcome |-> "none", then |-> "done"]

LEMMA BeginKeeps ==
  ASSUME LoginInv, NEW kind \in CallKinds, NEW p \in Profiles,
         NEW s \in {"look", "lock", "row", "drop", "edit", "compare"},
         NEW arg \in Keys \cup {<<h>> : h \in Hosts} \cup {NoKey},
         Begin(kind, p, s, arg), Fits(NewCall(kind, p, s, arg)),
         kind \in Logging => s \in {"look", "lock"}
  PROVE  LoginInv'
<1> DEFINE c == NewCall(kind, p, s, arg)
           n == Len(remote) + 1
<1>1. RemoteTypeOK /\ CallsFit /\ LockHeld /\ NoneFresh /\ KeysKnown
  BY DEF LoginInv
<1>2. c \in RemoteCall /\ c.kind = kind /\ c.at = s /\ c.profile = p /\ Fits(c)
  BY DEF NewCall, RemoteCall, Steps
<1>3. remote' = Append(remote, c)
  BY DEF Begin, Goes, NewCall
<1> HIDE DEF c
<1>4. /\ remote' \in Seq(RemoteCall \cup {NoCall}) /\ Len(remote') = n /\ n <= MaxCalls
      /\ DOMAIN remote' = 1 .. n /\ remote'[n] = c
      /\ \A j \in DOMAIN remote : j \in DOMAIN remote' /\ remote'[j] = remote[j]
      /\ \A j \in DOMAIN remote' : j = n \/ j \in DOMAIN remote
  BY <1>1, <1>2, <1>3, RemoteConstants DEF RemoteTypeOK, Begin
<1> HIDE DEF n
<1>5. RemoteTypeOK'
  BY <1>1, <1>4 DEF RemoteTypeOK, Begin, Goes, Tangled
<1>6. CallsFit'
  BY <1>1, <1>2, <1>4 DEF CallsFit
<1>7. LockHeld'
  <2>1. ~(c.kind \in Logging /\ c.at \in Locked)
    BY <1>2 DEF Logging, Locked, Forcing
  <2>2. holder' = holder
    BY DEF Begin
  <2> QED
    BY <1>1, <1>4, <2>1, <2>2 DEF LockHeld, Mine, P
<1>8. NoneFresh'
  <2>1. SeenWorn(c, session[p])
    BY <1>2 DEF SeenWorn, Logging
  <2>2. session' = session
    BY DEF Begin
  <2> QED
    BY <1>1, <1>2, <1>4, <2>1, <2>2 DEF NoneFresh, SeenWorn, P
<1>9. KeysKnown'
  <2>1. KeyKnown(c)
    BY <1>2 DEF KeyKnown
  <2> QED
    BY <1>1, <1>2, <1>4, <2>1 DEF KeysKnown, KeyKnown, Known, ConfirmedOnly, P, Begin
<1> QED
  BY <1>5, <1>6, <1>7, <1>8, <1>9 DEF LoginInv

LEMMA UserKeeps ==
  ASSUME LoginInv, RemoteUser
  PROVE  LoginInv'
<1>1. ASSUME NEW p \in Profiles, Connect(p) PROVE LoginInv'
  BY <1>1, BeginKeeps DEF Connect, Fits, NewCall, Forcing, Logging, CallKinds
<1>2. ASSUME NEW p \in Profiles, Provide(p) PROVE LoginInv'
  BY <1>2, BeginKeeps DEF Provide, Fits, NewCall, Forcing, Logging, CallKinds
<1>3. ASSUME NEW p \in Profiles, Verify(p) PROVE LoginInv'
  BY <1>3, BeginKeeps DEF Verify, Fits, NewCall, Forcing, Logging, CallKinds
<1>4. ASSUME NEW p \in Profiles, Disconnect(p) \/ Reap(p) \/ Delete(p) \/ Forget(p) PROVE LoginInv'
  <2>1. PICK kind \in {"disconnect", "reap", "delete", "forget"} : Begin(kind, p, "drop", NoKey)
    BY <1>4 DEF Disconnect, Reap, Delete, Forget
  <2> QED
    BY <2>1, BeginKeeps DEF Fits, NewCall, Forcing, Logging, CallKinds
<1>5. ASSUME NEW p \in Profiles, NEW h \in Hosts, Update(p, h) PROVE LoginInv'
  BY <1>5, BeginKeeps DEF Update, Fits, NewCall, Forcing, Logging, CallKinds
<1>6. ASSUME NEW p \in Profiles, NEW k \in Keys, Trust(p, k) PROVE LoginInv'
  BY <1>6, BeginKeeps DEF Trust, Fits, NewCall, Forcing, Logging, CallKinds
<1>7. ASSUME NEW p \in Profiles, SetSecret(p) PROVE LoginInv'
  <2>1. RemoteTypeOK /\ CallsFit /\ LockHeld /\ NoneFresh /\ KeysKnown
    BY DEF LoginInv
  <2>2. rows' = [rows EXCEPT ![p] = [@ EXCEPT !.stored = TRUE]] /\ rows[p].there
    BY <1>7 DEF SetSecret
  <2>3. RemoteTypeOK'
    <3>1. rows' \in [Profiles -> Row \cup {NoRow}]
      BY <2>1, <2>2, RowsType
    <3> QED
      BY <1>7, <2>1, <3>1 DEF SetSecret, RemoteTypeOK
  <2>4. \A q \in Profiles : rows'[q].there => rows[q].there /\ rows'[q].pinned = rows[q].pinned
    BY <2>1, <2>2, RowsType DEF RemoteTypeOK, Row
  <2> QED
    BY <1>7, <2>1, <2>3, <2>4
       DEF LoginInv, CallsFit, LockHeld, NoneFresh, KeysKnown, ConfirmedOnly, Known, SetSecret, Mine, P
<1> QED
  BY <1>1, <1>2, <1>3, <1>4, <1>5, <1>6, <1>7 DEF RemoteUser

LEMMA HandleChanges ==
  ASSUME RemoteTypeOK, NEW p \in Profiles, session[p] # NoSession
  PROVE  /\ [session EXCEPT ![p].alive = FALSE] = [session EXCEPT ![p] = [@ EXCEPT !.alive = FALSE]]
         /\ [session EXCEPT ![p].age = "idle"] = [session EXCEPT ![p] = [@ EXCEPT !.age = "idle"]]
         /\ \A s \in {[session[p] EXCEPT !.alive = FALSE], [session[p] EXCEPT !.age = "idle"]} :
                /\ s \in Handle /\ s # NoSession /\ s.key = session[p].key /\ Worn(s)
<1>1. session[p] \in Handle
  BY DEF RemoteTypeOK
<1>2. \A s \in {[session[p] EXCEPT !.alive = FALSE], [session[p] EXCEPT !.age = "idle"]} :
          s \in Handle /\ s.key = session[p].key /\ (~s.alive \/ s.age # "fresh")
  BY <1>1 DEF Handle
<1> QED
  BY <1>2, NonesAreNone DEF Worn

LEMMA TimeKeeps ==
  ASSUME LoginInv, NEW p \in Profiles, SessionDies(p) \/ SessionIdles(p) \/ ChallengeAges(p)
  PROVE  LoginInv'
<1>1. RemoteTypeOK /\ CallsFit /\ LockHeld /\ NoneFresh /\ KeysKnown
  BY DEF LoginInv
<1>2. CASE SessionDies(p) \/ SessionIdles(p)
  <2>1. session[p] # NoSession
    BY <1>2 DEF SessionDies, SessionIdles
  <2>2. PICK s \in Handle : s # NoSession /\ s.key = session[p].key /\ Worn(s) /\ session' = [session EXCEPT ![p] = s]
    BY <1>1, <1>2, <2>1, HandleChanges DEF SessionDies, SessionIdles
  <2>3. \A q \in Profiles : session'[q] = IF q = p THEN s ELSE session[q]
    BY <1>1, <2>2 DEF RemoteTypeOK
  <2>4. RemoteTypeOK'
    BY <1>1, <1>2, <2>2, RemoteConstants DEF SessionDies, SessionIdles, Happens, Others, RemoteTypeOK
  <2>5. UNCHANGED <<rows, holder, remote, confirmed, exposed>>
    BY <1>2 DEF SessionDies, SessionIdles, Others
  <2>6. CallsFit' /\ LockHeld'
    BY <1>1, <2>5 DEF CallsFit, LockHeld, Mine, P
  <2>7. NoneFresh'
    <3>1. \A q \in Profiles : Worn(session[q]) => Worn(session'[q])
      BY <2>2, <2>3
    <3>2. \A j \in DOMAIN remote : remote[j].kind \in Logging => P(j) \in Profiles
      BY <1>1, NoCallFits, Caller DEF Logging
    <3> QED
      BY <1>1, <2>5, <3>1, <3>2 DEF NoneFresh, P
  <2>8. KeysKnown'
    BY <1>1, <2>1, <2>2, <2>3, <2>5 DEF KeysKnown, ConfirmedOnly, Known, P
  <2> QED
    BY <2>4, <2>6, <2>7, <2>8 DEF LoginInv
<1>3. CASE ChallengeAges(p)
  <2>1. challenge[p] \in Question
    BY <1>1, <1>3 DEF ChallengeAges, RemoteTypeOK
  <2>2. [challenge[p] EXCEPT !.fresh = FALSE] \in Question
    BY <2>1 DEF Question
  <2>3. challenge' = [challenge EXCEPT ![p] = [@ EXCEPT !.fresh = FALSE]]
    BY <1>3 DEF ChallengeAges
  <2>4. challenge' \in [Profiles -> Question \cup {Unasked}]
    BY <1>1, <2>2, <2>3 DEF RemoteTypeOK
  <2>5. RemoteTypeOK'
    BY <1>1, <1>3, <2>4, RemoteConstants DEF ChallengeAges, Happens, Others, RemoteTypeOK
  <2> QED
    BY <1>1, <1>3, <2>5
       DEF LoginInv, CallsFit, LockHeld, NoneFresh, KeysKnown, ConfirmedOnly, Known, ChallengeAges, Others, Mine, P
<1> QED
  BY <1>2, <1>3

LEMMA ServerKeeps ==
  ASSUME LoginInv, NEW h \in Hosts, SetUpAnew(h)
  PROVE  LoginInv'
<1>1. RemoteTypeOK /\ CallsFit /\ LockHeld /\ NoneFresh /\ KeysKnown
  BY DEF LoginInv
<1>2. RemoteTypeOK'
  BY <1>1, RemoteConstants DEF SetUpAnew, Happens, Others, RemoteTypeOK
<1> QED
  BY <1>1, <1>2
     DEF LoginInv, CallsFit, LockHeld, NoneFresh, KeysKnown, ConfirmedOnly, Known, SetUpAnew, Others, Mine, P

-----------------------------------------------------------------------------
(* The theorems about logins.                                              *)

LEMMA LoginInit == RemoteInit => LoginInv
<1> SUFFICES ASSUME RemoteInit PROVE LoginInv
  OBVIOUS
<1> USE RemoteConstants
<1>1. RemoteTypeOK
  <2>1. rows \in [Profiles -> Row \cup {NoRow}]
    <3>1. Hosts \X {1} \subseteq Keys
      BY DEF Keys
    <3>2. \A h \in Hosts : \A k \in {NoKey} \cup (Hosts \X {1}) :
             [there |-> TRUE, host |-> h, pinned |-> k, stored |-> TRUE] \in Row
      BY <3>1 DEF Row
    <3> QED
      BY <3>2 DEF RemoteInit
  <2>2. confirmed \subseteq Profiles \X (Keys \cup {NoKey})
    BY DEF RemoteInit, Keys
  <2>3. /\ secret \in [Profiles -> BOOLEAN]
        /\ session \in [Profiles -> Handle \cup {NoSession}]
        /\ challenge \in [Profiles -> Question \cup {Unasked}]
    BY DEF RemoteInit
  <2>4. status \in [Profiles -> Statuses] /\ told \in [Profiles -> Statuses]
    BY DEF RemoteInit, Statuses
  <2>5. holder \in [Profiles -> 0 .. MaxCalls] /\ serverKey \in [Hosts -> 1 .. MaxKeys]
    BY DEF RemoteInit, NoOne
  <2>6. remote \in Seq(RemoteCall \cup {NoCall}) /\ Len(remote) <= MaxCalls
    BY DEF RemoteInit
  <2>7. exposed = FALSE /\ tangled = FALSE /\ events = 0
    BY DEF RemoteInit
  <2>8. exposed \in BOOLEAN /\ tangled \in BOOLEAN
    BY <2>7, Zenon
  <2>9. events \in 0 .. MaxEvents
    BY <2>7
  <2> QED
    BY <2>1, <2>2, <2>3, <2>4, <2>5, <2>6, <2>8, <2>9 DEF RemoteTypeOK
<1>2. DOMAIN remote = {}
  BY DEF RemoteInit
<1>3. CallsFit /\ LockHeld /\ NoneFresh
  BY <1>2 DEF CallsFit, LockHeld, NoneFresh, RemoteInit, NoOne
<1>4. KeysKnown
  BY <1>2 DEF KeysKnown, RemoteInit, ConfirmedOnly, Known
<1> QED
  BY <1>1, <1>3, <1>4 DEF LoginInv

LEMMA CallKeeps ==
  ASSUME LoginInv, NEW i \in DOMAIN remote, remote[i] # NoCall, RemoteStep(i)
  PROVE  LoginInv'
<1>1. remote[i] \in RemoteCall
  BY Caller DEF LoginInv
<1> QED
  BY <1>1, LookKeeps, LockKeeps, AgainKeeps, CachedKeeps, PingKeeps, ReadRowKeeps, ObserveKeeps, JudgeKeeps,
     LoadSecretsKeeps, ShakeKeeps, InsertKeeps, AnsweredKeeps, TouchKeeps, DropHandleKeeps, MarkKeeps,
     TellKeeps, EditKeeps, ClearObservedKeeps, UnpinKeeps, WriteRowKeeps, RemoveRowKeeps, CompareKeeps,
     PinKeeps, SettleKeeps DEF RemoteStep

LEMMA LoginStep == LoginInv /\ [RemoteNext]_remoteVars => LoginInv'
<1> SUFFICES ASSUME LoginInv, [RemoteNext]_remoteVars PROVE LoginInv'
  OBVIOUS
<1>1. CASE RemoteUser
  BY <1>1, UserKeeps
<1>2. ASSUME NEW i \in DOMAIN remote, remote[i] # NoCall, RemoteStep(i) PROVE LoginInv'
  BY <1>2, CallKeeps
<1>3. ASSUME NEW p \in Profiles, SessionDies(p) \/ SessionIdles(p) \/ ChallengeAges(p) PROVE LoginInv'
  BY <1>3, TimeKeeps
<1>4. ASSUME NEW h \in Hosts, SetUpAnew(h) PROVE LoginInv'
  BY <1>4, ServerKeeps
<1>5. CASE UNCHANGED remoteVars
  BY <1>5 DEF LoginInv, RemoteTypeOK, CallsFit, LockHeld, NoneFresh, KeysKnown, ConfirmedOnly, Known, Mine, P, remoteVars
<1> QED
  BY <1>1, <1>2, <1>3, <1>4, <1>5 DEF RemoteNext

LEMMA LoginInvariant == RemoteSpec => []LoginInv
  BY LoginInit, LoginStep, PTL DEF RemoteSpec

LEMMA LoginGives == LoginInv => RemoteTypeOK /\ LocksBelongToCalls /\ ConfirmedOnly /\ NoSecondLogin
<1>1. LoginInv => RemoteTypeOK /\ LocksBelongToCalls
  BY DEF LoginInv, LockHeld, LocksBelongToCalls, Mine, Locked, Forcing
<1>2. LoginInv => ConfirmedOnly
  BY DEF LoginInv, KeysKnown
<1>3. LoginInv => NoSecondLogin
  BY DEF LoginInv, LockHeld, NoneFresh, NoSecondLogin, Locked, Forcing, Logging, Worn
<1> QED
  BY <1>1, <1>2, <1>3

\* Every variable of the connections keeps its type, and whoever holds the lock of a profile
\* is a call about it that is under way: no lock is left behind by a call that has ended.
THEOREM RemoteTypes == RemoteSpec => [](RemoteTypeOK /\ LocksBelongToCalls)
  BY LoginGives, LoginInvariant, PTL

\* Whatever edits, confirmations of other keys and changes of servers come between looking
\* at a key and logging in, a password goes only to a server whose key the user has
\* confirmed for this very profile, and only such a server is connected (verify_host_key,
\* connect_blocking).
THEOREM OnlyConfirmedServers == RemoteSpec => []ConfirmedOnly
  BY LoginGives, LoginInvariant, PTL

\* However many calls look for a session of a profile at once, only the one that holds its
\* lock logs in, and only when no session works (connect, session_for_profile).
THEOREM OneLoginAtATime == RemoteSpec => []NoSecondLogin
  BY LoginGives, LoginInvariant, PTL

-----------------------------------------------------------------------------
(* While no disconnect or edit crosses a connect, the status is true.      *)

LEMMA NotTangled ==
  ASSUME ~Tangled(remote), NEW i \in DOMAIN remote, NEW j \in DOMAIN remote,
         Undoing(remote[i]), Building(remote[j])
  PROVE  remote[i].profile # remote[j].profile
  BY DEF Tangled

LEMMA OneBuilds ==
  ASSUME LockHeld, NEW i \in DOMAIN remote, NEW j \in DOMAIN remote, i # j,
         remote[i].kind \in Logging, remote[i].at \in Locked,
         remote[j].kind \in Logging, remote[j].at \in Locked
  PROVE  remote[i].profile # remote[j].profile
  BY DEF LockHeld, P

\* A call that marks or tells either takes away or connects.
LEMMA WhoMarks ==
  ASSUME NEW d \in RemoteCall, Fits(d), d.at \in {"drop", "mark", "tell"}
  PROVE  Undoing(d) \/ (d.kind \in Logging /\ Building(d) /\ d.at \in Locked)
  BY DEF Fits, Undoing, Building, Logging, Locked, Forcing, RemoteCall, CallKinds

\* A step of call i is seen by its profile only.
LEMMA CalmStep ==
  ASSUME CalmInv, LoginInv', NEW i \in DOMAIN remote, remote[i] \in RemoteCall, NEW c, Moves(i, c),
         NEW q \in Profiles, q = P(i),
         \A p \in Profiles : p # q =>
             /\ rows'[p] = rows[p] /\ secret'[p] = secret[p] /\ session'[p] = session[p]
             /\ status'[p] = status[p] /\ told'[p] = told[p] /\ challenge'[p] = challenge[p],
         ~tangled /\ ~Tangled(remote) /\ Calm(q) => Calm(q)'
  PROVE  CalmInv'
<1>1. tangled' = (tangled \/ Tangled(remote')) /\ GoesOn(i, c)
  BY DEF Moves
<1>2. Tangled(remote)' => tangled'
  BY <1>1 DEF Tangled
<1>3. ASSUME ~tangled', NEW p \in Profiles PROVE Calm(p)'
  <2>1. ~tangled /\ ~Tangled(remote) /\ Calm(p)
    BY <1>1, <1>3 DEF CalmInv
  <2>2. CASE p = q
    BY <2>1, <2>2
  <2>3. CASE p # q
    <3>1. /\ DOMAIN remote' = DOMAIN remote
          /\ \A j \in DOMAIN remote : Mine(p, j)' <=> Mine(p, j)
          /\ \A j \in DOMAIN remote : Mine(p, j) => remote'[j] = remote[j]
      BY <1>1, <2>3, NoCallIsNone DEF GoesOn, CallBecomes, Mine, P
    <3>2. CallsCalm(p)'
      BY <2>1, <2>3, <3>1 DEF Calm, CallsCalm, CallCalm
    <3>3. StatusCalm(p)'
      BY <2>1, <2>3, <3>1 DEF Calm, StatusCalm
    <3>4. RowCalm(p)'
      BY <2>1, <2>3 DEF Calm, RowCalm
    <3> QED
      BY <3>2, <3>3, <3>4 DEF Calm
  <2> QED
    BY <2>2, <2>3
<1> QED
  BY <1>2, <1>3 DEF CalmInv

\* The calls stay calm if the others do and the one that steps is.
LEMMA CallsStayCalm ==
  ASSUME NEW i \in DOMAIN remote, remote[i] \in RemoteCall, NEW c, GoesOn(i, c), NEW p,
         c # NoCall => CallCalm(c, p)',
         \A j \in DOMAIN remote : j # i /\ Mine(p, j) => CallCalm(remote[j], p)'
  PROVE  CallsCalm(p)'
<1> SUFFICES ASSUME NEW j \in DOMAIN remote', Mine(p, j)' PROVE CallCalm(remote[j], p)'
  BY DEF CallsCalm
<1>1. CASE j = i
  <2>1. remote'[j] = c /\ c # NoCall
    BY <1>1 DEF GoesOn, CallBecomes, Mine
  <2> QED
    BY <2>1 DEF CallCalm, Undoing, OutcomeOf
<1>2. CASE j # i
  BY <1>2 DEF GoesOn, CallBecomes, Mine
<1> QED
  BY <1>1, <1>2

\* A step that changes nothing but calls and locks.
LEMMA CalmQuiet ==
  ASSUME CalmInv, LoginInv', NEW i \in DOMAIN remote, remote[i] \in RemoteCall, NEW c, Moves(i, c),
         UNCHANGED <<rows, secret, session, status, told, challenge>>,
         remote[i].at \notin {"mark", "tell"},
         ~tangled /\ CallCalm(remote[i], P(i)) /\ RowCalm(P(i)) /\ c # NoCall => CallCalm(c, P(i))
  PROVE  CalmInv'
<1>1. GoesOn(i, c)
  BY DEF Moves
<1>2. PICK q \in Profiles : q = P(i)
  BY Caller, NoCallIsNone DEF CalmInv, LoginInv
<1>3. ASSUME ~tangled, Calm(q) PROVE Calm(q)'
  <2>1. Mine(q, i)
    BY <1>2, NoCallIsNone DEF Mine, P
  <2>2. c # NoCall => CallCalm(c, q)
    BY <1>2, <1>3, <2>1 DEF Calm, CallsCalm
  <2>3. c # NoCall => CallCalm(c, q)'
    BY <2>2 DEF CallCalm
  <2>4. \A j \in DOMAIN remote : j # i /\ Mine(q, j) => CallCalm(remote[j], q)'
    BY <1>1, <1>3 DEF Calm, CallsCalm, CallCalm, GoesOn, CallBecomes
  <2>5. CallsCalm(q)'
    BY <1>1, <2>3, <2>4, CallsStayCalm
  <2>6. StatusCalm(q)'
    BY <1>1, <1>3 DEF Calm, StatusCalm, GoesOn, CallBecomes, Mine
  <2>7. RowCalm(q)'
    BY <1>3 DEF Calm, RowCalm
  <2> QED
    BY <2>5, <2>6, <2>7 DEF Calm
<1> QED
  BY <1>2, <1>3, CalmStep

LEMMA LookCalm ==
  ASSUME CalmInv, LoginInv', NEW i \in DOMAIN remote, remote[i] \in RemoteCall, Look(i)
  PROVE  CalmInv'
<1>1. RemoteTypeOK /\ P(i) \in Profiles /\ P(i) = remote[i].profile /\ Fits(remote[i])
  BY CallerFacts DEF CalmInv
<1>2. PICK c \in RemoteCall \cup {NoCall} :
        /\ c = On(i, IF Live(session[P(i)]) THEN "done" ELSE "lock")
        /\ Moves(i, c)
  BY LookMoves DEF CalmInv
<1>3. ASSUME CallCalm(remote[i], P(i)), RowCalm(P(i)), c # NoCall PROVE CallCalm(c, P(i))
  BY <1>1, <1>2, <1>3 DEF Look, At, On, OnWith, FailedCall, CallCalm, RowCalm, Undoing, OutcomeOf, Logging, Fits, RemoteCall, CallKinds, Forcing
<1>4. remote[i].at \notin {"mark", "tell"} /\ UNCHANGED <<rows, secret, session, status, told, challenge>>
  BY DEF Look, At
<1> QED
  BY <1>2, <1>3, <1>4, CalmQuiet

LEMMA LockCalm ==
  ASSUME CalmInv, LoginInv', NEW i \in DOMAIN remote, remote[i] \in RemoteCall, Lock(i)
  PROVE  CalmInv'
<1>1. RemoteTypeOK /\ P(i) \in Profiles /\ P(i) = remote[i].profile /\ Fits(remote[i])
  BY CallerFacts DEF CalmInv
<1>2. PICK c \in RemoteCall \cup {NoCall} :
        /\ c = On(i, IF remote[i].kind = "connect" THEN "again" ELSE "cached")
        /\ Moves(i, c)
  BY LockMoves DEF CalmInv
<1>3. ASSUME CallCalm(remote[i], P(i)), RowCalm(P(i)), c # NoCall PROVE CallCalm(c, P(i))
  BY <1>1, <1>2, <1>3 DEF Lock, At, On, OnWith, FailedCall, CallCalm, RowCalm, Undoing, OutcomeOf, Logging, Fits, RemoteCall, CallKinds, Forcing
<1>4. remote[i].at \notin {"mark", "tell"} /\ UNCHANGED <<rows, secret, session, status, told, challenge>>
  BY DEF Lock, At
<1> QED
  BY <1>2, <1>3, <1>4, CalmQuiet

LEMMA AgainCalm ==
  ASSUME CalmInv, LoginInv', NEW i \in DOMAIN remote, remote[i] \in RemoteCall, Again(i)
  PROVE  CalmInv'
<1>1. RemoteTypeOK /\ P(i) \in Profiles /\ P(i) = remote[i].profile /\ Fits(remote[i])
  BY CallerFacts DEF CalmInv
<1>2. PICK c \in RemoteCall \cup {NoCall} :
        /\ c = On(i, IF Live(session[P(i)]) THEN "done" ELSE "row")
        /\ Moves(i, c)
  BY AgainMoves DEF CalmInv
<1>3. ASSUME CallCalm(remote[i], P(i)), RowCalm(P(i)), c # NoCall PROVE CallCalm(c, P(i))
  BY <1>1, <1>2, <1>3 DEF Again, At, On, OnWith, FailedCall, CallCalm, RowCalm, Undoing, OutcomeOf, Logging, Fits, RemoteCall, CallKinds, Forcing
<1>4. remote[i].at \notin {"mark", "tell"} /\ UNCHANGED <<rows, secret, session, status, told, challenge>>
  BY DEF Again, At
<1> QED
  BY <1>2, <1>3, <1>4, CalmQuiet

LEMMA CachedCalm ==
  ASSUME CalmInv, LoginInv', NEW i \in DOMAIN remote, remote[i] \in RemoteCall, Cached(i)
  PROVE  CalmInv'
<1>1. RemoteTypeOK /\ P(i) \in Profiles /\ P(i) = remote[i].profile /\ Fits(remote[i])
  BY CallerFacts DEF CalmInv
<1>2. PICK c \in RemoteCall \cup {NoCall} :
        /\ c = On(i, IF session[P(i)] = NoSession \/ session[P(i)].age = "idle" THEN "row" ELSE "ping")
        /\ Moves(i, c)
  BY CachedMoves DEF CalmInv
<1>3. ASSUME CallCalm(remote[i], P(i)), RowCalm(P(i)), c # NoCall PROVE CallCalm(c, P(i))
  BY <1>1, <1>2, <1>3 DEF Cached, At, On, OnWith, FailedCall, CallCalm, RowCalm, Undoing, OutcomeOf, Logging, Fits, RemoteCall, CallKinds, Forcing
<1>4. remote[i].at \notin {"mark", "tell"} /\ UNCHANGED <<rows, secret, session, status, told, challenge>>
  BY DEF Cached, At
<1> QED
  BY <1>2, <1>3, <1>4, CalmQuiet

LEMMA PingCalm ==
  ASSUME CalmInv, LoginInv', NEW i \in DOMAIN remote, remote[i] \in RemoteCall, Ping(i)
  PROVE  CalmInv'
<1>1. RemoteTypeOK /\ P(i) \in Profiles /\ P(i) = remote[i].profile /\ Fits(remote[i])
  BY CallerFacts DEF CalmInv
<1>2. PICK c \in RemoteCall \cup {NoCall} :
        /\ \/ c = On(i, "use") /\ (session[P(i)] # NoSession => session[P(i)].alive) /\ Leave(i, "use")
           \/ c = OnWith(i, "drop", "disconnected", "row") /\ (session[P(i)] # NoSession => ~session[P(i)].alive)
                           /\ holder' = holder
        /\ Moves(i, c)
  BY PingMoves DEF CalmInv
<1>3. ASSUME CallCalm(remote[i], P(i)), RowCalm(P(i)), c # NoCall PROVE CallCalm(c, P(i))
  BY <1>1, <1>2, <1>3 DEF Ping, At, On, OnWith, FailedCall, CallCalm, RowCalm, Undoing, OutcomeOf, Logging, Fits, RemoteCall, CallKinds, Forcing
<1>4. remote[i].at \notin {"mark", "tell"} /\ UNCHANGED <<rows, secret, session, status, told, challenge>>
  BY DEF Ping, At
<1> QED
  BY <1>2, <1>3, <1>4, CalmQuiet

LEMMA ReadRowCalm ==
  ASSUME CalmInv, LoginInv', NEW i \in DOMAIN remote, remote[i] \in RemoteCall, ReadRow(i)
  PROVE  CalmInv'
<1>1. RemoteTypeOK /\ P(i) \in Profiles /\ P(i) = remote[i].profile /\ Fits(remote[i])
  BY CallerFacts DEF CalmInv
<1>2. PICK c \in RemoteCall \cup {NoCall} :
        /\ \/ rows[P(i)].there /\ c = [remote[i] EXCEPT !.at = "observe", !.row = rows[P(i)]]
           \/ ~rows[P(i)].there /\ c = NoCall
        /\ Moves(i, c)
  BY ReadRowMoves DEF CalmInv
<1>3. ASSUME CallCalm(remote[i], P(i)), RowCalm(P(i)), c # NoCall PROVE CallCalm(c, P(i))
  BY <1>1, <1>2, <1>3 DEF ReadRow, At, On, OnWith, FailedCall, CallCalm, RowCalm, Undoing, OutcomeOf, Logging, Fits, RemoteCall, CallKinds, Forcing
<1>4. remote[i].at \notin {"mark", "tell"} /\ UNCHANGED <<rows, secret, session, status, told, challenge>>
  BY DEF ReadRow, At
<1> QED
  BY <1>2, <1>3, <1>4, CalmQuiet

LEMMA ObserveCalm ==
  ASSUME CalmInv, LoginInv', NEW i \in DOMAIN remote, remote[i] \in RemoteCall, Observe(i)
  PROVE  CalmInv'
<1>1. RemoteTypeOK /\ P(i) \in Profiles /\ P(i) = remote[i].profile /\ Fits(remote[i])
  BY CallerFacts DEF CalmInv
<1>2. PICK c \in RemoteCall \cup {NoCall} :
        /\ \/ c = [remote[i] EXCEPT !.at = "judge", !.key = Presented(remote[i].row.host)]
           \/ c = FailedCall(i)
        /\ Moves(i, c)
  BY ObserveMoves DEF CalmInv
<1>3. ASSUME CallCalm(remote[i], P(i)), RowCalm(P(i)), c # NoCall PROVE CallCalm(c, P(i))
  <2>1. CASE c = FailedCall(i)
    BY <1>1, <1>3, <2>1 DEF Observe, At, OnWith, FailedCall, CallCalm, Undoing, OutcomeOf, Fits, RemoteCall, CallKinds, Forcing
  <2>2. CASE c # FailedCall(i)
    <3>1. c = [remote[i] EXCEPT !.at = "judge", !.key = Presented(remote[i].row.host)]
      BY <1>2, <2>2
    <3>2. c.at = "judge" /\ rows[P(i)].there
      BY <1>1, <1>3, <3>1 DEF Observe, At, CallCalm, RemoteCall
    <3> QED
      BY <3>2 DEF CallCalm, Undoing
  <2> QED
    BY <2>1, <2>2
<1>4. remote[i].at \notin {"mark", "tell"} /\ UNCHANGED <<rows, secret, session, status, told, challenge>>
  BY DEF Observe, At
<1> QED
  BY <1>2, <1>3, <1>4, CalmQuiet

LEMMA LoadSecretsCalm ==
  ASSUME CalmInv, LoginInv', NEW i \in DOMAIN remote, remote[i] \in RemoteCall, LoadSecrets(i)
  PROVE  CalmInv'
<1>1. RemoteTypeOK /\ P(i) \in Profiles /\ P(i) = remote[i].profile /\ Fits(remote[i])
  BY CallerFacts DEF CalmInv
<1>2. PICK c \in RemoteCall \cup {NoCall} :
        /\ \/ c = On(i, "shake") /\ secret[P(i)]
           \/ c = FailedCall(i)
        /\ Moves(i, c)
  BY LoadSecretsMoves DEF CalmInv
<1>3. ASSUME CallCalm(remote[i], P(i)), RowCalm(P(i)), c # NoCall PROVE CallCalm(c, P(i))
  BY <1>1, <1>2, <1>3 DEF LoadSecrets, At, On, OnWith, FailedCall, CallCalm, RowCalm, Undoing, OutcomeOf, Logging, Fits, RemoteCall, CallKinds, Forcing
<1>4. remote[i].at \notin {"mark", "tell"} /\ UNCHANGED <<rows, secret, session, status, told, challenge>>
  BY DEF LoadSecrets, At
<1> QED
  BY <1>2, <1>3, <1>4, CalmQuiet

LEMMA ShakeCalm ==
  ASSUME CalmInv, LoginInv', NEW i \in DOMAIN remote, remote[i] \in RemoteCall, Shake(i)
  PROVE  CalmInv'
<1>1. RemoteTypeOK /\ P(i) \in Profiles /\ P(i) = remote[i].profile /\ Fits(remote[i])
  BY CallerFacts DEF CalmInv
<1>2. PICK c \in RemoteCall \cup {NoCall} :
        /\ \/ /\ Presented(remote[i].row.host) = remote[i].row.pinned
                 /\ c = [remote[i] EXCEPT !.at = "insert", !.key = remote[i].row.pinned]
           \/ c = FailedCall(i)
        /\ Moves(i, c)
  BY ShakeMoves DEF CalmInv
<1>3. ASSUME CallCalm(remote[i], P(i)), RowCalm(P(i)), c # NoCall PROVE CallCalm(c, P(i))
  BY <1>1, <1>2, <1>3 DEF Shake, At, On, OnWith, FailedCall, CallCalm, RowCalm, Undoing, OutcomeOf, Logging, Fits, RemoteCall, CallKinds, Forcing
<1>4. remote[i].at \notin {"mark", "tell"} /\ UNCHANGED <<rows, secret, session, status, told, challenge>>
  BY DEF Shake, At
<1> QED
  BY <1>2, <1>3, <1>4, CalmQuiet

LEMMA EditCalm ==
  ASSUME CalmInv, LoginInv', NEW i \in DOMAIN remote, remote[i] \in RemoteCall, Edit(i)
  PROVE  CalmInv'
<1>1. RemoteTypeOK /\ P(i) \in Profiles /\ P(i) = remote[i].profile /\ Fits(remote[i])
  BY CallerFacts DEF CalmInv
<1>2. PICK c \in RemoteCall \cup {NoCall} :
        /\ c = NoCall \/ c = On(i, "drop")
        /\ Moves(i, c)
  BY EditMoves DEF CalmInv
<1>3. ASSUME CallCalm(remote[i], P(i)), RowCalm(P(i)), c # NoCall PROVE CallCalm(c, P(i))
  BY <1>1, <1>2, <1>3 DEF Edit, At, On, OnWith, FailedCall, CallCalm, RowCalm, Undoing, OutcomeOf, Logging, Fits, RemoteCall, CallKinds, Forcing
<1>4. remote[i].at \notin {"mark", "tell"} /\ UNCHANGED <<rows, secret, session, status, told, challenge>>
  BY DEF Edit, At
<1> QED
  BY <1>2, <1>3, <1>4, CalmQuiet

LEMMA CompareCalm ==
  ASSUME CalmInv, LoginInv', NEW i \in DOMAIN remote, remote[i] \in RemoteCall, Compare(i)
  PROVE  CalmInv'
<1>1. RemoteTypeOK /\ P(i) \in Profiles /\ P(i) = remote[i].profile /\ Fits(remote[i])
  BY CallerFacts DEF CalmInv
<1>2. PICK c \in RemoteCall \cup {NoCall} :
        /\ \/ c = NoCall
           \/ c = On(i, "pin") /\ rows[P(i)].there /\ Answers(challenge[P(i)], rows[P(i)], remote[i].arg)
        /\ Moves(i, c)
  BY CompareMoves DEF CalmInv
<1>3. ASSUME CallCalm(remote[i], P(i)), RowCalm(P(i)), c # NoCall PROVE CallCalm(c, P(i))
  BY <1>1, <1>2, <1>3 DEF Compare, Answers, At, On, OnWith, FailedCall, CallCalm, RowCalm, Undoing, OutcomeOf, Logging, Fits, RemoteCall, CallKinds, Forcing
<1>4. remote[i].at \notin {"mark", "tell"} /\ UNCHANGED <<rows, secret, session, status, told, challenge>>
  BY DEF Compare, At
<1> QED
  BY <1>2, <1>3, <1>4, CalmQuiet

LEMMA JudgeCalm ==
  ASSUME CalmInv, LoginInv', NEW i \in DOMAIN remote, remote[i] \in RemoteCall, Judge(i)
  PROVE  CalmInv'
<1>1. /\ RemoteTypeOK /\ CallsFit /\ LockHeld
      /\ P(i) \in Profiles /\ P(i) = remote[i].profile /\ Fits(remote[i])
  BY CallerFacts DEF CalmInv
<1>2. PICK c \in RemoteCall \cup {NoCall} :
        /\ \/ remote[i].row.pinned = remote[i].key /\ c = On(i, IF remote[i].kind = "verify" THEN "done" ELSE "secrets")
           \/ remote[i].row.pinned # remote[i].key /\ c = FailedCall(i)
        /\ Moves(i, c)
  BY JudgeMoves DEF CalmInv
<1>3. PICK q \in Profiles : q = P(i)
  BY <1>1
<1>4. challenge'[q] # Unasked => challenge'[q].key[1] = challenge'[q].host
  BY <1>1, <1>3 DEF Judge, RemoteTypeOK, At, Fits
<1>5. UNCHANGED <<rows, secret, session, status, told>>
  BY DEF Judge
<1>6. ASSUME ~tangled, ~Tangled(remote), Calm(q) PROVE Calm(q)'
  <2>1. Mine(q, i) /\ CallCalm(remote[i], q) /\ GoesOn(i, c)
    BY <1>2, <1>3, <1>6, NoCallIsNone DEF Mine, P, Calm, CallsCalm, Moves
  <2>2. ASSUME NEW j \in DOMAIN remote, j # i, Mine(q, j) PROVE CallCalm(remote[j], q)'
    <3>1. /\ remote'[j] = remote[j] /\ remote[j] \in RemoteCall /\ remote[j].profile = q
          /\ CallCalm(remote[j], q) /\ Fits(remote[j])
      BY <1>1, <1>6, <2>1, <2>2, Caller DEF GoesOn, CallBecomes, Mine, Calm, CallsCalm, CallsFit
    <3>2. ~Undoing(remote[j])
      BY <1>1, <1>3, <1>6, <2>2, <3>1, NotTangled DEF Building, Judge, At, Fits, RemoteCall, CallKinds, Forcing, Logging
    <3> QED
      BY <1>1, <1>4, <1>5, <1>6, <2>1, <2>2, <3>1, <3>2, WhoMarks DEF CallCalm, OutcomeOf, Undoing, Building, Locked, Forcing, Logging, Fits, RemoteCall, CallKinds
  <2>3. c # NoCall => CallCalm(c, q)'
    <3>1. CASE c = FailedCall(i)
      BY <1>1, <1>3, <2>1, <3>1 DEF Judge, At, OnWith, FailedCall, CallCalm, Undoing, OutcomeOf, Fits, RemoteCall, CallKinds, Forcing
    <3>2. CASE c # FailedCall(i)
      <4>1. c # NoCall => c.at = "secrets"
        BY <1>2, <3>2 DEF On, RemoteCall
      <4>2. rows'[q].there
        BY <1>5, <2>1 DEF Judge, At, CallCalm
      <4> QED
        BY <4>1, <4>2 DEF CallCalm, Undoing
    <3> QED
      BY <3>1, <3>2
  <2>4. CallsCalm(q)'
    BY <2>1, <2>2, <2>3, CallsStayCalm
  <2>5. StatusCalm(q)'
    BY <1>1, <1>2, <1>3, <1>4, <1>5, <1>6, <2>1 DEF Judge, At, Calm, StatusCalm, CallCalm, GoesOn, CallBecomes, Mine, On, OnWith, OutcomeOf, RemoteCall
  <2>6. RowCalm(q)'
    BY <1>1, <1>3, <1>4, <1>5, <1>6, <2>1 DEF Judge, At, Calm, RowCalm, CallCalm, Undoing, Fits, RemoteCall, CallKinds, Forcing, Logging
  <2> QED
    BY <2>4, <2>5, <2>6 DEF Calm
<1>7. \A p \in Profiles : p # q =>
         /\ rows'[p] = rows[p] /\ secret'[p] = secret[p] /\ session'[p] = session[p]
         /\ status'[p] = status[p] /\ told'[p] = told[p] /\ challenge'[p] = challenge[p]
  BY <1>1, <1>3, <1>5 DEF Judge, RemoteTypeOK
<1> QED
  BY <1>2, <1>3, <1>6, <1>7, CalmStep

LEMMA InsertCalm ==
  ASSUME CalmInv, LoginInv', NEW i \in DOMAIN remote, remote[i] \in RemoteCall, Insert(i)
  PROVE  CalmInv'
<1>1. /\ RemoteTypeOK /\ CallsFit /\ LockHeld
      /\ P(i) \in Profiles /\ P(i) = remote[i].profile /\ Fits(remote[i])
  BY CallerFacts DEF CalmInv
<1>2. PICK c \in RemoteCall \cup {NoCall} :
        /\ c = OnWith(i, "mark", "connected", "answered")
        /\ Moves(i, c)
  BY InsertMoves DEF CalmInv
<1>3. PICK q \in Profiles : q = P(i)
  BY <1>1
<1>4. session'[q] # NoSession
  <2>1. [key |-> remote[i].key, alive |-> TRUE, age |-> "fresh"] # NoSession
    BY <1>1, NonesAreNone DEF Insert, At, Fits, Handle
  <2> QED
    BY <1>1, <1>3, <2>1 DEF Insert, RemoteTypeOK
<1>5. UNCHANGED <<rows, secret, status, told, challenge>>
  BY DEF Insert
<1>6. ASSUME ~tangled, ~Tangled(remote), Calm(q) PROVE Calm(q)'
  <2>1. Mine(q, i) /\ CallCalm(remote[i], q) /\ GoesOn(i, c)
    BY <1>2, <1>3, <1>6, NoCallIsNone DEF Mine, P, Calm, CallsCalm, Moves
  <2>2. ASSUME NEW j \in DOMAIN remote, j # i, Mine(q, j) PROVE CallCalm(remote[j], q)'
    <3>1. /\ remote'[j] = remote[j] /\ remote[j] \in RemoteCall /\ remote[j].profile = q
          /\ CallCalm(remote[j], q) /\ Fits(remote[j])
      BY <1>1, <1>6, <2>1, <2>2, Caller DEF GoesOn, CallBecomes, Mine, Calm, CallsCalm, CallsFit
    <3>2. ~Undoing(remote[j])
      BY <1>1, <1>3, <1>6, <2>2, <3>1, NotTangled DEF Building, Insert, At, Fits, RemoteCall, CallKinds, Forcing, Logging
    <3>3. ~(remote[j].kind \in Logging /\ remote[j].at \in Locked)
      BY <1>1, <1>3, <2>2, <3>1, OneBuilds DEF Insert, At, Fits, RemoteCall, CallKinds, Forcing, Logging, Locked
    <3> QED
      BY <1>1, <1>4, <1>5, <1>6, <2>1, <2>2, <3>1, <3>2, <3>3, WhoMarks DEF CallCalm, OutcomeOf, Undoing, Building, Locked, Forcing, Logging, Fits, RemoteCall, CallKinds
  <2>3. c # NoCall => CallCalm(c, q)'
    BY <1>1, <1>2, <1>3, <1>4, <1>5, <1>6, <2>1 DEF Insert, At, On, OnWith, FailedCall, CallCalm, Calm, RowCalm, Undoing, OutcomeOf, Logging, Fits, RemoteCall, CallKinds, Forcing
  <2>4. CallsCalm(q)'
    BY <2>1, <2>2, <2>3, CallsStayCalm
  <2>5. StatusCalm(q)'
    <3>1. c.at = "mark" /\ Mine(q, i)' /\ remote'[i] = c
      <4>1. c.at = "mark"
        BY <1>2 DEF OnWith, RemoteCall
      <4>2. c # NoCall /\ c.profile = q /\ CallBecomes(i, c)
        BY <1>1, <1>3, <2>1, <4>1, NoCallFits DEF GoesOn
      <4> QED
        BY <2>1, <4>1, <4>2 DEF CallBecomes, Mine
    <3> QED
      BY <3>1 DEF StatusCalm, Mine
  <2>6. RowCalm(q)'
    BY <1>1, <1>3, <1>4, <1>5, <1>6, <2>1 DEF Insert, At, Calm, RowCalm, CallCalm, Undoing, Fits, RemoteCall, CallKinds, Forcing, Logging
  <2> QED
    BY <2>4, <2>5, <2>6 DEF Calm
<1>7. \A p \in Profiles : p # q =>
         /\ rows'[p] = rows[p] /\ secret'[p] = secret[p] /\ session'[p] = session[p]
         /\ status'[p] = status[p] /\ told'[p] = told[p] /\ challenge'[p] = challenge[p]
  BY <1>1, <1>3, <1>5 DEF Insert, RemoteTypeOK
<1> QED
  BY <1>2, <1>3, <1>6, <1>7, CalmStep

LEMMA AnsweredCalm ==
  ASSUME CalmInv, LoginInv', NEW i \in DOMAIN remote, remote[i] \in RemoteCall, Answered(i)
  PROVE  CalmInv'
<1>1. /\ RemoteTypeOK /\ CallsFit /\ LockHeld
      /\ P(i) \in Profiles /\ P(i) = remote[i].profile /\ Fits(remote[i])
  BY CallerFacts DEF CalmInv
<1>2. PICK c \in RemoteCall \cup {NoCall} :
        /\ c = NoCall \/ (c = On(i, "use") /\ remote[i].kind = "provider")
        /\ Moves(i, c)
  BY AnsweredMoves DEF CalmInv
<1>3. PICK q \in Profiles : q = P(i)
  BY <1>1
<1>4. /\ rows'[q].there = rows[q].there
      /\ rows[q].there => /\ rows'[q].host = rows[q].host /\ rows'[q].pinned = rows[q].pinned
                          /\ rows'[q].stored = rows[q].stored \/ (rows'[q].stored = TRUE /\ remote[i].outcome = "connected")
  <2>1. CASE rows' = rows
    BY <2>1
  <2>2. CASE rows' # rows
    <3>1. rows' = [rows EXCEPT ![q] = [@ EXCEPT !.stored = TRUE]] /\ rows[q] \in Row /\ remote[i].outcome = "connected"
      BY <1>1, <1>3, <2>2, RowsType DEF Answered
    <3>2. rows'[q] = [rows[q] EXCEPT !.stored = TRUE]
      BY <1>1, <3>1 DEF RemoteTypeOK
    <3> QED
      BY <3>1, <3>2 DEF Row
  <2> QED
    BY <2>1, <2>2
<1>5. UNCHANGED <<secret, session, status, told, challenge>>
  BY DEF Answered
<1>6. ASSUME ~tangled, ~Tangled(remote), Calm(q) PROVE Calm(q)'
  <2>1. Mine(q, i) /\ CallCalm(remote[i], q) /\ GoesOn(i, c)
    BY <1>2, <1>3, <1>6, NoCallIsNone DEF Mine, P, Calm, CallsCalm, Moves
  <2>2. ASSUME NEW j \in DOMAIN remote, j # i, Mine(q, j) PROVE CallCalm(remote[j], q)'
    <3>1. /\ remote'[j] = remote[j] /\ remote[j] \in RemoteCall /\ remote[j].profile = q
          /\ CallCalm(remote[j], q) /\ Fits(remote[j])
      BY <1>1, <1>6, <2>1, <2>2, Caller DEF GoesOn, CallBecomes, Mine, Calm, CallsCalm, CallsFit
    <3>2. ~Undoing(remote[j])
      BY <1>1, <1>3, <1>6, <2>2, <3>1, NotTangled DEF Building, Answered, At, Fits, RemoteCall, CallKinds, Forcing, Logging
    <3>3. ~(remote[j].kind \in Logging /\ remote[j].at \in Locked)
      BY <1>1, <1>3, <2>2, <3>1, OneBuilds DEF Answered, At, Fits, RemoteCall, CallKinds, Forcing, Logging, Locked
    <3> QED
      BY <1>1, <1>4, <1>5, <1>6, <2>1, <2>2, <3>1, <3>2, <3>3, WhoMarks DEF CallCalm, OutcomeOf, Undoing, Building, Locked, Forcing, Logging, Fits, RemoteCall, CallKinds
  <2>3. c # NoCall => CallCalm(c, q)'
    BY <1>1, <1>2, <1>3, <1>4, <1>5, <1>6, <2>1 DEF Answered, At, On, OnWith, FailedCall, CallCalm, Calm, RowCalm, Undoing, OutcomeOf, Logging, Fits, RemoteCall, CallKinds, Forcing
  <2>4. CallsCalm(q)'
    BY <2>1, <2>2, <2>3, CallsStayCalm
  <2>5. StatusCalm(q)'
    BY <1>1, <1>2, <1>3, <1>4, <1>5, <1>6, <2>1 DEF Answered, At, Calm, StatusCalm, CallCalm, GoesOn, CallBecomes, Mine, On, OnWith, OutcomeOf, RemoteCall
  <2>6. RowCalm(q)'
    BY <1>1, <1>3, <1>4, <1>5, <1>6, <2>1 DEF Answered, At, Calm, RowCalm, CallCalm, Undoing, Fits, RemoteCall, CallKinds, Forcing, Logging
  <2> QED
    BY <2>4, <2>5, <2>6 DEF Calm
<1>7. \A p \in Profiles : p # q =>
         /\ rows'[p] = rows[p] /\ secret'[p] = secret[p] /\ session'[p] = session[p]
         /\ status'[p] = status[p] /\ told'[p] = told[p] /\ challenge'[p] = challenge[p]
  BY <1>1, <1>3, <1>5 DEF Answered, RemoteTypeOK
<1> QED
  BY <1>2, <1>3, <1>6, <1>7, CalmStep

LEMMA TouchCalm ==
  ASSUME CalmInv, LoginInv', NEW i \in DOMAIN remote, remote[i] \in RemoteCall, Touch(i)
  PROVE  CalmInv'
<1>1. /\ RemoteTypeOK /\ CallsFit /\ LockHeld
      /\ P(i) \in Profiles /\ P(i) = remote[i].profile /\ Fits(remote[i])
  BY CallerFacts DEF CalmInv
<1>2. PICK c \in RemoteCall \cup {NoCall} :
        /\ c = NoCall
        /\ Moves(i, c)
  BY TouchMoves DEF CalmInv
<1>3. PICK q \in Profiles : q = P(i)
  BY <1>1
<1>4. session'[q] # NoSession <=> session[q] # NoSession
  BY <1>1, <1>3, TouchedSession DEF RemoteTypeOK
<1>5. UNCHANGED <<rows, secret, status, told, challenge>>
  BY DEF Touch
<1>6. ASSUME ~tangled, ~Tangled(remote), Calm(q) PROVE Calm(q)'
  <2>1. Mine(q, i) /\ CallCalm(remote[i], q) /\ GoesOn(i, c)
    BY <1>2, <1>3, <1>6, NoCallIsNone DEF Mine, P, Calm, CallsCalm, Moves
  <2>2. ASSUME NEW j \in DOMAIN remote, j # i, Mine(q, j) PROVE CallCalm(remote[j], q)'
    <3>1. /\ remote'[j] = remote[j] /\ remote[j] \in RemoteCall /\ remote[j].profile = q
          /\ CallCalm(remote[j], q) /\ Fits(remote[j])
      BY <1>1, <1>6, <2>1, <2>2, Caller DEF GoesOn, CallBecomes, Mine, Calm, CallsCalm, CallsFit
    <3> QED
      BY <1>1, <1>4, <1>5, <1>6, <2>1, <2>2, <3>1, WhoMarks DEF CallCalm, OutcomeOf, Undoing, Building, Locked, Forcing, Logging, Fits, RemoteCall, CallKinds
  <2>3. c # NoCall => CallCalm(c, q)'
    BY <1>1, <1>2, <1>3, <1>4, <1>5, <1>6, <2>1 DEF Touch, At, On, OnWith, FailedCall, CallCalm, Calm, RowCalm, Undoing, OutcomeOf, Logging, Fits, RemoteCall, CallKinds, Forcing
  <2>4. CallsCalm(q)'
    BY <2>1, <2>2, <2>3, CallsStayCalm
  <2>5. StatusCalm(q)'
    BY <1>1, <1>2, <1>3, <1>4, <1>5, <1>6, <2>1 DEF Touch, At, Calm, StatusCalm, CallCalm, GoesOn, CallBecomes, Mine, On, OnWith, OutcomeOf, RemoteCall
  <2>6. RowCalm(q)'
    BY <1>1, <1>3, <1>4, <1>5, <1>6, <2>1 DEF Touch, At, Calm, RowCalm, CallCalm, Undoing, Fits, RemoteCall, CallKinds, Forcing, Logging
  <2> QED
    BY <2>4, <2>5, <2>6 DEF Calm
<1>7. \A p \in Profiles : p # q =>
         /\ rows'[p] = rows[p] /\ secret'[p] = secret[p] /\ session'[p] = session[p]
         /\ status'[p] = status[p] /\ told'[p] = told[p] /\ challenge'[p] = challenge[p]
  BY <1>1, <1>3, <1>5 DEF Touch, RemoteTypeOK
<1> QED
  BY <1>2, <1>3, <1>6, <1>7, CalmStep

LEMMA DropHandleCalm ==
  ASSUME CalmInv, LoginInv', NEW i \in DOMAIN remote, remote[i] \in RemoteCall, DropHandle(i)
  PROVE  CalmInv'
<1>1. /\ RemoteTypeOK /\ CallsFit /\ LockHeld
      /\ P(i) \in Profiles /\ P(i) = remote[i].profile /\ Fits(remote[i])
  BY CallerFacts DEF CalmInv
<1>2. PICK c \in RemoteCall \cup {NoCall} :
        /\ c = On(i, "mark")
        /\ Moves(i, c)
  BY DropHandleMoves DEF CalmInv
<1>3. PICK q \in Profiles : q = P(i)
  BY <1>1
<1>4. session'[q] = NoSession
  BY <1>1, <1>3 DEF DropHandle, RemoteTypeOK
<1>5. UNCHANGED <<rows, secret, status, told, challenge>>
  BY DEF DropHandle
<1>6. ASSUME ~tangled, ~Tangled(remote), Calm(q) PROVE Calm(q)'
  <2>1. Mine(q, i) /\ CallCalm(remote[i], q) /\ GoesOn(i, c)
    BY <1>2, <1>3, <1>6, NoCallIsNone DEF Mine, P, Calm, CallsCalm, Moves
  <2>2. ASSUME NEW j \in DOMAIN remote, j # i, Mine(q, j) PROVE CallCalm(remote[j], q)'
    <3>1. /\ remote'[j] = remote[j] /\ remote[j] \in RemoteCall /\ remote[j].profile = q
          /\ CallCalm(remote[j], q) /\ Fits(remote[j])
      BY <1>1, <1>6, <2>1, <2>2, Caller DEF GoesOn, CallBecomes, Mine, Calm, CallsCalm, CallsFit
    <3>2. CASE Undoing(remote[i])
      <4>1. ~Building(remote[j])
        BY <1>1, <1>3, <1>6, <2>2, <3>1, <3>2, NotTangled
      <4> QED
        BY <1>1, <1>4, <1>5, <2>1, <2>2, <3>1, <3>2, <4>1, WhoMarks DEF CallCalm, OutcomeOf
    <3>3. CASE ~Undoing(remote[i])
      <4>1. remote[i].kind \in Logging /\ Building(remote[i]) /\ remote[i].at \in Locked
        BY <1>1, <3>3, WhoMarks DEF DropHandle, At
      <4>2. ~Undoing(remote[j]) /\ ~(remote[j].kind \in Logging /\ remote[j].at \in Locked)
        BY <1>1, <1>3, <1>6, <2>2, <3>1, <4>1, NotTangled, OneBuilds
      <4> QED
        BY <1>1, <1>4, <1>5, <2>1, <2>2, <3>1, <4>2, WhoMarks DEF CallCalm, OutcomeOf
    <3> QED
      BY <3>2, <3>3
  <2>3. c # NoCall => CallCalm(c, q)'
    BY <1>1, <1>2, <1>3, <1>4, <1>5, <1>6, <2>1 DEF DropHandle, At, On, OnWith, FailedCall, CallCalm, Calm, RowCalm, Undoing, OutcomeOf, Logging, Fits, RemoteCall, CallKinds, Forcing
  <2>4. CallsCalm(q)'
    BY <2>1, <2>2, <2>3, CallsStayCalm
  <2>5. StatusCalm(q)'
    <3>1. c.at = "mark" /\ Mine(q, i)' /\ remote'[i] = c
      <4>1. c.at = "mark"
        BY <1>2 DEF On, RemoteCall
      <4>2. c # NoCall /\ c.profile = q /\ CallBecomes(i, c)
        BY <1>1, <1>3, <2>1, <4>1, NoCallFits DEF GoesOn
      <4> QED
        BY <2>1, <4>1, <4>2 DEF CallBecomes, Mine
    <3> QED
      BY <3>1, <1>1, <1>2, <1>3, <1>4, <1>5, <1>6, <2>1 DEF DropHandle, At, Calm, StatusCalm, CallCalm, GoesOn, CallBecomes, Mine, On, OnWith, OutcomeOf, RemoteCall
  <2>6. RowCalm(q)'
    BY <1>1, <1>3, <1>4, <1>5, <1>6, <2>1 DEF DropHandle, At, Calm, RowCalm, CallCalm, Undoing, Fits, RemoteCall, CallKinds, Forcing, Logging
  <2> QED
    BY <2>4, <2>5, <2>6 DEF Calm
<1>7. \A p \in Profiles : p # q =>
         /\ rows'[p] = rows[p] /\ secret'[p] = secret[p] /\ session'[p] = session[p]
         /\ status'[p] = status[p] /\ told'[p] = told[p] /\ challenge'[p] = challenge[p]
  BY <1>1, <1>3, <1>5 DEF DropHandle, RemoteTypeOK
<1> QED
  BY <1>2, <1>3, <1>6, <1>7, CalmStep

LEMMA MarkCalm ==
  ASSUME CalmInv, LoginInv', NEW i \in DOMAIN remote, remote[i] \in RemoteCall, Mark(i)
  PROVE  CalmInv'
<1>1. /\ RemoteTypeOK /\ CallsFit /\ LockHeld
      /\ P(i) \in Profiles /\ P(i) = remote[i].profile /\ Fits(remote[i])
  BY CallerFacts DEF CalmInv
<1>2. PICK c \in RemoteCall \cup {NoCall} :
        /\ c = On(i, "tell")
        /\ Moves(i, c)
  BY MarkMoves DEF CalmInv
<1>3. PICK q \in Profiles : q = P(i)
  BY <1>1
<1>4. status'[q] = OutcomeOf(remote[i])
  BY <1>1, <1>3 DEF Mark, RemoteTypeOK, Outcome, OutcomeOf
<1>5. UNCHANGED <<rows, secret, session, told, challenge>>
  BY DEF Mark
<1>6. ASSUME ~tangled, ~Tangled(remote), Calm(q) PROVE Calm(q)'
  <2>1. Mine(q, i) /\ CallCalm(remote[i], q) /\ GoesOn(i, c)
    BY <1>2, <1>3, <1>6, NoCallIsNone DEF Mine, P, Calm, CallsCalm, Moves
  <2>2. ASSUME NEW j \in DOMAIN remote, j # i, Mine(q, j) PROVE CallCalm(remote[j], q)'
    <3>1. /\ remote'[j] = remote[j] /\ remote[j] \in RemoteCall /\ remote[j].profile = q
          /\ CallCalm(remote[j], q) /\ Fits(remote[j])
      BY <1>1, <1>6, <2>1, <2>2, Caller DEF GoesOn, CallBecomes, Mine, Calm, CallsCalm, CallsFit
    <3>2. CASE Undoing(remote[i])
      <4>1. ~Building(remote[j])
        BY <1>1, <1>3, <1>6, <2>2, <3>1, <3>2, NotTangled
      <4> QED
        BY <1>1, <1>4, <1>5, <2>1, <2>2, <3>1, <3>2, <4>1, WhoMarks DEF CallCalm, OutcomeOf
    <3>3. CASE ~Undoing(remote[i])
      <4>1. remote[i].kind \in Logging /\ Building(remote[i]) /\ remote[i].at \in Locked
        BY <1>1, <3>3, WhoMarks DEF Mark, At
      <4>2. ~Undoing(remote[j]) /\ ~(remote[j].kind \in Logging /\ remote[j].at \in Locked)
        BY <1>1, <1>3, <1>6, <2>2, <3>1, <4>1, NotTangled, OneBuilds
      <4> QED
        BY <1>1, <1>4, <1>5, <2>1, <2>2, <3>1, <4>2, WhoMarks DEF CallCalm, OutcomeOf
    <3> QED
      BY <3>2, <3>3
  <2>3. c # NoCall => CallCalm(c, q)'
    BY <1>1, <1>2, <1>3, <1>4, <1>5, <1>6, <2>1 DEF Mark, At, On, OnWith, FailedCall, CallCalm, Calm, RowCalm, Undoing, OutcomeOf, Logging, Fits, RemoteCall, CallKinds, Forcing
  <2>4. CallsCalm(q)'
    BY <2>1, <2>2, <2>3, CallsStayCalm
  <2>5. StatusCalm(q)'
    <3>1. c.at = "tell" /\ Mine(q, i)' /\ remote'[i] = c
      <4>1. c.at = "tell"
        BY <1>2 DEF On, RemoteCall
      <4>2. c # NoCall /\ c.profile = q /\ CallBecomes(i, c)
        BY <1>1, <1>3, <2>1, <4>1, NoCallFits DEF GoesOn
      <4> QED
        BY <2>1, <4>1, <4>2 DEF CallBecomes, Mine
    <3> QED
      BY <3>1, <1>1, <1>2, <1>3, <1>4, <1>5, <1>6, <2>1 DEF Mark, At, Calm, StatusCalm, CallCalm, GoesOn, CallBecomes, Mine, On, OnWith, OutcomeOf, RemoteCall
  <2>6. RowCalm(q)'
    BY <1>1, <1>3, <1>4, <1>5, <1>6, <2>1 DEF Mark, At, Calm, RowCalm, CallCalm, Undoing, Fits, RemoteCall, CallKinds, Forcing, Logging
  <2> QED
    BY <2>4, <2>5, <2>6 DEF Calm
<1>7. \A p \in Profiles : p # q =>
         /\ rows'[p] = rows[p] /\ secret'[p] = secret[p] /\ session'[p] = session[p]
         /\ status'[p] = status[p] /\ told'[p] = told[p] /\ challenge'[p] = challenge[p]
  BY <1>1, <1>3, <1>5 DEF Mark, RemoteTypeOK
<1> QED
  BY <1>2, <1>3, <1>6, <1>7, CalmStep

LEMMA TellCalm ==
  ASSUME CalmInv, LoginInv', NEW i \in DOMAIN remote, remote[i] \in RemoteCall, Tell(i)
  PROVE  CalmInv'
<1>1. /\ RemoteTypeOK /\ CallsFit /\ LockHeld
      /\ P(i) \in Profiles /\ P(i) = remote[i].profile /\ Fits(remote[i])
  BY CallerFacts DEF CalmInv
<1>2. PICK c \in RemoteCall \cup {NoCall} :
        /\ c = On(i, IF remote[i].kind \in {"update", "delete", "forget"} THEN "clear" ELSE remote[i].then)
        /\ Moves(i, c)
  BY TellMoves DEF CalmInv
<1>3. PICK q \in Profiles : q = P(i)
  BY <1>1
<1>4. told'[q] = OutcomeOf(remote[i])
  BY <1>1, <1>3 DEF Tell, RemoteTypeOK, Outcome, OutcomeOf
<1>5. UNCHANGED <<rows, secret, session, status, challenge>>
  BY DEF Tell
<1>6. ASSUME ~tangled, ~Tangled(remote), Calm(q) PROVE Calm(q)'
  <2>1. Mine(q, i) /\ CallCalm(remote[i], q) /\ GoesOn(i, c)
    BY <1>2, <1>3, <1>6, NoCallIsNone DEF Mine, P, Calm, CallsCalm, Moves
  <2>2. ASSUME NEW j \in DOMAIN remote, j # i, Mine(q, j) PROVE CallCalm(remote[j], q)'
    <3>1. /\ remote'[j] = remote[j] /\ remote[j] \in RemoteCall /\ remote[j].profile = q
          /\ CallCalm(remote[j], q) /\ Fits(remote[j])
      BY <1>1, <1>6, <2>1, <2>2, Caller DEF GoesOn, CallBecomes, Mine, Calm, CallsCalm, CallsFit
    <3>2. CASE Undoing(remote[i])
      <4>1. ~Building(remote[j])
        BY <1>1, <1>3, <1>6, <2>2, <3>1, <3>2, NotTangled
      <4> QED
        BY <1>1, <1>4, <1>5, <2>1, <2>2, <3>1, <3>2, <4>1, WhoMarks DEF CallCalm, OutcomeOf
    <3>3. CASE ~Undoing(remote[i])
      <4>1. remote[i].kind \in Logging /\ Building(remote[i]) /\ remote[i].at \in Locked
        BY <1>1, <3>3, WhoMarks DEF Tell, At
      <4>2. ~Undoing(remote[j]) /\ ~(remote[j].kind \in Logging /\ remote[j].at \in Locked)
        BY <1>1, <1>3, <1>6, <2>2, <3>1, <4>1, NotTangled, OneBuilds
      <4> QED
        BY <1>1, <1>4, <1>5, <2>1, <2>2, <3>1, <4>2, WhoMarks DEF CallCalm, OutcomeOf
    <3> QED
      BY <3>2, <3>3
  <2>3. c # NoCall => CallCalm(c, q)'
    BY <1>1, <1>2, <1>3, <1>4, <1>5, <1>6, <2>1 DEF Tell, At, On, OnWith, FailedCall, CallCalm, Calm, RowCalm, Undoing, OutcomeOf, Logging, Fits, RemoteCall, CallKinds, Forcing
  <2>4. CallsCalm(q)'
    BY <2>1, <2>2, <2>3, CallsStayCalm
  <2>5. StatusCalm(q)'
    BY <1>1, <1>2, <1>3, <1>4, <1>5, <1>6, <2>1 DEF Tell, At, Calm, StatusCalm, CallCalm, GoesOn, CallBecomes, Mine, On, OnWith, OutcomeOf, RemoteCall
  <2>6. RowCalm(q)'
    BY <1>1, <1>3, <1>4, <1>5, <1>6, <2>1 DEF Tell, At, Calm, RowCalm, CallCalm, Undoing, Fits, RemoteCall, CallKinds, Forcing, Logging
  <2> QED
    BY <2>4, <2>5, <2>6 DEF Calm
<1>7. \A p \in Profiles : p # q =>
         /\ rows'[p] = rows[p] /\ secret'[p] = secret[p] /\ session'[p] = session[p]
         /\ status'[p] = status[p] /\ told'[p] = told[p] /\ challenge'[p] = challenge[p]
  BY <1>1, <1>3, <1>5 DEF Tell, RemoteTypeOK
<1> QED
  BY <1>2, <1>3, <1>6, <1>7, CalmStep

LEMMA ClearObservedCalm ==
  ASSUME CalmInv, LoginInv', NEW i \in DOMAIN remote, remote[i] \in RemoteCall, ClearObserved(i)
  PROVE  CalmInv'
<1>1. /\ RemoteTypeOK /\ CallsFit /\ LockHeld
      /\ P(i) \in Profiles /\ P(i) = remote[i].profile /\ Fits(remote[i])
  BY CallerFacts DEF CalmInv
<1>2. PICK c \in RemoteCall \cup {NoCall} :
        /\ c = On(i, IF remote[i].kind = "delete" THEN "remove" ELSE "unpin")
        /\ Moves(i, c)
  BY ClearObservedMoves DEF CalmInv
<1>3. PICK q \in Profiles : q = P(i)
  BY <1>1
<1>4. challenge'[q] = Unasked
  BY <1>1, <1>3 DEF ClearObserved, RemoteTypeOK
<1>5. UNCHANGED <<rows, secret, session, status, told>>
  BY DEF ClearObserved
<1>6. ASSUME ~tangled, ~Tangled(remote), Calm(q) PROVE Calm(q)'
  <2>1. Mine(q, i) /\ CallCalm(remote[i], q) /\ GoesOn(i, c)
    BY <1>2, <1>3, <1>6, NoCallIsNone DEF Mine, P, Calm, CallsCalm, Moves
  <2>2. ASSUME NEW j \in DOMAIN remote, j # i, Mine(q, j) PROVE CallCalm(remote[j], q)'
    <3>1. /\ remote'[j] = remote[j] /\ remote[j] \in RemoteCall /\ remote[j].profile = q
          /\ CallCalm(remote[j], q) /\ Fits(remote[j])
      BY <1>1, <1>6, <2>1, <2>2, Caller DEF GoesOn, CallBecomes, Mine, Calm, CallsCalm, CallsFit
    <3>2. ~Building(remote[j])
      BY <1>1, <1>3, <1>6, <2>2, <3>1, NotTangled DEF Undoing, ClearObserved, At, Fits, RemoteCall, CallKinds, Forcing, Logging
    <3> QED
      BY <1>1, <1>4, <1>5, <1>6, <2>1, <2>2, <3>1, <3>2, WhoMarks DEF CallCalm, OutcomeOf, Undoing, Building, Locked, Forcing, Logging, Fits, RemoteCall, CallKinds
  <2>3. c # NoCall => CallCalm(c, q)'
    BY <1>1, <1>2, <1>3, <1>4, <1>5, <1>6, <2>1 DEF ClearObserved, At, On, OnWith, FailedCall, CallCalm, Calm, RowCalm, Undoing, OutcomeOf, Logging, Fits, RemoteCall, CallKinds, Forcing
  <2>4. CallsCalm(q)'
    BY <2>1, <2>2, <2>3, CallsStayCalm
  <2>5. StatusCalm(q)'
    BY <1>1, <1>2, <1>3, <1>4, <1>5, <1>6, <2>1 DEF ClearObserved, At, Calm, StatusCalm, CallCalm, GoesOn, CallBecomes, Mine, On, OnWith, OutcomeOf, RemoteCall
  <2>6. RowCalm(q)'
    BY <1>1, <1>3, <1>4, <1>5, <1>6, <2>1 DEF ClearObserved, At, Calm, RowCalm, CallCalm, Undoing, Fits, RemoteCall, CallKinds, Forcing, Logging
  <2> QED
    BY <2>4, <2>5, <2>6 DEF Calm
<1>7. \A p \in Profiles : p # q =>
         /\ rows'[p] = rows[p] /\ secret'[p] = secret[p] /\ session'[p] = session[p]
         /\ status'[p] = status[p] /\ told'[p] = told[p] /\ challenge'[p] = challenge[p]
  BY <1>1, <1>3, <1>5 DEF ClearObserved, RemoteTypeOK
<1> QED
  BY <1>2, <1>3, <1>6, <1>7, CalmStep

LEMMA UnpinCalm ==
  ASSUME CalmInv, LoginInv', NEW i \in DOMAIN remote, remote[i] \in RemoteCall, Unpin(i)
  PROVE  CalmInv'
<1>1. /\ RemoteTypeOK /\ CallsFit /\ LockHeld
      /\ P(i) \in Profiles /\ P(i) = remote[i].profile /\ Fits(remote[i])
  BY CallerFacts DEF CalmInv
<1>2. PICK c \in RemoteCall \cup {NoCall} :
        /\ c = On(i, IF rows[P(i)].there /\ remote[i].kind = "update" THEN "write" ELSE "done")
        /\ Moves(i, c)
  BY UnpinMoves DEF CalmInv
<1>3. PICK q \in Profiles : q = P(i)
  BY <1>1
<1>4. /\ rows'[q].there = rows[q].there
      /\ rows[q].there => /\ rows'[q].host = rows[q].host /\ rows'[q].pinned = NoKey
                          /\ (rows[q].stored <=> secret[q]) => (rows'[q].stored <=> secret'[q])
  <2>1. CASE rows[q].there
    <3>1. /\ rows' = [rows EXCEPT ![q] = [rows[q] EXCEPT !.pinned = NoKey,
                                             !.stored = rows[q].stored /\ ~(remote[i].kind = "update")]]
          /\ secret' = [secret EXCEPT ![q] = secret[q] /\ ~(remote[i].kind = "update")]
          /\ rows[q] \in Row
      BY <1>1, <1>3, <2>1, RowsType DEF Unpin
    <3>2. /\ rows'[q] = [rows[q] EXCEPT !.pinned = NoKey, !.stored = rows[q].stored /\ ~(remote[i].kind = "update")]
          /\ secret'[q] = (secret[q] /\ ~(remote[i].kind = "update"))
      BY <1>1, <3>1 DEF RemoteTypeOK
    <3>3. PICK b : b = (rows[q].stored /\ ~(remote[i].kind = "update"))
      OBVIOUS
    <3>4. rows'[q] = [rows[q] EXCEPT !.pinned = NoKey, !.stored = b]
      BY <3>2, <3>3, Zenon
    <3>5. /\ rows'[q].there = rows[q].there /\ rows'[q].host = rows[q].host /\ rows'[q].pinned = NoKey
          /\ rows'[q].stored = b
      <4>1. PICK r \in Row : r = rows[q]
        BY <1>1, <2>1, RowsType
      <4>2. PICK s : s = rows'[q]
        OBVIOUS
      <4>3. s = [r EXCEPT !.pinned = NoKey, !.stored = b]
        BY <3>4, <4>1, <4>2
      <4>4. s.there = r.there /\ s.host = r.host /\ s.pinned = NoKey /\ s.stored = b
        BY <4>3 DEF Row
      <4> QED
        BY <4>1, <4>2, <4>4
    <3>6. (rows[q].stored <=> secret[q]) => (rows'[q].stored <=> secret'[q])
      BY <3>2, <3>3, <3>5, Zenon
    <3> QED
      BY <3>5, <3>6
  <2>2. CASE ~rows[q].there
    BY <1>3, <2>2 DEF Unpin
  <2> QED
    BY <2>1, <2>2
<1>5. UNCHANGED <<session, status, told, challenge>>
  BY DEF Unpin
<1>6. ASSUME ~tangled, ~Tangled(remote), Calm(q) PROVE Calm(q)'
  <2>1. Mine(q, i) /\ CallCalm(remote[i], q) /\ GoesOn(i, c)
    BY <1>2, <1>3, <1>6, NoCallIsNone DEF Mine, P, Calm, CallsCalm, Moves
  <2>2. ASSUME NEW j \in DOMAIN remote, j # i, Mine(q, j) PROVE CallCalm(remote[j], q)'
    <3>1. /\ remote'[j] = remote[j] /\ remote[j] \in RemoteCall /\ remote[j].profile = q
          /\ CallCalm(remote[j], q) /\ Fits(remote[j])
      BY <1>1, <1>6, <2>1, <2>2, Caller DEF GoesOn, CallBecomes, Mine, Calm, CallsCalm, CallsFit
    <3>2. ~Building(remote[j])
      BY <1>1, <1>3, <1>6, <2>2, <3>1, NotTangled DEF Undoing, Unpin, At, Fits, RemoteCall, CallKinds, Forcing, Logging
    <3>3. PICK d \in RemoteCall : d = remote[j] /\ d = remote'[j]
      BY <3>1
    <3>4. /\ d.kind \in Logging => d.at \notin {"shake", "insert", "mark", "tell", "answered"}
          /\ d.at # "pin"
      BY <3>1, <3>2, <3>3 DEF Building, Logging, Fits, RemoteCall, CallKinds, Forcing
    <3>5. /\ rows'[q].there = rows[q].there
          /\ rows[q].there => rows'[q].pinned = NoKey
      BY <1>4
    <3>6. CallCalm(d, q)
      BY <3>1, <3>3
    <3>7. CallCalm(d, q)'
      <4>1. /\ d.at = "mark" => (session[q] # NoSession <=> OutcomeOf(d) = "connected")
            /\ d.at = "tell" => status[q] = OutcomeOf(d)
            /\ Undoing(d) /\ d.at # "drop" => session[q] = NoSession
            /\ d.at = "remove" => challenge[q] = Unasked
        BY <3>6 DEF CallCalm
      <4>2. d.at \in {"observe", "judge", "secrets", "shake", "insert", "pin"} => rows'[q].there
        BY <3>5, <3>6 DEF CallCalm
      <4>3. d.at = "write" /\ rows'[q].there => rows'[q].pinned = NoKey
        BY <3>5
      <4> QED
        BY <1>5, <3>4, <4>1, <4>2, <4>3 DEF CallCalm, OutcomeOf, Undoing
    <3> QED
      BY <3>3, <3>7 DEF CallCalm, OutcomeOf, Undoing
  <2>3. c # NoCall => CallCalm(c, q)'
    BY <1>1, <1>2, <1>3, <1>4, <1>5, <1>6, <2>1 DEF Unpin, At, On, OnWith, FailedCall, CallCalm, Calm, RowCalm, Undoing, OutcomeOf, Logging, Fits, RemoteCall, CallKinds, Forcing
  <2>4. CallsCalm(q)'
    BY <2>1, <2>2, <2>3, CallsStayCalm
  <2>5. StatusCalm(q)'
    BY <1>1, <1>2, <1>3, <1>4, <1>5, <1>6, <2>1 DEF Unpin, At, Calm, StatusCalm, CallCalm, GoesOn, CallBecomes, Mine, On, OnWith, OutcomeOf, RemoteCall
  <2>6. RowCalm(q)'
    BY <1>1, <1>3, <1>4, <1>5, <1>6, <2>1 DEF Unpin, At, Calm, RowCalm, CallCalm, Undoing, Fits, RemoteCall, CallKinds, Forcing, Logging
  <2> QED
    BY <2>4, <2>5, <2>6 DEF Calm
<1>7. \A p \in Profiles : p # q =>
         /\ rows'[p] = rows[p] /\ secret'[p] = secret[p] /\ session'[p] = session[p]
         /\ status'[p] = status[p] /\ told'[p] = told[p] /\ challenge'[p] = challenge[p]
  BY <1>1, <1>3, <1>5 DEF Unpin, RemoteTypeOK
<1> QED
  BY <1>2, <1>3, <1>6, <1>7, CalmStep

LEMMA WriteRowCalm ==
  ASSUME CalmInv, LoginInv', NEW i \in DOMAIN remote, remote[i] \in RemoteCall, WriteRow(i)
  PROVE  CalmInv'
<1>1. /\ RemoteTypeOK /\ CallsFit /\ LockHeld
      /\ P(i) \in Profiles /\ P(i) = remote[i].profile /\ Fits(remote[i])
  BY CallerFacts DEF CalmInv
<1>2. PICK c \in RemoteCall \cup {NoCall} :
        /\ c = NoCall
        /\ Moves(i, c)
  BY WriteRowMoves DEF CalmInv
<1>3. PICK q \in Profiles : q = P(i)
  BY <1>1
<1>4. /\ rows'[q].there = rows[q].there
      /\ rows[q].there => rows'[q].pinned = rows[q].pinned /\ rows'[q].stored = rows[q].stored
  <2>1. CASE rows[q].there
    <3>1. rows' = [rows EXCEPT ![q] = [@ EXCEPT !.host = remote[i].arg[1]]] /\ rows[q] \in Row
      BY <1>1, <1>3, <2>1, RowsType DEF WriteRow
    <3>2. rows'[q] = [rows[q] EXCEPT !.host = remote[i].arg[1]]
      BY <1>1, <3>1 DEF RemoteTypeOK
    <3> QED
      BY <3>1, <3>2 DEF Row
  <2>2. CASE ~rows[q].there
    BY <1>3, <2>2 DEF WriteRow
  <2> QED
    BY <2>1, <2>2
<1>5. UNCHANGED <<secret, session, status, told, challenge>>
  BY DEF WriteRow
<1>6. ASSUME ~tangled, ~Tangled(remote), Calm(q) PROVE Calm(q)'
  <2>1. Mine(q, i) /\ CallCalm(remote[i], q) /\ GoesOn(i, c)
    BY <1>2, <1>3, <1>6, NoCallIsNone DEF Mine, P, Calm, CallsCalm, Moves
  <2>2. ASSUME NEW j \in DOMAIN remote, j # i, Mine(q, j) PROVE CallCalm(remote[j], q)'
    <3>1. /\ remote'[j] = remote[j] /\ remote[j] \in RemoteCall /\ remote[j].profile = q
          /\ CallCalm(remote[j], q) /\ Fits(remote[j])
      BY <1>1, <1>6, <2>1, <2>2, Caller DEF GoesOn, CallBecomes, Mine, Calm, CallsCalm, CallsFit
    <3>2. ~Building(remote[j])
      BY <1>1, <1>3, <1>6, <2>2, <3>1, NotTangled DEF Undoing, WriteRow, At, Fits, RemoteCall, CallKinds, Forcing, Logging
    <3> QED
      BY <1>1, <1>4, <1>5, <1>6, <2>1, <2>2, <3>1, <3>2, WhoMarks DEF CallCalm, OutcomeOf, Undoing, Building, Locked, Forcing, Logging, Fits, RemoteCall, CallKinds
  <2>3. c # NoCall => CallCalm(c, q)'
    BY <1>1, <1>2, <1>3, <1>4, <1>5, <1>6, <2>1 DEF WriteRow, At, On, OnWith, FailedCall, CallCalm, Calm, RowCalm, Undoing, OutcomeOf, Logging, Fits, RemoteCall, CallKinds, Forcing
  <2>4. CallsCalm(q)'
    BY <2>1, <2>2, <2>3, CallsStayCalm
  <2>5. StatusCalm(q)'
    BY <1>1, <1>2, <1>3, <1>4, <1>5, <1>6, <2>1 DEF WriteRow, At, Calm, StatusCalm, CallCalm, GoesOn, CallBecomes, Mine, On, OnWith, OutcomeOf, RemoteCall
  <2>6. RowCalm(q)'
    BY <1>1, <1>3, <1>4, <1>5, <1>6, <2>1 DEF WriteRow, At, Calm, RowCalm, CallCalm, Undoing, Fits, RemoteCall, CallKinds, Forcing, Logging
  <2> QED
    BY <2>4, <2>5, <2>6 DEF Calm
<1>7. \A p \in Profiles : p # q =>
         /\ rows'[p] = rows[p] /\ secret'[p] = secret[p] /\ session'[p] = session[p]
         /\ status'[p] = status[p] /\ told'[p] = told[p] /\ challenge'[p] = challenge[p]
  BY <1>1, <1>3, <1>5 DEF WriteRow, RemoteTypeOK
<1> QED
  BY <1>2, <1>3, <1>6, <1>7, CalmStep

LEMMA RemoveRowCalm ==
  ASSUME CalmInv, LoginInv', NEW i \in DOMAIN remote, remote[i] \in RemoteCall, RemoveRow(i)
  PROVE  CalmInv'
<1>1. /\ RemoteTypeOK /\ CallsFit /\ LockHeld
      /\ P(i) \in Profiles /\ P(i) = remote[i].profile /\ Fits(remote[i])
  BY CallerFacts DEF CalmInv
<1>2. PICK c \in RemoteCall \cup {NoCall} :
        /\ c = NoCall
        /\ Moves(i, c)
  BY RemoveRowMoves DEF CalmInv
<1>3. PICK q \in Profiles : q = P(i)
  BY <1>1
<1>4. ~rows'[q].there
  BY <1>1, <1>3, NonesAreNone DEF RemoveRow, RemoteTypeOK
<1>5. UNCHANGED <<session, status, told, challenge>>
  BY DEF RemoveRow
<1>6. ASSUME ~tangled, ~Tangled(remote), Calm(q) PROVE Calm(q)'
  <2>1. Mine(q, i) /\ CallCalm(remote[i], q) /\ GoesOn(i, c)
    BY <1>2, <1>3, <1>6, NoCallIsNone DEF Mine, P, Calm, CallsCalm, Moves
  <2>2. ASSUME NEW j \in DOMAIN remote, j # i, Mine(q, j) PROVE CallCalm(remote[j], q)'
    <3>1. /\ remote'[j] = remote[j] /\ remote[j] \in RemoteCall /\ remote[j].profile = q
          /\ CallCalm(remote[j], q) /\ Fits(remote[j])
      BY <1>1, <1>6, <2>1, <2>2, Caller DEF GoesOn, CallBecomes, Mine, Calm, CallsCalm, CallsFit
    <3>2. ~Building(remote[j])
      BY <1>1, <1>3, <1>6, <2>2, <3>1, NotTangled DEF Undoing, RemoveRow, At, Fits, RemoteCall, CallKinds, Forcing, Logging
    <3> QED
      BY <1>1, <1>4, <1>5, <1>6, <2>1, <2>2, <3>1, <3>2, WhoMarks DEF CallCalm, OutcomeOf, Undoing, Building, Locked, Forcing, Logging, Fits, RemoteCall, CallKinds
  <2>3. c # NoCall => CallCalm(c, q)'
    BY <1>1, <1>2, <1>3, <1>4, <1>5, <1>6, <2>1 DEF RemoveRow, At, On, OnWith, FailedCall, CallCalm, Calm, RowCalm, Undoing, OutcomeOf, Logging, Fits, RemoteCall, CallKinds, Forcing
  <2>4. CallsCalm(q)'
    BY <2>1, <2>2, <2>3, CallsStayCalm
  <2>5. StatusCalm(q)'
    BY <1>1, <1>2, <1>3, <1>4, <1>5, <1>6, <2>1 DEF RemoveRow, At, Calm, StatusCalm, CallCalm, GoesOn, CallBecomes, Mine, On, OnWith, OutcomeOf, RemoteCall
  <2>6. RowCalm(q)'
    BY <1>1, <1>3, <1>4, <1>5, <1>6, <2>1 DEF RemoveRow, At, Calm, RowCalm, CallCalm, Undoing, Fits, RemoteCall, CallKinds, Forcing, Logging
  <2> QED
    BY <2>4, <2>5, <2>6 DEF Calm
<1>7. \A p \in Profiles : p # q =>
         /\ rows'[p] = rows[p] /\ secret'[p] = secret[p] /\ session'[p] = session[p]
         /\ status'[p] = status[p] /\ told'[p] = told[p] /\ challenge'[p] = challenge[p]
  BY <1>1, <1>3, <1>5 DEF RemoveRow, RemoteTypeOK
<1> QED
  BY <1>2, <1>3, <1>6, <1>7, CalmStep

LEMMA PinCalm ==
  ASSUME CalmInv, LoginInv', NEW i \in DOMAIN remote, remote[i] \in RemoteCall, Pin(i)
  PROVE  CalmInv'
<1>1. /\ RemoteTypeOK /\ CallsFit /\ LockHeld
      /\ P(i) \in Profiles /\ P(i) = remote[i].profile /\ Fits(remote[i])
  BY CallerFacts DEF CalmInv
<1>2. PICK c \in RemoteCall \cup {NoCall} :
        /\ c = On(i, IF rows[P(i)].there THEN "answered" ELSE "done")
        /\ Moves(i, c)
  BY PinMoves DEF CalmInv
<1>3. PICK q \in Profiles : q = P(i)
  BY <1>1
<1>4. /\ rows'[q].there = rows[q].there
      /\ rows[q].there => /\ rows'[q].host = rows[q].host /\ rows'[q].stored = rows[q].stored
                          /\ rows'[q].pinned = remote[i].arg
  <2>1. CASE rows[q].there
    <3>1. rows' = [rows EXCEPT ![q] = [@ EXCEPT !.pinned = remote[i].arg]] /\ rows[q] \in Row
      BY <1>1, <1>3, <2>1, RowsType DEF Pin
    <3>2. rows'[q] = [rows[q] EXCEPT !.pinned = remote[i].arg]
      BY <1>1, <3>1 DEF RemoteTypeOK
    <3> QED
      BY <2>1, <3>1, <3>2 DEF Row
  <2>2. CASE ~rows[q].there
    BY <1>3, <2>2 DEF Pin
  <2> QED
    BY <2>1, <2>2
<1>5. UNCHANGED <<secret, session, status, told, challenge>>
  BY DEF Pin
<1>6. ASSUME ~tangled, ~Tangled(remote), Calm(q) PROVE Calm(q)'
  <2>1. Mine(q, i) /\ CallCalm(remote[i], q) /\ GoesOn(i, c)
    BY <1>2, <1>3, <1>6, NoCallIsNone DEF Mine, P, Calm, CallsCalm, Moves
  <2>2. ASSUME NEW j \in DOMAIN remote, j # i, Mine(q, j) PROVE CallCalm(remote[j], q)'
    <3>1. /\ remote'[j] = remote[j] /\ remote[j] \in RemoteCall /\ remote[j].profile = q
          /\ CallCalm(remote[j], q) /\ Fits(remote[j])
      BY <1>1, <1>6, <2>1, <2>2, Caller DEF GoesOn, CallBecomes, Mine, Calm, CallsCalm, CallsFit
    <3>2. ~Undoing(remote[j])
      BY <1>1, <1>3, <1>6, <2>2, <3>1, NotTangled DEF Building, Pin, At, Fits, RemoteCall, CallKinds, Forcing, Logging
    <3> QED
      BY <1>1, <1>4, <1>5, <1>6, <2>1, <2>2, <3>1, <3>2, WhoMarks DEF CallCalm, OutcomeOf, Undoing, Building, Locked, Forcing, Logging, Fits, RemoteCall, CallKinds
  <2>3. c # NoCall => CallCalm(c, q)'
    BY <1>1, <1>2, <1>3, <1>4, <1>5, <1>6, <2>1 DEF Pin, At, On, OnWith, FailedCall, CallCalm, Calm, RowCalm, Undoing, OutcomeOf, Logging, Fits, RemoteCall, CallKinds, Forcing
  <2>4. CallsCalm(q)'
    BY <2>1, <2>2, <2>3, CallsStayCalm
  <2>5. StatusCalm(q)'
    BY <1>1, <1>2, <1>3, <1>4, <1>5, <1>6, <2>1 DEF Pin, At, Calm, StatusCalm, CallCalm, GoesOn, CallBecomes, Mine, On, OnWith, OutcomeOf, RemoteCall
  <2>6. RowCalm(q)'
    BY <1>1, <1>3, <1>4, <1>5, <1>6, <2>1 DEF Pin, At, Calm, RowCalm, CallCalm, Undoing, Fits, RemoteCall, CallKinds, Forcing, Logging
  <2> QED
    BY <2>4, <2>5, <2>6 DEF Calm
<1>7. \A p \in Profiles : p # q =>
         /\ rows'[p] = rows[p] /\ secret'[p] = secret[p] /\ session'[p] = session[p]
         /\ status'[p] = status[p] /\ told'[p] = told[p] /\ challenge'[p] = challenge[p]
  BY <1>1, <1>3, <1>5 DEF Pin, RemoteTypeOK
<1> QED
  BY <1>2, <1>3, <1>6, <1>7, CalmStep

LEMMA SettleCalm ==
  ASSUME CalmInv, LoginInv', NEW i \in DOMAIN remote, remote[i] \in RemoteCall, Settle(i)
  PROVE  CalmInv'
<1>1. /\ RemoteTypeOK /\ CallsFit /\ LockHeld
      /\ P(i) \in Profiles /\ P(i) = remote[i].profile /\ Fits(remote[i])
  BY CallerFacts DEF CalmInv
<1>2. PICK c \in RemoteCall \cup {NoCall} :
        /\ c = NoCall
        /\ Moves(i, c)
  BY SettleMoves DEF CalmInv
<1>3. PICK q \in Profiles : q = P(i)
  BY <1>1
<1>4. challenge'[q] = Unasked
  BY <1>1, <1>3 DEF Settle, RemoteTypeOK
<1>5. UNCHANGED <<rows, secret, session, status, told>>
  BY DEF Settle
<1>6. ASSUME ~tangled, ~Tangled(remote), Calm(q) PROVE Calm(q)'
  <2>1. Mine(q, i) /\ CallCalm(remote[i], q) /\ GoesOn(i, c)
    BY <1>2, <1>3, <1>6, NoCallIsNone DEF Mine, P, Calm, CallsCalm, Moves
  <2>2. ASSUME NEW j \in DOMAIN remote, j # i, Mine(q, j) PROVE CallCalm(remote[j], q)'
    <3>1. /\ remote'[j] = remote[j] /\ remote[j] \in RemoteCall /\ remote[j].profile = q
          /\ CallCalm(remote[j], q) /\ Fits(remote[j])
      BY <1>1, <1>6, <2>1, <2>2, Caller DEF GoesOn, CallBecomes, Mine, Calm, CallsCalm, CallsFit
    <3>2. ~Undoing(remote[j])
      BY <1>1, <1>3, <1>6, <2>2, <3>1, NotTangled DEF Building, Settle, At, Fits, RemoteCall, CallKinds, Forcing, Logging
    <3> QED
      BY <1>1, <1>4, <1>5, <1>6, <2>1, <2>2, <3>1, <3>2, WhoMarks DEF CallCalm, OutcomeOf, Undoing, Building, Locked, Forcing, Logging, Fits, RemoteCall, CallKinds
  <2>3. c # NoCall => CallCalm(c, q)'
    BY <1>1, <1>2, <1>3, <1>4, <1>5, <1>6, <2>1 DEF Settle, At, On, OnWith, FailedCall, CallCalm, Calm, RowCalm, Undoing, OutcomeOf, Logging, Fits, RemoteCall, CallKinds, Forcing
  <2>4. CallsCalm(q)'
    BY <2>1, <2>2, <2>3, CallsStayCalm
  <2>5. StatusCalm(q)'
    BY <1>1, <1>2, <1>3, <1>4, <1>5, <1>6, <2>1 DEF Settle, At, Calm, StatusCalm, CallCalm, GoesOn, CallBecomes, Mine, On, OnWith, OutcomeOf, RemoteCall
  <2>6. RowCalm(q)'
    BY <1>1, <1>3, <1>4, <1>5, <1>6, <2>1 DEF Settle, At, Calm, RowCalm, CallCalm, Undoing, Fits, RemoteCall, CallKinds, Forcing, Logging
  <2> QED
    BY <2>4, <2>5, <2>6 DEF Calm
<1>7. \A p \in Profiles : p # q =>
         /\ rows'[p] = rows[p] /\ secret'[p] = secret[p] /\ session'[p] = session[p]
         /\ status'[p] = status[p] /\ told'[p] = told[p] /\ challenge'[p] = challenge[p]
  BY <1>1, <1>3, <1>5 DEF Settle, RemoteTypeOK
<1> QED
  BY <1>2, <1>3, <1>6, <1>7, CalmStep

\* A new call has brought nothing about yet.
LEMMA BeginCalm ==
  ASSUME CalmInv, LoginInv', NEW kind \in CallKinds, NEW r \in Profiles,
         NEW s \in {"look", "lock", "row", "drop", "edit", "compare"}, NEW arg, Begin(kind, r, s, arg)
  PROVE  CalmInv'
<1> DEFINE c == NewCall(kind, r, s, arg)
           n == Len(remote) + 1
<1>1. RemoteTypeOK
  BY DEF CalmInv, LoginInv
<1>2. c.at = s
  BY DEF NewCall
<1>3. remote' = Append(remote, c) /\ tangled' = (tangled \/ Tangled(remote'))
  BY DEF Begin, Goes, NewCall
<1> HIDE DEF c
<1>4. /\ DOMAIN remote' = 1 .. n /\ DOMAIN remote = 1 .. Len(remote) /\ remote'[n] = c /\ Len(remote) \in Nat
      /\ \A j \in DOMAIN remote : j \in DOMAIN remote' /\ remote'[j] = remote[j]
      /\ \A j \in DOMAIN remote' : j = n \/ j \in DOMAIN remote
  BY <1>1, <1>3 DEF RemoteTypeOK
<1> HIDE DEF n
<1>5. Tangled(remote)' => tangled'
  BY <1>3 DEF Tangled
<1>6. Tangled(remote) => Tangled(remote')
  BY <1>4 DEF Tangled
<1>7. UNCHANGED <<rows, secret, session, status, told, challenge>>
  BY DEF Begin
<1>8. ASSUME ~tangled', NEW p \in Profiles PROVE Calm(p)'
  <2>1. Calm(p)
    BY <1>3, <1>8 DEF CalmInv
  <2>2. CallsCalm(p)'
    <3>1. CallCalm(c, p)'
      BY <1>2 DEF CallCalm, Undoing
    <3>2. ASSUME NEW j \in DOMAIN remote', Mine(p, j)' PROVE CallCalm(remote[j], p)'
      <4>1. CASE j = n
        BY <1>4, <3>1, <4>1 DEF CallCalm, Undoing, OutcomeOf
      <4>2. CASE j \in DOMAIN remote
        <5>1. Mine(p, j) /\ remote'[j] = remote[j]
          BY <1>4, <3>2, <4>2 DEF Mine
        <5>2. CallCalm(remote[j], p)
          BY <2>1, <4>2, <5>1 DEF Calm, CallsCalm
        <5> QED
          BY <1>7, <5>1, <5>2 DEF CallCalm
      <4> QED
        BY <1>4, <4>1, <4>2
    <3> QED
      BY <3>2 DEF CallsCalm
  <2>3. StatusCalm(p)'
    BY <1>4, <1>7, <2>1 DEF Calm, StatusCalm, Mine
  <2>4. RowCalm(p)'
    BY <1>7, <2>1 DEF Calm, RowCalm
  <2> QED
    BY <2>2, <2>3, <2>4 DEF Calm
<1> QED
  BY <1>5, <1>8 DEF CalmInv

\* A step of nobody: what CalmInv looks at stays, or changes for the better.
LEMMA CalmWithoutCalls ==
  ASSUME CalmInv, LoginInv', UNCHANGED <<remote, tangled, status, told>>,
         \A p \in Profiles :
            /\ rows'[p].there = rows[p].there
            /\ rows[p].there => rows'[p].pinned = rows[p].pinned /\ rows'[p].host = rows[p].host
            /\ rows[p].there /\ (rows[p].stored <=> secret[p]) => (rows'[p].stored <=> secret'[p])
            /\ secret[p] => secret'[p]
            /\ session'[p] = NoSession <=> session[p] = NoSession
            /\ challenge'[p] = Unasked <=> challenge[p] = Unasked
            /\ challenge[p] # Unasked =>
                   challenge'[p].key = challenge[p].key /\ challenge'[p].host = challenge[p].host
  PROVE  CalmInv'
<1>1. (Tangled(remote) => tangled)'
  BY DEF CalmInv, Tangled
<1>2. ASSUME ~tangled', NEW p \in Profiles PROVE Calm(p)'
  <2>1. Calm(p)
    BY <1>2 DEF CalmInv
  <2>2. CallsCalm(p)'
    BY <2>1 DEF Calm, CallsCalm, CallCalm, Mine, Undoing, OutcomeOf
  <2>3. StatusCalm(p)'
    BY <2>1 DEF Calm, StatusCalm, Mine
  <2>4. RowCalm(p)'
    BY <2>1 DEF Calm, RowCalm
  <2> QED
    BY <2>2, <2>3, <2>4 DEF Calm
<1> QED
  BY <1>1, <1>2 DEF CalmInv

LEMMA UserCalm ==
  ASSUME CalmInv, LoginInv', RemoteUser
  PROVE  CalmInv'
<1>1. ASSUME NEW p \in Profiles,
             Connect(p) \/ Provide(p) \/ Verify(p) \/ Disconnect(p) \/ Reap(p) \/ Delete(p) \/ Forget(p)
      PROVE  CalmInv'
  <2>1. PICK kind \in CallKinds, s \in {"look", "lock", "row", "drop"} : Begin(kind, p, s, NoKey)
    BY <1>1 DEF Connect, Provide, Verify, Disconnect, Reap, Delete, Forget, CallKinds
  <2> QED
    BY <2>1, BeginCalm
<1>2. ASSUME NEW p \in Profiles, NEW h \in Hosts, Update(p, h) PROVE CalmInv'
  BY <1>2, BeginCalm DEF Update, CallKinds
<1>3. ASSUME NEW p \in Profiles, NEW k \in Keys, Trust(p, k) PROVE CalmInv'
  BY <1>3, BeginCalm DEF Trust, CallKinds
<1>4. ASSUME NEW r \in Profiles, SetSecret(r) PROVE CalmInv'
  <2>1. RemoteTypeOK
    BY DEF CalmInv, LoginInv
  <2>2. /\ rows' = [rows EXCEPT ![r] = [@ EXCEPT !.stored = TRUE]] /\ rows[r].there /\ rows[r] \in Row
        /\ secret' = [secret EXCEPT ![r] = TRUE]
    BY <1>4, <2>1, RowsType DEF SetSecret
  <2>3. ASSUME NEW p \in Profiles
        PROVE  /\ rows'[p].there = rows[p].there
               /\ rows[p].there => rows'[p].pinned = rows[p].pinned /\ rows'[p].host = rows[p].host
               /\ rows[p].there /\ (rows[p].stored <=> secret[p]) => (rows'[p].stored <=> secret'[p])
               /\ secret[p] => secret'[p]
    <3>1. CASE p = r
      BY <2>1, <2>2, <3>1 DEF RemoteTypeOK, Row
    <3>2. CASE p # r
      BY <2>1, <2>2, <3>2 DEF RemoteTypeOK
    <3> QED
      BY <3>1, <3>2
  <2>4. UNCHANGED <<remote, tangled, status, told, session, challenge>>
    BY <1>4 DEF SetSecret
  <2> QED
    BY <2>3, <2>4, CalmWithoutCalls
<1> QED
  BY <1>1, <1>2, <1>3, <1>4 DEF RemoteUser

LEMMA TimeCalm ==
  ASSUME CalmInv, LoginInv', NEW r \in Profiles, SessionDies(r) \/ SessionIdles(r) \/ ChallengeAges(r)
  PROVE  CalmInv'
<1>1. RemoteTypeOK
  BY DEF CalmInv, LoginInv
<1>2. CASE SessionDies(r) \/ SessionIdles(r)
  <2>1. session[r] # NoSession
    BY <1>2 DEF SessionDies, SessionIdles
  <2>2. PICK s \in Handle : s # NoSession /\ session' = [session EXCEPT ![r] = s]
    BY <1>1, <1>2, <2>1, HandleChanges DEF SessionDies, SessionIdles
  <2>3. \A p \in Profiles : session'[p] = NoSession <=> session[p] = NoSession
    BY <1>1, <2>1, <2>2 DEF RemoteTypeOK
  <2>4. UNCHANGED <<rows, secret, remote, tangled, status, told, challenge>>
    BY <1>2 DEF SessionDies, SessionIdles, Others
  <2> QED
    BY <2>3, <2>4, CalmWithoutCalls
<1>3. CASE ChallengeAges(r)
  <2>1. challenge[r] \in Question /\ challenge[r] # Unasked
    BY <1>1, <1>3 DEF ChallengeAges, RemoteTypeOK
  <2>2. PICK q : q = [challenge[r] EXCEPT !.fresh = FALSE]
    OBVIOUS
  <2>3. q \in Question /\ q.key = challenge[r].key /\ q.host = challenge[r].host
    BY <2>1, <2>2 DEF Question
  <2>4. q # Unasked
    BY <2>3, NonesAreNone
  <2>5. challenge' = [challenge EXCEPT ![r] = q]
    BY <1>3, <2>2 DEF ChallengeAges
  <2>6. \A p \in Profiles : /\ challenge'[p] = Unasked <=> challenge[p] = Unasked
                            /\ challenge'[p].key = challenge[p].key /\ challenge'[p].host = challenge[p].host
    BY <1>1, <2>1, <2>3, <2>4, <2>5 DEF RemoteTypeOK
  <2>7. UNCHANGED <<rows, secret, remote, tangled, status, told, session>>
    BY <1>3 DEF ChallengeAges, Others
  <2> QED
    BY <2>6, <2>7, CalmWithoutCalls
<1> QED
  BY <1>2, <1>3

LEMMA CallCalmly ==
  ASSUME CalmInv, LoginInv', NEW i \in DOMAIN remote, remote[i] # NoCall, RemoteStep(i)
  PROVE  CalmInv'
<1>1. remote[i] \in RemoteCall
  BY Caller DEF CalmInv, LoginInv
<1> QED
  BY <1>1, LookCalm, LockCalm, AgainCalm, CachedCalm, PingCalm, ReadRowCalm, ObserveCalm, JudgeCalm,
     LoadSecretsCalm, ShakeCalm, InsertCalm, AnsweredCalm, TouchCalm, DropHandleCalm, MarkCalm,
     TellCalm, EditCalm, ClearObservedCalm, UnpinCalm, WriteRowCalm, RemoveRowCalm, CompareCalm,
     PinCalm, SettleCalm DEF RemoteStep

LEMMA CalmInit == RemoteInit => CalmInv
<1> SUFFICES ASSUME RemoteInit PROVE CalmInv
  OBVIOUS
<1>1. DOMAIN remote = {}
  BY DEF RemoteInit
<1>2. ~Tangled(remote)
  BY <1>1 DEF Tangled
<1>3. ASSUME NEW p \in Profiles PROVE Calm(p)
  <2>1. PICK h \in Hosts, k \in {NoKey} \cup (Hosts \X {1}) :
           rows[p] = [there |-> TRUE, host |-> h, pinned |-> k, stored |-> TRUE]
    BY DEF RemoteInit
  <2>2. /\ secret[p] = TRUE /\ session[p] = NoSession /\ status[p] = "disconnected" /\ told[p] = status[p]
        /\ challenge[p] = Unasked
        /\ rows[p].pinned # NoKey => rows[p].pinned[1] = rows[p].host
    BY DEF RemoteInit
  <2>3. RowCalm(p)
    BY <2>1, <2>2 DEF RowCalm
  <2> QED
    BY <1>1, <2>2, <2>3 DEF Calm, CallsCalm, StatusCalm
<1> QED
  BY <1>2, <1>3, LoginInit DEF CalmInv

LEMMA CalmNext == CalmInv /\ [RemoteNext]_remoteVars => CalmInv'
<1> SUFFICES ASSUME CalmInv, [RemoteNext]_remoteVars PROVE CalmInv'
  OBVIOUS
<1>1. LoginInv'
  BY LoginStep DEF CalmInv
<1>2. CASE RemoteUser
  BY <1>1, <1>2, UserCalm
<1>3. ASSUME NEW i \in DOMAIN remote, remote[i] # NoCall, RemoteStep(i) PROVE CalmInv'
  BY <1>1, <1>3, CallCalmly
<1>4. ASSUME NEW p \in Profiles, SessionDies(p) \/ SessionIdles(p) \/ ChallengeAges(p) PROVE CalmInv'
  BY <1>1, <1>4, TimeCalm
<1>5. ASSUME NEW h \in Hosts, SetUpAnew(h) PROVE CalmInv'
  <2>1. UNCHANGED <<rows, secret, remote, tangled, status, told, session, challenge>>
    BY <1>5 DEF SetUpAnew, Others
  <2> QED
    BY <1>1, <2>1, CalmWithoutCalls
<1>6. CASE UNCHANGED remoteVars
  <2>1. UNCHANGED <<rows, secret, remote, tangled, status, told, session, challenge>>
    BY <1>6 DEF remoteVars
  <2> QED
    BY <1>1, <2>1, CalmWithoutCalls
<1> QED
  BY <1>2, <1>3, <1>4, <1>5, <1>6 DEF RemoteNext

LEMMA CalmInvariant == RemoteSpec => []CalmInv
  BY CalmInit, CalmNext, PTL DEF RemoteSpec

LEMMA CalmGives == CalmInv => StatusIsTrue
<1> SUFFICES ASSUME CalmInv, RemoteRest, ~tangled, NEW p \in Profiles
             PROVE  /\ told[p] = status[p]
                    /\ status[p] = "connected" <=> session[p] # NoSession
                    /\ ~rows[p].there => session[p] = NoSession /\ challenge[p] = Unasked
                    /\ rows[p].there /\ rows[p].pinned # NoKey => rows[p].pinned[1] = rows[p].host
                    /\ rows[p].there => (rows[p].stored <=> secret[p])
  BY DEF StatusIsTrue
<1>1. Calm(p)
  BY DEF CalmInv
<1>2. \A j \in DOMAIN remote : ~Mine(p, j)
  BY DEF RemoteRest, Mine
<1> QED
  BY <1>1, <1>2 DEF Calm, StatusCalm, RowCalm

\* However calls about a profile interleave, as long as no disconnect, reaping, edit or
\* deletion crosses a connect: once they have ended, the page has been told the status
\* there is, it says connected exactly when there is a session, a deleted profile has left
\* neither a session nor a challenge, and a pinned key is one of the profile's host
\* (force_connect, publish_status, network_profile_delete, trust_observed_host_key).
THEOREM TheStatusIsTrue == RemoteSpec => []StatusIsTrue
  BY CalmGives, CalmInvariant, PTL

-----------------------------------------------------------------------------
(* The inductive invariant of the panels.                                  *)

\* The entry of the operation has left its directory for good.
Gone == op.phase # "none" /\ op.ok /\ op.kind # "copy"

WorkFits ==
    op # NoWork =>
        /\ op.dest # op.entry[1]
        /\ op.plan \in {NoPlan, Targets(op.kind, op.entry, op.dest)}
        /\ op.phase \notin {"done", "told"} => ~op.ok
        /\ Gone => op.entry \notin disk

\* A call has read rows of its directory, and a tab shows and collects rows of its own; the
\* call it waits for is about its directory.
OwnCall(c) == \A e \in c.seen \cup c.out : e[1] = c.uri

OwnTab(t, cs) ==
    /\ \A e \in t.rows \cup t.aside : e[1] = t.uri
    /\ t.req # None => t.req \in DOMAIN cs /\ cs[t.req].uri = t.uri

Own(ps, cs) ==
    /\ \A r \in DOMAIN cs : OwnCall(cs[r])
    /\ \A p \in Panels : \A i \in DOMAIN ps[p].tabs : OwnTab(ps[p].tabs[i], cs)

\* A call the page will hear the end of.
Coming(c) ==
    \/ c.answer \in {"pending", "refused"} /\ c.run = "no"
    \/ c.uri \notin Once /\ c.answer \in {"ok", "delivered"} /\ c.run \in {"yes", "complete", "broken"}
    \/ c.uri \in Once /\ c.answer = "ok" /\ c.run = "no"

\* The only tab of a pane waits for the last listing of its pane, if for any.
AloneTab(t, cs, p) ==
    /\ t.kind = "directory"
    /\ t.load = "loading" => t.req # None
    /\ t.load = "error" => t.req = None
    /\ t.req # None => /\ Coming(cs[t.req]) /\ cs[t.req].pane = p
                       /\ \A s \in DOMAIN cs : s > t.req => cs[s].pane # p

Alone(ps, cs, p) == Len(ps[p].tabs) = 1 /\ AloneTab(ps[p].tabs[1], cs, p)

\* If a tab still shows e it says that it failed, or a listing collects its rows anew; and
\* none brings e back.
RidTab(t, cs, e) ==
    /\ e \in t.rows => t.load = "error" \/ (t.req # None /\ t.bg = t.req)
    /\ e \notin t.aside
    /\ t.req # None => e \notin cs[t.req].seen \cup cs[t.req].out

Rid(ps, cs, e) == \A p \in Panels : RidTab(ps[p].tabs[1], cs, e)

PanelInv ==
    /\ TypeOK /\ WorkFits /\ Own(panes, calls)
    /\ ~mixed => \A p \in Panels : Alone(panes, calls, p)
    /\ ~mixed /\ op.phase = "told" /\ Gone => Rid(panes, calls, op.entry)

-----------------------------------------------------------------------------
(* Tabs.                                                                   *)

Place == Uris \cup {FileUri}

LEMMA NoneIsRequest == None \in Requests
  BY PanelConstants DEF None, Requests

LEMMA NewTabIs ==
  ASSUME NEW u \in Place, NEW back \in Seq(Place), NEW forward \in Seq(Place)
  PROVE  LET t == ApplyNavigation(NewTab(u), u, back, forward)
         IN  /\ t \in Tab /\ t.uri = u /\ t.kind = "directory" /\ t.load = "loading" /\ t.req = None
             /\ t.rows = {} /\ t.aside = {}
  BY NoneIsRequest DEF ApplyNavigation, NewTab, Tab, Place

LEMMA FreshTab ==
  ASSUME NEW u \in Place
  PROVE  /\ NewTab(u) \in Tab /\ NewTab(u).uri = u /\ NewTab(u).kind = "directory"
         /\ NewTab(u).req = None /\ NewTab(u).rows = {} /\ NewTab(u).aside = {}
  BY NoneIsRequest DEF NewTab, Tab, Place

\* A soft refresh keeps the rows, unless the tab failed before.
LEMMA SoftRefreshIs ==
  ASSUME NEW t \in Tab
  PROVE  LET s == SoftRefresh(t, t.uri)
         IN  /\ s \in Tab /\ s.uri = t.uri /\ s.load # "error" /\ s.rows \subseteq t.rows
             /\ t.kind = "directory" => s.kind = "directory"
<1>1. t.uri \in Place /\ t.back \in Seq(Place) /\ t.forward \in Seq(Place)
  BY DEF Tab, Place
<1>2. CASE t.load # "error"
  BY <1>2, NoneIsRequest DEF SoftRefresh, Tab
<1>3. CASE t.load = "error"
  <2>1. SoftRefresh(t, t.uri) = ApplyNavigation(NewTab(t.uri), t.uri, t.back, t.forward)
    BY <1>3 DEF SoftRefresh, ApplyNavigation
  <2> QED
    BY <1>1, <2>1, NewTabIs
<1> QED
  BY <1>2, <1>3

LEMMA PlacesBack ==
  ASSUME NEW s \in Seq(Place)
  PROVE  /\ s # <<>> => /\ Last(s) \in Place /\ Front(s) \in Seq(Place)
                        /\ Head(s) \in Place /\ Tail(s) \in Seq(Place)
         /\ \A u \in Place : Append(s, u) \in Seq(Place) /\ <<u>> \o s \in Seq(Place)
  BY DEF Last, Front

-----------------------------------------------------------------------------
(* A listing starts.                                                       *)

\* The active tab of p becomes s, which waits for the new call.
Started(ps, cs, ps2, cs2, p, s) ==
    LET r == Len(cs) + 1
    IN  /\ ps2 \in [Panels -> Pane] /\ cs2 \in Seq(Call) /\ Len(cs2) = r
        /\ \A q \in Panels : q # p => ps2[q] = ps[q]
        /\ ps2[p].active = ps[p].active /\ Len(ps2[p].tabs) = Len(ps[p].tabs)
        /\ \A i \in DOMAIN ps[p].tabs : ps2[p].tabs[i] = IF i = ps[p].active THEN s ELSE ps[p].tabs[i]
        /\ \A i \in DOMAIN cs : cs2[i] = cs[i]
        /\ cs2[r].uri = s.uri /\ cs2[r].pane = p /\ cs2[r].answer = "pending" /\ cs2[r].run = "no"
        /\ cs2[r].seen = {} /\ cs2[r].out = {}
        /\ s.req = r /\ s.aside = {}

LEMMA StartListingIs ==
  ASSUME NEW ps \in [Panels -> Pane], NEW cs \in Seq(Call), NEW p \in Panels,
         ps[p].active \in DOMAIN ps[p].tabs, Len(cs) < MaxRequests,
         NEW tab \in Tab, NEW background \in BOOLEAN
  PROVE  LET w == StartListing([panes |-> ps, calls |-> cs], p, tab, background)
         IN  \E s \in Tab :
               /\ Started(ps, cs, w.panes, w.calls, p, s)
               /\ s.uri = tab.uri /\ s.rows = tab.rows /\ s.kind = tab.kind
               /\ s.load = (IF background THEN tab.load ELSE "loading")
               /\ background => s.bg = s.req
<1> DEFINE r == Len(cs) + 1
           s == [tab EXCEPT !.req = r, !.aside = {}, !.bg = IF background THEN r ELSE None,
                            !.load = IF background THEN tab.load ELSE "loading"]
           c == [uri |-> tab.uri, pane |-> p, answer |-> "pending", run |-> "no", seen |-> {}, out |-> {}]
           w == StartListing([panes |-> ps, calls |-> cs], p, tab, background)
<1>1. r \in Requests /\ r # None
  BY PanelConstants DEF Requests, None
<1> HIDE DEF r
<1>2. /\ s \in Tab /\ s.req = r /\ s.aside = {} /\ s.uri = tab.uri /\ s.rows = tab.rows /\ s.kind = tab.kind
      /\ s.load = (IF background THEN tab.load ELSE "loading") /\ (background => s.bg = r)
  BY <1>1, NoneIsRequest DEF Tab
<1>3. c \in Call
  BY DEF Call, Tab
<1>4. /\ w.calls = Append(cs, c)
      /\ w.panes = [ps EXCEPT ![p] = [ps[p] EXCEPT !.tabs = [ps[p].tabs EXCEPT ![ps[p].active] = s]]]
  BY DEF StartListing, r
<1> HIDE DEF s, w
<1>5. [ps[p].tabs EXCEPT ![ps[p].active] = s] \in Seq(Tab)
  BY <1>2 DEF Pane
<1>6. w.panes \in [Panels -> Pane]
  BY <1>4, <1>5 DEF Pane
<1>7. w.calls \in Seq(Call) /\ Len(w.calls) = r /\ w.calls[r] = c /\ \A i \in DOMAIN cs : w.calls[i] = cs[i]
  BY <1>3, <1>4 DEF r
<1>8. /\ \A q \in Panels : q # p => w.panes[q] = ps[q]
      /\ w.panes[p].active = ps[p].active
      /\ w.panes[p].tabs = [ps[p].tabs EXCEPT ![ps[p].active] = s]
  BY <1>4 DEF Pane
<1>9. /\ Len(w.panes[p].tabs) = Len(ps[p].tabs)
      /\ \A i \in DOMAIN ps[p].tabs : w.panes[p].tabs[i] = IF i = ps[p].active THEN s ELSE ps[p].tabs[i]
  BY <1>5, <1>8 DEF Pane
<1>10. Started(ps, cs, w.panes, w.calls, p, s)
  BY <1>2, <1>6, <1>7, <1>8, <1>9 DEF Started, r
<1> QED
  BY <1>2, <1>10 DEF w

\* The rows of the new tab being its own, everything stays its owner's.
LEMMA StartedOwn ==
  ASSUME NEW ps \in [Panels -> Pane], NEW cs \in Seq(Call), Own(ps, cs),
         NEW ps2, NEW cs2, NEW p \in Panels, NEW s \in Tab, Started(ps, cs, ps2, cs2, p, s),
         \A e \in s.rows : e[1] = s.uri
  PROVE  Own(ps2, cs2)
<1>1. \A q \in Panels : ps[q].tabs \in Seq(Tab) /\ ps2[q].tabs \in Seq(Tab)
  BY DEF Started, Pane
<1>2. \A i \in DOMAIN cs2 : i \in DOMAIN cs \/ i = Len(cs) + 1
  BY DEF Started
<1>3. Len(cs) + 1 \in DOMAIN cs2 /\ \A i \in DOMAIN cs : i \in DOMAIN cs2
  BY DEF Started
<1>4. \A i \in DOMAIN cs2 : OwnCall(cs2[i])
  BY <1>2 DEF Started, Own, OwnCall
<1>5. OwnTab(s, cs2)
  BY <1>3 DEF OwnTab, Started
<1>6. \A t : OwnTab(t, cs) => OwnTab(t, cs2)
  BY <1>3 DEF OwnTab, Started
<1>7. ASSUME NEW q \in Panels, NEW i \in DOMAIN ps2[q].tabs PROVE OwnTab(ps2[q].tabs[i], cs2)
  <2>1. i \in DOMAIN ps[q].tabs
    BY <1>1, <1>7 DEF Started
  <2>2. ps2[q].tabs[i] = s \/ ps2[q].tabs[i] = ps[q].tabs[i]
    BY <2>1 DEF Started
  <2>3. OwnTab(ps[q].tabs[i], cs)
    BY <2>1 DEF Own
  <2> QED
    BY <1>5, <1>6, <2>2, <2>3
<1> QED
  BY <1>4, <1>7 DEF Own

LEMMA StartedAlone ==
  ASSUME NEW ps \in [Panels -> Pane], NEW cs \in Seq(Call), Own(ps, cs),
         NEW ps2, NEW cs2, NEW p \in Panels, NEW s \in Tab, Started(ps, cs, ps2, cs2, p, s),
         ps[p].active \in DOMAIN ps[p].tabs,
         \A q \in Panels : Alone(ps, cs, q), s.kind = "directory", s.load # "error"
  PROVE  \A q \in Panels : Alone(ps2, cs2, q)
<1> SUFFICES ASSUME NEW q \in Panels PROVE Alone(ps2, cs2, q)
  OBVIOUS
<1>1. ps[q].tabs \in Seq(Tab) /\ Len(ps[q].tabs) = 1 /\ 1 \in DOMAIN ps[q].tabs
  BY DEF Alone, Pane
<1>2. \A i \in DOMAIN cs2 : i \in DOMAIN cs \/ i = Len(cs) + 1
  BY DEF Started
<1>3. CASE q = p
  <2>1. ps[p].active = 1
    BY <1>1, <1>3
  <2>2. ps2[p].tabs[1] = s /\ Len(ps2[p].tabs) = 1
    BY <1>1, <1>3, <2>1 DEF Started
  <2>3. \A i \in DOMAIN cs2 : ~(i > s.req)
    BY <1>2 DEF Started
  <2>4. Coming(cs2[s.req]) /\ cs2[s.req].pane = p /\ s.req # None
    BY DEF Coming, Started, None
  <2> QED
    BY <1>3, <2>2, <2>3, <2>4 DEF Alone, AloneTab
<1>4. CASE q # p
  <2>1. PICK t : t = ps[q].tabs[1]
    OBVIOUS
  <2>2. AloneTab(t, cs, q) /\ ps2[q] = ps[q] /\ OwnTab(t, cs)
    BY <1>1, <1>4, <2>1 DEF Alone, Started, Own
  <2>3. ASSUME t.req # None
        PROVE  /\ t.req \in DOMAIN cs /\ Coming(cs2[t.req]) /\ cs2[t.req].pane = q
               /\ \A i \in DOMAIN cs2 : i > t.req => cs2[i].pane # q
    BY <1>2, <1>4, <2>2, <2>3 DEF AloneTab, OwnTab, Started
  <2> QED
    BY <1>1, <2>1, <2>2, <2>3 DEF Alone, AloneTab
<1> QED
  BY <1>3, <1>4

Sound(ps, cs) ==
    /\ ps \in [Panels -> Pane] /\ \A p \in Panels : ps[p].active \in DOMAIN ps[p].tabs
    /\ cs \in Seq(Call) /\ Own(ps, cs)

\* What the start of at most one listing, of p, leaves true of the window: alone, p is rid of
\* whatever it showed.
Begun(ps, cs, ps2, cs2, p) ==
    /\ Sound(ps2, cs2) /\ Len(cs2) <= Len(cs) + 1
    /\ (\A q \in Panels : Alone(ps, cs, q)) =>
           /\ \A q \in Panels : Alone(ps2, cs2, q)
           /\ \A e : RidTab(ps2[p].tabs[1], cs2, e)
           /\ \A e : \A q \in Panels \ {p} : RidTab(ps[q].tabs[1], cs, e) => RidTab(ps2[q].tabs[1], cs2, e)

LEMMA AloneActive ==
  ASSUME NEW ps, NEW cs, Sound(ps, cs), NEW p \in Panels, Alone(ps, cs, p)
  PROVE  /\ ps[p].active = 1 /\ 1 \in DOMAIN ps[p].tabs /\ Active(ps, p) = ps[p].tabs[1]
         /\ OwnTab(ps[p].tabs[1], cs) /\ ps[p].tabs[1] \in Tab
<1>1. ps[p].tabs \in Seq(Tab) /\ Len(ps[p].tabs) = 1
  BY DEF Sound, Alone, Pane
<1> QED
  BY <1>1 DEF Sound, Own, Active

LEMMA StartedBegun ==
  ASSUME NEW ps, NEW cs, Sound(ps, cs), NEW ps2, NEW cs2, NEW p \in Panels, NEW s \in Tab,
         Started(ps, cs, ps2, cs2, p, s),
         \A e \in s.rows : e[1] = s.uri, s.kind = "directory", s.load # "error",
         s.rows = {} \/ s.bg = s.req
  PROVE  Begun(ps, cs, ps2, cs2, p)
<1>1. ps \in [Panels -> Pane] /\ cs \in Seq(Call) /\ Own(ps, cs) /\ ps[p].active \in DOMAIN ps[p].tabs
  BY DEF Sound
<1>2. Own(ps2, cs2)
  BY <1>1, StartedOwn
<1>3. \A q \in Panels : ps2[q].active \in DOMAIN ps2[q].tabs
  <2>1. \A q \in Panels : ps[q].tabs \in Seq(Tab) /\ ps2[q].tabs \in Seq(Tab)
    BY <1>1 DEF Started, Pane
  <2> QED
    BY <2>1 DEF Started, Sound
<1>4. Sound(ps2, cs2) /\ Len(cs2) <= Len(cs) + 1
  BY <1>1, <1>2, <1>3 DEF Started, Sound
<1>5. ASSUME \A q \in Panels : Alone(ps, cs, q)
      PROVE  /\ \A q \in Panels : Alone(ps2, cs2, q)
             /\ \A e : RidTab(ps2[p].tabs[1], cs2, e)
             /\ \A e : \A q \in Panels \ {p} : RidTab(ps[q].tabs[1], cs, e) => RidTab(ps2[q].tabs[1], cs2, e)
  <2>1. \A q \in Panels : Alone(ps2, cs2, q)
    BY <1>1, <1>5, StartedAlone
  <2>2. ps2[p].tabs[1] = s /\ s.req \in DOMAIN cs2 /\ s.req # None
    BY <1>1, <1>5, AloneActive DEF Started, None
  <2>3. \A e : RidTab(s, cs2, e)
    BY <2>2 DEF RidTab, Started
  <2>4. ASSUME NEW e, NEW q \in Panels \ {p}, RidTab(ps[q].tabs[1], cs, e)
        PROVE  RidTab(ps2[q].tabs[1], cs2, e)
    <3>1. PICK t : t = ps[q].tabs[1]
      OBVIOUS
    <3>2. OwnTab(t, cs) /\ ps2[q].tabs[1] = t
      BY <1>5, <2>4, <3>1, AloneActive DEF Started
    <3>3. t.req # None => cs2[t.req] = cs[t.req]
      BY <3>2 DEF OwnTab, Started
    <3> QED
      BY <2>4, <3>1, <3>2, <3>3 DEF RidTab
  <2> QED
    BY <2>1, <2>2, <2>3, <2>4
<1> QED
  BY <1>4, <1>5 DEF Begun

LEMMA ListingBegins ==
  ASSUME NEW ps, NEW cs, Sound(ps, cs), NEW p \in Panels, Len(cs) < MaxRequests,
         NEW tab \in Tab, tab.kind = "directory", \A e \in tab.rows : e[1] = tab.uri,
         NEW background \in BOOLEAN, background => tab.load # "error", ~background => tab.rows = {}
  PROVE  LET w == StartListing([panes |-> ps, calls |-> cs], p, tab, background)
         IN  Begun(ps, cs, w.panes, w.calls, p)
<1> DEFINE w == StartListing([panes |-> ps, calls |-> cs], p, tab, background)
<1>1. ps \in [Panels -> Pane] /\ cs \in Seq(Call) /\ ps[p].active \in DOMAIN ps[p].tabs
  BY DEF Sound
<1>2. PICK s \in Tab :
         /\ Started(ps, cs, w.panes, w.calls, p, s)
         /\ s.uri = tab.uri /\ s.rows = tab.rows /\ s.kind = tab.kind
         /\ s.load = (IF background THEN tab.load ELSE "loading")
         /\ background => s.bg = s.req
  BY <1>1, StartListingIs
<1> HIDE DEF w
<1>3. (\A e \in s.rows : e[1] = s.uri) /\ s.kind = "directory" /\ s.load # "error" /\ (s.rows = {} \/ s.bg = s.req)
  BY <1>2
<1> QED
  BY <1>2, <1>3, StartedBegun DEF w

LEMMA RefreshBegins ==
  ASSUME NEW ps, NEW cs, Sound(ps, cs), NEW p \in Panels, Len(cs) < MaxRequests, NEW soft \in BOOLEAN
  PROVE  LET w == RefreshPanel([panes |-> ps, calls |-> cs], p, soft)
         IN  Begun(ps, cs, w.panes, w.calls, p)
<1> DEFINE w == RefreshPanel([panes |-> ps, calls |-> cs], p, soft)
           tab == Active(ps, p)
           fresh == ApplyNavigation(tab, tab.uri, tab.back, tab.forward)
           next == IF soft THEN SoftRefresh(tab, tab.uri) ELSE fresh
<1>1. tab \in Tab /\ OwnTab(tab, cs)
  <2>1. ps[p].tabs \in Seq(Tab) /\ ps[p].active \in DOMAIN ps[p].tabs
    BY DEF Sound, Pane
  <2> QED
    BY <2>1 DEF Active, Sound, Own
<1>2. CASE tab.kind # "directory"
  <2>1. w.panes = ps /\ w.calls = cs
    BY <1>2 DEF RefreshPanel
  <2>2. ~Alone(ps, cs, p)
    BY <1>2, AloneActive DEF Alone, AloneTab
  <2>3. Len(cs) \in Nat
    BY DEF Sound
  <2> QED
    BY <2>1, <2>2, <2>3 DEF Begun
<1>3. CASE tab.kind = "directory"
  <2>1. w = StartListing([panes |-> ps, calls |-> cs], p, next, soft)
    BY <1>3 DEF RefreshPanel
  <2>2. /\ fresh \in Tab /\ fresh.kind = "directory" /\ fresh.rows = {} /\ fresh.uri = tab.uri
    <3>1. fresh = ApplyNavigation(NewTab(tab.uri), tab.uri, tab.back, tab.forward)
      BY DEF ApplyNavigation
    <3>2. tab.uri \in Place /\ tab.back \in Seq(Place) /\ tab.forward \in Seq(Place)
      BY <1>1 DEF Tab, Place
    <3> HIDE DEF fresh, tab
    <3> QED
      BY <3>1, <3>2, NewTabIs
  <2>3. /\ next \in Tab /\ next.kind = "directory" /\ (soft => next.load # "error") /\ (~soft => next.rows = {})
        /\ \A e \in next.rows : e[1] = next.uri
    BY <1>1, <1>3, <2>2, SoftRefreshIs DEF OwnTab
  <2> HIDE DEF next, w
  <2> QED
    BY <2>1, <2>3, ListingBegins DEF w
<1> QED
  BY <1>2, <1>3

-----------------------------------------------------------------------------
(* What the user does.                                                     *)

LEMMA InvSound ==
  ASSUME PanelInv
  PROVE  /\ TypeOK /\ WorkFits /\ Sound(panes, calls)
         /\ \A p \in Panels : panes[p].tabs \in Seq(Tab) /\ Active(panes, p) \in Tab /\ OwnTab(Active(panes, p), calls)
<1>1. TypeOK /\ WorkFits /\ Sound(panes, calls)
  BY DEF PanelInv, TypeOK, Sound
<1>2. \A p \in Panels : panes[p].tabs \in Seq(Tab) /\ panes[p].active \in DOMAIN panes[p].tabs
  BY <1>1 DEF Sound, Pane
<1> QED
  BY <1>1, <1>2 DEF Active, Sound, Own

LEMMA BegunKeeps ==
  ASSUME PanelInv, NEW p \in Panels, Begun(panes, calls, panes', calls', p), Len(calls') <= MaxRequests,
         acts' \in 0 .. MaxActs, UNCHANGED <<disk, op, mixed>>
  PROVE  PanelInv'
<1>1. TypeOK /\ WorkFits /\ Sound(panes', calls')
  BY InvSound DEF Begun
<1>2. TypeOK' /\ Own(panes', calls')
  BY <1>1 DEF TypeOK, Sound
<1>3. WorkFits'
  BY <1>1 DEF WorkFits, Gone
<1>4. ASSUME ~mixed PROVE \A q \in Panels : Alone(panes', calls', q)
  BY <1>4 DEF PanelInv, Begun
<1>5. ASSUME ~mixed, op.phase = "told", Gone PROVE Rid(panes', calls', op.entry)
  BY <1>5 DEF PanelInv, Begun, Rid
<1> QED
  BY <1>2, <1>3, <1>4, <1>5 DEF PanelInv, Gone

LEMMA ListingKeeps ==
  ASSUME PanelInv, NEW p \in Panels, Room(1), NEW u \in Place, NEW back \in Seq(Place), NEW forward \in Seq(Place),
         Becomes(StartListing(Window, p, ApplyNavigation(Active(panes, p), u, back, forward), FALSE)),
         acts' \in 0 .. MaxActs, UNCHANGED <<disk, op, mixed>>
  PROVE  PanelInv'
<1> DEFINE tab == ApplyNavigation(Active(panes, p), u, back, forward)
           w == StartListing([panes |-> panes, calls |-> calls], p, tab, FALSE)
<1>1. tab \in Tab /\ tab.kind = "directory" /\ tab.rows = {}
  <2>1. tab = ApplyNavigation(NewTab(u), u, back, forward)
    BY DEF ApplyNavigation
  <2> HIDE DEF tab
  <2> QED
    BY <2>1, NewTabIs
<1>2. panes' = w.panes /\ calls' = w.calls
  BY DEF Becomes, Window
<1>3. Sound(panes, calls) /\ Len(calls) < MaxRequests /\ Len(calls) \in Nat /\ MaxRequests \in Nat
  BY InvSound, PanelConstants DEF Room, TypeOK
<1>4. Begun(panes, calls, w.panes, w.calls, p)
  <2> HIDE DEF tab
  <2> QED
    BY <1>1, <1>3, ListingBegins
<1> HIDE DEF w
<1>5. Len(calls') <= MaxRequests
  <2>1. Len(calls') <= Len(calls) + 1 /\ calls' \in Seq(Call)
    BY <1>2, <1>4 DEF Begun, Sound
  <2> QED
    BY <1>3, <2>1
<1> QED
  BY <1>2, <1>4, <1>5, BegunKeeps

LEMMA RefreshKeeps ==
  ASSUME PanelInv, NEW p \in Panels, Room(1), NEW soft \in BOOLEAN, Becomes(RefreshPanel(Window, p, soft)),
         acts' \in 0 .. MaxActs, UNCHANGED <<disk, op, mixed>>
  PROVE  PanelInv'
<1> DEFINE w == RefreshPanel([panes |-> panes, calls |-> calls], p, soft)
<1>1. panes' = w.panes /\ calls' = w.calls
  BY DEF Becomes, Window
<1>2. Sound(panes, calls) /\ Len(calls) < MaxRequests /\ Len(calls) \in Nat /\ MaxRequests \in Nat
  BY InvSound, PanelConstants DEF Room, TypeOK
<1>3. Begun(panes, calls, w.panes, w.calls, p)
  BY <1>2, RefreshBegins
<1> HIDE DEF w
<1>4. Len(calls') <= MaxRequests
  <2>1. Len(calls') <= Len(calls) + 1 /\ calls' \in Seq(Call)
    BY <1>1, <1>3 DEF Begun, Sound
  <2> QED
    BY <1>2, <2>1
<1> QED
  BY <1>1, <1>3, <1>4, BegunKeeps

LEMMA NavigationKeeps ==
  ASSUME PanelInv, NEW p \in Panels, acts' \in 0 .. MaxActs,
         (\E u \in Uris : Navigate(p, u)) \/ GoBack(p) \/ GoForward(p) \/ Refresh(p) \/ WatchChanged(p)
  PROVE  PanelInv'
<1> DEFINE tab == Active(panes, p)
<1>1. tab \in Tab /\ tab.uri \in Place /\ tab.back \in Seq(Place) /\ tab.forward \in Seq(Place)
  BY InvSound DEF Tab, Place
<1> HIDE DEF tab
<1>2. ASSUME NEW u \in Uris, Navigate(p, u) PROVE PanelInv'
  <2>1. PICK back, forward :
           /\ back = IF u # tab.uri THEN Append(tab.back, tab.uri) ELSE tab.back
           /\ forward = IF u # tab.uri THEN <<>> ELSE tab.forward
    OBVIOUS
  <2>2. back \in Seq(Place) /\ forward \in Seq(Place) /\ u \in Place
    BY <1>1, <2>1, PlacesBack DEF Place
  <2>3. /\ Room(1) /\ UNCHANGED <<disk, op, mixed>>
        /\ Becomes(StartListing(Window, p, ApplyNavigation(Active(panes, p), u, back, forward), FALSE))
    BY <1>2, <2>1 DEF Navigate, tab
  <2> QED
    BY <2>2, <2>3, ListingKeeps
<1>3. CASE GoBack(p)
  <2>1. tab.back # <<>> /\ Room(1) /\ UNCHANGED <<disk, op, mixed>>
    BY <1>3 DEF GoBack, tab
  <2>2. Last(tab.back) \in Place /\ Front(tab.back) \in Seq(Place) /\ <<tab.uri>> \o tab.forward \in Seq(Place)
    BY <1>1, <2>1, PlacesBack
  <2>3. Becomes(StartListing(Window, p, ApplyNavigation(Active(panes, p), Last(tab.back), Front(tab.back),
                                                        <<tab.uri>> \o tab.forward), FALSE))
    BY <1>3 DEF GoBack, tab
  <2> QED
    BY <2>1, <2>2, <2>3, ListingKeeps
<1>4. CASE GoForward(p)
  <2>1. tab.forward # <<>> /\ Room(1) /\ UNCHANGED <<disk, op, mixed>>
    BY <1>4 DEF GoForward, tab
  <2>2. Head(tab.forward) \in Place /\ Tail(tab.forward) \in Seq(Place) /\ Append(tab.back, tab.uri) \in Seq(Place)
    BY <1>1, <2>1, PlacesBack
  <2>3. Becomes(StartListing(Window, p, ApplyNavigation(Active(panes, p), Head(tab.forward),
                                                        Append(tab.back, tab.uri), Tail(tab.forward)), FALSE))
    BY <1>4 DEF GoForward, tab
  <2> QED
    BY <2>1, <2>2, <2>3, ListingKeeps
<1>5. CASE Refresh(p)
  BY <1>5, RefreshKeeps DEF Refresh
<1>6. CASE WatchChanged(p)
  BY <1>6, RefreshKeeps DEF WatchChanged
<1> QED
  BY <1>2, <1>3, <1>4, <1>5, <1>6

LEMMA OtherIsPanel == \A p \in Panels : Other(p) \in Panels
  BY DEF Other, Panels

\* A step about tabs alone opens a second tab or swaps the panes, or all panes keep all
\* they have.
LEMMA TabsKeep ==
  ASSUME PanelInv, acts' \in 0 .. MaxActs, UNCHANGED <<calls, disk, op>>,
         panes' \in [Panels -> Pane], \A p \in Panels : panes'[p].active \in DOMAIN panes'[p].tabs,
         \A p \in Panels : \A i \in DOMAIN panes'[p].tabs : OwnTab(panes'[p].tabs[i], calls),
         \/ mixed' = TRUE
         \/ mixed' = mixed /\ (~mixed => \A p \in Panels : panes'[p].tabs = panes[p].tabs)
  PROVE  PanelInv'
<1>1. TypeOK /\ WorkFits
  BY InvSound
<1>2. mixed' \in BOOLEAN
  BY <1>1 DEF TypeOK
<1>3. TypeOK'
  BY <1>1, <1>2 DEF TypeOK
<1>4. WorkFits'
  BY <1>1 DEF WorkFits, Gone
<1>5. Own(panes', calls')
  BY DEF Own, PanelInv
<1>6. ASSUME ~mixed' PROVE \A p \in Panels : Alone(panes', calls', p)
  BY <1>6 DEF PanelInv, Alone
<1>7. ASSUME ~mixed', op.phase = "told", Gone PROVE Rid(panes', calls', op.entry)
  BY <1>7 DEF PanelInv, Rid
<1> QED
  BY <1>3, <1>4, <1>5, <1>6, <1>7 DEF PanelInv, Gone

LEMMA AddTabKeeps ==
  ASSUME PanelInv, NEW p \in Panels, NEW tab \in Tab, OwnTab(tab, calls), AddTab(p, tab), acts' \in 0 .. MaxActs
  PROVE  PanelInv'
<1>1. /\ panes \in [Panels -> Pane] /\ \A q \in Panels : panes[q].active \in DOMAIN panes[q].tabs
      /\ Own(panes, calls)
  BY InvSound DEF Sound
<1> DEFINE new == [active |-> Len(panes[p].tabs) + 1, tabs |-> Append(panes[p].tabs, tab)]
<1>2. panes[p].tabs \in Seq(Tab)
  BY InvSound
<1>3. /\ new \in Pane /\ new.active \in DOMAIN new.tabs
      /\ \A i \in DOMAIN new.tabs : new.tabs[i] = tab \/ (i \in DOMAIN panes[p].tabs /\ new.tabs[i] = panes[p].tabs[i])
  BY <1>2 DEF Pane
<1>4. panes' = [panes EXCEPT ![p] = new] /\ mixed' = TRUE /\ UNCHANGED <<calls, disk, op>>
  BY DEF AddTab
<1> HIDE DEF new
<1>5. panes' \in [Panels -> Pane] /\ \A q \in Panels : panes'[q] = IF q = p THEN new ELSE panes[q]
  BY <1>1, <1>3, <1>4
<1>6. \A q \in Panels : panes'[q].active \in DOMAIN panes'[q].tabs
  BY <1>1, <1>3, <1>5
<1>7. \A q \in Panels : \A i \in DOMAIN panes'[q].tabs : OwnTab(panes'[q].tabs[i], calls)
  BY <1>1, <1>3, <1>5 DEF Own
<1> QED
  BY <1>4, <1>5, <1>6, <1>7, TabsKeep

LEMMA OpenKeeps ==
  ASSUME PanelInv, NEW p \in Panels, acts' \in 0 .. MaxActs, (\E u \in Uris : OpenTab(p, u)) \/ OpenContentTab(p)
  PROVE  PanelInv'
<1>1. ASSUME NEW u \in Uris, OpenTab(p, u) PROVE PanelInv'
  <2> DEFINE source == Active(panes, p)
             clone == [NewTab(u) EXCEPT !.rows = source.rows, !.load = source.load]
  <2>1. source \in Tab /\ OwnTab(source, calls)
    BY InvSound
  <2>2. u \in Place /\ NewTab(u) \in Tab /\ OwnTab(NewTab(u), calls)
    BY FreshTab DEF OwnTab, Place
  <2>3. clone \in Tab /\ (source.uri = u => OwnTab(clone, calls))
    <3>1. PICK n \in Tab : n = NewTab(u) /\ n.uri = u /\ n.req = None /\ n.aside = {}
      BY <2>2, FreshTab
    <3>2. PICK t \in Tab : t = source /\ OwnTab(t, calls)
      BY <2>1
    <3>3. LET k == [n EXCEPT !.rows = t.rows, !.load = t.load]
          IN  k \in Tab /\ k.rows = t.rows /\ k.aside = {} /\ k.req = None /\ k.uri = u
      BY <3>1 DEF Tab
    <3> QED
      BY <3>1, <3>2, <3>3 DEF OwnTab
  <2> HIDE DEF clone
  <2>4. (AddTab(p, clone) /\ source.uri = u) \/ AddTab(p, NewTab(u))
    BY <1>1 DEF OpenTab, clone
  <2> QED
    BY <2>2, <2>3, <2>4, AddTabKeeps
<1>2. CASE OpenContentTab(p)
  <2> DEFINE tab == [NewTab(FileUri) EXCEPT !.kind = "content", !.load = "loaded"]
  <2>1. tab \in Tab /\ OwnTab(tab, calls)
    <3>1. PICK n \in Tab : n = NewTab(FileUri) /\ n.rows = {} /\ n.req = None /\ n.aside = {}
      BY FreshTab DEF Place
    <3>2. LET k == [n EXCEPT !.kind = "content", !.load = "loaded"]
          IN  k \in Tab /\ k.rows = {} /\ k.aside = {} /\ k.req = None
      BY <3>1 DEF Tab
    <3> QED
      BY <3>1, <3>2 DEF OwnTab
  <2>2. AddTab(Other(p), tab)
    BY <1>2 DEF OpenContentTab
  <2> QED
    BY <2>1, <2>2, OtherIsPanel, AddTabKeeps
<1> QED
  BY <1>1, <1>2

LEMMA SwitchKeeps ==
  ASSUME PanelInv, NEW p \in Panels, NEW i, SwitchTab(p, i), acts' \in 0 .. MaxActs
  PROVE  PanelInv'
<1>1. /\ panes \in [Panels -> Pane] /\ \A q \in Panels : panes[q].active \in DOMAIN panes[q].tabs
      /\ Own(panes, calls)
  BY InvSound DEF Sound
<1>2. /\ i \in DOMAIN panes[p].tabs /\ i \in Nat /\ panes' = [panes EXCEPT ![p] = [panes[p] EXCEPT !.active = i]]
      /\ UNCHANGED <<calls, disk, op, mixed>>
  BY InvSound DEF SwitchTab
<1>3. /\ panes' \in [Panels -> Pane]
      /\ \A q \in Panels : panes'[q].tabs = panes[q].tabs /\ panes'[q].active \in DOMAIN panes'[q].tabs
  BY <1>1, <1>2 DEF Pane
<1> QED
  BY <1>1, <1>2, <1>3, TabsKeep DEF Own

LEMMA RemoveAtIs ==
  ASSUME NEW S, NEW s \in Seq(S), NEW i \in DOMAIN s
  PROVE  /\ RemoveAt(s, i) \in Seq(S) /\ Len(RemoveAt(s, i)) = Len(s) - 1
         /\ \A j \in DOMAIN RemoveAt(s, i) : \E k \in DOMAIN s : RemoveAt(s, i)[j] = s[k]
<1> DEFINE a == SubSeq(s, 1, i - 1)
           b == SubSeq(s, i + 1, Len(s))
<1>1. a \in Seq(S) /\ Len(a) = i - 1 /\ \A j \in 1 .. i - 1 : a[j] = s[j]
  OBVIOUS
<1>2. b \in Seq(S) /\ Len(b) = Len(s) - i /\ \A j \in 1 .. Len(s) - i : b[j] = s[i + j]
  OBVIOUS
<1>3. RemoveAt(s, i) = a \o b
  BY DEF RemoveAt
<1> HIDE DEF a, b
<1>4. /\ a \o b \in Seq(S) /\ Len(a \o b) = Len(s) - 1
      /\ \A j \in 1 .. Len(s) - 1 : (a \o b)[j] = IF j <= i - 1 THEN a[j] ELSE b[j - (i - 1)]
  BY <1>1, <1>2, ConcatProperties
<1>5. ASSUME NEW j \in 1 .. Len(s) - 1
      PROVE  \E k \in DOMAIN s : (a \o b)[j] = s[k]
  <2>1. CASE j <= i - 1
    BY <1>1, <1>4, <2>1
  <2>2. CASE ~(j <= i - 1)
    <3>1. j - (i - 1) \in 1 .. Len(s) - i /\ i + (j - (i - 1)) = j + 1 /\ j + 1 \in DOMAIN s
      BY <2>2
    <3>2. (a \o b)[j] = b[j - (i - 1)]
      BY <1>4, <2>2
    <3>3. b[j - (i - 1)] = s[j + 1]
      BY <1>2, <3>1
    <3> QED
      BY <3>1, <3>2, <3>3
  <2> QED
    BY <2>1, <2>2
<1>6. DOMAIN (a \o b) = 1 .. Len(s) - 1
  BY <1>4
<1> QED
  BY <1>3, <1>4, <1>5, <1>6

LEMMA CloseKeeps ==
  ASSUME PanelInv, NEW p \in Panels, NEW i, CloseTab(p, i), acts' \in 0 .. MaxActs
  PROVE  PanelInv'
<1>1. /\ panes \in [Panels -> Pane] /\ \A q \in Panels : panes[q].active \in DOMAIN panes[q].tabs
      /\ Own(panes, calls) /\ panes[p].tabs \in Seq(Tab)
  BY InvSound DEF Sound
<1> DEFINE tabs == RemoveAt(panes[p].tabs, i)
           at   == panes[p].active
           new  == [active |-> IF at > i \/ (at = i /\ i > 1) THEN at - 1 ELSE at, tabs |-> tabs]
<1>2. /\ i \in DOMAIN panes[p].tabs /\ Len(panes[p].tabs) > 1
      /\ panes' = [panes EXCEPT ![p] = new] /\ UNCHANGED <<calls, disk, op, mixed>>
  BY DEF CloseTab
<1>3. /\ tabs \in Seq(Tab) /\ Len(tabs) = Len(panes[p].tabs) - 1
      /\ \A j \in DOMAIN tabs : \E k \in DOMAIN panes[p].tabs : tabs[j] = panes[p].tabs[k]
  BY <1>1, <1>2, RemoveAtIs
<1> HIDE DEF tabs
<1>4. new \in Pane /\ new.active \in DOMAIN new.tabs /\ new.tabs = tabs
  BY <1>1, <1>2, <1>3 DEF Pane
<1> HIDE DEF new
<1>5. panes' \in [Panels -> Pane] /\ \A q \in Panels : panes'[q] = IF q = p THEN new ELSE panes[q]
  BY <1>1, <1>2, <1>4
<1>6. \A q \in Panels : panes'[q].active \in DOMAIN panes'[q].tabs
  BY <1>1, <1>4, <1>5
<1>7. \A q \in Panels : \A j \in DOMAIN panes'[q].tabs : OwnTab(panes'[q].tabs[j], calls)
  BY <1>1, <1>3, <1>4, <1>5 DEF Own
<1>8. mixed
  <2>1. ~mixed => Len(panes[p].tabs) = 1
    BY DEF PanelInv, Alone
  <2>2. Len(panes[p].tabs) # 1
    <3>1. Len(panes[p].tabs) > 1
      BY DEF CloseTab
    <3>2. PICK n \in Nat : n = Len(panes[p].tabs)
      BY <1>1
    <3>3. n > 1
      BY <3>1, <3>2
    <3>4. n # 1
      BY <3>3
    <3> QED
      BY <3>2, <3>4
  <2> QED
    BY <2>1, <2>2
<1> QED
  BY <1>2, <1>5, <1>6, <1>7, <1>8, TabsKeep

LEMMA SwapKeeps ==
  ASSUME PanelInv, SwapPanes, acts' \in 0 .. MaxActs
  PROVE  PanelInv'
<1>1. /\ panes \in [Panels -> Pane] /\ \A q \in Panels : panes[q].active \in DOMAIN panes[q].tabs
      /\ Own(panes, calls)
  BY InvSound DEF Sound
<1>2. panes' \in [Panels -> Pane] /\ \A q \in Panels : panes'[q] = panes[Other(q)] /\ Other(q) \in Panels
  BY <1>1, OtherIsPanel DEF SwapPanes
<1>3. \A q \in Panels : panes'[q].active \in DOMAIN panes'[q].tabs
  BY <1>1, <1>2
<1>4. \A q \in Panels : \A j \in DOMAIN panes'[q].tabs : OwnTab(panes'[q].tabs[j], calls)
  BY <1>1, <1>2 DEF Own
<1> QED
  BY <1>2, <1>3, <1>4, TabsKeep DEF SwapPanes

-----------------------------------------------------------------------------
(* What the shell does.                                                    *)

LEMMA CallsKeep ==
  ASSUME PanelInv, UNCHANGED <<panes, disk, op, acts>>, mixed' \in BOOLEAN, mixed => mixed',
         calls' \in Seq(Call), Len(calls') = Len(calls),
         \A s \in DOMAIN calls :
             /\ calls'[s].uri = calls[s].uri /\ calls'[s].pane = calls[s].pane /\ OwnCall(calls'[s])
             /\ Gone /\ op.entry \notin calls[s].seen \cup calls[s].out
                    => op.entry \notin calls'[s].seen \cup calls'[s].out,
         ~mixed' => \A p \in Panels : \A s \in DOMAIN calls :
             /\ Coming(calls[s]) /\ calls[s].pane = p
             /\ \A o \in DOMAIN calls : o > s => calls[o].pane # p
             => Coming(calls'[s])
  PROVE  PanelInv'
<1>1. TypeOK /\ WorkFits /\ Sound(panes, calls) /\ DOMAIN calls' = DOMAIN calls
  BY InvSound DEF TypeOK
<1>2. TypeOK' /\ WorkFits'
  BY <1>1 DEF TypeOK, WorkFits, Gone
<1>3. Own(panes', calls')
  BY <1>1 DEF Sound, Own, OwnTab
<1>4. ASSUME ~mixed', NEW p \in Panels PROVE Alone(panes', calls', p)
  <2>1. PICK t : t = panes[p].tabs[1]
    OBVIOUS
  <2>2. Alone(panes, calls, p)
    BY <1>4 DEF PanelInv
  <2>3. AloneTab(t, calls, p) /\ OwnTab(t, calls)
    BY <1>1, <2>1, <2>2, AloneActive DEF Alone
  <2>4. t.req # None => Coming(calls'[t.req])
    BY <1>4, <2>3 DEF AloneTab, OwnTab
  <2>5. AloneTab(t, calls', p)
    BY <1>1, <2>3, <2>4 DEF AloneTab, OwnTab
  <2> QED
    BY <2>1, <2>2, <2>5 DEF Alone
<1>5. ASSUME ~mixed', op.phase = "told", Gone PROVE Rid(panes', calls', op.entry)
  <2> SUFFICES ASSUME NEW p \in Panels PROVE RidTab(panes[p].tabs[1], calls', op.entry)
    BY DEF Rid
  <2>1. PICK t : t = panes[p].tabs[1]
    OBVIOUS
  <2>2. RidTab(t, calls, op.entry) /\ OwnTab(t, calls)
    BY <1>1, <1>5, <2>1, AloneActive DEF PanelInv, Rid
  <2> QED
    BY <1>5, <2>1, <2>2 DEF RidTab, OwnTab
<1> QED
  BY <1>2, <1>3, <1>4, <1>5 DEF PanelInv, Gone

LEMMA AcceptKeeps ==
  ASSUME PanelInv, NEW r \in DOMAIN calls, Accept(r), UNCHANGED acts
  PROVE  PanelInv'
<1>1. calls \in Seq(Call) /\ Own(panes, calls) /\ mixed \in BOOLEAN
  BY InvSound DEF TypeOK, Sound
<1>2. ASSUME NEW s \in DOMAIN calls
      PROVE  /\ calls'[s] \in Call
             /\ calls'[s].uri = calls[s].uri /\ calls'[s].pane = calls[s].pane
             /\ calls'[s].seen = calls[s].seen /\ calls'[s].out = calls[s].out
             /\ s = r => calls'[s].answer = "ok" /\ calls'[s].run = "yes"
             /\ s # r /\ ~(calls[s].pane = calls[r].pane /\ calls[s].run = "yes") => calls'[s] = calls[s]
  <2>1. PICK d \in Call : d = calls[s]
    BY <1>1
  <2>2. CASE s = r
    <3>1. calls'[s] = [d EXCEPT !.answer = "ok", !.run = "yes"]
      BY <2>1, <2>2 DEF Accept
    <3>2. PICK k : k = [d EXCEPT !.answer = "ok", !.run = "yes"]
      OBVIOUS
    <3>3. k \in Call /\ k.uri = d.uri /\ k.pane = d.pane /\ k.seen = d.seen /\ k.out = d.out
          /\ k.answer = "ok" /\ k.run = "yes"
      BY <3>2 DEF Call
    <3> QED
      BY <2>1, <2>2, <3>1, <3>2, <3>3
  <2>3. CASE s # r /\ calls[s].pane = calls[r].pane /\ calls[s].run = "yes"
    <3>1. calls'[s] = [d EXCEPT !.run = "cancelled"]
      BY <2>1, <2>3 DEF Accept
    <3>2. PICK k : k = [d EXCEPT !.run = "cancelled"]
      OBVIOUS
    <3>3. k \in Call /\ k.uri = d.uri /\ k.pane = d.pane /\ k.seen = d.seen /\ k.out = d.out
      BY <3>2 DEF Call
    <3> QED
      BY <2>1, <2>3, <3>1, <3>2, <3>3
  <2>4. CASE s # r /\ ~(calls[s].pane = calls[r].pane /\ calls[s].run = "yes")
    <3>1. calls'[s] = calls[s]
      BY <2>4 DEF Accept
    <3> QED
      BY <1>1, <2>4, <3>1
  <2> QED
    BY <2>2, <2>3, <2>4
<1>3. calls' \in Seq(Call) /\ Len(calls') = Len(calls)
  <2>1. DOMAIN calls' = 1 .. Len(calls) /\ Len(calls) \in Nat
    BY <1>1 DEF Accept
  <2>2. PICK g : g = calls'
    OBVIOUS
  <2>3. g = [s \in 1 .. Len(calls) |-> g[s]] /\ \A s \in 1 .. Len(calls) : g[s] \in Call
    BY <1>1, <1>2, <2>1, <2>2 DEF Accept
  <2> QED
    BY <2>1, <2>2, <2>3
<1>5. \A s \in DOMAIN calls :
         /\ calls'[s].uri = calls[s].uri /\ calls'[s].pane = calls[s].pane
         /\ calls'[s].seen = calls[s].seen /\ calls'[s].out = calls[s].out
  BY <1>2
<1>6. calls'[r].answer = "ok" /\ calls'[r].run = "yes" /\ calls[r].uri \notin Once
  BY <1>2 DEF Accept, Streams
<1>7. mixed' = (mixed \/ \E s \in r + 1 .. Len(calls) : calls[s].pane = calls[r].pane /\ calls[s].run # "no")
  BY DEF Accept
<1>8. mixed' \in BOOLEAN /\ (mixed => mixed')
  BY <1>7, <1>1, Zenon
<1>9. ASSUME ~mixed', NEW p \in Panels, NEW s \in DOMAIN calls, Coming(calls[s]), calls[s].pane = p,
             \A o \in DOMAIN calls : o > s => calls[o].pane # p
      PROVE  Coming(calls'[s])
  <2>1. CASE s = r
    BY <1>5, <1>6, <2>1 DEF Coming
  <2>2. CASE s # r
    <3>1. ~(calls[s].pane = calls[r].pane /\ calls[s].run = "yes")
      <4>1. SUFFICES ASSUME calls[s].pane = calls[r].pane, calls[s].run = "yes" PROVE FALSE
        OBVIOUS
      <4>2. s > r
        BY <1>1, <1>9, <2>2, <4>1
      <4>3. s \in r + 1 .. Len(calls)
        BY <1>1, <4>2
      <4> QED
        BY <1>7, <1>9, <4>1, <4>3
    <3> QED
      BY <1>2, <1>9, <2>2, <3>1
  <2> QED
    BY <2>1, <2>2
<1>10. \A s \in DOMAIN calls : OwnCall(calls'[s])
  BY <1>1, <1>5 DEF Own, OwnCall
<1>11. UNCHANGED <<panes, disk, op>>
  BY DEF Accept
<1> QED
  BY <1>3, <1>5, <1>8, <1>9, <1>10, <1>11, CallsKeep

\* The other steps of the shell are about one call.
LEMMA OneCallKeeps ==
  ASSUME PanelInv, NEW r \in DOMAIN calls, NEW c \in Call, calls' = [calls EXCEPT ![r] = c],
         UNCHANGED <<panes, disk, op, acts, mixed>>,
         c.uri = calls[r].uri, c.pane = calls[r].pane, OwnCall(c), Coming(calls[r]) => Coming(c),
         (c.seen \cup c.out) \subseteq calls[r].seen \cup calls[r].out \cup disk
  PROVE  PanelInv'
<1>1. calls \in Seq(Call) /\ Own(panes, calls) /\ mixed \in BOOLEAN /\ WorkFits
  BY InvSound DEF TypeOK, Sound
<1>2. calls' \in Seq(Call) /\ Len(calls') = Len(calls) /\ \A s \in DOMAIN calls : calls'[s] = IF s = r THEN c ELSE calls[s]
  BY <1>1
<1>3. Gone => op.entry \notin disk
  BY <1>1 DEF WorkFits, Gone, NoWork
<1> QED
  BY <1>1, <1>2, <1>3, CallsKeep DEF Own

LEMMA ShellKeeps ==
  ASSUME PanelInv, NEW r \in DOMAIN calls, Shell(r), UNCHANGED acts
  PROVE  PanelInv'
<1>1. calls \in Seq(Call) /\ OwnCall(calls[r]) /\ disk \subseteq Rows
  BY InvSound DEF TypeOK, Sound, Own
<1>2. PICK d \in Call : d = calls[r]
  BY <1>1
<1>3. Content(d.uri) \subseteq disk /\ \A e \in Content(d.uri) : e[1] = d.uri
  BY DEF Content
<1>4. CASE Accept(r)
  BY <1>4, AcceptKeeps
<1>5. CASE AnswerAtOnce(r)
  <2>1. PICK c : c = [d EXCEPT !.answer = "ok", !.out = Content(d.uri)]
    OBVIOUS
  <2>2. c \in Call /\ c.uri = d.uri /\ c.pane = d.pane /\ c.seen = d.seen /\ c.out = Content(d.uri)
        /\ c.run = d.run /\ c.answer = "ok"
    BY <1>1, <1>3, <2>1 DEF Call
  <2>3. calls' = [calls EXCEPT ![r] = c] /\ d.uri \in Once /\ d.answer = "pending"
    BY <1>2, <1>5, <2>1 DEF AnswerAtOnce, Streams
  <2>4. OwnCall(c) /\ (Coming(d) => Coming(c))
    BY <1>1, <1>2, <1>3, <2>2, <2>3 DEF OwnCall, Coming
  <2> QED
    BY <1>2, <1>3, <1>5, <2>2, <2>3, <2>4, OneCallKeeps DEF AnswerAtOnce
<1>6. CASE Refuse(r)
  <2>1. PICK c : c = [d EXCEPT !.answer = "refused"]
    OBVIOUS
  <2>2. c \in Call /\ c.uri = d.uri /\ c.pane = d.pane /\ c.seen = d.seen /\ c.out = d.out
        /\ c.run = d.run /\ c.answer = "refused"
    BY <2>1 DEF Call
  <2>3. calls' = [calls EXCEPT ![r] = c] /\ d.answer = "pending"
    BY <1>2, <1>6, <2>1 DEF Refuse
  <2>4. OwnCall(c) /\ (Coming(d) => Coming(c))
    BY <1>1, <1>2, <2>2, <2>3 DEF OwnCall, Coming
  <2> QED
    BY <1>2, <1>6, <2>2, <2>3, <2>4, OneCallKeeps DEF Refuse
<1>7. CASE Read(r)
  <2>1. PICK c : c = [d EXCEPT !.seen = d.seen \cup Unread(r), !.out = d.out \cup Unread(r)]
    OBVIOUS
  <2>2. Unread(r) \subseteq Content(d.uri)
    BY <1>2 DEF Unread
  <2>3. c \in Call /\ c.uri = d.uri /\ c.pane = d.pane /\ c.seen = d.seen \cup Unread(r)
        /\ c.out = d.out \cup Unread(r) /\ c.run = d.run /\ c.answer = d.answer
    BY <1>1, <1>3, <2>1, <2>2 DEF Call
  <2>4. calls' = [calls EXCEPT ![r] = c]
    BY <1>1, <1>2, <1>7, <2>1 DEF Read
  <2>5. OwnCall(c) /\ (Coming(d) => Coming(c))
    BY <1>1, <1>2, <1>3, <2>2, <2>3 DEF OwnCall, Coming
  <2> QED
    BY <1>2, <1>3, <1>7, <2>2, <2>3, <2>4, <2>5, OneCallKeeps DEF Read
<1>8. CASE EndListing(r)
  <2>1. PICK run \in {"complete", "broken"} : d.run = "yes" /\ calls' = [calls EXCEPT ![r] = [d EXCEPT !.run = run]]
    BY <1>2, <1>8 DEF EndListing
  <2>2. PICK c : c = [d EXCEPT !.run = run]
    OBVIOUS
  <2>3. c \in Call /\ c.uri = d.uri /\ c.pane = d.pane /\ c.seen = d.seen /\ c.out = d.out
        /\ c.run = run /\ c.answer = d.answer
    BY <2>2 DEF Call
  <2>4. OwnCall(c) /\ (Coming(d) => Coming(c))
    BY <1>1, <1>2, <2>1, <2>3 DEF OwnCall, Coming
  <2> QED
    BY <1>2, <1>8, <2>1, <2>2, <2>3, <2>4, OneCallKeeps DEF EndListing
<1> QED
  BY <1>4, <1>5, <1>6, <1>7, <1>8 DEF Shell

-----------------------------------------------------------------------------
(* What reaches the page.                                                  *)

\* What becomes of a tab that waits for call r, which becomes c.
Turned(t, t2, r, c) ==
    /\ t.req = r /\ t2 \in Tab /\ t2.uri = t.uri /\ t2.kind = t.kind
    /\ \A e \in t2.rows \cup t2.aside : e[1] = t.uri
    /\ t2.req = None => t2.load # "loading"
    /\ t2.req # None => t2.req = r /\ (Coming(calls[r]) /\ t.load # "error" => Coming(c) /\ t2.load # "error")
    /\ \A e : /\ e \notin t.aside \cup calls[r].seen \cup calls[r].out
              /\ e \in t.rows => t.bg = r
              => /\ e \notin t2.aside
                 /\ e \in t2.rows => t2.load = "error" \/ (t2.req = r /\ t2.bg = r)

\* Call r becomes c, and hands its rows out at most.
Handed(r, c) ==
    /\ c \in Call /\ calls' = [calls EXCEPT ![r] = c]
    /\ c.uri = calls[r].uri /\ c.pane = calls[r].pane
    /\ (c.seen \cup c.out) \subseteq calls[r].seen \cup calls[r].out

\* Tab t of p is turned into t2, or stays as it was when it does not wait for r.
TabStep(t, t2, r, c, p) ==
    \/ t2 = t /\ (t.req # r \/ p # calls[r].pane)
    \/ Turned(t, t2, r, c)

LEMMA TabStepKeeps ==
  ASSUME calls \in Seq(Call), NEW r \in DOMAIN calls, NEW c, Handed(r, c),
         NEW p \in Panels, NEW t, NEW t2, OwnTab(t, calls), TabStep(t, t2, r, c, p)
  PROVE  /\ OwnTab(t2, calls')
         /\ AloneTab(t, calls, p) =>
                /\ AloneTab(t2, calls', p)
                /\ \A e : RidTab(t, calls, e) => RidTab(t2, calls', e)
<1>1. /\ DOMAIN calls' = DOMAIN calls
      /\ \A s \in DOMAIN calls : calls'[s] = IF s = r THEN c ELSE calls[s]
      /\ \A s \in DOMAIN calls : calls'[s].uri = calls[s].uri /\ calls'[s].pane = calls[s].pane
  BY DEF Handed
<1>2. r # None
  BY DEF None
<1>3. CASE t2 = t /\ (t.req # r \/ p # calls[r].pane)
  <2>1. OwnTab(t, calls')
    BY <1>1 DEF OwnTab
  <2>2. ASSUME AloneTab(t, calls, p)
        PROVE  AloneTab(t, calls', p) /\ \A e : RidTab(t, calls, e) => RidTab(t, calls', e)
    <3>1. t.req # None => t.req # r /\ t.req \in DOMAIN calls /\ calls'[t.req] = calls[t.req]
      BY <1>1, <1>3, <2>2 DEF AloneTab, OwnTab
    <3> QED
      BY <1>1, <2>2, <3>1 DEF AloneTab, RidTab
  <2> QED
    BY <1>3, <2>1, <2>2
<1>4. CASE Turned(t, t2, r, c)
  <2>1. t.req = r /\ t.req # None /\ calls[r].uri = t.uri /\ calls'[r] = c
    BY <1>1, <1>2, <1>4 DEF Turned, OwnTab
  <2>2. OwnTab(t2, calls')
    BY <1>1, <1>4, <2>1 DEF OwnTab, Turned
  <2>3. ASSUME AloneTab(t, calls, p)
        PROVE  AloneTab(t2, calls', p) /\ \A e : RidTab(t, calls, e) => RidTab(t2, calls', e)
    <3>1. /\ t.kind = "directory" /\ t.load # "error" /\ Coming(calls[r]) /\ calls[r].pane = p
          /\ \A s \in DOMAIN calls : s > r => calls[s].pane # p
      BY <2>1, <2>3 DEF AloneTab
    <3>2. t2.req # None => t2.req = r /\ Coming(c) /\ t2.load # "error"
      BY <1>4, <3>1 DEF Turned
    <3>3. AloneTab(t2, calls', p)
      BY <1>1, <1>4, <2>1, <3>1, <3>2 DEF AloneTab, Turned
    <3>4. ASSUME NEW e, RidTab(t, calls, e) PROVE RidTab(t2, calls', e)
      <4>1. e \notin t.aside \cup calls[r].seen \cup calls[r].out /\ (e \in t.rows => t.bg = r)
        BY <2>1, <3>1, <3>4 DEF RidTab
      <4>2. e \notin c.seen \cup c.out
        BY <4>1 DEF Handed
      <4> QED
        BY <1>2, <1>4, <2>1, <3>2, <4>1, <4>2 DEF RidTab, Turned
    <3> QED
      BY <3>3, <3>4
  <2> QED
    BY <2>2, <2>3
<1> QED
  BY <1>3, <1>4 DEF TabStep

LEMMA PageKeeps ==
  ASSUME PanelInv, NEW r \in DOMAIN calls, NEW c, Handed(r, c), UNCHANGED <<disk, op, mixed, acts>>,
         panes' \in [Panels -> Pane],
         \A p \in Panels : panes'[p].active = panes[p].active /\ Len(panes'[p].tabs) = Len(panes[p].tabs),
         \A p \in Panels : \A i \in DOMAIN panes[p].tabs :
             TabStep(panes[p].tabs[i], panes'[p].tabs[i], r, c, p)
  PROVE  PanelInv'
<1>1. /\ TypeOK /\ WorkFits /\ Own(panes, calls) /\ calls \in Seq(Call)
      /\ \A p \in Panels : panes[p].tabs \in Seq(Tab) /\ panes[p].active \in DOMAIN panes[p].tabs
  BY InvSound DEF Sound
<1>2. \A p \in Panels : panes'[p].tabs \in Seq(Tab)
  BY DEF Pane
<1>3. \A p \in Panels : DOMAIN panes'[p].tabs = DOMAIN panes[p].tabs
  BY <1>1, <1>2
<1>4. calls' \in Seq(Call) /\ Len(calls') = Len(calls) /\ DOMAIN calls' = DOMAIN calls
  BY <1>1 DEF Handed
<1>5. TypeOK' /\ WorkFits'
  BY <1>1, <1>3, <1>4 DEF TypeOK, WorkFits, Gone
<1>6. \A s \in DOMAIN calls' : OwnCall(calls'[s])
  BY <1>1, <1>4 DEF Own, OwnCall, Handed
<1>7. \A p \in Panels : \A i \in DOMAIN panes'[p].tabs : OwnTab(panes'[p].tabs[i], calls')
  BY <1>1, <1>3, TabStepKeeps DEF Own
<1>8. Own(panes', calls')
  BY <1>6, <1>7 DEF Own
<1>9. ASSUME ~mixed, NEW p \in Panels
      PROVE  /\ Alone(panes', calls', p)
             /\ \A e : RidTab(panes[p].tabs[1], calls, e) => RidTab(panes'[p].tabs[1], calls', e)
  <2>1. PICK t, t2 : t = panes[p].tabs[1] /\ t2 = panes'[p].tabs[1]
    OBVIOUS
  <2>2. Alone(panes, calls, p) /\ Len(panes[p].tabs) = 1 /\ 1 \in DOMAIN panes[p].tabs
    BY <1>1, <1>9 DEF PanelInv, Alone
  <2>3. AloneTab(t, calls, p) /\ OwnTab(t, calls) /\ TabStep(t, t2, r, c, p)
    BY <1>1, <2>1, <2>2 DEF Alone, Own
  <2>4. AloneTab(t2, calls', p) /\ \A e : RidTab(t, calls, e) => RidTab(t2, calls', e)
    BY <1>1, <2>3, TabStepKeeps
  <2> QED
    BY <2>1, <2>2, <2>4 DEF Alone
<1>10. ASSUME ~mixed, op.phase = "told", Gone PROVE Rid(panes', calls', op.entry)
  BY <1>9, <1>10 DEF PanelInv, Rid
<1> QED
  BY <1>5, <1>8, <1>9, <1>10 DEF PanelInv, Gone

LEMMA SeqIs ==
  ASSUME NEW S, NEW s, NEW n \in Nat, s = [i \in 1 .. n |-> s[i]], \A i \in 1 .. n : s[i] \in S
  PROVE  s \in Seq(S) /\ Len(s) = n
  OBVIOUS

LEMMA UpdateKeeps ==
  ASSUME PanelInv, NEW r \in DOMAIN calls, NEW c, Handed(r, c), UNCHANGED <<disk, op, mixed, acts>>,
         NEW q, q = calls[r].pane, NEW tabs, tabs = [i \in DOMAIN panes[q].tabs |-> tabs[i]],
         panes' = [panes EXCEPT ![q] = [panes[q] EXCEPT !.tabs = tabs]],
         \A i \in DOMAIN panes[q].tabs :
             \/ tabs[i] = panes[q].tabs[i] /\ panes[q].tabs[i].req # r
             \/ Turned(panes[q].tabs[i], tabs[i], r, c)
  PROVE  PanelInv'
<1>0. calls \in Seq(Call) /\ panes \in [Panels -> Pane] /\ \A p \in Panels : panes[p].tabs \in Seq(Tab)
  BY InvSound DEF Sound
<1>1. q \in Panels /\ panes[q].tabs \in Seq(Tab)
  <2>1. PICK d \in Call : d = calls[r]
    BY <1>0
  <2>2. d.pane \in Panels
    BY DEF Call
  <2> QED
    BY <1>0, <2>1, <2>2
<1>2. ASSUME NEW i \in DOMAIN panes[q].tabs PROVE tabs[i] \in Tab
  <2>1. panes[q].tabs[i] \in Tab
    BY <1>1
  <2> QED
    BY <2>1 DEF Turned
<1>3. PICK n \in Nat : n = Len(panes[q].tabs) /\ DOMAIN panes[q].tabs = 1 .. n
  BY <1>1
<1>4. tabs \in Seq(Tab) /\ Len(tabs) = Len(panes[q].tabs)
  <2>1. tabs = [i \in 1 .. n |-> tabs[i]] /\ \A i \in 1 .. n : tabs[i] \in Tab
    BY <1>2, <1>3
  <2>2. tabs \in Seq(Tab) /\ Len(tabs) = n
    BY <2>1, SeqIs
  <2> QED
    BY <1>3, <2>2
<1>5. panes' \in [Panels -> Pane]
  BY <1>0, <1>1, <1>4 DEF Pane
<1>6. /\ \A p \in Panels : p # q => panes'[p] = panes[p]
      /\ panes'[q].tabs = tabs /\ panes'[q].active = panes[q].active
  BY <1>0, <1>1 DEF Pane
<1>7. \A p \in Panels : \A i \in DOMAIN panes[p].tabs : TabStep(panes[p].tabs[i], panes'[p].tabs[i], r, c, p)
  BY <1>6 DEF TabStep
<1> QED
  BY <1>4, <1>5, <1>6, <1>7, PageKeeps

LEMMA StartSessionKeeps ==
  ASSUME PanelInv, NEW r \in DOMAIN calls, StartSession(r), UNCHANGED acts
  PROVE  PanelInv'
<1>1. calls \in Seq(Call) /\ Own(panes, calls) /\ \A p \in Panels : panes[p].tabs \in Seq(Tab)
  BY InvSound DEF Sound
<1>2. PICK d \in Call : d = calls[r]
  BY <1>1
<1>3. PICK c : c = [d EXCEPT !.answer = "delivered"]
  OBVIOUS
<1>4. /\ c \in Call /\ c.uri = d.uri /\ c.pane = d.pane /\ c.seen = d.seen /\ c.out = d.out
      /\ c.run = d.run /\ c.answer = "delivered"
  BY <1>3 DEF Call
<1>5. Handed(r, c) /\ d.answer = "ok" /\ d.uri \notin Once /\ (Coming(d) => Coming(c))
  BY <1>2, <1>3, <1>4 DEF StartSession, Delivered, Handed, Streams, Coming
<1> DEFINE q == d.pane
           tabs == [i \in DOMAIN panes[q].tabs |->
                       IF panes[q].tabs[i].req = r THEN [panes[q].tabs[i] EXCEPT !.req = r] ELSE panes[q].tabs[i]]
<1>6. panes' = [panes EXCEPT ![q] = [panes[q] EXCEPT !.tabs = tabs]]
  BY <1>2 DEF StartSession, UpdateRequestTab
<1>7. q \in Panels
  BY DEF Call
<1>8. ASSUME NEW i \in DOMAIN panes[q].tabs
      PROVE  \/ tabs[i] = panes[q].tabs[i] /\ panes[q].tabs[i].req # r
             \/ Turned(panes[q].tabs[i], tabs[i], r, c)
  <2>1. PICK t \in Tab : t = panes[q].tabs[i] /\ OwnTab(t, calls)
    BY <1>1, <1>7 DEF Own
  <2>2. CASE t.req # r
    BY <2>1, <2>2
  <2>3. CASE t.req = r
    <3>1. [t EXCEPT !.req = r] = t
      BY <2>3 DEF Tab
    <3>2. r # None /\ \A e \in t.rows \cup t.aside : e[1] = t.uri
      BY <1>1, <2>1 DEF None, OwnTab
    <3>3. Turned(t, t, r, c)
      BY <1>2, <1>5, <2>3, <3>2 DEF Turned
    <3> QED
      BY <2>1, <2>3, <3>1, <3>3
  <2> QED
    BY <2>2, <2>3
<1>9. PICK g : g = tabs
  OBVIOUS
<1>10. g = [i \in DOMAIN panes[q].tabs |-> g[i]]
  BY <1>9
<1> HIDE DEF tabs
<1>11. UNCHANGED <<disk, op, mixed>>
  BY DEF StartSession
<1> QED
  BY <1>2, <1>5, <1>6, <1>8, <1>9, <1>10, <1>11, UpdateKeeps

LEMMA SetPaneErrorKeeps ==
  ASSUME PanelInv, NEW r \in DOMAIN calls, SetPaneError(r), UNCHANGED acts
  PROVE  PanelInv'
<1>1. calls \in Seq(Call) /\ Own(panes, calls) /\ \A p \in Panels : panes[p].tabs \in Seq(Tab)
  BY InvSound DEF Sound
<1>2. PICK d \in Call : d = calls[r]
  BY <1>1
<1>3. PICK c : c = [d EXCEPT !.answer = "delivered"]
  OBVIOUS
<1>4. c \in Call /\ c.uri = d.uri /\ c.pane = d.pane /\ c.seen = d.seen /\ c.out = d.out
  BY <1>3 DEF Call
<1>5. Handed(r, c)
  BY <1>2, <1>3, <1>4 DEF SetPaneError, Delivered, Handed
<1> DEFINE q == d.pane
           tabs == [i \in DOMAIN panes[q].tabs |->
                       IF panes[q].tabs[i].req = r THEN [panes[q].tabs[i] EXCEPT !.req = None, !.load = "error"]
                       ELSE panes[q].tabs[i]]
<1>6. panes' = [panes EXCEPT ![q] = [panes[q] EXCEPT !.tabs = tabs]]
  BY <1>2 DEF SetPaneError, UpdateRequestTab
<1>7. q \in Panels
  BY DEF Call
<1>8. ASSUME NEW i \in DOMAIN panes[q].tabs
      PROVE  \/ tabs[i] = panes[q].tabs[i] /\ panes[q].tabs[i].req # r
             \/ Turned(panes[q].tabs[i], tabs[i], r, c)
  <2>1. PICK t \in Tab : t = panes[q].tabs[i] /\ OwnTab(t, calls)
    BY <1>1, <1>7 DEF Own
  <2>2. CASE t.req # r
    BY <2>1, <2>2
  <2>3. CASE t.req = r
    <3>1. PICK t2 : t2 = [t EXCEPT !.req = None, !.load = "error"]
      OBVIOUS
    <3>2. /\ t2 \in Tab /\ t2.uri = t.uri /\ t2.kind = t.kind /\ t2.req = None /\ t2.load = "error"
          /\ t2.rows = t.rows /\ t2.aside = t.aside
      BY <3>1, NoneIsRequest DEF Tab
    <3>3. Turned(t, t2, r, c)
      BY <2>1, <2>3, <3>2 DEF Turned, OwnTab
    <3> QED
      BY <2>1, <2>3, <3>1, <3>3
  <2> QED
    BY <2>2, <2>3
<1>9. PICK g : g = tabs
  OBVIOUS
<1>10. g = [i \in DOMAIN panes[q].tabs |-> g[i]]
  BY <1>9
<1> HIDE DEF tabs
<1>11. UNCHANGED <<disk, op, mixed>>
  BY DEF SetPaneError
<1> QED
  BY <1>2, <1>5, <1>6, <1>8, <1>9, <1>10, <1>11, UpdateKeeps

LEMMA SetArchiveEntriesKeeps ==
  ASSUME PanelInv, NEW r \in DOMAIN calls, SetArchiveEntries(r), UNCHANGED acts
  PROVE  PanelInv'
<1>1. calls \in Seq(Call) /\ Own(panes, calls) /\ \A p \in Panels : panes[p].tabs \in Seq(Tab)
  BY InvSound DEF Sound
<1>2. PICK d \in Call : d = calls[r] /\ OwnCall(d)
  BY <1>1 DEF Own
<1>3. PICK c : c = [d EXCEPT !.answer = "delivered"]
  OBVIOUS
<1>4. c \in Call /\ c.uri = d.uri /\ c.pane = d.pane /\ c.seen = d.seen /\ c.out = d.out
  BY <1>3 DEF Call
<1>5. Handed(r, c) /\ d.out \subseteq Rows
  BY <1>2, <1>3, <1>4 DEF SetArchiveEntries, Delivered, Handed, Call
<1> DEFINE q == d.pane
           Read2(t) == [t EXCEPT !.rows = d.out, !.load = "loaded", !.req = None, !.bg = None, !.aside = {}]
           tabs == [i \in DOMAIN panes[q].tabs |->
                       IF panes[q].tabs[i].req = r THEN Read2(panes[q].tabs[i]) ELSE panes[q].tabs[i]]
<1>6. panes' = [panes EXCEPT ![q] = [panes[q] EXCEPT !.tabs = tabs]]
  BY <1>2 DEF SetArchiveEntries, UpdateRequestTab
<1>7. q \in Panels
  BY DEF Call
<1>8. ASSUME NEW i \in DOMAIN panes[q].tabs
      PROVE  \/ tabs[i] = panes[q].tabs[i] /\ panes[q].tabs[i].req # r
             \/ Turned(panes[q].tabs[i], tabs[i], r, c)
  <2>1. PICK t \in Tab : t = panes[q].tabs[i] /\ OwnTab(t, calls)
    BY <1>1, <1>7 DEF Own
  <2>2. CASE t.req # r
    BY <2>1, <2>2
  <2>3. CASE t.req = r
    <3>1. PICK t2 : t2 = Read2(t)
      OBVIOUS
    <3>2. /\ t2 \in Tab /\ t2.uri = t.uri /\ t2.kind = t.kind /\ t2.req = None /\ t2.load = "loaded"
          /\ t2.rows = d.out /\ t2.aside = {}
      <4>1. PICK out \in SUBSET Rows : out = d.out
        BY <1>5
      <4>2. t2 = [t EXCEPT !.rows = out, !.load = "loaded", !.req = None, !.bg = None, !.aside = {}]
        BY <3>1, <4>1
      <4> QED
        BY <4>1, <4>2, NoneIsRequest DEF Tab
    <3>3. r # None
      BY <1>1 DEF None
    <3>4. \A e \in d.out : e[1] = t.uri
      BY <1>2, <2>1, <2>3, <3>3 DEF OwnCall, OwnTab
    <3>5. Turned(t, t2, r, c)
      BY <1>2, <2>1, <2>3, <3>2, <3>4 DEF Turned
    <3> QED
      BY <2>1, <2>3, <3>1, <3>5
  <2> QED
    BY <2>2, <2>3
<1>9. PICK g : g = tabs
  OBVIOUS
<1>10. g = [i \in DOMAIN panes[q].tabs |-> g[i]]
  BY <1>9
<1> HIDE DEF tabs
<1>11. UNCHANGED <<disk, op, mixed>>
  BY DEF SetArchiveEntries
<1> QED
  BY <1>2, <1>5, <1>6, <1>8, <1>9, <1>10, <1>11, UpdateKeeps

\* The rows of a batch are of the directory of the tab that takes it.
LEMMA BatchTurns ==
  ASSUME calls \in Seq(Call), NEW r \in DOMAIN calls, NEW t \in Tab, OwnTab(t, calls), t.req = r,
         NEW c, NEW said \in {"listing", "complete", "error"}, OwnCall(calls[r]),
         said = "listing" => (Coming(calls[r]) => Coming(c))
  PROVE  Turned(t, WithBatch(t, r, said), r, c)
<1>1. r # None /\ r \in Requests \cup {r}
  BY DEF None
<1>2. PICK out : out = calls[r].out
  OBVIOUS
<1>3. out \subseteq Rows /\ (\A e \in out : e[1] = t.uri)
  <2>1. PICK d \in Call : d = calls[r]
    BY <1>2
  <2> QED
    BY <1>1, <1>2, <2>1 DEF Call, OwnCall, OwnTab
<1>4. \A e \in t.rows \cup t.aside : e[1] = t.uri
  BY DEF OwnTab
<1>5. PICK got \in SUBSET Rows : got = BatchRows(t, r)
  BY <1>2, <1>3 DEF BatchRows, Tab
<1>6. /\ got = (IF t.bg = r THEN t.aside ELSE t.rows) \cup out
      /\ \A e \in got : e[1] = t.uri
  BY <1>2, <1>3, <1>4, <1>5 DEF BatchRows
<1>7. CASE said = "listing"
  <2>1. PICK t2 : t2 = WithBatch(t, r, said)
    OBVIOUS
  <2>2. CASE t.bg = r
    <3>1. t2 = [t EXCEPT !.aside = got]
      BY <1>5, <1>7, <2>1, <2>2 DEF WithBatch, WithRows
    <3>2. /\ t2 \in Tab /\ t2.uri = t.uri /\ t2.kind = t.kind /\ t2.req = r /\ t2.load = t.load
          /\ t2.bg = r /\ t2.rows = t.rows /\ t2.aside = got
      BY <2>2, <3>1 DEF Tab
    <3> QED
      BY <1>1, <1>2, <1>4, <1>6, <1>7, <2>1, <2>2, <3>2 DEF Turned
  <2>3. CASE t.bg # r
    <3>1. t2 = [t EXCEPT !.rows = got, !.load = "loading"]
      BY <1>5, <1>7, <2>1, <2>3 DEF WithBatch, WithRows
    <3>2. /\ t2 \in Tab /\ t2.uri = t.uri /\ t2.kind = t.kind /\ t2.req = r /\ t2.load = "loading"
          /\ t2.rows = got /\ t2.aside = t.aside
      BY <3>1 DEF Tab
    <3> QED
      BY <1>1, <1>2, <1>4, <1>6, <1>7, <2>1, <2>3, <3>2 DEF Turned
  <2> QED
    BY <2>2, <2>3
<1>8. PICK k : k = Ended(t, r)
  OBVIOUS
<1>9. /\ k \in Tab /\ k.uri = t.uri /\ k.kind = t.kind /\ k.req = None /\ k.load = t.load /\ k.rows = t.rows
      /\ k.aside = IF t.bg = r THEN {} ELSE t.aside
  <2>1. CASE t.bg = r
    <3>1. k = [t EXCEPT !.req = None, !.bg = None, !.aside = {}]
      BY <1>8, <2>1 DEF Ended
    <3> QED
      BY <2>1, <3>1, NoneIsRequest DEF Tab
  <2>2. CASE t.bg # r
    <3>1. k = [t EXCEPT !.req = None, !.bg = t.bg, !.aside = t.aside]
      BY <1>8, <2>2 DEF Ended
    <3> QED
      BY <2>2, <3>1, NoneIsRequest DEF Tab
  <2> QED
    BY <2>1, <2>2
<1>10. CASE said = "complete"
  <2>1. PICK load \in {"empty", "loaded"} : load = Settled(got)
    BY DEF Settled
  <2>2. PICK t2 : t2 = WithBatch(t, r, said)
    OBVIOUS
  <2>3. t2 = [k EXCEPT !.rows = got, !.load = load]
    BY <1>5, <1>8, <1>10, <2>1, <2>2 DEF WithBatch, WithLastRows
  <2>4. /\ t2 \in Tab /\ t2.uri = t.uri /\ t2.kind = t.kind /\ t2.req = None /\ t2.load = load
        /\ t2.rows = got /\ t2.aside = k.aside
    BY <1>9, <2>1, <2>3 DEF Tab
  <2>5. /\ \A e \in t2.rows \cup t2.aside : e[1] = t.uri
        /\ t2.load # "loading"
    BY <1>4, <1>6, <1>9, <2>1, <2>4
  <2>6. \A e : e \notin t.aside \cup calls[r].seen \cup calls[r].out /\ (e \in t.rows => t.bg = r)
               => e \notin t2.aside /\ e \notin t2.rows
    BY <1>2, <1>6, <1>9, <2>4
  <2> QED
    BY <2>2, <2>4, <2>5, <2>6 DEF Turned
<1>11. CASE said = "error"
  <2>1. PICK t2 : t2 = WithBatch(t, r, said)
    OBVIOUS
  <2>2. t2 = [k EXCEPT !.load = "error"]
    BY <1>8, <1>11, <2>1 DEF WithBatch, WithError
  <2>3. /\ t2 \in Tab /\ t2.uri = t.uri /\ t2.kind = t.kind /\ t2.req = None /\ t2.load = "error"
        /\ t2.rows = t.rows /\ t2.aside = k.aside
    BY <1>9, <2>2 DEF Tab
  <2> QED
    BY <1>4, <1>9, <2>1, <2>3 DEF Turned
<1> QED
  BY <1>7, <1>10, <1>11

\* A batch reaches the tab that waits for it, in whichever pane.
LEMMA ToTabKeeps ==
  ASSUME PanelInv, NEW r \in DOMAIN calls, NEW c, Handed(r, c), UNCHANGED <<disk, op, mixed, acts>>,
         NEW said \in {"listing", "complete", "error"}, ToTab(r, said),
         said = "listing" => (Coming(calls[r]) => Coming(c))
  PROVE  PanelInv'
<1>1. /\ calls \in Seq(Call) /\ Own(panes, calls) /\ panes \in [Panels -> Pane]
      /\ \A p \in Panels : panes[p].tabs \in Seq(Tab)
  BY InvSound DEF Sound
<1> DEFINE Tabs2(p) == [i \in DOMAIN panes[p].tabs |->
              IF panes[p].tabs[i].req = r THEN WithBatch(panes[p].tabs[i], r, said) ELSE panes[p].tabs[i]]
<1>2. panes' = [p \in Panels |-> [panes[p] EXCEPT !.tabs = Tabs2(p)]]
  BY DEF ToTab, TakesBatch
<1>3. ASSUME NEW p \in Panels, NEW i \in DOMAIN panes[p].tabs
      PROVE  Tabs2(p)[i] \in Tab /\ TabStep(panes[p].tabs[i], Tabs2(p)[i], r, c, p)
  <2>1. PICK t \in Tab : t = panes[p].tabs[i] /\ OwnTab(t, calls)
    BY <1>1 DEF Own
  <2>2. CASE t.req # r
    BY <2>1, <2>2 DEF TabStep
  <2>3. CASE t.req = r
    <3>1. Turned(t, WithBatch(t, r, said), r, c)
      BY <1>1, <2>1, <2>3, BatchTurns DEF Own
    <3>2. Tabs2(p)[i] = WithBatch(t, r, said)
      BY <2>1, <2>3
    <3> QED
      BY <2>1, <3>1, <3>2 DEF TabStep, Turned
  <2> QED
    BY <2>2, <2>3
<1>4. ASSUME NEW p \in Panels PROVE Tabs2(p) \in Seq(Tab) /\ Len(Tabs2(p)) = Len(panes[p].tabs)
  <2>1. PICK n \in Nat : n = Len(panes[p].tabs) /\ DOMAIN panes[p].tabs = 1 .. n
    BY <1>1
  <2>2. PICK g : g = Tabs2(p)
    OBVIOUS
  <2>3. g = [i \in 1 .. n |-> g[i]] /\ \A i \in 1 .. n : g[i] \in Tab
    <3>1. DOMAIN g = 1 .. n /\ g = [i \in DOMAIN panes[p].tabs |-> g[i]]
      BY <2>1, <2>2
    <3> QED
      BY <1>3, <2>1, <2>2, <3>1
  <2>4. g \in Seq(Tab) /\ Len(g) = n
    BY <2>3, SeqIs
  <2> QED
    BY <2>1, <2>2, <2>4
<1> HIDE DEF Tabs2
<1>5. /\ panes' \in [Panels -> Pane]
      /\ \A p \in Panels : panes'[p].active = panes[p].active /\ panes'[p].tabs = Tabs2(p)
  BY <1>1, <1>2, <1>4 DEF Pane
<1>6. \A p \in Panels : panes'[p].active = panes[p].active /\ Len(panes'[p].tabs) = Len(panes[p].tabs)
  BY <1>4, <1>5
<1>7. \A p \in Panels : \A i \in DOMAIN panes[p].tabs : TabStep(panes[p].tabs[i], panes'[p].tabs[i], r, c, p)
  BY <1>3, <1>5
<1> QED
  BY <1>5, <1>6, <1>7, PageKeeps

LEMMA ApplyBatchKeeps ==
  ASSUME PanelInv, NEW r \in DOMAIN calls, ApplyBatch(r), UNCHANGED acts
  PROVE  PanelInv'
<1>1. calls \in Seq(Call)
  BY InvSound DEF Sound
<1>2. PICK d \in Call : d = calls[r]
  BY <1>1
<1>3. UNCHANGED <<disk, op, mixed>>
  BY DEF ApplyBatch
<1>4. CASE calls[r].out # {} /\ ToTab(r, "listing") /\ calls' = [calls EXCEPT ![r].out = {}]
  <2>1. PICK c : c = [d EXCEPT !.out = {}]
    OBVIOUS
  <2>2. /\ c \in Call /\ c.uri = d.uri /\ c.pane = d.pane /\ c.seen = d.seen /\ c.out = {}
        /\ c.run = d.run /\ c.answer = d.answer
    BY <2>1 DEF Call
  <2>3. Handed(r, c) /\ (Coming(calls[r]) => Coming(c))
    BY <1>2, <1>4, <2>1, <2>2 DEF Handed, Coming
  <2> QED
    BY <1>3, <1>4, <2>3, ToTabKeeps
<1>5. CASE ToTab(r, "complete") /\ calls' = [calls EXCEPT ![r].out = {}, ![r].run = "over"]
  <2>1. PICK c : c = [d EXCEPT !.out = {}, !.run = "over"]
    OBVIOUS
  <2>2. /\ c \in Call /\ c.uri = d.uri /\ c.pane = d.pane /\ c.seen = d.seen /\ c.out = {}
    BY <2>1 DEF Call
  <2>3. calls' = [calls EXCEPT ![r] = c]
    BY <1>1, <1>2, <1>5, <2>1
  <2>4. Handed(r, c)
    BY <1>2, <2>2, <2>3 DEF Handed
  <2> QED
    BY <1>3, <1>5, <2>4, ToTabKeeps
<1>6. CASE ToTab(r, "error") /\ calls' = [calls EXCEPT ![r].run = "over"]
  <2>1. PICK c : c = [d EXCEPT !.run = "over"]
    OBVIOUS
  <2>2. /\ c \in Call /\ c.uri = d.uri /\ c.pane = d.pane /\ c.seen = d.seen /\ c.out = d.out
    BY <2>1 DEF Call
  <2>3. Handed(r, c)
    BY <1>2, <1>6, <2>1, <2>2 DEF Handed
  <2> QED
    BY <1>3, <1>6, <2>3, ToTabKeeps
<1> QED
  BY <1>4, <1>5, <1>6 DEF ApplyBatch

LEMMA PageStepKeeps ==
  ASSUME PanelInv, NEW r \in DOMAIN calls, Page(r), UNCHANGED acts
  PROVE  PanelInv'
  BY StartSessionKeeps, SetPaneErrorKeeps, SetArchiveEntriesKeeps, ApplyBatchKeeps DEF Page

-----------------------------------------------------------------------------
(* A file operation.                                                       *)

LEMMA TargetsPlan ==
  ASSUME NEW kind \in {"delete", "move", "copy"}, NEW e \in Rows, NEW d \in Uris
  PROVE  /\ Targets(kind, e, d) \in Plan /\ NoPlan \in Plan
         /\ NoPlan.folders = {} /\ NoPlan.removed = {}
         /\ kind # "copy" => e[1] \in Targets(kind, e, d).folders
<1>1. e[1] \in Uris /\ Folder(d) \in Uris
  BY PanelConstants DEF Rows, Folder
<1>2. CASE kind = "delete"
  BY <1>1, <1>2 DEF Targets, Plan, NoPlan
<1>3. CASE kind = "move"
  BY <1>1, <1>3 DEF Targets, Plan, NoPlan
<1>4. CASE kind = "copy"
  BY <1>1, <1>4 DEF Targets, Plan, NoPlan
<1> QED
  BY <1>2, <1>3, <1>4

\* A step about the operation that ends without its end having been heard now.
LEMMA WorkKeeps ==
  ASSUME PanelInv, UNCHANGED <<panes, calls, mixed>>, acts' \in 0 .. MaxActs,
         op' \in Work, disk' \subseteq Rows, WorkFits', op'.phase = "told" /\ Gone' => op.phase = "told" /\ Gone,
         op'.phase = "told" => op'.entry = op.entry
  PROVE  PanelInv'
<1>1. TypeOK /\ Own(panes, calls)
  BY DEF PanelInv
<1>2. TypeOK'
  BY <1>1 DEF TypeOK
<1>3. Own(panes', calls')
  BY <1>1
<1> QED
  BY <1>2, <1>3 DEF PanelInv

LEMMA StartOperationKeeps ==
  ASSUME PanelInv, NEW kind \in Kinds, NEW e \in disk, NEW d \in Uris, StartOperation(kind, e, d),
         acts' \in 0 .. MaxActs
  PROVE  PanelInv'
<1>1. disk \subseteq Rows /\ kind \in {"delete", "move", "copy"} /\ e \in Rows
  BY InvSound, PanelConstants DEF TypeOK
<1>2. d # e[1] /\ UNCHANGED <<panes, calls, disk, mixed>>
  BY DEF StartOperation
<1>3. /\ op' \in Work /\ op'.phase = "running" /\ op'.ok = FALSE /\ op'.plan = NoPlan
      /\ op'.dest = d /\ op'.entry = e
  BY <1>1, TargetsPlan DEF StartOperation, Work
<1>4. WorkFits'
  BY <1>2, <1>3 DEF WorkFits, Gone
<1> QED
  BY <1>1, <1>2, <1>3, <1>4, WorkKeeps

LEMMA WorkIs ==
  ASSUME PanelInv, op.phase # "none"
  PROVE  /\ op \in Work /\ op # NoWork /\ disk \subseteq Rows /\ acts \in 0 .. MaxActs
         /\ op.dest # op.entry[1] /\ op.plan \in {NoPlan, Targets(op.kind, op.entry, op.dest)}
         /\ op.phase \notin {"done", "told"} => ~op.ok
         /\ Gone => op.entry \notin disk
<1>1. TypeOK /\ WorkFits
  BY InvSound
<1>2. op # NoWork
  BY DEF NoWork
<1> QED
  BY <1>1, <1>2 DEF TypeOK, WorkFits

LEMMA EndOperationKeeps ==
  ASSUME PanelInv, EndOperation, UNCHANGED acts
  PROVE  PanelInv'
<1>1. PICK o \in Work :
         /\ o = op /\ o.dest # o.entry[1] /\ o.plan \in {NoPlan, Targets(o.kind, o.entry, o.dest)}
         /\ ~o.ok /\ disk \subseteq Rows /\ acts \in 0 .. MaxActs
  BY WorkIs DEF EndOperation
<1>2. UNCHANGED <<panes, calls, mixed>>
  BY DEF EndOperation
<1>3. CASE op' = [op EXCEPT !.phase = "done", !.ok = TRUE] /\ disk' = (disk \ IF op.kind = "copy" THEN {} ELSE {op.entry})
                     \cup IF op.kind = "delete" THEN {} ELSE {<<op.dest, op.entry[2]>>}
  <2>1. PICK o2 : o2 = [o EXCEPT !.phase = "done", !.ok = TRUE]
    OBVIOUS
  <2>2. /\ o2 \in Work /\ o2.phase = "done" /\ o2.ok = TRUE /\ o2.plan = o.plan
        /\ o2.dest = o.dest /\ o2.entry = o.entry /\ o2.kind = o.kind
    BY <2>1 DEF Work
  <2>3. /\ o.entry \in Rows /\ <<o.dest, o.entry[2]>> \in Rows /\ <<o.dest, o.entry[2]>> # o.entry
    BY <1>1 DEF Work, Rows
  <2>4. disk' \subseteq Rows /\ (o.kind # "copy" => o.entry \notin disk')
    BY <1>1, <1>3, <2>3
  <2>5. op' = o2
    BY <1>1, <1>3, <2>1
  <2>6. WorkFits'
    BY <1>1, <2>2, <2>4, <2>5 DEF WorkFits, Gone
  <2> QED
    BY <1>1, <1>2, <2>2, <2>4, <2>5, <2>6, WorkKeeps
<1>4. CASE op' = [op EXCEPT !.phase = "failed"] /\ UNCHANGED disk
  <2>1. PICK o2 : o2 = [o EXCEPT !.phase = "failed"]
    OBVIOUS
  <2>2. /\ o2 \in Work /\ o2.phase = "failed" /\ o2.ok = o.ok /\ o2.plan = o.plan
        /\ o2.dest = o.dest /\ o2.entry = o.entry /\ o2.kind = o.kind
    BY <2>1 DEF Work
  <2>3. op' = o2
    BY <1>1, <1>4, <2>1
  <2>4. WorkFits'
    BY <1>1, <2>2, <2>3 DEF WorkFits, Gone
  <2> QED
    BY <1>1, <1>2, <1>4, <2>2, <2>3, <2>4, WorkKeeps
<1> QED
  BY <1>3, <1>4 DEF EndOperation

LEMMA StartAnsweredKeeps ==
  ASSUME PanelInv, StartAnswered, UNCHANGED acts
  PROVE  PanelInv'
<1>1. PICK o \in Work :
         /\ o = op /\ o.dest # o.entry[1]
         /\ o.phase \notin {"done", "told"} => ~o.ok
         /\ Gone => o.entry \notin disk
         /\ disk \subseteq Rows /\ acts \in 0 .. MaxActs
  BY WorkIs DEF StartAnswered
<1>2. UNCHANGED <<panes, calls, disk, mixed>> /\ o.phase # "none"
  BY <1>1 DEF StartAnswered
<1>3. PICK plan \in Plan : plan = Targets(o.kind, o.entry, o.dest)
  BY TargetsPlan DEF Work
<1>4. PICK o2 : o2 = [o EXCEPT !.answered = TRUE, !.plan = plan]
  OBVIOUS
<1>5. /\ o2 \in Work /\ o2.phase = o.phase /\ o2.ok = o.ok /\ o2.plan = plan
      /\ o2.dest = o.dest /\ o2.entry = o.entry /\ o2.kind = o.kind
  BY <1>4 DEF Work
<1>6. op' = o2
  BY <1>1, <1>3, <1>4 DEF StartAnswered
<1>7. Gone' = Gone
  BY <1>1, <1>5, <1>6 DEF Gone
<1>8. WorkFits'
  BY <1>1, <1>2, <1>3, <1>5, <1>6, <1>7 DEF WorkFits
<1> QED
  BY <1>1, <1>2, <1>5, <1>6, <1>7, <1>8, WorkKeeps

\* The refresh of the panes S.
Refreshed(ps2, cs2, S) ==
    /\ Sound(ps2, cs2) /\ Len(cs2) <= Len(calls) + 2
    /\ (\A p \in Panels : Alone(panes, calls, p)) =>
           /\ \A p \in Panels : Alone(ps2, cs2, p)
           /\ \A e : \A p \in Panels :
                  p \in S \/ RidTab(panes[p].tabs[1], calls, e) => RidTab(ps2[p].tabs[1], cs2, e)

LEMMA RefreshIsWindow ==
  ASSUME NEW ps, NEW cs, NEW p, NEW soft
  PROVE  LET k == RefreshPanel([panes |-> ps, calls |-> cs], p, soft)
         IN  k = [panes |-> k.panes, calls |-> k.calls]
<1> DEFINE tab == Active(ps, p)
           next == IF soft THEN SoftRefresh(tab, tab.uri) ELSE ApplyNavigation(tab, tab.uri, tab.back, tab.forward)
           k == RefreshPanel([panes |-> ps, calls |-> cs], p, soft)
<1>1. CASE tab.kind # "directory"
  BY <1>1 DEF RefreshPanel
<1>2. CASE tab.kind = "directory"
  <2>1. k = StartListing([panes |-> ps, calls |-> cs], p, next, soft)
    BY <1>2 DEF RefreshPanel
  <2> HIDE DEF next, tab, k
  <2> QED
    BY <2>1 DEF StartListing, k
<1> QED
  BY <1>1, <1>2

LEMMA RefreshPanelsIs ==
  ASSUME PanelInv, NEW S \in SUBSET Panels, NEW soft \in BOOLEAN, Room(2)
  PROVE  \E ps2, cs2 : RefreshPanels(S, soft) = [panes |-> ps2, calls |-> cs2] /\ Refreshed(ps2, cs2, S)
<1>1. /\ Sound(panes, calls) /\ Len(calls) \in Nat /\ Len(calls) + 1 < MaxRequests /\ Len(calls) < MaxRequests
      /\ MaxRequests \in Nat
  BY InvSound, PanelConstants DEF Room, TypeOK
<1>2. {"left", "right"} = Panels
  BY DEF Panels
<1> DEFINE w == IF "left" \in S THEN RefreshPanel(Window, "left", soft) ELSE Window
           Alones(a, b) == \A q \in Panels : Alone(a, b, q)
<1>3. PICK ps, cs :
         /\ w = [panes |-> ps, calls |-> cs]
         /\ Sound(ps, cs) /\ Len(cs) <= Len(calls) + 1
         /\ Alones(panes, calls) =>
              /\ Alones(ps, cs)
              /\ \A e : "left" \in S \/ RidTab(panes["left"].tabs[1], calls, e) => RidTab(ps["left"].tabs[1], cs, e)
              /\ \A e : RidTab(panes["right"].tabs[1], calls, e) => RidTab(ps["right"].tabs[1], cs, e)
  <2>1. CASE "left" \in S
    <3> DEFINE k == RefreshPanel([panes |-> panes, calls |-> calls], "left", soft)
    <3>0. Begun(panes, calls, k.panes, k.calls, "left") /\ k = [panes |-> k.panes, calls |-> k.calls] /\ w = k
      BY <1>1, <1>2, <2>1, RefreshBegins, RefreshIsWindow DEF Window
    <3> HIDE DEF k, w
    <3>1. PICK ps, cs : ps = k.panes /\ cs = k.calls
      OBVIOUS
    <3>2. Begun(panes, calls, ps, cs, "left") /\ w = [panes |-> ps, calls |-> cs]
      BY <3>0, <3>1
    <3> QED
      BY <1>2, <2>1, <3>2 DEF Begun
  <2>2. CASE "left" \notin S
    BY <1>1, <2>2 DEF Window
  <2> QED
    BY <2>1, <2>2
<1>4. RefreshPanels(S, soft) = IF "right" \in S THEN RefreshPanel(w, "right", soft) ELSE w
  BY DEF RefreshPanels
<1> HIDE DEF w
<1>5. PICK n \in Nat : n = Len(cs) /\ n <= Len(calls) + 1 /\ n < MaxRequests
  BY <1>1, <1>3 DEF Sound
<1>6. CASE "right" \in S
  <2> DEFINE k == RefreshPanel([panes |-> ps, calls |-> cs], "right", soft)
  <2>0. Begun(ps, cs, k.panes, k.calls, "right") /\ k = [panes |-> k.panes, calls |-> k.calls]
        /\ RefreshPanels(S, soft) = k
    BY <1>2, <1>3, <1>4, <1>5, <1>6, RefreshBegins, RefreshIsWindow
  <2> HIDE DEF k
  <2>1. PICK ps2, cs2 : ps2 = k.panes /\ cs2 = k.calls
    OBVIOUS
  <2>2. Begun(ps, cs, ps2, cs2, "right") /\ RefreshPanels(S, soft) = [panes |-> ps2, calls |-> cs2]
    BY <2>0, <2>1
  <2>3. Sound(ps2, cs2) /\ Len(cs2) <= Len(calls) + 2
    <3>1. Sound(ps2, cs2) /\ Len(cs2) <= n + 1 /\ Len(cs2) \in Nat
      BY <1>5, <2>2 DEF Begun, Sound
    <3> QED
      BY <1>1, <1>5, <3>1
  <2>4. ASSUME Alones(panes, calls)
        PROVE  /\ Alones(ps2, cs2)
               /\ \A e : \A p \in Panels :
                      p \in S \/ RidTab(panes[p].tabs[1], calls, e) => RidTab(ps2[p].tabs[1], cs2, e)
    <3>1. /\ Alones(ps2, cs2)
          /\ \A e : RidTab(ps2["right"].tabs[1], cs2, e)
          /\ \A e : RidTab(ps["left"].tabs[1], cs, e) => RidTab(ps2["left"].tabs[1], cs2, e)
      BY <1>2, <1>3, <2>2, <2>4 DEF Begun
    <3> QED
      BY <1>2, <1>3, <2>4, <3>1
  <2> QED
    BY <2>2, <2>3, <2>4 DEF Refreshed
<1>7. CASE "right" \notin S
  <2>1. Len(cs) <= Len(calls) + 2
    BY <1>1, <1>5
  <2>2. ASSUME Alones(panes, calls)
        PROVE  /\ Alones(ps, cs)
               /\ \A e : \A p \in Panels :
                      p \in S \/ RidTab(panes[p].tabs[1], calls, e) => RidTab(ps[p].tabs[1], cs, e)
    BY <1>2, <1>3, <1>7, <2>2
  <2> QED
    BY <1>3, <1>4, <1>7, <2>1, <2>2 DEF Refreshed
<1> QED
  BY <1>6, <1>7

\* The tabs show less.
LEMMA RemoveKeeps ==
  ASSUME NEW ps, NEW cs, Sound(ps, cs), NEW gone
  PROVE  LET ps2 == RemoveEntries(ps, gone)
         IN  /\ Sound(ps2, cs)
             /\ \A p \in Panels : Alone(ps, cs, p) =>
                    /\ Alone(ps2, cs, p)
                    /\ \A e : RidTab(ps[p].tabs[1], cs, e) => RidTab(ps2[p].tabs[1], cs, e)
<1> DEFINE Fewer(t) == [t EXCEPT !.rows = t.rows \ gone]
           Tabs2(p) == [i \in DOMAIN ps[p].tabs |-> Fewer(ps[p].tabs[i])]
           ps2 == RemoveEntries(ps, gone)
<1>1. /\ ps \in [Panels -> Pane] /\ cs \in Seq(Call) /\ Own(ps, cs)
      /\ \A p \in Panels : ps[p].tabs \in Seq(Tab) /\ ps[p].active \in DOMAIN ps[p].tabs
  BY DEF Sound, Pane
<1>2. ps2 = [p \in Panels |-> [ps[p] EXCEPT !.tabs = Tabs2(p)]]
  BY DEF RemoveEntries
<1>3. ASSUME NEW t \in Tab
      PROVE  /\ Fewer(t) \in Tab /\ Fewer(t).uri = t.uri /\ Fewer(t).kind = t.kind /\ Fewer(t).load = t.load
             /\ Fewer(t).req = t.req /\ Fewer(t).bg = t.bg /\ Fewer(t).aside = t.aside
             /\ Fewer(t).rows \subseteq t.rows
  BY DEF Tab
<1>4. ASSUME NEW p \in Panels, NEW i \in DOMAIN ps[p].tabs
      PROVE  /\ Tabs2(p)[i] \in Tab /\ OwnTab(Tabs2(p)[i], cs)
             /\ AloneTab(ps[p].tabs[i], cs, p) => AloneTab(Tabs2(p)[i], cs, p)
             /\ \A e : RidTab(ps[p].tabs[i], cs, e) => RidTab(Tabs2(p)[i], cs, e)
  <2>1. PICK t \in Tab : t = ps[p].tabs[i] /\ OwnTab(t, cs)
    BY <1>1 DEF Own
  <2>2. PICK t2 : t2 = Fewer(t)
    OBVIOUS
  <2>3. Tabs2(p)[i] = t2
    BY <2>1, <2>2
  <2>4. /\ t2 \in Tab /\ t2.uri = t.uri /\ t2.kind = t.kind /\ t2.load = t.load
        /\ t2.req = t.req /\ t2.bg = t.bg /\ t2.aside = t.aside /\ t2.rows \subseteq t.rows
    BY <1>3, <2>2
  <2>5. OwnTab(t2, cs)
    BY <2>1, <2>4 DEF OwnTab
  <2>6. AloneTab(t, cs, p) => AloneTab(t2, cs, p)
    BY <2>4 DEF AloneTab
  <2>7. \A e : RidTab(t, cs, e) => RidTab(t2, cs, e)
    BY <2>4 DEF RidTab
  <2> QED
    BY <2>1, <2>3, <2>4, <2>5, <2>6, <2>7
<1>5. ASSUME NEW p \in Panels PROVE Tabs2(p) \in Seq(Tab) /\ Len(Tabs2(p)) = Len(ps[p].tabs)
  <2>1. PICK n \in Nat : n = Len(ps[p].tabs) /\ DOMAIN ps[p].tabs = 1 .. n
    BY <1>1
  <2>2. PICK g : g = Tabs2(p)
    OBVIOUS
  <2>3. g = [i \in 1 .. n |-> g[i]] /\ \A i \in 1 .. n : g[i] \in Tab
    <3>1. DOMAIN g = 1 .. n /\ g = [i \in DOMAIN ps[p].tabs |-> g[i]]
      BY <2>1, <2>2
    <3> QED
      BY <1>4, <2>1, <2>2, <3>1
  <2>4. g \in Seq(Tab) /\ Len(g) = n
    BY <2>3, SeqIs
  <2> QED
    BY <2>1, <2>2, <2>4
<1> HIDE DEF Tabs2, ps2
<1>6. /\ ps2 \in [Panels -> Pane]
      /\ \A p \in Panels : ps2[p].active = ps[p].active /\ ps2[p].tabs = Tabs2(p)
  BY <1>1, <1>2, <1>5 DEF Pane
<1>7. \A p \in Panels : DOMAIN Tabs2(p) = DOMAIN ps[p].tabs
  BY <1>1, <1>5
<1>8. Own(ps2, cs)
  BY <1>1, <1>4, <1>6, <1>7 DEF Own
<1>9. Sound(ps2, cs)
  BY <1>1, <1>6, <1>7, <1>8 DEF Sound
<1>10. ASSUME NEW p \in Panels, Alone(ps, cs, p)
       PROVE  Alone(ps2, cs, p) /\ \A e : RidTab(ps[p].tabs[1], cs, e) => RidTab(ps2[p].tabs[1], cs, e)
  <2>1. Len(ps[p].tabs) = 1 /\ AloneTab(ps[p].tabs[1], cs, p) /\ 1 \in DOMAIN ps[p].tabs
    BY <1>1, <1>10 DEF Alone
  <2> QED
    BY <1>4, <1>5, <1>6, <2>1 DEF Alone
<1> QED
  BY <1>9, <1>10 DEF ps2

\* A pane elsewhere has nothing of e.
LEMMA RidElsewhere ==
  ASSUME NEW ps, NEW cs, Own(ps, cs), NEW t, OwnTab(t, cs), NEW e, t.uri # e[1]
  PROVE  RidTab(t, cs, e)
  BY DEF RidTab, OwnTab, Own, OwnCall

LEMMA HearEndKeeps ==
  ASSUME PanelInv, HearEnd, UNCHANGED acts
  PROVE  PanelInv'
<1> DEFINE soft == ~(op.kind = "delete" /\ op.phase = "done")
           gone == IF op.phase = "done" THEN op.plan.removed ELSE {}
           S    == RefreshTargets(op.plan.folders)
<1>1. PICK o \in Work :
         /\ o = op /\ o.dest # o.entry[1] /\ o.plan \in {NoPlan, Targets(o.kind, o.entry, o.dest)}
         /\ o.phase # "done" => ~o.ok
         /\ Gone => o.entry \notin disk
         /\ disk \subseteq Rows /\ acts \in 0 .. MaxActs
  BY WorkIs DEF HearEnd
<1>2. Room(2) /\ UNCHANGED <<disk, mixed>> /\ o.phase \in {"done", "failed"}
  BY <1>1 DEF HearEnd
<1>3. S \in SUBSET Panels
  BY DEF RefreshTargets
<1>4. PICK soft2 \in BOOLEAN : soft2 = soft
  OBVIOUS
<1>5. PICK ps2, cs2 : RefreshPanels(S, soft) = [panes |-> ps2, calls |-> cs2] /\ Refreshed(ps2, cs2, S)
  BY <1>2, <1>3, <1>4, RefreshPanelsIs
<1>6. panes' = RemoveEntries(ps2, gone) /\ calls' = cs2 /\ op' = [op EXCEPT !.phase = "told", !.plan = NoPlan]
  BY <1>5 DEF HearEnd, Becomes
<1> HIDE DEF soft, gone
<1>7. PICK o2 : o2 = [o EXCEPT !.phase = "told", !.plan = NoPlan]
  OBVIOUS
<1>8. /\ o2 \in Work /\ o2.phase = "told" /\ o2.plan = NoPlan /\ o2.ok = o.ok /\ o2.kind = o.kind
      /\ o2.entry = o.entry /\ o2.dest = o.dest
  <2>1. NoPlan \in Plan
    BY DEF NoPlan, Plan
  <2> QED
    BY <1>7, <2>1 DEF Work
<1>9. op' = o2 /\ Gone' = Gone
  BY <1>1, <1>2, <1>6, <1>7, <1>8 DEF Gone
<1>10. WorkFits'
  BY <1>1, <1>2, <1>8, <1>9 DEF WorkFits
<1>11. /\ TypeOK /\ Own(panes, calls) /\ Len(calls) \in Nat /\ MaxRequests \in Nat /\ Len(calls) + 2 <= MaxRequests
       /\ Sound(panes, calls)
  BY <1>2, InvSound, PanelConstants DEF Sound, Room
<1>12. /\ Sound(panes', calls')
       /\ \A p \in Panels : Alone(ps2, cs2, p) =>
              /\ Alone(panes', calls', p)
              /\ \A e : RidTab(ps2[p].tabs[1], cs2, e) => RidTab(panes'[p].tabs[1], calls', e)
  BY <1>5, <1>6, RemoveKeeps DEF Refreshed
<1>13. Len(calls') <= MaxRequests
  <2>1. Len(cs2) <= Len(calls) + 2 /\ Len(cs2) \in Nat
    BY <1>5 DEF Refreshed, Sound
  <2> QED
    BY <1>6, <1>11, <2>1
<1>14. TypeOK' /\ Own(panes', calls')
  BY <1>2, <1>8, <1>9, <1>11, <1>12, <1>13 DEF TypeOK, Sound
<1>15. ASSUME ~mixed
       PROVE  /\ \A p \in Panels : Alone(panes, calls, p) /\ Alone(ps2, cs2, p) /\ Alone(panes', calls', p)
  BY <1>5, <1>12, <1>15 DEF PanelInv, Refreshed
<1>16. ASSUME ~mixed, Gone PROVE Rid(panes', calls', o.entry)
  <2> SUFFICES ASSUME NEW p \in Panels PROVE RidTab(panes'[p].tabs[1], calls', o.entry)
    BY DEF Rid
  <2>1. ASSUME p \notin S PROVE RidTab(panes[p].tabs[1], calls, o.entry)
    <3>1. S = {q \in Panels : Active(panes, q).uri \in op.plan.folders} /\ S # {}
      BY <2>1 DEF RefreshTargets
    <3>2. o.plan # NoPlan
      BY <1>1, <3>1 DEF NoPlan
    <3>3. o.entry[1] \in o.plan.folders
      BY <1>1, <1>16, <3>2, TargetsPlan DEF Work, Gone
    <3>4. Active(panes, p).uri # o.entry[1]
      BY <1>1, <2>1, <3>1, <3>3
    <3>5. Active(panes, p) = panes[p].tabs[1] /\ OwnTab(panes[p].tabs[1], calls)
      BY <1>11, <1>15, <1>16, AloneActive
    <3> QED
      BY <1>11, <3>4, <3>5, RidElsewhere
  <2>2. RidTab(ps2[p].tabs[1], cs2, o.entry)
    BY <1>5, <1>15, <1>16, <2>1 DEF Refreshed
  <2> QED
    BY <1>12, <1>15, <1>16, <2>2
<1> QED
  BY <1>2, <1>8, <1>9, <1>10, <1>14, <1>15, <1>16 DEF PanelInv

-----------------------------------------------------------------------------
(* The invariant, and what follows from it.                                *)

LEMMA PanelInit == Init => PanelInv
<1> SUFFICES ASSUME Init PROVE PanelInv
  OBVIOUS
<1>1. PICK u \in Places :
         panes = [p \in Panels |->
            [active |-> 1,
             tabs |-> <<[NewTab(u[p]) EXCEPT !.forward = Ahead, !.rows = Content(u[p]), !.load = Settled(Content(u[p]))]>>]]
  BY DEF Init
<1>2. disk \subseteq Rows /\ calls = <<>> /\ acts = 0 /\ mixed = FALSE /\ op = NoWork
  BY PanelConstants DEF Init
<1>3. ASSUME NEW p \in Panels
      PROVE  \E t \in Tab :
                /\ panes[p] = [active |-> 1, tabs |-> <<t>>]
                /\ t.kind = "directory" /\ t.load \in {"empty", "loaded"} /\ t.req = None /\ t.aside = {}
                /\ \A e \in t.rows : e[1] = t.uri
  <2>1. u[p] \in Uris /\ u[p] \in Place
    BY PanelConstants DEF Place
  <2>2. PICK n \in Tab : /\ n = NewTab(u[p]) /\ n.uri = u[p] /\ n.kind = "directory"
                         /\ n.req = None /\ n.rows = {} /\ n.aside = {}
    BY <2>1, FreshTab
  <2>3. PICK here \in SUBSET Rows : here = Content(u[p])
    BY <1>2 DEF Content
  <2>4. PICK load \in {"empty", "loaded"} : load = Settled(here)
    BY DEF Settled
  <2>5. Ahead \in Seq(Place)
    BY PanelConstants DEF Place
  <2>6. PICK t : t = [n EXCEPT !.forward = Ahead, !.rows = here, !.load = load]
    OBVIOUS
  <2>7. /\ t \in Tab /\ t.uri = u[p] /\ t.kind = "directory" /\ t.req = None /\ t.rows = here
        /\ t.aside = {} /\ t.load = load
    BY <2>2, <2>5, <2>6 DEF Tab, Place
  <2>8. panes[p] = [active |-> 1, tabs |-> <<t>>]
    BY <1>1, <2>2, <2>3, <2>4, <2>6
  <2>9. \A e \in here : e[1] = u[p]
    BY <2>3 DEF Content
  <2> QED
    BY <2>7, <2>8, <2>9
<1>4. ASSUME NEW p \in Panels
      PROVE  /\ panes[p] \in Pane /\ panes[p].active \in DOMAIN panes[p].tabs
             /\ \A i \in DOMAIN panes[p].tabs : OwnTab(panes[p].tabs[i], calls)
             /\ Alone(panes, calls, p)
  <2>1. PICK t \in Tab :
           /\ panes[p] = [active |-> 1, tabs |-> <<t>>]
           /\ t.kind = "directory" /\ t.load \in {"empty", "loaded"} /\ t.req = None /\ t.aside = {}
           /\ \A e \in t.rows : e[1] = t.uri
    BY <1>3
  <2>2. /\ panes[p].tabs = <<t>> /\ <<t>> \in Seq(Tab) /\ Len(<<t>>) = 1 /\ DOMAIN <<t>> = {1} /\ <<t>>[1] = t
    BY <2>1
  <2>3. panes[p] \in Pane /\ panes[p].active = 1
    BY <2>1, <2>2 DEF Pane
  <2>4. OwnTab(t, calls)
    BY <2>1 DEF OwnTab
  <2>5. AloneTab(t, calls, p)
    BY <2>1 DEF AloneTab
  <2>6. \A i \in DOMAIN panes[p].tabs : OwnTab(panes[p].tabs[i], calls)
    BY <2>2, <2>4
  <2>7. Alone(panes, calls, p)
    BY <2>2, <2>5 DEF Alone
  <2>8. panes[p].active \in DOMAIN panes[p].tabs
    BY <2>2, <2>3
  <2> QED
    BY <2>3, <2>6, <2>7, <2>8
<1>5. panes \in [Panels -> Pane]
  BY <1>1, <1>4
<1>6. TypeOK
  <2>1. calls \in Seq(Call) /\ Len(calls) = 0 /\ MaxRequests \in Nat /\ MaxActs \in Nat
    BY <1>2, PanelConstants
  <2>2. acts \in 0 .. MaxActs /\ Len(calls) <= MaxRequests
    BY <1>2, <2>1
  <2>3. mixed \in BOOLEAN /\ op \in Work \cup {NoWork}
    BY <1>2
  <2> QED
    BY <1>2, <1>4, <1>5, <2>1, <2>2, <2>3 DEF TypeOK
<1>7. WorkFits
  BY <1>2 DEF WorkFits
<1>8. Own(panes, calls)
  BY <1>2, <1>4 DEF Own
<1>9. op.phase # "told"
  BY <1>2 DEF NoWork
<1> QED
  BY <1>4, <1>6, <1>7, <1>8, <1>9 DEF PanelInv

LEMMA PanelUser ==
  ASSUME PanelInv, User
  PROVE  PanelInv'
<1>1. acts' \in 0 .. MaxActs
  BY InvSound, PanelConstants DEF User, TypeOK
<1>2. ASSUME NEW p \in Panels, NEW u \in Uris, Navigate(p, u) \/ OpenTab(p, u) PROVE PanelInv'
  BY <1>1, <1>2, NavigationKeeps, OpenKeeps
<1>3. ASSUME NEW p \in Panels, GoBack(p) \/ GoForward(p) \/ Refresh(p) \/ OpenContentTab(p) PROVE PanelInv'
  BY <1>1, <1>3, NavigationKeeps, OpenKeeps
<1>4. ASSUME NEW p \in Panels, NEW i, SwitchTab(p, i) \/ CloseTab(p, i) PROVE PanelInv'
  BY <1>1, <1>4, SwitchKeeps, CloseKeeps
<1>5. CASE SwapPanes
  BY <1>1, <1>5, SwapKeeps
<1>6. ASSUME NEW p \in Panels, WatchChanged(p) PROVE PanelInv'
  BY <1>1, <1>6, NavigationKeeps
<1>7. ASSUME NEW kind \in Kinds, NEW e \in disk, NEW d \in Uris, StartOperation(kind, e, d) PROVE PanelInv'
  BY <1>1, <1>7, StartOperationKeeps
<1> QED
  BY <1>2, <1>3, <1>4, <1>5, <1>6, <1>7 DEF User

LEMMA PanelNext == PanelInv /\ [Next]_vars => PanelInv'
<1> SUFFICES ASSUME PanelInv, [Next]_vars PROVE PanelInv'
  OBVIOUS
<1>1. CASE User
  BY <1>1, PanelUser
<1>2. CASE Operation /\ UNCHANGED acts
  BY <1>2, EndOperationKeeps, StartAnsweredKeeps, HearEndKeeps DEF Operation
<1>3. ASSUME NEW r \in DOMAIN calls, Shell(r) \/ Page(r), UNCHANGED acts PROVE PanelInv'
  BY <1>3, ShellKeeps, PageStepKeeps
<1>4. CASE UNCHANGED vars
  <2>1. UNCHANGED <<panes, calls, disk, op, acts, mixed>>
    BY <1>4 DEF vars
  <2>2. TypeOK' /\ WorkFits' /\ Own(panes', calls')
    BY <2>1 DEF PanelInv, TypeOK, WorkFits, Gone
  <2> QED
    BY <2>1, <2>2 DEF PanelInv, Gone
<1> QED
  BY <1>1, <1>2, <1>3, <1>4 DEF Next

LEMMA PanelInvariant == Spec => []PanelInv
  BY PanelInit, PanelNext, PTL DEF Spec

LEMMA TabOfPanel ==
  ASSUME NEW t \in Tabs
  PROVE  \E p \in Panels : \E i \in DOMAIN panes[p].tabs : t = panes[p].tabs[i]
  BY DEF Tabs, Range

\* Whatever tabs are opened, closed and swapped, and however the answers and batches of
\* their listings interleave, a tab shows and collects rows of its own directory only
\* (shouldApplyBatch, updateRequestTab, createFreshTab).
THEOREM RowsOfTheFolder == Spec => []OwnFolder
<1>1. PanelInv => OwnFolder
  BY TabOfPanel DEF PanelInv, Own, OwnTab, OwnFolder
<1> QED
  BY <1>1, PanelInvariant, PTL

LEMMA QuietTab ==
  ASSUME PanelInv, Quiet, ~mixed, NEW t \in Tabs
  PROVE  /\ t.load # "loading" /\ t.req = None
         /\ \E p \in Panels : t = panes[p].tabs[1]
<1>1. PICK p \in Panels : \E j \in DOMAIN panes[p].tabs : t = panes[p].tabs[j]
  BY TabOfPanel
<1>0. PICK i \in DOMAIN panes[p].tabs : t = panes[p].tabs[i]
  BY <1>1
<1>2. Alone(panes, calls, p) /\ panes[p].tabs \in Seq(Tab) /\ OwnTab(t, calls)
  BY <1>0, InvSound DEF PanelInv, Own
<1>3. i = 1 /\ AloneTab(t, calls, p)
  BY <1>0, <1>2 DEF Alone
<1>4. t.req = None
  <2>1. SUFFICES ASSUME t.req # None PROVE FALSE
    OBVIOUS
  <2>2. t.req \in DOMAIN calls /\ Coming(calls[t.req])
    BY <1>2, <1>3, <2>1 DEF OwnTab, AloneTab
  <2> QED
    BY <2>2 DEF Coming, Quiet
<1> QED
  BY <1>0, <1>3, <1>4 DEF AloneTab

\* While each pane has one tab and keeps its side, every listing ends for its tab: once all
\* answers and batches have arrived no tab is left loading, although a listing may have
\* been superseded, refused, broken off, or complete before its answer.
THEOREM EveryListingEnds == Spec => []ListingsEnd
<1>1. PanelInv => ListingsEnd
  BY QuietTab DEF ListingsEnd
<1> QED
  BY <1>1, PanelInvariant, PTL

\* An entry heard to be deleted or moved stays away: the refresh replaces every listing
\* that may have read it, or the pane shows another directory, also when the end is heard
\* before the start response that says which directories to refresh.
THEOREM NothingComesBack == Spec => []GoneIsGone
<1>1. ASSUME PanelInv PROVE GoneIsGone
  <2> SUFFICES ASSUME op.phase = "told", op.ok, op.kind # "copy", Quiet, ~mixed,
                      NEW t \in Tabs, op.entry \in t.rows
               PROVE  t.load = "error"
    BY DEF GoneIsGone
  <2>1. PICK p \in Panels : t = panes[p].tabs[1]
    BY <1>1, QuietTab
  <2>2. t.req = None /\ RidTab(t, calls, op.entry)
    BY <1>1, <2>1, QuietTab DEF PanelInv, Gone, Rid
  <2> QED
    BY <2>2 DEF RidTab
<1> QED
  BY <1>1, PanelInvariant, PTL

-----------------------------------------------------------------------------
(* Panels and connections together.                                        *)

LEMMA WindowInvariant == PanelsSpec => [](PanelInv /\ CalmInv)
<1>1. MCInit => PanelInv /\ CalmInv
  BY PanelInit, CalmInit DEF MCInit
<1>2. PanelInv /\ CalmInv /\ [MCNext]_<<vars, remoteVars, focus>> => (PanelInv /\ CalmInv)'
  <2> SUFFICES ASSUME PanelInv, CalmInv, [MCNext]_<<vars, remoteVars, focus>> PROVE PanelInv' /\ CalmInv'
    OBVIOUS
  <2>1. [Next]_vars /\ [RemoteNext]_remoteVars
    BY DEF MCNext
  <2> QED
    BY <2>1, PanelNext, CalmNext
<1> QED
  BY <1>1, <1>2, PTL DEF PanelsSpec

\* The variables of the panels and of the connections keep their types, and the lock of a
\* profile is held by a call about it, whatever the directories, hosts and profiles are.
THEOREM WindowTypes == PanelsSpec => []TypesHold
<1>1. PanelInv /\ CalmInv => TypesHold
  BY LoginGives DEF PanelInv, CalmInv, TypesHold
<1> QED
  BY <1>1, WindowInvariant, PTL

\* In the window's specification a connection is said to be what it is, and nobody logs in
\* twice (publish_status, the lock of ensure_connected).
THEOREM WindowSessions == PanelsSpec => []SessionsTrue
<1>1. CalmInv => SessionsTrue
  BY LoginGives, CalmGives DEF CalmInv, SessionsTrue
<1> QED
  BY <1>1, WindowInvariant, PTL

=============================================================================
