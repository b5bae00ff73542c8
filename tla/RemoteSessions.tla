---------------------------- MODULE RemoteSessions ----------------------------
(***************************************************************************)
(* The connections to remote servers: ConnectionSessionManager with the    *)
(* network commands of the shell that change a profile, and the SFTP       *)
(* connector.  Commands, file operations of providers and the reaper run   *)
(* side by side; a connect holds the lock of its profile, nobody else      *)
(* does.  A step is what happens between two waits.                        *)
(*                                                                         *)
(* A key is a pair of a host and a number: a server can be set up anew     *)
(* with another key.  Profiles log in with a password; port, user and      *)
(* whatever else makes another login of a profile are part of the host.    *)
(* Schemes without host keys skip what concerns those.                     *)
(***************************************************************************)
EXTENDS Integers, Sequences, TLC

CONSTANTS
    Profiles,
    Hosts,
    MaxKeys,     \* bound on the keys a server has had
    MaxCalls,    \* bound on the calls made
    MaxEvents    \* bound on what happens to sessions, challenges and servers by itself

ASSUME RemoteConstants == MaxKeys \in Nat \ {0} /\ MaxCalls \in Nat /\ MaxEvents \in Nat

VARIABLES
    rows,        \* network_profiles: what is stored of each profile
    secret,      \* whether the keychain has its password
    session,     \* sessions
    status,      \* statuses
    told,        \* the last status event of each profile
    challenge,   \* host_key_challenges
    holder,      \* who holds the connect lock
    remote,      \* the calls
    serverKey,   \* the key a server presents
    confirmed,   \* ghost: the keys a user has confirmed for a profile
    exposed,     \* ghost: a password has gone to a server with another key
    events,      \* how often something has happened by itself
    tangled      \* ghost: a disconnect or an edit ran beside a connect

remoteVars == <<rows, secret, session, status, told, challenge, holder, remote,
                serverKey, confirmed, exposed, events, tangled>>

NoOne     == 0
NoKey     == <<>>
NoSession == [key |-> NoKey]
NoRow     == [there |-> FALSE]
Unasked   == [key |-> NoKey]
NoCall    == [kind |-> "none", at |-> "done"]

CallKinds == {"connect", "provider", "verify", "disconnect", "reap", "update", "delete", "forget", "trust"}
Statuses  == {"connected", "disconnected", "error"}
Steps     == {"look", "lock", "again", "cached", "ping", "row", "observe", "judge", "secrets", "shake",
             "insert", "drop", "mark", "tell", "edit", "clear", "unpin", "write", "remove",
             "compare", "pin", "answered", "use", "done"}

Keys     == Hosts \X (1 .. MaxKeys)
Row      == [there : {TRUE}, host : Hosts, pinned : Keys \cup {NoKey}, stored : BOOLEAN]
Handle   == [key : Keys, alive : BOOLEAN,
             age : {"fresh", "idle", "revived"}]   \* unused for 15 minutes, and used again
RemoteCall ==
    [kind : CallKinds, profile : Profiles, at : Steps, row : Row \cup {NoRow},
     arg : Keys \cup {<<h>> : h \in Hosts} \cup {NoKey}, key : Keys \cup {NoKey},
     outcome : Statuses \cup {"none"}, then : {"row", "answered", "done"}]
Question == [host : Hosts, key : Keys, fresh : BOOLEAN]

RemoteTypeOK ==
    /\ rows \in [Profiles -> Row \cup {NoRow}] /\ secret \in [Profiles -> BOOLEAN]
    /\ session \in [Profiles -> Handle \cup {NoSession}]
    /\ status \in [Profiles -> Statuses] /\ told \in [Profiles -> Statuses]
    /\ challenge \in [Profiles -> Question \cup {Unasked}]
    /\ holder \in [Profiles -> 0 .. MaxCalls] /\ remote \in Seq(RemoteCall \cup {NoCall}) /\ Len(remote) <= MaxCalls
    /\ serverKey \in [Hosts -> 1 .. MaxKeys] /\ confirmed \subseteq Profiles \X (Keys \cup {NoKey})
    /\ exposed \in BOOLEAN /\ tangled \in BOOLEAN /\ events \in 0 .. MaxEvents

\* At a start of the program nothing is connected.
RemoteInit ==
    /\ rows \in [Profiles -> {[there |-> TRUE, host |-> h, pinned |-> k, stored |-> TRUE] :
                                 h \in Hosts, k \in {NoKey} \cup (Hosts \X {1})}]
    /\ \A p \in Profiles : rows[p].pinned # NoKey => rows[p].pinned[1] = rows[p].host
    /\ secret = [p \in Profiles |-> TRUE]
    /\ session = [p \in Profiles |-> NoSession]
    /\ status = [p \in Profiles |-> "disconnected"] /\ told = status
    /\ challenge = [p \in Profiles |-> Unasked]
    /\ holder = [p \in Profiles |-> NoOne]
    /\ remote = <<>>
    /\ serverKey = [h \in Hosts |-> 1]
    /\ confirmed = {<<p, rows[p].pinned>> : p \in Profiles}
    /\ exposed = FALSE /\ events = 0 /\ tangled = FALSE

Presented(h) == <<h, serverKey[h]>>
Live(s)      == s # NoSession /\ s.alive /\ s.age # "idle"
P(i)         == remote[i].profile

-----------------------------------------------------------------------------
(* Steps of a call.  To(i, s) is the sequence of calls when i goes on with *)
(* s, OnTo(i, s, o, then) when it goes on with s to mark and tell the      *)
(* outcome o before anything else.                                         *)

To(i, s) == [remote EXCEPT ![i] = IF s = "done" THEN NoCall ELSE [@ EXCEPT !.at = s]]
OnTo(i, s, o, then) == [remote EXCEPT ![i] = [@ EXCEPT !.at = s, !.outcome = o, !.then = then]]

At(i, s) == remote[i].at = s

\* Calls that take away what a connect builds up, and calls that build it up.
Undoing(c) == c.kind \in {"disconnect", "reap", "update", "delete", "forget"}
                  /\ c.at \in {"drop", "mark", "tell", "clear", "unpin", "write", "remove"}
Building(c) == \/ c.kind \in {"connect", "provider", "verify"}
                      /\ c.at \in {"observe", "judge", "secrets", "shake", "insert", "drop", "mark", "tell", "answered"}
               \/ c.kind = "trust" /\ c.at \in {"compare", "pin", "answered"}
Tangled(calls) ==
    \E i, j \in DOMAIN calls : Undoing(calls[i]) /\ Building(calls[j]) /\ calls[i].profile = calls[j].profile

\* Every step sets the calls, and notes whether they got tangled.
Goes(calls) == remote' = calls /\ tangled' = (tangled \/ Tangled(calls))

\* A call that ends gives its lock back.
Leave(i, s) ==
    /\ Goes(To(i, s))
    /\ holder' = [holder EXCEPT ![P(i)] = IF @ = i THEN NoOne ELSE @]

Begin(kind, p, s, arg) ==
    /\ Len(remote) < MaxCalls
    /\ Goes(Append(remote, [kind |-> kind, profile |-> p, at |-> s, arg |-> arg, row |-> NoRow,
                            key |-> NoKey, outcome |-> "none", then |-> "done"]))
    /\ UNCHANGED <<rows, secret, session, status, told, challenge, holder, serverKey, confirmed, exposed, events>>

\* connect: network_connect and network_profile_test of a saved profile.
Connect(p)    == Begin("connect", p, "look", NoKey)
\* session_for_profile: every file operation of a provider.
Provide(p)    == Begin("provider", p, "lock", NoKey)
\* verify_profile_host_key, before an SSH terminal.
Verify(p)     == Begin("verify", p, "row", NoKey)
Disconnect(p) == Begin("disconnect", p, "drop", NoKey)
\* reap_idle_sessions has found the session idle.
Reap(p)       == session[p] # NoSession /\ session[p].age = "idle" /\ Begin("reap", p, "drop", NoKey)
Update(p, h)  == Begin("update", p, "edit", <<h>>)
Delete(p)     == Begin("delete", p, "drop", NoKey)
Forget(p)     == Begin("forget", p, "drop", NoKey)
\* trust_observed_host_key with the key the user saw, or any other.
Trust(p, k)   == Begin("trust", p, "compare", k)

-----------------------------------------------------------------------------
(* connect and session_for_profile up to the connect proper.               *)

\* The table is locked while session_is_alive waits for the ping.
Look(i) ==
    /\ At(i, "look")
    /\ Goes(To(i, IF Live(session[P(i)]) THEN "done" ELSE "lock"))
    /\ UNCHANGED <<rows, secret, session, status, told, challenge, holder, serverKey, confirmed, exposed, events>>

Lock(i) ==
    /\ At(i, "lock") /\ holder[P(i)] = NoOne
    /\ holder' = [holder EXCEPT ![P(i)] = i]
    /\ Goes(To(i, IF remote[i].kind = "connect" THEN "again" ELSE "cached"))
    /\ UNCHANGED <<rows, secret, session, status, told, challenge, serverKey, confirmed, exposed, events>>

\* Mutant: who waited for the lock connects in any case.
AgainNot(i) ==
    /\ At(i, "again")
    /\ Goes(To(i, "row")) /\ UNCHANGED holder
    /\ UNCHANGED <<rows, secret, session, status, told, challenge, serverKey, confirmed, exposed, events>>

Again(i) ==
    /\ At(i, "again")
    /\ IF Live(session[P(i)]) THEN Leave(i, "done") ELSE Goes(To(i, "row")) /\ UNCHANGED holder
    /\ UNCHANGED <<rows, secret, session, status, told, challenge, serverKey, confirmed, exposed, events>>

Cached(i) ==
    LET s == session[P(i)]
    IN  /\ At(i, "cached")
        /\ Goes(IF s = NoSession \/ s.age = "idle" THEN To(i, "row")
                ELSE To(i, "ping"))
        /\ UNCHANGED <<rows, secret, session, status, told, challenge, holder, serverKey, confirmed, exposed, events>>

\* The ping of a session that has left the table meanwhile may go either way; no other
\* one can have taken its place, the lock being held.
Ping(i) ==
    LET same == session[P(i)] # NoSession
    IN  /\ At(i, "ping")
        /\ \/ (same => session[P(i)].alive) /\ Leave(i, "use")
           \/ /\ same => ~session[P(i)].alive
              /\ Goes(OnTo(i, "drop", "disconnected", "row"))
              /\ UNCHANGED holder
        /\ UNCHANGED <<rows, secret, session, status, told, challenge, serverKey, confirmed, exposed, events>>

-----------------------------------------------------------------------------
(* force_connect                                                           *)

\* A failure of force_connect is marked; verify_profile_host_key only returns it.
Failed(i) == IF remote[i].kind = "verify" THEN To(i, "done")
             ELSE OnTo(i, "drop", "error", "answered")

ReadRow(i) ==
    /\ At(i, "row")
    /\ IF rows[P(i)].there THEN Goes([remote EXCEPT ![i] = [@ EXCEPT !.at = "observe", !.row = rows[P(i)]]]) /\ UNCHANGED holder
       ELSE Leave(i, "done")
    /\ UNCHANGED <<rows, secret, session, status, told, challenge, serverKey, confirmed, exposed, events>>

\* observe_host_key: a handshake without credentials.
Observe(i) ==
    /\ At(i, "observe")
    /\ \/ Goes([remote EXCEPT ![i] = [@ EXCEPT !.at = "judge", !.key = Presented(remote[i].row.host)]])
       \/ Goes(Failed(i))
    /\ UNCHANGED <<rows, secret, session, status, told, challenge, holder, serverKey, confirmed, exposed, events>>

\* verify_host_key
Judge(i) ==
    LET c == remote[i]
    IN  /\ At(i, "judge")
        /\ IF c.row.pinned = c.key
           THEN /\ challenge' = [challenge EXCEPT ![P(i)] = Unasked]
                /\ Goes(To(i, IF c.kind = "verify" THEN "done" ELSE "secrets"))
           ELSE /\ challenge' = [challenge EXCEPT ![P(i)] = [host |-> c.row.host, key |-> c.key, fresh |-> TRUE]]
                /\ Goes(Failed(i))
        /\ UNCHANGED <<rows, secret, session, status, told, holder, serverKey, confirmed, exposed, events>>

\* AuthSecrets::load
LoadSecrets(i) ==
    /\ At(i, "secrets")
    /\ Goes(IF remote[i].row.stored /\ secret[P(i)] THEN To(i, "shake") ELSE Failed(i))
    /\ UNCHANGED <<rows, secret, session, status, told, challenge, holder, serverKey, confirmed, exposed, events>>

\* Mutant: the key was looked at before.
ShakeAtOnce(i) ==
    LET k == Presented(remote[i].row.host)
    IN  /\ At(i, "shake")
        /\ exposed' = (exposed \/ <<P(i), k>> \notin confirmed)
        /\ Goes([remote EXCEPT ![i] = [@ EXCEPT !.at = "insert", !.key = k]])
        /\ UNCHANGED <<rows, secret, session, status, told, challenge, holder, serverKey, confirmed, events>>

\* connect_blocking of the connector: its handshake is another one, and only the right
\* key gets the password.
Shake(i) ==
    LET k == Presented(remote[i].row.host)
    IN  /\ At(i, "shake")
        /\ exposed' = (exposed \/ (k = remote[i].row.pinned /\ <<P(i), k>> \notin confirmed))
        /\ \/ k = remote[i].row.pinned /\ Goes([remote EXCEPT ![i] = [@ EXCEPT !.at = "insert", !.key = k]])
           \/ Goes(Failed(i))
        /\ UNCHANGED <<rows, secret, session, status, told, challenge, holder, serverKey, confirmed, events>>

Insert(i) ==
    /\ At(i, "insert")
    /\ session' = [session EXCEPT ![P(i)] = [key |-> remote[i].key, alive |-> TRUE, age |-> "fresh"]]
    /\ Goes(OnTo(i, "mark", "connected", "answered"))
    /\ UNCHANGED <<rows, secret, status, told, challenge, holder, serverKey, confirmed, exposed, events>>

\* The connection state is saved and the lock given back; who wants a session looks it up.
Answered(i) ==
    /\ At(i, "answered") /\ remote[i].kind # "trust"
    /\ rows' = IF remote[i].outcome = "connected" /\ rows[P(i)].there
               THEN [rows EXCEPT ![P(i)].stored = TRUE] ELSE rows
    /\ Leave(i, IF remote[i].kind = "provider" /\ remote[i].outcome = "connected" /\ session[P(i)] # NoSession
                THEN "use" ELSE "done")
    /\ UNCHANGED <<secret, session, status, told, challenge, serverKey, confirmed, exposed, events>>

\* touch_session, after a file operation that went well: of whatever session there is by then.
Touch(i) ==
    LET s == session[P(i)]
    IN  /\ At(i, "use")
        /\ \/ UNCHANGED session
           \/ s # NoSession /\ s.age = "idle" /\ session' = [session EXCEPT ![P(i)].age = "revived"]
        /\ Goes(To(i, "done"))
        /\ UNCHANGED <<rows, secret, status, told, challenge, holder, serverKey, confirmed, exposed, events>>

-----------------------------------------------------------------------------
(* disconnect, mark_error and the end of force_connect: the session, the   *)
(* status, the event.                                                      *)

DropHandle(i) ==
    /\ At(i, "drop")
    /\ session' = [session EXCEPT ![P(i)] = NoSession]
    /\ Goes(To(i, "mark"))
    /\ UNCHANGED <<rows, secret, status, told, challenge, holder, serverKey, confirmed, exposed, events>>

Outcome(i) == IF Undoing(remote[i]) THEN "disconnected" ELSE remote[i].outcome

Mark(i) ==
    /\ At(i, "mark")
    /\ status' = [status EXCEPT ![P(i)] = Outcome(i)]
    /\ Goes(To(i, "tell"))
    /\ UNCHANGED <<rows, secret, session, told, challenge, holder, serverKey, confirmed, exposed, events>>

\* publish_status
Tell(i) ==
    /\ At(i, "tell")
    /\ told' = [told EXCEPT ![P(i)] = Outcome(i)]
    /\ Goes(To(i, IF remote[i].kind \in {"update", "delete", "forget"} THEN "clear" ELSE remote[i].then))
    /\ UNCHANGED <<rows, secret, session, status, challenge, holder, serverKey, confirmed, exposed, events>>

-----------------------------------------------------------------------------
(* The commands that change a profile.                                     *)

\* network_profile_update; without another host it changes nothing that matters here.
Edit(i) ==
    /\ At(i, "edit")
    /\ Goes(To(i, IF rows[P(i)].there /\ rows[P(i)].host # remote[i].arg[1] THEN "drop" ELSE "done"))
    /\ UNCHANGED <<rows, secret, session, status, told, challenge, holder, serverKey, confirmed, exposed, events>>

\* clear_observed_host_key
ClearObserved(i) ==
    /\ At(i, "clear")
    /\ challenge' = [challenge EXCEPT ![P(i)] = Unasked]
    /\ Goes(To(i, IF remote[i].kind = "delete" THEN "remove" ELSE "unpin"))
    /\ UNCHANGED <<rows, secret, session, status, told, holder, serverKey, confirmed, exposed, events>>

\* clear_host_key_fingerprint and, for an update, the password.
Unpin(i) ==
    LET edit == remote[i].kind = "update"
    IN  /\ At(i, "unpin")
        /\ IF rows[P(i)].there
           THEN /\ rows' = [rows EXCEPT ![P(i)] = [@ EXCEPT !.pinned = NoKey, !.stored = rows[P(i)].stored /\ ~edit]]
                /\ secret' = [secret EXCEPT ![P(i)] = @ /\ ~edit]
                /\ Goes(To(i, IF edit THEN "write" ELSE "done"))
           ELSE Goes(To(i, "done")) /\ UNCHANGED <<rows, secret>>
        /\ UNCHANGED <<session, status, told, challenge, holder, serverKey, confirmed, exposed, events>>

WriteRow(i) ==
    /\ At(i, "write")
    /\ rows' = IF rows[P(i)].there THEN [rows EXCEPT ![P(i)].host = remote[i].arg[1]] ELSE rows
    /\ Goes(To(i, "done"))
    /\ UNCHANGED <<secret, session, status, told, challenge, holder, serverKey, confirmed, exposed, events>>

\* The row goes, then its password; without the row the command ends early.
RemoveRow(i) ==
    /\ At(i, "remove")
    /\ rows' = [rows EXCEPT ![P(i)] = NoRow]
    /\ secret' = [secret EXCEPT ![P(i)] = @ /\ ~rows[P(i)].there]
    /\ Goes(To(i, "done"))
    /\ UNCHANGED <<session, status, told, challenge, holder, serverKey, confirmed, exposed, events>>

\* network_profile_set_secret
SetSecret(p) ==
    /\ rows[p].there /\ ~secret[p]
    /\ secret' = [secret EXCEPT ![p] = TRUE]
    /\ rows' = [rows EXCEPT ![p].stored = TRUE]
    /\ UNCHANGED <<session, status, told, challenge, holder, remote, serverKey, confirmed, exposed, events, tangled>>

\* The challenge must be about the key that is confirmed and the host of the profile.
Answers(q, row, k) == q # Unasked /\ q.fresh /\ q.host = row.host /\ q.key = k

Compare(i) ==
    /\ At(i, "compare")
    /\ Goes(To(i, IF rows[P(i)].there /\ Answers(challenge[P(i)], rows[P(i)], remote[i].arg) THEN "pin" ELSE "done"))
    /\ UNCHANGED <<rows, secret, session, status, told, challenge, holder, serverKey, confirmed, exposed, events>>

Pin(i) ==
    /\ At(i, "pin")
    /\ IF rows[P(i)].there
       THEN /\ rows' = [rows EXCEPT ![P(i)].pinned = remote[i].arg]
            /\ confirmed' = confirmed \cup {<<P(i), remote[i].arg>>}
            /\ Goes(To(i, "answered"))
       ELSE Goes(To(i, "done")) /\ UNCHANGED <<rows, confirmed>>
    /\ UNCHANGED <<secret, session, status, told, challenge, holder, serverKey, exposed, events>>

\* The challenge has been answered.
Settle(i) ==
    /\ At(i, "answered") /\ remote[i].kind = "trust"
    /\ challenge' = [challenge EXCEPT ![P(i)] = Unasked]
    /\ Goes(To(i, "done"))
    /\ UNCHANGED <<rows, secret, session, status, told, holder, serverKey, confirmed, exposed, events>>

-----------------------------------------------------------------------------
(* Time and the other side.                                                *)

Others == <<rows, secret, status, told, holder, remote, confirmed, exposed, tangled>>

Happens == events < MaxEvents /\ events' = events + 1

SessionDies(p) ==
    /\ Happens
    /\ session[p] # NoSession /\ session[p].alive
    /\ session' = [session EXCEPT ![p].alive = FALSE]
    /\ UNCHANGED <<challenge, serverKey, Others>>

SessionIdles(p) ==
    /\ Happens
    /\ session[p] # NoSession /\ session[p].age # "idle"
    /\ session' = [session EXCEPT ![p].age = "idle"]
    /\ UNCHANGED <<challenge, serverKey, Others>>

\* HOST_KEY_CHALLENGE_TTL
ChallengeAges(p) ==
    /\ Happens
    /\ challenge[p] # Unasked /\ challenge[p].fresh
    /\ challenge' = [challenge EXCEPT ![p].fresh = FALSE]
    /\ UNCHANGED <<session, serverKey, Others>>

SetUpAnew(h) ==
    /\ Happens
    /\ serverKey[h] < MaxKeys
    /\ serverKey' = [serverKey EXCEPT ![h] = @ + 1]
    /\ UNCHANGED <<session, challenge, Others>>

-----------------------------------------------------------------------------

RemoteUser ==
    \E p \in Profiles :
        \/ Connect(p) \/ Provide(p) \/ Verify(p) \/ Disconnect(p) \/ Reap(p) \/ Delete(p) \/ Forget(p)
        \/ \E h \in Hosts : Update(p, h)
        \/ \E k \in Keys : Trust(p, k)
        \/ SetSecret(p)

RemoteStep(i) ==
    \/ Look(i) \/ Lock(i) \/ Again(i) \/ Cached(i) \/ Ping(i)
    \/ ReadRow(i) \/ Observe(i) \/ Judge(i) \/ LoadSecrets(i) \/ Shake(i) \/ Insert(i) \/ Answered(i) \/ Touch(i)
    \/ DropHandle(i) \/ Mark(i) \/ Tell(i)
    \/ Edit(i) \/ ClearObserved(i) \/ Unpin(i) \/ WriteRow(i) \/ RemoveRow(i)
    \/ Compare(i) \/ Pin(i) \/ Settle(i)

RemoteNext ==
    \/ RemoteUser
    \/ \E i \in DOMAIN remote : remote[i] # NoCall /\ RemoteStep(i)
    \/ \E p \in Profiles : SessionDies(p) \/ SessionIdles(p) \/ ChallengeAges(p)
    \/ \E h \in Hosts : SetUpAnew(h)

RemoteSpec == RemoteInit /\ [][RemoteNext]_remoteVars

-----------------------------------------------------------------------------
(* Properties.                                                             *)

\* Who holds the lock of a profile is a call about it that is under way.
LocksBelongToCalls ==
    \A p \in Profiles : holder[p] # NoOne =>
        /\ holder[p] \in DOMAIN remote /\ remote[holder[p]] # NoCall
        /\ remote[holder[p]].profile = p /\ remote[holder[p]].at \notin {"use", "lock"}

\* A password goes only to servers, and only such servers are connected, whose key the
\* user has confirmed for this very profile: whatever edits, confirmations of other or
\* older keys and changes of the server's key come between looking at the key and
\* logging in.
ConfirmedOnly ==
    /\ ~exposed
    /\ \A p \in Profiles : session[p] # NoSession => <<p, session[p].key>> \in confirmed

\* No call logs in to a server beside another call, or while there is a session that works
\* and has never been idle: calls that find none at the same time wait for one login and
\* share what it brings.
NoSecondLogin ==
    \A i \in DOMAIN remote :
        remote[i].kind \in {"connect", "provider"}
            /\ remote[i].at \in {"row", "observe", "judge", "secrets", "shake", "insert"}
        => /\ holder[P(i)] = i
           /\ LET s == session[P(i)] IN s # NoSession => ~s.alive \/ s.age # "fresh"

RemoteRest == \A i \in DOMAIN remote : remote[i] = NoCall

\* When no call is under way and no disconnect or edit crossed a connect, the status the
\* page was told last is the status there is, it says connected exactly when there is a
\* session, a deleted profile has left nothing behind, and a pinned key is one of the
\* profile's host.
StatusIsTrue ==
    RemoteRest /\ ~tangled => \A p \in Profiles :
        /\ told[p] = status[p]
        /\ status[p] = "connected" <=> session[p] # NoSession
        /\ ~rows[p].there => session[p] = NoSession /\ challenge[p] = Unasked
        /\ rows[p].there /\ rows[p].pinned # NoKey => rows[p].pinned[1] = rows[p].host
        /\ rows[p].there => (rows[p].stored <=> secret[p])

=============================================================================
