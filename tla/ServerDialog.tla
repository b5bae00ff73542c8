------------------------------ MODULE ServerDialog ------------------------------
(* The dialog of the servers (ConnectServerDialog), the handlers it and the sidebar   *)
(* call (useNetworkHandlers), and the list of servers of the page.  Saving a server   *)
(* writes its row, then its secret, then lists the servers again; testing one lists   *)
(* them too.  The dialog stays mounted when it is closed, and goes on being used      *)
(* while calls are under way: their answers change whatever it shows by then.         *)
(*                                                                                    *)
(* Each command of the shell is one step; what can happen inside one is in            *)
(* RemoteSessions and in Stores.  A host is known by its key: key h is that of host   *)
(* h.  Label, port, user, options and folder of a server are like its host, and the   *)
(* passphrase of a key is like a password.                                            *)
EXTENDS Integers, FiniteSets, SequencesExt

CONSTANTS
    MaxServers,     \* bound on the servers that are ever saved
    MaxServerActs   \* bound on what the user does

ASSUME ServerConstants == MaxServers \in Nat \ {0, 1} /\ MaxServerActs \in Nat

VARIABLES
    servers,     \* network_profiles, with the pinned keys
    challenges,  \* host_key_challenges: the key a server last showed, or NoKey
    listed,      \* networkProfiles: the page's list of servers
    localList,   \* localProfiles: what the dialog saved since it was opened
    server,      \* the dialog
    looking,     \* the search for keys in ~/.ssh: off, or whether a path was there when it began
    serverCalls, \* calls under way
    busyServers, \* busyProfileIds
    seen         \* ghosts and the counter of acts

serverVars == <<servers, challenges, listed, localList, server, looking, serverCalls, busyServers, seen>>

Hosts   == 1 .. 2
NoHost  == 0     \* a form that is not filled in
NoKey   == 0
OldKey  == 3     \* a key a host had before it was set up anew
Keys    == Hosts \cup {OldKey}
Unsaved_ == 0
Ids     == 1 .. MaxServers
Logins  == {"password", "privateKey", "webdav"}   \* of SFTP and SSH, and of the others
Paths   == {"", "typed", "found"}
Row     == [host : Hosts, login : Logins, path : Paths, pinned : Keys \cup {NoKey}]
NoTest  == [status |-> "idle", of |-> Unsaved_, key |-> NoKey, offer |-> FALSE]

Ssh(login) == login # "webdav"
Listing(s) == \E S \in SUBSET Ids : s \in [S -> Row]
With(s, id, row) == [k \in DOMAIN s \cup {id} |-> IF k = id THEN row ELSE s[k]]

\* profileList: what the dialog saved is before what the page has.
Shown == [id \in DOMAIN localList \cup DOMAIN listed |->
             IF id \in DOMAIN localList THEN localList[id] ELSE listed[id]]
\* currentProfile
CurrentProfile == IF server.id \in DOMAIN Shown THEN server.id ELSE Unsaved_
Quiet == UNCHANGED <<servers, challenges, listed, busyServers>>
Ready == seen.acts < MaxServerActs
Counts == seen' = [seen EXCEPT !.acts = @ + 1]

-----------------------------------------------------------------------------
(* The form.                                                                 *)

\* The effect that searches for keys runs anew when the dialog, the scheme or the path changes.
Search(now) ==
    IF ~now.open \/ ~Ssh(now.login) THEN "off"
    ELSE IF <<now.open, Ssh(now.login), now.path>> = <<server.open, Ssh(server.login), server.path>>
         THEN looking
         ELSE IF now.path = "" THEN "empty" ELSE "filled"

Becomes(now) == server' = now /\ looking' = Search(now)

LoadNew(host) ==
    [server EXCEPT !.id = Unsaved_, !.host = host, !.login = "password", !.path = "",
                   !.secret = FALSE, !.test = NoTest, !.draft = Len(seen.drafts), !.own = ""]

LoadProfile(id, row) ==
    [server EXCEPT !.id = id, !.host = row.host, !.login = row.login, !.path = row.path,
                   !.secret = FALSE, !.test = NoTest, !.own = row.path]

\* A host that was found in the neighbourhood is filled in.
OpenServers ==
    /\ Ready /\ Counts /\ ~server.open
    /\ \E host \in {NoHost, 1} : Becomes([LoadNew(host) EXCEPT !.open = TRUE])
    /\ Quiet /\ UNCHANGED <<localList, serverCalls>>

\* Cancel, and Connect, which opens a panel or a terminal.
CloseServers ==
    /\ Ready /\ Counts /\ server.open
    /\ Becomes([server EXCEPT !.open = FALSE])
    /\ localList' = <<>>
    /\ Quiet /\ UNCHANGED serverCalls

PickServer ==
    /\ Ready /\ Counts /\ server.open
    /\ \/ Becomes(LoadNew(NoHost))
       \/ \E id \in DOMAIN Shown :
             Becomes([LoadProfile(id, Shown[id]) EXCEPT !.draft = Len(seen.drafts)])
    /\ Quiet /\ UNCHANGED <<localList, serverCalls>>

FillIn ==
    /\ Ready /\ Counts /\ server.open
    /\ \/ \E host \in Hosts, secret \in BOOLEAN :
             Becomes([server EXCEPT !.host = host, !.secret = secret])
       \/ \E path \in Paths : Becomes([server EXCEPT !.path = path, !.own = path])
       \/ /\ Ssh(server.login)
          /\ \E login \in {"password", "privateKey"} : Becomes([server EXCEPT !.login = login])
       \* handleSchemeChange
       \/ /\ CurrentProfile = Unsaved_
          /\ \E login \in {"password", "webdav"} :
                Becomes([server EXCEPT !.login = login, !.test = NoTest])
    /\ Quiet /\ UNCHANGED <<localList, serverCalls>>

\* A found key is filled in if there was no path when the search began; it began anew when
\* one was typed.
KeysFound ==
    /\ looking # "off"
    /\ \/ looking = "empty" /\ Becomes([server EXCEPT !.path = "found"])
       \/ looking' = "off" /\ UNCHANGED server
    /\ Quiet /\ UNCHANGED <<localList, serverCalls, seen>>

Validate ==
    /\ server.host # NoHost
    /\ server.login = "privateKey" => server.path # ""
    /\ server.login # "privateKey" /\ CurrentProfile = Unsaved_ => server.secret

-----------------------------------------------------------------------------
(* Calls.  A call writes, stores a secret if it is a save with one, lists the  *)
(* servers, and is answered; one that fails is answered at once.               *)

Call(kind, id, key) ==
    serverCalls' = Append(serverCalls, [kind |-> kind, id |-> id, at |-> "write", form |-> server,
                                        key |-> key, list |-> <<>>, relist |-> FALSE, ok |-> TRUE, offer |-> FALSE,
                                        row |-> <<>>])

SaveServer ==
    /\ Ready /\ Counts /\ server.open /\ ~server.saving /\ Validate
    /\ Call("save", CurrentProfile, NoKey)
    /\ server' = [server EXCEPT !.saving = TRUE]
    /\ Quiet /\ UNCHANGED <<localList, looking>>

Testing == [NoTest EXCEPT !.status = "testing"]

TestServer ==
    /\ Ready /\ Counts /\ server.open /\ server.test.status # "testing" /\ Validate
    /\ Call(IF CurrentProfile = Unsaved_ THEN "testDraft" ELSE "test", CurrentProfile, NoKey)
    /\ server' = [server EXCEPT !.test = Testing]
    /\ Quiet /\ UNCHANGED <<localList, looking>>

\* The key on screen is trusted for the server that is selected.
TrustKey ==
    /\ Ready /\ Counts /\ server.open /\ CurrentProfile # Unsaved_ /\ server.test.offer
    /\ Call("trust", CurrentProfile, server.test.key)
    /\ server' = [server EXCEPT !.test = Testing]
    /\ Quiet /\ UNCHANGED <<localList, looking>>

ForgetKey ==
    /\ Ready /\ Counts /\ server.open
    /\ CurrentProfile # Unsaved_ /\ Shown[CurrentProfile].pinned # NoKey
    /\ Call("forget", CurrentProfile, NoKey)
    /\ Quiet /\ UNCHANGED <<server, localList, looking>>

\* The sidebar, which the open dialog covers
UseSidebar ==
    /\ Ready /\ Counts /\ ~server.open
    /\ \E id \in DOMAIN listed :
          \/ Call("remove", id, NoKey) /\ UNCHANGED busyServers
          \/ \E kind \in {"connect", "disconnect"} :
                Call(kind, id, NoKey) /\ busyServers' = busyServers \cup {id}
    /\ UNCHANGED <<servers, challenges, listed, localList, server, looking>>

Goes(i, c) == serverCalls' = [serverCalls EXCEPT ![i] = c]
Fails(i) == Goes(i, [serverCalls[i] EXCEPT !.at = "answer", !.ok = FALSE])
NextStep(c) == IF c.kind = "testDraft" THEN "answer"
               ELSE IF c.kind = "save" /\ c.at = "write" /\ c.form.secret THEN "secret" ELSE "list"

RowOf(f, pinned) ==
    [host |-> f.host, login |-> f.login, path |-> IF f.login = "privateKey" THEN f.path ELSE "",
     pinned |-> pinned]

AddServer(i) ==
    LET id  == Len(seen.drafts) + 1
        c   == serverCalls[i]
        row == RowOf(c.form, NoKey)
    IN  /\ id \in Ids
        /\ servers' = With(servers, id, row)
        /\ seen' = [seen EXCEPT !.drafts = Append(@, c.form.draft)]
        /\ Goes(i, [c EXCEPT !.at = NextStep(c), !.id = id, !.row = row])
        /\ UNCHANGED challenges

\* network_profile_update takes the pin away when another host, user or key is used.
Unpinned(old, row) == IF row = [old EXCEPT !.pinned = NoKey] THEN old ELSE row

UpdateServer(i, id) ==
    LET c   == serverCalls[i]
        row == Unpinned(servers[id], RowOf(c.form, NoKey))
    IN  /\ id \in DOMAIN servers
        /\ servers' = [servers EXCEPT ![id] = row]
        /\ challenges' = IF row = servers[id] THEN challenges ELSE [challenges EXCEPT ![id] = NoKey]
        /\ Goes(i, [c EXCEPT !.at = NextStep(c), !.row = row])
        /\ UNCHANGED seen

\* A key that is not pinned is a challenge; with the right one the server may let us in.
Connects(i, id) ==
    LET row  == servers[id]
        fits == ~Ssh(row.login) \/ row.pinned = row.host
        c    == serverCalls[i]
    IN  /\ id \in DOMAIN servers
        /\ challenges' = IF fits THEN challenges ELSE [challenges EXCEPT ![id] = row.host]
        /\ IF fits THEN Goes(i, [c EXCEPT !.at = "list", !.key = IF Ssh(row.login) THEN row.host ELSE NoKey])
           ELSE IF c.kind = "test" THEN Goes(i, [c EXCEPT !.at = "list", !.key = row.host, !.offer = TRUE])
           ELSE Fails(i)
        /\ UNCHANGED <<servers, seen>>

\* trust_observed_host_key
Trusts(i, id) ==
    /\ id \in DOMAIN servers
    /\ challenges[id] \in {serverCalls[i].key} \cap {servers[id].host}
    /\ servers' = [servers EXCEPT ![id].pinned = challenges[id]]
    /\ challenges' = [challenges EXCEPT ![id] = NoKey]
    /\ Goes(i, [serverCalls[i] EXCEPT !.at = "list"])
    /\ UNCHANGED seen

WriteServer(i) ==
    LET c == serverCalls[i] IN
    /\ c.at = "write"
    /\ \/ c.kind = "save" /\ c.id = Unsaved_ /\ AddServer(i)
       \/ c.kind = "save" /\ c.id # Unsaved_ /\ UpdateServer(i, c.id)
       \/ c.kind \in {"test", "connect"} /\ Connects(i, c.id)
       \/ c.kind = "trust" /\ Trusts(i, c.id)
       \/ /\ c.kind = "forget" /\ c.id \in DOMAIN servers
          /\ servers' = [servers EXCEPT ![c.id].pinned = NoKey]
          /\ challenges' = [challenges EXCEPT ![c.id] = NoKey]
          /\ Goes(i, [c EXCEPT !.at = "list"]) /\ UNCHANGED seen
       \/ /\ c.kind = "remove" /\ c.id \in DOMAIN servers
          /\ servers' = [id \in DOMAIN servers \ {c.id} |-> servers[id]]
          /\ challenges' = [challenges EXCEPT ![c.id] = NoKey]
          /\ Goes(i, [c EXCEPT !.at = "list"]) /\ UNCHANGED seen
       \/ /\ c.kind \in {"disconnect", "testDraft"} /\ Goes(i, [c EXCEPT !.at = NextStep(c)])
          /\ UNCHANGED <<servers, challenges, seen>>
       \/ Fails(i) /\ UNCHANGED <<servers, challenges, seen>>
    /\ UNCHANGED <<listed, localList, server, looking, busyServers>>

\* A save whose secret is not stored fails, though the row is there.
StoreSecret(i) ==
    /\ serverCalls[i].at = "secret"
    /\ \/ serverCalls[i].id \in DOMAIN servers /\ UNCHANGED seen
          /\ Goes(i, [serverCalls[i] EXCEPT !.at = "list"])
       \/ Fails(i) /\ seen' = [seen EXCEPT !.halfSaved = TRUE]
    /\ Quiet /\ UNCHANGED <<localList, server, looking>>

\* refreshNetworkProfiles; that it fails is only reported.
ListServers(i) ==
    /\ serverCalls[i].at = "list"
    /\ \/ Goes(i, [serverCalls[i] EXCEPT !.at = "answer", !.list = servers, !.relist = TRUE])
          /\ seen' = [seen EXCEPT !.mixed = @ \/ \E k \in DOMAIN serverCalls : serverCalls[k].relist]
       \/ Goes(i, [serverCalls[i] EXCEPT !.at = "answer"]) /\ seen' = [seen EXCEPT !.unlisted = TRUE]
    /\ Quiet /\ UNCHANGED <<localList, server, looking>>

\* The state of the dialog after the answer to a test or to a trusted key
Tested(c) ==
    [status |-> "answered", of |-> c.id, key |-> c.key, offer |-> c.offer \/ (c.kind = "trust" /\ ~c.ok)]

\* handleSubmit: the saved server is loaded over what is in the form by now.
Saved(c) ==
    [(IF c.ok THEN LoadProfile(c.id, c.row) ELSE server) EXCEPT !.saving = FALSE]

ServerHears(i) ==
    LET c == serverCalls[i] IN
    /\ c.at = "answer"
    /\ serverCalls' = RemoveAt(serverCalls, i)
    /\ listed' = IF c.relist THEN c.list ELSE listed
    /\ localList' = IF c.kind = "save" /\ c.ok THEN With(localList, c.id, c.row) ELSE localList
    /\ CASE c.kind = "save" -> Becomes(Saved(c)) /\ UNCHANGED seen
         [] c.kind \in {"test", "testDraft", "trust"} ->
               /\ server' = [server EXCEPT !.test = Tested(c)]
               /\ seen' = [seen EXCEPT !.crossed = @ \/ c.id # server.id]
               /\ UNCHANGED looking
         [] OTHER -> UNCHANGED <<server, looking, seen>>
    /\ busyServers' = IF c.kind \in {"connect", "disconnect"} THEN busyServers \ {c.id} ELSE busyServers
    /\ UNCHANGED <<servers, challenges>>

\* The dialog has just been opened, or a server has been saved and tested with it.
ServerInit ==
    /\ servers \in [1 .. 2 -> Row]
    /\ servers[1].host = 1 /\ servers[1].login = "password" /\ servers[1].path = "" /\ servers[1].pinned # 2
    /\ servers[2] = [host |-> 2, login |-> "privateKey", path |-> "typed", pinned |-> NoKey]
    /\ listed = servers
    /\ LET form == [open |-> TRUE, id |-> Unsaved_, host |-> NoHost, login |-> "password", path |-> "",
                    secret |-> FALSE, saving |-> FALSE, test |-> NoTest, draft |-> 2, own |-> ""]
           none == [id \in Ids |-> NoKey]
       IN  \/ localList = <<>> /\ server = form /\ challenges = none
           \/ /\ servers[1].pinned = NoKey
              /\ localList = [id \in {1} |-> servers[1]] /\ challenges = [none EXCEPT ![1] = 1]
              /\ server = [form EXCEPT !.id = 1, !.host = 1,
                                       !.test = [status |-> "answered", of |-> 1, key |-> 1, offer |-> TRUE]]
    /\ looking = "empty"
    /\ serverCalls = <<>> /\ busyServers = {}
    /\ seen = [acts |-> 0, drafts |-> <<0, 0>>, halfSaved |-> FALSE, unlisted |-> FALSE,
               mixed |-> FALSE, crossed |-> FALSE]

ServerNext ==
    \/ OpenServers \/ CloseServers \/ PickServer \/ FillIn \/ KeysFound
    \/ SaveServer \/ TestServer \/ TrustKey \/ ForgetKey \/ UseSidebar
    \/ \E i \in DOMAIN serverCalls : WriteServer(i) \/ StoreSecret(i) \/ ListServers(i) \/ ServerHears(i)

-----------------------------------------------------------------------------
(* Properties.                                                               *)

\* The variables have their types; at most one save is under way, and the dialog knows it.
ServerTypeOK ==
    /\ Listing(servers) /\ Listing(listed) /\ Listing(localList)
    /\ challenges \in [Ids -> Keys \cup {NoKey}]
    /\ server.id \in Ids \cup {Unsaved_} /\ server.host \in Hosts \cup {NoHost}
    /\ server.login \in Logins /\ server.path \in Paths
    /\ looking \in {"off", "empty", "filled"} /\ busyServers \subseteq Ids
    /\ Cardinality({i \in DOMAIN serverCalls : serverCalls[i].kind = "save"}) = IF server.saving THEN 1 ELSE 0

\* The key that is pinned for a server is the one its host has shown, or had from the
\* beginning: a trust that was pressed for another host, server or answer pins nothing
\* (network.rs:530, session.rs:379).
PinsTrue ==
    \A id \in DOMAIN servers :
        servers[id].pinned \in {NoKey, servers[id].host} \/ (servers[id].pinned = OldKey /\ id = 1 /\ servers[id].host = 1)

\* A form is known by how many servers there had been when it was begun.
\* One form is saved as one server, unless storing its secret failed and it was saved again.
SavedOnce ==
    \A i, k \in DOMAIN seen.drafts :
        i # k /\ seen.drafts[i] = seen.drafts[k] /\ seen.drafts[i] # 0 => seen.halfSaved

\* The answer on screen is about the server on screen, unless it came after another one
\* was selected.
TestFits == server.test.status = "answered" => server.test.of = server.id \/ seen.crossed

\* A path the user gave is never replaced by one that was found.
PathKept == server.own # "" => server.path = server.own

\* When every call was answered, the page lists the servers there are: unless a listing
\* failed, or was overtaken by another one, or a save got only half of its way.
ListsTrue ==
    serverCalls = <<>> /\ ~seen.halfSaved /\ ~seen.unlisted /\ ~seen.mixed => listed = servers

ServersTrue == PinsTrue /\ SavedOnce /\ TestFits /\ PathKept /\ ListsTrue

\* When every call was answered, the buttons work again.
ServersSettle ==
    serverCalls = <<>> => ~server.saving /\ server.test.status # "testing" /\ busyServers = {}

==============================================================================
