------------------------------- MODULE Stores --------------------------------
(* The five SQLite stores of the application (crates/config, history.rs), the   *)
(* boot that opens and migrates them (crates/app-core/src/lib.rs), and the       *)
(* commands that write to them afterwards.                                       *)
(*                                                                               *)
(* Every statement commits on its own, so a boot and a command are sequences of  *)
(* statements, `todo`, and the process may end, or a statement fail, between any *)
(* two.  What is on disk, and in the key chain, survives.  The commands of this  *)
(* module run one at a time; the page's concurrent ones are in RemoteSessions    *)
(* and ShellProfiles.                                                            *)
EXTENDS Integers, Sequences, FiniteSets, SequencesExt

CONSTANTS
    Profiles,      \* ids of network profiles
    Uris,          \* folders that can be visited, favored and starred
    RecentMax,     \* folders kept in the list of recent ones (200 in the code)
    MaxCommands,   \* bounds the commands
    MaxStops       \* bounds the ends of the process and the failing statements

ASSUME StoresAssumption ==
    /\ RecentMax \in Nat \ {0}
    /\ MaxCommands \in Nat /\ MaxStops \in Nat

VARIABLES
    phase,      \* "down", "boot", "up", or "failed": the boot gave up
    opened,     \* how many stores this boot has opened
    todo,       \* the statements left of what is under way
    version,    \* per store: user_version
    tables,     \* per store: how many of its tables and indexes there are
    columns,    \* the columns of the network profiles that came later
    hosts,      \* network profiles: how they log in, and has_stored_secret
    used,       \* ids of profiles that have been given out
    secrets,    \* the passwords in the key chain
    seeded,     \* is there a default terminal profile
    rows,       \* the rows of the preferences
    recent,     \* the rows of nav_history, newest first
    favorites,  \* folders that are favorites
    starred,    \* folders that are starred
    cache,      \* the preferences in memory
    promised,   \* per preference: what it was last answered to be
    commands, stops

diskVars  == <<version, tables, columns, hosts, used, secrets, seeded, rows, recent, favorites, starred>>
storeVars == <<phase, opened, todo, diskVars, cache, promised, commands, stops>>

-------------------------------------------------------------------------------
(* Preferences: what set accepts, and what it makes of it.  A value stands for   *)
(* its text; there is a key of every kind, and one that apply_value ignores.     *)

StoredKeys == {"theme", "logLevel", "sidebarWidth", "operationIdleTimeoutSecs", "layoutProfiles"}
Keys  == StoredKeys \cup {"leftDefaultViewMode"}
Unset == -1
Refused == -2

Defaults == [k \in Keys |-> IF k = "operationIdleTimeoutSecs" THEN 3 ELSE 1]

Within(v, low, high) == IF v < low THEN low ELSE IF v > high THEN high ELSE v

\* One of a list of words; here 1 and 2 are in the list.
ParseChoice(v) == IF v \in 1 .. 2 THEN v ELSE Refused

\* Some such words may be written large or with blanks around; here 0 is such a 1.
ParseWord(v) == ParseChoice(IF v = 0 THEN 1 ELSE v)

\* A number is put within its bounds; zero seconds mean that nothing times out.
ParseNumber(v) == Within(v, 1, 2)
ParseIdle(v) == IF v = 0 THEN 0 ELSE Within(v, 2, 3)

\* Blanks around a text are cut off (2 is 1 with blanks); 3 is no JSON.
ParseText(v) == IF v = 3 THEN Refused ELSE IF v = 2 THEN 1 ELSE v

ApplyValue(k, v) ==
    CASE k = "theme"                    -> ParseChoice(v)
      [] k = "logLevel"                 -> ParseWord(v)
      [] k = "sidebarWidth"             -> ParseNumber(v)
      [] k = "operationIdleTimeoutSecs" -> ParseIdle(v)
      [] k = "layoutProfiles"           -> ParseText(v)
      [] OTHER                          -> Defaults[k]

\* From which version on a preference has a row that older stores lack.
Since(k) == CASE k = "layoutProfiles" -> 1 [] k = "operationIdleTimeoutSecs" -> 2 [] OTHER -> 0

-------------------------------------------------------------------------------
(* Boot.                                                                         *)

StoreOrder == <<"network", "terminal", "preferences", "history", "navigation">>
Stores     == {StoreOrder[i] : i \in 1 .. 5}
Current    == [s \in Stores |-> CASE s = "network" -> 3 [] s = "preferences" -> 2 [] OTHER -> 1]
Objects    == [s \in Stores |-> CASE s = "navigation" -> 4 [] s = "history" -> 2 [] OTHER -> 1]

\* Mutant: the table is created also when it is there.
EnsureAnew(s) == [i \in 1 .. Objects[s] |-> <<"create", s, i>>]

Ensure(s) == [i \in 1 .. Objects[s] |-> <<"ensure", s, i>>]
Create(s) == [i \in 1 .. Objects[s] |-> <<"create", s, i>>]
At(s, n) == <<<<"version", s, n>>>>

\* The rows of one release, each inserted unless it is there.
Fill(n) == LET keys == {k \in StoredKeys : Since(k) = n}
           IN  IF keys = {} THEN <<>> ELSE <<<<"fill", CHOOSE k \in keys : TRUE>>>>

SeedDefaults == [i \in 1 .. Cardinality(StoredKeys) |-> <<"fill", SetToSeq(StoredKeys)[i]>>]

MigrateNetwork ==
    CASE version["network"] = 0 -> Create("network") \o At("network", 3)
      [] version["network"] = 1 -> <<<<"column", "secret">>, <<"flag", "password">>, <<"flag", "key">>>>
                                   \o At("network", 2) \o <<<<"column", "options">>>> \o At("network", 3)
      [] version["network"] = 2 -> <<<<"column", "options">>>> \o At("network", 3)
      [] OTHER                  -> <<>>

MigratePreferences ==
    LET v == version["preferences"]
        now == At("preferences", 2)
    IN  Ensure("preferences") \o now
        \o (IF v = 0 THEN SeedDefaults ELSE <<>>)
        \o (IF v < 1 THEN Fill(1) \o now ELSE <<>>)
        \o (IF v < 2 THEN Fill(2) \o now ELSE <<>>)
        \o <<<<"load">>>>

MigrateNavigation ==
    IF version["navigation"] = 0 THEN Create("navigation") \o At("navigation", 1) ELSE <<>>

\* What opening a store does, from the version it finds.
Migration(s) ==
    CASE s = "network"     -> MigrateNetwork
      [] s = "terminal"    -> Ensure(s) \o At(s, 1) \o <<<<"seed">>>>
      [] s = "preferences" -> MigratePreferences
      [] s = "history"     -> Ensure(s) \o At(s, 1)
      [] s = "navigation"  -> MigrateNavigation

Launch ==
    /\ phase \in {"down", "failed"}
    /\ stops < MaxStops \/ phase = "down"
    /\ phase' = "boot" /\ opened' = 0 /\ todo' = <<>>
    /\ stops' = IF phase = "failed" THEN stops + 1 ELSE stops
    /\ UNCHANGED <<diskVars, cache, promised, commands>>

OpenStore ==
    /\ phase = "boot" /\ todo = <<>> /\ opened < 5
    /\ LET s == StoreOrder[opened + 1]
       IN  IF version[s] > Current[s]
           THEN phase' = "failed" /\ UNCHANGED <<opened, todo>>
           ELSE opened' = opened + 1 /\ todo' = Migration(s) /\ UNCHANGED phase
    /\ UNCHANGED <<diskVars, cache, promised, commands, stops>>

Booted ==
    /\ phase = "boot" /\ todo = <<>> /\ opened = 5
    /\ phase' = "up"
    /\ UNCHANGED <<opened, todo, diskVars, cache, promised, commands, stops>>

-------------------------------------------------------------------------------
(* Statements.                                                                   *)

Does(op) == todo # <<>> /\ Head(todo)[1] = op
Goes     == todo' = Tail(todo) /\ UNCHANGED phase
GivesUp  == phase' = "failed" /\ todo' = <<>>
Around   == UNCHANGED <<opened, commands, stops>>

\* create table if not exists.
EnsureTable ==
    /\ Does("ensure") /\ Goes /\ Around
    /\ LET s == Head(todo)[2]  n == Head(todo)[3]
       IN  tables' = [tables EXCEPT ![s] = IF @ < n THEN n ELSE @]
    /\ UNCHANGED <<version, columns, hosts, used, secrets, seeded, rows, recent, favorites, starred, cache, promised>>

\* create table: an error when there is one.
CreateTable ==
    /\ Does("create") /\ Around
    /\ LET s == Head(todo)[2]  n == Head(todo)[3]
       IN  IF tables[s] >= n
           THEN GivesUp /\ UNCHANGED <<tables, columns>>
           ELSE /\ Goes
                /\ tables' = [tables EXCEPT ![s] = n]
                /\ columns' = IF s = "network" THEN {"secret", "options"} ELSE columns
    /\ UNCHANGED <<version, hosts, used, secrets, seeded, rows, recent, favorites, starred, cache, promised>>

\* alter table add column: an error when there is one.
AddColumn ==
    /\ Does("column") /\ Around
    /\ IF Head(todo)[2] \in columns THEN GivesUp /\ UNCHANGED columns
       ELSE Goes /\ columns' = columns \cup {Head(todo)[2]}
    /\ UNCHANGED <<version, tables, hosts, used, secrets, seeded, rows, recent, favorites, starred, cache, promised>>

SetVersion ==
    /\ Does("version") /\ Goes /\ Around
    /\ version' = [version EXCEPT ![Head(todo)[2]] = Head(todo)[3]]
    /\ UNCHANGED <<tables, columns, hosts, used, secrets, seeded, rows, recent, favorites, starred, cache, promised>>

\* update network_profiles set has_stored_secret = 1 where auth_kind = ...
FlagOld ==
    /\ Does("flag") /\ Goes /\ Around
    /\ hosts' = [p \in DOMAIN hosts |->
                    [hosts[p] EXCEPT !.flag = @ \/ hosts[p].auth = Head(todo)[2]]]
    /\ UNCHANGED <<version, tables, columns, used, secrets, seeded, rows, recent, favorites, starred, cache, promised>>

SeedTerminal ==
    /\ Does("seed") /\ Goes /\ Around
    /\ seeded' = TRUE
    /\ UNCHANGED <<version, tables, columns, hosts, used, secrets, rows, recent, favorites, starred, cache, promised>>

\* insert ... on conflict do nothing.
FillRow ==
    /\ Does("fill") /\ Goes /\ Around
    /\ LET k == Head(todo)[2]
       IN  rows' = IF k \in DOMAIN rows THEN rows
                   ELSE [l \in DOMAIN rows \cup {k} |-> IF l = k THEN Defaults[k] ELSE rows[l]]
    /\ UNCHANGED <<version, tables, columns, hosts, used, secrets, seeded, recent, favorites, starred, cache, promised>>

\* Defaults, and over them every row; one that cannot be read ends the boot.
Load ==
    /\ Does("load") /\ Around
    /\ LET read == [k \in Keys |-> IF k \in DOMAIN rows THEN ApplyValue(k, rows[k]) ELSE Defaults[k]]
       IN  IF Refused \in {read[k] : k \in Keys}
           THEN GivesUp /\ UNCHANGED cache
           ELSE Goes /\ cache' = read
    /\ UNCHANGED <<diskVars, promised>>

\* One transaction writes every preference.
Persist ==
    /\ Does("persist") /\ Goes /\ Around
    /\ LET all == Head(todo)[2]  k == Head(todo)[3]
       IN  /\ rows' = [l \in StoredKeys |-> all[l]]
           /\ promised' = IF k \in StoredKeys THEN [promised EXCEPT ![k] = Unset] ELSE promised
    /\ UNCHANGED <<version, tables, columns, hosts, used, secrets, seeded, recent, favorites, starred, cache>>

Remember ==
    /\ Does("remember") /\ Goes /\ Around
    /\ LET all == Head(todo)[2]  k == Head(todo)[3]
       IN  cache' = all /\ promised' = [promised EXCEPT ![k] = all[k]]
    /\ UNCHANGED diskVars

\* The password of a profile goes into the key chain, or out of it.
Keychain ==
    /\ Does("store") \/ Does("forget")
    /\ Goes /\ Around
    /\ secrets' = IF Does("store") THEN secrets \cup {Head(todo)[2]} ELSE secrets \ {Head(todo)[2]}
    /\ UNCHANGED <<version, tables, columns, hosts, used, seeded, rows, recent, favorites, starred, cache, promised>>

SetFlag ==
    /\ Does("mark") /\ Goes /\ Around
    /\ hosts' = [hosts EXCEPT ![Head(todo)[2]].flag = Head(todo)[3]]
    /\ UNCHANGED <<version, tables, columns, used, secrets, seeded, rows, recent, favorites, starred, cache, promised>>

\* stored_secret_flag_for_profile.
FlagFor(old, auth) == IF auth = "password" THEN old.auth = "password" /\ old.flag ELSE TRUE

\* The row is read again before it is written.
WriteRow ==
    /\ Does("write") /\ Goes /\ Around
    /\ LET p == Head(todo)[2]  auth == Head(todo)[3]
       IN  hosts' = [hosts EXCEPT ![p] = [auth |-> auth, flag |-> FlagFor(@, auth)]]
    /\ UNCHANGED <<version, tables, columns, used, secrets, seeded, rows, recent, favorites, starred, cache, promised>>

DeleteRow ==
    /\ Does("delete") /\ Goes /\ Around
    /\ hosts' = Restrict(hosts, DOMAIN hosts \ {Head(todo)[2]})
    /\ UNCHANGED <<version, tables, columns, used, secrets, seeded, rows, recent, favorites, starred, cache, promised>>

Prune ==
    /\ Does("prune") /\ Goes /\ Around
    /\ recent' = SubSeq(recent, 1, IF Len(recent) < RecentMax THEN Len(recent) ELSE RecentMax)
    /\ UNCHANGED <<version, tables, columns, hosts, used, secrets, seeded, rows, favorites, starred, cache, promised>>

Statement ==
    \/ EnsureTable \/ CreateTable \/ AddColumn \/ SetVersion \/ FlagOld \/ SeedTerminal
    \/ FillRow \/ Load \/ Persist \/ Remember \/ Keychain \/ SetFlag \/ WriteRow \/ DeleteRow \/ Prune

-------------------------------------------------------------------------------
(* Commands: the first statement of one that has a single one, and the sequence  *)
(* of statements of the others.                                                  *)

Called == phase = "up" /\ todo = <<>> /\ commands < MaxCommands
          /\ commands' = commands + 1 /\ UNCHANGED <<phase, opened, stops>>

SetPreference(k, v) ==
    /\ Called
    /\ todo' = IF ApplyValue(k, v) = Refused THEN <<>>
               ELSE LET all == [cache EXCEPT ![k] = ApplyValue(k, v)]
                    IN  <<<<"persist", all, k>>, <<"remember", all, k>>>>
    /\ UNCHANGED <<diskVars, cache, promised>>

AddProfile(p, auth) ==
    /\ Called /\ p \notin used
    /\ used' = used \cup {p}
    /\ hosts' = [q \in DOMAIN hosts \cup {p} |->
                    IF q = p THEN [auth |-> auth, flag |-> auth = "key"] ELSE hosts[q]]
    /\ UNCHANGED <<todo, version, tables, columns, secrets, seeded, rows, recent, favorites, starred, cache, promised>>

\* A new host, user or way to log in makes the secrets worthless.
UpdateProfile(p, auth, moved) ==
    /\ Called /\ p \in DOMAIN hosts
    /\ todo' = (IF moved \/ auth # hosts[p].auth THEN <<<<"mark", p, FALSE>>, <<"forget", p>>>> ELSE <<>>)
               \o <<<<"write", p, auth>>>>
    /\ UNCHANGED <<diskVars, cache, promised>>

DeleteProfile(p) ==
    /\ Called /\ p \in DOMAIN hosts
    /\ todo' = <<<<"delete", p>>, <<"forget", p>>>>
    /\ UNCHANGED <<diskVars, cache, promised>>

SetSecret(p) ==
    /\ Called /\ p \in DOMAIN hosts
    /\ todo' = <<<<"store", p>>, <<"mark", p, TRUE>>>>
    /\ UNCHANGED <<diskVars, cache, promised>>

RecordVisit(u) ==
    /\ Called
    /\ recent' = <<u>> \o SelectSeq(recent, LAMBDA w : w # u)
    /\ todo' = <<<<"prune">>>>
    /\ UNCHANGED <<version, tables, columns, hosts, used, secrets, seeded, rows, favorites, starred, cache, promised>>

RemoveRecent(gone) ==
    /\ Called
    /\ recent' = SelectSeq(recent, LAMBDA w : w \notin gone)
    /\ UNCHANGED <<todo, version, tables, columns, hosts, used, secrets, seeded, rows, favorites, starred, cache, promised>>

\* A folder is a favorite once, whatever its label; removing one that is gone fails.
Favor(u) ==
    /\ Called
    /\ favorites' = IF u \in favorites THEN favorites \ {u} ELSE favorites \cup {u}
    /\ UNCHANGED <<todo, version, tables, columns, hosts, used, secrets, seeded, rows, recent, starred, cache, promised>>

ToggleStarred(u) ==
    /\ Called
    /\ starred' = IF u \in starred THEN starred \ {u} ELSE starred \cup {u}
    /\ UNCHANGED <<todo, version, tables, columns, hosts, used, secrets, seeded, rows, recent, favorites, cache, promised>>

-------------------------------------------------------------------------------
(* Failures.                                                                     *)

\* The process ends, or a statement of the boot fails, which ends it too.
Stop ==
    /\ phase \in {"boot", "up"} /\ stops < MaxStops
    /\ phase' = "down" /\ todo' = <<>> /\ cache' = Defaults /\ stops' = stops + 1
    /\ UNCHANGED <<opened, diskVars, promised, commands>>

\* A statement of a command fails: the rest is left out.  A failed pruning is
\* ignored, and so is a key chain that keeps the password of a deleted profile.
StatementFails ==
    /\ phase = "up" /\ todo # <<>> /\ ~Does("remember") /\ stops < MaxStops
    /\ todo' = <<>> /\ stops' = stops + 1
    /\ UNCHANGED <<phase, opened, diskVars, cache, promised, commands>>

-------------------------------------------------------------------------------
NoRow == [p \in {} |-> [auth |-> "key", flag |-> FALSE]]

Fresh ==
    /\ version = [s \in Stores |-> 0] /\ tables = [s \in Stores |-> 0]
    /\ columns = {} /\ hosts = NoRow /\ used = {} /\ secrets = {}
    /\ seeded = FALSE /\ rows = [k \in {} |-> 1]
    /\ recent = <<>> /\ favorites = {} /\ starred = {}

\* Stores that an earlier release left behind, or a later one, in full.
Left(net, prefs, late) ==
    /\ version = [s \in Stores |-> IF s = late THEN Current[s] + 1 ELSE
                     CASE s = "network" -> net [] s = "preferences" -> prefs [] OTHER -> 1]
    /\ tables = Objects
    /\ columns = IF net = 1 THEN {} ELSE IF net = 2 THEN {"secret"} ELSE {"secret", "options"}
    /\ used \in SUBSET Profiles
    /\ hosts \in [used -> [auth : {"password", "key"}, flag : BOOLEAN]]
    /\ secrets = {p \in used : hosts[p].auth = "password" /\ (net = 1 \/ hosts[p].flag)}
    /\ \A p \in used : net = 1 => ~hosts[p].flag
    /\ \A p \in used : net # 1 /\ hosts[p].auth = "key" => hosts[p].flag
    /\ seeded = TRUE
    /\ rows = [k \in {l \in StoredKeys : Since(l) <= prefs} |-> ApplyValue(k, 2)]
    /\ recent = <<>> /\ favorites = {} /\ starred = {}

StoresInit ==
    /\ \/ Fresh
       \/ \E net \in 1 .. 3, prefs \in 1 .. 2 : Left(net, prefs, "none")
       \/ \E late \in Stores : Left(3, 2, late)
    /\ phase = "down" /\ opened = 0 /\ todo = <<>> /\ cache = Defaults
    /\ promised = [k \in Keys |-> IF k \in DOMAIN rows THEN rows[k] ELSE Unset]
    /\ commands = 0 /\ stops = 0

Command ==
    \/ \E k \in Keys, v \in 0 .. 3 : SetPreference(k, v)
    \/ \E p \in Profiles, auth \in {"password", "key"} :
          AddProfile(p, auth) \/ \E moved \in BOOLEAN : UpdateProfile(p, auth, moved)
    \/ \E p \in Profiles : DeleteProfile(p) \/ SetSecret(p)
    \/ \E u \in Uris : RecordVisit(u) \/ RemoveRecent({u}) \/ Favor(u) \/ ToggleStarred(u)
    \/ RemoveRecent(Uris)

StoresNext == Launch \/ OpenStore \/ Booted \/ Statement \/ Command \/ Stop \/ StatementFails

-------------------------------------------------------------------------------
(* Properties.                                                                   *)

\* The variables have their types; recent folders are listed once, and at most one
\* more than the limit, for a pruning that was missed.
StoresTypeOK ==
    /\ phase \in {"down", "boot", "up", "failed"} /\ opened \in 0 .. 5
    /\ columns \subseteq {"secret", "options"}
    /\ DOMAIN hosts \subseteq used /\ used \subseteq Profiles /\ secrets \subseteq Profiles
    /\ DOMAIN rows \subseteq StoredKeys /\ DOMAIN cache = Keys
    /\ Refused \notin Range(cache)
    /\ Len(recent) = Cardinality(Range(recent)) /\ Len(recent) <= RecentMax + MaxStops + 1
    /\ favorites \subseteq Uris /\ starred \subseteq Uris
    /\ commands <= MaxCommands /\ stops <= MaxStops

\* A migration of the network or the navigation store was cut off between a
\* statement and the version that says so (network.rs:427, :455, navigation.rs:289).
Torn ==
    \/ version["network"] = 0 /\ tables["network"] > 0
    \/ version["network"] = 1 /\ "secret" \in columns
    \/ version["network"] = 2 /\ "options" \in columns
    \/ version["navigation"] = 0 /\ tables["navigation"] > 0

\* A boot gives up only before the store of a later release, or after one of the two
\* migrations that cannot be repeated was cut off: whatever else was cut off, and
\* whatever preference was accepted, the next boot goes through.
StartsAgain ==
    phase = "failed" => Torn \/ \E s \in Stores : version[s] > Current[s]

\* After a boot every store has its tables and its version, there is a default
\* terminal profile, and the preferences in memory are those on disk.
BootedWhole ==
    phase = "up" =>
        /\ version = Current /\ tables = Objects
        /\ columns = {"secret", "options"} /\ seeded
        /\ todo = <<>> => \A k \in DOMAIN rows : cache[k] = rows[k]

\* What a preference was answered to be it stays, over migrations, ends of the
\* process and changes of the other ones.
SettingsKept ==
    phase = "up" /\ todo = <<>> => \A k \in StoredKeys : promised[k] \in {Unset, cache[k]}

\* A profile that says its password is stored has one, wherever a command stopped.
FlagsTrue ==
    \A p \in DOMAIN hosts : hosts[p].auth = "password" /\ hosts[p].flag => p \in secrets

StoresTrue == StartsAgain /\ BootedWhole /\ SettingsKept /\ FlagsTrue

===============================================================================
