---------------------------- MODULE ShellProfiles -----------------------------
(* The terminal profiles: their table (crates/config/src/terminal.rs), the        *)
(* commands about it, which run at the same time on threads of their own, and     *)
(* the page of the settings that shows and edits them (SettingsTerminal.tsx).     *)
EXTENDS Filtering, Integers, SequencesExt

CONSTANTS
    ShellNames,      \* what a profile can be called; stands for all its fields
    MaxShellCalls,   \* bounds the calls
    MaxShellActs     \* bounds what the user does without a call

ASSUME ShellProfilesAssumption ==
    /\ ShellNames # {} /\ MaxShellCalls \in Nat /\ MaxShellActs \in Nat

VARIABLES
    table,      \* per id: the row of a profile
    listed,      \* the profiles of the page
    chosen,     \* activeProfileId
    draft,      \* the edited fields, and the profile they are of
    asked,      \* the calls, as far as they have come
    shellActs,
    overlapped,    \* ghost: two calls were under way at the same time
    undone      \* ghost: a profile was made the default while it was deleted

profileVars == <<table, listed, chosen, draft, asked, shellActs, overlapped, undone>>

New      == 0      \* the profile of "New profile", before it is saved
Fallback == -1     \* "legacy-default", before the list has come

Row(i)   == [id |-> i, name |-> table[i].name, default |-> table[i].default]
IdsIn(s)   == {s[i].id : i \in 1 .. Len(s)}
Find(s, id)   == s[CHOOSE i \in DOMAIN s : s[i].id = id]
Others(s, id) == Among(s, {row \in ToSet(s) : row.id # id})
FirstName == CHOOSE n \in ShellNames : TRUE
Legacy   == [id |-> Fallback, name |-> FirstName, default |-> TRUE]

-------------------------------------------------------------------------------
(* The commands.  Each has its own connection; what is not one transaction is     *)
(* two steps: change and read back, or look and delete.                           *)

AskFor(call) ==
    /\ Len(asked) < MaxShellCalls
    /\ asked' = Append(asked, call)
    /\ overlapped' = (overlapped \/ \E i \in DOMAIN asked : asked[i].at # "done")

Call(kind, id) == [kind |-> kind, id |-> id, name |-> draft.name, at |-> "sent",
                   told |-> <<>>, before |-> listed, live |-> TRUE]

Step(i, at, told) == asked' = [asked EXCEPT ![i].at = at, ![i].told = told]

\* The ids that were given, and those of the table in their order.
Given   == 2 + Cardinality({i \in DOMAIN asked : asked[i].kind = "add" /\ asked[i].at # "sent"})
InOrder == Among([i \in 1 .. Given |-> i], DOMAIN table)

ListProfiles(i) ==
    /\ asked[i].kind = "list" /\ asked[i].at = "sent"
    /\ Step(i, "told", [k \in DOMAIN InOrder |-> Row(InOrder[k])])
    /\ UNCHANGED table

Add(i) ==
    /\ asked[i].kind = "add" /\ asked[i].at = "sent"
    /\ LET id == Given + 1
       IN  /\ table' = [j \in DOMAIN table \cup {id} |->
                          IF j = id THEN [name |-> asked[i].name, default |-> FALSE] ELSE table[j]]
           /\ asked' = [asked EXCEPT ![i].at = "half", ![i].id = id]

Update(i) ==
    /\ asked[i].kind = "update" /\ asked[i].at = "sent"
    /\ IF asked[i].id \in DOMAIN table
       THEN table' = [table EXCEPT ![asked[i].id].name = asked[i].name] /\ Step(i, "half", <<>>)
       ELSE Step(i, "told", <<>>) /\ UNCHANGED table

\* One transaction: none is the default, then this one is.
SetDefault(i) ==
    /\ asked[i].kind = "default" /\ asked[i].at = "sent"
    /\ IF asked[i].id \in DOMAIN table
       THEN /\ table' = [j \in DOMAIN table |-> [table[j] EXCEPT !.default = j = asked[i].id]]
            /\ Step(i, "half", <<>>)
       ELSE Step(i, "told", <<>>) /\ UNCHANGED table

ReadBack(i) ==
    /\ asked[i].kind \in {"add", "update", "default"} /\ asked[i].at = "half"
    /\ Step(i, "told", IF asked[i].id \in DOMAIN table THEN <<Row(asked[i].id)>> ELSE <<>>)
    /\ UNCHANGED table

\* The default one is not deleted.
LookBeforeDelete(i) ==
    /\ asked[i].kind = "delete" /\ asked[i].at = "sent"
    /\ IF asked[i].id \in DOMAIN table /\ ~table[asked[i].id].default
       THEN Step(i, "half", <<>>) ELSE Step(i, "told", <<>>)
    /\ UNCHANGED <<table, undone>>

Delete(i) ==
    /\ asked[i].kind = "delete" /\ asked[i].at = "half"
    /\ LET id == asked[i].id
       IN  /\ Step(i, "told", IF id \in DOMAIN table THEN <<Row(id)>> ELSE <<>>)
           /\ table' = [j \in DOMAIN table \ {id} |-> table[j]]
           /\ undone' = (undone \/ (id \in DOMAIN table /\ table[id].default))

Serve(i) ==
    /\ \/ (ListProfiles(i) \/ Add(i) \/ Update(i) \/ SetDefault(i) \/ ReadBack(i)) /\ UNCHANGED undone
       \/ LookBeforeDelete(i) \/ Delete(i)
    /\ UNCHANGED <<listed, chosen, draft, shellActs, overlapped>>

-------------------------------------------------------------------------------
(* The page.                                                                      *)

OfDraft(row) == [of |-> row.id, name |-> row.name]

\* activeProfile: the chosen one, or the first; without a list there is none.
Active == IF chosen \in IdsIn(listed) THEN Find(listed, chosen) ELSE listed[1]

\* The list is read when the settings open and whenever a preference changes; the
\* answer to an earlier reading is ignored then.
Reload ==
    /\ LET later == [i \in DOMAIN asked |-> IF asked[i].kind = "list" THEN [asked[i] EXCEPT !.live = FALSE]
                                            ELSE asked[i]]
       IN  /\ Len(asked) < MaxShellCalls
           /\ asked' = Append(later, Call("list", New))
           /\ overlapped' = (overlapped \/ \E i \in DOMAIN asked : asked[i].at # "done")
    /\ UNCHANGED <<table, listed, chosen, draft, shellActs, undone>>

SaveProfile ==
    /\ listed # <<>>
    /\ AskFor(IF Active.id = New THEN Call("add", New) ELSE Call("update", Active.id))
    /\ UNCHANGED <<table, listed, chosen, draft, shellActs, undone>>

DeleteProfile_ ==
    /\ listed # <<>> /\ ~Active.default
    /\ AskFor(Call("delete", Active.id))
    /\ UNCHANGED <<table, listed, chosen, draft, shellActs, undone>>

MakeDefault ==
    /\ listed # <<>> /\ ~Active.default
    /\ AskFor(Call("default", Active.id))
    /\ UNCHANGED <<table, listed, chosen, draft, shellActs, undone>>

UserActs == shellActs < MaxShellActs /\ shellActs' = shellActs + 1
        /\ UNCHANGED <<table, asked, overlapped, undone>>

AddNew ==
    /\ UserActs
    /\ LET new == [id |-> New, name |-> FirstName, default |-> FALSE]
       IN  listed' = Append(Others(listed, New), new) /\ draft' = OfDraft(new)
    /\ chosen' = New

Choose(id) ==
    /\ UserActs /\ id \in IdsIn(listed)
    /\ chosen' = id
    /\ draft' = OfDraft(Find(listed, id))
    /\ UNCHANGED listed

Type(name) ==
    /\ UserActs /\ draft' = [draft EXCEPT !.name = name]
    /\ UNCHANGED <<listed, chosen>>

-------------------------------------------------------------------------------
(* Answers.                                                                       *)

Heard(i, kinds) ==
    /\ asked[i].at = "told" /\ asked[i].kind \in kinds
    /\ asked' = [asked EXCEPT ![i].at = "done"]
    /\ UNCHANGED <<table, shellActs, overlapped, undone>>

\* The list comes: the default one is chosen, and what was being edited is gone.
HearList(i) ==
    /\ Heard(i, {"list"})
    /\ IF ~asked[i].live THEN UNCHANGED <<listed, chosen, draft>>
       ELSE LET next == IF asked[i].told = <<>> THEN <<Legacy>> ELSE asked[i].told
                defaults == {k \in DOMAIN next : next[k].default}
                active == next[IF defaults = {} THEN 1 ELSE CHOOSE k \in defaults : TRUE]
            IN  listed' = next /\ chosen' = active.id /\ draft' = OfDraft(active)

\* A saved profile replaces the one shown, or is added in place of the new one.
HearSaved(i) ==
    /\ Heard(i, {"add", "update"}) /\ asked[i].told # <<>>
    /\ LET row == asked[i].told[1]
       IN  /\ listed' = IF row.id \in IdsIn(listed)
                       THEN [k \in DOMAIN listed |-> IF listed[k].id = row.id THEN row ELSE listed[k]]
                       ELSE Append(Others(listed, New), row)
           /\ chosen' = row.id /\ draft' = OfDraft(row)

\* The list without the deleted one is the list as it was when Delete was pressed.
HearDeleted(i) ==
    /\ Heard(i, {"delete"}) /\ asked[i].told # <<>>
    /\ LET next == Others(asked[i].before, asked[i].id)
           replacement == IF next = <<>> THEN Legacy ELSE next[1]
       IN  /\ listed' = next
           /\ chosen' = replacement.id /\ draft' = OfDraft(replacement)

HearDefault(i) ==
    /\ Heard(i, {"default"}) /\ asked[i].told # <<>>
    /\ listed' = [k \in DOMAIN listed |-> [listed[k] EXCEPT !.default = listed[k].id = asked[i].id]]
    /\ UNCHANGED <<chosen, draft>>

\* A call that failed is an error nobody catches.
HearFailed(i) ==
    /\ Heard(i, {"add", "update", "delete", "default"}) /\ asked[i].told = <<>>
    /\ UNCHANGED <<listed, chosen, draft>>

-------------------------------------------------------------------------------
ShellProfilesInit ==
    /\ table = [i \in 1 .. 2 |-> [name |-> FirstName, default |-> i = 1]]
    /\ listed = <<Legacy>> /\ chosen = Fallback /\ draft = OfDraft(Legacy)
    /\ asked = <<[kind |-> "list", id |-> New, name |-> FirstName, at |-> "sent",
                  told |-> <<>>, before |-> <<Legacy>>, live |-> TRUE]>>
    /\ shellActs = 0 /\ overlapped = FALSE /\ undone = FALSE

ShellProfilesNext ==
    \/ \E i \in DOMAIN asked :
          Serve(i) \/ HearList(i) \/ HearSaved(i) \/ HearDeleted(i) \/ HearDefault(i) \/ HearFailed(i)
    \/ Reload \/ SaveProfile \/ DeleteProfile_ \/ MakeDefault \/ AddNew
    \/ \E id \in IdsIn(listed) : Choose(id)
    \/ \E name \in ShellNames : Type(name)

-------------------------------------------------------------------------------
(* Properties.                                                                    *)

\* The variables have their types: no profile is shown twice.
ShellProfilesTypeOK ==
    /\ \A i \in DOMAIN table : table[i].name \in ShellNames /\ table[i].default \in BOOLEAN
    /\ \A k \in DOMAIN listed : listed[k].name \in ShellNames
    /\ Cardinality(IdsIn(listed)) = Len(listed)
    /\ draft.name \in ShellNames
    /\ \A i \in DOMAIN asked : asked[i].at \in {"sent", "half", "told", "done"}

\* There is one default profile, which a new shell is opened with, unless a profile
\* was made the default between the look and the deletion of delete (terminal.rs:397).
OneDefault ==
    ~undone => Cardinality({i \in DOMAIN table : table[i].default}) = 1

\* The fields shown are those of the profile that Save writes and Delete deletes.
DraftOfActive == listed # <<>> => draft.of = Active.id

\* When every call was answered and no two were under way at once, the page shows
\* the profiles there are, and which one is the default.
ListTrue ==
    ~overlapped /\ (\A i \in DOMAIN asked : asked[i].at = "done") =>
        {listed[k] : k \in {l \in DOMAIN listed : listed[l].id # New}} = {Row(i) : i \in DOMAIN table}

ProfilesTrue == OneDefault /\ DraftOfActive /\ ListTrue

===============================================================================
