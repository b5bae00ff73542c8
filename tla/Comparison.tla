----------------------------- MODULE Comparison ------------------------------
(* Comparing two files line by line or byte by byte (fs-core/src/compare.rs and  *)
(* fs_diff_text in commands/fs.rs), comparing two folders (fs-core/src/sync.rs), *)
(* and the two dialogs that show the answers: each asks again when what it is to *)
(* compare changes, and gives up what it asked before.                           *)
EXTENDS Naturals, Sequences, FiniteSets, SequencesExt, FiniteSetsExt

CONSTANTS
    MaxLines,        \* bounds the lines of a file; a line is 0 or 1
    ContextSize,     \* equal lines that end a hunk (3 in the code)
    ShownLines,      \* lines of a file fs_diff_text reads (512 KB in the code)
    EntryNames,      \* names in the two folders
    Metadata,        \* what an entry of a folder can be: [size, date, dir]; a date of 0 is unknown
    MaxCompareActs   \* bounds what the user does

ASSUME ComparisonAssumption ==
    /\ MaxLines \in Nat /\ ContextSize \in Nat \ {0} /\ ShownLines \in Nat
    /\ Metadata \subseteq [size : Nat, date : Nat, dir : BOOLEAN]
    /\ MaxCompareActs \in Nat

VARIABLES
    text,       \* text[f]: the lines of file f, and whether the last one is ended
    trees,     \* trees[f][n]: the entry n of folder f, or NoEntry
    diffBox,    \* the diff dialog
    syncBox,    \* the directory dialog
    compared,   \* the last answer of fs_compare_files
    calls,      \* calls of the dialogs under way: [box, of, cancelled]
    compareActs

compareVars == <<text, trees, diffBox, syncBox, compared, calls, compareActs>>

Sides      == {"left", "right"}
NoEntry    == [size |-> 0, date |-> 0, dir |-> FALSE]
NoAnswer   == [of |-> <<>>]
Pairings   == {<<"left", "right">>, <<"right", "left">>}
Orders     == {"name", "size", "date"}

-------------------------------------------------------------------------------
(* Edit scripts: what becomes of the lines of l to make the lines of r.          *)

\* The table of the lengths of the longest common subsequences of the prefixes.
LcsTable(l, r) ==
    LET t[i \in 0 .. Len(l), j \in 0 .. Len(r)] ==
            IF i = 0 \/ j = 0 THEN 0
            ELSE IF l[i] = r[j] THEN t[i - 1, j - 1] + 1
            ELSE Max({t[i - 1, j], t[i, j - 1]})
    IN  t

\* The script compute_diff_hunks walks back out of the table.
Script(l, r) ==
    LET t == LcsTable(l, r)
        s[i \in 0 .. Len(l), j \in 0 .. Len(r)] ==
            IF i = 0 /\ j = 0 THEN <<>>
            ELSE IF i > 0 /\ j > 0 /\ l[i] = r[j] THEN Append(s[i - 1, j - 1], "equal")
            ELSE IF j > 0 /\ (i = 0 \/ t[i, j - 1] >= t[i - 1, j])
                 THEN Append(s[i, j - 1], "insert")
            ELSE Append(s[i - 1, j], "delete")
    IN  s[Len(l), Len(r)]

\* Every shortest script: one of them is what the library of fs_diff_text answers.
Scripts(l, r) ==
    LET t == LcsTable(l, r)
        s[i \in 0 .. Len(l), j \in 0 .. Len(r)] ==
            IF i = 0 /\ j = 0 THEN {<<>>}
            ELSE (IF i > 0 /\ j > 0 /\ l[i] = r[j]
                  THEN {Append(x, "equal") : x \in s[i - 1, j - 1]} ELSE {})
                 \cup (IF j > 0 /\ t[i, j - 1] = t[i, j]
                       THEN {Append(x, "insert") : x \in s[i, j - 1]} ELSE {})
                 \cup (IF i > 0 /\ t[i - 1, j] = t[i, j]
                       THEN {Append(x, "delete") : x \in s[i - 1, j]} ELSE {})
    IN  s[Len(l), Len(r)]

-------------------------------------------------------------------------------
(* Hunks: a script is read from its beginning, and runs of changes are cut out.  *)

\* The line a step of a script shows when i lines of l and j lines of r are behind it.
ShownLine(op, i, j, l, r) ==
    [kind |-> op,
     text |-> IF op = "insert" THEN r[j + 1] ELSE l[i + 1],
     old  |-> IF op = "insert" THEN 0 ELSE i + 1,
     new  |-> IF op = "delete" THEN 0 ELSE j + 1]

Walk == [hunks |-> <<>>, lines |-> <<>>, in |-> FALSE, i |-> 0, j |-> 0, context |-> 0]

Onward(w, op) == [w EXCEPT !.i = IF op = "insert" THEN @ ELSE @ + 1,
                           !.j = IF op = "delete" THEN @ ELSE @ + 1]
CutHunk(w)    == [w EXCEPT !.hunks = Append(@, w.lines), !.lines = <<>>, !.in = FALSE]

\* compare.rs: equal lines count only inside a hunk, and ContextSize of them end it.
CompareStep(w, op, line) ==
    IF op = "equal" /\ ~w.in THEN Onward(w, op)
    ELSE LET v == Onward([w EXCEPT !.lines = Append(@, line), !.in = TRUE,
                                   !.context = IF op = "equal" THEN @ + 1 ELSE 0], op)
         IN  IF op = "equal" /\ v.context >= ContextSize THEN CutHunk(v) ELSE v

\* The equal lines at the end of those gathered.
Trailing(lines) ==
    Cardinality({k \in 1 .. Len(lines) : \A m \in k .. Len(lines) : lines[m].kind = "equal"})

\* fs_diff_text: lines are gathered outside hunks too, and thrown away when one begins.
DiffStep(w, op, line) ==
    IF op = "equal" /\ w.in /\ Trailing(w.lines) >= ContextSize
    THEN CutHunk(Onward([w EXCEPT !.lines = Append(@, line)], op))
    ELSE LET begins == ~w.in /\ op # "equal"
         IN  Onward([w EXCEPT !.lines = Append(IF begins THEN <<>> ELSE @, line),
                              !.in = @ \/ begins], op)

\* The hunks of a script; what is gathered at the end is one more, fs_diff_text asking that
\* a hunk be open.
HunksBy(Cut(_, _, _), onlyOpen, script, l, r) ==
    LET w == FoldLeft(LAMBDA v, op : Cut(v, op, ShownLine(op, v.i, v.j, l, r)), Walk, script)
    IN  IF w.lines # <<>> /\ (onlyOpen => w.in) THEN Append(w.hunks, w.lines) ELSE w.hunks

-------------------------------------------------------------------------------
(* The commands.                                                                  *)

\* A line as the library of fs_diff_text sees it: with its end.
Tokens(f) ==
    LET t == text[f]
        n == Min({Len(t.lines), ShownLines})
    IN  [k \in 1 .. n |-> <<t.lines[k], k < Len(t.lines) \/ t.ended>>]

DiffText(pair, script) ==
    [of    |-> pair,
     hunks |-> HunksBy(DiffStep, TRUE, script, Tokens(pair[1]), Tokens(pair[2])),
     cut   |-> \E k \in 1 .. 2 : Len(text[pair[k]].lines) > ShownLines]

\* Bytes that differ, a missing one counting as 0.
ByteDifferences(l, r) ==
    LET byte(s, k) == IF k <= Len(s) THEN s[k] ELSE 0
    IN  {k \in 1 .. Max({Len(l), Len(r)}) : byte(l, k) # byte(r, k)}

\* fs_compare_files; `lines` of the library drops how the last line ends.
CompareFiles(mode, pair) ==
    LET l == text[pair[1]].lines
        r == text[pair[2]].lines
    IN  [of        |-> <<mode, pair>>,
         identical |-> IF mode = "text" THEN text[pair[1]] = text[pair[2]] ELSE l = r,
         hunks     |-> IF mode = "text"
                       THEN HunksBy(CompareStep, FALSE, Script(l, r), l, r) ELSE <<>>,
         bytes     |-> IF mode = "binary" THEN ByteDifferences(l, r) ELSE {}]

\* The status of a name; a folder's size is 0 and what it is is not compared.
SyncStatus(a, b, order) ==
    IF b = NoEntry THEN "onlyLeft" ELSE IF a = NoEntry THEN "onlyRight" ELSE
    CASE order = "name" -> "same"
      [] order = "size" -> IF a.size = b.size THEN "same" ELSE "different"
      [] order = "date" -> IF a.date = 0 \/ b.date = 0 THEN "different"
                           ELSE IF a.date = b.date THEN "same"
                           ELSE IF a.date > b.date THEN "newerLeft" ELSE "newerRight"

\* The preview's own status: it looks at the kind as well, and takes a missing date as older.
PreviewStatus(a, b, order) ==
    IF a = NoEntry THEN "onlyRight" ELSE IF b = NoEntry THEN "onlyLeft" ELSE
    CASE order = "name" -> "same"
      [] order = "size" -> IF a.size = b.size /\ a.dir = b.dir THEN "same" ELSE "different"
      [] order = "date" -> IF a.date = b.date THEN "same"
                           ELSE IF a.date > b.date THEN "newerLeft" ELSE "newerRight"

\* compare_directories of two folders, `bad` of which cannot be read: they are taken as empty.
SyncEntries(of, bad) ==
    LET entry(f, n) == IF f \in bad THEN NoEntry ELSE trees[f][n]
        names == {n \in EntryNames : \E k \in 1 .. 2 : entry(of.uris[k], n) # NoEntry}
    IN  [n \in names |-> SyncStatus(entry(of.uris[1], n), entry(of.uris[2], n), of.order)]

SyncAction(status) ==
    CASE status \in {"onlyLeft", "newerLeft"}   -> "copyLeftToRight"
      [] status \in {"onlyRight", "newerRight"} -> "copyRightToLeft"
      [] OTHER -> "skip"

-------------------------------------------------------------------------------
(* The dialogs.                                                                   *)

\* The cleanup of an effect, and the effect when the dialog is open: the one call that
\* counts is the one asked last.
AskAgain(box, open, of) ==
    LET left == {[c EXCEPT !.cancelled = @ \/ c.box = box] : c \in calls}
    IN  calls' = left \cup (IF open THEN {[box |-> box, of |-> of, cancelled |-> FALSE]} ELSE {})

Loading_(box, of) == [box EXCEPT !.open = TRUE, !.of = of, !.loading = TRUE,
                                 !.error = FALSE, !.result = NoAnswer]
CompareAct == compareActs < MaxCompareActs /\ compareActs' = compareActs + 1

OpenDiff(pair) ==
    /\ CompareAct
    /\ ~diffBox.open
    /\ diffBox' = Loading_(diffBox, pair)
    /\ AskAgain("diff", TRUE, pair)
    /\ UNCHANGED <<text, trees, syncBox, compared>>

CloseDiff ==
    /\ CompareAct
    /\ diffBox.open
    /\ diffBox' = [diffBox EXCEPT !.open = FALSE]
    /\ AskAgain("diff", FALSE, diffBox.of)
    /\ UNCHANGED <<text, trees, syncBox, compared>>

\* The dialog opens with an order, asks, and asks anew with what it shows by now: its
\* options, and the folders of the panels, which go on changing under it.
AskSync(of) ==
    /\ CompareAct
    /\ syncBox' = Loading_(syncBox, of)
    /\ AskAgain("sync", TRUE, of)
    /\ UNCHANGED <<text, trees, diffBox, compared>>

OpenSync(order) == ~syncBox.open /\ AskSync([syncBox.of EXCEPT !.order = order])
ChooseOrder(order) ==
    syncBox.open /\ order # syncBox.of.order /\ AskSync([syncBox.of EXCEPT !.order = order])
ToggleRecursive == syncBox.open /\ AskSync([syncBox.of EXCEPT !.recursive = ~@])
PanelMoves(uris) ==
    syncBox.open /\ uris # syncBox.of.uris /\ AskSync([syncBox.of EXCEPT !.uris = uris])

CloseSync ==
    /\ CompareAct
    /\ syncBox.open
    /\ syncBox' = [syncBox EXCEPT !.open = FALSE]
    /\ AskAgain("sync", FALSE, syncBox.of)
    /\ UNCHANGED <<text, trees, diffBox, compared>>

\* What an answer does to the dialog that asked; one that was given up does nothing.
HearAnswer(box, c, result) ==
    IF c.cancelled THEN box ELSE [box EXCEPT !.result = result, !.loading = FALSE]
HearError(box, c) ==
    IF c.cancelled THEN box ELSE [box EXCEPT !.error = TRUE, !.loading = FALSE]

DiffAnswered(c) ==
    /\ c.box = "diff"
    /\ \/ \E s \in Scripts(Tokens(c.of[1]), Tokens(c.of[2])) :
            diffBox' = HearAnswer(diffBox, c, DiffText(c.of, s))
       \/ diffBox' = HearError(diffBox, c)
    /\ calls' = calls \ {c}
    /\ UNCHANGED <<text, trees, syncBox, compared, compareActs>>

SyncAnswered(c) ==
    /\ c.box = "sync"
    /\ \/ \E bad \in SUBSET Sides :
            syncBox' = HearAnswer(syncBox, c, [of |-> c.of, bad |-> bad, entries |-> SyncEntries(c.of, bad)])
       \/ syncBox' = HearError(syncBox, c)
    /\ calls' = calls \ {c}
    /\ UNCHANGED <<text, trees, diffBox, compared, compareActs>>

AskCompare(mode, pair) ==
    /\ CompareAct
    /\ compared' = CompareFiles(mode, pair)
    /\ UNCHANGED <<text, trees, diffBox, syncBox, calls>>

\* What the dialog counts.
SyncStats(entries) ==
    LET with(S) == Cardinality({n \in DOMAIN entries : entries[n] \in S})
    IN  [onlyLeft |-> with({"onlyLeft"}), onlyRight |-> with({"onlyRight"}), same |-> with({"same"}),
         different |-> with({"newerLeft", "newerRight", "different"}),
         total |-> Cardinality(DOMAIN entries)]

-------------------------------------------------------------------------------

Texts == UNION {[lines : [1 .. n -> {0, 1}], ended : IF n = 0 THEN {FALSE} ELSE BOOLEAN] : n \in 0 .. MaxLines}
FirstSync == [uris |-> <<"left", "right">>, order |-> "size", recursive |-> FALSE]

ComparisonInit ==
    /\ text \in [Sides -> Texts]
    /\ trees \in [Sides -> [EntryNames -> Metadata \cup {NoEntry}]]
    /\ diffBox = [open |-> FALSE, of |-> <<"left", "right">>, loading |-> FALSE, error |-> FALSE, result |-> NoAnswer]
    /\ syncBox = [open |-> FALSE, of |-> FirstSync, loading |-> FALSE, error |-> FALSE, result |-> NoAnswer]
    /\ compared = NoAnswer
    /\ calls = {} /\ compareActs = 0

OnFiles ==
    \/ \E p \in Pairings : OpenDiff(p)
    \/ CloseDiff
    \/ \E m \in {"text", "binary"} : AskCompare(m, <<"left", "right">>)
    \/ \E c \in calls : DiffAnswered(c)

OnFolders ==
    \/ \E o \in Orders : OpenSync(o)
    \/ \E o \in Orders : ChooseOrder(o)
    \/ ToggleRecursive
    \/ \E u \in Pairings : PanelMoves(u)
    \/ CloseSync
    \/ \E c \in calls : SyncAnswered(c)

ComparisonNext == OnFiles \/ OnFolders

ComparisonTypeOK ==
    /\ text \in [Sides -> Texts]
    /\ trees \in [Sides -> [EntryNames -> Metadata \cup {NoEntry}]]
    /\ diffBox.of \in Pairings /\ {diffBox.open, diffBox.loading, diffBox.error} \subseteq BOOLEAN
    /\ syncBox.of \in [uris : Pairings, order : Orders, recursive : BOOLEAN]
    /\ \A c \in calls : c.box \in {"diff", "sync"} /\ c.cancelled \in BOOLEAN
    /\ compareActs \in 0 .. MaxCompareActs

-------------------------------------------------------------------------------
(* What the comparisons promise.                                                  *)

\* The lines of r that hunks make out of those of l: the deleted ones are left out, and each
\* inserted one goes where its number says.
Patched(l, hunks) ==
    LET shown == FlattenSeq(hunks)
        kept  == SelectSeq([k \in 1 .. Len(l) |-> k],
                           LAMBDA k : \A m \in 1 .. Len(shown) : shown[m].kind = "delete" => shown[m].old # k)
        inserted == {m \in 1 .. Len(shown) : shown[m].kind = "insert"}
        at(p)  == {m \in inserted : shown[m].new = p}
        ahead(p) == Cardinality({m \in inserted : shown[m].new < p})
    IN  [p \in 1 .. Len(kept) + Cardinality(inserted) |->
            IF at(p) # {} THEN shown[CHOOSE m \in at(p) : TRUE].text ELSE l[kept[p - ahead(p)]]]

\* Lines shown as equal are the same lines of both files, and numbers go up from hunk to hunk.
TrueLines(l, r, hunks) ==
    LET shown == FlattenSeq(hunks)
    IN  /\ \A m \in 1 .. Len(shown) : shown[m].kind = "equal" =>
              l[shown[m].old] = shown[m].text /\ r[shown[m].new] = shown[m].text
        /\ \A m, n \in 1 .. Len(shown) : m < n =>
              /\ (shown[m].old # 0 /\ shown[n].old # 0) => shown[m].old < shown[n].old
              /\ (shown[m].new # 0 /\ shown[n].new # 0) => shown[m].new < shown[n].new

\* The differences shown between two files are enough to make one out of the other, and no
\* difference is shown only for files that do not differ in what was read: fs_diff_text and
\* both modes of compare.rs.
DifferencesTrue ==
    /\ diffBox.result # NoAnswer =>
         LET l == Tokens(diffBox.result.of[1])
             r == Tokens(diffBox.result.of[2])
         IN  /\ Patched(l, diffBox.result.hunks) = r
             /\ TrueLines(l, r, diffBox.result.hunks)
             /\ diffBox.result.hunks = <<>> =>
                    l = r /\ (diffBox.result.cut \/ text[diffBox.result.of[1]] = text[diffBox.result.of[2]])
    /\ compared # NoAnswer =>
         LET l == text[compared.of[2][1]].lines
             r == text[compared.of[2][2]].lines
         IN  IF compared.of[1] = "text"
             THEN /\ Patched(l, compared.hunks) = r /\ TrueLines(l, r, compared.hunks)
                  /\ compared.identical => compared.hunks = <<>>
             ELSE /\ compared.identical => compared.bytes = {}
                  /\ (compared.bytes = {} /\ Len(l) = Len(r)) => compared.identical

\* An open dialog shows the comparison of what its header names and its options say, however
\* the answers came, and it is never left comparing.
ComparesWhatItSays ==
    /\ (diffBox.open /\ diffBox.result # NoAnswer) => diffBox.result.of = diffBox.of
    /\ (syncBox.open /\ syncBox.result # NoAnswer) => syncBox.result.of = syncBox.of
    /\ diffBox.open => (diffBox.loading <=> \E c \in calls : c.box = "diff" /\ ~c.cancelled)
    /\ syncBox.open => (syncBox.loading <=> \E c \in calls : c.box = "sync" /\ ~c.cancelled)
    /\ (diffBox.open /\ ~diffBox.loading) => (diffBox.error <=> diffBox.result = NoAnswer)
    /\ (syncBox.open /\ ~syncBox.loading) => (syncBox.error <=> syncBox.result = NoAnswer)

\* A folder after the actions of a comparison.
After(res, side) ==
    [n \in EntryNames |->
        LET mine  == trees[res.of.uris[side]][n]
            other == trees[res.of.uris[3 - side]][n]
            copy  == IF side = 1 THEN "copyRightToLeft" ELSE "copyLeftToRight"
        IN  IF n \in DOMAIN res.entries /\ SyncAction(res.entries[n]) = copy THEN other ELSE mine]

\* The actions made of a comparison of two folders that could be read leave both with the
\* same names, and never an older file where there was a newer one; what the dialog counts
\* adds up, comparing the other way round says the mirror of it, and the preview says the
\* same of names that are alike in kind and whose dates are known.
SyncTrue ==
    LET res == syncBox.result IN
    res # NoAnswer =>
      LET s == SyncStats(res.entries)
          l == After(res, 1)
          r == After(res, 2)
      IN  /\ s.total = s.onlyLeft + s.onlyRight + s.same + s.different
          /\ res.bad = {} =>
               \A n \in EntryNames :
                  /\ l[n] = NoEntry <=> r[n] = NoEntry
                  /\ \A k \in 1 .. 2 : LET was == trees[res.of.uris[k]][n]
                                           now == IF k = 1 THEN l[n] ELSE r[n]
                                       IN  was # NoEntry => now.date >= was.date
                  /\ (res.of.order = "date" /\ l[n].date # 0 /\ r[n].date # 0) => l[n].date = r[n].date
          /\ LET back == SyncEntries([res.of EXCEPT !.uris = <<@[2], @[1]>>], res.bad)
                 mirror == [onlyLeft |-> "onlyRight", onlyRight |-> "onlyLeft", same |-> "same",
                            newerLeft |-> "newerRight", newerRight |-> "newerLeft", different |-> "different"]
             IN  back = [n \in DOMAIN res.entries |-> mirror[res.entries[n]]]
          /\ res.bad = {} =>
               \A n \in DOMAIN res.entries :
                  LET a == trees[res.of.uris[1]][n]
                      b == trees[res.of.uris[2]][n]
                  IN  (a = NoEntry \/ b = NoEntry \/ (a.dir = b.dir /\ a.date # 0 /\ b.date # 0))
                          => PreviewStatus(a, b, res.of.order) = res.entries[n]

ComparisonTrue == DifferencesTrue /\ ComparesWhatItSays /\ SyncTrue

===============================================================================
