--------------------------- MODULE EditorPane_proofs ---------------------------
(***************************************************************************)
(* The editor of a pane keeps the user's text safe, proved for any number  *)
(* of tabs, files, edits and acts.                                         *)
(*                                                                         *)
(* TextIsSafe is not inductive: that a text shown as saved is the file's   *)
(* depends on what is under way.  EditInv says what that can be: the types *)
(* (ViewFits, DataFits, WritesFit) in every state, and, as long as the     *)
(* user waits out what the view does (Patient), that each call under way   *)
(* is about the tab and the text the view holds, and that a loaded text is *)
(* the file's unless a save of it is about to be told.                     *)
(***************************************************************************)
EXTENDS EditorPane, SequenceTheorems, FiniteSetTheorems, TLAPS

-----------------------------------------------------------------------------
(* The invariant.                                                          *)

\* The save, or the "save as", of the view.
Saves == {i \in DOMAIN writes : writes[i].here /\ writes[i].kind # "open"}

\* The states of the view, of its read, and of the open tabs.
View == [tab : EditTabs \cup {NoTab}, initial : Texts \cup {Null}, text : Texts,
         loading : BOOLEAN, saving : BOOLEAN, confirm : BOOLEAN]
Read == [file : EditFiles, text : Texts \cup {Null}] \cup {NoRead}
AllTabs == UNION {[S -> EditFiles] : S \in SUBSET EditTabs}

\* The view is of an open tab, is empty until its file is read, and waits for the read it started.
ViewFits ==
    /\ editor \in View /\ editTabs \in AllTabs
    /\ editor.tab \in DOMAIN editTabs \cup {NoTab}
    /\ editor.tab = NoTab => ~editor.loading /\ ~editor.saving
    /\ editor.initial = Null => editor.text = Empty
    /\ reading \in Read /\ (reading # NoRead <=> editor.loading)
\* The texts of the files, and what only the model keeps.
DataFits ==
    /\ disk \in [EditFiles -> Texts] /\ texts \in 0 .. MaxTexts
    /\ hasty \in BOOLEAN /\ dropped \in BOOLEAN
\* What a call under way can be waiting for.
WriteFits(w) ==
    /\ w.kind = "open" => w.step # "asked"
    /\ w.kind = "save" => w.step # "picking"
    /\ w.step \in {"asked", "done"} => w.file \in EditFiles
\* The calls under way: those of a mounted view, with at most one save, the one the view says.
WritesFit ==
    /\ writes \in Seq(Write) /\ \A i \in DOMAIN writes : WriteFits(writes[i]) /\ (writes[i].here => Mounted)
    /\ \A i, j \in Saves : i = j
    /\ editor.saving <=> Saves # {}

\* A user who waits for what the view does finds the calls under way to be the view's own.
OwnWrite(w, e, tabs, d) ==
    /\ w.here /\ w.tab = e.tab
    /\ w.kind = "open" => e.initial = Null \/ e.text = e.initial
    /\ w.kind # "open" =>
        /\ ~e.loading /\ e.initial # Null /\ w.text = e.text
        /\ w.kind = "save" => w.file = tabs[e.tab]
        /\ w.step = "done" => d[w.file] = w.text
\* What such a user can rely on: a text that was loaded whole is the text of the file, or a save
\* the view is about to hear of has just replaced it.
Patient ==
    /\ ~dropped
    /\ \A i \in DOMAIN writes : OwnWrite(writes[i], editor, editTabs, disk)
    /\ reading.file # NoFile =>
        reading.file = editTabs[editor.tab] /\ reading.text \in {Null, Part, disk[reading.file]}
    /\ editor.loading => editor.initial = Null
    /\ Mounted /\ editor.initial \notin {Null, Part} =>
        \/ editor.initial = disk[editTabs[editor.tab]]
        \/ \E i \in Saves : writes[i].step = "done" /\ writes[i].file = editTabs[editor.tab]

\* The inductive invariant: the types always, the rest until the user is hasty.
EditInv == ViewFits /\ DataFits /\ WritesFit /\ (hasty \/ Patient)

-----------------------------------------------------------------------------
(* The operators.                                                          *)

\* A sequence without its i-th element.
LEMMA RemoveAtIs ==
    ASSUME NEW S, NEW s \in Seq(S), NEW i \in DOMAIN s
    PROVE  /\ RemoveAt(s, i) \in Seq(S) /\ DOMAIN RemoveAt(s, i) = 1 .. Len(s) - 1
           /\ Len(RemoveAt(s, i)) = Len(s) - 1
           /\ \A j \in DOMAIN RemoveAt(s, i) :
                /\ j < i => j \in DOMAIN s /\ RemoveAt(s, i)[j] = s[j]
                /\ j >= i => j + 1 \in DOMAIN s /\ RemoveAt(s, i)[j] = s[j + 1]
<1>1. i \in 1 .. Len(s)
  OBVIOUS
<1> DEFINE a == SubSeq(s, 1, i - 1)
           b == SubSeq(s, i + 1, Len(s))
<1>2. a \in Seq(S) /\ b \in Seq(S) /\ Len(a) = i - 1 /\ Len(b) = Len(s) - i
      /\ (\A j \in 1 .. i - 1 : a[j] = s[j]) /\ (\A j \in 1 .. Len(s) - i : b[j] = s[i + j])
  BY <1>1, SubSeqProperties
<1>3. RemoveAt(s, i) = a \o b
  BY DEF RemoveAt
<1> HIDE DEF a, b
<1>4. a \o b \in Seq(S) /\ Len(a \o b) = Len(s) - 1
  BY <1>1, <1>2
<1>5. ASSUME NEW j \in 1 .. Len(s) - 1, j < i
      PROVE  j \in DOMAIN s /\ (a \o b)[j] = s[j]
  BY <1>1, <1>2, <1>5
<1>6. ASSUME NEW j \in 1 .. Len(s) - 1, j >= i
      PROVE  j + 1 \in DOMAIN s /\ (a \o b)[j] = s[j + 1]
  <2>1. (a \o b)[j] = b[j - (i - 1)]
    BY <1>1, <1>2, <1>6
  <2>2. b[j - (i - 1)] = s[i + (j - (i - 1))] /\ i + (j - (i - 1)) = j + 1
    BY <1>1, <1>2, <1>6
  <2> QED BY <2>1, <2>2, <1>1, <1>6
<1>7. DOMAIN (a \o b) = 1 .. Len(s) - 1
  BY <1>1, <1>4
<1> QED BY <1>3, <1>4, <1>5, <1>6, <1>7

\* The numbers that stand for texts: none of the special ones is a text the user typed.
LEMMA Numbers ==
    /\ Cardinality(EditFiles) \in Nat \ {0} /\ MaxTexts \in Nat
    /\ Empty \in Texts /\ Part \in Texts /\ Null \notin Texts /\ Texts \subseteq Int
<1>1. Cardinality(EditFiles) \in Nat /\ Cardinality(EditFiles) # 0
  BY EditConstants, FS_CardinalityType, FS_EmptySet
<1> QED BY <1>1, EditConstants DEF Texts, Empty, Part, Null

\* The open tabs: each has a file, and "no tab" is not one of them.
LEMMA TabsAre ==
    ASSUME NEW tabs \in AllTabs
    PROVE  /\ DOMAIN tabs \subseteq EditTabs /\ NoTab \notin DOMAIN tabs
           /\ \A t \in DOMAIN tabs : tabs[t] \in EditFiles
           /\ tabs = [t \in DOMAIN tabs |-> tabs[t]]
<1>1. PICK S \in SUBSET EditTabs : tabs \in [S -> EditFiles]
  BY DEF AllTabs
<1> QED BY <1>1, EditConstants

\* What maps tabs to files is a state of the tabs.
LEMMA TabsMade ==
    ASSUME NEW tabs, DOMAIN tabs \subseteq EditTabs, tabs = [t \in DOMAIN tabs |-> tabs[t]],
           \A t \in DOMAIN tabs : tabs[t] \in EditFiles
    PROVE  tabs \in AllTabs
  BY DEF AllTabs

\* The view that is told to load a file is empty until the file is read.
LEMMA LoadIs ==
    ASSUME NEW view \in View, view.tab \in EditTabs, NEW file \in EditFiles, Load(view, file)
    PROVE  /\ editor' \in View /\ editor'.tab = view.tab /\ editor'.saving = view.saving
           /\ editor'.loading /\ editor'.initial = Null /\ editor'.text = Empty
           /\ reading' \in Read /\ reading' # NoRead /\ reading'.file = file /\ reading'.text = Null
<1>1. /\ editor' = [view EXCEPT !.initial = Null, !.text = Empty, !.loading = TRUE, !.confirm = FALSE]
      /\ reading' = [file |-> file, text |-> Null]
  BY DEF Load
<1>2. editor' \in View /\ editor'.tab = view.tab /\ editor'.saving = view.saving
      /\ editor'.loading /\ editor'.initial = Null /\ editor'.text = Empty
  BY <1>1, Numbers DEF View
<1>3. reading' \in Read /\ reading'.file = file /\ reading'.text = Null
  BY <1>1 DEF Read
<1>4. reading' # NoRead
  BY <1>1, EditConstants DEF NoRead
<1> QED BY <1>2, <1>3, <1>4

\* What is shown when the tab changes.
LEMMA ShowIs ==
    ASSUME ViewFits, NEW tabs \in AllTabs, NEW t \in DOMAIN tabs \cup {NoTab}, Show(tabs, t)
    PROVE  /\ ViewFits' /\ editTabs' = tabs /\ editor'.tab = t
           /\ t = NoTab => editor' = Unmounted /\ reading' = NoRead
           /\ t # NoTab => /\ editor'.saving = editor.saving /\ editor'.initial = Null /\ editor'.text = Empty
                           /\ reading'.file = tabs[t] /\ reading'.text = Null
<1>1. editTabs' = tabs
  BY DEF Show
<1>2. CASE t \in DOMAIN tabs
  <2> DEFINE view == [editor EXCEPT !.tab = t]
  <2>1. t \in EditTabs /\ t # NoTab /\ tabs[t] \in EditFiles
    BY <1>2, TabsAre
  <2>2. view \in View /\ view.tab = t /\ view.saving = editor.saving
    BY <2>1 DEF ViewFits, View
  <2>3. Load(view, tabs[t])
    BY <1>2 DEF Show
  <2> HIDE DEF view
  <2>4. /\ editor' \in View /\ editor'.tab = t /\ editor'.saving = editor.saving
        /\ editor'.loading /\ editor'.initial = Null /\ editor'.text = Empty
        /\ reading' \in Read /\ reading' # NoRead /\ reading'.file = tabs[t] /\ reading'.text = Null
    BY <2>1, <2>2, <2>3, LoadIs
  <2> QED BY <1>1, <1>2, <2>1, <2>4 DEF ViewFits
<1>3. CASE t = NoTab
  <2>1. editor' = Unmounted /\ reading' = NoRead
    BY <1>3, TabsAre DEF Show
  <2>2. Unmounted \in View /\ Unmounted.tab = NoTab /\ ~Unmounted.loading /\ ~Unmounted.saving /\ Unmounted.text = Empty
    BY Numbers DEF Unmounted, View
  <2> QED BY <1>1, <1>3, <2>1, <2>2 DEF ViewFits, Read
<1> QED BY <1>2, <1>3

\* The view after the answer of a save.
LEMMA AnsweredIs ==
    ASSUME ViewFits, NEW w \in Write
    PROVE  /\ Answered(w) \in View /\ Answered(w).tab = editor.tab /\ Answered(w).loading = editor.loading
           /\ Answered(w).saving => editor.saving
           /\ Answered(w).initial = Null => Answered(w).text = Empty
           /\ ~w.here \/ w.kind = "open" => Answered(w) = editor
           /\ w.here /\ w.kind # "open" => ~Answered(w).saving
           /\ w.step = "failed" => Answered(w).initial = editor.initial /\ Answered(w).text = editor.text
           /\ w.here /\ w.kind # "open" /\ w.step # "failed" =>
                /\ Answered(w).initial = w.text
                /\ Answered(w).text = IF editor.initial \in {w.text, Null} THEN editor.text ELSE w.text
<1>1. w.text \in Texts /\ w.text # Null /\ w.here \in BOOLEAN
  BY Numbers DEF Write
<1>2. editor \in View /\ (editor.initial = Null => editor.text = Empty)
  BY DEF ViewFits
<1>3. CASE ~w.here \/ w.kind = "open"
  BY <1>2, <1>3 DEF Answered
<1>4. CASE w.here /\ w.kind # "open" /\ w.step = "failed"
  BY <1>2, <1>4 DEF Answered, View
<1>5. CASE w.here /\ w.kind # "open" /\ w.step # "failed"
  BY <1>1, <1>2, <1>5 DEF Answered, View
<1> QED BY <1>3, <1>4, <1>5

-----------------------------------------------------------------------------
(* The types are kept.                                                     *)

\* A tab is closed: the view shows another.
LEMMA CloseIs ==
    ASSUME ViewFits, CloseTab
    PROVE  /\ ViewFits' /\ writes' = Left(writes) /\ hasty' = (hasty \/ Busy)
           /\ editor'.tab = NoTab => editor' = Unmounted /\ reading' = NoRead
           /\ editor'.tab # NoTab => /\ editor'.saving = editor.saving /\ editor'.initial = Null /\ editor'.text = Empty
                                     /\ reading'.file = editTabs'[editor'.tab] /\ reading'.text = Null
<1> DEFINE tabs == [u \in DOMAIN editTabs \ {editor.tab} |-> editTabs[u]]
<1>1. PICK t \in (DOMAIN editTabs \ {editor.tab}) \cup {NoTab} :
          Show(tabs, t) /\ writes' = Left(writes) /\ hasty' = (hasty \/ Busy)
  BY DEF CloseTab
<1>2. tabs \in AllTabs
  <2>1. DOMAIN tabs \subseteq EditTabs /\ \A u \in DOMAIN tabs : tabs[u] \in EditFiles
    BY TabsAre DEF ViewFits
  <2> QED BY <2>1, TabsMade
<1>3. t \in DOMAIN tabs \cup {NoTab}
  OBVIOUS
<1> HIDE DEF tabs
<1> QED BY <1>1, <1>2, <1>3, ShowIs

\* A new tab is opened: the view loads its file.
LEMMA OpenTabIs ==
    ASSUME ViewFits, NEW t \in EditTabs, NEW f \in EditFiles, OpenTab(t, f)
    PROVE  /\ ViewFits' /\ editor'.tab = t /\ t \in DOMAIN editTabs' /\ editor'.saving = editor.saving
           /\ editor'.initial = Null /\ editor'.text = Empty
           /\ reading'.file = editTabs'[t] /\ reading'.text = Null
<1> DEFINE tabs == [u \in DOMAIN editTabs \cup {t} |-> IF u = t THEN f ELSE editTabs[u]]
<1>1. Show(tabs, t)
  BY DEF OpenTab
<1>2. tabs \in AllTabs
  <2>1. DOMAIN tabs \subseteq EditTabs /\ \A u \in DOMAIN tabs : tabs[u] \in EditFiles
    BY TabsAre DEF ViewFits
  <2> QED BY <2>1, TabsMade
<1>3. t \in DOMAIN tabs /\ t # NoTab
  BY EditConstants
<1> HIDE DEF tabs
<1> QED BY <1>1, <1>2, <1>3, ShowIs

\* Another tab is shown: the view loads its file, or is unmounted.
LEMMA SwitchTabIs ==
    ASSUME ViewFits, NEW t \in DOMAIN editTabs \cup {NoTab}, SwitchTab(t)
    PROVE  /\ ViewFits' /\ editor'.tab = t /\ editTabs' = editTabs /\ writes' = Left(writes)
           /\ t = NoTab => editor' = Unmounted /\ reading' = NoRead
           /\ t # NoTab => /\ editor'.saving = editor.saving /\ editor'.initial = Null /\ editor'.text = Empty
                           /\ reading'.file = editTabs[t] /\ reading'.text = Null
<1>1. Show(editTabs, t) /\ editTabs \in AllTabs
  BY DEF SwitchTab, ViewFits
<1> QED BY <1>1, ShowIs DEF SwitchTab

\* A call under way.
LEMMA WriteIs ==
    ASSUME WritesFit, NEW i \in DOMAIN writes
    PROVE  /\ writes[i] \in Write /\ WriteFits(writes[i]) /\ writes[i].tab \in EditTabs /\ writes[i].text \in Texts
           /\ writes[i].here \in BOOLEAN /\ writes[i].kind \in {"save", "saveAs", "open"}
           /\ writes[i].step \in {"picking", "asked", "done", "failed"}
           /\ writes[i].step \in {"asked", "done"} => writes[i].file \in EditFiles
<1>1. writes \in Seq(Write) /\ WriteFits(writes[i])
  BY DEF WritesFit
<1>2. writes[i] \in Write
  BY <1>1
<1> QED BY <1>1, <1>2 DEF Write, WriteFits

\* The answer of a call, for the view.
LEMMA HearWriteIs ==
    ASSUME ViewFits, WritesFit, NEW i \in DOMAIN writes, HearWrite(i)
    PROVE  /\ ViewFits' /\ writes[i] \in Write
           /\ editor'.tab = editor.tab /\ editor'.saving = Answered(writes[i]).saving
           /\ \/ /\ writes[i].step = "done" /\ writes[i].kind # "save" /\ writes[i].tab = editor.tab /\ Mounted
                 /\ editTabs' = [editTabs EXCEPT ![writes[i].tab] = writes[i].file]
                 /\ editor'.initial = Null /\ editor'.text = Empty /\ editor'.loading
                 /\ reading'.file = editTabs'[editor.tab] /\ reading'.text = Null
                 /\ dropped' = (dropped \/ (Unsaved /\ writes[i].kind = "open"))
                 /\ hasty' = (hasty \/ \E j \in DOMAIN writes : j # i /\ writes[j].here)
              \/ /\ writes[i].tab = editor.tab /\ Mounted => writes[i].step = "failed" \/ writes[i].kind = "save"
                 /\ editor' = Answered(writes[i]) /\ UNCHANGED <<reading, dropped>>
                 /\ hasty' \in {hasty, hasty \/ \E j \in DOMAIN writes : j # i /\ writes[j].here}
                 /\ editor.tab \in DOMAIN editTabs' => editTabs'[editor.tab] = editTabs[editor.tab]
<1> DEFINE w == writes[i]
<1>1. w \in Write /\ (w.step = "done" => w.file \in EditFiles) /\ w.tab \in EditTabs
  BY WriteIs
<1>2. w.step \in {"done", "failed"}
  BY DEF HearWrite
<1>3. editTabs \in AllTabs /\ editor.tab \in DOMAIN editTabs \cup {NoTab} /\ NoTab \notin DOMAIN editTabs
  BY TabsAre DEF ViewFits
<1>4. /\ Answered(w) \in View /\ Answered(w).tab = editor.tab /\ Answered(w).loading = editor.loading
      /\ Answered(w).saving => editor.saving
      /\ Answered(w).initial = Null => Answered(w).text = Empty
  <2> HIDE DEF w
  <2> QED BY <1>1, AnsweredIs
<1>5. CASE w.step = "done" /\ w.kind # "save" /\ w.tab \in DOMAIN editTabs
  <2> DEFINE tabs == [editTabs EXCEPT ![w.tab] = w.file]
  <2>1. editTabs' = tabs
    BY <1>5 DEF HearWrite
  <2>2. DOMAIN tabs = DOMAIN editTabs /\ \A t \in DOMAIN tabs : tabs[t] = IF t = w.tab THEN w.file ELSE editTabs[t]
    BY <1>3, TabsAre
  <2>3. tabs \in AllTabs
    <3>1. DOMAIN tabs \subseteq EditTabs /\ \A t \in DOMAIN tabs : tabs[t] \in EditFiles
      BY <1>1, <1>3, <1>5, <2>2, TabsAre
    <3>2. tabs = [t \in DOMAIN tabs |-> tabs[t]]
      BY <2>2
    <3> QED BY <3>1, <3>2, TabsMade
  <2> HIDE DEF tabs
  <2>4. CASE w.tab = editor.tab
    <3>1. /\ Load(Answered(w), w.file)
          /\ dropped' = (dropped \/ (Unsaved /\ w.kind = "open"))
          /\ hasty' = (hasty \/ \E j \in DOMAIN writes : j # i /\ writes[j].here)
      BY <1>5, <2>4 DEF HearWrite
    <3> HIDE DEF w
    <3>2. /\ editor' \in View /\ editor'.tab = editor.tab /\ editor'.saving = Answered(w).saving
          /\ editor'.loading /\ editor'.initial = Null /\ editor'.text = Empty
          /\ reading' \in Read /\ reading' # NoRead /\ reading'.file = w.file /\ reading'.text = Null
      BY <1>1, <1>4, <1>5, <2>4, <3>1, LoadIs
    <3>3. ViewFits'
      BY <1>3, <2>1, <2>2, <2>3, <2>4, <1>5, <3>2 DEF ViewFits
    <3> QED BY <1>1, <1>3, <1>5, <2>1, <2>2, <2>4, <3>1, <3>2, <3>3 DEF Mounted, w, tabs
  <2>5. CASE w.tab # editor.tab
    <3>1. /\ editor' = Answered(w) /\ UNCHANGED <<reading, dropped>>
          /\ hasty' = (hasty \/ \E j \in DOMAIN writes : j # i /\ writes[j].here)
      BY <1>5, <2>5 DEF HearWrite
    <3>2. ViewFits'
      BY <1>3, <1>4, <2>1, <2>2, <2>3, <3>1 DEF ViewFits
    <3> QED BY <1>1, <1>4, <2>1, <2>2, <2>5, <3>1, <3>2
  <2> QED BY <2>4, <2>5
<1>6. CASE ~(w.step = "done" /\ w.kind # "save" /\ w.tab \in DOMAIN editTabs)
  <2>1. editor' = Answered(w) /\ UNCHANGED <<editTabs, reading, hasty, dropped>>
    BY <1>6 DEF HearWrite
  <2>2. ViewFits'
    BY <1>3, <1>4, <2>1 DEF ViewFits
  <2> QED BY <1>1, <1>2, <1>3, <1>4, <1>6, <2>1, <2>2 DEF Mounted
<1> QED BY <1>5, <1>6

\* Every step keeps the view, its tab and its read what they should be.
LEMMA ViewKeeps ==
    ASSUME ViewFits, DataFits, WritesFit, EditNext
    PROVE  ViewFits'
<1>1. ASSUME NEW t \in EditTabs, NEW f \in EditFiles, OpenTab(t, f) PROVE ViewFits'
  BY <1>1, OpenTabIs
<1>2. ASSUME NEW t \in DOMAIN editTabs \cup {NoTab}, SwitchTab(t) PROVE ViewFits'
  BY <1>2, SwitchTabIs
<1>3. CASE ReadFile
  <2>1. PICK text \in {disk[reading.file], Part} : reading' = [reading EXCEPT !.text = text]
    BY <1>3 DEF ReadFile
  <2>2. reading \in [file : EditFiles, text : Texts \cup {Null}] /\ reading # NoRead
    BY <1>3 DEF ReadFile, ViewFits, Read, NoRead
  <2>3. text \in Texts
    BY <2>1, <2>2, Numbers DEF DataFits
  <2>4. reading' \in Read /\ reading' # NoRead
    BY <2>1, <2>2, <2>3, EditConstants DEF Read, NoRead
  <2> QED BY <1>3, <2>2, <2>4 DEF ReadFile, ViewFits
<1>4. CASE HearRead
  <2>1. editTabs' = editTabs /\ reading' = NoRead
    BY <1>4 DEF HearRead
  <2>2. reading.text \in Texts \cup {Null} /\ editor \in View
    BY DEF ViewFits, Read, NoRead
  <2>3. CASE reading.text # Null /\ editor' = [editor EXCEPT !.initial = reading.text, !.text = reading.text, !.loading = FALSE]
    BY <2>1, <2>2, <2>3 DEF ViewFits, View, Read
  <2>4. CASE editor' = [editor EXCEPT !.loading = FALSE]
    BY <2>1, <2>2, <2>4 DEF ViewFits, View, Read
  <2> QED BY <1>4, <2>3, <2>4 DEF HearRead
<1>5. CASE Type
  <2>1. UNCHANGED <<editTabs, reading>> /\ editor \in View /\ editor.initial # Null /\ editor.initial \in Texts
    BY <1>5 DEF Type, ViewFits, View
  <2>2. PICK text \in Texts : editor' = [editor EXCEPT !.text = text]
    <3>1. CASE texts < MaxTexts /\ texts' = texts + 1 /\ editor' = [editor EXCEPT !.text = Cardinality(EditFiles) + texts']
      <4>1. Cardinality(EditFiles) + texts' \in Texts
        BY <3>1, Numbers DEF DataFits, Texts, Part
      <4> QED BY <3>1, <4>1
    <3>2. CASE editor' = [editor EXCEPT !.text = editor.initial]
      BY <2>1, <3>2
    <3> QED BY <1>5, <3>1, <3>2 DEF Type
  <2> QED BY <2>1, <2>2 DEF ViewFits, View
<1>6. CASE Save \/ SaveAs
  BY <1>6 DEF Save, SaveAs, ViewFits, View, Mounted
<1>7. CASE OpenPicked
  BY <1>7 DEF OpenPicked, ViewFits
<1>8. ASSUME NEW i \in DOMAIN writes, Pick(i) \/ WriteFile(i) PROVE ViewFits'
  BY <1>8 DEF Pick, WriteFile, ViewFits
<1>9. ASSUME NEW i \in DOMAIN writes, HearWrite(i) PROVE ViewFits'
  BY <1>9, HearWriteIs
<1>10. CASE RequestClose
  <2>1. CASE Dirty
    BY <1>10, <2>1 DEF RequestClose, ViewFits, View
  <2>2. CASE ~Dirty
    BY <1>10, <2>2, CloseIs DEF RequestClose
  <2> QED BY <2>1, <2>2
<1>11. CASE AnswerConfirm
  <2>1. CASE CloseTab
    BY <2>1, CloseIs
  <2>2. CASE ~CloseTab
    BY <1>11, <2>2 DEF AnswerConfirm, ViewFits, View
  <2> QED BY <2>1, <2>2
<1> QED BY <1>1, <1>2, <1>3, <1>4, <1>5, <1>6, <1>7, <1>8, <1>9, <1>10, <1>11 DEF EditNext

\* Every step keeps the texts of the files, and the ghosts, of their types.
LEMMA DataKeeps ==
    ASSUME ViewFits, DataFits, WritesFit, EditNext
    PROVE  DataFits'
<1>1. CASE Type
  BY <1>1, Numbers DEF Type, DataFits
<1>2. ASSUME NEW i \in DOMAIN writes, WriteFile(i) PROVE DataFits'
  <2>1. writes[i].text \in Texts /\ writes[i].file \in EditFiles
    BY <1>2, WriteIs DEF WriteFile
  <2>2. disk' \in [EditFiles -> Texts]
    BY <1>2, <2>1 DEF WriteFile, DataFits
  <2> QED BY <1>2, <2>2 DEF WriteFile, DataFits
<1>3. ASSUME NEW i \in DOMAIN writes, HearWrite(i) PROVE DataFits'
  <2>1. UNCHANGED <<disk, texts>>
    BY <1>3 DEF HearWrite
  <2>2. hasty' \in BOOLEAN /\ dropped' \in BOOLEAN
    BY <1>3, HearWriteIs DEF DataFits
  <2> QED BY <2>1, <2>2 DEF DataFits
<1>4. CASE RequestClose \/ AnswerConfirm
  BY <1>4 DEF RequestClose, AnswerConfirm, CloseTab, DataFits
<1>5. CASE ReadFile \/ HearRead \/ Save \/ SaveAs \/ OpenPicked
  BY <1>5 DEF ReadFile, HearRead, Save, SaveAs, OpenPicked, DataFits
<1>6. ASSUME NEW i \in DOMAIN writes, Pick(i) PROVE DataFits'
  BY <1>6 DEF Pick, DataFits
<1>7. ASSUME NEW t, NEW f, OpenTab(t, f) \/ SwitchTab(t) PROVE DataFits'
  BY <1>7 DEF OpenTab, SwitchTab, DataFits
<1> QED BY <1>1, <1>2, <1>3, <1>4, <1>5, <1>6, <1>7 DEF EditNext

\* A step that neither starts nor answers a call, and leaves the view its state of saving.
LEMMA SameWrites ==
    ASSUME WritesFit, writes' = writes, editor'.saving = editor.saving, Mounted => Mounted'
    PROVE  WritesFit'
<1>1. Saves' = Saves
  BY DEF Saves
<1>2. \A i \in DOMAIN writes' : WriteFits(writes'[i]) /\ (writes'[i].here => Mounted')
  BY DEF WritesFit, WriteFits
<1> QED BY <1>1, <1>2 DEF WritesFit

\* When the view goes, no call finds it any more.
LEMMA LeftKeeps ==
    ASSUME WritesFit, writes' = Left(writes),
           editor'.tab = NoTab => ~editor'.saving,
           editor'.tab # NoTab => editor'.saving = editor.saving
    PROVE  WritesFit'
<1>1. CASE editor'.tab # NoTab
  BY <1>1, SameWrites DEF Left, Mounted
<1>2. CASE editor'.tab = NoTab
  <2>1. writes' = [i \in DOMAIN writes |-> [writes[i] EXCEPT !.here = FALSE]]
    BY <1>2 DEF Left
  <2>2. \A i \in DOMAIN writes : /\ writes'[i] \in Write /\ ~writes'[i].here /\ WriteFits(writes'[i])
    <3> TAKE i \in DOMAIN writes
    <3>1. writes'[i] = [writes[i] EXCEPT !.here = FALSE] /\ writes[i] \in Write /\ WriteFits(writes[i])
      BY <2>1, WriteIs
    <3>2. writes'[i] \in Write /\ ~writes'[i].here /\ writes'[i].kind = writes[i].kind
          /\ writes'[i].step = writes[i].step /\ writes'[i].file = writes[i].file
      BY <3>1 DEF Write
    <3> QED BY <3>1, <3>2 DEF WriteFits
  <2>3. DOMAIN writes' = DOMAIN writes /\ DOMAIN writes = 1 .. Len(writes) /\ Len(writes) \in Nat
    BY <2>1 DEF WritesFit
  <2>4. writes' \in Seq(Write)
    <3>1. writes' = [i \in 1 .. Len(writes) |-> writes'[i]]
      BY <2>1, <2>3
    <3> QED BY <2>2, <2>3, <3>1
  <2>5. Saves' = {}
    BY <2>2, <2>3 DEF Saves
  <2> QED BY <1>2, <2>2, <2>3, <2>4, <2>5 DEF WritesFit
<1> QED BY <1>1, <1>2

\* A call begins.
LEMMA BeginIs ==
    ASSUME ViewFits, WritesFit, Mounted, NEW kind \in {"save", "saveAs", "open"}, NEW step \in {"picking", "asked"},
           NEW file \in EditFiles \cup {NoFile}, Begin(kind, step, file)
    PROVE  /\ writes' \in Seq(Write) /\ DOMAIN writes' = 1 .. Len(writes) + 1 /\ DOMAIN writes = 1 .. Len(writes)
           /\ Len(writes) \in Nat
           /\ \A i \in DOMAIN writes : writes'[i] = writes[i]
           /\ writes'[Len(writes) + 1] = [kind |-> kind, step |-> step, tab |-> editor.tab, file |-> file,
                                          text |-> editor.text, here |-> TRUE]
<1> DEFINE w == [kind |-> kind, step |-> step, tab |-> editor.tab, file |-> file, text |-> editor.text, here |-> TRUE]
<1>1. editor.tab \in EditTabs /\ editor.text \in Texts
  BY DEF ViewFits, View, Mounted
<1>2. w \in Write
  BY <1>1 DEF Write
<1>3. writes' = Append(writes, w) /\ writes \in Seq(Write)
  BY DEF Begin, WritesFit
<1> HIDE DEF w
<1>4. /\ writes' \in Seq(Write) /\ DOMAIN writes' = 1 .. Len(writes) + 1 /\ DOMAIN writes = 1 .. Len(writes)
      /\ Len(writes) \in Nat
      /\ \A i \in DOMAIN writes : writes'[i] = writes[i]
      /\ writes'[Len(writes) + 1] = w
  BY <1>2, <1>3
<1> QED BY <1>4 DEF w

\* A call that begins is the one save of the view, or it is "Open...".
LEMMA BeginKeeps ==
    ASSUME ViewFits, WritesFit, Mounted, NEW kind \in {"save", "saveAs", "open"}, NEW step \in {"picking", "asked"},
           NEW file \in EditFiles \cup {NoFile}, Begin(kind, step, file), editor'.tab = editor.tab,
           step = "asked" => kind # "open" /\ file \in EditFiles, step = "picking" => kind # "save",
           IF kind = "open" THEN editor'.saving = editor.saving ELSE ~editor.saving /\ editor'.saving
    PROVE  WritesFit'
<1> DEFINE n == Len(writes) + 1
<1>1. /\ writes' \in Seq(Write) /\ DOMAIN writes' = 1 .. n /\ DOMAIN writes = 1 .. n - 1 /\ n \in Nat \ {0}
      /\ \A i \in DOMAIN writes : writes'[i] = writes[i]
      /\ writes'[n].kind = kind /\ writes'[n].step = step /\ writes'[n].file = file /\ writes'[n].here
  <2>1. /\ writes' \in Seq(Write) /\ DOMAIN writes' = 1 .. n /\ DOMAIN writes = 1 .. Len(writes) /\ Len(writes) \in Nat
        /\ \A i \in DOMAIN writes : writes'[i] = writes[i]
        /\ writes'[n] = [kind |-> kind, step |-> step, tab |-> editor.tab, file |-> file,
                         text |-> editor.text, here |-> TRUE]
    BY BeginIs
  <2>2. n - 1 = Len(writes) /\ n \in Nat \ {0}
    BY <2>1
  <2>3. writes'[n].kind = kind /\ writes'[n].step = step /\ writes'[n].file = file /\ writes'[n].here
    BY <2>1
  <2> HIDE DEF n
  <2> QED BY <2>1, <2>2, <2>3
<1>2. editor'.tab # NoTab
  BY DEF Mounted
<1> HIDE DEF n
<1>3. \A i \in DOMAIN writes' : WriteFits(writes'[i]) /\ (writes'[i].here => Mounted')
  <2> TAKE i \in DOMAIN writes'
  <2>1. CASE i = n
    BY <1>1, <1>2, <2>1 DEF WriteFits, Mounted
  <2>2. CASE i # n
    <3>1. i \in DOMAIN writes
      BY <1>1, <2>2
    <3> QED BY <1>1, <1>2, <3>1 DEF WritesFit, WriteFits, Mounted
  <2> QED BY <2>1, <2>2
<1>4. CASE kind = "open"
  <2>1. Saves' = Saves
    BY <1>1, <1>4 DEF Saves
  <2> QED BY <1>1, <1>3, <1>4, <2>1 DEF WritesFit
<1>5. CASE kind # "open"
  <2>1. Saves = {}
    BY <1>5 DEF WritesFit
  <2>2. Saves' = {n}
    BY <1>1, <1>5, <2>1 DEF Saves
  <2> QED BY <1>1, <1>3, <1>5, <2>2 DEF WritesFit
<1> QED BY <1>4, <1>5

\* A call under way gets on.
LEMMA UpdateKeeps ==
    ASSUME WritesFit, NEW i \in DOMAIN writes, NEW w \in Write, WriteFits(w), w.here = writes[i].here,
           w.kind = writes[i].kind, writes' = [writes EXCEPT ![i] = w], editor' = editor
    PROVE  WritesFit'
<1>1. writes \in Seq(Write)
  BY DEF WritesFit
<1>2. writes' \in Seq(Write) /\ DOMAIN writes' = DOMAIN writes
      /\ \A j \in DOMAIN writes : writes'[j] = IF j = i THEN w ELSE writes[j]
  BY <1>1
<1>3. Saves' = Saves
  BY <1>2 DEF Saves
<1>4. \A j \in DOMAIN writes' : WriteFits(writes'[j]) /\ (writes'[j].here => Mounted')
  BY <1>2 DEF WritesFit, WriteFits, Mounted
<1> QED BY <1>2, <1>3, <1>4 DEF WritesFit

\* What the file picker does to the call that waits for it.
LEMMA PickIs ==
    ASSUME WritesFit, NEW i \in DOMAIN writes, Pick(i)
    PROVE  \E w \in Write : /\ WriteFits(w) /\ w.here = writes[i].here /\ w.kind = writes[i].kind /\ w.tab = writes[i].tab
                            /\ w.text = writes[i].text /\ writes' = [writes EXCEPT ![i] = w]
                            /\ writes[i].step = "picking" /\ w.step \in {"done", "asked", "failed"}
                            /\ w.kind # "open" => w.step # "done"
<1>1. writes[i] \in Write /\ WriteFits(writes[i])
  BY WriteIs
<1>2. ASSUME NEW f \in EditFiles,
             writes' = [writes EXCEPT ![i].file = f, ![i].step = IF writes[i].kind = "open" THEN "done" ELSE "asked"]
      PROVE  \E w \in Write : /\ WriteFits(w) /\ w.here = writes[i].here /\ w.kind = writes[i].kind /\ w.tab = writes[i].tab
                              /\ w.text = writes[i].text /\ writes' = [writes EXCEPT ![i] = w]
                              /\ w.step \in {"done", "asked"} /\ (w.kind # "open" => w.step # "done")
  <2> DEFINE w == [writes[i] EXCEPT !.file = f, !.step = IF writes[i].kind = "open" THEN "done" ELSE "asked"]
  <2>1. writes' = [writes EXCEPT ![i] = w]
    BY <1>2
  <2>2. w \in Write /\ w.here = writes[i].here /\ w.kind = writes[i].kind /\ w.tab = writes[i].tab
        /\ w.text = writes[i].text /\ w.file = f /\ w.step = IF w.kind = "open" THEN "done" ELSE "asked"
    BY <1>1 DEF Write
  <2> HIDE DEF w
  <2>3. WriteFits(w)
    BY <1>1, <2>2 DEF WriteFits
  <2> QED BY <2>1, <2>2, <2>3
<1>3. CASE writes' = [writes EXCEPT ![i].step = "failed"]
  <2> DEFINE w == [writes[i] EXCEPT !.step = "failed"]
  <2>1. writes' = [writes EXCEPT ![i] = w]
    BY <1>3
  <2>2. w \in Write /\ w.here = writes[i].here /\ w.kind = writes[i].kind /\ w.tab = writes[i].tab
        /\ w.text = writes[i].text /\ w.step = "failed"
    BY <1>1 DEF Write
  <2> HIDE DEF w
  <2>3. WriteFits(w)
    BY <1>1, <2>2 DEF WriteFits
  <2> QED BY <2>1, <2>2, <2>3 DEF Pick
<1> QED BY <1>2, <1>3 DEF Pick

\* What the operation that replaces the file does to the call that waits for it, and to the file.
LEMMA WriteFileIs ==
    ASSUME WritesFit, NEW i \in DOMAIN writes, WriteFile(i)
    PROVE  \E w \in Write : /\ WriteFits(w) /\ w.here = writes[i].here /\ w.kind = writes[i].kind /\ w.tab = writes[i].tab
                            /\ w.text = writes[i].text /\ w.file = writes[i].file /\ w.file \in EditFiles
                            /\ writes' = [writes EXCEPT ![i] = w]
                            /\ w.kind # "open" /\ w.step \in {"done", "failed"} /\ writes[i].step = "asked"
                            /\ w.step = "done" => disk' = [disk EXCEPT ![w.file] = w.text]
                            /\ w.step = "failed" => hasty' \/ disk' = disk
                            /\ hasty => hasty'
<1>1. writes[i] \in Write /\ WriteFits(writes[i]) /\ writes[i].file \in EditFiles /\ writes[i].kind # "open"
  BY WriteIs DEF WriteFile, WriteFits
<1>2. PICK step \in {"done", "failed"}, written \in BOOLEAN :
          /\ step = "done" => written
          /\ writes' = [writes EXCEPT ![i].step = step]
          /\ disk' = IF written THEN [disk EXCEPT ![writes[i].file] = writes[i].text] ELSE disk
          /\ hasty' = (hasty \/ (step = "failed" /\ written))
  BY DEF WriteFile
<1> DEFINE w == [writes[i] EXCEPT !.step = step]
<1>3. writes' = [writes EXCEPT ![i] = w]
  BY <1>2
<1>4. w \in Write /\ w.here = writes[i].here /\ w.kind = writes[i].kind /\ w.tab = writes[i].tab
      /\ w.text = writes[i].text /\ w.file = writes[i].file /\ w.step = step
  BY <1>1 DEF Write
<1> HIDE DEF w
<1>5. WriteFits(w)
  BY <1>1, <1>4 DEF WriteFits
<1>6. w.step = "done" => disk' = [disk EXCEPT ![w.file] = w.text]
  BY <1>2, <1>4
<1>7. (w.step = "failed" => hasty' \/ disk' = disk) /\ (hasty => hasty')
  BY <1>2, <1>4
<1>8. writes[i].step = "asked"
  BY DEF WriteFile
<1> QED BY <1>1, <1>3, <1>4, <1>5, <1>6, <1>7, <1>8

\* The calls that are left when one was answered.
LEMMA HeardIs ==
    ASSUME WritesFit, NEW i \in DOMAIN writes, HearWrite(i)
    PROVE  /\ writes' \in Seq(Write) /\ DOMAIN writes' = 1 .. Len(writes) - 1 /\ DOMAIN writes = 1 .. Len(writes)
           /\ \A j \in DOMAIN writes' : /\ j < i => j \in DOMAIN writes /\ writes'[j] = writes[j]
                                        /\ j >= i => j + 1 \in DOMAIN writes /\ writes'[j] = writes[j + 1]
<1>1. writes' = RemoveAt(writes, i) /\ writes \in Seq(Write)
  BY DEF HearWrite, WritesFit
<1> QED BY <1>1, RemoveAtIs

\* When a call is answered the others stay, and a view that saved saves no longer.
LEMMA HeardKeeps ==
    ASSUME ViewFits, WritesFit, NEW i \in DOMAIN writes, HearWrite(i)
    PROVE  WritesFit'
<1>1. /\ writes' \in Seq(Write) /\ DOMAIN writes' = 1 .. Len(writes) - 1 /\ DOMAIN writes = 1 .. Len(writes)
      /\ \A j \in DOMAIN writes' : /\ j < i => j \in DOMAIN writes /\ writes'[j] = writes[j]
                                   /\ j >= i => j + 1 \in DOMAIN writes /\ writes'[j] = writes[j + 1]
      /\ Len(writes) \in Nat
  BY HeardIs DEF WritesFit
<1>2. /\ editor'.tab = editor.tab /\ editor'.saving = Answered(writes[i]).saving /\ writes[i] \in Write
  BY HearWriteIs
<1>3. \A j \in DOMAIN writes' : WriteFits(writes'[j]) /\ (writes'[j].here => Mounted')
  BY <1>1, <1>2 DEF WritesFit, Mounted
<1>4. CASE i \in Saves
  <2>1. Saves = {i}
    BY <1>4 DEF WritesFit
  <2>2. Saves' = {}
    <3> SUFFICES ASSUME NEW j \in DOMAIN writes', writes'[j].here, writes'[j].kind # "open" PROVE FALSE
      BY DEF Saves
    <3>1. CASE j < i
      BY <1>1, <2>1, <3>1 DEF Saves
    <3>2. CASE j >= i
      BY <1>1, <2>1, <3>2 DEF Saves
    <3> QED BY <1>1, <3>1, <3>2
  <2>3. ~editor'.saving
    BY <1>2, <1>4, AnsweredIs DEF Saves
  <2> QED BY <1>1, <1>3, <2>2, <2>3 DEF WritesFit
<1>5. CASE i \notin Saves
  <2>1. editor'.saving = editor.saving
    BY <1>2, <1>5, AnsweredIs DEF Saves
  <2>2. \A j \in Saves' : /\ j < i => j \in Saves
                          /\ j >= i => j + 1 \in Saves
    BY <1>1 DEF Saves
  <2>3. \A j, k \in Saves' : j = k
    <3> TAKE j, k \in Saves'
    <3>1. j \in Nat /\ k \in Nat /\ i \in Nat
      BY <1>1 DEF Saves
    <3> QED BY <2>2, <3>1 DEF WritesFit
  <2>4. ASSUME NEW k \in Saves PROVE Saves' # {}
    <3>1. k # i /\ k \in 1 .. Len(writes) /\ i \in 1 .. Len(writes)
      BY <1>1, <1>5 DEF Saves
    <3>2. CASE k < i
      <4>1. k \in DOMAIN writes' /\ writes'[k] = writes[k]
        BY <1>1, <3>1, <3>2
      <4> QED BY <4>1 DEF Saves
    <3>3. CASE k > i
      <4>1. k - 1 \in DOMAIN writes' /\ k - 1 >= i
        BY <1>1, <3>1, <3>3
      <4>2. writes'[k - 1] = writes[(k - 1) + 1] /\ (k - 1) + 1 = k
        BY <1>1, <3>1, <4>1
      <4> QED BY <4>1, <4>2 DEF Saves
    <3> QED BY <3>1, <3>2, <3>3
  <2>5. editor.saving <=> Saves # {}
    BY DEF WritesFit
  <2>6. Saves' # {} => Saves # {}
    BY <1>1, <2>2 DEF Saves
  <2> QED BY <1>1, <1>3, <2>1, <2>3, <2>4, <2>5, <2>6 DEF WritesFit
<1> QED BY <1>4, <1>5

\* Every step keeps the calls under way what they should be: one save at a time, as the view says.
LEMMA WritesKeep ==
    ASSUME ViewFits, DataFits, WritesFit, EditNext
    PROVE  WritesFit'
<1>1. ASSUME NEW t \in EditTabs, NEW f \in EditFiles, OpenTab(t, f) PROVE WritesFit'
  <2>1. writes' = writes /\ editor'.saving = editor.saving /\ editor'.tab = t /\ t # NoTab
    BY <1>1, OpenTabIs, EditConstants DEF OpenTab
  <2> QED BY <2>1, SameWrites DEF Mounted
<1>2. ASSUME NEW t \in DOMAIN editTabs \cup {NoTab}, SwitchTab(t) PROVE WritesFit'
  <2>1. /\ writes' = Left(writes) /\ editor'.tab = t /\ (t = NoTab => editor' = Unmounted)
        /\ t # NoTab => editor'.saving = editor.saving
    BY <1>2, SwitchTabIs
  <2> QED BY <2>1, LeftKeeps DEF Unmounted
<1>3. CASE ReadFile \/ HearRead \/ Type
  <2>1. writes' = writes /\ editor'.saving = editor.saving /\ editor'.tab = editor.tab
    BY <1>3 DEF ReadFile, HearRead, Type, ViewFits, View
  <2> QED BY <2>1, SameWrites DEF Mounted
<1>4. CASE Save
  <2>1. Mounted /\ ~editor.saving /\ Begin("save", "asked", editTabs[editor.tab]) /\ editor' = [editor EXCEPT !.saving = TRUE]
    BY <1>4 DEF Save
  <2>2. editor'.tab = editor.tab /\ editor'.saving /\ editTabs[editor.tab] \in EditFiles
    BY <2>1, TabsAre DEF ViewFits, View, Mounted
  <2> QED BY <2>1, <2>2, BeginKeeps
<1>5. CASE SaveAs
  <2>1. Mounted /\ ~editor.saving /\ Begin("saveAs", "picking", NoFile) /\ editor' = [editor EXCEPT !.saving = TRUE]
    BY <1>5 DEF SaveAs
  <2>2. editor'.tab = editor.tab /\ editor'.saving
    BY <2>1 DEF ViewFits, View
  <2> QED BY <2>1, <2>2, BeginKeeps
<1>6. CASE OpenPicked
  <2>1. Mounted /\ Begin("open", "picking", NoFile) /\ editor' = editor
    BY <1>6 DEF OpenPicked
  <2> QED BY <2>1, BeginKeeps
<1>7. ASSUME NEW i \in DOMAIN writes, Pick(i) PROVE WritesFit'
  <2>1. editor' = editor
    BY <1>7 DEF Pick
  <2> QED BY <1>7, <2>1, PickIs, UpdateKeeps
<1>8. ASSUME NEW i \in DOMAIN writes, WriteFile(i) PROVE WritesFit'
  <2>1. editor' = editor
    BY <1>8 DEF WriteFile
  <2> QED BY <1>8, <2>1, WriteFileIs, UpdateKeeps
<1>9. ASSUME NEW i \in DOMAIN writes, HearWrite(i) PROVE WritesFit'
  BY <1>9, HeardKeeps
<1>10. CASE CloseTab
  <2>1. /\ writes' = Left(writes) /\ (editor'.tab = NoTab => editor' = Unmounted)
        /\ editor'.tab # NoTab => editor'.saving = editor.saving
    BY <1>10, CloseIs
  <2> QED BY <2>1, LeftKeeps DEF Unmounted
<1>11. CASE (RequestClose \/ AnswerConfirm) /\ ~CloseTab
  <2>1. writes' = writes /\ editor'.saving = editor.saving /\ editor'.tab = editor.tab
    BY <1>11 DEF RequestClose, AnswerConfirm, ViewFits, View
  <2> QED BY <2>1, SameWrites DEF Mounted
<1> QED BY <1>1, <1>2, <1>3, <1>4, <1>5, <1>6, <1>7, <1>8, <1>9, <1>10, <1>11 DEF EditNext

\* A view that says its text is saved, with no save about to tell, holds no unsaved text.
LEMMA SaidSaved ==
    ASSUME ViewFits, Patient, ~Dirty, \A i \in Saves : writes[i].step # "done"
    PROVE  ~Unsaved
<1> SUFFICES ASSUME Mounted, editor.text > Cardinality(EditFiles), editor.text # disk[editTabs[editor.tab]]
             PROVE  FALSE
  BY DEF Unsaved
<1>1. editor.text \notin {Empty, Part, Null}
  BY Numbers DEF Empty, Part, Null
<1>2. editor.initial # Null /\ editor.text = editor.initial
  BY <1>1 DEF ViewFits, Dirty
<1> QED BY <1>1, <1>2 DEF Patient

\* A user who waited finds nothing under way.
LEMMA QuietWrites ==
    ASSUME Patient, ~Busy
    PROVE  DOMAIN writes = {} /\ Saves = {}
  BY DEF Patient, OwnWrite, Busy, Saves

\* A view that begins anew, while nothing is under way.
LEMMA Fresh ==
    ASSUME DOMAIN writes' = {}, ~dropped', editor'.initial = Null,
           reading' # NoRead => reading'.file = editTabs'[editor'.tab] /\ reading'.text = Null
    PROVE  Patient'
<1>1. reading'.file # NoFile => reading' # NoRead
  BY DEF NoRead
<1> QED BY <1>1 DEF Patient

\* The user closes the tab with nothing under way, and what is let go is the file's.
LEMMA CloseFresh ==
    ASSUME ViewFits, Patient, CloseTab, ~hasty', ~dropped'
    PROVE  Patient'
<1>1. /\ writes' = Left(writes) /\ ~Busy
      /\ editor'.tab = NoTab => editor' = Unmounted /\ reading' = NoRead
      /\ editor'.tab # NoTab => /\ editor'.initial = Null
                                /\ reading'.file = editTabs'[editor'.tab] /\ reading'.text = Null
  BY CloseIs
<1>2. DOMAIN writes' = {}
  BY <1>1, QuietWrites DEF Left
<1>3. editor'.initial = Null
  BY <1>1 DEF Unmounted
<1> QED BY <1>1, <1>2, <1>3, Fresh

\* While a save is under way the view is loaded and every other call is "Open...".
LEMMA OwnSave ==
    ASSUME WritesFit, Patient, NEW i \in DOMAIN writes, writes[i].kind # "open"
    PROVE  /\ Saves = {i} /\ ~editor.loading /\ editor.initial # Null
           /\ \A j \in DOMAIN writes : j # i => writes[j].kind = "open"
  BY DEF WritesFit, Patient, OwnWrite, Saves

\* While the user waits, the picker and the disk answer: what is loaded and saved stays what the view takes it for.
LEMMA WaitsOnes ==
    ASSUME ViewFits, DataFits, WritesFit, Patient, ~hasty',
           NEW i \in DOMAIN writes, Pick(i) \/ WriteFile(i)
    PROVE  Patient'
<1>1. UNCHANGED <<editTabs, editor, reading, dropped>>
  BY DEF Pick, WriteFile
<1>2. writes \in Seq(Write) /\ OwnWrite(writes[i], editor, editTabs, disk)
  BY DEF WritesFit, Patient
<1>3. CASE Pick(i)
  <2>1. PICK w \in Write : /\ w.here = writes[i].here /\ w.kind = writes[i].kind /\ w.tab = writes[i].tab
                           /\ w.text = writes[i].text /\ writes' = [writes EXCEPT ![i] = w]
                           /\ writes[i].step = "picking"
                           /\ w.kind # "open" => w.step # "done"
    BY <1>3, PickIs
  <2>2. w.kind # "save" /\ disk' = disk
    BY <1>3, <2>1, WriteIs DEF WriteFits, Pick
  <2>3. DOMAIN writes' = DOMAIN writes /\ \A j \in DOMAIN writes : writes'[j] = IF j = i THEN w ELSE writes[j]
    BY <1>2, <2>1
  <2>4. \A j \in DOMAIN writes' : OwnWrite(writes'[j], editor, editTabs, disk)
    BY <1>2, <2>1, <2>2, <2>3 DEF Patient, OwnWrite
  <2>5. ASSUME NEW j \in Saves, writes[j].step = "done" PROVE j \in Saves' /\ writes'[j] = writes[j]
    BY <2>1, <2>3, <2>5 DEF Saves
  <2> QED BY <1>1, <2>2, <2>4, <2>5 DEF Patient, Mounted
<1>4. CASE WriteFile(i)
  <2>1. PICK w \in Write : /\ w.here = writes[i].here /\ w.kind = writes[i].kind /\ w.tab = writes[i].tab
                           /\ w.text = writes[i].text /\ w.file = writes[i].file /\ w.file \in EditFiles
                           /\ writes' = [writes EXCEPT ![i] = w]
                           /\ w.kind # "open" /\ w.step \in {"done", "failed"} /\ writes[i].step = "asked"
                           /\ w.step = "done" => disk' = [disk EXCEPT ![w.file] = w.text]
                           /\ w.step = "failed" => hasty' \/ disk' = disk
    BY <1>4, WriteFileIs
  <2>2. /\ Saves = {i} /\ ~editor.loading /\ editor.initial # Null
        /\ \A j \in DOMAIN writes : j # i => writes[j].kind = "open"
    BY <2>1, OwnSave
  <2>3. DOMAIN writes' = DOMAIN writes /\ \A j \in DOMAIN writes : writes'[j] = IF j = i THEN w ELSE writes[j]
    BY <1>2, <2>1
  <2>4. reading = NoRead /\ reading.file = NoFile
    BY <2>2 DEF ViewFits, NoRead
  <2>5. disk \in [EditFiles -> Texts]
    BY DEF DataFits
  <2>6. w.step = "done" => disk'[w.file] = w.text
    BY <2>1, <2>5
  <2>7. ASSUME NEW j \in DOMAIN writes' PROVE OwnWrite(writes'[j], editor, editTabs, disk')
    <3>1. CASE j = i
      BY <1>2, <2>1, <2>3, <2>6, <3>1 DEF OwnWrite
    <3>2. CASE j # i
      BY <2>2, <2>3, <2>7, <3>2 DEF Patient, OwnWrite
    <3> QED BY <3>1, <3>2
  <2>8. ASSUME Mounted, editor.initial \notin {Null, Part}
        PROVE  \/ editor.initial = disk'[editTabs[editor.tab]]
               \/ \E j \in Saves' : writes'[j].step = "done" /\ writes'[j].file = editTabs[editor.tab]
    <3>1. editor.initial = disk[editTabs[editor.tab]]
      BY <2>1, <2>2, <2>8 DEF Patient
    <3>2. CASE w.step = "failed"
      BY <2>1, <3>1, <3>2
    <3>3. CASE w.step = "done" /\ w.file # editTabs[editor.tab]
      <4>1. editTabs[editor.tab] \in EditFiles
        BY <2>8, TabsAre DEF ViewFits, Mounted
      <4>2. disk'[editTabs[editor.tab]] = disk[editTabs[editor.tab]]
        BY <2>1, <2>5, <3>3, <4>1
      <4> QED BY <3>1, <4>2
    <3>4. CASE w.step = "done" /\ w.file = editTabs[editor.tab]
      <4>1. i \in Saves' /\ writes'[i] = w
        BY <2>1, <2>2, <2>3 DEF Saves
      <4> QED BY <3>4, <4>1
    <3> QED BY <2>1, <3>2, <3>3, <3>4
  <2> QED BY <1>1, <2>2, <2>4, <2>7, <2>8 DEF Patient, Mounted
<1> QED BY <1>3, <1>4

\* While the user waits, the view hears how a call ended: then it holds the text of the file, or loads it.
LEMMA HeardWaits ==
    ASSUME ViewFits, DataFits, WritesFit, Patient, ~hasty', NEW i \in DOMAIN writes, HearWrite(i)
    PROVE  Patient'
<1> DEFINE w == writes[i]
<1>1. /\ DOMAIN writes' = 1 .. Len(writes) - 1 /\ DOMAIN writes = 1 .. Len(writes) /\ Len(writes) \in Nat
      /\ \A j \in DOMAIN writes' : /\ j < i => j \in DOMAIN writes /\ writes'[j] = writes[j]
                                   /\ j >= i => j + 1 \in DOMAIN writes /\ writes'[j] = writes[j + 1]
  BY HeardIs DEF WritesFit
<1>2. \A j \in DOMAIN writes' : \E k \in DOMAIN writes : k # i /\ writes'[j] = writes[k]
  <2> TAKE j \in DOMAIN writes'
  <2>1. CASE j < i
    BY <1>1, <2>1
  <2>2. CASE j >= i
    <3>1. j + 1 # i
      BY <1>1, <2>2
    <3> QED BY <1>1, <2>2, <3>1
  <2> QED BY <1>1, <2>1, <2>2
<1>3. OwnWrite(w, editor, editTabs, disk) /\ \A j \in DOMAIN writes : writes[j].here
  BY DEF Patient, OwnWrite
<1>4. Mounted /\ w.tab = editor.tab /\ w.here /\ w.step \in {"done", "failed"} /\ disk' = disk
  BY <1>3 DEF WritesFit, OwnWrite, HearWrite
<1>5. /\ editor'.tab = editor.tab /\ w \in Write
      /\ \/ /\ w.step = "done" /\ w.kind # "save"
            /\ editor'.initial = Null
            /\ reading'.file = editTabs'[editor.tab] /\ reading'.text = Null
            /\ dropped' = (dropped \/ (Unsaved /\ w.kind = "open"))
            /\ hasty' = (hasty \/ \E j \in DOMAIN writes : j # i /\ writes[j].here)
         \/ /\ w.step = "failed" \/ w.kind = "save"
            /\ editor' = Answered(w) /\ UNCHANGED <<reading, dropped>>
            /\ editor.tab \in DOMAIN editTabs' => editTabs'[editor.tab] = editTabs[editor.tab]
  BY <1>4, HearWriteIs
<1>6. ViewFits'
  BY HearWriteIs
<1>7. CASE /\ w.step = "done" /\ w.kind # "save"
           /\ editor'.initial = Null
           /\ reading'.file = editTabs'[editor.tab] /\ reading'.text = Null
           /\ dropped' = (dropped \/ (Unsaved /\ w.kind = "open"))
           /\ hasty' = (hasty \/ \E j \in DOMAIN writes : j # i /\ writes[j].here)
  <2>1. \A j \in DOMAIN writes : j = i
    BY <1>3, <1>7
  <2>2. DOMAIN writes' = {}
    BY <1>2, <2>1
  <2>3. ~(Unsaved /\ w.kind = "open")
    <3> SUFFICES ASSUME w.kind = "open" PROVE ~Unsaved
      OBVIOUS
    <3>1. ~Dirty
      BY <1>3 DEF OwnWrite, Dirty
    <3>2. Saves = {}
      BY <2>1 DEF Saves
    <3> QED BY <3>1, <3>2, SaidSaved
  <2>4. ~dropped'
    BY <1>7, <2>3 DEF Patient
  <2> QED BY <1>5, <1>7, <2>2, <2>4, Fresh
<1>8. CASE /\ w.step = "failed" \/ w.kind = "save"
           /\ editor' = Answered(w) /\ UNCHANGED <<reading, dropped>>
           /\ editor.tab \in DOMAIN editTabs' => editTabs'[editor.tab] = editTabs[editor.tab]
  <2>0. /\ w.kind = "open" => Answered(w) = editor
        /\ Answered(w).loading = editor.loading
        /\ w.step = "failed" => Answered(w).initial = editor.initial /\ Answered(w).text = editor.text
        /\ w.kind # "open" /\ w.step # "failed" =>
             /\ Answered(w).initial = w.text
             /\ Answered(w).text = IF editor.initial \in {w.text, Null} THEN editor.text ELSE w.text
    <3> HIDE DEF w
    <3> QED BY <1>4, <1>5, AnsweredIs
  <2>1. editTabs'[editor.tab] = editTabs[editor.tab]
    BY <1>4, <1>5, <1>6, <1>8 DEF ViewFits, Mounted
  <2>2. ~dropped' /\ (editor'.loading => editor'.initial = Null)
    <3>1. ~dropped'
      BY <1>8 DEF Patient
    <3>2. CASE w.kind = "open"
      BY <1>8, <2>0, <3>2 DEF Patient
    <3>3. CASE w.kind # "open"
      <4>1. ~editor.loading
        BY <3>3, OwnSave
      <4>2. editor'.loading = editor.loading
        BY <1>8, <2>0
      <4> QED BY <3>1, <4>1, <4>2
    <3> QED BY <3>1, <3>2, <3>3
  <2>3. reading'.file # NoFile =>
          reading'.file = editTabs'[editor'.tab] /\ reading'.text \in {Null, Part, disk'[reading'.file]}
    BY <1>4, <1>5, <1>8, <2>1 DEF Patient
  <2>4. CASE w.kind = "open"
    <3>1. editor' = editor
      BY <1>8, <2>0, <2>4
    <3>2. \A j \in DOMAIN writes' : OwnWrite(writes'[j], editor', editTabs', disk')
      BY <1>2, <1>4, <2>1, <3>1 DEF Patient, OwnWrite
    <3>3. ASSUME NEW k \in Saves PROVE \E j \in Saves' : writes'[j] = writes[k]
      <4>1. k # i /\ k \in 1 .. Len(writes) /\ i \in 1 .. Len(writes)
        BY <1>1, <2>4 DEF Saves
      <4>2. CASE k < i
        <5>1. k \in DOMAIN writes' /\ writes'[k] = writes[k]
          BY <1>1, <4>1, <4>2
        <5> QED BY <5>1 DEF Saves
      <4>3. CASE k > i
        <5>1. k - 1 \in DOMAIN writes' /\ k - 1 >= i
          BY <1>1, <4>1, <4>3
        <5>2. writes'[k - 1] = writes[(k - 1) + 1] /\ (k - 1) + 1 = k
          BY <1>1, <4>1, <5>1
        <5> QED BY <5>1, <5>2 DEF Saves
      <4> QED BY <4>1, <4>2, <4>3
    <3>4. Mounted' /\ editor'.initial \notin {Null, Part} =>
            \/ editor'.initial = disk'[editTabs'[editor'.tab]]
            \/ \E j \in Saves' : writes'[j].step = "done" /\ writes'[j].file = editTabs'[editor'.tab]
      BY <1>4, <2>1, <3>1, <3>3 DEF Patient
    <3> QED BY <2>2, <2>3, <3>2, <3>4 DEF Patient
  <2>5. CASE w.kind # "open"
    <3>1. /\ Saves = {i} /\ ~editor.loading /\ editor.initial # Null
          /\ \A j \in DOMAIN writes : j # i => writes[j].kind = "open"
      BY <2>5, OwnSave
    <3>2. \A j \in DOMAIN writes' : writes'[j].kind = "open" /\ OwnWrite(writes'[j], editor, editTabs, disk)
      BY <1>2, <3>1 DEF Patient
    <3>3. /\ editor'.initial = Null \/ editor'.text = editor'.initial \/ DOMAIN writes' = {}
          /\ editor'.initial \notin {Null, Part} => editor'.initial = disk[editTabs[editor.tab]]
      <4>1. CASE w.step = "failed"
        <5>1. editor'.initial = editor.initial /\ editor'.text = editor.text
          BY <1>8, <2>0, <4>1
        <5>2. editor.initial \notin {Null, Part} => editor.initial = disk[editTabs[editor.tab]]
          BY <1>4, <3>1, <4>1 DEF Patient
        <5> QED BY <3>2, <5>1, <5>2 DEF OwnWrite
      <4>2. CASE w.step # "failed"
        <5>1. w.kind = "save" /\ w.step = "done" /\ w.text = editor.text /\ w.file = editTabs[editor.tab]
              /\ disk[w.file] = w.text
          BY <1>3, <1>4, <1>8, <2>5, <4>2 DEF OwnWrite
        <5>2. editor'.initial = w.text /\ editor'.text = w.text
          BY <1>8, <2>0, <4>2, <5>1
        <5> QED BY <5>1, <5>2
      <4> QED BY <4>1, <4>2
    <3>4. \A j \in DOMAIN writes' : OwnWrite(writes'[j], editor', editTabs', disk')
      BY <1>5, <3>2, <3>3 DEF OwnWrite
    <3> QED BY <1>4, <1>5, <2>1, <2>2, <2>3, <3>3, <3>4 DEF Patient, Mounted
  <2> QED BY <2>4, <2>5
<1> QED BY <1>5, <1>7, <1>8

\* A save, a "save as" or an "Open..." by a user who waited.
LEMMA BeginWaits ==
    ASSUME ViewFits, DataFits, WritesFit, Patient, ~hasty', Save \/ SaveAs \/ OpenPicked
    PROVE  Patient'
<1>1. Mounted /\ UNCHANGED <<editTabs, reading, disk, dropped>>
  BY DEF Save, SaveAs, OpenPicked
<1>2. editor \in View /\ editTabs[editor.tab] \in EditFiles
  BY <1>1, TabsAre DEF ViewFits, Mounted
<1>3. \E kind \in {"save", "saveAs", "open"}, step \in {"picking", "asked"}, file \in EditFiles \cup {NoFile} :
        /\ Begin(kind, step, file)
        /\ kind = "open" => ~Dirty /\ editor' = editor
        /\ kind # "open" => /\ Saves = {} /\ ~editor.loading /\ editor.initial # Null
                            /\ editor' = [editor EXCEPT !.saving = TRUE]
                            /\ kind = "save" => file = editTabs[editor.tab]
  <2>1. CASE Save \/ SaveAs
    <3>1. editor.initial # Null /\ editor' = [editor EXCEPT !.saving = TRUE] /\ ~editor.saving
      BY <2>1 DEF Save, SaveAs, Dirty
    <3>2. Saves = {} /\ ~editor.loading
      BY <3>1 DEF WritesFit, Patient
    <3>3. CASE Save
      BY <1>2, <3>1, <3>2, <3>3 DEF Save
    <3>4. CASE SaveAs
      BY <3>1, <3>2, <3>4 DEF SaveAs
    <3> QED BY <2>1, <3>3, <3>4
  <2>2. CASE OpenPicked
    BY <2>2 DEF OpenPicked
  <2> QED BY <2>1, <2>2
<1>4. PICK kind \in {"save", "saveAs", "open"}, step \in {"picking", "asked"}, file \in EditFiles \cup {NoFile} :
        /\ Begin(kind, step, file)
        /\ kind = "open" => ~Dirty /\ editor' = editor
        /\ kind # "open" => /\ Saves = {} /\ ~editor.loading /\ editor.initial # Null
                            /\ editor' = [editor EXCEPT !.saving = TRUE]
                            /\ kind = "save" => file = editTabs[editor.tab]
  BY <1>3
<1>5. /\ editor'.tab = editor.tab /\ editor'.initial = editor.initial /\ editor'.text = editor.text
      /\ editor'.loading = editor.loading
  BY <1>2, <1>4 DEF View
<1> DEFINE n == Len(writes) + 1
<1>6. /\ DOMAIN writes' = 1 .. n /\ DOMAIN writes = 1 .. Len(writes) /\ Len(writes) \in Nat
      /\ \A i \in DOMAIN writes : writes'[i] = writes[i]
      /\ writes'[n] = [kind |-> kind, step |-> step, tab |-> editor.tab, file |-> file,
                       text |-> editor.text, here |-> TRUE]
  BY <1>1, <1>4, BeginIs
<1>7. /\ writes'[n].kind = kind /\ writes'[n].step = step /\ writes'[n].file = file /\ writes'[n].here
      /\ writes'[n].tab = editor.tab /\ writes'[n].text = editor.text /\ step # "done"
  BY <1>6
<1>8. \A i \in DOMAIN writes' : i = n \/ i \in DOMAIN writes
  BY <1>6
<1> HIDE DEF n
<1>9. OwnWrite(writes'[n], editor', editTabs', disk')
  BY <1>1, <1>4, <1>5, <1>7 DEF OwnWrite, Dirty
<1>10. ASSUME NEW i \in DOMAIN writes PROVE OwnWrite(writes'[i], editor', editTabs', disk')
  BY <1>1, <1>5, <1>6, <1>10 DEF Patient, OwnWrite
<1>11. Saves \subseteq Saves' /\ \A i \in Saves : writes'[i] = writes[i]
  <2>1. DOMAIN writes \subseteq DOMAIN writes'
    BY <1>6 DEF n
  <2> QED BY <1>6, <2>1 DEF Saves
<1>12. \A i \in DOMAIN writes' : OwnWrite(writes'[i], editor', editTabs', disk')
  BY <1>8, <1>9, <1>10
<1> QED BY <1>1, <1>5, <1>11, <1>12 DEF Patient, Mounted

\* As long as the user waits out what is under way, the view's account of its file stays true.
LEMMA PatientKeeps ==
    ASSUME ViewFits, DataFits, WritesFit, Patient, ~hasty, ~hasty', EditNext
    PROVE  Patient'
<1>1. ASSUME NEW t \in EditTabs, NEW f \in EditFiles, OpenTab(t, f) PROVE Patient'
  <2>1. writes' = writes /\ ~Busy /\ dropped' = dropped
    BY <1>1 DEF OpenTab
  <2>2. DOMAIN writes' = {} /\ ~dropped'
    BY <2>1, QuietWrites DEF Patient
  <2> QED BY <1>1, <2>2, OpenTabIs, Fresh
<1>2. ASSUME NEW t \in DOMAIN editTabs \cup {NoTab}, SwitchTab(t) PROVE Patient'
  <2>1. writes' = Left(writes) /\ ~Busy /\ dropped' = dropped
    BY <1>2 DEF SwitchTab
  <2>2. DOMAIN writes' = {} /\ ~dropped'
    BY <2>1, QuietWrites DEF Patient, Left
  <2>3. /\ editor'.tab = t /\ editTabs' = editTabs
        /\ t = NoTab => editor' = Unmounted /\ reading' = NoRead
        /\ t # NoTab => editor'.initial = Null /\ reading'.file = editTabs[t] /\ reading'.text = Null
    BY <1>2, SwitchTabIs
  <2>4. editor'.initial = Null
    BY <2>3 DEF Unmounted
  <2> QED BY <2>2, <2>3, <2>4, Fresh
<1>3. CASE ReadFile
  <2>1. UNCHANGED <<editTabs, editor, writes, disk, dropped>> /\ reading.file # NoFile
    BY <1>3 DEF ReadFile
  <2>2. PICK text \in {disk[reading.file], Part} : reading' = [reading EXCEPT !.text = text]
    BY <1>3 DEF ReadFile
  <2>3. reading'.file = reading.file /\ reading'.text = text
    BY <2>2 DEF ViewFits, Read, NoRead
  <2>4. reading'.file = editTabs[editor.tab] /\ reading'.text \in {Null, Part, disk[reading'.file]}
    BY <2>1, <2>2, <2>3 DEF Patient
  <2>5. Saves' = Saves
    BY <2>1 DEF Saves
  <2> QED BY <2>1, <2>4, <2>5 DEF Patient, Mounted
<1>4. CASE HearRead
  <2>1. UNCHANGED <<editTabs, writes, disk, dropped>> /\ reading.file # NoFile /\ reading' = NoRead
    BY <1>4 DEF HearRead
  <2>2. editor.loading /\ editor.initial = Null /\ Mounted /\ editor \in View
    BY <2>1 DEF ViewFits, Patient, NoRead, Mounted
  <2>3. \A i \in DOMAIN writes : writes[i].kind = "open" /\ writes[i].here /\ writes[i].tab = editor.tab
    BY <2>2 DEF Patient, OwnWrite
  <2>4. /\ editor'.tab = editor.tab /\ ~editor'.loading
        /\ editor'.initial = Null \/ editor'.text = editor'.initial
        /\ editor'.initial \notin {Null, Part} => editor'.initial = disk[editTabs[editor.tab]]
    <3>1. CASE reading.text # Null /\ editor' = [editor EXCEPT !.initial = reading.text, !.text = reading.text, !.loading = FALSE]
      <4>1. editor'.tab = editor.tab /\ ~editor'.loading /\ editor'.initial = reading.text /\ editor'.text = reading.text
        BY <2>2, <3>1 DEF View
      <4>2. reading.text \in {Null, Part, disk[reading.file]} /\ reading.file = editTabs[editor.tab]
        BY <2>1 DEF Patient
      <4> QED BY <4>1, <4>2
    <3>2. CASE editor' = [editor EXCEPT !.loading = FALSE]
      BY <2>2, <3>2 DEF View
    <3> QED BY <1>4, <3>1, <3>2 DEF HearRead
  <2>5. \A i \in DOMAIN writes' : OwnWrite(writes'[i], editor', editTabs', disk')
    BY <2>1, <2>3, <2>4 DEF OwnWrite
  <2>6. ~dropped' /\ reading'.file = NoFile
    BY <2>1 DEF Patient, NoRead
  <2> QED BY <2>1, <2>4, <2>5, <2>6 DEF Patient, Mounted
<1>5. CASE Type
  <2>1. UNCHANGED <<editTabs, reading, writes, disk, dropped>> /\ ~Busy /\ ~editor.loading
    BY <1>5 DEF Type
  <2>2. DOMAIN writes = {} /\ Saves = {}
    BY <2>1, QuietWrites
  <2>3. editor'.tab = editor.tab /\ editor'.initial = editor.initial /\ ~editor'.loading
    BY <1>5, <2>1 DEF Type, ViewFits, View
  <2>4. reading'.file = NoFile
    BY <2>1 DEF ViewFits, NoRead
  <2> QED BY <2>1, <2>2, <2>3, <2>4 DEF Patient, Mounted
<1>6. CASE Save \/ SaveAs \/ OpenPicked
  BY <1>6, BeginWaits
<1>7. ASSUME NEW i \in DOMAIN writes, Pick(i) \/ WriteFile(i) PROVE Patient'
  BY <1>7, WaitsOnes
<1>8. ASSUME NEW i \in DOMAIN writes, HearWrite(i) PROVE Patient'
  BY <1>8, HeardWaits
<1>9. ASSUME UNCHANGED <<editTabs, reading, writes, disk, dropped>>, NEW answer \in BOOLEAN,
             editor' = [editor EXCEPT !.confirm = answer]
      PROVE  Patient'
  <2>1. /\ editor'.tab = editor.tab /\ editor'.initial = editor.initial /\ editor'.text = editor.text
        /\ editor'.loading = editor.loading
    BY <1>9 DEF ViewFits, View
  <2>2. Saves' = Saves
    BY <1>9 DEF Saves
  <2>3. \A i \in DOMAIN writes' : OwnWrite(writes'[i], editor', editTabs', disk')
    BY <1>9, <2>1 DEF Patient, OwnWrite
  <2> QED BY <1>9, <2>1, <2>2, <2>3 DEF Patient, Mounted
<1>10. CASE RequestClose
  <2>1. CASE Dirty
    BY <1>9, <1>10, <2>1 DEF RequestClose
  <2>2. CASE ~Dirty
    <3>1. CloseTab /\ dropped' = (dropped \/ Unsaved)
      BY <1>10, <2>2 DEF RequestClose
    <3>2. Saves = {}
      BY <3>1, QuietWrites DEF CloseTab
    <3>3. ~Unsaved
      BY <2>2, <3>2, SaidSaved
    <3>4. ~dropped'
      BY <3>1, <3>3 DEF Patient
    <3> QED BY <3>1, <3>4, CloseFresh
  <2> QED BY <2>1, <2>2
<1>11. CASE AnswerConfirm
  <2>1. UNCHANGED <<disk, dropped>>
    BY <1>11 DEF AnswerConfirm
  <2>2. CASE CloseTab
    <3>1. ~dropped'
      BY <2>1 DEF Patient
    <3> QED BY <2>2, <3>1, CloseFresh
  <2>3. CASE ~CloseTab
    BY <1>9, <1>11, <2>1, <2>3 DEF AnswerConfirm
  <2> QED BY <2>2, <2>3
<1> QED BY <1>1, <1>2, <1>3, <1>4, <1>5, <1>6, <1>7, <1>8, <1>10, <1>11 DEF EditNext

-----------------------------------------------------------------------------
(* The editor.                                                             *)

\* At the start nothing is open.
LEMMA EditStarts ==
    ASSUME EditInit
    PROVE  EditInv
<1>1. editTabs \in AllTabs
  <2>1. editTabs \in [{} -> EditFiles]
    BY DEF EditInit
  <2> QED BY <2>1 DEF AllTabs
<1>2. editor \in View /\ editor.tab = NoTab /\ ~editor.loading /\ ~editor.saving /\ editor.text = Empty /\ editor.initial = Null
  BY Numbers DEF EditInit, Unmounted, View
<1>3. ViewFits
  BY <1>1, <1>2 DEF EditInit, ViewFits, Read
<1>4. DataFits
  <2>1. disk \in [EditFiles -> 1 .. Cardinality(EditFiles)]
    BY DEF EditInit
  <2>2. 1 .. Cardinality(EditFiles) \subseteq Texts
    BY Numbers DEF Texts, Part
  <2>3. disk \in [EditFiles -> Texts]
    BY <2>1, <2>2
  <2>4. texts = 0 /\ hasty = FALSE /\ dropped = FALSE
    BY DEF EditInit
  <2>5. texts \in 0 .. MaxTexts
    BY <2>4, Numbers
  <2>6. hasty \in BOOLEAN /\ dropped \in BOOLEAN
    BY <2>4
  <2> QED BY <2>3, <2>5, <2>6 DEF DataFits
<1>5. writes = <<>> /\ writes \in Seq(Write) /\ DOMAIN writes = {}
  BY DEF EditInit
<1>6. Saves = {}
  BY <1>5 DEF Saves
<1>7. WritesFit
  BY <1>2, <1>5, <1>6 DEF WritesFit
<1>8. Patient
  BY <1>2, <1>5 DEF EditInit, Patient, NoRead
<1> QED BY <1>3, <1>4, <1>7, <1>8 DEF EditInv

\* Every step keeps the invariant: the types whatever the user does, the rest while the user waits.
LEMMA EditKeeps ==
    ASSUME EditInv, [EditNext]_editVars
    PROVE  EditInv'
<1>1. CASE EditNext
  <2>1. ViewFits' /\ DataFits' /\ WritesFit'
    BY <1>1, ViewKeeps, DataKeeps, WritesKeep DEF EditInv
  <2>2. hasty => hasty'
    <3>1. ASSUME NEW i \in DOMAIN writes, HearWrite(i) PROVE hasty => hasty'
      BY <3>1, HearWriteIs DEF EditInv
    <3>2. ASSUME NEW i \in DOMAIN writes, Pick(i) \/ WriteFile(i) PROVE hasty => hasty'
      BY <3>2 DEF Pick, WriteFile
    <3>3. CASE RequestClose \/ AnswerConfirm
      BY <3>3 DEF RequestClose, AnswerConfirm, CloseTab
    <3>4. CASE ReadFile \/ HearRead \/ Type \/ Save \/ SaveAs \/ OpenPicked
      BY <3>4 DEF ReadFile, HearRead, Type, Save, SaveAs, OpenPicked
    <3>5. ASSUME NEW t, NEW f, OpenTab(t, f) \/ SwitchTab(t) PROVE hasty => hasty'
      BY <3>5 DEF OpenTab, SwitchTab
    <3> QED BY <1>1, <3>1, <3>2, <3>3, <3>4, <3>5 DEF EditNext
  <2>3. hasty' \/ Patient'
    BY <1>1, <2>2, PatientKeeps DEF EditInv
  <2> QED BY <2>1, <2>3 DEF EditInv
<1>2. CASE UNCHANGED editVars
  <2>1. UNCHANGED <<editTabs, editor, reading, writes, disk, texts, hasty, dropped>>
    BY <1>2 DEF editVars
  <2>2. ViewFits' /\ DataFits'
    BY <2>1 DEF EditInv, ViewFits, DataFits
  <2>3. Saves' = Saves
    BY <2>1 DEF Saves
  <2>4. WritesFit'
    BY <2>1, SameWrites DEF EditInv, Mounted
  <2>5. hasty' \/ Patient'
    BY <2>1, <2>3 DEF EditInv, Patient, Mounted
  <2> QED BY <2>2, <2>4, <2>5 DEF EditInv
<1> QED BY <1>1, <1>2

\* The invariant gives the property of the editor.
LEMMA SafeFromInv ==
    ASSUME EditInv
    PROVE  TextIsSafe
<1>1. ASSUME Mounted, ~hasty, ~editor.saving, editor.initial \notin {Null, Part}, ~Dirty
      PROVE  editor.text = disk[editTabs[editor.tab]]
  <2>1. Saves = {}
    BY <1>1 DEF EditInv, WritesFit
  <2> QED BY <1>1, <2>1 DEF EditInv, Patient, Dirty
<1>2. CloseAsks
  BY DEF EditInv, Patient, CloseAsks
<1> QED BY <1>1, <1>2 DEF TextIsSafe, SavedIsSaved

\* The invariant gives the types, and one save at a time.
LEMMA TypeFromInv ==
    ASSUME EditInv
    PROVE  EditTypeOK
<1>1. DOMAIN editTabs \subseteq EditTabs /\ Range(editTabs) \subseteq EditFiles
  BY TabsAre DEF EditInv, ViewFits, Range
<1>2. /\ editor.tab \in DOMAIN editTabs \cup {NoTab}
      /\ editor.initial \in Texts \cup {Null} /\ editor.text \in Texts
      /\ {editor.loading, editor.saving, editor.confirm} \subseteq BOOLEAN
      /\ reading \in [file : EditFiles, text : Texts \cup {Null}] \cup {[file |-> NoFile, text |-> Null]}
  BY DEF EditInv, ViewFits, View, Read, NoRead
<1>3. disk \in [EditFiles -> Texts] /\ texts \in Nat /\ writes \in Seq(Write)
  BY Numbers DEF EditInv, DataFits, WritesFit
<1>4. Cardinality(Saves) = IF editor.saving THEN 1 ELSE 0
  <2>1. CASE Saves = {}
    BY <2>1, FS_EmptySet DEF EditInv, WritesFit
  <2>2. CASE Saves # {}
    <3>1. PICK i \in Saves : TRUE
      BY <2>2
    <3>2. Saves = {i}
      BY <3>1 DEF EditInv, WritesFit
    <3>3. Cardinality({i}) = 1
      BY FS_Singleton
    <3> QED BY <2>2, <3>2, <3>3 DEF EditInv, WritesFit
  <2> QED BY <2>1, <2>2
<1> QED BY <1>1, <1>2, <1>3, <1>4 DEF EditTypeOK, Saves

\* The invariant holds in every state of the editor, for any number of tabs, files, edits and acts.
THEOREM EditorInvariant == EditSpec => []EditInv
<1>1. EditInit => EditInv
  BY EditStarts
<1>2. EditInv /\ [EditNext]_editVars => EditInv'
  BY EditKeeps
<1> QED BY <1>1, <1>2, PTL DEF EditSpec

\* The types, and that the view never has two saves under way at once (handleSave and handleSaveAs
\* of EditorContent return while saving).
THEOREM EditorTypes == EditSpec => []EditTypeOK
<1>1. EditInv => EditTypeOK
  BY TypeFromInv
<1> QED BY <1>1, EditorInvariant, PTL

\* The text the user typed is safe: EditorContent shows it as saved only when the file of its tab has
\* it, and closing or "Open..." never lets it go without asking - for a user who waits for a save, saves
\* what was loaded, and meets no failed save that had written all the same.
THEOREM EditorTextIsSafe == EditSpec => []TextIsSafe
<1>1. EditInv => TextIsSafe
  BY SafeFromInv
<1> QED BY <1>1, EditorInvariant, PTL

\* The view waits only for calls that are under way.
LEMMA SettlesFromInv ==
    ASSUME EditInv
    PROVE  EditSettles
<1> SUFFICES ASSUME reading = NoRead, writes = <<>> PROVE ~editor.loading /\ ~editor.saving
  BY DEF EditSettles
<1>1. ~editor.loading
  BY DEF EditInv, ViewFits
<1>2. Saves = {}
  BY DEF Saves
<1> QED BY <1>1, <1>2 DEF EditInv, WritesFit

\* When nothing is under way the view neither loads nor saves, however the calls ended: its buttons
\* work again.
THEOREM EditorSettles == EditSpec => []EditSettles
<1>1. EditInv => EditSettles
  BY SettlesFromInv
<1> QED BY <1>1, EditorInvariant, PTL

==============================================================================
