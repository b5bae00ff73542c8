------------------------------- MODULE EditorPane -------------------------------
(***************************************************************************)
(* The built-in editor of a pane (EditorContent): one view for all editor  *)
(* tabs of the pane, since nothing remounts it when the tab changes; it    *)
(* reads the file of its tab, holds the text, and saves it.  Reads, saves  *)
(* and the file picker answer at any later time.                           *)
(*                                                                         *)
(* Texts are numbers: each edit makes a new one, Empty is the empty text   *)
(* and Part what a file too long for the editor gives.  Files are local;   *)
(* nothing else writes them.  A read that was cancelled is dropped.        *)
(***************************************************************************)
EXTENDS Integers, SequencesExt, TLC

CONSTANTS
    EditTabs,     \* the editor tabs of the pane
    EditFiles,    \* the files they can be about
    MaxTexts,     \* bound on the edits
    MaxEditActs   \* bound on what else the user does


VARIABLES
    editTabs,  \* the file of each open editor tab
    editor,    \* the view
    reading,   \* the read whose answer is awaited
    writes,    \* saves, "save as" and picks under way
    disk,      \* the text of each file
    texts,     \* texts typed so far
    editActs,
    hasty,     \* ghost: the user did something the view does not wait out
    dropped    \* ghost: unsaved text was let go without asking

editVars == <<editTabs, editor, reading, writes, disk, texts, editActs, hasty, dropped>>

Empty == 0
Part  == -1
Null  == -2
NoTab == "folder"   \* the active tab of the pane is not an editor
NoFile == "none"

ASSUME EditConstants ==
    /\ EditTabs # {} /\ NoTab \notin EditTabs
    /\ EditFiles # {} /\ IsFiniteSet(EditFiles) /\ NoFile \notin EditFiles
    /\ {MaxTexts, MaxEditActs} \subseteq Nat

Texts == Part .. (Cardinality(EditFiles) + MaxTexts)
Write == [kind : {"save", "saveAs", "open"},
          step : {"picking", "asked", "done", "failed"},
          tab  : EditTabs, file : EditFiles \cup {NoFile},
          text : Texts,
          here : BOOLEAN]   \* the view it was started from is still mounted

EditTypeOK ==
    /\ DOMAIN editTabs \subseteq EditTabs /\ Range(editTabs) \subseteq EditFiles
    /\ editor.tab \in DOMAIN editTabs \cup {NoTab}
    /\ editor.initial \in Texts \cup {Null} /\ editor.text \in Texts
    /\ {editor.loading, editor.saving, editor.confirm} \subseteq BOOLEAN
    /\ reading \in [file : EditFiles, text : Texts \cup {Null}] \cup {[file |-> NoFile, text |-> Null]}
    /\ writes \in Seq(Write) /\ disk \in [EditFiles -> Texts] /\ texts \in Nat
    \* one save at a time
    /\ Cardinality({i \in DOMAIN writes : writes[i].here /\ writes[i].kind # "open"})
         = IF editor.saving THEN 1 ELSE 0

NoRead == [file |-> NoFile, text |-> Null]
Unmounted == [tab |-> NoTab, initial |-> Null, text |-> Empty,
              loading |-> FALSE, saving |-> FALSE, confirm |-> FALSE]

Mounted == editor.tab # NoTab
Dirty   == editor.initial # Null /\ editor.text # editor.initial
\* A text the user typed that its file does not have.
Unsaved == Mounted /\ editor.text > Cardinality(EditFiles) /\ editor.text # disk[editTabs[editor.tab]]
EditAct     == editActs < MaxEditActs /\ editActs' = editActs + 1

-----------------------------------------------------------------------------
(* The view and its file.                                                  *)

\* The effect on the entry: the text of the last one goes, the read of it is cancelled.
Load(view, file) ==
    /\ editor' = [view EXCEPT !.initial = Null, !.text = Empty, !.loading = TRUE, !.confirm = FALSE]
    /\ reading' = [file |-> file, text |-> Null]

\* The pane shows tab t, if it is an editor tab.
Show(tabs, t) ==
    /\ editTabs' = tabs
    /\ IF t \in DOMAIN tabs THEN Load([editor EXCEPT !.tab = t], tabs[t])
       ELSE editor' = Unmounted /\ reading' = NoRead

\* What is under way when the view is unmounted finds no view any more.
Left(ws) == IF editor'.tab = NoTab THEN [i \in DOMAIN ws |-> [ws[i] EXCEPT !.here = FALSE]] ELSE ws

Busy == editor.saving \/ \E i \in DOMAIN writes : writes[i].here

\* openEditorTab and switchTab: unsaved text of the tab that is left goes unasked.
OpenTab(t, f) ==
    /\ t \notin DOMAIN editTabs /\ EditAct
    /\ Show([u \in DOMAIN editTabs \cup {t} |-> IF u = t THEN f ELSE editTabs[u]], t)
    /\ hasty' = (hasty \/ Busy)
    /\ UNCHANGED <<writes, disk, texts, dropped>>

SwitchTab(t) ==
    /\ t # editor.tab /\ EditAct
    /\ Show(editTabs, t)
    /\ writes' = Left(writes)
    /\ hasty' = (hasty \/ Busy)
    /\ UNCHANGED <<disk, texts, dropped>>

ReadFile ==
    /\ reading.file # NoFile /\ reading.text = Null
    /\ \E text \in {disk[reading.file], Part} : reading' = [reading EXCEPT !.text = text]
    /\ UNCHANGED <<editTabs, editor, writes, disk, texts, editActs, hasty, dropped>>

HearRead ==
    /\ reading.file # NoFile
    /\ \/ /\ reading.text # Null
          /\ editor' = [editor EXCEPT !.initial = reading.text, !.text = reading.text, !.loading = FALSE]
       \/ editor' = [editor EXCEPT !.loading = FALSE]
    /\ reading' = NoRead
    /\ UNCHANGED <<editTabs, writes, disk, texts, editActs, hasty, dropped>>

\* The text field is there once the file is read; the user types, or undoes it all.
Type ==
    /\ Mounted /\ ~editor.loading /\ editor.initial # Null
    /\ \/ /\ texts < MaxTexts /\ texts' = texts + 1
          /\ editor' = [editor EXCEPT !.text = Cardinality(EditFiles) + texts']
       \/ Dirty /\ editor' = [editor EXCEPT !.text = editor.initial] /\ UNCHANGED texts
    /\ hasty' = (hasty \/ Busy)
    /\ UNCHANGED <<editTabs, reading, writes, disk, editActs, dropped>>

-----------------------------------------------------------------------------
(* Saving.                                                                 *)

Begin(kind, step, file) ==
    writes' = Append(writes, [kind |-> kind, step |-> step, tab |-> editor.tab, file |-> file,
                              text |-> editor.text, here |-> TRUE])

\* The button and the menu are enabled by unsaved text, the key is not.
Save ==
    /\ Mounted /\ ~editor.saving /\ EditAct
    /\ Begin("save", "asked", editTabs[editor.tab])
    /\ editor' = [editor EXCEPT !.saving = TRUE]
    /\ hasty' = (hasty \/ ~Dirty)
    /\ UNCHANGED <<editTabs, reading, disk, texts, dropped>>

SaveAs ==
    /\ Mounted /\ ~editor.saving /\ EditAct
    /\ Begin("saveAs", "picking", NoFile)
    /\ editor' = [editor EXCEPT !.saving = TRUE]
    /\ hasty' = (hasty \/ editor.initial = Null)
    /\ UNCHANGED <<editTabs, reading, disk, texts, dropped>>

OpenPicked ==
    /\ Mounted /\ ~Dirty /\ EditAct
    /\ \A i \in DOMAIN writes : writes[i].step # "picking"   \* the picker is modal
    /\ Begin("open", "picking", NoFile)
    /\ UNCHANGED <<editTabs, editor, reading, disk, texts, hasty, dropped>>

\* The picker answers; a pick without a file is an answer like a failure.
Pick(i) ==
    /\ writes[i].step = "picking"
    /\ \/ \E f \in EditFiles :
             writes' = [writes EXCEPT ![i].file = f,
                                      ![i].step = IF writes[i].kind = "open" THEN "done" ELSE "asked"]
       \/ writes' = [writes EXCEPT ![i].step = "failed"]
    /\ UNCHANGED <<editTabs, editor, reading, disk, texts, editActs, hasty, dropped>>

\* The operation that replaces the file; told as failed it may have written all the same
\* (cancelled too late, or the stat after it fails).
WriteFile(i) ==
    /\ writes[i].step = "asked"
    /\ \E step \in {"done", "failed"}, written \in BOOLEAN :
          /\ step = "done" => written
          /\ writes' = [writes EXCEPT ![i].step = step]
          /\ disk' = IF written THEN [disk EXCEPT ![writes[i].file] = writes[i].text] ELSE disk
          /\ hasty' = (hasty \/ (step = "failed" /\ written))
    /\ UNCHANGED <<editTabs, editor, reading, texts, editActs, dropped>>

\* Mutant: the view takes the text as saved however the save ended.
AnsweredWell(w) ==
    IF ~w.here \/ w.kind = "open" THEN editor
    ELSE [editor EXCEPT !.saving = FALSE, !.initial = w.text]

\* The view after the answer of a save: the text that was saved is what it compares with,
\* and, by the effect of CodeMirrorPane on it, what it shows.
Answered(w) ==
    IF ~w.here \/ w.kind = "open" THEN editor
    ELSE IF w.step = "failed" THEN [editor EXCEPT !.saving = FALSE]
    ELSE [editor EXCEPT !.saving = FALSE, !.initial = w.text,
                        !.text = IF editor.initial \in {w.text, Null} THEN @ ELSE w.text]

\* onEntryChange of the tab the call was started from.
HearWrite(i) ==
    LET w == writes[i]
    IN  /\ w.step \in {"done", "failed"}
        /\ writes' = RemoveAt(writes, i)
        /\ IF w.step = "done" /\ w.kind # "save" /\ w.tab \in DOMAIN editTabs
           THEN /\ editTabs' = [editTabs EXCEPT ![w.tab] = w.file]
                /\ IF w.tab = editor.tab
                   THEN /\ Load(Answered(w), w.file)
                        /\ dropped' = (dropped \/ (Unsaved /\ w.kind = "open"))
                   ELSE editor' = Answered(w) /\ UNCHANGED <<reading, dropped>>
                /\ hasty' = (hasty \/ \E j \in DOMAIN writes : j # i /\ writes[j].here)
           ELSE editor' = Answered(w) /\ UNCHANGED <<editTabs, reading, hasty, dropped>>
        /\ UNCHANGED <<disk, texts, editActs>>

-----------------------------------------------------------------------------
(* Closing.                                                                *)

\* closeTab: another tab of the pane is shown.
CloseTab ==
    \E t \in (DOMAIN editTabs \ {editor.tab}) \cup {NoTab} :
        /\ Show([u \in DOMAIN editTabs \ {editor.tab} |-> editTabs[u]], t)
        /\ writes' = Left(writes)
        /\ hasty' = (hasty \/ Busy)

RequestClose ==
    /\ Mounted /\ EditAct
    /\ IF Dirty
       THEN /\ editor' = [editor EXCEPT !.confirm = TRUE]
            /\ UNCHANGED <<editTabs, reading, writes, hasty, dropped>>
       ELSE CloseTab /\ dropped' = (dropped \/ Unsaved)
    /\ UNCHANGED <<disk, texts>>

AnswerConfirm ==
    /\ editor.confirm
    /\ \/ /\ editor' = [editor EXCEPT !.confirm = FALSE]
          /\ UNCHANGED <<editTabs, reading, writes, hasty>>
       \/ CloseTab
    /\ UNCHANGED <<disk, texts, editActs, dropped>>

EditInit ==
    /\ editTabs = <<>> /\ editor = Unmounted /\ reading = NoRead /\ writes = <<>>
    /\ disk \in {d \in [EditFiles -> 1 .. Cardinality(EditFiles)] : IsInjective(d)}
    /\ texts = 0 /\ editActs = 0 /\ hasty = FALSE /\ dropped = FALSE

EditNext ==
    \/ \E t \in EditTabs, f \in EditFiles : OpenTab(t, f)
    \/ \E t \in DOMAIN editTabs \cup {NoTab} : SwitchTab(t)
    \/ ReadFile \/ HearRead \/ Type
    \/ Save \/ SaveAs \/ OpenPicked
    \/ \E i \in DOMAIN writes : Pick(i) \/ WriteFile(i) \/ HearWrite(i)
    \/ RequestClose \/ AnswerConfirm

EditSpec == EditInit /\ [][EditNext]_editVars

-----------------------------------------------------------------------------
(* Properties.                                                             *)

\* A text shown as saved is the text of the file of the tab - unless the user did not
\* wait for a save, saved what was not loaded, or a failed save had written.
SavedIsSaved ==
    Mounted /\ ~hasty /\ ~editor.loading /\ ~editor.saving
        /\ editor.initial \notin {Null, Part} /\ ~Dirty
    => editor.text = disk[editTabs[editor.tab]]

\* The close button, Escape and "Open..." do not let unsaved text go without asking,
\* under the same proviso; a text only part of which was loaded was never the file's.
CloseAsks == hasty \/ ~dropped

\* The user's text is safe: shown as saved only when the file has it, and let go only
\* after asking.
TextIsSafe == SavedIsSaved /\ CloseAsks

\* When nothing is under way the view neither loads nor saves.
EditSettles == reading = NoRead /\ writes = <<>> => ~editor.loading /\ ~editor.saving

==============================================================================
