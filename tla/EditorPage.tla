------------------------------ MODULE EditorPage ------------------------------
(***************************************************************************)
(* The toolbar of the topology page: Save Version, History and Restore,    *)
(* the panel of a deleted device, and the canvas they act on.              *)
(*                                                                         *)
(* Handlers run on the server of the page and share one state dict; each   *)
(* waits for the browser and for the API, and none locks out another.  An  *)
(* answer replaces the whole canvas.  JavaScript is evaluated in the order *)
(* in which it is sent: it takes effect when it is sent, and its result    *)
(* comes later.  Autosave is here a single call at a time.                 *)
(***************************************************************************)
EXTENDS Naturals, Sequences

CONSTANTS Tasks,        \* handlers that may be under way
          MaxEdits,     \* bound on changes to the canvas
          MaxVersions,  \* bound on versions
          MaxToolbarClicks,  \* bound on clicks in the toolbar
          Nothing

VARIABLES log,      \* the canvases of the history entries; the last is current
          draft,    \* the personal draft: [v, c], or Nothing
          canvas,   \* [edits, ghost]: changes on the canvas, and whether it shows a ghost
          edits,    \* how many changes the user made
          window,   \* _htDiagramVersion and _htDraftVersion
          bar,      \* the diagram version in the state dict of the layout bar
          history,  \* [items, pick, selected]: entries known, the select box, selected_history_id
          dialog,   \* the entry that "Restore ..?" names, or 0
          task,     \* the handlers
          auto,     \* the autosave call: [at, c, base, dirty, suspended]
          origin,   \* the version whose answer the canvas came from
          unseen,   \* versions that were replaced by a canvas that never showed them
          mixed,    \* a save sent a version that an answer put in the dict after its canvas was read
          misled,   \* restores of another entry than the dialog named
          turned,   \* the selection changed under the dialog
          raced,    \* two writers of the draft or the canvas overlapped
          toolbarClicks   \* clicks in the toolbar so far

editorTables == <<log, draft>>
editorVars == <<editorTables, canvas, edits, window, bar, history, dialog, task, auto,
                origin, unseen, mixed, misled, turned, raced, toolbarClicks>>

Canvas == [edits : SUBSET (1..MaxEdits), ghost : BOOLEAN]
Drafts == [v : Nat, c : Canvas]
Known  == [v : 1..MaxVersions, d : Nat \cup {Nothing}]
Task   == [op : {"none", "save", "restore", "ghost"},
           at : {"none", "sync", "canvas", "sent", "done", "error", "refresh"},
           got : Nat, base : Nat, c : Canvas \cup {Nothing},
           from : Nat, entry : Nat, named : Nat]
NoTask == [op |-> "none", at |-> "none", got |-> 0, base |-> 0, c |-> Nothing,
           from |-> 0, entry |-> 0, named |-> 0]
AutosaveCall == [at : {"none", "sent", "stored", "refused"}, c : Canvas \cup {Nothing},
                 base : Nat \cup {Nothing}, dirty : BOOLEAN, suspended : BOOLEAN]
NoAutosave   == [at |-> "none", c |-> Nothing, base |-> Nothing,
                 dirty |-> FALSE, suspended |-> FALSE]
Current == Len(log)

ASSUME EditorAssumption ==
  /\ MaxEdits \in Nat /\ MaxToolbarClicks \in Nat /\ MaxVersions \in Nat \ {0, 1}
  /\ Nothing \notin Drafts

EditorTypeOK ==
  /\ log \in Seq(Canvas) /\ Current \in 1..MaxVersions
  /\ draft \in Drafts \cup {Nothing}
  /\ canvas \in Canvas /\ edits \in 0..MaxEdits
  /\ window \in Known /\ bar \in 1..Current
  /\ history \in [items : 0..Current, pick : 0..Current, selected : 0..Current]
  /\ dialog \in 0..Current
  /\ task \in [Tasks -> Task] /\ \A k \in Tasks : task[k].base <= Current
  /\ auto \in AutosaveCall
  /\ origin \in 1..Current /\ toolbarClicks \in 0..MaxToolbarClicks
  /\ turned \in BOOLEAN /\ raced \in BOOLEAN

\* Two saved versions, a deleted device on the second, the list fetched; no draft, or
\* one that shows what the version does.
EditorInit ==
  /\ log = <<[edits |-> {}, ghost |-> FALSE], [edits |-> {}, ghost |-> TRUE]>>
  /\ draft \in {Nothing, [v |-> 1, c |-> log[2]]}
  /\ canvas = log[2] /\ edits = 0
  /\ window = [v |-> 2, d |-> IF draft = Nothing THEN Nothing ELSE draft.v] /\ bar = 2
  /\ history = [items |-> 2, pick |-> 2, selected |-> 2] /\ dialog = 0
  /\ task = [k \in Tasks |-> NoTask] /\ auto = NoAutosave /\ origin = 2
  /\ unseen = {} /\ mixed = {} /\ misled = {} /\ turned = FALSE /\ raced = FALSE
  /\ toolbarClicks = 0

\* The user does one more thing in the toolbar.
CountClick == toolbarClicks < MaxToolbarClicks /\ toolbarClicks' = toolbarClicks + 1

Busy == \E k \in Tasks : task[k] # NoTask

-----------------------------------------------------------------------------
(* The canvas and its autosave.                                             *)

\* Any change, one that auto-layout makes included.
Edit ==
  /\ edits < MaxEdits
  /\ edits' = edits + 1 /\ canvas' = [canvas EXCEPT !.edits = @ \cup {edits'}]
  /\ auto' = [auto EXCEPT !.dirty = ~auto.suspended]
  /\ raced' = (raced \/ Busy)
  /\ UNCHANGED <<editorTables, window, bar, history, dialog, task, origin, unseen, mixed, misled, turned, toolbarClicks>>

AutosaveSends ==
  /\ auto.at = "none" /\ auto.dirty /\ ~auto.suspended
  /\ auto' = [auto EXCEPT !.at = "sent", !.c = canvas, !.base = window.d, !.dirty = FALSE]
  /\ raced' = (raced \/ Busy)
  /\ UNCHANGED <<editorTables, canvas, edits, window, bar, history, dialog, task, origin,
                 unseen, mixed, misled, turned, toolbarClicks>>

AutosaveServed ==
  LET ok == draft = Nothing \/ auto.base = Nothing \/ auto.base = draft.v
      v == IF draft = Nothing THEN 1 ELSE draft.v + 1
  IN /\ auto.at = "sent"
     /\ auto' = [auto EXCEPT !.at = IF ok THEN "stored" ELSE "refused", !.base = v]
     /\ draft' = IF ok THEN [v |-> v, c |-> auto.c] ELSE draft
     /\ UNCHANGED <<log, canvas, edits, window, bar, history, dialog, task, origin,
                    unseen, mixed, misled, turned, raced, toolbarClicks>>

AutosaveAnswered ==
  /\ auto.at \in {"stored", "refused"}
  /\ IF auto.at = "stored"
     THEN /\ window' = [window EXCEPT !.d = auto.base]
          /\ auto' = [NoAutosave EXCEPT !.dirty = auto.dirty]
     ELSE /\ auto' = [NoAutosave EXCEPT !.dirty = TRUE, !.suspended = TRUE]
          /\ UNCHANGED window
  /\ UNCHANGED <<editorTables, canvas, edits, bar, history, dialog, task, origin,
                 unseen, mixed, misled, turned, raced, toolbarClicks>>

-----------------------------------------------------------------------------
(* History: the list, the selection, the dialog.                            *)

\* normalize_history_selection, first of the select box, then of the dict.
ResolveSelected(h) ==
  IF h.pick \in 1..h.items THEN h.pick
  ELSE IF h.selected \in 1..h.items THEN h.selected ELSE 0

\* _refresh_history: what was selected stays, else the current version.
Refreshed(h) ==
  LET keep == IF h.selected \in 1..Current THEN h.selected ELSE Current
  IN [items |-> Current, pick |-> keep, selected |-> keep]

\* A list that could not be fetched is an empty one, and nothing is selected.
NoHistory == [items |-> 0, pick |-> 0, selected |-> 0]
Fetched(h) == {Refreshed(h), NoHistory}

\* The dialog was opened, and what it will restore is not what it named any more.
Turns(h) ==
  \E i \in {dialog} \cup {task[k].named : k \in Tasks} : i # 0 /\ ResolveSelected(h) # i

OpenHistory ==
  /\ CountClick
  /\ history' \in Fetched(history) \ {history}
  /\ turned' = (turned \/ Turns(history'))
  /\ UNCHANGED <<editorTables, canvas, edits, window, bar, dialog, task, auto, origin,
                 unseen, mixed, misled, raced>>

OnHistorySelect ==
  \E i \in 1..history.items :
    /\ CountClick /\ dialog = 0
    /\ history' = [history EXCEPT !.pick = i, !.selected = i] /\ history' # history
    /\ turned' = (turned \/ Turns(history'))
    /\ UNCHANGED <<editorTables, canvas, edits, window, bar, dialog, task, auto, origin,
                   unseen, mixed, misled, raced>>

\* The newest entry that the list holds was current when it was fetched.
OnRestore ==
  LET i == ResolveSelected(history)
  IN /\ CountClick /\ i # 0 /\ i # history.items /\ dialog = 0
     /\ dialog' = i /\ history' = [history EXCEPT !.selected = i]
     /\ UNCHANGED <<editorTables, canvas, edits, window, bar, task, auto, origin,
                    unseen, mixed, misled, turned, raced>>

DismissDialog ==
  /\ dialog # 0 /\ dialog' = 0
  /\ UNCHANGED <<editorTables, canvas, edits, window, bar, history, task, auto, origin,
                 unseen, mixed, misled, turned, raced, toolbarClicks>>

-----------------------------------------------------------------------------
(* The handlers.                                                            *)

\* A handler that starts while the autosave is at work, or beside another, races with it.
Begin(k, t) ==
  /\ CountClick /\ task[k] = NoTask
  /\ task' = [task EXCEPT ![k] = t]
  /\ raced' = (raced \/ Busy \/ auto.at # "none")

\* _sync_state_from_window, first half: what the window holds is on its way.
ConfirmSave(k) ==
  /\ Begin(k, [NoTask EXCEPT !.op = "save", !.at = "sync", !.got = window.v])
  /\ UNCHANGED <<editorTables, canvas, edits, window, bar, history, dialog, auto, origin,
                 unseen, mixed, misled, turned>>

ConfirmRestore(k) ==
  /\ dialog # 0
  /\ Begin(k, [NoTask EXCEPT !.op = "restore", !.at = "sync", !.got = window.v, !.named = dialog])
  /\ UNCHANGED <<editorTables, canvas, edits, window, bar, history, dialog, auto, origin,
                 unseen, mixed, misled, turned>>

\* Recreate or map: the version is read from the window, the dict is not used.
Reconcile(k) ==
  /\ canvas.ghost
  /\ Begin(k, [NoTask EXCEPT !.op = "ghost", !.at = "sync", !.got = window.v])
  /\ UNCHANGED <<editorTables, canvas, edits, window, bar, history, dialog, auto, origin,
                 unseen, mixed, misled, turned>>

\* The dict is written; getCanvasJson is sent.
SaveSynced(k) ==
  /\ task[k].op = "save" /\ task[k].at = "sync"
  /\ bar' = task[k].got
  /\ task' = [task EXCEPT ![k].at = "canvas", ![k].c = canvas, ![k].from = origin]
  /\ UNCHANGED <<editorTables, canvas, edits, window, history, dialog, auto, origin,
                 unseen, mixed, misled, turned, raced, toolbarClicks>>

\* The version of the request is what the dict holds when the canvas has come.
RequestSaveVersion(k) ==
  /\ task[k].op = "save" /\ task[k].at = "canvas"
  /\ task' = [task EXCEPT ![k].at = "sent", ![k].base = bar]
  /\ mixed' = IF bar = task[k].got THEN mixed ELSE mixed \cup {bar}
  /\ UNCHANGED <<editorTables, canvas, edits, window, bar, history, dialog, auto, origin,
                 unseen, misled, turned, raced, toolbarClicks>>

\* The selection is resolved when the window has answered, not when the dialog opened.
RequestRestoreVersion(k) ==
  LET i == ResolveSelected(history)
  IN /\ task[k].op = "restore" /\ task[k].at = "sync"
     /\ bar' = task[k].got
     /\ IF i = 0
        THEN task' = [task EXCEPT ![k] = NoTask] /\ UNCHANGED <<history, misled>>
        ELSE /\ task' = [task EXCEPT ![k].at = "sent", ![k].base = bar', ![k].entry = i]
             /\ history' = [history EXCEPT !.selected = i]
             /\ misled' = IF i = task[k].named THEN misled ELSE misled \cup {<<task[k].named, i>>}
     /\ UNCHANGED <<editorTables, canvas, edits, window, dialog, auto, origin,
                    unseen, mixed, turned, raced, toolbarClicks>>

PostReconcile(k) ==
  /\ task[k].op = "ghost" /\ task[k].at = "sync"
  /\ task' = [task EXCEPT ![k].at = "sent", ![k].base = task[k].got]
  /\ UNCHANGED <<editorTables, canvas, edits, window, bar, history, dialog, auto, origin,
                 unseen, mixed, misled, turned, raced, toolbarClicks>>

\* Variant: a version that is newer than the request's is no conflict.
VersionMatchesNewer(base) == base <= Current
VersionMatches(base) == base = Current

\* Variant: the draft survives the version that was made of it.
DraftAfterKept == draft
DraftAfter == Nothing

NewVersion(t) ==
  CASE t.op = "save" -> t.c
    [] t.op = "restore" -> log[t.entry]
    [] t.op = "ghost" -> [log[Current] EXCEPT !.ghost = FALSE]

Served(k) ==
  LET t == task[k]
  IN /\ t.at = "sent"
     /\ IF VersionMatches(t.base)
        THEN /\ Current < MaxVersions
             /\ log' = Append(log, NewVersion(t)) /\ draft' = DraftAfter
             /\ task' = [task EXCEPT ![k].at = "done", ![k].base = Current + 1, ![k].c = NewVersion(t)]
             /\ unseen' = IF t.op # "save" \/ t.from = Current THEN unseen ELSE unseen \cup {Current}
             /\ raced' = (raced \/ auto.at # "none" \/ draft' # DraftAfter)
        ELSE /\ task' = [task EXCEPT ![k].at = "error"]
             /\ UNCHANGED <<log, draft, unseen, raced>>
     /\ UNCHANGED <<canvas, edits, window, bar, history, dialog, auto, origin,
                    mixed, misled, turned, toolbarClicks>>

\* The answer, or the request, is lost: a toast is all there is.
Lost(k) ==
  /\ task[k].at \in {"sent", "done", "error"}
  /\ task' = [task EXCEPT ![k] = NoTask]
  /\ raced' = (raced \/ task[k].at = "done")
  /\ UNCHANGED <<editorTables, canvas, edits, window, bar, history, dialog, auto, origin,
                 unseen, mixed, misled, turned, toolbarClicks>>

Refused(k) ==
  /\ task[k].at = "error" /\ task' = [task EXCEPT ![k] = NoTask]
  /\ UNCHANGED <<editorTables, canvas, edits, window, bar, history, dialog, auto, origin,
                 unseen, mixed, misled, turned, raced, toolbarClicks>>

\* apply_history_response, the window, and applyTopologySnapshot.
TaskAnswered(k) ==
  LET t == task[k]
      now == [v |-> t.base, d |-> Nothing]
  IN /\ t.at = "done"
     /\ window' = now /\ canvas' = t.c /\ origin' = t.base
     /\ IF t.op = "ghost"
        THEN task' = [task EXCEPT ![k] = NoTask] /\ UNCHANGED <<bar, history>>
        ELSE /\ bar' = t.base /\ history' = [history EXCEPT !.selected = t.base]
             /\ task' = [task EXCEPT ![k].at = "refresh"]
     /\ turned' = (turned \/ Turns(history'))
     /\ UNCHANGED <<editorTables, edits, dialog, auto, unseen, mixed, misled, raced, toolbarClicks>>

\* The list is fetched again; a restore closes its dialog.
HistoryRefreshed(k) ==
  /\ task[k].at = "refresh"
  /\ history' \in Fetched(history)
  /\ dialog' = IF task[k].op = "restore" THEN 0 ELSE dialog
  /\ turned' = (turned \/ Turns(history'))
  /\ task' = [task EXCEPT ![k] = NoTask]
  /\ UNCHANGED <<editorTables, canvas, edits, window, bar, auto, origin, unseen, mixed, misled, raced, toolbarClicks>>

\* The same user draws on in another tab, whose autosave stores a draft of its own.
OtherTabSaves ==
  /\ draft # Nothing /\ draft.v < MaxEdits + 1
  /\ draft' = [draft EXCEPT !.v = @ + 1] /\ raced' = TRUE
  /\ UNCHANGED <<log, canvas, edits, window, bar, history, dialog, task, auto, origin,
                 unseen, mixed, misled, turned, toolbarClicks>>

\* Another user saves a version.
OtherSaves ==
  /\ Current < MaxVersions
  /\ log' = Append(log, log[Current]) /\ raced' = TRUE
  /\ UNCHANGED <<draft, canvas, edits, window, bar, history, dialog, task, auto, origin,
                 unseen, mixed, misled, turned, toolbarClicks>>

Step(k) ==
  \/ ConfirmSave(k) \/ ConfirmRestore(k) \/ Reconcile(k)
  \/ SaveSynced(k) \/ RequestSaveVersion(k) \/ RequestRestoreVersion(k) \/ PostReconcile(k)
  \/ Served(k) \/ Lost(k) \/ Refused(k) \/ TaskAnswered(k) \/ HistoryRefreshed(k)

EditorNext ==
  \/ Edit \/ AutosaveSends \/ AutosaveServed \/ AutosaveAnswered
  \/ OpenHistory \/ OnHistorySelect \/ OnRestore \/ DismissDialog
  \/ \E k \in Tasks : Step(k)
  \/ OtherTabSaves \/ OtherSaves

EditorSpec == EditorInit /\ [][EditorNext]_editorVars

-----------------------------------------------------------------------------
(* Properties.                                                              *)

\* A save replaces no version that its canvas was not made from, whichever handlers overlap,
\* but for one: the version that an answer wrote into the dict while the canvas was on its way.
NothingUnseenIsReplaced == unseen \subseteq mixed

\* What was restored is what the dialog asked about, unless the selection changed under it.
RestoresWhatWasAsked == misled # {} => turned
\* Does not hold.  topology_layout_bar.py: "Restore '..' as the latest version?"
RestoresTheNamed == misled = {}

\* When nothing is under way, the canvas is what a reload would show: the draft, or else the
\* current version, if no two writers overlapped.
Quiet == ~Busy /\ auto.at = "none" /\ ~auto.dirty
Reloaded == IF draft = Nothing THEN log[Current] ELSE draft.c
ReloadShowsTheSame == Quiet /\ ~raced => canvas = Reloaded

\* Saves from the toolbar replace no version that the canvas never showed, a restore
\* is of the version that was asked about, and a reload shows the same canvas
\* (topology_layout_bar.py).
EditorPageHolds ==
  EditorTypeOK /\ NothingUnseenIsReplaced /\ RestoresWhatWasAsked /\ ReloadShowsTheSame

-----------------------------------------------------------------------------
(* The inductive invariant.                                                 *)

\* What the page knows of versions is no newer than its canvas, and an answer that is
\* still to come is newer than all of it: so there is one of them at most.
TaskFits(t) ==
  /\ t.at \in {"sync", "canvas"} => t.got \in 1..origin
  /\ t.at = "canvas" => t.op = "save" /\ t.got <= t.from /\ t.from <= origin /\ t.c \in Canvas
  /\ t.at = "sent" =>
       /\ t.base <= origin
       /\ t.op = "save" => /\ t.from <= origin /\ t.c \in Canvas
                           /\ t.base \in mixed \/ t.base <= t.from
       /\ t.op = "restore" => t.entry \in 1..Current
       /\ t.op # "none"
  /\ t.at = "done" => origin < t.base /\ t.c \in Canvas

VersionsInv ==
  /\ window.v = origin /\ bar <= origin
  /\ \A k \in Tasks : TaskFits(task[k])
  /\ \A j, k \in Tasks : task[j].at = "done" /\ task[k].at = "done" => j = k
  /\ unseen \subseteq mixed
  /\ auto.at = "sent" => auto.c \in Canvas

\* What will be restored is what the dialog names, and what it named when it was confirmed.
DialogInv ==
  /\ misled # {} => turned
  /\ \A k \in Tasks : task[k].op = "restore" /\ task[k].at = "sync" => task[k].named # 0
  /\ ~turned =>
       /\ dialog # 0 => ResolveSelected(history) = dialog
       /\ \A k \in Tasks : task[k].op = "restore" /\ task[k].at = "sync" =>
            ResolveSelected(history) = task[k].named

\* One writer at a time.  An autosave quotes the draft that is stored; it carries the canvas
\* unless there are newer changes, and an answer of a version carries the current one.
OneWriter ==
  /\ \A j, k \in Tasks : task[j] # NoTask /\ task[k] # NoTask => j = k
  /\ Busy => auto.at = "none"
  /\ auto.at # "refused" /\ ~auto.suspended
  /\ auto.at = "none" /\ draft # Nothing => window.d \in {Nothing, draft.v}
  /\ auto.at = "sent" /\ draft # Nothing => auto.base \in {Nothing, draft.v}
  /\ auto.at = "stored" => draft # Nothing /\ draft = [v |-> auto.base, c |-> auto.c]
  /\ \A k \in Tasks : task[k].at = "done" => task[k].c = log[Current] /\ draft = Nothing
  /\ ~auto.dirty =>
       IF auto.at = "none"
       THEN (\A k \in Tasks : task[k].at # "done") => canvas = Reloaded
       ELSE canvas = auto.c

EditorInv ==
  /\ EditorTypeOK /\ VersionsInv /\ DialogInv
  /\ ~raced => OneWriter
=============================================================================
