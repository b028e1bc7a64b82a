----------------------------- MODULE EditToggle -----------------------------
(***************************************************************************)
(* The button that starts and stops editing.  It lives on the server, the  *)
(* mode in the browser: the button runs scripts there and waits for each.  *)
(* A script that is not answered in time counts as failed, and the button  *)
(* goes back, though the script may have run or may still run.  Stopping   *)
(* with drafts on the canvas asks first, in a dialog whose closing is      *)
(* heard as an event of its own, when the browser gets to it.              *)
(***************************************************************************)
EXTENDS Naturals, Sequences, FiniteSets

CONSTANTS MaxClicks   \* bound on the clicks of the button

VARIABLES state,    \* of the button: editing, locked, dialogOpen, releaseOnHide
          tasks,    \* what the server waits for, one task for each toggle under way
          queue,    \* scripts on their way to the browser
          shown,    \* the dialog is on the screen
          hides,    \* closings of the dialog that the server has not heard of, with
                    \* the click that each belongs to
          mode,     \* the mode of the canvas
          drafts,   \* there are draft devices on the canvas
          clicks,
          late,     \* ghost: a script was given up, or the closing of a dialog was
                    \* heard after what it had led to
          crossed   \* ghost: one toggle began before another had ended

toggleVars == <<state, tasks, queue, shown, hides, mode, drafts, clicks, late, crossed>>

Scripts == {"count", "edit", "flush", "view"}

ToggleTypeOK ==
  /\ state \in [editing : BOOLEAN, locked : BOOLEAN, dialogOpen : BOOLEAN, releaseOnHide : BOOLEAN]
  /\ tasks \subseteq [id : Nat, at : Scripts, confirmed : BOOLEAN]
  /\ queue \in Seq([script : Scripts, id : Nat])
  /\ hides \in Seq({"cancel", "confirm"} \X Nat)
  /\ mode \in {"edit", "view"} /\ clicks \in Nat
  /\ shown \in BOOLEAN /\ drafts \in BOOLEAN /\ late \in BOOLEAN /\ crossed \in BOOLEAN

ToggleInit ==
  /\ state = [editing |-> FALSE, locked |-> FALSE, dialogOpen |-> FALSE, releaseOnHide |-> TRUE]
  /\ tasks = {} /\ queue = <<>> /\ shown = FALSE /\ hides = <<>> /\ mode = "view"
  /\ drafts \in BOOLEAN /\ clicks = 0 /\ late = FALSE /\ crossed = FALSE

\* A task sends a script, as the toggle of one click, and waits for its answer.
Waits(others, id, at, confirmed) ==
  tasks' = others \cup {[id |-> id, at |-> at, confirmed |-> confirmed]}
Sends(rest, id, at) == queue' = Append(rest, [script |-> at, id |-> id])

Unlocks(s) == [s EXCEPT !.locked = FALSE]
\* At the end of a toggle: the lock stays for a dialog; after a confirmation it goes.
Ends(s, t) ==
  IF t.confirmed THEN Unlocks([s EXCEPT !.releaseOnHide = TRUE])
  ELSE IF s.dialogOpen THEN s ELSE Unlocks(s)

Click ==
  /\ ~state.locked /\ clicks < MaxClicks
  /\ clicks' = clicks + 1
  /\ crossed' = (crossed \/ tasks # {})
  /\ LET at == IF state.editing THEN "count" ELSE "edit"
     IN  /\ state' = [state EXCEPT !.locked = TRUE, !.editing = TRUE]
         /\ Waits(tasks, clicks', at, FALSE) /\ Sends(queue, clicks', at)
  /\ UNCHANGED <<shown, hides, mode, drafts, late>>

\* The count of drafts has come, or counts as none: stop, or ask first.
CountKnown(t, some, rest) ==
  IF some
  THEN /\ state' = [state EXCEPT !.dialogOpen = TRUE, !.releaseOnHide = TRUE]
       /\ shown' = TRUE /\ tasks' = tasks \ {t} /\ queue' = rest
  ELSE /\ state' = [state EXCEPT !.editing = FALSE]
       /\ Waits(tasks \ {t}, t.id, "flush", FALSE) /\ Sends(rest, t.id, "flush")
       /\ UNCHANGED shown

Answered(t, rest) ==
  \/ t.at = "count" /\ CountKnown(t, drafts, rest)
  \/ /\ t.at = "flush"
     /\ Waits(tasks \ {t}, t.id, "view", t.confirmed) /\ Sends(rest, t.id, "view")
     /\ UNCHANGED <<state, shown>>
  \/ /\ t.at \in {"edit", "view"}
     /\ state' = Ends(state, t) /\ tasks' = tasks \ {t} /\ queue' = rest
     /\ UNCHANGED shown

\* What the scripts do to the mode.
ModeAfter(script) == CASE script = "edit" -> "edit" [] script = "view" -> "view"
                       [] OTHER -> mode

\* The browser runs the next script; its answer arrives in time, or does not.
RunScript ==
  /\ queue # <<>>
  /\ LET h == Head(queue)
         waiting == {t \in tasks : t.id = h.id /\ t.at = h.script}
     IN  /\ mode' = ModeAfter(h.script)
         /\ \/ \E t \in waiting : Answered(t, Tail(queue))
            \/ /\ queue' = Tail(queue)
               /\ UNCHANGED <<state, tasks, shown>>
  /\ UNCHANGED <<hides, drafts, clicks, late, crossed>>

\* A script is given up: no count means no drafts; otherwise the button goes back.
GiveUp(t) ==
  /\ late' = TRUE
  /\ \/ t.at = "count" /\ CountKnown(t, FALSE, queue)
     \/ /\ t.at # "count"
        /\ state' = Ends([state EXCEPT !.editing = (t.at # "edit")], t)
        /\ tasks' = tasks \ {t}
        /\ UNCHANGED <<queue, shown>>
  /\ UNCHANGED <<hides, mode, drafts, clicks, crossed>>

\* Cancel, Escape or a click beside the dialog.
CloseDialog ==
  /\ shown /\ shown' = FALSE /\ hides' = Append(hides, <<"cancel", clicks>>)
  /\ UNCHANGED <<state, tasks, queue, mode, drafts, clicks, late, crossed>>

\* Continue; it does nothing when the dialog is held to be closed already.
ConfirmExit ==
  /\ shown
  /\ IF state.dialogOpen
     THEN /\ state' = [state EXCEPT !.dialogOpen = FALSE, !.releaseOnHide = FALSE,
                                    !.editing = FALSE]
          /\ shown' = FALSE /\ hides' = Append(hides, <<"confirm", clicks>>)
          /\ Waits(tasks, clicks, "flush", TRUE) /\ Sends(queue, clicks, "flush")
          /\ crossed' = (crossed \/ tasks # {})
     ELSE UNCHANGED <<state, shown, hides, tasks, queue, crossed>>
  /\ UNCHANGED <<mode, drafts, clicks, late>>

\* Variant: the lock goes with the dialog, whatever the answer to it was.
HiddenAlways(s) == Unlocks([s EXCEPT !.dialogOpen = FALSE, !.releaseOnHide = TRUE])

Hidden(s) ==
  LET u == [s EXCEPT !.dialogOpen = FALSE, !.releaseOnHide = TRUE]
  IN  IF s.releaseOnHide THEN Unlocks(u) ELSE u

HandleDialogHide ==
  /\ hides # <<>>
  /\ state' = Hidden(state)
  /\ hides' = Tail(hides)
  /\ late' = (late \/ \E id \in 1..clicks :
                 Head(hides) = <<"confirm", id>> /\ ~\E t \in tasks : t.confirmed /\ t.id = id)
  /\ UNCHANGED <<tasks, queue, shown, mode, drafts, clicks, crossed>>

DraftsChange ==
  /\ mode = "edit" /\ drafts' = ~drafts
  /\ UNCHANGED <<state, tasks, queue, shown, hides, mode, clicks, late, crossed>>

ToggleNext ==
  \/ Click \/ RunScript \/ \E t \in tasks : GiveUp(t)
  \/ CloseDialog \/ ConfirmExit \/ HandleDialogHide \/ DraftsChange

ToggleSpec == ToggleInit /\ [][ToggleNext]_toggleVars

-----------------------------------------------------------------------------
(* Properties.                                                              *)

\* As long as no script is given up and no closing is heard too late, the button
\* that can be clicked names the mode the canvas is in, and one toggle ends before
\* the next begins: the lock outlives the dialog exactly as long as it has to.
ButtonTellsMode ==
  ~late => /\ ~crossed
           /\ ~state.locked => /\ tasks = {} /\ queue = <<>>
                               /\ (state.editing <=> mode = "edit")

\* What the page asks of the button (topology_edit_toggle.py).
ButtonHolds == ToggleTypeOK /\ ButtonTellsMode
=============================================================================
