----------------------------- MODULE Pages_proofs -----------------------------
(***************************************************************************)
(* The switch between viewing and editing, the rest of the toolbar of the  *)
(* topology page, the table of the inventory page, and the panel of a      *)
(* device: for any number of clicks, handlers, versions, devices, loads    *)
(* and refreshes.                                                          *)
(***************************************************************************)
EXTENDS EditToggle, EditorPage, InventoryPage, DetailPanel, SequenceTheorems, TLAPS

(***************************************************************************)
(* The button tells the mode.                                              *)
(*                                                                         *)
(* As long as nothing was late, a toggle is in one of four phases, and     *)
(* what the server holds, what is on its way and what the browser shows    *)
(* agree on which.  A closing that was not heard when it should have been  *)
(* stays at the head of the queue: to hear it is to be late.               *)
(***************************************************************************)

Toggled(at, confirmed) == [id |-> clicks, at |-> at, confirmed |-> confirmed]

\* The closings still to be heard are these, or begin with one that comes too late.
Unheard(these, n) ==
  \/ hides = these
  \/ hides # <<>> /\ \E k \in 1..n : Head(hides) = <<"confirm", k>>

\* No toggle is under way.
Resting ==
  /\ ~state.locked /\ ~state.dialogOpen /\ ~shown /\ tasks = {} /\ queue = <<>>
  /\ (state.editing <=> mode = "edit") /\ Unheard(<<>>, clicks)

\* The script of the only task is on its way, or was not answered.
Runs(t, before) ==
  /\ tasks = {t}
  /\ \/ queue = <<>>
     \/ queue = <<[script |-> t.at, id |-> clicks]>> /\ mode = before

\* A toggle that nobody had to confirm.
Toggling ==
  /\ state.locked /\ ~state.dialogOpen /\ ~shown /\ clicks > 0
  /\ Unheard(<<>>, clicks - 1)
  /\ \/ state.editing  /\ Runs(Toggled("edit", FALSE), "view")
     \/ state.editing  /\ Runs(Toggled("count", FALSE), "edit")
     \/ ~state.editing /\ Runs(Toggled("flush", FALSE), "edit")
     \/ ~state.editing /\ Runs(Toggled("view", FALSE), "edit")

\* The dialog is open, or was cancelled and the server has not heard.
Asking ==
  /\ state.locked /\ state.dialogOpen /\ state.releaseOnHide /\ state.editing
  /\ mode = "edit" /\ tasks = {} /\ queue = <<>> /\ clicks > 0
  /\ Unheard(IF shown THEN <<>> ELSE << <<"cancel", clicks>> >>, clicks - 1)

\* The dialog was confirmed; the lock stays, whether the closing is heard or not.
Leaving ==
  /\ state.locked /\ ~state.dialogOpen /\ ~shown /\ ~state.editing /\ clicks > 0
  /\ \/ Runs(Toggled("flush", TRUE), "edit") \/ Runs(Toggled("view", TRUE), "edit")
  /\ \/ state.releaseOnHide  /\ Unheard(<<>>, clicks - 1)
     \/ ~state.releaseOnHide /\ Unheard(<< <<"confirm", clicks>> >>, clicks - 1)

Closings == {"cancel", "confirm"} \X Nat
\* The types that the phases rest on.
Typed ==
  /\ state \in [editing : BOOLEAN, locked : BOOLEAN, dialogOpen : BOOLEAN, releaseOnHide : BOOLEAN]
  /\ hides \in Seq(Closings) /\ clicks \in Nat
  /\ mode \in {"edit", "view"}
  /\ shown \in BOOLEAN /\ late \in BOOLEAN /\ crossed \in BOOLEAN

ToggleInv ==
  /\ Typed
  /\ ~late => ~crossed /\ (Resting \/ Toggling \/ Asking \/ Leaving)

-----------------------------------------------------------------------------
\* What the phases say of the button (topology_edit_toggle.py).
LEMMA InvTells == ToggleInv => ButtonTellsMode
  BY DEF ToggleInv, ButtonTellsMode, Resting, Toggling, Asking, Leaving

\* The page opens with the button at rest.
LEMMA InitRests == ToggleInit => ToggleInv
<1>1. ToggleInit => Typed
  <2>1. <<>> \in Seq(Closings)
    BY EmptySeq
  <2>2. ASSUME ToggleInit
        PROVE  state \in [editing : BOOLEAN, locked : BOOLEAN, dialogOpen : BOOLEAN,
                          releaseOnHide : BOOLEAN]
    BY <2>2 DEF ToggleInit
  <2>3. ASSUME ToggleInit
        PROVE  /\ clicks \in Nat /\ mode \in {"edit", "view"} /\ hides = <<>>
               /\ shown \in BOOLEAN /\ late \in BOOLEAN /\ crossed \in BOOLEAN
    BY <2>3 DEF ToggleInit
  <2> QED  BY <2>1, <2>2, <2>3 DEF Typed
<1>2. ToggleInit => Resting
  BY DEF ToggleInit, Resting, Unheard
<1> QED  BY <1>1, <1>2 DEF ToggleInit, ToggleInv

\* Closings are appended at the end, so that a late one stays at the head.
LEMMA HeadStays ==
  ASSUME NEW S, NEW s \in Seq(S), NEW e \in S
  PROVE  /\ Append(s, e) \in Seq(S) /\ Append(s, e) # <<>>
         /\ s = <<>> => Append(s, e) = <<e>>
         /\ s # <<>> => Head(Append(s, e)) = Head(s)
<1>1. /\ Append(s, e) \in Seq(S) /\ Append(s, e) # <<>> /\ Len(Append(s, e)) = Len(s) + 1
      /\ \A i \in 1..Len(s) : Append(s, e)[i] = s[i]
  BY AppendProperties
<1>2. s = <<>> => Append(s, e) = <<e>>
  OBVIOUS
<1>3. ASSUME s # <<>> PROVE Head(Append(s, e)) = Head(s)
  <2>1. 1 \in 1..Len(s)
    BY <1>3, EmptySeq, LenProperties
  <2> QED  BY <1>1, <2>1, HeadTailProperties
<1> QED  BY <1>1, <1>2, <1>3

\* Every step keeps the types.
LEMMA StepTyped == Typed /\ [ToggleNext]_toggleVars => Typed'
<1> SUFFICES ASSUME Typed, [ToggleNext]_toggleVars PROVE Typed'
  OBVIOUS
<1> USE DEF Typed
<1>1. CASE Click
  <2>1. UNCHANGED <<shown, hides, mode, drafts, late>> /\ clicks' = clicks + 1 /\ crossed' \in BOOLEAN
    BY <1>1 DEF Click
  <2>2. state' = [[state EXCEPT !.locked = TRUE] EXCEPT !.editing = TRUE]
    BY <1>1 DEF Click
  <2>3. state' \in [editing : BOOLEAN, locked : BOOLEAN, dialogOpen : BOOLEAN,
                    releaseOnHide : BOOLEAN]
    BY <2>2
  <2> QED  BY <2>1, <2>3
<1>2. CASE RunScript
  <2>1. /\ UNCHANGED <<hides, clicks, late, crossed>>
        /\ mode' \in {"edit", "view"}
    BY <1>2 DEF RunScript, ModeAfter
  <2>2. state' \in [editing : BOOLEAN, locked : BOOLEAN, dialogOpen : BOOLEAN,
                    releaseOnHide : BOOLEAN] /\ shown' \in BOOLEAN
    BY <1>2 DEF RunScript, Answered, CountKnown, Ends, Unlocks
  <2> QED  BY <2>1, <2>2
<1>3. CASE \E t \in tasks : GiveUp(t)
  BY <1>3 DEF GiveUp, CountKnown, Ends, Unlocks
<1>4. CASE CloseDialog
  <2>1. <<"cancel", clicks>> \in Closings
    BY DEF Closings
  <2>2. hides' \in Seq(Closings)
    <3>1. hides' = Append(hides, <<"cancel", clicks>>)
      BY <1>4 DEF CloseDialog
    <3>2. Append(hides, <<"cancel", clicks>>) \in Seq(Closings)
      BY <2>1, HeadStays
    <3> QED  BY <3>1, <3>2
  <2> QED  BY <1>4, <2>2 DEF CloseDialog
<1>5. CASE ConfirmExit
  <2>1. <<"confirm", clicks>> \in Closings
    BY DEF Closings
  <2>2. hides' \in Seq(Closings)
    <3>1. hides' = hides \/ hides' = Append(hides, <<"confirm", clicks>>)
      BY <1>5 DEF ConfirmExit
    <3>2. Append(hides, <<"confirm", clicks>>) \in Seq(Closings)
      BY <2>1, HeadStays
    <3>3. CASE hides' = hides
      BY <3>3
    <3>4. CASE hides' = Append(hides, <<"confirm", clicks>>)
      BY <3>2, <3>4
    <3> QED  BY <3>1, <3>3, <3>4
  <2> QED  BY <1>5, <2>2 DEF ConfirmExit
<1>6. CASE HandleDialogHide
  <2>1. Tail(hides) \in Seq(Closings)
    BY <1>6, HeadTailProperties DEF HandleDialogHide
  <2> QED  BY <1>6, <2>1 DEF HandleDialogHide, Hidden, Unlocks
<1>7. CASE DraftsChange
  BY <1>7 DEF DraftsChange
<1>8. CASE UNCHANGED toggleVars
  BY <1>8 DEF toggleVars
<1> QED  BY <1>1, <1>2, <1>3, <1>4, <1>5, <1>6, <1>7, <1>8 DEF ToggleNext

-----------------------------------------------------------------------------
\* A click starts a toggle: only a button at rest can be clicked.
LEMMA ClickSteps ==
  ASSUME Typed, Resting \/ Toggling \/ Asking \/ Leaving, Click
  PROVE  Toggling' /\ crossed' = crossed
<1>1. Resting
  BY DEF Click, Toggling, Asking, Leaving
<1>2. clicks \in Nat /\ clicks' = clicks + 1 /\ mode' = mode /\ mode \in {"edit", "view"}
  BY DEF Click, Typed
<1>3. Unheard(<<>>, clicks - 1)'
  BY <1>1, <1>2 DEF Click, Resting, Unheard
<1>4. /\ state'.locked /\ state'.editing /\ ~state'.dialogOpen /\ ~shown'
      /\ crossed' = crossed
  BY <1>1 DEF Click, Resting, Typed
<1>5. IF state.editing THEN Runs(Toggled("count", FALSE), "edit")' ELSE Runs(Toggled("edit", FALSE), "view")'
  <2> DEFINE at == IF state.editing THEN "count" ELSE "edit"
  <2>1. tasks' = {[id |-> clicks', at |-> at, confirmed |-> FALSE]}
    BY <1>1 DEF Click, Resting, Waits
  <2>2. queue' = <<[script |-> at, id |-> clicks']>>
    BY <1>1 DEF Click, Resting, Sends
  <2> QED  BY <1>1, <1>2, <2>1, <2>2 DEF Resting, Runs, Toggled
<1>6. state'.editing
  BY <1>4
<1>7. clicks' > 0
  BY <1>2
<1> QED  BY <1>3, <1>4, <1>5, <1>6, <1>7 DEF Toggling

\* What a script that runs leaves alone, and its answer or the loss of it.
LEMMA RunFrame ==
  ASSUME NEW t, NEW before, Runs(t, before), t.id = clicks, RunScript
  PROVE  /\ UNCHANGED <<hides, clicks, late, crossed>>
         /\ mode = before /\ mode' = ModeAfter(t.at)
         /\ \/ queue' = <<>> /\ UNCHANGED <<state, tasks, shown>>
            \/ Answered(t, <<>>)
         /\ tasks = {t} /\ tasks \ {t} = {}
<1>1. queue = <<[script |-> t.at, id |-> clicks]>> /\ mode = before /\ tasks = {t}
  BY DEF Runs, RunScript
<1>2. Head(queue) = [script |-> t.at, id |-> clicks] /\ Tail(queue) = <<>>
  BY <1>1
<1>3. UNCHANGED <<hides, clicks, late, crossed>> /\ mode' = ModeAfter(t.at)
  BY <1>2 DEF RunScript
<1>4. \/ queue' = <<>> /\ UNCHANGED <<state, tasks, shown>>
      \/ \E x \in tasks : Answered(x, <<>>)
  BY <1>2 DEF RunScript
<1> QED  BY <1>1, <1>3, <1>4

\* The closings that are still to be heard stay what they are.
LEMMA UnheardStays ==
  ASSUME NEW these, NEW n, Unheard(these, n), UNCHANGED hides
  PROVE  Unheard(these, n)'
  BY DEF Unheard

\* A script that is not answered leaves its toggle waiting.
LEMMA RunsStays ==
  ASSUME NEW t, NEW before, Runs(t, before), queue' = <<>>, UNCHANGED <<tasks, clicks>>
  PROVE  Runs(t, before)'
  BY DEF Runs

\* The next script of a toggle is on its way.
LEMMA RunsNext ==
  ASSUME NEW at, NEW c, NEW before, UNCHANGED clicks, mode' = before,
         Waits({}, clicks, at, c), Sends(<<>>, clicks, at)
  PROVE  Runs(Toggled(at, c), before)'
  BY DEF Runs, Toggled, Waits, Sends

\* A script that runs takes its toggle one step further, or is not answered.
LEMMA RunSteps ==
  ASSUME Typed, Resting \/ Toggling \/ Asking \/ Leaving, RunScript
  PROVE  Resting' \/ Toggling' \/ Asking' \/ Leaving'
<1> DEFINE Vanished == queue' = <<>> /\ UNCHANGED <<state, tasks, shown>>
<1>1. \A at, c : /\ Toggled(at, c).id = clicks /\ Toggled(at, c).at = at
                 /\ Toggled(at, c).confirmed = c
  BY DEF Toggled
<1>2. UNCHANGED <<hides, clicks>>
  BY DEF RunScript
<1>3. \A at, c : Toggled(at, c)' = Toggled(at, c)
  BY <1>2 DEF Toggled
<1>4. CASE Vanished /\ Toggling
  BY <1>2, <1>3, <1>4, RunsStays, UnheardStays DEF Toggling
<1>5. CASE Vanished /\ Leaving
  BY <1>2, <1>3, <1>5, RunsStays, UnheardStays DEF Leaving
<1>6. CASE Toggling /\ state.editing /\ Runs(Toggled("edit", FALSE), "view") /\ ~Vanished
  <2>1. /\ Answered(Toggled("edit", FALSE), <<>>) /\ mode' = "edit" /\ tasks \ {Toggled("edit", FALSE)} = {}
    BY <1>1, <1>2, <1>6, RunFrame DEF ModeAfter, Toggled
  <2>2. state' = Ends(state, Toggled("edit", FALSE)) /\ tasks' = {} /\ queue' = <<>> /\ shown' = shown
    BY <1>1, <2>1 DEF Answered, Toggled
  <2>3. ~state'.locked /\ ~state'.dialogOpen /\ state'.editing
    BY <1>1, <1>6, <2>2 DEF Typed, Ends, Unlocks, Toggling, Leaving
  <2>4. Unheard(<<>>, clicks)
    BY <1>6 DEF Toggling, Unheard, Typed
  <2> QED  BY <1>2, <1>6, <2>1, <2>2, <2>3, <2>4, UnheardStays DEF Resting, Toggling
<1>7. CASE Toggling /\ state.editing /\ Runs(Toggled("count", FALSE), "edit") /\ ~Vanished
  <2>1. /\ Answered(Toggled("count", FALSE), <<>>) /\ mode' = "edit"
        /\ tasks \ {Toggled("count", FALSE)} = {}
    BY <1>1, <1>2, <1>7, RunFrame DEF ModeAfter, Toggled
  <2>2. CountKnown(Toggled("count", FALSE), drafts, <<>>)
    BY <1>1, <2>1 DEF Answered, Toggled
  <2>3. CASE drafts
    <3>1. /\ state' = [state EXCEPT !.dialogOpen = TRUE, !.releaseOnHide = TRUE]
          /\ shown' = TRUE /\ tasks' = {} /\ queue' = <<>>
      BY <2>1, <2>2, <2>3 DEF CountKnown
    <3>2. state'.locked /\ state'.dialogOpen /\ state'.releaseOnHide /\ state'.editing
      BY <1>7, <3>1 DEF Toggling, Typed
    <3>3. Unheard(<<>>, clicks - 1)'
      BY <1>2, <1>7, UnheardStays DEF Toggling
    <3> QED  BY <1>2, <1>7, <2>1, <3>1, <3>2, <3>3 DEF Toggling, Asking
  <2>4. CASE ~drafts
    <3>1. /\ state' = [state EXCEPT !.editing = FALSE] /\ shown' = shown
          /\ Waits({}, clicks, "flush", FALSE) /\ Sends(<<>>, clicks, "flush")
      BY <1>1, <2>1, <2>2, <2>4 DEF CountKnown
    <3>2. Runs(Toggled("flush", FALSE), "edit")'
      BY <1>2, <2>1, <3>1, RunsNext
    <3>3. state'.locked /\ ~state'.dialogOpen /\ ~state'.editing
      BY <1>7, <3>1 DEF Toggling, Typed
    <3> QED  BY <1>2, <1>7, <3>1, <3>2, <3>3, UnheardStays DEF Toggling
  <2> QED  BY <2>3, <2>4
<1>8. CASE Toggling /\ ~state.editing /\ Runs(Toggled("flush", FALSE), "edit") /\ ~Vanished
  <2>1. /\ Answered(Toggled("flush", FALSE), <<>>) /\ mode' = "edit"
        /\ tasks \ {Toggled("flush", FALSE)} = {}
    BY <1>1, <1>2, <1>8, RunFrame DEF ModeAfter, Toggled
  <2>2. /\ Waits({}, clicks, "view", FALSE) /\ Sends(<<>>, clicks, "view")
        /\ UNCHANGED <<state, shown>>
    BY <1>1, <2>1 DEF Answered, Toggled
  <2>3. Runs(Toggled("view", FALSE), "edit")'
    BY <1>2, <2>1, <2>2, RunsNext
  <2> QED  BY <1>2, <1>8, <2>2, <2>3, UnheardStays DEF Toggling
<1>9. CASE Toggling /\ ~state.editing /\ Runs(Toggled("view", FALSE), "edit") /\ ~Vanished
  <2>1. /\ Answered(Toggled("view", FALSE), <<>>) /\ mode' = "view" /\ tasks \ {Toggled("view", FALSE)} = {}
    BY <1>1, <1>2, <1>9, RunFrame DEF ModeAfter, Toggled
  <2>2. state' = Ends(state, Toggled("view", FALSE)) /\ tasks' = {} /\ queue' = <<>> /\ shown' = shown
    BY <1>1, <2>1 DEF Answered, Toggled
  <2>3. ~state'.locked /\ ~state'.dialogOpen /\ ~state'.editing
    BY <1>1, <1>9, <2>2 DEF Typed, Ends, Unlocks, Toggling, Leaving
  <2>4. Unheard(<<>>, clicks)
    BY <1>9 DEF Toggling, Unheard, Typed
  <2> QED  BY <1>2, <1>9, <2>1, <2>2, <2>3, <2>4, UnheardStays DEF Resting, Toggling
<1>10. CASE Leaving /\ Runs(Toggled("flush", TRUE), "edit") /\ ~Vanished
  <2>1. /\ Answered(Toggled("flush", TRUE), <<>>) /\ mode' = "edit"
        /\ tasks \ {Toggled("flush", TRUE)} = {}
    BY <1>1, <1>2, <1>10, RunFrame DEF ModeAfter, Toggled
  <2>2. /\ Waits({}, clicks, "view", TRUE) /\ Sends(<<>>, clicks, "view")
        /\ UNCHANGED <<state, shown>>
    BY <1>1, <2>1 DEF Answered, Toggled
  <2>3. Runs(Toggled("view", TRUE), "edit")'
    BY <1>2, <2>1, <2>2, RunsNext
  <2> QED  BY <1>2, <1>10, <2>2, <2>3, UnheardStays DEF Leaving
<1>11. CASE Leaving /\ Runs(Toggled("view", TRUE), "edit") /\ ~Vanished
  <2>1. /\ Answered(Toggled("view", TRUE), <<>>) /\ mode' = "view" /\ tasks \ {Toggled("view", TRUE)} = {}
    BY <1>1, <1>2, <1>11, RunFrame DEF ModeAfter, Toggled
  <2>2. state' = Ends(state, Toggled("view", TRUE)) /\ tasks' = {} /\ queue' = <<>> /\ shown' = shown
    BY <1>1, <2>1 DEF Answered, Toggled
  <2>3. ~state'.locked /\ ~state'.dialogOpen /\ ~state'.editing
    BY <1>1, <1>11, <2>2 DEF Typed, Ends, Unlocks, Toggling, Leaving
  <2>4. Unheard(<<>>, clicks)
    <3>1. Unheard(<<>>, clicks - 1) => Unheard(<<>>, clicks)
      BY DEF Unheard, Typed
    <3>2. Unheard(<< <<"confirm", clicks>> >>, clicks - 1) => Unheard(<<>>, clicks)
      BY <1>11 DEF Unheard, Typed, Leaving
    <3> QED  BY <1>11, <3>1, <3>2 DEF Leaving
  <2> QED  BY <1>2, <1>11, <2>1, <2>2, <2>3, <2>4, UnheardStays DEF Resting, Leaving
<1>12. Toggling \/ Leaving
  BY DEF RunScript, Resting, Asking
<1> QED
  BY <1>4, <1>5, <1>6, <1>7, <1>8, <1>9, <1>10, <1>11, <1>12 DEF Toggling, Leaving

\* Cancel is on its way to the server while the lock stays.
LEMMA CloseSteps ==
  ASSUME Typed, Resting \/ Toggling \/ Asking \/ Leaving, CloseDialog
  PROVE  Asking'
<1>1. Asking /\ shown
  BY DEF CloseDialog, Resting, Toggling, Leaving
<1>2. <<"cancel", clicks>> \in Closings
  BY DEF Typed, Closings
<1>3. /\ hides = <<>> => hides' = << <<"cancel", clicks>> >>
      /\ hides # <<>> => hides' # <<>> /\ Head(hides') = Head(hides)
  BY <1>2, HeadStays DEF CloseDialog, Typed
<1>4. Unheard(<<>>, clicks - 1)
  BY <1>1 DEF Asking
<1>5. Unheard(<< <<"cancel", clicks>> >>, clicks - 1)'
  BY <1>3, <1>4 DEF Unheard, CloseDialog
<1> QED  BY <1>1, <1>5 DEF Asking, CloseDialog

\* The confirmed toggle goes on while the closing is on its way.
LEMMA ConfirmSteps ==
  ASSUME Typed, Resting \/ Toggling \/ Asking \/ Leaving, ConfirmExit
  PROVE  Leaving' /\ crossed' = crossed
<1>1. Asking /\ shown
  BY DEF ConfirmExit, Resting, Toggling, Leaving
<1>2. <<"confirm", clicks>> \in Closings
  BY DEF Typed, Closings
<1>3. /\ hides = <<>> => hides' = << <<"confirm", clicks>> >>
      /\ hides # <<>> => hides' # <<>> /\ Head(hides') = Head(hides)
  BY <1>1, <1>2, HeadStays DEF ConfirmExit, Typed, Asking
<1>4. Unheard(<<>>, clicks - 1)
  BY <1>1 DEF Asking
<1>5. Unheard(<< <<"confirm", clicks>> >>, clicks - 1)'
  BY <1>3, <1>4 DEF Unheard, ConfirmExit
<1>6. /\ state'.locked /\ ~state'.dialogOpen /\ ~state'.releaseOnHide /\ ~state'.editing
      /\ ~shown' /\ crossed' = crossed /\ clicks' = clicks /\ clicks > 0
  BY <1>1 DEF ConfirmExit, Asking, Typed
<1>7. Runs(Toggled("flush", TRUE), "edit")'
  BY <1>1 DEF ConfirmExit, Asking, Runs, Toggled, Waits, Sends
<1> QED  BY <1>5, <1>6, <1>7 DEF Leaving

\* A closing that is heard in time frees the button after a cancel, and nothing
\* else; the others are late.
LEMMA HideSteps ==
  ASSUME Typed, Resting \/ Toggling \/ Asking \/ Leaving, HandleDialogHide, ~late'
  PROVE  Resting' \/ Leaving'
<1> USE DEF Typed
<1>1. \A id \in 1..clicks : Head(hides) = <<"confirm", id>> =>
        \E t \in tasks : t.confirmed /\ t.id = id
  BY DEF HandleDialogHide
<1>2. ASSUME NEW these, Unheard(these, clicks - 1) PROVE hides = these
  BY <1>1, <1>2 DEF Unheard, Resting, Toggling, Asking, Leaving, Runs, Toggled
<1>3. ~Resting /\ ~Toggling
  BY <1>1, <1>2 DEF HandleDialogHide, Resting, Toggling, Unheard
<1>4. CASE Asking
  BY <1>2, <1>4 DEF Asking, Resting, HandleDialogHide, Hidden, Unlocks, Unheard
<1>5. CASE Leaving
  BY <1>2, <1>5 DEF Leaving, HandleDialogHide, Hidden, Unheard, Runs, Toggled
<1> QED  BY <1>3, <1>4, <1>5

\* A script that is given up makes the rest late, and so does nothing for the phases.
LEMMA LateStays == Typed /\ [ToggleNext]_toggleVars /\ ~late' => ~late
<1> SUFFICES ASSUME Typed, [ToggleNext]_toggleVars, late PROVE late'
  BY DEF Typed
<1> QED
  BY DEF ToggleNext, toggleVars, Click, RunScript, GiveUp, CloseDialog, ConfirmExit, HandleDialogHide,
         DraftsChange

\* The invariant of the toggle is inductive.
LEMMA InvSteps == ToggleInv /\ [ToggleNext]_toggleVars => ToggleInv'
<1> SUFFICES ASSUME ToggleInv, [ToggleNext]_toggleVars, ~late'
             PROVE  ~crossed' /\ (Resting' \/ Toggling' \/ Asking' \/ Leaving')
  BY StepTyped DEF ToggleInv
<1>1. Typed /\ ~crossed /\ (Resting \/ Toggling \/ Asking \/ Leaving)
  BY LateStays DEF ToggleInv
<1>2. CASE Click
  BY <1>1, <1>2, ClickSteps
<1>3. CASE RunScript
  BY <1>1, <1>3, RunSteps DEF RunScript
<1>4. CASE \E t \in tasks : GiveUp(t)
  BY <1>4 DEF GiveUp
<1>5. CASE CloseDialog
  BY <1>1, <1>5, CloseSteps DEF CloseDialog
<1>6. CASE ConfirmExit
  BY <1>1, <1>6, ConfirmSteps
<1>7. CASE HandleDialogHide
  BY <1>1, <1>7, HideSteps DEF HandleDialogHide
<1>8. CASE DraftsChange \/ UNCHANGED toggleVars
  <2>1. UNCHANGED <<state, tasks, queue, shown, hides, mode, clicks, crossed>>
    BY <1>8 DEF DraftsChange, toggleVars
  <2> QED
    BY <1>1, <2>1 DEF Resting, Toggling, Asking, Leaving, Runs, Toggled, Unheard
<1> QED
  BY <1>2, <1>3, <1>4, <1>5, <1>6, <1>7, <1>8 DEF ToggleNext

-----------------------------------------------------------------------------
\* The tasks of the server and the scripts on their way keep their types as well.
LEMMA StepTypeOK == ToggleTypeOK /\ [ToggleNext]_toggleVars => ToggleTypeOK'
<1> SUFFICES ASSUME ToggleTypeOK, [ToggleNext]_toggleVars PROVE ToggleTypeOK'
  OBVIOUS
<1> DEFINE Waiting == [id : Nat, at : Scripts, confirmed : BOOLEAN]
           Sent    == [script : Scripts, id : Nat]
<1>1. Typed /\ tasks \subseteq Waiting /\ queue \in Seq(Sent) /\ clicks \in Nat
  BY DEF ToggleTypeOK, Typed, Closings
<1>2. Typed'
  BY <1>1, StepTyped
<1>3. ASSUME NEW others \in SUBSET Waiting, NEW id \in Nat, NEW at \in Scripts, NEW c \in BOOLEAN,
             Waits(others, id, at, c)
      PROVE  tasks' \subseteq Waiting
  BY <1>3 DEF Waits
<1>4. ASSUME NEW rest \in Seq(Sent), NEW id \in Nat, NEW at \in Scripts, Sends(rest, id, at)
      PROVE  queue' \in Seq(Sent)
  <2>1. [script |-> at, id |-> id] \in Sent
    OBVIOUS
  <2> QED  BY <1>4, <2>1, HeadStays DEF Sends
<1>5. {"count", "edit", "flush", "view"} \subseteq Scripts
  BY DEF Scripts
<1>6. ASSUME NEW t \in tasks, NEW some \in BOOLEAN, NEW rest \in Seq(Sent), CountKnown(t, some, rest)
      PROVE  tasks' \subseteq Waiting /\ queue' \in Seq(Sent)
  <2>1. t.id \in Nat /\ tasks \ {t} \subseteq Waiting
    BY <1>1
  <2>2. CASE some
    BY <1>6, <2>1, <2>2 DEF CountKnown
  <2>3. CASE ~some
    BY <1>3, <1>4, <1>5, <1>6, <2>1, <2>3 DEF CountKnown
  <2> QED  BY <2>2, <2>3
<1>7. clicks' \in Nat /\ drafts' \in BOOLEAN
  <2>1. drafts \in BOOLEAN
    BY DEF ToggleTypeOK
  <2>2. CASE Click
    <3>1. clicks' = clicks + 1 /\ drafts' = drafts
      BY <2>2 DEF Click
    <3> QED  BY <1>1, <2>1, <3>1
  <2>3. CASE DraftsChange
    BY <1>1, <2>3 DEF DraftsChange
  <2>4. CASE ~Click /\ ~DraftsChange
    <3>1. UNCHANGED <<clicks, drafts>>
      BY <2>4 DEF ToggleNext, toggleVars, RunScript, GiveUp, CloseDialog, ConfirmExit, HandleDialogHide
    <3> QED  BY <1>1, <2>1, <3>1
  <2> QED  BY <2>2, <2>3, <2>4
<1>8. tasks' \subseteq Waiting /\ queue' \in Seq(Sent)
  <2>1. CASE Click
    <3>1. clicks' \in Nat
      BY <1>7
    <3>2. \E at \in Scripts : Waits(tasks, clicks', at, FALSE) /\ Sends(queue, clicks', at)
      BY <1>5, <2>1 DEF Click
    <3> QED  BY <1>1, <1>3, <1>4, <3>1, <3>2
  <2>2. CASE RunScript
    <3>1. Tail(queue) \in Seq(Sent)
      BY <1>1, <2>2, HeadTailProperties DEF RunScript
    <3>2. CASE queue' = Tail(queue) /\ UNCHANGED tasks
      BY <1>1, <3>1, <3>2
    <3>3. CASE \E t \in tasks : Answered(t, Tail(queue))
      <4>1. PICK t \in tasks : Answered(t, Tail(queue))
        BY <3>3
      <4>2. /\ tasks \ {t} \in SUBSET Waiting /\ drafts \in BOOLEAN
            /\ t.id \in Nat /\ t.confirmed \in BOOLEAN
        BY <1>1 DEF ToggleTypeOK
      <4>3. CASE CountKnown(t, drafts, Tail(queue))
        BY <1>6, <3>1, <4>2, <4>3
      <4>4. CASE Waits(tasks \ {t}, t.id, "view", t.confirmed) /\ Sends(Tail(queue), t.id, "view")
        <5>1. tasks' \subseteq Waiting
          BY <1>3, <1>5, <4>2, <4>4
        <5>2. queue' \in Seq(Sent)
          BY <1>4, <1>5, <3>1, <4>2, <4>4
        <5> QED  BY <5>1, <5>2
      <4>5. CASE tasks' = tasks \ {t} /\ queue' = Tail(queue)
        BY <3>1, <4>2, <4>5
      <4> QED  BY <4>1, <4>3, <4>4, <4>5 DEF Answered
    <3> QED  BY <2>2, <3>2, <3>3 DEF RunScript
  <2>3. CASE \E t \in tasks : GiveUp(t)
    <3>1. PICK t \in tasks : GiveUp(t)
      BY <2>3
    <3>2. CASE CountKnown(t, FALSE, queue)
      BY <1>1, <1>6, <3>2
    <3>3. CASE tasks' = tasks \ {t} /\ UNCHANGED queue
      BY <1>1, <3>3
    <3> QED  BY <3>1, <3>2, <3>3 DEF GiveUp
  <2>4. CASE ConfirmExit
    <3>1. CASE UNCHANGED <<tasks, queue>>
      BY <1>1, <3>1
    <3>2. CASE Waits(tasks, clicks, "flush", TRUE) /\ Sends(queue, clicks, "flush")
      <4>1. clicks \in Nat /\ "flush" \in Scripts
        BY <1>1, <1>5
      <4>2. tasks' \subseteq Waiting
        BY <1>1, <1>3, <3>2, <4>1
      <4>3. queue' \in Seq(Sent)
        BY <1>1, <1>4, <3>2, <4>1
      <4> QED  BY <4>2, <4>3
    <3> QED  BY <2>4, <3>1, <3>2 DEF ConfirmExit
  <2>5. CASE CloseDialog \/ HandleDialogHide \/ DraftsChange \/ UNCHANGED toggleVars
    BY <1>1, <2>5 DEF CloseDialog, HandleDialogHide, DraftsChange, toggleVars
  <2> QED  BY <2>1, <2>2, <2>3, <2>4, <2>5 DEF ToggleNext
<1> QED  BY <1>2, <1>7, <1>8 DEF Typed, ToggleTypeOK, Closings

\* As long as nothing is late, a button that can be clicked names the mode of the canvas
\* and no toggle is under way, however often it is clicked (topology_edit_toggle.py).
THEOREM ButtonCorrect == ToggleSpec => []ButtonHolds
<1>1. ToggleSpec => []ToggleInv
  BY InitRests, InvSteps, PTL DEF ToggleSpec
<1>2. ToggleInit => ToggleTypeOK
  <2>1. <<>> \in Seq([script : Scripts, id : Nat]) /\ <<>> \in Seq(Closings)
    BY EmptySeq
  <2>2. ToggleInit => Typed
    BY InitRests DEF ToggleInv
  <2> QED  BY <2>1, <2>2 DEF ToggleInit, Typed, ToggleTypeOK, Closings
<1>3. ToggleSpec => []ToggleTypeOK
  BY <1>2, StepTypeOK, PTL DEF ToggleSpec
<1>4. ToggleTypeOK /\ ToggleInv => ButtonHolds
  BY InvTells DEF ButtonHolds
<1> QED  BY <1>1, <1>3, <1>4, PTL

-----------------------------------------------------------------------------
(***************************************************************************)
(* Save Version, History and Restore beside the autosave.                  *)
(*                                                                         *)
(* The window, the dict and every handler know versions that are no newer  *)
(* than the canvas, and an answer that is still to come is newer than all  *)
(* of them; so when the request of a save is the current version, its      *)
(* canvas is made from that version, or the dict was written meanwhile.    *)
(***************************************************************************)

LEMMA EditorRests ==
  /\ NoTask \in Task /\ NoTask.op = "none" /\ NoTask.at = "none"
  /\ NoAutosave \in AutosaveCall /\ NoAutosave.at = "none" /\ NoAutosave.suspended = FALSE
BY DEF NoTask, Task, NoAutosave, AutosaveCall

LEMMA Resolves ==
  /\ ResolveSelected(history)' = ResolveSelected(history')
  /\ EditorTypeOK => ResolveSelected(history) \in 0..history.items /\ history.items \in 0..Current
BY DEF ResolveSelected, EditorTypeOK

LEMMA CurrentIs == EditorTypeOK => Current \in Nat \ {0} /\ log[Current] \in Canvas
<1>1. SUFFICES ASSUME EditorTypeOK PROVE Current \in Nat \ {0} /\ log[Current] \in Canvas
  OBVIOUS
<1>2. log \in Seq(Canvas) /\ Current \in 1..MaxVersions
  BY <1>1 DEF EditorTypeOK
<1>3. Current \in Nat \ {0} /\ Current = Len(log)
  BY <1>2, EditorAssumption DEF Current
<1> QED BY <1>2, <1>3

\* Two versions that differ in the deleted device, nothing under way.
LEMMA EditorInitHolds == EditorInit => EditorInv
<1>1. SUFFICES ASSUME EditorInit PROVE EditorInv
  OBVIOUS
<1> DEFINE first == [edits |-> {}, ghost |-> FALSE]
           second == [edits |-> {}, ghost |-> TRUE]
<1>2. first \in Canvas /\ second \in Canvas
  BY DEF Canvas
<1>3. log = <<first, second>> /\ log \in Seq(Canvas) /\ Current = 2 /\ log[2] = second
  BY <1>1, <1>2 DEF EditorInit, Current
<1>0. draft \in {Nothing, [v |-> 1, c |-> log[2]]} /\ canvas = log[2]
  BY <1>1 DEF EditorInit
<1> HIDE DEF first, second
<1>4. draft \in Drafts \cup {Nothing} /\ (draft # Nothing => draft.v = 1 /\ draft.c = second)
  BY <1>2, <1>3, <1>0 DEF Drafts
<1>5. window \in Known /\ window.v = 2
  <2>1. 2 \in 1..MaxVersions
    BY EditorAssumption
  <2>2. (IF draft = Nothing THEN Nothing ELSE draft.v) \in Nat \cup {Nothing}
    BY <1>4 DEF Drafts
  <2> QED BY <1>1, <2>1, <2>2 DEF EditorInit, Known
<1>6. EditorTypeOK
  <2>1. canvas \in Canvas /\ history \in [items : 0..2, pick : 0..2, selected : 0..2]
    BY <1>1, <1>2, <1>3, <1>0 DEF EditorInit
  <2>2. task \in [Tasks -> Task] /\ \A k \in Tasks : task[k].base <= 2
    BY <1>1, EditorRests DEF EditorInit, NoTask
  <2>3. /\ edits = 0 /\ bar = 2 /\ dialog = 0 /\ auto = NoAutosave /\ origin = 2
        /\ toolbarClicks = 0 /\ turned = FALSE /\ raced = FALSE
    BY <1>1 DEF EditorInit
  <2>4. 2 \in 1..MaxVersions /\ 0 \in 0..MaxEdits /\ 0 \in 0..MaxToolbarClicks
    BY EditorAssumption
  <2>5. log \in Seq(Canvas) /\ Current = 2 /\ draft \in Drafts \cup {Nothing} /\ window \in Known
    BY <1>3, <1>4, <1>5
  <2>6. auto \in AutosaveCall /\ bar \in 1..2 /\ dialog \in 0..2 /\ origin \in 1..2
    BY <2>3, EditorRests
  <2> QED BY <2>1, <2>2, <2>3, <2>4, <2>5, <2>6 DEF EditorTypeOK
<1>7. VersionsInv
  BY <1>1, <1>5, EditorRests DEF EditorInit, VersionsInv, TaskFits
<1>8. DialogInv
  BY <1>1, EditorRests DEF EditorInit, DialogInv
<1>9. OneWriter
  <2>1. \A k \in Tasks : task[k] = NoTask
    BY <1>1 DEF EditorInit
  <2>2. auto = NoAutosave /\ canvas = second
    BY <1>1, <1>3, <1>0 DEF EditorInit
  <2>3. draft # Nothing => draft.c = second /\ window.d = draft.v
    BY <1>1, <1>4 DEF EditorInit
  <2> QED BY <1>3, <2>1, <2>2, <2>3, EditorRests DEF OneWriter, Busy, Reloaded, NoAutosave
<1> QED BY <1>6, <1>7, <1>8, <1>9 DEF EditorInv

-----------------------------------------------------------------------------
(* What a step leaves.                                                      *)

\* A task fits as long as the answers to come are newer than the page.
LEMMA FitsStill ==
  ASSUME NEW t \in Task, TaskFits(t), EditorTypeOK,
         origin' \in Nat, origin <= origin', mixed \subseteq mixed',
         Current' \in Nat, Current <= Current',
         t.at = "done" => origin' < t.base
  PROVE  TaskFits(t)'
<1>1. origin \in Nat /\ Current \in Nat /\ t.base \in Nat /\ t.from \in Nat
  BY CurrentIs DEF EditorTypeOK, Task
<1> QED BY <1>1 DEF TaskFits

\* No task moves.
LEMMA TasksStay ==
  ASSUME EditorInv, task' = task,
         UNCHANGED <<origin, mixed, unseen, bar>>, window'.v = window.v,
         Current' \in Nat, Current <= Current',
         auto'.at = "sent" => auto'.c \in Canvas
  PROVE  VersionsInv'
<1>1. EditorTypeOK /\ VersionsInv
  BY DEF EditorInv
<1>2. origin \in Nat /\ origin' = origin
  BY <1>1, CurrentIs DEF EditorTypeOK
<1>3. ASSUME NEW k \in Tasks PROVE TaskFits(task[k])'
  <2>1. PICK t \in Task : t = task[k]
    BY <1>1 DEF EditorTypeOK
  <2>2. TaskFits(t)
    BY <1>1, <2>1 DEF VersionsInv
  <2>3. t.at = "done" => origin' < t.base
    BY <1>2, <2>2 DEF TaskFits
  <2>4. TaskFits(t)'
    BY <1>1, <1>2, <2>2, <2>3, FitsStill
  <2>5. t = task'[k]
    BY <2>1
  <2> QED BY <2>4, <2>5 DEF TaskFits
<1> QED BY <1>1, <1>3 DEF VersionsInv

\* One task moves, to u.
LEMMA TaskMoves ==
  ASSUME EditorInv, NEW k \in Tasks, NEW u \in Task, task' = [task EXCEPT ![k] = u],
         TaskFits(u)',
         origin' \in Nat, origin <= origin', mixed \subseteq mixed',
         Current' \in Nat, Current <= Current',
         window'.v = origin', bar' <= origin', unseen' \subseteq mixed', auto' = auto,
         \A j \in Tasks : j # k /\ task[j].at = "done" =>
            u.at # "done" /\ origin' < task[j].base
  PROVE  VersionsInv'
<1>1. EditorTypeOK /\ VersionsInv
  BY DEF EditorInv
<1>2. task \in [Tasks -> Task]
  BY <1>1 DEF EditorTypeOK
<1>3. \A j \in Tasks : task'[j] = IF j = k THEN u ELSE task[j]
  BY <1>2
<1>4. ASSUME NEW j \in Tasks PROVE TaskFits(task[j])'
  <2>1. CASE j = k
    <3>1. u = task'[j]
      BY <1>3, <2>1
    <3> QED BY <3>1 DEF TaskFits
  <2>2. CASE j # k
    <3>1. PICK t \in Task : t = task[j]
      BY <1>2
    <3>2. TaskFits(t)
      BY <1>1, <3>1 DEF VersionsInv
    <3>3. t.at = "done" => origin' < t.base
      BY <2>2, <3>1
    <3>4. TaskFits(t)'
      BY <1>1, <3>2, <3>3, FitsStill
    <3>5. t = task'[j]
      BY <1>3, <2>2, <3>1
    <3> QED BY <3>4, <3>5 DEF TaskFits
  <2> QED BY <2>1, <2>2
<1>5. \A i, j \in Tasks : task'[i].at = "done" /\ task'[j].at = "done" => i = j
  BY <1>1, <1>3 DEF VersionsInv
<1>6. auto'.at = "sent" => auto'.c \in Canvas
  BY <1>1 DEF VersionsInv
<1> QED BY <1>4, <1>5, <1>6 DEF VersionsInv

\* What is selected is what it was, or the turn of it is noted.
Steady ==
  /\ turned => turned'
  /\ ResolveSelected(history') = ResolveSelected(history) \/ turned' = (turned \/ Turns(history'))

LEMMA SelectionStays ==
  ASSUME EditorInv, Steady, ~turned'
  PROVE  /\ ~turned
         /\ dialog # 0 => ResolveSelected(history)' = dialog
         /\ \A k \in Tasks : task[k].op = "restore" /\ task[k].at = "sync" =>
              ResolveSelected(history)' = task[k].named
<1>1. EditorTypeOK /\ DialogInv
  BY DEF EditorInv
<1>2. ~turned /\ turned \in BOOLEAN
  BY <1>1 DEF Steady, EditorTypeOK
<1>3. CASE ResolveSelected(history') = ResolveSelected(history)
  BY <1>1, <1>2, <1>3, Resolves DEF DialogInv
<1>4. CASE ~Turns(history')
  BY <1>1, <1>2, <1>4, Resolves DEF DialogInv, Turns
<1> QED BY <1>2, <1>3, <1>4 DEF Steady

\* The dialog stays or closes; no task, or one, moves.
LEMMA DialogStays ==
  ASSUME EditorInv, Steady, misled' = misled, dialog' \in {dialog, 0}, task' = task
  PROVE  DialogInv'
<1>1. EditorTypeOK /\ DialogInv
  BY DEF EditorInv
<1>2. misled' # {} => turned'
  BY <1>1 DEF DialogInv, Steady
<1>3. ~turned' => /\ dialog' # 0 => ResolveSelected(history)' = dialog'
                  /\ \A k \in Tasks : task'[k].op = "restore" /\ task'[k].at = "sync" =>
                       ResolveSelected(history)' = task'[k].named
  BY SelectionStays
<1> QED BY <1>1, <1>2, <1>3 DEF DialogInv

LEMMA DialogStaysAfter ==
  ASSUME EditorInv, Steady, dialog' \in {dialog, 0}, misled' # {} => turned',
         NEW k \in Tasks, NEW u \in Task, task' = [task EXCEPT ![k] = u],
         u.op = "restore" /\ u.at = "sync" => u.named # 0 /\ u.named = dialog
  PROVE  DialogInv'
<1>1. EditorTypeOK /\ DialogInv
  BY DEF EditorInv
<1>2. \A j \in Tasks : task'[j] = IF j = k THEN u ELSE task[j]
  BY <1>1 DEF EditorTypeOK
<1>3. \A j \in Tasks : task'[j].op = "restore" /\ task'[j].at = "sync" => task'[j].named # 0
  BY <1>1, <1>2 DEF DialogInv
<1>4. ~turned' => /\ dialog' # 0 => ResolveSelected(history)' = dialog'
                  /\ \A j \in Tasks : task'[j].op = "restore" /\ task'[j].at = "sync" =>
                       ResolveSelected(history)' = task'[j].named
  BY <1>2, SelectionStays
<1> QED BY <1>3, <1>4 DEF DialogInv

\* A task goes on, or ends, that has no new canvas: the writers are as they were.
LEMMA WritersStay ==
  ASSUME EditorInv, OneWriter,
         NEW k \in Tasks, NEW u \in Task, task' = [task EXCEPT ![k] = u],
         task[k] # NoTask, task[k].at # "done", u.at # "done",
         UNCHANGED <<log, draft, canvas, auto, window>>
  PROVE  OneWriter'
<1>1. task \in [Tasks -> Task]
  BY DEF EditorInv, EditorTypeOK
<1>2. \A j \in Tasks : task'[j] = IF j = k THEN u ELSE task[j]
  BY <1>1
<1>3. \A j \in Tasks : task'[j].at = "done" <=> task[j].at = "done"
  BY <1>2
<1>4. \A j \in Tasks : task'[j] # NoTask => task[j] # NoTask
  BY <1>2
<1>5. Busy' => Busy
  BY <1>4 DEF Busy
<1>6. \A i, j \in Tasks : task'[i] # NoTask /\ task'[j] # NoTask => i = j
  BY <1>4 DEF OneWriter
<1>7. \A j \in Tasks : task'[j].at = "done" => task'[j].c = log'[Current'] /\ draft' = Nothing
  BY <1>2 DEF OneWriter, Current
<1>8. ~auto'.dirty =>
        IF auto'.at = "none"
        THEN (\A j \in Tasks : task'[j].at # "done") => canvas' = Reloaded'
        ELSE canvas' = auto'.c
  BY <1>3 DEF OneWriter, Reloaded, Current
<1> QED BY <1>5, <1>6, <1>7, <1>8 DEF OneWriter

LEMMA WritersRest ==
  ASSUME OneWriter, UNCHANGED <<log, draft, canvas, auto, window, task>>
  PROVE  OneWriter'
BY DEF OneWriter, Busy, Reloaded, Current

-----------------------------------------------------------------------------
(* The canvas and its autosave.                                             *)

LEMMA EditHolds == ASSUME EditorInv, Edit PROVE EditorInv'
<1>1. EditorTypeOK /\ VersionsInv /\ DialogInv
  BY DEF EditorInv
<1>2. /\ edits' = edits + 1 /\ edits < MaxEdits
      /\ canvas' = [canvas EXCEPT !.edits = @ \cup {edits'}]
      /\ auto' = [auto EXCEPT !.dirty = ~auto.suspended]
      /\ raced' = (raced \/ Busy)
      /\ UNCHANGED <<log, draft, window, bar, history, dialog, task, origin, unseen, mixed,
                     misled, turned, toolbarClicks>>
  BY DEF Edit, editorTables
<1>3. canvas' \in Canvas /\ edits' \in 0..MaxEdits
  BY <1>1, <1>2, EditorAssumption DEF EditorTypeOK, Canvas
<1>4. /\ auto' \in AutosaveCall /\ auto'.at = auto.at /\ auto'.c = auto.c /\ auto'.base = auto.base
      /\ auto'.suspended = auto.suspended /\ auto'.dirty = ~auto.suspended
  BY <1>1, <1>2 DEF EditorTypeOK, AutosaveCall
<1>5. raced' \in BOOLEAN
  BY <1>1, <1>2 DEF EditorTypeOK
<1>6. EditorTypeOK'
  BY <1>1, <1>2, <1>3, <1>4, <1>5 DEF EditorTypeOK, Current
<1>7. VersionsInv'
  BY <1>1, <1>2, <1>4, TasksStay, CurrentIs DEF VersionsInv, Current
<1>8. DialogInv'
  BY <1>2, DialogStays DEF Steady
<1>9. ASSUME ~raced' PROVE OneWriter'
  <2>1. OneWriter /\ ~Busy
    BY <1>2, <1>9 DEF EditorInv
  <2> QED BY <1>2, <1>4, <2>1 DEF OneWriter, Busy, Current
<1> QED BY <1>6, <1>7, <1>8, <1>9 DEF EditorInv

LEMMA AutosaveSendsHolds == ASSUME EditorInv, AutosaveSends PROVE EditorInv'
<1>1. EditorTypeOK /\ VersionsInv /\ DialogInv
  BY DEF EditorInv
<1>2. /\ auto.at = "none"
      /\ auto' = [auto EXCEPT !.at = "sent", !.c = canvas, !.base = window.d, !.dirty = FALSE]
      /\ raced' = (raced \/ Busy)
      /\ UNCHANGED <<log, draft, canvas, edits, window, bar, history, dialog, task, origin,
                     unseen, mixed, misled, turned, toolbarClicks>>
  BY DEF AutosaveSends, editorTables
<1>3. /\ auto' \in AutosaveCall /\ auto'.at = "sent" /\ auto'.c = canvas
      /\ auto'.base = window.d /\ auto'.suspended = auto.suspended /\ canvas \in Canvas
  BY <1>1, <1>2 DEF EditorTypeOK, AutosaveCall, Known
<1>4. raced' \in BOOLEAN
  BY <1>1, <1>2 DEF EditorTypeOK
<1>5. EditorTypeOK'
  BY <1>1, <1>2, <1>3, <1>4 DEF EditorTypeOK, Current
<1>6. VersionsInv'
  BY <1>1, <1>2, <1>3, TasksStay, CurrentIs DEF VersionsInv, Current
<1>7. DialogInv'
  BY <1>2, DialogStays DEF Steady
<1>8. ASSUME ~raced' PROVE OneWriter'
  <2>1. OneWriter /\ ~Busy
    BY <1>2, <1>8 DEF EditorInv
  <2> QED BY <1>2, <1>3, <2>1 DEF OneWriter, Busy, Current
<1> QED BY <1>5, <1>6, <1>7, <1>8 DEF EditorInv

\* While one writer is at work, the autosave quotes the draft that is stored.
LEMMA AutosaveServedHolds == ASSUME EditorInv, AutosaveServed PROVE EditorInv'
<1>1. EditorTypeOK /\ VersionsInv /\ DialogInv
  BY DEF EditorInv
<1> DEFINE ok == draft = Nothing \/ auto.base = Nothing \/ auto.base = draft.v
           v  == IF draft = Nothing THEN 1 ELSE draft.v + 1
<1>2. /\ auto.at = "sent"
      /\ auto' = [auto EXCEPT !.at = IF ok THEN "stored" ELSE "refused", !.base = v]
      /\ draft' = IF ok THEN [v |-> v, c |-> auto.c] ELSE draft
      /\ UNCHANGED <<log, canvas, edits, window, bar, history, dialog, task, origin, unseen,
                     mixed, misled, turned, raced, toolbarClicks>>
  BY DEF AutosaveServed
<1>3. v \in Nat /\ auto.c \in Canvas
  BY <1>1, <1>2 DEF EditorTypeOK, Drafts, VersionsInv
<1> HIDE DEF ok, v
<1>4. /\ auto' \in AutosaveCall /\ auto'.at = (IF ok THEN "stored" ELSE "refused")
      /\ auto'.base = v /\ auto'.c = auto.c /\ auto'.suspended = auto.suspended
      /\ auto'.dirty = auto.dirty
  BY <1>1, <1>2, <1>3 DEF EditorTypeOK, AutosaveCall
<1>5. draft' \in Drafts \cup {Nothing}
  BY <1>1, <1>2, <1>3 DEF EditorTypeOK, Drafts
<1>6. EditorTypeOK'
  BY <1>1, <1>2, <1>4, <1>5 DEF EditorTypeOK, Current
<1>7. VersionsInv'
  BY <1>1, <1>2, <1>4, TasksStay, CurrentIs DEF VersionsInv, Current
<1>8. DialogInv'
  BY <1>2, DialogStays DEF Steady
<1>9. ASSUME ~raced' PROVE OneWriter'
  <2>1. OneWriter /\ ~Busy
    BY <1>2, <1>9 DEF EditorInv, OneWriter
  <2>2. ok
    BY <1>2, <2>1 DEF OneWriter, ok
  <2>3. auto'.at = "stored" /\ draft' = [v |-> v, c |-> auto.c] /\ draft' # Nothing
    BY <1>2, <1>3, <1>4, <2>2, EditorAssumption DEF Drafts
  <2>4. \A k \in Tasks : task[k] = NoTask
    BY <2>1 DEF Busy
  <2> QED BY <1>2, <1>4, <2>1, <2>3, <2>4, EditorRests DEF OneWriter, Busy, Current
<1> QED BY <1>6, <1>7, <1>8, <1>9 DEF EditorInv

LEMMA AutosaveAnsweredHolds == ASSUME EditorInv, AutosaveAnswered PROVE EditorInv'
<1>1. EditorTypeOK /\ VersionsInv /\ DialogInv
  BY DEF EditorInv
<1>2. /\ auto.at \in {"stored", "refused"}
      /\ UNCHANGED <<log, draft, canvas, edits, bar, history, dialog, task, origin, unseen,
                     mixed, misled, turned, raced, toolbarClicks>>
  BY DEF AutosaveAnswered, editorTables
<1>3. /\ auto' \in AutosaveCall /\ auto'.at = "none"
      /\ window' \in Known /\ window'.v = window.v
      /\ auto.at = "stored" => /\ auto'.dirty = auto.dirty /\ auto'.suspended = FALSE
                               /\ window'.d = auto.base
  BY <1>1 DEF AutosaveAnswered, EditorTypeOK, AutosaveCall, NoAutosave, Known
<1>4. EditorTypeOK'
  BY <1>1, <1>2, <1>3 DEF EditorTypeOK, Current
<1>5. VersionsInv'
  BY <1>1, <1>2, <1>3, TasksStay, CurrentIs DEF VersionsInv, Current
<1>6. DialogInv'
  BY <1>2, DialogStays DEF Steady
<1>7. ASSUME ~raced' PROVE OneWriter'
  <2>1. OneWriter /\ ~Busy /\ auto.at = "stored"
    BY <1>2, <1>7 DEF EditorInv, OneWriter
  <2>2. draft = [v |-> auto.base, c |-> auto.c]
    BY <2>1 DEF OneWriter
  <2>3. draft # Nothing
    BY <2>1 DEF OneWriter
  <2>4. \A k \in Tasks : task[k] = NoTask
    BY <2>1 DEF Busy
  <2> QED BY <1>2, <1>3, <2>1, <2>2, <2>3, <2>4, EditorRests DEF OneWriter, Busy, Current, Reloaded
<1> QED BY <1>4, <1>5, <1>6, <1>7 DEF EditorInv

-----------------------------------------------------------------------------
(* History: the list, the selection, the dialog.                            *)

LEMMA OpenHistoryHolds == ASSUME EditorInv, OpenHistory PROVE EditorInv'
<1>1. EditorTypeOK /\ VersionsInv
  BY DEF EditorInv
<1>2. /\ CountClick /\ history' \in Fetched(history) /\ turned' = (turned \/ Turns(history'))
      /\ UNCHANGED <<log, draft, canvas, edits, window, bar, dialog, task, auto, origin,
                     unseen, mixed, misled, raced>>
  BY DEF OpenHistory, editorTables
<1>3. history' \in [items : 0..Current, pick : 0..Current, selected : 0..Current]
  BY <1>1, <1>2, CurrentIs DEF Fetched, Refreshed, NoHistory
<1>4. toolbarClicks' \in 0..MaxToolbarClicks /\ turned' \in BOOLEAN
  BY <1>1, <1>2, EditorAssumption DEF CountClick, EditorTypeOK
<1>5. EditorTypeOK'
  BY <1>1, <1>2, <1>3, <1>4 DEF EditorTypeOK, Current
<1>6. VersionsInv'
  BY <1>1, <1>2, TasksStay, CurrentIs DEF VersionsInv, Current
<1>7. DialogInv'
  BY <1>2, DialogStays DEF Steady
<1> QED BY <1>2, <1>5, <1>6, <1>7, WritersRest DEF EditorInv

LEMMA OnHistorySelectHolds == ASSUME EditorInv, OnHistorySelect PROVE EditorInv'
<1>1. EditorTypeOK /\ VersionsInv
  BY DEF EditorInv
<1>2. PICK i \in 1..history.items :
        /\ CountClick /\ history' = [history EXCEPT !.pick = i, !.selected = i]
        /\ turned' = (turned \/ Turns(history'))
        /\ UNCHANGED <<log, draft, canvas, edits, window, bar, dialog, task, auto, origin,
                       unseen, mixed, misled, raced>>
  BY DEF OnHistorySelect, editorTables
<1>3. history' \in [items : 0..Current, pick : 0..Current, selected : 0..Current]
  <2>1. history \in [items : 0..Current, pick : 0..Current, selected : 0..Current]
    BY <1>1 DEF EditorTypeOK
  <2>2. Current \in Nat /\ history.items \in 0..Current
    BY <1>1, <2>1, CurrentIs
  <2>3. i \in 0..Current
    BY <2>2
  <2> QED BY <1>2, <2>1, <2>3
<1>4. toolbarClicks' \in 0..MaxToolbarClicks /\ turned' \in BOOLEAN
  BY <1>1, <1>2, EditorAssumption DEF CountClick, EditorTypeOK
<1>5. EditorTypeOK'
  BY <1>1, <1>2, <1>3, <1>4 DEF EditorTypeOK, Current
<1>6. VersionsInv'
  BY <1>1, <1>2, TasksStay, CurrentIs DEF VersionsInv, Current
<1>7. DialogInv'
  BY <1>2, DialogStays DEF Steady
<1> QED BY <1>2, <1>5, <1>6, <1>7, WritersRest DEF EditorInv

\* To select what is resolved changes nothing of what is resolved.
LEMMA SelectedAgain ==
  ASSUME EditorTypeOK, ResolveSelected(history) # 0,
         history' = [history EXCEPT !.selected = ResolveSelected(history)]
  PROVE  /\ ResolveSelected(history') = ResolveSelected(history)
         /\ history' \in [items : 0..Current, pick : 0..Current, selected : 0..Current]
<1>1. /\ history'.pick = history.pick /\ history'.items = history.items
      /\ history'.selected = ResolveSelected(history)
      /\ ResolveSelected(history) \in 1..history.items
      /\ history.items \in 0..Current /\ Current \in Nat /\ history.pick \in 0..Current
  BY Resolves, CurrentIs DEF EditorTypeOK
<1>2. ResolveSelected(history') = ResolveSelected(history)
  BY <1>1 DEF ResolveSelected
<1>3. history' \in [items : 0..Current, pick : 0..Current, selected : 0..Current]
  BY <1>1 DEF EditorTypeOK
<1> QED BY <1>2, <1>3

LEMMA OnRestoreHolds == ASSUME EditorInv, OnRestore PROVE EditorInv'
<1>1. EditorTypeOK /\ VersionsInv /\ DialogInv
  BY DEF EditorInv
<1>2. /\ CountClick /\ ResolveSelected(history) # 0
      /\ dialog' = ResolveSelected(history)
      /\ history' = [history EXCEPT !.selected = ResolveSelected(history)]
      /\ UNCHANGED <<log, draft, canvas, edits, window, bar, task, auto, origin,
                     unseen, mixed, misled, turned, raced>>
  BY DEF OnRestore, editorTables
<1>3. /\ ResolveSelected(history') = ResolveSelected(history)
      /\ history' \in [items : 0..Current, pick : 0..Current, selected : 0..Current]
      /\ dialog' \in 0..Current
  BY <1>1, <1>2, SelectedAgain, Resolves, CurrentIs
<1>4. toolbarClicks' \in 0..MaxToolbarClicks
  BY <1>1, <1>2, EditorAssumption DEF CountClick, EditorTypeOK
<1>5. EditorTypeOK'
  BY <1>1, <1>2, <1>3, <1>4 DEF EditorTypeOK, Current
<1>6. VersionsInv'
  BY <1>1, <1>2, TasksStay, CurrentIs DEF VersionsInv, Current
<1>7. DialogInv'
  BY <1>1, <1>2, <1>3, Resolves DEF DialogInv
<1> QED BY <1>2, <1>5, <1>6, <1>7, WritersRest DEF EditorInv

LEMMA DismissDialogHolds == ASSUME EditorInv, DismissDialog PROVE EditorInv'
<1>1. EditorTypeOK /\ VersionsInv
  BY DEF EditorInv
<1>2. /\ dialog' = 0
      /\ UNCHANGED <<log, draft, canvas, edits, window, bar, history, task, auto, origin,
                     unseen, mixed, misled, turned, raced, toolbarClicks>>
  BY DEF DismissDialog, editorTables
<1>3. EditorTypeOK'
  BY <1>1, <1>2, CurrentIs DEF EditorTypeOK, Current
<1>4. VersionsInv'
  BY <1>1, <1>2, TasksStay, CurrentIs DEF VersionsInv, Current
<1>5. DialogInv'
  BY <1>2, DialogStays DEF Steady
<1> QED BY <1>2, <1>3, <1>4, <1>5, WritersRest DEF EditorInv

LEMMA OtherTabSavesHolds == ASSUME EditorInv, OtherTabSaves PROVE EditorInv'
<1>1. EditorTypeOK /\ VersionsInv
  BY DEF EditorInv
<1>2. /\ draft # Nothing /\ draft' = [draft EXCEPT !.v = @ + 1] /\ raced' = TRUE
      /\ UNCHANGED <<log, canvas, edits, window, bar, history, dialog, task, auto, origin,
                     unseen, mixed, misled, turned, toolbarClicks>>
  BY DEF OtherTabSaves
<1>3. draft' \in Drafts
  BY <1>1, <1>2 DEF EditorTypeOK, Drafts
<1>4. EditorTypeOK'
  BY <1>1, <1>2, <1>3 DEF EditorTypeOK, Current
<1>5. VersionsInv'
  BY <1>1, <1>2, TasksStay, CurrentIs DEF VersionsInv, Current
<1>6. DialogInv'
  BY <1>2, DialogStays DEF Steady
<1> QED BY <1>2, <1>4, <1>5, <1>6 DEF EditorInv

\* Another version: all that was said of the older ones stands.
LEMMA OneMore ==
  ASSUME EditorTypeOK, Current < MaxVersions, NEW x \in Canvas, log' = Append(log, x)
  PROVE  /\ log' \in Seq(Canvas) /\ Current' = Current + 1 /\ Current' \in 1..MaxVersions
         /\ log'[Current'] = x
<1>1. log \in Seq(Canvas) /\ Current \in Nat \ {0} /\ Current = Len(log)
  BY CurrentIs DEF EditorTypeOK, Current
<1>2. log' \in Seq(Canvas) /\ Len(log') = Len(log) + 1 /\ log'[Len(log) + 1] = x
  BY <1>1, AppendProperties
<1>3. Current' = Len(log')
  BY DEF Current
<1> QED BY <1>1, <1>2, <1>3, EditorAssumption

LEMMA OtherSavesHolds == ASSUME EditorInv, OtherSaves PROVE EditorInv'
<1>1. EditorTypeOK /\ VersionsInv
  BY DEF EditorInv
<1>2. /\ Current < MaxVersions /\ log' = Append(log, log[Current]) /\ raced' = TRUE
      /\ UNCHANGED <<draft, canvas, edits, window, bar, history, dialog, task, auto, origin,
                     unseen, mixed, misled, turned, toolbarClicks>>
  BY DEF OtherSaves
<1>3. log' \in Seq(Canvas) /\ Current' = Current + 1 /\ Current' \in 1..MaxVersions
  BY <1>1, <1>2, OneMore, CurrentIs
<1>4. EditorTypeOK'
  <2>1. \A k \in Tasks : task[k].base \in Nat /\ task[k].base <= Current'
    BY <1>1, <1>3, CurrentIs DEF EditorTypeOK, Task
  <2>2. /\ history' \in [items : 0..Current', pick : 0..Current', selected : 0..Current']
        /\ dialog' \in 0..Current' /\ bar' \in 1..Current' /\ origin' \in 1..Current'
    BY <1>1, <1>2, <1>3, CurrentIs DEF EditorTypeOK
  <2> QED BY <1>1, <1>2, <1>3, <2>1, <2>2 DEF EditorTypeOK
<1>5. VersionsInv'
  BY <1>1, <1>2, <1>3, TasksStay, CurrentIs DEF VersionsInv
<1>6. DialogInv'
  BY <1>2, DialogStays DEF Steady
<1> QED BY <1>2, <1>4, <1>5, <1>6 DEF EditorInv

-----------------------------------------------------------------------------
(* The handlers.                                                            *)

\* A handler begins with the version of the window.
LEMMA BeginHolds ==
  ASSUME EditorInv, NEW k \in Tasks, NEW u \in Task, Begin(k, u),
         u.at = "sync" /\ u.got = window.v /\ u.base = 0 /\ u.op # "none",
         u.op = "restore" => u.named # 0 /\ u.named = dialog,
         UNCHANGED <<log, draft, canvas, edits, window, bar, history, dialog, auto, origin,
                     unseen, mixed, misled, turned>>
  PROVE  EditorInv'
<1>1. EditorTypeOK /\ VersionsInv /\ DialogInv
  BY DEF EditorInv
<1>2. /\ CountClick /\ task[k] = NoTask /\ task' = [task EXCEPT ![k] = u]
      /\ raced' = (raced \/ Busy \/ auto.at # "none")
  BY DEF Begin
<1>3. \A j \in Tasks : task'[j] = IF j = k THEN u ELSE task[j]
  BY <1>1, <1>2 DEF EditorTypeOK
<1>4. EditorTypeOK'
  <2>1. task' \in [Tasks -> Task] /\ \A j \in Tasks : task'[j].base <= Current'
    BY <1>1, <1>2, <1>3, CurrentIs DEF EditorTypeOK, Current
  <2>2. toolbarClicks' \in 0..MaxToolbarClicks /\ raced' \in BOOLEAN
    BY <1>1, <1>2, EditorAssumption DEF CountClick, EditorTypeOK
  <2> QED BY <1>1, <2>1, <2>2 DEF EditorTypeOK, Current
<1>5. VersionsInv'
  <2>1. TaskFits(u)'
    BY <1>1, CurrentIs DEF TaskFits, VersionsInv, EditorTypeOK
  <2>2. origin \in Nat /\ Current \in Nat /\ Current' = Current
    BY <1>1, CurrentIs DEF EditorTypeOK, Current
  <2>3. \A j \in Tasks : task[j].at = "done" => origin < task[j].base
    BY <1>1 DEF VersionsInv, TaskFits
  <2>4. window.v = origin /\ bar <= origin /\ unseen \subseteq mixed
    BY <1>1 DEF VersionsInv
  <2>5. /\ origin' \in Nat /\ origin <= origin' /\ mixed \subseteq mixed'
        /\ Current' \in Nat /\ Current <= Current'
        /\ window'.v = origin' /\ bar' <= origin' /\ unseen' \subseteq mixed' /\ auto' = auto
    BY <2>2, <2>4
  <2>6. \A j \in Tasks : j # k /\ task[j].at = "done" =>
          u.at # "done" /\ origin' < task[j].base
    BY <2>3
  <2> QED BY <1>2, <2>1, <2>5, <2>6, TaskMoves
<1>6. DialogInv'
  <2>1. misled' # {} => turned'
    BY <1>1 DEF DialogInv
  <2> QED BY <1>2, <2>1, DialogStaysAfter DEF Steady
<1>7. ASSUME ~raced' PROVE OneWriter'
  <2>1. OneWriter /\ auto.at = "none" /\ \A j \in Tasks : task[j] = NoTask
    BY <1>2, <1>7 DEF EditorInv, Busy
  <2>2. \A j \in Tasks : task'[j].at # "done" /\ (task'[j] # NoTask => j = k)
    BY <1>3, <2>1, EditorRests
  <2>3. \A j \in Tasks : task[j].at # "done"
    BY <2>1, EditorRests
  <2> QED BY <2>1, <2>2, <2>3 DEF OneWriter, Reloaded, Current
<1> QED BY <1>4, <1>5, <1>6, <1>7 DEF EditorInv

LEMMA WindowNat == EditorTypeOK => window.v \in Nat /\ dialog \in Nat
BY EditorAssumption, CurrentIs DEF EditorTypeOK, Known

LEMMA ConfirmSaveHolds == ASSUME EditorInv, NEW k \in Tasks, ConfirmSave(k) PROVE EditorInv'
<1>1. PICK u : u = [NoTask EXCEPT !.op = "save", !.at = "sync", !.got = window.v]
  OBVIOUS
<1>2. u \in Task /\ u.op = "save" /\ u.at = "sync" /\ u.got = window.v /\ u.base = 0
  BY <1>1, WindowNat DEF NoTask, Task, EditorInv
<1> QED BY <1>1, <1>2, BeginHolds DEF ConfirmSave, editorTables

LEMMA ConfirmRestoreHolds ==
  ASSUME EditorInv, NEW k \in Tasks, ConfirmRestore(k) PROVE EditorInv'
<1>1. PICK u : u = [NoTask EXCEPT !.op = "restore", !.at = "sync", !.got = window.v,
                                  !.named = dialog]
  OBVIOUS
<1>2. /\ u \in Task /\ u.op = "restore" /\ u.at = "sync" /\ u.got = window.v /\ u.base = 0
      /\ u.named = dialog
  BY <1>1, WindowNat DEF NoTask, Task, EditorInv
<1> QED BY <1>1, <1>2, BeginHolds DEF ConfirmRestore, editorTables

LEMMA ReconcileHolds == ASSUME EditorInv, NEW k \in Tasks, Reconcile(k) PROVE EditorInv'
<1>1. PICK u : u = [NoTask EXCEPT !.op = "ghost", !.at = "sync", !.got = window.v]
  OBVIOUS
<1>2. u \in Task /\ u.op = "ghost" /\ u.at = "sync" /\ u.got = window.v /\ u.base = 0
  BY <1>1, WindowNat DEF NoTask, Task, EditorInv
<1> QED BY <1>1, <1>2, BeginHolds DEF Reconcile, editorTables

\* Task k goes on to u, and no version is written: what is left to show is that u fits.
LEMMA GoesOn ==
  ASSUME EditorInv, NEW k \in Tasks, NEW u \in Task, task' = [task EXCEPT ![k] = u],
         task[k] # NoTask, task[k].at # "done", u.at # "done", TaskFits(u)', u.base <= Current,
         u.op = "restore" => u.at # "sync",
         bar' \in Nat \ {0}, bar' <= origin, mixed \subseteq mixed',
         history' \in [items : 0..Current, pick : 0..Current, selected : 0..Current],
         ResolveSelected(history') = ResolveSelected(history),
         misled' # {} => turned,
         UNCHANGED <<log, draft, canvas, edits, window, dialog, auto, origin,
                     unseen, turned, raced, toolbarClicks>>
  PROVE  EditorInv'
<1>1. EditorTypeOK /\ VersionsInv /\ DialogInv
  BY DEF EditorInv
<1>2. \A j \in Tasks : task'[j] = IF j = k THEN u ELSE task[j]
  BY <1>1 DEF EditorTypeOK
<1>3. Current' = Current /\ Current \in Nat /\ origin \in 1..Current
  BY <1>1, CurrentIs DEF Current, EditorTypeOK
<1>4. EditorTypeOK'
  <2>1. task' \in [Tasks -> Task] /\ \A j \in Tasks : task'[j].base <= Current'
    BY <1>1, <1>2, <1>3 DEF EditorTypeOK
  <2>2. bar' \in 1..Current'
    BY <1>3
  <2> QED BY <1>1, <1>3, <2>1, <2>2 DEF EditorTypeOK
<1>5. VersionsInv'
  <2>1. \A j \in Tasks : task[j].at = "done" => origin < task[j].base
    BY <1>1 DEF VersionsInv, TaskFits
  <2>2. window.v = origin /\ unseen \subseteq mixed
    BY <1>1 DEF VersionsInv
  <2>3. /\ origin' \in Nat /\ origin <= origin' /\ mixed \subseteq mixed'
        /\ Current' \in Nat /\ Current <= Current'
        /\ window'.v = origin' /\ bar' <= origin' /\ unseen' \subseteq mixed' /\ auto' = auto
    BY <1>3, <2>2
  <2>4. \A j \in Tasks : j # k /\ task[j].at = "done" =>
          u.at # "done" /\ origin' < task[j].base
    BY <2>1
  <2> QED BY <2>3, <2>4, TaskMoves
<1>6. DialogInv'
  BY DialogStaysAfter DEF Steady
<1>7. ASSUME ~raced' PROVE OneWriter'
  BY <1>7, WritersStay DEF EditorInv
<1> QED BY <1>4, <1>5, <1>6, <1>7 DEF EditorInv

LEMMA TaskIs ==
  ASSUME EditorInv, NEW k \in Tasks
  PROVE  /\ task[k] \in Task /\ TaskFits(task[k]) /\ task[k].base <= Current
         /\ task[k].op # "none" \/ task[k].at # "none" => task[k] # NoTask
         /\ origin \in Nat /\ Current \in Nat /\ origin \in 1..Current
         /\ bar \in Nat \ {0} /\ bar <= origin /\ canvas \in Canvas
         /\ history \in [items : 0..Current, pick : 0..Current, selected : 0..Current]
         /\ misled # {} => turned
<1>1. EditorTypeOK /\ VersionsInv /\ DialogInv
  BY DEF EditorInv
<1> QED BY <1>1, CurrentIs, EditorRests DEF EditorTypeOK, VersionsInv, DialogInv

LEMMA SaveSyncedHolds == ASSUME EditorInv, NEW k \in Tasks, SaveSynced(k) PROVE EditorInv'
<1>1. PICK u : u = [task[k] EXCEPT !.at = "canvas", !.c = canvas, !.from = origin]
  OBVIOUS
<1>2. /\ u \in Task /\ u.op = task[k].op /\ u.at = "canvas" /\ u.c = canvas /\ u.from = origin
      /\ u.got = task[k].got /\ u.base = task[k].base
  BY <1>1, TaskIs DEF Task
<1>3. /\ task[k].op = "save" /\ task[k].at = "sync" /\ bar' = task[k].got
      /\ task' = [task EXCEPT ![k] = u]
      /\ UNCHANGED <<log, draft, canvas, edits, window, history, dialog, auto, origin,
                     unseen, mixed, misled, turned, raced, toolbarClicks>>
  BY <1>1 DEF SaveSynced, editorTables
<1>4. task[k].got \in 1..origin
  BY <1>3, TaskIs DEF TaskFits
<1>5. TaskFits(u)'
  BY <1>2, <1>3, <1>4, TaskIs DEF TaskFits
<1>6. bar' \in Nat \ {0} /\ bar' <= origin /\ u.base <= Current
  BY <1>2, <1>3, <1>4, TaskIs
<1>7. task[k] # NoTask /\ task[k].at # "done" /\ u.at # "done"
  BY <1>2, <1>3, EditorRests
<1> QED BY <1>2, <1>3, <1>5, <1>6, <1>7, TaskIs, GoesOn

LEMMA RequestSaveVersionHolds ==
  ASSUME EditorInv, NEW k \in Tasks, RequestSaveVersion(k) PROVE EditorInv'
<1>1. PICK u : u = [task[k] EXCEPT !.at = "sent", !.base = bar]
  OBVIOUS
<1>2. /\ u \in Task /\ u.op = task[k].op /\ u.at = "sent" /\ u.c = task[k].c
      /\ u.from = task[k].from /\ u.base = bar
  BY <1>1, TaskIs DEF Task
<1>3. /\ task[k].op = "save" /\ task[k].at = "canvas" /\ task' = [task EXCEPT ![k] = u]
      /\ mixed' = IF bar = task[k].got THEN mixed ELSE mixed \cup {bar}
      /\ UNCHANGED <<log, draft, canvas, edits, window, bar, history, dialog, auto, origin,
                     unseen, misled, turned, raced, toolbarClicks>>
  BY <1>1 DEF RequestSaveVersion, editorTables
<1>4. /\ task[k].got <= task[k].from /\ task[k].from <= origin /\ task[k].c \in Canvas
  BY <1>3, TaskIs DEF TaskFits
<1>5. TaskFits(u)'
  BY <1>2, <1>3, <1>4, TaskIs DEF TaskFits
<1>6. u.base <= Current
  BY <1>2, TaskIs
<1> QED BY <1>2, <1>3, <1>5, <1>6, TaskIs, GoesOn

\* What is asked for is what the selection says now, which the dialog named unless it turned.
LEMMA RequestRestoreVersionHolds ==
  ASSUME EditorInv, NEW k \in Tasks, RequestRestoreVersion(k) PROVE EditorInv'
<1>1. PICK i : i = ResolveSelected(history)
  OBVIOUS
<1>2. /\ task[k].op = "restore" /\ task[k].at = "sync" /\ bar' = task[k].got
      /\ UNCHANGED <<log, draft, canvas, edits, window, dialog, auto, origin,
                     unseen, mixed, turned, raced, toolbarClicks>>
  BY DEF RequestRestoreVersion, editorTables
<1>3. task[k].got \in 1..origin
  BY <1>2, TaskIs DEF TaskFits
<1>4. CASE i = 0
  <2>1. task' = [task EXCEPT ![k] = NoTask] /\ UNCHANGED <<history, misled>>
    BY <1>1, <1>4 DEF RequestRestoreVersion
  <2>2. NoTask \in Task /\ NoTask.op = "none" /\ NoTask.at = "none" /\ NoTask.base = 0
    BY EditorRests DEF NoTask
  <2>3. TaskFits(NoTask)'
    BY <2>2 DEF TaskFits
  <2>4. bar' \in Nat \ {0} /\ bar' <= origin /\ NoTask.base <= Current
    BY <1>2, <1>3, <2>2, TaskIs
  <2>5. task[k] # NoTask /\ task[k].at # "done" /\ NoTask.at # "done"
    BY <1>2, <2>2
  <2>6. misled' # {} => turned
    BY <2>1, TaskIs
  <2>7. /\ ResolveSelected(history') = ResolveSelected(history)
        /\ history' \in [items : 0..Current, pick : 0..Current, selected : 0..Current]
    BY <2>1, TaskIs
  <2> QED BY <1>2, <2>1, <2>2, <2>3, <2>4, <2>5, <2>6, <2>7, GoesOn
<1>5. CASE i # 0
  <2>1. PICK u : u = [task[k] EXCEPT !.at = "sent", !.base = task[k].got, !.entry = i]
    OBVIOUS
  <2>2. /\ task' = [task EXCEPT ![k] = u] /\ history' = [history EXCEPT !.selected = i]
        /\ misled' = IF i = task[k].named THEN misled ELSE misled \cup {<<task[k].named, i>>}
    BY <1>1, <1>2, <1>5, <2>1 DEF RequestRestoreVersion
  <2>3. i \in 1..Current
    BY <1>1, <1>5, Resolves, TaskIs DEF EditorInv
  <2>4. /\ u \in Task /\ u.op = "restore" /\ u.at = "sent" /\ u.base = task[k].got /\ u.entry = i
    <3>1. task[k] \in Task /\ i \in Nat /\ task[k].got \in Nat
      BY <2>3, TaskIs DEF Task
    <3> QED BY <1>2, <2>1, <3>1 DEF Task
  <2>5. Current' = Current
    BY <1>2 DEF Current
  <2>6. TaskFits(u)'
    BY <1>2, <1>3, <2>3, <2>4, <2>5, TaskIs DEF TaskFits
  <2>7. /\ ResolveSelected(history') = ResolveSelected(history)
        /\ history' \in [items : 0..Current, pick : 0..Current, selected : 0..Current]
    BY <1>1, <1>5, <2>2, SelectedAgain DEF EditorInv
  <2>8. misled' # {} => turned
    <3>1. i # task[k].named => turned
      BY <1>1, <1>2 DEF EditorInv, DialogInv
    <3> QED BY <2>2, <3>1, TaskIs
  <2>9. bar' \in Nat \ {0} /\ bar' <= origin /\ u.base <= Current
    BY <1>2, <1>3, <2>4, TaskIs
  <2>10. task[k] # NoTask /\ task[k].at # "done" /\ u.at # "done"
    BY <1>2, <2>4, EditorRests
  <2> QED BY <1>2, <2>2, <2>4, <2>6, <2>7, <2>8, <2>9, <2>10, GoesOn
<1> QED BY <1>4, <1>5

LEMMA PostReconcileHolds == ASSUME EditorInv, NEW k \in Tasks, PostReconcile(k) PROVE EditorInv'
<1>1. PICK u : u = [task[k] EXCEPT !.at = "sent", !.base = task[k].got]
  OBVIOUS
<1>2. /\ u \in Task /\ u.op = task[k].op /\ u.at = "sent" /\ u.base = task[k].got
  BY <1>1, TaskIs DEF Task
<1>3. /\ task[k].op = "ghost" /\ task[k].at = "sync" /\ task' = [task EXCEPT ![k] = u]
      /\ UNCHANGED <<log, draft, canvas, edits, window, bar, history, dialog, auto, origin,
                     unseen, mixed, misled, turned, raced, toolbarClicks>>
  BY <1>1 DEF PostReconcile, editorTables
<1>4. task[k].got \in 1..origin
  BY <1>3, TaskIs DEF TaskFits
<1>5. TaskFits(u)'
  BY <1>2, <1>3, <1>4, TaskIs DEF TaskFits
<1>6. u.base <= Current
  BY <1>2, <1>4, TaskIs
<1> QED BY <1>2, <1>3, <1>5, <1>6, TaskIs, GoesOn

\* The version of the request is current, so it is the one of the canvas: no other answer
\* is on its way, and a save replaces what its canvas was made from, unless it is noted.
LEMMA NewVersionHolds ==
  ASSUME EditorInv, NEW k \in Tasks, Served(k), VersionMatches(task[k].base)
  PROVE  EditorInv'
<1> DEFINE t == task[k]
           x == NewVersion(t)
<1>1. EditorTypeOK /\ VersionsInv /\ DialogInv
  BY DEF EditorInv
<1>2. PICK u : u = [t EXCEPT !.at = "done", !.base = Current + 1, !.c = x]
  OBVIOUS
<1>3. /\ t.at = "sent" /\ t.base = Current /\ Current < MaxVersions
      /\ log' = Append(log, x) /\ draft' = Nothing /\ task' = [task EXCEPT ![k] = u]
      /\ unseen' = IF t.op # "save" \/ t.from = Current THEN unseen ELSE unseen \cup {Current}
      /\ raced' = (raced \/ auto.at # "none")
      /\ UNCHANGED <<canvas, edits, window, bar, history, dialog, auto, origin,
                     mixed, misled, turned, toolbarClicks>>
  BY <1>2 DEF Served, VersionMatches, DraftAfter
<1>4. /\ t \in Task /\ origin = Current /\ Current \in Nat \ {0}
      /\ t.op # "none"
      /\ t.op = "restore" => t.entry \in 1..Current
      /\ t.op = "save" => t.c \in Canvas /\ t.from <= Current /\ (t.base \in mixed \/ t.from = Current)
  BY <1>1, <1>3, TaskIs, CurrentIs DEF TaskFits, Task
<1>5. x \in Canvas
  <2>1. log \in Seq(Canvas) /\ log[Current] \in Canvas /\ Current = Len(log)
    BY <1>1, CurrentIs DEF EditorTypeOK, Current
  <2>2. t.op = "restore" => log[t.entry] \in Canvas
    BY <1>4, <2>1
  <2>3. [log[Current] EXCEPT !.ghost = FALSE] \in Canvas
    BY <2>1 DEF Canvas
  <2>4. t.op \in {"save", "restore", "ghost"}
    BY <1>4 DEF Task
  <2> QED BY <1>4, <2>2, <2>3, <2>4 DEF NewVersion
<1> HIDE DEF x
<1>6. /\ log' \in Seq(Canvas) /\ Current' = Current + 1 /\ Current' \in 1..MaxVersions
      /\ log'[Current'] = x
  BY <1>1, <1>3, <1>5, OneMore
<1>7. u \in Task /\ u.op = t.op /\ u.at = "done" /\ u.base = Current + 1 /\ u.c = x
  <2>1. t \in Task /\ x \in Canvas /\ Current + 1 \in Nat
    BY <1>4, <1>5
  <2> QED BY <1>2, <2>1 DEF Task
<1>8. \A j \in Tasks : task'[j] = IF j = k THEN u ELSE task[j]
  BY <1>1, <1>3 DEF EditorTypeOK
<1>9. \A j \in Tasks : task[j].at # "done" /\ task[j].base \in Nat /\ task[j].base <= Current
  BY <1>4, TaskIs DEF TaskFits, Task
<1>10. EditorTypeOK'
  <2>1. task' \in [Tasks -> Task]
    BY <1>1, <1>3, <1>7 DEF EditorTypeOK
  <2>2. \A j \in Tasks : task'[j].base <= Current'
    BY <1>4, <1>6, <1>7, <1>8, <1>9
  <2>3. /\ history' \in [items : 0..Current', pick : 0..Current', selected : 0..Current']
        /\ dialog' \in 0..Current' /\ bar' \in 1..Current' /\ origin' \in 1..Current'
    BY <1>1, <1>3, <1>4, <1>6 DEF EditorTypeOK
  <2>4. draft' \in Drafts \cup {Nothing} /\ raced' \in BOOLEAN
    BY <1>1, <1>3 DEF EditorTypeOK
  <2> QED BY <1>1, <1>3, <1>6, <2>1, <2>2, <2>3, <2>4 DEF EditorTypeOK
<1>11. VersionsInv'
  <2>1. TaskFits(u)'
    BY <1>3, <1>4, <1>5, <1>7 DEF TaskFits
  <2>2. unseen' \subseteq mixed'
    BY <1>1, <1>3, <1>4 DEF VersionsInv
  <2>3. window'.v = origin' /\ bar' <= origin'
    BY <1>1, <1>3 DEF VersionsInv
  <2>4. origin' \in Nat /\ origin <= origin' /\ Current' \in Nat /\ Current <= Current'
    BY <1>3, <1>4, <1>6
  <2> QED BY <1>3, <1>7, <1>9, <2>1, <2>2, <2>3, <2>4, TaskMoves
<1>12. DialogInv'
  <2>1. misled' # {} => turned'
    BY <1>1, <1>3 DEF DialogInv
  <2> QED BY <1>3, <1>7, <2>1, DialogStaysAfter DEF Steady
<1>13. ASSUME ~raced' PROVE OneWriter'
  <2>1. OneWriter /\ auto.at = "none"
    BY <1>3, <1>13 DEF EditorInv
  <2>2. task[k] # NoTask
    BY <1>3, EditorRests
  <2>3. \A j \in Tasks : task'[j] # NoTask => j = k
    BY <1>8, <2>1, <2>2 DEF OneWriter
  <2> QED BY <1>3, <1>6, <1>7, <1>8, <1>9, <2>1, <2>3 DEF OneWriter
<1> QED BY <1>10, <1>11, <1>12, <1>13 DEF EditorInv

LEMMA ServedHolds == ASSUME EditorInv, NEW k \in Tasks, Served(k) PROVE EditorInv'
<1>1. CASE VersionMatches(task[k].base)
  BY <1>1, NewVersionHolds
<1>2. CASE ~VersionMatches(task[k].base)
  <2>1. PICK u : u = [task[k] EXCEPT !.at = "error"]
    OBVIOUS
  <2>2. u \in Task /\ u.at = "error" /\ u.base = task[k].base
    BY <2>1, TaskIs DEF Task
  <2>3. /\ task[k].at = "sent" /\ task' = [task EXCEPT ![k] = u]
        /\ UNCHANGED <<log, draft, canvas, edits, window, bar, history, dialog, auto, origin,
                       unseen, mixed, misled, turned, raced, toolbarClicks>>
    BY <1>2, <2>1 DEF Served
  <2>4. TaskFits(u)'
    BY <2>2 DEF TaskFits
  <2> QED BY <2>2, <2>3, <2>4, TaskIs, GoesOn
<1> QED BY <1>1, <1>2

\* A handler ends, and all that it knew is forgotten.
LEMMA EndHolds ==
  ASSUME EditorInv, NEW k \in Tasks, task[k].at # "none",
         task' = [task EXCEPT ![k] = NoTask], raced' = (raced \/ task[k].at = "done"),
         UNCHANGED <<log, draft, canvas, edits, window, bar, history, dialog, auto, origin,
                     unseen, mixed, misled, turned, toolbarClicks>>
  PROVE  EditorInv'
<1>1. EditorTypeOK /\ VersionsInv /\ DialogInv
  BY DEF EditorInv
<1>2. NoTask \in Task /\ NoTask.op = "none" /\ NoTask.at = "none" /\ NoTask.base = 0
  BY EditorRests DEF NoTask
<1>3. EditorTypeOK'
  <2>1. task' \in [Tasks -> Task] /\ \A j \in Tasks : task'[j].base <= Current
    BY <1>1, <1>2, CurrentIs DEF EditorTypeOK
  <2> QED BY <1>1, <2>1 DEF EditorTypeOK, Current
<1>4. VersionsInv'
  <2>1. TaskFits(NoTask)'
    BY <1>2 DEF TaskFits
  <2>2. \A j \in Tasks : task[j].at = "done" => origin < task[j].base
    BY <1>1 DEF VersionsInv, TaskFits
  <2>3. window'.v = origin' /\ bar' <= origin' /\ unseen' \subseteq mixed'
    BY <1>1 DEF VersionsInv
  <2>4. origin' \in Nat /\ origin <= origin' /\ Current' \in Nat /\ Current <= Current'
    BY TaskIs DEF Current
  <2> QED BY <1>2, <2>1, <2>2, <2>3, <2>4, TaskMoves
<1>5. DialogInv'
  <2>1. misled' # {} => turned'
    BY <1>1 DEF DialogInv
  <2> QED BY <1>2, <2>1, DialogStaysAfter DEF Steady
<1>6. ASSUME ~raced' PROVE OneWriter'
  <2>1. OneWriter /\ task[k].at # "done"
    BY <1>6 DEF EditorInv
  <2>2. task[k] # NoTask /\ NoTask.at # "done"
    BY <1>2
  <2> QED BY <1>2, <2>1, <2>2, WritersStay
<1> QED BY <1>3, <1>4, <1>5, <1>6 DEF EditorInv

LEMMA LostHolds == ASSUME EditorInv, NEW k \in Tasks, Lost(k) PROVE EditorInv'
BY EndHolds DEF Lost, editorTables

LEMMA RefusedHolds == ASSUME EditorInv, NEW k \in Tasks, Refused(k) PROVE EditorInv'
<1>1. raced \in BOOLEAN
  BY DEF EditorInv, EditorTypeOK
<1> QED BY <1>1, EndHolds DEF Refused, editorTables

\* The answer is newer than the page, and the only one: it becomes what the page knows.
LEMMA TaskAnsweredHolds == ASSUME EditorInv, NEW k \in Tasks, TaskAnswered(k) PROVE EditorInv'
<1> DEFINE t == task[k]
<1>1. EditorTypeOK /\ VersionsInv /\ DialogInv
  BY DEF EditorInv
<1>2. /\ t.at = "done" /\ window' = [v |-> t.base, d |-> Nothing]
      /\ canvas' = t.c /\ origin' = t.base /\ turned' = (turned \/ Turns(history'))
      /\ UNCHANGED <<log, draft, edits, dialog, auto, unseen, mixed, misled, raced, toolbarClicks>>
  BY DEF TaskAnswered, editorTables
<1>3. /\ t \in Task /\ origin < t.base /\ t.base \in 1..Current /\ t.c \in Canvas
      /\ Current \in Nat /\ Current <= MaxVersions /\ Current' = Current
  BY <1>1, <1>2, TaskIs DEF TaskFits, Task, EditorTypeOK, Current
<1>4. PICK u : u = IF t.op = "ghost" THEN NoTask ELSE [t EXCEPT !.at = "refresh"]
  OBVIOUS
<1>5. /\ u \in Task /\ u.at \in {"none", "refresh"} /\ u.base \in Nat /\ u.base <= Current
  <2>1. NoTask \in Task /\ NoTask.at = "none" /\ NoTask.base = 0
    BY EditorRests DEF NoTask
  <2>2. PICK w : w = [t EXCEPT !.at = "refresh"]
    OBVIOUS
  <2>3. w \in Task /\ w.at = "refresh" /\ w.base = t.base
    BY <1>3, <2>2 DEF Task
  <2> QED BY <1>3, <1>4, <2>1, <2>2, <2>3
<1>6. /\ task' = [task EXCEPT ![k] = u] /\ bar' \in {bar, t.base}
      /\ history' = history \/ history' = [history EXCEPT !.selected = t.base]
  BY <1>4 DEF TaskAnswered
<1>7. \A j \in Tasks : task'[j] = IF j = k THEN u ELSE task[j]
  BY <1>1, <1>6 DEF EditorTypeOK
<1>8. \A j \in Tasks : j # k => task[j].at # "done"
  BY <1>1, <1>2 DEF VersionsInv
<1>9. bar' \in 1..Current /\ bar' <= t.base
  BY <1>3, <1>6, TaskIs
<1>10. EditorTypeOK'
  <2>1. task' \in [Tasks -> Task] /\ \A j \in Tasks : task'[j].base <= Current
    BY <1>1, <1>5, <1>6, <1>7 DEF EditorTypeOK
  <2>2. window' \in Known
    BY <1>2, <1>3, EditorAssumption DEF Known
  <2>3. history' \in [items : 0..Current, pick : 0..Current, selected : 0..Current]
    BY <1>3, <1>6, TaskIs
  <2>4. turned' \in BOOLEAN
    BY <1>1, <1>2 DEF EditorTypeOK
  <2> QED BY <1>1, <1>2, <1>3, <1>9, <2>1, <2>2, <2>3, <2>4 DEF EditorTypeOK
<1>11. VersionsInv'
  <2>1. TaskFits(u)'
    BY <1>5 DEF TaskFits
  <2>2. window'.v = origin' /\ bar' <= origin' /\ unseen' \subseteq mixed' /\ mixed \subseteq mixed'
    BY <1>1, <1>2, <1>9 DEF VersionsInv
  <2>3. origin' \in Nat /\ origin <= origin' /\ Current' \in Nat /\ Current <= Current'
    BY <1>2, <1>3, TaskIs
  <2>4. \A j \in Tasks : j # k /\ task[j].at = "done" =>
          u.at # "done" /\ origin' < task[j].base
    BY <1>8
  <2> QED BY <1>2, <1>5, <1>6, <2>1, <2>2, <2>3, <2>4, TaskMoves
<1>12. DialogInv'
  <2>1. misled' # {} => turned'
    BY <1>1, <1>2 DEF DialogInv
  <2>2. Steady
    BY <1>2 DEF Steady
  <2> QED BY <1>2, <1>5, <1>6, <2>1, <2>2, DialogStaysAfter
<1>13. ASSUME ~raced' PROVE OneWriter'
  <2>1. OneWriter /\ ~raced
    BY <1>2, <1>13 DEF EditorInv
  <2>2. task[k] # NoTask
    BY <1>2, EditorRests
  <2>3. auto.at = "none" /\ t.c = log[Current] /\ draft = Nothing
    BY <1>2, <2>1, <2>2 DEF OneWriter, Busy
  <2>4. \A i, j \in Tasks : task'[i] # NoTask /\ task'[j] # NoTask => i = j
    BY <1>7, <2>1, <2>2 DEF OneWriter
  <2>5. \A j \in Tasks : task'[j].at # "done"
    BY <1>5, <1>7, <1>8
  <2>6. canvas' = Reloaded'
    BY <1>2, <1>3, <2>3 DEF Reloaded
  <2> QED BY <1>2, <2>1, <2>3, <2>4, <2>5, <2>6 DEF OneWriter
<1> QED BY <1>10, <1>11, <1>12, <1>13 DEF EditorInv

LEMMA HistoryRefreshedHolds ==
  ASSUME EditorInv, NEW k \in Tasks, HistoryRefreshed(k) PROVE EditorInv'
<1>1. EditorTypeOK /\ VersionsInv /\ DialogInv
  BY DEF EditorInv
<1>2. /\ task[k].at = "refresh" /\ history' \in Fetched(history)
      /\ dialog' \in {dialog, 0} /\ turned' = (turned \/ Turns(history'))
      /\ task' = [task EXCEPT ![k] = NoTask]
      /\ UNCHANGED <<log, draft, canvas, edits, window, bar, auto, origin, unseen, mixed,
                     misled, raced, toolbarClicks>>
  BY DEF HistoryRefreshed, editorTables
<1>3. NoTask \in Task /\ NoTask.op = "none" /\ NoTask.at = "none" /\ NoTask.base = 0
  BY EditorRests DEF NoTask
<1>4. EditorTypeOK'
  <2>1. task' \in [Tasks -> Task] /\ \A j \in Tasks : task'[j].base <= Current
    BY <1>1, <1>2, <1>3, CurrentIs DEF EditorTypeOK
  <2>2. history' \in [items : 0..Current, pick : 0..Current, selected : 0..Current]
    BY <1>1, <1>2, CurrentIs DEF Fetched, Refreshed, NoHistory
  <2>3. dialog' \in 0..Current /\ turned' \in BOOLEAN
    BY <1>1, <1>2, CurrentIs DEF EditorTypeOK
  <2> QED BY <1>1, <1>2, <2>1, <2>2, <2>3 DEF EditorTypeOK, Current
<1>5. VersionsInv'
  <2>1. TaskFits(NoTask)'
    BY <1>3 DEF TaskFits
  <2>2. \A j \in Tasks : task[j].at = "done" => origin < task[j].base
    BY <1>1 DEF VersionsInv, TaskFits
  <2>3. window'.v = origin' /\ bar' <= origin' /\ unseen' \subseteq mixed' /\ mixed \subseteq mixed'
    BY <1>1, <1>2 DEF VersionsInv
  <2>4. origin' \in Nat /\ origin <= origin' /\ Current' \in Nat /\ Current <= Current'
    BY <1>2, TaskIs DEF Current
  <2>5. \A j \in Tasks : j # k /\ task[j].at = "done" =>
          NoTask.at # "done" /\ origin' < task[j].base
    BY <1>2, <1>3, <2>2
  <2> QED BY <1>2, <1>3, <2>1, <2>3, <2>4, <2>5, TaskMoves
<1>6. DialogInv'
  <2>1. misled' # {} => turned'
    BY <1>1, <1>2 DEF DialogInv
  <2>2. Steady
    BY <1>2 DEF Steady
  <2> QED BY <1>2, <1>3, <2>1, <2>2, DialogStaysAfter
<1>7. ASSUME ~raced' PROVE OneWriter'
  <2>1. OneWriter
    BY <1>2, <1>7 DEF EditorInv
  <2>2. task[k] # NoTask /\ task[k].at # "done" /\ NoTask.at # "done"
    BY <1>2, <1>3
  <2> QED BY <1>2, <1>3, <2>1, <2>2, WritersStay
<1> QED BY <1>4, <1>5, <1>6, <1>7 DEF EditorInv

LEMMA EditorNextHolds == ASSUME EditorInv, EditorNext PROVE EditorInv'
<1>1. ASSUME NEW k \in Tasks, Step(k) PROVE EditorInv'
  BY <1>1, ConfirmSaveHolds, ConfirmRestoreHolds, ReconcileHolds, SaveSyncedHolds,
     RequestSaveVersionHolds, RequestRestoreVersionHolds, PostReconcileHolds, ServedHolds,
     LostHolds, RefusedHolds, TaskAnsweredHolds, HistoryRefreshedHolds DEF Step
<1> QED BY <1>1, EditHolds, AutosaveSendsHolds, AutosaveServedHolds, AutosaveAnsweredHolds,
           OpenHistoryHolds, OnHistorySelectHolds, OnRestoreHolds, DismissDialogHolds,
           OtherTabSavesHolds, OtherSavesHolds DEF EditorNext

LEMMA EditorRestsStill == ASSUME EditorInv, UNCHANGED editorVars PROVE EditorInv'
<1>1. UNCHANGED <<log, draft, canvas, edits, window, bar, history, dialog, task, auto,
                  origin, unseen, mixed, misled, turned, raced, toolbarClicks>>
  BY DEF editorVars, editorTables
<1>2. EditorTypeOK'
  BY <1>1 DEF EditorInv, EditorTypeOK, Current
<1>3. VersionsInv'
  <2>1. auto'.at = "sent" => auto'.c \in Canvas
    BY <1>1 DEF EditorInv, VersionsInv
  <2> QED BY <1>1, <2>1, TasksStay, CurrentIs DEF EditorInv, Current
<1>4. DialogInv'
  BY <1>1, DialogStays DEF Steady
<1> QED BY <1>1, <1>2, <1>3, <1>4, WritersRest DEF EditorInv

-----------------------------------------------------------------------------
(* The theorems.                                                            *)

\* What the page knows of versions is no newer than its canvas, what the dialog named is
\* what is selected or the selection turned, and a writer alone leaves nothing behind.
THEOREM EditorInductive == EditorSpec => []EditorInv
<1>1. EditorInv /\ [EditorNext]_editorVars => EditorInv'
  BY EditorNextHolds, EditorRestsStill
<1> QED BY <1>1, EditorInitHolds, PTL DEF EditorSpec

\* A save from the toolbar replaces no version that its canvas was not made from, but the
\* one an answer put in the dict meanwhile; a restore is of the version that was asked
\* about, unless the selection turned; and with one writer at a time a page that is at
\* rest shows what a reload would show (topology_layout_bar.py, topology_layout_api.py).
THEOREM EditorPageCorrect == EditorSpec => []EditorPageHolds
<1>1. ASSUME EditorInv PROVE EditorPageHolds
  <2>1. EditorTypeOK /\ NothingUnseenIsReplaced /\ RestoresWhatWasAsked
    BY <1>1 DEF EditorInv, VersionsInv, DialogInv, NothingUnseenIsReplaced, RestoresWhatWasAsked
  <2>2. ASSUME Quiet, ~raced PROVE canvas = Reloaded
    <3>1. OneWriter /\ \A k \in Tasks : task[k] = NoTask
      BY <1>1, <2>2 DEF EditorInv, Quiet, Busy
    <3>2. \A k \in Tasks : task[k].at # "done"
      BY <3>1, EditorRests
    <3> QED BY <2>2, <3>1, <3>2 DEF OneWriter, Quiet
  <2> QED BY <2>1, <2>2 DEF EditorPageHolds, ReloadShowsTheSame
<1> QED BY <1>1, EditorInductive, PTL

-----------------------------------------------------------------------------
(***************************************************************************)
(* The table of the inventory and its bulk actions.                        *)
(*                                                                         *)
(* A row that nobody else changed is what the inventory has, but for the   *)
(* device whose answer is on its way: there the row is what it was, or     *)
(* already what the answer will make it.  The devices of a running action  *)
(* are to do, done, refused or skipped, and one that is done is no other.  *)
(***************************************************************************)

LEMMA TableRests ==
  /\ NoBulk \in Bulk /\ NoLoad \in Load /\ NoLoad.at = "none"
  /\ NoBulk.op = "none" /\ NoBulk.at = "idle" /\ NoBulk.late = FALSE
  /\ \A s \in {NoBulk.asked, NoBulk.chosen, NoBulk.todo, NoBulk.ok, NoBulk.failed,
               NoBulk.skipped} : s = {}
<1>1. [d \in Listed |-> Nil] \in Copies
  BY DEF Copies
<1> QED BY <1>1 DEF NoBulk, NoLoad, Bulk, Load

LEMMA TableInitHolds == TableInit => TableInv
<1>1. SUFFICES ASSUME TableInit PROVE TableInv
  OBVIOUS
<1>2. dev \in Copies /\ all = dev
  BY <1>1 DEF TableInit, Copies
<1>3. parent \in [Listed -> Listed \cup {Nil}]
  BY <1>1 DEF TableInit
<1>4. /\ linked \subseteq Listed /\ placed \subseteq Listed /\ orphans \subseteq Listed
      /\ listing = Listed /\ selected = {} /\ off = {} /\ finished = Nil
      /\ filter \in [tags : SUBSET Labels, orphan : BOOLEAN] /\ locations = Nil
  BY <1>1 DEF TableInit, NoFilter
<1>5. bulk = NoBulk /\ load = [l \in Loads |-> NoLoad]
  BY <1>1 DEF TableInit
<1>6. TableTypeOK
  BY <1>2, <1>3, <1>4, <1>5, TableRests DEF TableTypeOK
<1>7. RowsInv
  BY <1>2, <1>5, TableRests DEF RowsInv
<1>8. SelectionInv
  BY <1>4, <1>5, TableRests DEF SelectionInv, SelectionIsLeft
<1> QED BY <1>6, <1>7, <1>8 DEF TableInv

-----------------------------------------------------------------------------
(* What a step leaves.                                                      *)

\* The table after it was filtered anew.
LEMMA FiltersTyped ==
  ASSUME NEW c \in Copies, NEW f \in [tags : SUBSET Labels, orphan : BOOLEAN],
         NEW o \in SUBSET Listed, NEW s \in SUBSET Listed, NEW clear \in BOOLEAN,
         ApplyFilters(c, f, o, s, clear)
  PROVE  /\ all' = c /\ filter' = f /\ orphans' = o
         /\ listing' \subseteq Listed /\ selected' \subseteq listing'
         /\ selected' = IF clear THEN {} ELSE s \cap listing'
BY DEF ApplyFilters, Filtered, Present, SyncSelection

\* The rows of an action that was answered.
LEMMA SuccessTyped ==
  ASSUME TableTypeOK, NEW c \in Copies, NEW ok \in SUBSET Listed
  PROVE  /\ OnSuccess(c, bulk, ok) \in Copies
         /\ \A d \in Listed \ ok : OnSuccess(c, bulk, ok)[d] = c[d]
         /\ \A d \in ok : OnSuccess(c, bulk, ok)[d] = OnSuccess(c, bulk, {d})[d]
<1>1. bulk \in Bulk /\ (bulk.op \in {"add", "remove"} => bulk.arg \in Labels)
  BY DEF TableTypeOK
<1>2. \A d \in Listed : c[d] \in (SUBSET Labels) \cup {Nil}
  BY DEF Copies
<1>3. \A d \in Listed :
        (IF d \notin ok \/ c[d] = Nil THEN c[d]
         ELSE CASE bulk.op = "add" -> c[d] \cup {bulk.arg}
                [] bulk.op = "remove" -> c[d] \ {bulk.arg}
                [] OTHER -> Nil) \in (SUBSET Labels) \cup {Nil}
  BY <1>1, <1>2
<1> QED BY <1>3 DEF OnSuccess, Copies

\* To do again what was done changes nothing.
LEMMA SuccessAgain ==
  ASSUME TableTypeOK, bulk.now \in Listed, NEW c \in Copies, c[bulk.now] = dev[bulk.now],
         bulk.op = "add" => bulk.arg \in dev[bulk.now],
         bulk.op = "remove" => bulk.arg \notin dev[bulk.now],
         bulk.op \notin {"add", "remove"} => dev[bulk.now] = Nil
  PROVE  OnSuccess(c, bulk, {bulk.now})[bulk.now] = dev[bulk.now]
BY DEF OnSuccess

LEMMA RowsStay ==
  ASSUME RowsInv, UNCHANGED <<dev, all, off, bulk, load>>
  PROVE  RowsInv'
BY DEF RowsInv, OnSuccess

\* Someone else changes d.
LEMMA RowsOvertaken ==
  ASSUME TableTypeOK, RowsInv, SelectionInv, NEW d \in Listed, Overtakes(d), all' = all,
         \A x \in Listed \ {d} : dev'[x] = dev[x],
         \A l \in Loads : load'[l].at = "served" =>
            load[l].at = "served" /\ load'[l].copy = load[l].copy
            /\ load'[l].stale = load[l].stale \cup {d}
  PROVE  RowsInv'
<1>1. /\ off' = off \cup {d} /\ bulk \in Bulk
      /\ bulk' = [bulk EXCEPT !.late = @ \/ (d = bulk.now /\ bulk.at = "done")]
  BY DEF Overtakes, TableTypeOK
<1>2. /\ bulk'.now = bulk.now /\ bulk'.at = bulk.at /\ bulk'.op = bulk.op /\ bulk'.arg = bulk.arg
      /\ bulk'.late = (bulk.late \/ (d = bulk.now /\ bulk.at = "done"))
  BY <1>1 DEF Bulk
<1>3. \A l \in Loads : load'[l].at = "served" =>
        \A x \in Listed \ load'[l].stale : load'[l].copy[x] = dev'[x]
  BY DEF RowsInv
<1>4. \A x \in Listed \ off' : x # bulk'.now \/ bulk'.at # "done" => all'[x] = dev'[x]
  BY <1>1, <1>2 DEF RowsInv
<1>5. ASSUME bulk'.at = "done", ~bulk'.late, bulk.now \in Listed
      PROVE  /\ bulk'.op = "add" => bulk'.arg \in dev'[bulk'.now]
             /\ bulk'.op = "remove" => bulk'.arg \notin dev'[bulk'.now]
             /\ bulk'.op \notin {"add", "remove"} => dev'[bulk'.now] = Nil
             /\ bulk'.now \notin off' => OnSuccess(all', bulk', {bulk'.now})[bulk'.now] = dev'[bulk'.now]
  <2>1. bulk.now # d /\ bulk.at = "done" /\ ~bulk.late /\ dev'[bulk.now] = dev[bulk.now]
    BY <1>2, <1>5
  <2> QED BY <1>1, <1>2, <2>1 DEF RowsInv, OnSuccess
<1>6. bulk'.at = "done" => bulk.now \in Listed
  BY <1>1, <1>2 DEF SelectionInv, Bulk
<1> QED BY <1>2, <1>3, <1>4, <1>5, <1>6 DEF RowsInv

\* The action that runs stays as it is, and either nothing was selected or what ended is past.
LEMMA SelectionGoesOn ==
  ASSUME SelectionInv, selected' \subseteq listing', finished' = Nil, bulk' = bulk
  PROVE  SelectionInv'
BY DEF SelectionInv, SelectionIsLeft

LEMMA SelectionRests ==
  ASSUME SelectionInv, UNCHANGED <<selected, listing, finished, bulk>>
  PROVE  SelectionInv'
BY DEF SelectionInv, SelectionIsLeft

-----------------------------------------------------------------------------
(* Filters, loads, and others.                                              *)

LEMMA SetFilterHolds == ASSUME TableInv, SetFilter PROVE TableInv'
<1>1. TableTypeOK /\ RowsInv /\ SelectionInv
  BY DEF TableInv
<1>2. PICK f \in [tags : SUBSET Labels, orphan : BOOLEAN] :
        /\ ApplyFilters(all, f, orphans, selected, TRUE) /\ finished' = Nil
        /\ UNCHANGED <<dev, parent, linked, placed, locations, bulk, load, spent, off>>
  BY DEF SetFilter, server
<1>3. /\ all' = all /\ filter' = f /\ orphans' = orphans
      /\ listing' \subseteq Listed /\ selected' \subseteq listing'
  BY <1>1, <1>2, FiltersTyped DEF TableTypeOK
<1>4. TableTypeOK'
  BY <1>1, <1>2, <1>3 DEF TableTypeOK
<1> QED BY <1>1, <1>2, <1>3, <1>4, RowsStay, SelectionGoesOn DEF TableInv

LEMMA OnTableSelectHolds == ASSUME TableInv, OnTableSelect PROVE TableInv'
<1>1. TableTypeOK /\ RowsInv /\ SelectionInv
  BY DEF TableInv
<1>2. /\ selected' \subseteq listing /\ finished' = Nil
      /\ UNCHANGED <<dev, parent, linked, placed, all, orphans, filter, listing, locations,
                     bulk, load, spent, off>>
  BY DEF OnTableSelect, server
<1>3. TableTypeOK'
  BY <1>1, <1>2 DEF TableTypeOK
<1> QED BY <1>1, <1>2, <1>3, RowsStay, SelectionGoesOn DEF TableInv

\* What Overtakes leaves of the action that runs.
LEMMA Overtaken ==
  ASSUME TableTypeOK, SelectionInv, NEW d \in Listed, Overtakes(d),
         UNCHANGED <<selected, listing, finished>>
  PROVE  /\ SelectionInv' /\ bulk' \in Bulk /\ off' \subseteq Listed
         /\ bulk'.op \in {"add", "remove"} => bulk'.arg \in Labels
<1>1. /\ off' = off \cup {d} /\ bulk \in Bulk
      /\ bulk' = [bulk EXCEPT !.late = @ \/ (d = bulk.now /\ bulk.at = "done")]
  BY DEF Overtakes, TableTypeOK
<1>2. /\ bulk' \in Bulk /\ bulk'.op = bulk.op /\ bulk'.arg = bulk.arg /\ bulk'.at = bulk.at
      /\ bulk'.now = bulk.now /\ bulk'.asked = bulk.asked /\ bulk'.chosen = bulk.chosen
      /\ bulk'.todo = bulk.todo /\ bulk'.ok = bulk.ok /\ bulk'.failed = bulk.failed
      /\ bulk'.skipped = bulk.skipped
  BY <1>1 DEF Bulk
<1>3. SelectionInv'
  BY <1>2 DEF SelectionInv, SelectionIsLeft
<1> QED BY <1>1, <1>2, <1>3 DEF TableTypeOK

LEMMA DeleteOneHolds == ASSUME TableInv, DeleteOne PROVE TableInv'
<1>1. TableTypeOK /\ RowsInv /\ SelectionInv
  BY DEF TableInv
<1>2. PICK d \in listing \cap Present(dev), l \in Loads :
        /\ dev' = [dev EXCEPT ![d] = Nil] /\ linked' = linked \ {d} /\ placed' = placed \ {d}
        /\ Overtakes(d)
        /\ load' = [k \in Loads |-> IF k = l THEN [NoLoad EXCEPT !.at = "asked"]
                                    ELSE [load[k] EXCEPT !.stale = @ \cup {d}]]
        /\ UNCHANGED <<parent, all, orphans, filter, listing, selected, locations, finished>>
  BY DEF DeleteOne, table
<1>3. d \in Listed
  BY <1>1, <1>2 DEF TableTypeOK
<1>4. /\ dev' \in Copies /\ \A x \in Listed \ {d} : dev'[x] = dev[x]
  BY <1>1, <1>2 DEF TableTypeOK, Copies
<1>5. load' \in [Loads -> Load]
  <2>1. [NoLoad EXCEPT !.at = "asked"] \in Load
    BY TableRests DEF Load
  <2>2. \A k \in Loads : [load[k] EXCEPT !.stale = @ \cup {d}] \in Load
    BY <1>1, <1>3 DEF TableTypeOK, Load
  <2> QED BY <1>2, <2>1, <2>2
<1>6. \A k \in Loads : load'[k].at = "served" =>
        load[k].at = "served" /\ load'[k].copy = load[k].copy
        /\ load'[k].stale = load[k].stale \cup {d}
  BY <1>1, <1>2, TableRests DEF TableTypeOK, Load
<1>7. RowsInv'
  BY <1>1, <1>2, <1>3, <1>4, <1>6, RowsOvertaken
<1>8. /\ SelectionInv' /\ bulk' \in Bulk /\ off' \subseteq Listed
      /\ bulk'.op \in {"add", "remove"} => bulk'.arg \in Labels
  BY <1>1, <1>2, <1>3, Overtaken
<1>9. TableTypeOK'
  BY <1>1, <1>2, <1>4, <1>5, <1>8 DEF TableTypeOK
<1> QED BY <1>7, <1>8, <1>9 DEF TableInv

LEMMA OthersChangeHolds == ASSUME TableInv, OthersChange PROVE TableInv'
<1>1. TableTypeOK /\ RowsInv /\ SelectionInv
  BY DEF TableInv
<1>2. PICK d \in Present(dev) :
        /\ \/ \E t \in Labels : /\ dev' = [dev EXCEPT ![d] = IF t \in @ THEN @ \ {t} ELSE @ \cup {t}]
                                /\ UNCHANGED <<linked, placed>>
           \/ dev' = [dev EXCEPT ![d] = Nil] /\ linked' = linked \ {d} /\ placed' = placed \ {d}
           \/ \E e \in Present(dev) \ {d} : linked' = linked \cup {d, e} /\ UNCHANGED <<dev, placed>>
           \/ placed' = placed \cup {d} /\ UNCHANGED <<dev, linked>>
        /\ Changed(d) /\ Overtakes(d)
        /\ UNCHANGED <<parent, all, orphans, filter, listing, selected, locations, finished>>
  BY DEF OthersChange, table
<1>3. d \in Listed /\ dev[d] # Nil /\ Present(dev) \subseteq Listed
  BY <1>2 DEF Present
<1>4. /\ dev' \in Copies /\ \A x \in Listed \ {d} : dev'[x] = dev[x]
      /\ linked' \subseteq Listed /\ placed' \subseteq Listed
  <2>1. dev[d] \in SUBSET Labels /\ dev \in Copies
    BY <1>1, <1>3 DEF TableTypeOK, Copies
  <2>2. CASE \E t \in Labels : /\ dev' = [dev EXCEPT ![d] = IF t \in @ THEN @ \ {t} ELSE @ \cup {t}]
                               /\ UNCHANGED <<linked, placed>>
    BY <1>1, <1>3, <2>1, <2>2 DEF TableTypeOK, Copies
  <2>3. CASE dev' = [dev EXCEPT ![d] = Nil] /\ linked' = linked \ {d} /\ placed' = placed \ {d}
    BY <1>1, <1>3, <2>1, <2>3 DEF TableTypeOK, Copies
  <2>4. CASE \E e \in Present(dev) \ {d} : linked' = linked \cup {d, e} /\ UNCHANGED <<dev, placed>>
    BY <1>1, <1>3, <2>1, <2>4 DEF TableTypeOK
  <2>5. CASE placed' = placed \cup {d} /\ UNCHANGED <<dev, linked>>
    BY <1>1, <1>3, <2>1, <2>5 DEF TableTypeOK
  <2> QED BY <1>2, <2>2, <2>3, <2>4, <2>5
<1>5. load' = [k \in Loads |-> [load[k] EXCEPT !.stale = @ \cup {d}]]
  BY <1>2 DEF Changed
<1>6. load' \in [Loads -> Load]
  BY <1>1, <1>3, <1>5 DEF TableTypeOK, Load
<1>7. \A k \in Loads : load'[k].at = "served" =>
        load[k].at = "served" /\ load'[k].copy = load[k].copy
        /\ load'[k].stale = load[k].stale \cup {d}
  BY <1>1, <1>5 DEF TableTypeOK, Load
<1>8. RowsInv'
  BY <1>1, <1>2, <1>3, <1>4, <1>7, RowsOvertaken
<1>9. /\ SelectionInv' /\ bulk' \in Bulk /\ off' \subseteq Listed
      /\ bulk'.op \in {"add", "remove"} => bulk'.arg \in Labels
  BY <1>1, <1>2, <1>3, Overtaken
<1>10. TableTypeOK'
  BY <1>1, <1>2, <1>4, <1>6, <1>9 DEF TableTypeOK
<1> QED BY <1>8, <1>9, <1>10 DEF TableInv

LEMMA ServeLoadHolds == ASSUME TableInv, NEW l \in Loads, ServeLoad(l) PROVE TableInv'
<1>1. TableTypeOK /\ RowsInv /\ SelectionInv
  BY DEF TableInv
<1>2. PICK u : u = [at |-> "served", copy |-> dev, stale |-> {}]
  OBVIOUS
<1>3. /\ load' = [load EXCEPT ![l] = u]
      /\ UNCHANGED <<dev, parent, linked, placed, all, orphans, filter, listing, selected,
                     locations, bulk, spent, finished, off>>
  BY <1>2 DEF ServeLoad, server, table
<1>4. u \in Load /\ u.copy = dev
  BY <1>1, <1>2 DEF TableTypeOK, Load
<1>5. load' \in [Loads -> Load] /\ \A k \in Loads : load'[k] = IF k = l THEN u ELSE load[k]
  BY <1>1, <1>3, <1>4 DEF TableTypeOK
<1>6. RowsInv'
  BY <1>1, <1>3, <1>4, <1>5 DEF RowsInv, OnSuccess
<1>7. TableTypeOK'
  BY <1>1, <1>3, <1>5 DEF TableTypeOK
<1> QED BY <1>1, <1>3, <1>6, <1>7, SelectionRests DEF TableInv

\* A copy comes that may be older than what was answered.
LEMMA Devices1Holds == ASSUME TableInv, NEW l \in Loads, Devices1(l) PROVE TableInv'
<1>1. TableTypeOK /\ RowsInv /\ SelectionInv
  BY DEF TableInv
<1>2. PICK u : u = [NoLoad EXCEPT !.at = "devices"]
  OBVIOUS
<1>3. /\ load[l].at = "served" /\ all' = load[l].copy /\ off' = load[l].stale
      /\ load' = [load EXCEPT ![l] = u]
      /\ UNCHANGED <<dev, parent, linked, placed, orphans, filter, listing, selected,
                     locations, bulk, spent, finished>>
  BY <1>2 DEF Devices1, server
<1>4. u \in Load /\ u.at = "devices"
  BY <1>2, TableRests DEF Load
<1>5. load' \in [Loads -> Load] /\ \A k \in Loads : load'[k] = IF k = l THEN u ELSE load[k]
  BY <1>1, <1>3, <1>4 DEF TableTypeOK
<1>6. all' \in Copies /\ off' \subseteq Listed
  BY <1>1, <1>3 DEF TableTypeOK, Load
<1>7. \A d \in Listed \ off' : all'[d] = dev[d]
  BY <1>1, <1>3 DEF RowsInv
<1>8. RowsInv'
  <2>1. \A k \in Loads : load'[k].at = "served" =>
          \A d \in Listed \ load'[k].stale : load'[k].copy[d] = dev'[d]
    BY <1>1, <1>3, <1>4, <1>5 DEF RowsInv
  <2>2. ASSUME bulk.at = "done", ~bulk.late
        PROVE  /\ bulk.op = "add" => bulk.arg \in dev[bulk.now]
               /\ bulk.op = "remove" => bulk.arg \notin dev[bulk.now]
               /\ bulk.op \notin {"add", "remove"} => dev[bulk.now] = Nil
               /\ bulk.now \notin off' => OnSuccess(all', bulk, {bulk.now})[bulk.now] = dev[bulk.now]
    <3>1. bulk.now \in Listed
      BY <1>1, <2>2 DEF SelectionInv, TableTypeOK, Bulk
    <3>2. /\ bulk.op = "add" => bulk.arg \in dev[bulk.now]
          /\ bulk.op = "remove" => bulk.arg \notin dev[bulk.now]
          /\ bulk.op \notin {"add", "remove"} => dev[bulk.now] = Nil
      BY <1>1, <2>2 DEF RowsInv
    <3>3. bulk.now \notin off' => all'[bulk.now] = dev[bulk.now]
      BY <1>7, <3>1
    <3> QED BY <1>1, <1>6, <3>1, <3>2, <3>3, SuccessAgain
  <2>3. OnSuccess(all, bulk, {bulk.now})' = OnSuccess(all', bulk, {bulk.now})
    BY <1>3 DEF OnSuccess
  <2> QED BY <1>3, <1>7, <2>1, <2>2, <2>3 DEF RowsInv
<1>9. TableTypeOK'
  BY <1>1, <1>3, <1>5, <1>6 DEF TableTypeOK
<1> QED BY <1>1, <1>3, <1>8, <1>9, SelectionRests DEF TableInv

LEMMA LoadFailsHolds == ASSUME TableInv, NEW l \in Loads, LoadFails(l) PROVE TableInv'
<1>1. TableTypeOK /\ RowsInv /\ SelectionInv
  BY DEF TableInv
<1>2. PICK u : u = [NoLoad EXCEPT !.at = "devices"]
  OBVIOUS
<1>3. /\ all' = [d \in Listed |-> Nil] /\ off' = Listed /\ load' = [load EXCEPT ![l] = u]
      /\ UNCHANGED <<dev, parent, linked, placed, orphans, filter, listing, selected,
                     locations, bulk, spent, finished>>
  BY <1>2 DEF LoadFails, server
<1>4. u \in Load /\ u.at = "devices"
  BY <1>2, TableRests DEF Load
<1>5. load' \in [Loads -> Load] /\ \A k \in Loads : load'[k] = IF k = l THEN u ELSE load[k]
  BY <1>1, <1>3, <1>4 DEF TableTypeOK
<1>6. all' \in Copies
  BY <1>3 DEF Copies
<1>7. RowsInv'
  <2>1. \A k \in Loads : load'[k].at = "served" =>
          \A d \in Listed \ load'[k].stale : load'[k].copy[d] = dev'[d]
    BY <1>1, <1>3, <1>4, <1>5 DEF RowsInv
  <2>2. bulk.at = "done" => bulk.now \in Listed
    BY <1>1 DEF SelectionInv, TableTypeOK, Bulk
  <2> QED BY <1>1, <1>3, <2>1, <2>2 DEF RowsInv
<1>8. TableTypeOK'
  BY <1>1, <1>3, <1>5, <1>6 DEF TableTypeOK
<1> QED BY <1>1, <1>3, <1>7, <1>8, SelectionRests DEF TableInv

LEMMA PlacementHolds == ASSUME TableInv, NEW l \in Loads, Placement(l) PROVE TableInv'
<1>1. TableTypeOK /\ RowsInv /\ SelectionInv
  BY DEF TableInv
<1>2. PICK o \in {Present(all) \ placed, {}} :
        /\ ApplyFilters(all, filter, o, selected, TRUE)
        /\ load' = [load EXCEPT ![l] = NoLoad] /\ finished' = Nil
        /\ UNCHANGED <<dev, parent, linked, placed, locations, bulk, spent, off>>
  BY DEF Placement, server
<1>3. o \in SUBSET Listed
  BY <1>2 DEF Present
<1>4. /\ all' = all /\ filter' = filter /\ orphans' = o
      /\ listing' \subseteq Listed /\ selected' \subseteq listing'
  BY <1>1, <1>2, <1>3, FiltersTyped DEF TableTypeOK
<1>5. load' \in [Loads -> Load] /\ \A k \in Loads : load'[k] = IF k = l THEN NoLoad ELSE load[k]
  BY <1>1, <1>2, TableRests DEF TableTypeOK
<1>6. RowsInv'
  BY <1>1, <1>2, <1>4, <1>5, TableRests DEF RowsInv, OnSuccess
<1>7. TableTypeOK'
  BY <1>1, <1>2, <1>3, <1>4, <1>5 DEF TableTypeOK
<1> QED BY <1>1, <1>2, <1>4, <1>6, <1>7, SelectionGoesOn DEF TableInv

-----------------------------------------------------------------------------
(* Bulk actions.                                                            *)

LEMMA RunBulkHolds ==
  ASSUME TableInv, NEW op \in {"add", "remove", "delete"}, NEW arg \in Labels \cup {Nil},
         op # "delete" => arg \in Labels, RunBulk(op, arg)
  PROVE  TableInv'
<1>1. TableTypeOK /\ RowsInv /\ SelectionInv
  BY DEF TableInv
<1>2. /\ bulk = NoBulk
      /\ bulk' = [NoBulk EXCEPT !.op = op, !.arg = arg, !.at = "ready",
                                !.asked = selected, !.chosen = SelectedDevices,
                                !.todo = SelectedDevices]
      /\ finished' = Nil
      /\ UNCHANGED <<dev, parent, linked, placed, all, orphans, filter, listing, selected,
                     locations, load, off>>
  BY DEF RunBulk, server, table
<1>3. SelectedDevices \subseteq selected /\ selected \subseteq Listed /\ selected \subseteq listing
  BY <1>1 DEF SelectedDevices, TableTypeOK, SelectionInv, SelectionIsLeft
<1>4. /\ bulk' \in Bulk /\ bulk'.op = op /\ bulk'.arg = arg /\ bulk'.at = "ready"
      /\ bulk'.asked = selected /\ bulk'.chosen = SelectedDevices
      /\ bulk'.todo = SelectedDevices /\ bulk'.ok = {} /\ bulk'.failed = {} /\ bulk'.skipped = {}
  <2>1. NoBulk \in Bulk /\ NoBulk.ok = {} /\ NoBulk.failed = {} /\ NoBulk.skipped = {}
    BY TableRests
  <2>2. selected \in SUBSET Listed /\ SelectedDevices \in SUBSET Listed
    BY <1>3
  <2> QED BY <1>2, <2>1, <2>2 DEF Bulk
<1>5. bulk.at = "idle"
  BY <1>2, TableRests
<1>6. RowsInv'
  BY <1>1, <1>2, <1>4, <1>5 DEF RowsInv
<1>7. SelectionInv'
  BY <1>2, <1>3, <1>4 DEF SelectionInv, SelectionIsLeft
<1>8. TableTypeOK'
  BY <1>1, <1>2, <1>4 DEF TableTypeOK
<1> QED BY <1>6, <1>7, <1>8 DEF TableInv

\* What Aim leaves of the action that runs.
LEMMA Aims ==
  ASSUME TableTypeOK, SelectionInv, NEW at \in {"checked", "done", "refused"}, Aim(at),
         at = "checked" => bulk.op = "delete",
         UNCHANGED <<selected, listing, finished>>
  PROVE  /\ SelectionInv' /\ bulk' \in Bulk /\ bulk.at = "ready" /\ bulk'.at = at
         /\ bulk'.op = bulk.op /\ bulk'.arg = bulk.arg /\ bulk'.now \in Listed
         /\ bulk'.late = bulk.late
<1>1. PICK d \in bulk.todo : bulk' = [bulk EXCEPT !.now = d, !.at = at]
  BY DEF Aim
<1>2. bulk \in Bulk /\ d \in Listed /\ bulk.at = "ready" /\ bulk.op # "none"
  BY <1>1 DEF Aim, TableTypeOK, Bulk
<1>3. /\ bulk' \in Bulk /\ bulk'.at = at /\ bulk'.now = d /\ bulk'.late = bulk.late
      /\ bulk'.op = bulk.op /\ bulk'.arg = bulk.arg
      /\ bulk'.asked = bulk.asked /\ bulk'.chosen = bulk.chosen
      /\ bulk'.todo = bulk.todo /\ bulk'.ok = bulk.ok /\ bulk'.failed = bulk.failed
      /\ bulk'.skipped = bulk.skipped
  BY <1>1, <1>2 DEF Bulk
<1>4. SelectionInv'
  BY <1>1, <1>2, <1>3 DEF SelectionInv, SelectionIsLeft
<1> QED BY <1>2, <1>3, <1>4

\* The server changes the device of the action, and no load has seen it.
LEMMA ServedBulk ==
  ASSUME TableTypeOK, RowsInv, bulk.at # "done", NEW d \in Listed, bulk'.now = d,
         bulk'.at = "done", UNCHANGED <<all, off>>, Changed(d),
         \A x \in Listed \ {d} : dev'[x] = dev[x],
         /\ bulk'.op = "add" => bulk'.arg \in dev'[d]
         /\ bulk'.op = "remove" => bulk'.arg \notin dev'[d]
         /\ bulk'.op \notin {"add", "remove"} => dev'[d] = Nil
         /\ d \notin off => OnSuccess(all, bulk', {d})[d] = dev'[d]
  PROVE  RowsInv' /\ load' \in [Loads -> Load]
<1>1. load' = [l \in Loads |-> [load[l] EXCEPT !.stale = @ \cup {d}]] /\ load \in [Loads -> Load]
  BY DEF Changed, TableTypeOK
<1>2. load' \in [Loads -> Load]
  BY <1>1 DEF Load
<1>3. \A l \in Loads : load'[l].at = load[l].at /\ load'[l].copy = load[l].copy
                       /\ load'[l].stale = load[l].stale \cup {d}
  BY <1>1 DEF Load
<1>4. \A l \in Loads : load'[l].at = "served" =>
        \A x \in Listed \ load'[l].stale : load'[l].copy[x] = dev'[x]
  BY <1>3 DEF RowsInv
<1>5. \A x \in Listed \ off' : x # bulk'.now \/ bulk'.at # "done" => all'[x] = dev'[x]
  BY DEF RowsInv
<1>6. OnSuccess(all, bulk, {bulk.now})' = OnSuccess(all, bulk', {d})
  BY DEF OnSuccess
<1> QED BY <1>2, <1>4, <1>5, <1>6 DEF RowsInv

LEMMA ServeTagHolds == ASSUME TableInv, ServeTag PROVE TableInv'
<1>1. TableTypeOK /\ RowsInv /\ SelectionInv
  BY DEF TableInv
<1>2. PICK d : d = bulk'.now
  OBVIOUS
<1>3. /\ bulk.op \in {"add", "remove"} /\ Aim("done") /\ dev[d] # Nil /\ Changed(d)
      /\ dev' = [dev EXCEPT ![d] = IF bulk.op = "add" THEN @ \cup {bulk.arg} ELSE @ \ {bulk.arg}]
      /\ UNCHANGED <<parent, linked, placed, all, orphans, filter, listing, selected,
                     locations, spent, finished, off>>
  BY <1>2 DEF ServeTag, table
<1>4. /\ SelectionInv' /\ bulk' \in Bulk /\ bulk.at = "ready" /\ bulk'.at = "done"
      /\ bulk'.op = bulk.op /\ bulk'.arg = bulk.arg /\ d \in Listed
  BY <1>1, <1>2, <1>3, Aims
<1>5. dev \in Copies /\ dev[d] \in SUBSET Labels /\ bulk.arg \in Labels
  BY <1>1, <1>3, <1>4 DEF TableTypeOK, Copies
<1>6. /\ dev' \in Copies /\ \A x \in Listed \ {d} : dev'[x] = dev[x]
      /\ dev'[d] = IF bulk.op = "add" THEN dev[d] \cup {bulk.arg} ELSE dev[d] \ {bulk.arg}
  BY <1>3, <1>4, <1>5 DEF Copies
<1>7. d \notin off => OnSuccess(all, bulk', {d})[d] = dev'[d]
  <2>1. d \notin off => all[d] = dev[d]
    BY <1>1, <1>4 DEF RowsInv
  <2> QED BY <1>3, <1>4, <1>6, <2>1 DEF OnSuccess
<1>8. RowsInv' /\ load' \in [Loads -> Load]
  BY <1>1, <1>2, <1>3, <1>4, <1>6, <1>7, ServedBulk
<1>9. TableTypeOK'
  BY <1>1, <1>3, <1>4, <1>5, <1>6, <1>8 DEF TableTypeOK
<1> QED BY <1>4, <1>8, <1>9 DEF TableInv

\* Nothing but the request moves.
LEMMA AimHolds ==
  ASSUME TableInv, NEW at \in {"checked", "refused"}, Aim(at),
         at = "checked" => bulk.op = "delete",
         UNCHANGED <<dev, parent, linked, placed, all, orphans, filter, listing, selected,
                     locations, load, spent, finished, off>>
  PROVE  TableInv'
<1>1. TableTypeOK /\ RowsInv /\ SelectionInv
  BY DEF TableInv
<1>2. /\ SelectionInv' /\ bulk' \in Bulk /\ bulk.at = "ready" /\ bulk'.at = at
      /\ bulk'.op = bulk.op /\ bulk'.arg = bulk.arg
  BY <1>1, Aims
<1>3. RowsInv'
  BY <1>1, <1>2 DEF RowsInv
<1>4. TableTypeOK'
  BY <1>1, <1>2 DEF TableTypeOK
<1> QED BY <1>2, <1>3, <1>4 DEF TableInv

LEMMA SkippedHolds == ASSUME TableInv, Skipped PROVE TableInv'
<1>1. TableTypeOK /\ RowsInv /\ SelectionInv
  BY DEF TableInv
<1>2. PICK d \in bulk.todo \cap linked :
        bulk' = [bulk EXCEPT !.todo = @ \ {d}, !.skipped = @ \cup {d}]
  BY DEF Skipped
<1>3. /\ bulk.at = "ready" /\ ApplyFilters(all, filter, orphans, selected, FALSE)
      /\ UNCHANGED <<dev, parent, linked, placed, locations, load, spent, finished, off>>
  BY DEF Skipped, server
<1>4. /\ all' = all /\ filter' = filter /\ orphans' = orphans
      /\ listing' \subseteq Listed /\ selected' \subseteq listing'
  BY <1>1, <1>3, FiltersTyped DEF TableTypeOK
<1>5. /\ bulk' \in Bulk /\ bulk'.at = bulk.at /\ bulk'.now = bulk.now /\ bulk'.late = bulk.late
      /\ bulk'.op = bulk.op /\ bulk'.arg = bulk.arg
      /\ bulk'.asked = bulk.asked /\ bulk'.chosen = bulk.chosen
      /\ bulk'.todo = bulk.todo \ {d} /\ bulk'.ok = bulk.ok /\ bulk'.failed = bulk.failed
      /\ bulk'.skipped = bulk.skipped \cup {d}
  <2>1. bulk \in Bulk /\ bulk.todo \subseteq Listed /\ bulk.skipped \subseteq Listed
    BY <1>1 DEF TableTypeOK, Bulk
  <2> QED BY <1>2, <2>1 DEF Bulk
<1>6. RowsInv'
  BY <1>1, <1>3, <1>4, <1>5 DEF RowsInv
<1>7. SelectionInv'
  BY <1>1, <1>2, <1>3, <1>4, <1>5 DEF SelectionInv, SelectionIsLeft
<1>8. TableTypeOK'
  BY <1>1, <1>3, <1>4, <1>5 DEF TableTypeOK
<1> QED BY <1>6, <1>7, <1>8 DEF TableInv

LEMMA ServeDeleteHolds == ASSUME TableInv, ServeDelete PROVE TableInv'
<1> DEFINE d == bulk.now
           free == dev[d] # Nil /\ \A e \in Present(dev) : parent[e] # d
<1>1. TableTypeOK /\ RowsInv /\ SelectionInv
  BY DEF TableInv
<1>2. /\ bulk.at = "checked" /\ bulk' = [bulk EXCEPT !.at = IF free THEN "done" ELSE "refused"]
      /\ IF free
         THEN /\ dev' = [dev EXCEPT ![d] = Nil]
              /\ linked' = linked \ {d} /\ placed' = placed \ {d} /\ Changed(d)
         ELSE UNCHANGED <<dev, linked, placed, load>>
      /\ UNCHANGED <<parent, all, orphans, filter, listing, selected, locations, spent,
                     finished, off>>
  BY DEF ServeDelete, table
<1> HIDE DEF free
<1>3. d \in Listed /\ bulk.op = "delete" /\ bulk \in Bulk
  BY <1>1, <1>2 DEF SelectionInv, TableTypeOK, Bulk
<1>4. /\ bulk' \in Bulk /\ bulk'.at = (IF free THEN "done" ELSE "refused") /\ bulk'.now = d
      /\ bulk'.late = bulk.late /\ bulk'.op = "delete" /\ bulk'.arg = bulk.arg
      /\ bulk'.asked = bulk.asked /\ bulk'.chosen = bulk.chosen
      /\ bulk'.todo = bulk.todo /\ bulk'.ok = bulk.ok /\ bulk'.failed = bulk.failed
      /\ bulk'.skipped = bulk.skipped
  BY <1>2, <1>3 DEF Bulk
<1>5. SelectionInv'
  BY <1>1, <1>2, <1>4 DEF SelectionInv, SelectionIsLeft
<1>6. /\ dev' \in Copies /\ linked' \subseteq Listed /\ placed' \subseteq Listed
  BY <1>1, <1>2, <1>3 DEF TableTypeOK, Copies
<1>7. RowsInv' /\ load' \in [Loads -> Load]
  <2>1. CASE free
    <3>1. dev'[d] = Nil /\ \A x \in Listed \ {d} : dev'[x] = dev[x]
      BY <1>1, <1>2, <1>3, <2>1 DEF TableTypeOK, Copies
    <3>2. OnSuccess(all, bulk', {d})[d] = Nil
      BY <1>3, <1>4 DEF OnSuccess
    <3>3. bulk.at # "done" /\ bulk'.at = "done" /\ Changed(d) /\ UNCHANGED <<all, off>>
      BY <1>2, <1>4, <2>1
    <3> QED BY <1>1, <1>3, <1>4, <3>1, <3>2, <3>3, ServedBulk
  <2>2. CASE ~free
    BY <1>1, <1>2, <1>4, <2>2 DEF RowsInv, TableTypeOK
  <2> QED BY <2>1, <2>2
<1>8. TableTypeOK'
  BY <1>1, <1>2, <1>4, <1>6, <1>7 DEF TableTypeOK
<1> QED BY <1>5, <1>7, <1>8 DEF TableInv

\* The answer is applied to whatever copy the page has by now.
LEMMA SettleHolds == ASSUME TableInv, Settle PROVE TableInv'
<1> DEFINE d == bulk.now
           ok == IF bulk.at = "done" THEN {d} ELSE {}
           o  == IF bulk.op = "delete" THEN orphans \ ok ELSE orphans
<1>1. TableTypeOK /\ RowsInv /\ SelectionInv
  BY DEF TableInv
<1>2. /\ bulk.at \in {"done", "refused"}
      /\ bulk' = [bulk EXCEPT !.at = "ready", !.now = Nil, !.todo = @ \ {d}, !.late = FALSE,
                              !.ok = @ \cup ok, !.failed = @ \cup ({d} \ ok)]
      /\ off' = IF bulk.late /\ ok # {} THEN off \cup ok ELSE off
      /\ ApplyFilters(OnSuccess(all, bulk, ok), filter, o, selected, FALSE)
      /\ UNCHANGED <<dev, parent, linked, placed, locations, load, spent, finished>>
  BY DEF Settle, server
<1>3. d \in Listed /\ d \in bulk.todo /\ bulk \in Bulk
  BY <1>1, <1>2 DEF SelectionInv, TableTypeOK, Bulk
<1>4. ok \in SUBSET Listed /\ ok \subseteq {d} /\ o \in SUBSET Listed
  BY <1>1, <1>3 DEF TableTypeOK
<1>5. /\ OnSuccess(all, bulk, ok) \in Copies
      /\ \A x \in Listed \ ok : OnSuccess(all, bulk, ok)[x] = all[x]
      /\ \A x \in ok : OnSuccess(all, bulk, ok)[x] = OnSuccess(all, bulk, {x})[x]
  BY <1>1, <1>4, SuccessTyped DEF TableTypeOK
<1>6. /\ all' = OnSuccess(all, bulk, ok) /\ filter' = filter /\ orphans' = o
      /\ listing' \subseteq Listed /\ selected' \subseteq listing'
  BY <1>1, <1>2, <1>4, <1>5, FiltersTyped DEF TableTypeOK
<1>7. /\ bulk' \in Bulk /\ bulk'.at = "ready"
      /\ bulk'.op = bulk.op /\ bulk'.arg = bulk.arg
      /\ bulk'.asked = bulk.asked /\ bulk'.chosen = bulk.chosen
      /\ bulk'.todo = bulk.todo \ {d} /\ bulk'.ok = bulk.ok \cup ok
      /\ bulk'.failed = bulk.failed \cup ({d} \ ok) /\ bulk'.skipped = bulk.skipped
  <2>1. /\ bulk.todo \subseteq Listed /\ bulk.ok \subseteq Listed /\ bulk.failed \subseteq Listed
    BY <1>3 DEF Bulk
  <2> HIDE DEF ok, d
  <2> QED BY <1>2, <1>3, <1>4, <2>1 DEF Bulk
<1>8. SelectionInv'
  <2>1. finished' = Nil /\ bulk.op # "none"
    BY <1>1, <1>2 DEF SelectionInv
  <2>2. /\ bulk'.chosen = bulk'.todo \cup bulk'.ok \cup bulk'.failed \cup bulk'.skipped
        /\ bulk'.ok \cap (bulk'.todo \cup bulk'.failed \cup bulk'.skipped) = {}
        /\ bulk'.todo \cap (bulk'.failed \cup bulk'.skipped) = {}
    <3>1. /\ bulk.chosen = bulk.todo \cup bulk.ok \cup bulk.failed \cup bulk.skipped
          /\ bulk.ok \cap (bulk.todo \cup bulk.failed \cup bulk.skipped) = {}
          /\ bulk.todo \cap (bulk.failed \cup bulk.skipped) = {}
      BY <1>1 DEF SelectionInv
    <3>2. ok = {d} \/ ok = {}
      OBVIOUS
    <3> HIDE DEF ok, d
    <3>3. CASE ok = {d}
      <4>1. bulk'.ok = bulk.ok \cup {d} /\ bulk'.failed = bulk.failed
        BY <1>7, <3>3
      <4> QED BY <1>3, <1>7, <3>1, <4>1
    <3>4. CASE ok = {}
      <4>1. bulk'.ok = bulk.ok /\ bulk'.failed = bulk.failed \cup {d}
        BY <1>7, <3>4
      <4> QED BY <1>3, <1>7, <3>1, <4>1
    <3> QED BY <3>2, <3>3, <3>4
  <2> QED BY <1>1, <1>6, <1>7, <2>1, <2>2 DEF SelectionInv, SelectionIsLeft
<1>9. RowsInv'
  <2>1. ASSUME NEW x \in Listed \ off' PROVE all'[x] = dev'[x]
    <3>1. CASE x \notin ok
      <4>1. x # bulk.now \/ bulk.at # "done"
        BY <3>1
      <4>2. x \notin off
        BY <1>2, <2>1
      <4> QED BY <1>1, <1>2, <1>5, <1>6, <2>1, <3>1, <4>1, <4>2 DEF RowsInv
    <3>2. CASE x \in ok
      <4>1. x = bulk.now /\ bulk.at = "done" /\ ~bulk.late /\ x \notin off
        BY <1>2, <1>4, <2>1, <3>2
      <4>2. OnSuccess(all, bulk, {x})[x] = dev[x]
        BY <1>1, <4>1 DEF RowsInv
      <4> QED BY <1>2, <1>5, <1>6, <3>2, <4>2
    <3> QED BY <3>1, <3>2
  <2>2. \A l \in Loads : load'[l].at = "served" =>
          \A x \in Listed \ load'[l].stale : load'[l].copy[x] = dev'[x]
    BY <1>1, <1>2 DEF RowsInv
  <2> QED BY <1>7, <2>1, <2>2 DEF RowsInv
<1>10. TableTypeOK'
  <2>1. off' \subseteq Listed
    BY <1>1, <1>2, <1>4 DEF TableTypeOK
  <2> QED BY <1>1, <1>2, <1>4, <1>5, <1>6, <1>7, <2>1 DEF TableTypeOK
<1> QED BY <1>8, <1>9, <1>10 DEF TableInv

LEMMA FinishHolds ==
  ASSUME TableInv, NEW aborted \in BOOLEAN, Finish(aborted), bulk.at # "idle",
         aborted \/ bulk.todo = {}, ~aborted => bulk.at = "ready",
         off' = (IF bulk.at = "done" THEN off \cup {bulk.now} ELSE off)
  PROVE  TableInv'
<1>1. TableTypeOK /\ RowsInv /\ SelectionInv
  BY DEF TableInv
<1> DEFINE s == ResolveSelection(bulk, aborted)
<1>2. /\ bulk' = NoBulk /\ ApplyFilters(all, filter, orphans, s, FALSE)
      /\ finished' = [asked |-> bulk.asked, chosen |-> bulk.chosen, ok |-> bulk.ok]
      /\ UNCHANGED <<dev, parent, linked, placed, locations, load, spent>>
  BY DEF Finish, server
<1>3. bulk \in Bulk
  BY <1>1 DEF TableTypeOK
<1>4. s \in SUBSET Listed /\ bulk.chosen \ bulk.ok \subseteq s /\ s \subseteq bulk.asked \ bulk.ok
  <2>1. /\ bulk.asked \subseteq Listed /\ bulk.failed \subseteq Listed /\ bulk.skipped \subseteq Listed
    BY <1>3 DEF Bulk
  <2>2. s = IF aborted THEN bulk.asked \ bulk.ok ELSE bulk.failed \cup bulk.skipped
    BY DEF ResolveSelection
  <2> QED BY <1>1, <2>1, <2>2 DEF SelectionInv
<1> HIDE DEF s
<1>5. /\ all' = all /\ filter' = filter /\ orphans' = orphans
      /\ listing' \subseteq Listed /\ selected' \subseteq listing' /\ selected' = s \cap listing'
  BY <1>1, <1>2, <1>4, FiltersTyped DEF TableTypeOK
<1>6. SelectionInv'
  <2>1. /\ finished'.asked = bulk.asked /\ finished'.chosen = bulk.chosen /\ finished'.ok = bulk.ok
    BY <1>2
  <2>2. SelectionIsLeft'
    BY <1>4, <1>5, <2>1 DEF SelectionIsLeft
  <2> QED BY <1>2, <2>2, TableRests DEF SelectionInv
<1>7. RowsInv'
  <2>1. bulk'.at = "idle"
    BY <1>2, TableRests
  <2>2. \A d \in Listed \ off' : all'[d] = dev'[d]
    BY <1>1, <1>2, <1>5 DEF RowsInv
  <2>3. \A l \in Loads : load'[l].at = "served" =>
          \A x \in Listed \ load'[l].stale : load'[l].copy[x] = dev'[x]
    BY <1>1, <1>2 DEF RowsInv
  <2> QED BY <2>1, <2>2, <2>3 DEF RowsInv
<1>8. TableTypeOK'
  <2>1. off' \subseteq Listed
    BY <1>1 DEF TableTypeOK, SelectionInv, Bulk
  <2> QED BY <1>1, <1>2, <1>5, <2>1, TableRests DEF TableTypeOK
<1> QED BY <1>6, <1>7, <1>8 DEF TableInv

LEMMA TableNextHolds == ASSUME TableInv, TableNext PROVE TableInv'
<1>1. CASE LoadStep
  BY <1>1, ServeLoadHolds, Devices1Holds, LoadFailsHolds, PlacementHolds DEF LoadStep
<1>2. CASE AddTag \/ RemoveTag \/ DeleteSelected
  BY <1>2, RunBulkHolds DEF AddTag, RemoveTag, DeleteSelected, CommonTags
<1>3. CASE ServeRefusal \/ Preflight
  BY <1>3, AimHolds DEF ServeRefusal, Preflight, server, table
<1>4. CASE BulkEnds \/ BulkAborts
  BY <1>4, FinishHolds DEF BulkEnds, BulkAborts
<1> QED BY <1>1, <1>2, <1>3, <1>4, SetFilterHolds, OnTableSelectHolds, DeleteOneHolds,
           ServeTagHolds, SkippedHolds, ServeDeleteHolds, SettleHolds, OthersChangeHolds
        DEF TableNext

LEMMA TableRestsStill == ASSUME TableInv, UNCHANGED tableVars PROVE TableInv'
<1>1. /\ UNCHANGED <<dev, parent, linked, placed, all, orphans, filter, listing, selected>>
      /\ UNCHANGED <<locations, bulk, load, spent, finished, off>>
  BY DEF tableVars, server, table
<1>2. TableTypeOK'
  BY <1>1 DEF TableInv, TableTypeOK
<1> QED BY <1>1, <1>2, RowsStay, SelectionRests DEF TableInv

-----------------------------------------------------------------------------
(* The theorems.                                                            *)

\* Until its answer is applied, the row of a device is what it was or already what it will
\* be, and a running action has each of its devices in one place.
THEOREM TableInductive == TableSpec => []TableInv
<1>1. TableInv /\ [TableNext]_tableVars => TableInv'
  BY TableNextHolds, TableRestsStill
<1> QED BY <1>1, TableInitHolds, PTL DEF TableSpec

\* However loads, single deletes and bulk actions overlap, the table shows what the inventory
\* has, but for rows that others changed, and what stays selected is what an action did not do.
THEOREM TableCorrect == TableSpec => []TableTellsInventory
<1>1. TableInv => TableTellsInventory
  BY DEF TableInv, TableTellsInventory, RowsInv, RowsTellInventory, SelectionInv
<1> QED BY <1>1, TableInductive, PTL

-----------------------------------------------------------------------------
(***************************************************************************)
(* The panel of a device.                                                  *)
(*                                                                         *)
(* Of a user who lets it settle, one thing at most is under way: a         *)
(* refresh, an edit or a duplication.  A refresh is of what is selected;   *)
(* between refreshes what is drawn is what was read, but for the edit      *)
(* under way.  And of two readings of a device with the same version the   *)
(* notes are the same: that is why the version an edit quotes vouches for  *)
(* the notes that its undo entry remembers.                                *)
(***************************************************************************)

\* What rests has its types.
LEMMA PanelRests ==
  /\ NoRefresh \in Refresh /\ NoRefresh.at = "none"
  /\ NoEdit \in Edits /\ NoEdit.at = "none" /\ NoCopy \in Duplication /\ NoCopy.at = "none"
  BY DEF NoRefresh, NoEdit, NoCopy, Refresh, Edits, Duplication

\* The invariant holds at first.
LEMMA PanelInitHolds == PanelInit => PanelInv
<1> SUFFICES ASSUME PanelInit PROVE PanelInv
  OBVIOUS
<1> USE PanelAssumption, PanelRests
<1>1. PICK here \in SUBSET Devices, v \in Values :
        /\ inv = [x \in Devices |-> IF x \notin here THEN Missing ELSE
                   [notes |-> v, field |-> v, parts |-> {}, version |-> 0]]
        /\ typed = [x \in Devices |-> IF x \in here THEN {v} ELSE {}]
  BY DEF PanelInit
<1>2. /\ sel = Missing /\ last = Missing /\ page = Missing /\ open = FALSE
      /\ runs = [r \in Refreshes |-> NoRefresh]
      /\ req = NoEdit /\ copy = NoCopy /\ entry = Missing
      /\ acts = 0 /\ hurried = FALSE /\ failed = FALSE /\ fresh = FALSE
  BY DEF PanelInit
<1>3. \A x \in Devices : inv[x] # Missing => x \in here /\ inv[x].notes = v /\ typed[x] = {v}
  BY <1>1
<1>4. [notes |-> v, field |-> v, parts |-> {}, version |-> 0] \in DeviceRow
  BY DEF DeviceRow
<1>5. inv \in [Devices -> DeviceRow \cup {Missing}] /\ typed \in [Devices -> SUBSET Values]
  BY <1>1, <1>4
<1>6. \A r \in Refreshes : runs[r].at = "none"
  BY <1>2
<1>7. PanelTypeOK
  BY <1>2, <1>5, <1>6 DEF PanelTypeOK
<1>8. NotesInv
  BY <1>2, <1>3, <1>6 DEF NotesInv, EditsLandWhereShown, EntriesTellWhatWas
<1>9. OneAtATime /\ RefreshInv /\ DrawnInv /\ EditInv
  BY <1>2, <1>6 DEF OneAtATime, RefreshInv, DrawnInv, EditInv, Free
<1> QED BY <1>7, <1>8, <1>9 DEF PanelInv

-----------------------------------------------------------------------------
(* What a step leaves.                                                      *)

\* The rows of a step are later ones, and their notes were given or typed.
Later ==
  \A d \in Devices :
    /\ typed[d] \subseteq typed'[d]
    /\ inv'[d] # Missing => inv'[d].notes \in typed'[d]
    /\ inv'[d] # Missing /\ typed[d] # {} =>
         /\ inv[d] # Missing
         /\ \/ inv[d].version < inv'[d].version
            \/ inv'[d].version = inv[d].version /\ inv'[d].notes = inv[d].notes

LEMMA SeenStays ==
  ASSUME PanelInv, PanelTypeOK', Later, NEW d \in Devices, NEW v \in Nat, NEW n, Seen(d, v, n)
  PROVE  Seen(d, v, n)'
<1>1. inv[d] # Missing => inv[d] \in DeviceRow /\ inv[d].version \in Nat
  BY DEF PanelInv, PanelTypeOK, DeviceRow
<1>2. inv'[d] # Missing => inv'[d] \in DeviceRow /\ inv'[d].version \in Nat
  BY DEF PanelTypeOK, DeviceRow
<1>3. typed'[d] # {}
  BY DEF Seen, Later
<1>4. ASSUME inv'[d] # Missing
      PROVE  v <= inv'[d].version /\ (v = inv'[d].version => n = inv'[d].notes)
  <2>1. /\ inv[d] # Missing
        /\ \/ inv[d].version < inv'[d].version
           \/ inv'[d].version = inv[d].version /\ inv'[d].notes = inv[d].notes
    BY <1>4 DEF Later, Seen
  <2>2. v <= inv[d].version /\ (v = inv[d].version => n = inv[d].notes)
    BY <2>1 DEF Seen
  <2> QED BY <2>1, <2>2, <1>1, <1>2, <1>4
<1> QED BY <1>3, <1>4 DEF Seen

\* A reading that was taken is still one; a new one is of a row that is there.
LEMMA NotesStay ==
  ASSUME PanelInv, PanelTypeOK', Later, EntriesTellWhatWas',
         req'.at = "sent" /\ req'.kind = "notes" => req'.to \in typed'[req'.id],
         \A r \in Refreshes : runs'[r].at \in {"answered", "rest"} =>
           \/ runs[r].at \in {"answered", "rest"} /\ runs'[r].got = runs[r].got
           \/ Seen(runs'[r].got.id, runs'[r].got.row.version, runs'[r].got.row.notes)
  PROVE  NotesInv'
<1>1. EditsLandWhereShown' /\ \A d \in Devices : inv'[d] # Missing => typed'[d] # {}
  BY DEF Later, EditsLandWhereShown
<1>2. ASSUME NEW r \in Refreshes, runs'[r].at \in {"answered", "rest"}
      PROVE  \E g \in Device :
               g = runs'[r].got /\ Seen(g.id, g.row.version, g.row.notes)'
  <2>1. PICK g \in Device : g = runs'[r].got
    BY <1>2 DEF PanelTypeOK
  <2>2. g.id \in Devices /\ g.row.version \in Nat
    BY <2>1 DEF Device, DeviceRow
  <2>3. Seen(g.id, g.row.version, g.row.notes)
    BY <1>2, <2>1 DEF PanelInv, NotesInv
  <2>4. Seen(g.id, g.row.version, g.row.notes)'
    BY <2>2, <2>3, SeenStays
  <2> QED BY <2>1, <2>4
<1> QED BY <1>1, <1>2 DEF NotesInv, Seen

\* A step that leaves the inventory and what was typed alone.
LEMMA LaterSame ==
  ASSUME PanelInv, UNCHANGED <<inv, typed>>
  PROVE  Later
<1>1. \A d \in Devices : inv[d] # Missing => inv[d] \in DeviceRow
  BY DEF PanelInv, PanelTypeOK
<1> QED BY <1>1 DEF Later, PanelInv, NotesInv, EditsLandWhereShown

\* A user who acts without hurry finds the panel settled.
LEMMA Settled ==
  ASSUME PanelInv, Act
  PROVE  /\ hurried' \in BOOLEAN
         /\ ~hurried' => /\ ~hurried /\ req.at = "none" /\ copy.at = "none"
                         /\ \A r \in Refreshes : Free(r)
  BY DEF Act, Count, quiet, Free, PanelInv, PanelTypeOK

\* One refresh changes.
LEMMA RunsChange ==
  ASSUME PanelInv, NEW r \in Refreshes, NEW x \in Refresh, runs' = [runs EXCEPT ![r] = x],
         x.at = "asking" => x.id \in Devices,
         x.at \in {"answered", "rest"} => x.got \in Device
  PROVE  /\ runs' \in [Refreshes -> Refresh] /\ runs'[r] = x
         /\ \A s \in Refreshes : s # r => runs'[s] = runs[s]
         /\ \A s \in Refreshes : /\ runs'[s].at = "asking" => runs'[s].id \in Devices
                                 /\ runs'[s].at \in {"answered", "rest"} => runs'[s].got \in Device
<1>1. runs \in [Refreshes -> Refresh]
  BY DEF PanelInv, PanelTypeOK
<1>2. /\ runs' \in [Refreshes -> Refresh] /\ runs'[r] = x
      /\ \A s \in Refreshes : s # r => runs'[s] = runs[s]
  BY <1>1
<1> QED BY <1>2 DEF PanelInv, PanelTypeOK

LEMMA Starts ==
  ASSUME PanelInv, NEW r \in Refreshes, NEW d \in Devices, StartRefresh(r, d)
  PROVE  /\ runs' \in [Refreshes -> Refresh]
         /\ runs[r].at = "none" /\ runs'[r].at = "asking" /\ runs'[r].id = d
         /\ \A s \in Refreshes : s # r => runs'[s] = runs[s]
         /\ \A s \in Refreshes : /\ runs'[s].at = "asking" => runs'[s].id \in Devices
                                 /\ runs'[s].at \in {"answered", "rest"} => runs'[s].got \in Device
<1> DEFINE x == [NoRefresh EXCEPT !.at = "asking", !.id = d]
<1>1. x \in Refresh /\ x.at = "asking" /\ x.id = d
  BY DEF NoRefresh, Refresh
<1>2. runs' = [runs EXCEPT ![r] = x] /\ runs[r].at = "none"
  BY DEF StartRefresh, Free
<1> HIDE DEF x
<1> QED BY <1>1, <1>2, RunsChange

LEMMA Queues ==
  ASSUME PanelInv, NEW r \in Refreshes, QueueRefresh(r)
  PROVE  /\ runs' \in [Refreshes -> Refresh]
         /\ runs[r].at = "none" /\ runs'[r].at = "queued"
         /\ \A s \in Refreshes : s # r => runs'[s] = runs[s]
         /\ \A s \in Refreshes : /\ runs'[s].at = "asking" => runs'[s].id \in Devices
                                 /\ runs'[s].at \in {"answered", "rest"} => runs'[s].got \in Device
<1> DEFINE x == [NoRefresh EXCEPT !.at = "queued"]
<1>1. x \in Refresh /\ x.at = "queued"
  BY DEF NoRefresh, Refresh
<1>2. runs' = [runs EXCEPT ![r] = x] /\ runs[r].at = "none"
  BY DEF QueueRefresh, Free
<1> HIDE DEF x
<1> QED BY <1>1, <1>2, RunsChange

-----------------------------------------------------------------------------
(* Selecting.                                                               *)

\* With a refresh under way there is nothing to tell of what is drawn.
LEMMA DrawnLater ==
  ASSUME NEW r \in Refreshes, runs'[r].at # "none"
  PROVE  DrawnInv'
  BY DEF DrawnInv, Free

LEMMA SelectHolds ==
  ASSUME PanelInv, NEW d \in Devices, Select(d)
  PROVE  PanelInv'
<1> USE PanelAssumption
<1>1. PICK r \in Refreshes : StartRefresh(r, d)
  BY DEF Select
<1>2. /\ runs' \in [Refreshes -> Refresh]
      /\ runs[r].at = "none" /\ runs'[r].at = "asking" /\ runs'[r].id = d
      /\ \A s \in Refreshes : s # r => runs'[s] = runs[s]
      /\ \A s \in Refreshes : /\ runs'[s].at = "asking" => runs'[s].id \in Devices
                              /\ runs'[s].at \in {"answered", "rest"} => runs'[s].got \in Device
  BY <1>1, Starts
<1>3. sel' = d /\ UNCHANGED <<inv, last, page, open, req, copy, entry, typed, failed, fresh>> /\ Act
  BY DEF Select
<1>4. /\ hurried' \in BOOLEAN
      /\ ~hurried' => /\ ~hurried /\ req.at = "none" /\ copy.at = "none"
                      /\ \A s \in Refreshes : Free(s)
  BY <1>3, Settled
<1>5. PanelTypeOK'
  BY <1>2, <1>3, <1>4 DEF PanelInv, PanelTypeOK
<1>6. NotesInv'
  <2>1. Later
    BY <1>3, LaterSame
  <2>2. \A s \in Refreshes : runs'[s].at \in {"answered", "rest"} =>
          runs[s].at \in {"answered", "rest"} /\ runs'[s].got = runs[s].got
    BY <1>2
  <2>3. EntriesTellWhatWas' /\ (req'.at = "sent" /\ req'.kind = "notes" => req'.to \in typed'[req'.id])
    BY <1>3 DEF PanelInv, NotesInv, EntriesTellWhatWas
  <2> QED BY <1>5, <2>1, <2>2, <2>3, NotesStay
<1>7. OneAtATime'
  BY <1>2, <1>3, <1>4 DEF OneAtATime, Free
<1>8. RefreshInv'
  <2>1. d # Missing
    OBVIOUS
  <2> QED BY <2>1, <1>2, <1>3, <1>4 DEF RefreshInv, Free
<1>9. DrawnInv'
  BY <1>2, DrawnLater
<1>10. EditInv'
  BY <1>3, <1>4 DEF EditInv
<1> QED BY <1>5, <1>6, <1>7, <1>8, <1>9, <1>10 DEF PanelInv

\* A step of the user that starts no refresh and sends nothing.
LEMMA NothingStarts ==
  ASSUME PanelInv, Act, UNCHANGED <<inv, typed, runs, copy, entry, failed, fresh>>,
         sel' \in Devices \cup {Missing}, last' \in Device \cup {Missing},
         page' \in Drawn \cup {Missing}, open' \in BOOLEAN,
         req' = req \/ req' = [req EXCEPT !.live = FALSE],
         ~hurried' /\ ~failed /\ page' # Missing =>
           /\ page' = page
           /\ sel' # Missing => sel' = sel /\ last' = last
           /\ open' => open /\ sel' = sel
  PROVE  PanelInv'
<1>1. /\ hurried' \in BOOLEAN
      /\ ~hurried' => /\ ~hurried /\ req.at = "none" /\ copy.at = "none"
                      /\ \A s \in Refreshes : Free(s)
  BY Settled
<1>2. /\ req' \in Edits /\ req'.at = req.at /\ req'.kind = req.kind /\ req'.id = req.id
      /\ req'.to = req.to /\ req'.before = req.before
  BY DEF PanelInv, PanelTypeOK, Edits
<1>3. PanelTypeOK'
  BY <1>1, <1>2 DEF PanelInv, PanelTypeOK
<1>4. NotesInv'
  BY <1>2 DEF PanelInv, NotesInv, EditsLandWhereShown, EntriesTellWhatWas, Seen
<1>5. OneAtATime' /\ RefreshInv'
  BY <1>1, <1>2 DEF OneAtATime, RefreshInv, Free
<1>6. EditInv'
  BY <1>1, <1>2 DEF EditInv
<1>7. DrawnInv'
  <2> SUFFICES ASSUME ~hurried', ~failed, page' # Missing
               PROVE  DrawnInv'
    BY DEF DrawnInv
  <2>1. /\ page' = page /\ sel' # Missing => page.id = sel' /\ last'.id = sel'
        /\ open' => sel' # Missing
    BY <1>1 DEF PanelInv, DrawnInv
  <2> QED BY <2>1, <1>1, <1>2 DEF DrawnInv, PanelInv, Seen, Same, Free
<1> QED BY <1>3, <1>4, <1>5, <1>6, <1>7 DEF PanelInv

LEMMA HideHolds ==
  ASSUME PanelInv, SelectDraft \/ HidePanel \/ Close
  PROVE  PanelInv'
<1>1. /\ Act /\ UNCHANGED <<inv, typed, runs, copy, entry, failed, fresh>>
      /\ req' = req \/ req' = [req EXCEPT !.live = FALSE]
  BY DEF SelectDraft, HidePanel, Close
<1>2. /\ sel' \in Devices \cup {Missing} /\ last' \in Device \cup {Missing}
      /\ page' \in Drawn \cup {Missing} /\ open' \in BOOLEAN
  BY DEF SelectDraft, HidePanel, Close, PanelInv, PanelTypeOK
<1>3. page' # Missing =>
        /\ page' = page
        /\ sel' # Missing => sel' = sel /\ last' = last
        /\ open' => open /\ sel' = sel
  BY DEF SelectDraft, HidePanel, Close
<1> QED BY <1>1, <1>2, <1>3, NothingStarts

-----------------------------------------------------------------------------
(* Refreshing.                                                              *)

\* A refresh that goes on is the only one, or the user hurried.
LEMMA RefreshGoesOn ==
  ASSUME PanelInv, NEW r \in Refreshes, ~Free(r), NEW x \in Refresh,
         runs' = [runs EXCEPT ![r] = x],
         x.at = "asking" => x.id \in Devices,
         x.at \in {"answered", "rest"} => x.got \in Device,
         UNCHANGED <<inv, sel, open, copy, entry, typed, hurried>>,
         last' \in Device \cup {Missing}, page' = page, req' = req,
         failed' \in BOOLEAN, fresh' \in BOOLEAN, failed => failed',
         x.at \in {"answered", "rest"} =>
           \/ runs[r].at \in {"answered", "rest"} /\ x.got = runs[r].got
           \/ Seen(x.got.id, x.got.row.version, x.got.row.notes),
         x.at = "none" => failed' \/ sel = Missing,
         ~hurried /\ ~failed' =>
           /\ x.at = "asking" => x.id = sel
           /\ x.at \in {"answered", "rest"} =>
                x.got.id = sel /\ (fresh' => inv[sel] = x.got.row)
           /\ x.at = "rest" => last' = x.got
  PROVE  PanelInv'
<1>1. /\ runs' \in [Refreshes -> Refresh] /\ runs'[r] = x
      /\ \A s \in Refreshes : s # r => runs'[s] = runs[s]
      /\ \A s \in Refreshes : /\ runs'[s].at = "asking" => runs'[s].id \in Devices
                              /\ runs'[s].at \in {"answered", "rest"} => runs'[s].got \in Device
  BY RunsChange
<1>2. PanelTypeOK'
  BY <1>1 DEF PanelInv, PanelTypeOK
<1>3. NotesInv'
  <2>1. Later
    BY LaterSame
  <2>2. \A s \in Refreshes : runs'[s].at \in {"answered", "rest"} =>
          \/ runs[s].at \in {"answered", "rest"} /\ runs'[s].got = runs[s].got
          \/ Seen(runs'[s].got.id, runs'[s].got.row.version, runs'[s].got.row.notes)
    BY <1>1
  <2>3. EntriesTellWhatWas' /\ (req'.at = "sent" /\ req'.kind = "notes" => req'.to \in typed'[req'.id])
    BY DEF PanelInv, NotesInv, EntriesTellWhatWas
  <2> QED BY <1>2, <2>1, <2>2, <2>3, NotesStay
<1>4. ~hurried => /\ req.at = "none" /\ copy.at = "none"
                  /\ \A s \in Refreshes : s # r => Free(s) /\ runs'[s].at = "none"
  BY <1>1 DEF PanelInv, OneAtATime, Free
<1>5. OneAtATime' /\ EditInv'
  BY <1>1, <1>4 DEF OneAtATime, EditInv, Free
<1>6. ~hurried /\ ~failed => sel # Missing
  BY DEF PanelInv, RefreshInv
<1>7. RefreshInv'
  BY <1>1, <1>4, <1>6 DEF RefreshInv, Free
<1>8. DrawnInv'
  BY <1>1, <1>4, <1>6 DEF DrawnInv, Free
<1> QED BY <1>2, <1>3, <1>5, <1>7, <1>8 DEF PanelInv

LEMMA BeginRefreshHolds ==
  ASSUME PanelInv, NEW r \in Refreshes, BeginRefresh(r)
  PROVE  PanelInv'
<1> DEFINE x == IF sel = Missing THEN NoRefresh
                ELSE [NoRefresh EXCEPT !.at = "asking", !.id = sel]
<1>1. /\ runs' = [runs EXCEPT ![r] = x] /\ ~Free(r)
      /\ UNCHANGED <<inv, sel, last, page, open, req, copy, entry, typed, acts,
                     hurried, failed, fresh>>
  BY DEF BeginRefresh, Free
<1>2. /\ x \in Refresh /\ x.at \in {"none", "asking"} /\ (x.at = "none" => sel = Missing)
      /\ x.at = "asking" => x.id = sel /\ x.id \in Devices
  BY DEF NoRefresh, Refresh, PanelInv, PanelTypeOK
<1>3. last' \in Device \cup {Missing} /\ failed' \in BOOLEAN /\ fresh' \in BOOLEAN
  BY <1>1 DEF PanelInv, PanelTypeOK
<1> HIDE DEF x
<1> QED BY <1>1, <1>2, <1>3, RefreshGoesOn

LEMMA GetDeviceHolds ==
  ASSUME PanelInv, NEW r \in Refreshes, GetDevice(r)
  PROVE  PanelInv'
<1> DEFINE d == runs[r].id
           x == [runs[r] EXCEPT !.at = "answered", !.got = [id |-> d, row |-> inv[d]]]
<1>1. /\ runs[r].at = "asking" /\ inv[d] # Missing /\ runs' = [runs EXCEPT ![r] = x]
      /\ fresh' = TRUE /\ ~Free(r)
      /\ UNCHANGED <<inv, sel, last, page, open, req, copy, entry, typed, acts,
                     hurried, failed>>
  BY DEF GetDevice, Free, PanelInv, PanelTypeOK
<1>2. d \in Devices /\ inv[d] \in DeviceRow /\ runs[r] \in Refresh
  BY <1>1 DEF PanelInv, PanelTypeOK
<1>3. [id |-> d, row |-> inv[d]] \in Device
  BY <1>2 DEF Device
<1>4. x \in Refresh /\ x.at = "answered" /\ x.got = [id |-> d, row |-> inv[d]]
  BY <1>2, <1>3 DEF Refresh
<1>5. Seen(d, inv[d].version, inv[d].notes)
  BY <1>1, <1>2 DEF Seen, PanelInv, NotesInv, DeviceRow
<1>6. Seen(x.got.id, x.got.row.version, x.got.row.notes)
  BY <1>4, <1>5
<1>7. ~hurried /\ ~failed => d = sel
  BY <1>1 DEF PanelInv, RefreshInv
<1>8. last' \in Device \cup {Missing} /\ failed' \in BOOLEAN /\ fresh' \in BOOLEAN
  BY <1>1 DEF PanelInv, PanelTypeOK
<1>9. x.got \in Device /\ x.got.id = d /\ x.got.row = inv[d]
  BY <1>3, <1>4
<1> HIDE DEF x, d
<1>10. ~hurried /\ ~failed' => x.got.id = sel /\ inv[sel] = x.got.row
  BY <1>1, <1>7, <1>9
<1> QED BY <1>1, <1>4, <1>6, <1>8, <1>9, <1>10, RefreshGoesOn

LEMMA FetchFailsHolds ==
  ASSUME PanelInv, NEW r \in Refreshes, FetchFails(r)
  PROVE  PanelInv'
<1>1. /\ runs' = [runs EXCEPT ![r] = NoRefresh] /\ ~Free(r) /\ failed' = TRUE
      /\ UNCHANGED <<inv, sel, last, page, open, req, copy, entry, typed, acts,
                     hurried, fresh>>
  BY DEF FetchFails, Free
<1>2. last' \in Device \cup {Missing} /\ failed' \in BOOLEAN /\ fresh' \in BOOLEAN
  BY <1>1 DEF PanelInv, PanelTypeOK
<1> QED BY <1>1, <1>2, PanelRests, RefreshGoesOn

LEMMA LoadedHolds ==
  ASSUME PanelInv, NEW r \in Refreshes, Loaded(r)
  PROVE  PanelInv'
<1> DEFINE x == [runs[r] EXCEPT !.at = "rest"]
<1>1. /\ runs[r].at = "answered" /\ last' = runs[r].got /\ ~Free(r)
      /\ UNCHANGED <<inv, sel, page, open, req, copy, entry, typed, acts,
                     hurried, failed, fresh>>
  BY DEF Loaded, Free
<1>2. runs' = [runs EXCEPT ![r] = x]
  BY DEF Loaded
<1>3. runs[r] \in Refresh /\ runs[r].got \in Device
  BY <1>1 DEF PanelInv, PanelTypeOK
<1>4. x \in Refresh /\ x.at = "rest" /\ x.got = runs[r].got
  BY <1>3 DEF Refresh
<1>5. last' \in Device \cup {Missing} /\ failed' \in BOOLEAN /\ fresh' \in BOOLEAN
  BY <1>1, <1>3 DEF PanelInv, PanelTypeOK
<1>6. ~hurried /\ ~failed => runs[r].got.id = sel /\ (fresh => inv[sel] = runs[r].got.row)
  BY <1>1 DEF PanelInv, RefreshInv
<1> HIDE DEF x
<1> QED BY <1>1, <1>2, <1>3, <1>4, <1>5, <1>6, RefreshGoesOn

LEMMA RenderHolds ==
  ASSUME PanelInv, NEW r \in Refreshes, Render(r)
  PROVE  PanelInv'
<1> USE PanelAssumption
<1> DEFINE g == runs[r].got
<1>1. /\ runs[r].at = "rest" /\ runs' = [runs EXCEPT ![r] = NoRefresh] /\ open' = TRUE
      /\ req' = [req EXCEPT !.live = FALSE]
      /\ page' = [id |-> g.id, notes |-> g.row.notes, before |-> g.row.notes,
                  field |-> g.row.field, parts |-> g.row.parts, version |-> g.row.version]
      /\ UNCHANGED <<inv, sel, last, copy, entry, typed, acts, hurried, failed, fresh>>
  BY DEF Render
<1>2. /\ g \in Device /\ g.id \in Devices /\ g.row \in DeviceRow
      /\ Seen(g.id, g.row.version, g.row.notes)
      /\ ~hurried /\ ~failed => g.id = sel /\ last = g /\ (fresh => inv[sel] = g.row)
  BY <1>1 DEF PanelInv, PanelTypeOK, NotesInv, RefreshInv, Device
<1> HIDE DEF g
<1>3. /\ runs' \in [Refreshes -> Refresh] /\ runs'[r] = NoRefresh
      /\ \A s \in Refreshes : s # r => runs'[s] = runs[s]
      /\ \A s \in Refreshes : /\ runs'[s].at = "asking" => runs'[s].id \in Devices
                              /\ runs'[s].at \in {"answered", "rest"} => runs'[s].got \in Device
  BY <1>1, PanelRests, RunsChange
<1>4. /\ req' \in Edits /\ req'.at = req.at /\ req'.kind = req.kind /\ req'.id = req.id
      /\ req'.to = req.to /\ req'.before = req.before
  BY <1>1 DEF PanelInv, PanelTypeOK, Edits
<1>5. /\ page' \in Drawn /\ page'.id = g.id /\ page'.notes = g.row.notes
      /\ page'.before = g.row.notes /\ page'.field = g.row.field
      /\ page'.parts = g.row.parts /\ page'.version = g.row.version
  BY <1>1, <1>2 DEF Drawn, DeviceRow
<1>6. PanelTypeOK'
  BY <1>1, <1>3, <1>4, <1>5 DEF PanelInv, PanelTypeOK
<1>7. NotesInv'
  <2>1. Later
    BY <1>1, LaterSame
  <2>2. \A s \in Refreshes : runs'[s].at \in {"answered", "rest"} =>
          runs[s].at \in {"answered", "rest"} /\ runs'[s].got = runs[s].got
    BY <1>3, PanelRests
  <2>3. EntriesTellWhatWas' /\ (req'.at = "sent" /\ req'.kind = "notes" => req'.to \in typed'[req'.id])
    BY <1>1, <1>4 DEF PanelInv, NotesInv, EntriesTellWhatWas
  <2> QED BY <1>6, <2>1, <2>2, <2>3, NotesStay
<1>8. ~hurried => /\ req.at = "none" /\ copy.at = "none"
                  /\ \A s \in Refreshes : s # r => Free(s) /\ runs'[s].at = "none"
  BY <1>1, <1>3 DEF PanelInv, OneAtATime, Free
<1>9. OneAtATime' /\ EditInv' /\ RefreshInv'
  BY <1>1, <1>3, <1>4, <1>8, PanelRests DEF OneAtATime, EditInv, RefreshInv, Free
<1>10. DrawnInv'
  <2> SUFFICES ASSUME ~hurried, ~failed
               PROVE  DrawnInv'
    BY <1>1 DEF DrawnInv
  <2>1. page'.id = sel' /\ last'.id = sel' /\ req'.at = "none" /\ sel' # Missing
    BY <1>1, <1>2, <1>4, <1>5, <1>8
  <2>2. Seen(page.id, page.version, page.before)'
    BY <1>1, <1>2, <1>5 DEF Seen
  <2>3. fresh' => Same(inv[page.id], page.notes, page.field)'
    BY <1>1, <1>2, <1>5 DEF Same
  <2> QED BY <2>1, <2>2, <2>3 DEF DrawnInv
<1> QED BY <1>6, <1>7, <1>9, <1>10 DEF PanelInv

-----------------------------------------------------------------------------
(* Editing.                                                                 *)

\* Notes that are typed only add to what was typed.
LEMMA LaterTyped ==
  ASSUME PanelInv, inv' = inv, NEW d \in Devices, NEW v \in Values,
         typed' = [typed EXCEPT ![d] = @ \cup {v}]
  PROVE  /\ Later /\ typed' \in [Devices -> SUBSET Values] /\ v \in typed'[d]
         /\ \A e \in Devices : typed[e] \subseteq typed'[e]
<1>1. /\ typed \in [Devices -> SUBSET Values] /\ inv \in [Devices -> DeviceRow \cup {Missing}]
  BY DEF PanelInv, PanelTypeOK
<1>2. /\ typed' \in [Devices -> SUBSET Values] /\ v \in typed'[d]
      /\ \A e \in Devices : typed[e] \subseteq typed'[e]
  BY <1>1
<1>3. \A e \in Devices : inv[e] # Missing => inv[e].notes \in typed[e]
  BY DEF PanelInv, NotesInv, EditsLandWhereShown
<1> QED BY <1>1, <1>2, <1>3 DEF Later

LEMMA SendHolds ==
  ASSUME PanelInv, Act, open, page # Missing, req.at = "none", NEW kind, NEW v,
         Send(kind, v),
         \/ kind = "notes" /\ v \in Values /\ typed' = [typed EXCEPT ![page.id] = @ \cup {v}]
         \/ kind = "field" /\ v \in Values /\ typed' = typed
         \/ kind \in {"attach", "detach"} /\ v \in Parts /\ typed' = typed,
         UNCHANGED <<inv, sel, last, page, open, runs, copy, entry, failed, fresh>>
  PROVE  PanelInv'
<1>1. /\ hurried' \in BOOLEAN
      /\ ~hurried' => /\ ~hurried /\ req.at = "none" /\ copy.at = "none"
                      /\ \A s \in Refreshes : Free(s)
  BY Settled
<1>2. page \in Drawn /\ page.id \in Devices /\ page.version \in Nat /\ page.before \in Values
  BY DEF PanelInv, PanelTypeOK, Drawn
<1>3. /\ req' \in Edits /\ req'.at = "sent" /\ req'.kind = kind /\ req'.id = page.id
      /\ req'.to = v /\ req'.before = page.before /\ req'.version = page.version /\ req'.live
  BY <1>2 DEF Send, NoEdit, Edits, Target
<1>4. Later /\ typed' \in [Devices -> SUBSET Values] /\ (kind = "notes" => v \in typed'[page.id])
      /\ \A e \in Devices : typed[e] \subseteq typed'[e]
  <2>1. CASE typed' = typed /\ kind # "notes"
    BY <2>1, LaterSame DEF PanelInv, PanelTypeOK
  <2>2. CASE v \in Values /\ typed' = [typed EXCEPT ![page.id] = @ \cup {v}]
    BY <2>2, <1>2, LaterTyped
  <2> QED BY <2>1, <2>2
<1>5. PanelTypeOK'
  BY <1>1, <1>2, <1>3, <1>4 DEF PanelInv, PanelTypeOK
<1>6. NotesInv'
  <2>1. EntriesTellWhatWas' /\ (req'.at = "sent" /\ req'.kind = "notes" => req'.to \in typed'[req'.id])
    BY <1>3, <1>4 DEF PanelInv, NotesInv, EntriesTellWhatWas
  <2> QED BY <1>4, <1>5, <2>1, NotesStay
<1>7. OneAtATime' /\ EditInv' /\ RefreshInv'
  BY <1>1, <1>3 DEF OneAtATime, EditInv, RefreshInv, Free
<1>8. DrawnInv'
  <2> SUFFICES ASSUME ~hurried', ~failed
               PROVE  DrawnInv'
    BY DEF DrawnInv
  <2>1. /\ sel # Missing => page.id = sel /\ last.id = sel
        /\ sel # Missing
        /\ Seen(page.id, page.version, page.before)
        /\ fresh => Same(inv[page.id], page.notes, page.field)
    BY <1>1 DEF PanelInv, DrawnInv
  <2>2. Seen(page.id, page.version, page.before)'
    BY <2>1, <1>2, <1>4 DEF Seen
  <2>3. fresh' => Same(inv[page.id], page.notes, page.field)'
    BY <2>1 DEF Same
  <2> QED BY <1>3, <2>1, <2>2, <2>3 DEF DrawnInv
<1> QED BY <1>5, <1>6, <1>7, <1>8 DEF PanelInv

\* A refresh that is left to the event loop while nothing else is under way.
LEMMA QueueHolds ==
  ASSUME PanelInv, NEW r \in Refreshes, QueueRefresh(r), Later,
         UNCHANGED <<inv, sel, last, copy, failed, fresh>>,
         typed' \in [Devices -> SUBSET Values], page' \in Drawn \cup {Missing},
         open' = open, hurried' \in BOOLEAN, req' \in Edits, req'.at = "none",
         EntriesTellWhatWas',
         ~hurried' => /\ ~hurried /\ copy.at = "none" /\ \A s \in Refreshes : Free(s)
                      /\ ~failed => sel # Missing
  PROVE  PanelInv'
<1>1. /\ runs' \in [Refreshes -> Refresh]
      /\ runs[r].at = "none" /\ runs'[r].at = "queued"
      /\ \A s \in Refreshes : s # r => runs'[s] = runs[s]
      /\ \A s \in Refreshes : /\ runs'[s].at = "asking" => runs'[s].id \in Devices
                              /\ runs'[s].at \in {"answered", "rest"} => runs'[s].got \in Device
  BY Queues
<1>2. PanelTypeOK'
  BY <1>1 DEF PanelInv, PanelTypeOK
<1>3. NotesInv'
  <2>1. \A s \in Refreshes : runs'[s].at \in {"answered", "rest"} =>
          runs[s].at \in {"answered", "rest"} /\ runs'[s].got = runs[s].got
    BY <1>1
  <2> QED BY <1>2, <2>1, NotesStay
<1>4. OneAtATime' /\ EditInv' /\ RefreshInv'
  BY <1>1 DEF OneAtATime, EditInv, RefreshInv, Free
<1>5. DrawnInv'
  BY <1>1, DrawnLater
<1> QED BY <1>2, <1>3, <1>4, <1>5 DEF PanelInv

LEMMA SaveNotesHolds ==
  ASSUME PanelInv, NEW v \in Values, SaveNotes(v)
  PROVE  PanelInv'
<1>1. /\ open /\ page # Missing /\ req.at = "none" /\ Act
      /\ typed' = [typed EXCEPT ![page.id] = @ \cup {v}]
      /\ UNCHANGED <<inv, sel, last, open, copy, entry, failed, fresh>>
  BY DEF SaveNotes
<1>2. page \in Drawn /\ page.id \in Devices
  BY <1>1 DEF PanelInv, PanelTypeOK, Drawn
<1>3. CASE Send("notes", v) /\ UNCHANGED <<page, runs>>
  BY <1>1, <1>3, SendHolds
<1>4. CASE /\ page' = [page EXCEPT !.notes = v] /\ UNCHANGED req
           /\ \E r \in Refreshes : QueueRefresh(r)
  <2>1. PICK r \in Refreshes : QueueRefresh(r)
    BY <1>4
  <2>2. Later /\ typed' \in [Devices -> SUBSET Values]
    BY <1>1, <1>2, LaterTyped
  <2>3. page' \in Drawn /\ req' \in Edits
    BY <1>2, <1>4 DEF Drawn, PanelInv, PanelTypeOK
  <2>4. /\ hurried' \in BOOLEAN
        /\ ~hurried' => /\ ~hurried /\ copy.at = "none" /\ \A s \in Refreshes : Free(s)
    BY <1>1, Settled
  <2>5. ~hurried' /\ ~failed => sel # Missing
    BY <1>1, <2>4 DEF PanelInv, DrawnInv
  <2>6. EntriesTellWhatWas'
    BY <1>1 DEF PanelInv, NotesInv, EntriesTellWhatWas
  <2> QED BY <1>1, <1>4, <2>1, <2>2, <2>3, <2>4, <2>5, <2>6, QueueHolds
<1> QED BY <1>3, <1>4 DEF SaveNotes

LEMMA SaveFieldHolds ==
  ASSUME PanelInv, NEW v \in Values, SaveField(v)
  PROVE  PanelInv'
<1>1. /\ open /\ page # Missing /\ req.at = "none" /\ Act /\ Send("field", v)
      /\ UNCHANGED <<inv, sel, last, page, open, runs, copy, entry, typed, failed, fresh>>
  BY DEF SaveField
<1> QED BY <1>1, SendHolds

LEMMA ToggleHolds ==
  ASSUME PanelInv, NEW x \in Parts, Toggle(x)
  PROVE  PanelInv'
<1> DEFINE kind == IF x \in page.parts THEN "detach" ELSE "attach"
<1>1. /\ open /\ page # Missing /\ req.at = "none" /\ Act /\ Send(kind, x)
      /\ UNCHANGED <<inv, sel, last, page, open, runs, copy, entry, typed, failed, fresh>>
  BY DEF Toggle
<1>2. kind \in {"attach", "detach"} /\ kind # "notes"
  OBVIOUS
<1> HIDE DEF kind
<1> QED BY <1>1, <1>2, SendHolds

\* What the server makes of an edit.
LEMMA ServedRow ==
  ASSUME PanelInv, req.at = "sent", inv[req.id] # Missing, NEW row, row = Edited(req, inv[req.id])
  PROVE  /\ row \in DeviceRow /\ req.id \in Devices /\ inv[req.id] \in DeviceRow
         /\ IF req.kind = "notes"
            THEN row.notes = req.to /\ row.version = inv[req.id].version + 1
            ELSE row.notes = inv[req.id].notes /\ row.version = inv[req.id].version
         /\ req.kind = "field" => row.field = req.to /\ row.parts = inv[req.id].parts
<1> DEFINE old == inv[req.id]
<1>1. old \in DeviceRow /\ old.version \in Nat /\ req.id \in Devices
  BY DEF PanelInv, PanelTypeOK, DeviceRow
<1>2. \/ req.kind \in {"notes", "field"} /\ req.to \in Values
      \/ req.kind \in {"attach", "detach"} /\ req.to \in Parts
  BY DEF PanelInv, PanelTypeOK
<1> HIDE DEF old
<1>3. CASE req.kind = "notes"
  <2>1. row = [old EXCEPT !.notes = req.to, !.version = old.version + 1]
    BY <1>3 DEF Edited, old
  <2>2. req.to \in Values /\ old.version + 1 \in Nat
    BY <1>1, <1>2, <1>3
  <2>3. /\ row \in DeviceRow /\ row.notes = req.to /\ row.version = old.version + 1
    BY <1>1, <2>1, <2>2 DEF DeviceRow
  <2> QED BY <1>1, <1>3, <2>3 DEF old
<1>4. CASE req.kind = "field"
  <2>1. row = [old EXCEPT !.field = req.to]
    BY <1>4 DEF Edited, old
  <2> QED BY <1>1, <1>2, <1>4, <2>1 DEF DeviceRow, old
<1>5. CASE req.kind \in {"attach", "detach"}
  <2>1. row = [old EXCEPT !.parts = @ \cup {req.to}] \/ row = [old EXCEPT !.parts = @ \ {req.to}]
    BY <1>5 DEF Edited, old
  <2> QED BY <1>1, <1>2, <1>5, <2>1 DEF DeviceRow, old
<1> QED BY <1>2, <1>3, <1>4, <1>5

LEMMA ServeHolds ==
  ASSUME PanelInv, Serve
  PROVE  PanelInv'
<1> USE PanelAssumption
<1> DEFINE old == inv[req.id]
           row == Edited(req, old)
<1>1. /\ req.at = "sent" /\ old # Missing
      /\ req.kind = "notes" => req.version = old.version
      /\ inv' = [inv EXCEPT ![req.id] = row]
      /\ req' = [req EXCEPT !.at = "ok", !.was = old.notes]
      /\ UNCHANGED <<sel, last, page, open, runs, copy, entry, typed, acts,
                     hurried, failed, fresh>>
  BY DEF Serve, VersionAgrees
<1>2. /\ row \in DeviceRow /\ req.id \in Devices /\ old \in DeviceRow
      /\ IF req.kind = "notes"
         THEN row.notes = req.to /\ row.version = old.version + 1
         ELSE row.notes = old.notes /\ row.version = old.version
      /\ req.kind = "field" => row.field = req.to /\ row.parts = old.parts
  BY <1>1, ServedRow
<1>3. old.version \in Nat /\ old.notes \in Values
  BY <1>2 DEF DeviceRow
<1> HIDE DEF old, row
<1>4. /\ inv \in [Devices -> DeviceRow \cup {Missing}] /\ inv' \in [Devices -> DeviceRow \cup {Missing}]
      /\ inv[req.id] = old /\ inv'[req.id] = row
      /\ \A d \in Devices : d # req.id => inv'[d] = inv[d]
  BY <1>1, <1>2 DEF PanelInv, PanelTypeOK, old
<1>5. /\ req' \in Edits /\ req'.at = "ok" /\ req'.kind = req.kind /\ req'.id = req.id
      /\ req'.to = req.to /\ req'.before = req.before /\ req'.was = old.notes
      /\ req'.live = req.live
  BY <1>1, <1>3 DEF PanelInv, PanelTypeOK, Edits
<1>6. PanelTypeOK'
  BY <1>1, <1>4, <1>5 DEF PanelInv, PanelTypeOK
<1>7. Later
  <2> SUFFICES ASSUME NEW d \in Devices
               PROVE  /\ inv'[d] # Missing => inv'[d].notes \in typed'[d]
                      /\ inv'[d] # Missing =>
                           /\ inv[d] # Missing
                           /\ \/ inv[d].version < inv'[d].version
                              \/ inv'[d].version = inv[d].version /\ inv'[d].notes = inv[d].notes
    BY <1>1 DEF Later
  <2>1. CASE d = req.id
    <3>1. req.kind = "notes" => req.to \in typed[d]
      BY <1>1, <2>1 DEF PanelInv, NotesInv
    <3>2. old.notes \in typed[d]
      BY <1>1, <1>4, <2>1 DEF PanelInv, NotesInv, EditsLandWhereShown
    <3> QED BY <1>1, <1>2, <1>3, <1>4, <2>1, <3>1, <3>2
  <2>2. CASE d # req.id
    BY <1>1, <1>4, <2>2 DEF PanelInv, NotesInv, EditsLandWhereShown
  <2> QED BY <2>1, <2>2
<1>8. NotesInv'
  <2>1. EntriesTellWhatWas' /\ ~(req'.at = "sent")
    BY <1>1, <1>5 DEF PanelInv, NotesInv, EntriesTellWhatWas
  <2>2. \A s \in Refreshes : runs'[s].at \in {"answered", "rest"} =>
          runs[s].at \in {"answered", "rest"} /\ runs'[s].got = runs[s].got
    BY <1>1
  <2> QED BY <1>6, <1>7, <2>1, <2>2, NotesStay
<1>9. ~hurried => copy.at = "none" /\ \A s \in Refreshes : Free(s)
  BY <1>1 DEF PanelInv, OneAtATime
<1>10. OneAtATime' /\ EditInv' /\ RefreshInv'
  BY <1>1, <1>5, <1>9 DEF OneAtATime, EditInv, RefreshInv, Free, PanelInv
<1>11. DrawnInv'
  <2> SUFFICES ASSUME ~hurried, ~failed, page # Missing
               PROVE  DrawnInv'
    BY <1>1 DEF DrawnInv
  <2>1. /\ sel # Missing => page.id = sel /\ last.id = sel
        /\ open => sel # Missing
        /\ open /\ req.live /\ req.id = page.id
        /\ req.before = page.before /\ req.version = page.version
        /\ Seen(page.id, page.version, page.before)
        /\ fresh => Same(inv[page.id], page.notes, page.field)
    BY <1>1, <1>9 DEF PanelInv, DrawnInv
  <2>2. page \in Drawn /\ page.id \in Devices /\ page.version \in Nat /\ page.before \in Values
    BY DEF PanelInv, PanelTypeOK, Drawn
  <2>3. Seen(page.id, page.version, page.before)'
    <3>1. PICK d \in Devices, v \in Nat, n \in Values : d = page.id /\ v = page.version /\ n = page.before
      BY <2>2
    <3>2. Seen(d, v, n)'
      BY <1>6, <1>7, <2>1, <3>1, SeenStays
    <3> QED BY <1>1, <3>1, <3>2 DEF Seen
  <2>4. req.kind = "notes" => req'.was = req'.before
    BY <1>1, <1>4, <1>5, <2>1 DEF Seen
  <2>5. req.kind = "field" /\ fresh => Same(inv'[page.id], page.notes, req.to)
    BY <1>2, <1>4, <2>1 DEF Same
  <2> QED BY <1>1, <1>5, <2>1, <2>3, <2>4, <2>5 DEF DrawnInv, Same
<1> QED BY <1>6, <1>8, <1>10, <1>11 DEF PanelInv

LEMMA EditFailsHolds ==
  ASSUME PanelInv, EditFails
  PROVE  PanelInv'
<1>1. /\ req.at # "none" /\ req' = [req EXCEPT !.at = "refused"] /\ failed' = TRUE
      /\ UNCHANGED <<inv, sel, last, page, open, runs, copy, entry, typed, acts, hurried, fresh>>
  BY DEF EditFails
<1>2. /\ req' \in Edits /\ req'.at = "refused" /\ req'.kind = req.kind /\ req'.id = req.id
      /\ req'.to = req.to /\ req'.before = req.before
  BY <1>1 DEF PanelInv, PanelTypeOK, Edits
<1>3. PanelTypeOK'
  BY <1>1, <1>2 DEF PanelInv, PanelTypeOK
<1>4. NotesInv'
  BY <1>1, <1>2 DEF PanelInv, NotesInv, EditsLandWhereShown, EntriesTellWhatWas, Seen
<1>5. OneAtATime' /\ EditInv' /\ RefreshInv' /\ DrawnInv'
  BY <1>1, <1>2 DEF OneAtATime, EditInv, RefreshInv, DrawnInv, Free, PanelInv
<1> QED BY <1>3, <1>4, <1>5 DEF PanelInv

\* Of an edit that is under way and was never late, the panel is still the device's.
LEMMA EditShown ==
  ASSUME PanelInv, req.at # "none", ~hurried, ~failed
  PROVE  /\ copy.at = "none" /\ \A s \in Refreshes : Free(s)
         /\ page # Missing /\ page.id = sel /\ last.id = sel /\ sel # Missing
         /\ open /\ req.live /\ req.id = page.id /\ req.at # "refused"
  BY DEF PanelInv, OneAtATime, EditInv, DrawnInv

LEMMA EditRefusedHolds ==
  ASSUME PanelInv, EditRefused
  PROVE  PanelInv'
<1>1. /\ req.at = "refused" /\ req' = NoEdit
      /\ UNCHANGED <<inv, sel, last, page, open, runs, copy, entry, typed, acts,
                     hurried, failed, fresh>>
  BY DEF EditRefused
<1>2. req' \in Edits /\ req'.at = "none"
  BY <1>1, PanelRests
<1>3. PanelTypeOK'
  BY <1>1, <1>2 DEF PanelInv, PanelTypeOK
<1>4. NotesInv'
  BY <1>1, <1>2 DEF PanelInv, NotesInv, EditsLandWhereShown, EntriesTellWhatWas, Seen
<1>5. hurried \/ failed
  BY <1>1, EditShown
<1>6. OneAtATime' /\ EditInv' /\ RefreshInv' /\ DrawnInv'
  BY <1>1, <1>2, <1>5 DEF OneAtATime, EditInv, RefreshInv, DrawnInv, Free, PanelInv
<1> QED BY <1>3, <1>4, <1>6 DEF PanelInv

LEMMA SavedHolds ==
  ASSUME PanelInv, Saved
  PROVE  PanelInv'
<1>1. /\ req.at = "ok" /\ req' = NoEdit
      /\ UNCHANGED <<inv, sel, last, open, copy, typed, acts, hurried, failed, fresh>>
      /\ req' \in Edits /\ req'.at = "none"
  BY PanelRests DEF Saved
<1>2. page' \in Drawn \cup {Missing}
  <2>1. CASE page' = page
    BY <2>1 DEF PanelInv, PanelTypeOK
  <2>2. CASE page # Missing /\ req.kind = "notes"
    <3>1. page' = page \/ page' = [page EXCEPT !.notes = req.to, !.version = req.version + 1]
      BY <2>2 DEF Saved
    <3>2. page \in Drawn /\ req.to \in Values /\ req.version \in Nat
      BY <1>1, <2>2 DEF PanelInv, PanelTypeOK, Edits
    <3>3. [page EXCEPT !.notes = req.to, !.version = req.version + 1] \in Drawn
      <4>1. \A q \in Drawn, n \in Values, v \in Nat :
              [q EXCEPT !.notes = n, !.version = v] \in Drawn
        BY DEF Drawn
      <4>2. req.version + 1 \in Nat
        BY <3>2
      <4> QED BY <3>2, <4>1, <4>2
    <3> QED BY <3>1, <3>2, <3>3
  <2>3. CASE page # Missing /\ req.kind = "field"
    <3>1. page' = page \/ page' = [page EXCEPT !.field = req.to]
      BY <2>3 DEF Saved
    <3>2. page \in Drawn /\ req.to \in Values
      BY <1>1, <2>3 DEF PanelInv, PanelTypeOK, Edits
    <3>3. [page EXCEPT !.field = req.to] \in Drawn
      BY <3>2 DEF Drawn
    <3> QED BY <3>1, <3>2, <3>3
  <2>4. page # Missing /\ req.kind \notin {"notes", "field"} => page' = page
    BY DEF Saved
  <2>5. page = Missing => page' = page
    BY DEF Saved
  <2> QED BY <2>1, <2>2, <2>3, <2>4, <2>5
<1>3. EntriesTellWhatWas'
  <2>1. ~hurried /\ ~failed /\ req.kind = "notes" => req.was = req.before
    BY <1>1, EditShown DEF PanelInv, DrawnInv
  <2> QED BY <2>1 DEF Saved, EntriesTellWhatWas
<1>4. Later
  BY <1>1, LaterSame
<1>5. typed' \in [Devices -> SUBSET Values] /\ hurried' \in BOOLEAN
  BY <1>1 DEF PanelInv, PanelTypeOK
<1>6. ~hurried => copy.at = "none" /\ \A s \in Refreshes : Free(s)
  BY <1>1 DEF PanelInv, OneAtATime
<1>7. CASE \E r \in Refreshes : QueueRefresh(r)
  <2>1. PICK r \in Refreshes : QueueRefresh(r)
    BY <1>7
  <2>2. ~hurried /\ ~failed => sel # Missing
    BY <1>1, EditShown
  <2> QED BY <1>1, <1>2, <1>3, <1>4, <1>5, <1>6, <2>1, <2>2, QueueHolds
<1>8. CASE req.kind = "field" /\ UNCHANGED runs
  <2>1. PanelTypeOK'
    BY <1>1, <1>2, <1>8 DEF PanelInv, PanelTypeOK
  <2>2. NotesInv'
    <3>1. \A s \in Refreshes : runs'[s].at \in {"answered", "rest"} =>
            runs[s].at \in {"answered", "rest"} /\ runs'[s].got = runs[s].got
      BY <1>8
    <3> QED BY <1>1, <1>3, <1>4, <2>1, <3>1, NotesStay
  <2>3. OneAtATime' /\ EditInv' /\ RefreshInv'
    BY <1>1, <1>6, <1>8 DEF OneAtATime, EditInv, RefreshInv, Free, PanelInv
  <2>4. DrawnInv'
    <3> SUFFICES ASSUME ~hurried, ~failed
                 PROVE  DrawnInv'
      BY <1>1 DEF DrawnInv
    <3>1. /\ page # Missing /\ page.id = sel /\ last.id = sel /\ sel # Missing
          /\ open /\ req.live
      BY <1>1, EditShown
    <3>2. /\ Seen(page.id, page.version, page.before)
          /\ fresh => Same(inv[page.id], page.notes, req.to)
      BY <1>1, <1>6, <1>8, <3>1 DEF PanelInv, DrawnInv
    <3>3. page \in Drawn /\ page' = [page EXCEPT !.field = req.to]
      BY <1>8, <3>1 DEF Saved, PanelInv, PanelTypeOK
    <3>4. /\ page'.id = page.id /\ page'.version = page.version /\ page'.before = page.before
          /\ page'.notes = page.notes /\ page'.field = req.to /\ page'.parts = page.parts
      BY <3>3 DEF Drawn
    <3>5. Seen(page.id, page.version, page.before)'
      BY <1>1, <3>2, <3>4 DEF Seen
    <3>6. fresh' => Same(inv[page.id], page.notes, page.field)'
      BY <1>1, <3>2, <3>4 DEF Same
    <3> QED BY <1>1, <3>1, <3>4, <3>5, <3>6 DEF DrawnInv
  <2> QED BY <2>1, <2>2, <2>3, <2>4 DEF PanelInv
<1> QED BY <1>7, <1>8 DEF Saved, RefreshesAfter

-----------------------------------------------------------------------------
(* Duplicating.                                                             *)

\* While a copy is made there is nothing to tell of what is drawn.
LEMMA CopyGoesOn ==
  ASSUME PanelInv, Later, inv' \in [Devices -> DeviceRow \cup {Missing}],
         typed' \in [Devices -> SUBSET Values], copy' \in Duplication, copy'.at # "none",
         copy'.of \in Device, copy'.at = "parts" => copy'.new \in Devices,
         UNCHANGED <<sel, last, page, open, runs, req, entry, failed, fresh>>,
         hurried' \in BOOLEAN,
         ~hurried' => ~hurried /\ req.at = "none" /\ \A r \in Refreshes : Free(r)
  PROVE  PanelInv'
<1>1. PanelTypeOK'
  BY DEF PanelInv, PanelTypeOK
<1>2. NotesInv'
  <2>1. EntriesTellWhatWas' /\ (req'.at = "sent" /\ req'.kind = "notes" => req'.to \in typed'[req'.id])
    <3>1. req.at = "sent" /\ req.kind = "notes" => req.to \in typed[req.id] /\ req.id \in Devices
      BY DEF PanelInv, NotesInv, PanelTypeOK
    <3> QED BY <3>1 DEF PanelInv, NotesInv, EntriesTellWhatWas, Later
  <2> QED BY <1>1, <2>1, NotesStay
<1>3. OneAtATime' /\ EditInv' /\ RefreshInv' /\ DrawnInv'
  BY DEF OneAtATime, EditInv, RefreshInv, DrawnInv, Free
<1> QED BY <1>1, <1>2, <1>3 DEF PanelInv

LEMMA DuplicateHolds ==
  ASSUME PanelInv, Duplicate
  PROVE  PanelInv'
<1>1. /\ open /\ last # Missing /\ copy.at = "none" /\ Act
      /\ copy' = [NoCopy EXCEPT !.at = "posting", !.of = last,
                                !.tags = last.row.parts \cap Tags, !.field = TRUE]
      /\ UNCHANGED <<inv, sel, last, page, open, runs, req, entry, typed, failed, fresh>>
  BY DEF Duplicate
<1>2. last \in Device
  BY <1>1 DEF PanelInv, PanelTypeOK
<1>3. copy' \in Duplication /\ copy'.at = "posting" /\ copy'.of = last
  BY <1>1, <1>2 DEF NoCopy, Duplication
<1>4. Later /\ inv' \in [Devices -> DeviceRow \cup {Missing}] /\ typed' \in [Devices -> SUBSET Values]
  BY <1>1, LaterSame DEF PanelInv, PanelTypeOK
<1>5. /\ hurried' \in BOOLEAN
      /\ ~hurried' => ~hurried /\ req.at = "none" /\ \A r \in Refreshes : Free(r)
  BY <1>1, Settled
<1> QED BY <1>1, <1>2, <1>3, <1>4, <1>5, CopyGoesOn

\* A copy that is under way is all that is, or the user hurried.
LEMMA CopyAlone ==
  ASSUME PanelInv, copy.at # "none"
  PROVE  /\ hurried \in BOOLEAN /\ copy \in Duplication /\ copy.of \in Device
         /\ ~hurried => req.at = "none" /\ \A r \in Refreshes : Free(r)
  BY DEF PanelInv, PanelTypeOK, OneAtATime

LEMMA PostCopyHolds ==
  ASSUME PanelInv, PostCopy
  PROVE  PanelInv'
<1>1. PICK d \in Devices, none \in Values :
        /\ inv[d] = Missing /\ typed[d] = {}
        /\ inv' = [inv EXCEPT ![d] = [notes |-> copy.of.row.notes, field |-> none,
                                      parts |-> {}, version |-> 0]]
        /\ typed' = [typed EXCEPT ![d] = {copy.of.row.notes}]
        /\ copy' = [copy EXCEPT !.at = "parts", !.new = d]
  BY DEF PostCopy
<1>2. /\ copy.at = "posting"
      /\ UNCHANGED <<sel, last, page, open, runs, req, entry, acts, hurried, failed, fresh>>
  BY DEF PostCopy
<1>3. copy \in Duplication /\ copy.of \in Device
  BY <1>2, CopyAlone
<1>4. copy.of.row.notes \in Values
  BY <1>3 DEF Device, DeviceRow
<1>5. [notes |-> copy.of.row.notes, field |-> none, parts |-> {}, version |-> 0] \in DeviceRow
  BY <1>4 DEF DeviceRow
<1>6. /\ inv \in [Devices -> DeviceRow \cup {Missing}] /\ typed \in [Devices -> SUBSET Values]
  BY DEF PanelInv, PanelTypeOK
<1>7. /\ inv' \in [Devices -> DeviceRow \cup {Missing}] /\ typed' \in [Devices -> SUBSET Values]
      /\ inv'[d].notes = copy.of.row.notes /\ typed'[d] = {copy.of.row.notes}
      /\ \A e \in Devices : e # d => inv'[e] = inv[e] /\ typed'[e] = typed[e]
  BY <1>1, <1>4, <1>5, <1>6
<1>8. copy' \in Duplication /\ copy'.at = "parts" /\ copy'.of = copy.of /\ copy'.new = d
  BY <1>1, <1>3 DEF Duplication
<1>9. Later
  BY <1>1, <1>7 DEF Later, PanelInv, NotesInv, EditsLandWhereShown
<1>10. hurried' \in BOOLEAN /\ (~hurried' => ~hurried /\ req.at = "none" /\ \A r \in Refreshes : Free(r))
  BY <1>2, CopyAlone
<1> QED BY <1>2, <1>3, <1>7, <1>8, <1>9, <1>10, CopyGoesOn

\* A call that gives the new device one of its parts.
LEMMA CopyWrites ==
  ASSUME PanelInv, copy.at = "parts", NEW row \in DeviceRow, inv[copy.new] # Missing,
         inv' = [inv EXCEPT ![copy.new] = row],
         row.notes = inv[copy.new].notes, row.version = inv[copy.new].version,
         copy' \in Duplication, copy'.at = "parts", copy'.of = copy.of, copy'.new = copy.new,
         UNCHANGED <<sel, last, page, open, runs, req, entry, typed, acts, hurried, failed, fresh>>
  PROVE  PanelInv'
<1>1. copy.of \in Device /\ copy.new \in Devices /\ inv \in [Devices -> DeviceRow \cup {Missing}]
  BY DEF PanelInv, PanelTypeOK
<1>2. /\ inv' \in [Devices -> DeviceRow \cup {Missing}] /\ inv'[copy.new] = row
      /\ \A d \in Devices : d # copy.new => inv'[d] = inv[d]
  BY <1>1
<1>3. Later
  BY <1>1, <1>2 DEF Later, PanelInv, NotesInv, EditsLandWhereShown
<1>4. hurried' \in BOOLEAN /\ (~hurried' => ~hurried /\ req.at = "none" /\ \A r \in Refreshes : Free(r))
  BY CopyAlone
<1>5. typed' \in [Devices -> SUBSET Values]
  BY DEF PanelInv, PanelTypeOK
<1> QED BY <1>1, <1>2, <1>3, <1>4, <1>5, CopyGoesOn

LEMMA CopyTagHolds ==
  ASSUME PanelInv, NEW t \in Tags, CopyTag(t)
  PROVE  PanelInv'
<1> DEFINE row == [inv[copy.new] EXCEPT !.parts = @ \cup {t}]
<1>1. /\ copy.at = "parts" /\ inv[copy.new] # Missing
      /\ copy' = [copy EXCEPT !.tags = @ \ {t}]
      /\ UNCHANGED <<sel, last, page, open, runs, req, entry, typed, acts, hurried, failed, fresh>>
  BY DEF CopyTag
<1>2. copy.new \in Devices /\ inv[copy.new] \in DeviceRow /\ copy \in Duplication
  BY <1>1 DEF PanelInv, PanelTypeOK
<1>3. inv' = [inv EXCEPT ![copy.new] = row]
  BY <1>2 DEF CopyTag, PanelInv, PanelTypeOK
<1>4. row \in DeviceRow /\ row.notes = inv[copy.new].notes /\ row.version = inv[copy.new].version
  BY <1>2 DEF DeviceRow, Parts
<1>5. /\ copy' \in Duplication /\ copy'.at = "parts" /\ copy'.of = copy.of
      /\ copy'.new = copy.new
  BY <1>1, <1>2 DEF Duplication
<1> HIDE DEF row
<1> QED BY <1>1, <1>3, <1>4, <1>5, CopyWrites

LEMMA CopyFieldHolds ==
  ASSUME PanelInv, CopyField
  PROVE  PanelInv'
<1> DEFINE row == [inv[copy.new] EXCEPT !.field = copy.of.row.field]
<1>1. /\ copy.at = "parts" /\ inv[copy.new] # Missing
      /\ copy' = [copy EXCEPT !.field = FALSE]
      /\ UNCHANGED <<sel, last, page, open, runs, req, entry, typed, acts, hurried, failed, fresh>>
  BY DEF CopyField
<1>2. /\ copy.new \in Devices /\ inv[copy.new] \in DeviceRow /\ copy \in Duplication
      /\ copy.of \in Device
  BY <1>1 DEF PanelInv, PanelTypeOK
<1>3. inv' = [inv EXCEPT ![copy.new] = row]
  BY <1>2 DEF CopyField, PanelInv, PanelTypeOK
<1>4. copy.of.row.field \in Values
  BY <1>2 DEF Device, DeviceRow
<1>5. row \in DeviceRow /\ row.notes = inv[copy.new].notes /\ row.version = inv[copy.new].version
  BY <1>2, <1>4 DEF DeviceRow
<1>6. /\ copy' \in Duplication /\ copy'.at = "parts" /\ copy'.of = copy.of
      /\ copy'.new = copy.new
  BY <1>1, <1>2 DEF Duplication
<1> HIDE DEF row
<1> QED BY <1>1, <1>3, <1>5, <1>6, CopyWrites

LEMMA PartFailsHolds ==
  ASSUME PanelInv, PartFails
  PROVE  PanelInv'
<1>1. /\ copy.at = "parts"
      /\ UNCHANGED <<inv, sel, last, page, open, runs, req, entry, typed, acts,
                     hurried, failed, fresh>>
  BY DEF PartFails
<1>2. /\ copy \in Duplication /\ copy.of \in Device /\ copy.new \in Devices
      /\ inv' \in [Devices -> DeviceRow \cup {Missing}] /\ typed' \in [Devices -> SUBSET Values]
  BY <1>1 DEF PanelInv, PanelTypeOK
<1>3. /\ copy' \in Duplication /\ copy'.at = "parts" /\ copy'.of = copy.of
      /\ copy'.new = copy.new
  <2>1. CASE \E t \in copy.tags : copy' = [copy EXCEPT !.tags = @ \ {t}, !.missed = TRUE]
    BY <1>1, <1>2, <2>1 DEF Duplication
  <2>2. CASE copy' = [copy EXCEPT !.field = FALSE, !.missed = TRUE]
    BY <1>1, <1>2, <2>2 DEF Duplication
  <2> QED BY <2>1, <2>2 DEF PartFails
<1>4. hurried' \in BOOLEAN /\ (~hurried' => ~hurried /\ req.at = "none" /\ \A r \in Refreshes : Free(r))
  BY <1>1, CopyAlone
<1>5. Later
  BY <1>1, LaterSame
<1> QED BY <1>1, <1>2, <1>3, <1>4, <1>5, CopyGoesOn

LEMMA PostRefusedHolds ==
  ASSUME PanelInv, PostRefused
  PROVE  PanelInv'
<1>1. /\ copy.at = "posting" /\ copy' = NoCopy /\ failed' = TRUE
      /\ UNCHANGED <<inv, sel, last, page, open, runs, req, entry, typed, acts, hurried, fresh>>
  BY DEF PostRefused
<1>2. PanelTypeOK'
  BY <1>1, PanelRests DEF PanelInv, PanelTypeOK
<1>3. NotesInv'
  BY <1>1 DEF PanelInv, NotesInv, EditsLandWhereShown, EntriesTellWhatWas, Seen
<1>4. OneAtATime' /\ EditInv' /\ RefreshInv' /\ DrawnInv'
  BY <1>1, PanelRests, CopyAlone DEF OneAtATime, EditInv, RefreshInv, DrawnInv, Free, PanelInv
<1> QED BY <1>2, <1>3, <1>4 DEF PanelInv

LEMMA ShowCopyHolds ==
  ASSUME PanelInv, ShowCopy
  PROVE  PanelInv'
<1> USE PanelAssumption
<1>1. /\ copy.at = "parts" /\ copy' = NoCopy /\ sel' = copy.new
      /\ UNCHANGED <<inv, last, page, open, req, entry, typed, acts, hurried, failed, fresh>>
  BY DEF ShowCopy
<1>2. copy.new \in Devices
  BY <1>1 DEF PanelInv, PanelTypeOK
<1>3. PICK r \in Refreshes : StartRefresh(r, copy.new)
  BY DEF ShowCopy
<1>4. /\ runs' \in [Refreshes -> Refresh]
      /\ runs[r].at = "none" /\ runs'[r].at = "asking" /\ runs'[r].id = copy.new
      /\ \A s \in Refreshes : s # r => runs'[s] = runs[s]
      /\ \A s \in Refreshes : /\ runs'[s].at = "asking" => runs'[s].id \in Devices
                              /\ runs'[s].at \in {"answered", "rest"} => runs'[s].got \in Device
  <2>1. PICK d \in Devices : d = copy.new
    BY <1>2
  <2> QED BY <1>3, <2>1, Starts
<1>5. PanelTypeOK'
  BY <1>1, <1>2, <1>4, PanelRests DEF PanelInv, PanelTypeOK
<1>6. NotesInv'
  <2>1. Later
    BY <1>1, LaterSame
  <2>2. \A s \in Refreshes : runs'[s].at \in {"answered", "rest"} =>
          runs[s].at \in {"answered", "rest"} /\ runs'[s].got = runs[s].got
    BY <1>4
  <2>3. EntriesTellWhatWas' /\ (req'.at = "sent" /\ req'.kind = "notes" => req'.to \in typed'[req'.id])
    BY <1>1 DEF PanelInv, NotesInv, EntriesTellWhatWas
  <2> QED BY <1>5, <2>1, <2>2, <2>3, NotesStay
<1>7. ~hurried => req.at = "none" /\ \A s \in Refreshes : Free(s)
  BY <1>1, CopyAlone
<1>8. OneAtATime' /\ EditInv' /\ RefreshInv'
  BY <1>1, <1>2, <1>4, <1>7, PanelRests DEF OneAtATime, EditInv, RefreshInv, Free
<1>9. DrawnInv'
  BY <1>4, DrawnLater
<1> QED BY <1>5, <1>6, <1>8, <1>9 DEF PanelInv

-----------------------------------------------------------------------------
(* Other users.                                                             *)

LEMMA OthersEditHolds ==
  ASSUME PanelInv, NEW d \in Devices, OthersEdit(d)
  PROVE  PanelInv'
<1> USE PanelAssumption
<1>1. /\ inv[d] # Missing /\ fresh' = FALSE
      /\ UNCHANGED <<sel, last, page, open, runs, req, copy, entry, hurried, failed>>
  BY DEF OthersEdit
<1>2. /\ inv \in [Devices -> DeviceRow \cup {Missing}] /\ typed \in [Devices -> SUBSET Values]
      /\ inv[d] \in DeviceRow /\ inv[d].version \in Nat
  BY <1>1 DEF PanelInv, PanelTypeOK, DeviceRow
<1>3. \A e \in Devices : inv[e] # Missing => inv[e].notes \in typed[e]
  BY DEF PanelInv, NotesInv, EditsLandWhereShown
<1>4. /\ inv' \in [Devices -> DeviceRow \cup {Missing}] /\ typed' \in [Devices -> SUBSET Values]
      /\ Later
  <2>1. CASE inv' = [inv EXCEPT ![d] = Missing] /\ UNCHANGED typed
    BY <1>2, <1>3, <2>1 DEF Later
  <2>2. ASSUME NEW v \in Values,
               inv' = [inv EXCEPT ![d] = [inv[d] EXCEPT !.notes = v, !.version = @ + 1]],
               typed' = [typed EXCEPT ![d] = @ \cup {v}]
        PROVE  /\ inv' \in [Devices -> DeviceRow \cup {Missing}]
               /\ typed' \in [Devices -> SUBSET Values] /\ Later
    <3>1. PICK n \in Nat : n = inv[d].version + 1
      BY <1>2
    <3>2. PICK row : row = [inv[d] EXCEPT !.notes = v, !.version = inv[d].version + 1]
      OBVIOUS
    <3>3. row \in DeviceRow /\ row.notes = v /\ row.version = n
      <4>1. row = [inv[d] EXCEPT !.notes = v, !.version = n]
        BY <3>1, <3>2
      <4> QED BY <1>2, <4>1 DEF DeviceRow
    <3>4. inv' = [inv EXCEPT ![d] = row]
      BY <2>2, <3>2
    <3>5. /\ inv' \in [Devices -> DeviceRow \cup {Missing}] /\ inv'[d] = row
          /\ \A e \in Devices : e # d => inv'[e] = inv[e]
      BY <1>2, <3>3, <3>4
    <3>6. /\ typed' \in [Devices -> SUBSET Values] /\ v \in typed'[d]
          /\ \A e \in Devices : typed[e] \subseteq typed'[e]
      BY <1>2, <2>2
    <3>7. Later
      BY <1>1, <1>2, <1>3, <3>1, <3>3, <3>5, <3>6 DEF Later
    <3> QED BY <3>5, <3>6, <3>7
  <2> QED BY <2>1, <2>2 DEF OthersEdit
<1>5. PanelTypeOK'
  BY <1>1, <1>4 DEF PanelInv, PanelTypeOK
<1>6. NotesInv'
  <2>1. \A s \in Refreshes : runs'[s].at \in {"answered", "rest"} =>
          runs[s].at \in {"answered", "rest"} /\ runs'[s].got = runs[s].got
    BY <1>1
  <2>2. req.at = "sent" /\ req.kind = "notes" => req.to \in typed[req.id] /\ req.id \in Devices
    BY DEF PanelInv, NotesInv, PanelTypeOK
  <2>3. EntriesTellWhatWas' /\ (req'.at = "sent" /\ req'.kind = "notes" => req'.to \in typed'[req'.id])
    BY <1>1, <1>4, <2>2 DEF PanelInv, NotesInv, EntriesTellWhatWas, Later
  <2> QED BY <1>4, <1>5, <2>1, <2>3, NotesStay
<1>7. OneAtATime' /\ EditInv' /\ RefreshInv'
  BY <1>1 DEF OneAtATime, EditInv, RefreshInv, Free, PanelInv
<1>8. DrawnInv'
  <2> SUFFICES ASSUME ~hurried, ~failed, copy.at = "none", \A r \in Refreshes : Free(r),
                      page # Missing
               PROVE  DrawnInv'
    BY <1>1 DEF DrawnInv, Free
  <2>1. PICK e \in Devices, v \in Nat, n \in Values :
          e = page.id /\ v = page.version /\ n = page.before
    BY DEF PanelInv, PanelTypeOK, Drawn
  <2>2. Seen(e, v, n) => Seen(e, v, n)'
    BY <1>4, <1>5, SeenStays
  <2>3. Seen(page.id, page.version, page.before) => Seen(page.id, page.version, page.before)'
    BY <1>1, <2>1, <2>2 DEF Seen
  <2> QED BY <1>1, <2>3 DEF DrawnInv, PanelInv
<1> QED BY <1>5, <1>6, <1>7, <1>8 DEF PanelInv

-----------------------------------------------------------------------------
(* The theorems.                                                            *)

LEMMA PanelRestsStill ==
  ASSUME PanelInv, UNCHANGED panelVars
  PROVE  PanelInv'
<1>1. UNCHANGED <<inv, sel, last, page, open, runs, req, copy, entry, typed, acts, hurried,
                  failed, fresh>>
  BY DEF panelVars
<1>2. PanelTypeOK'
  BY <1>1 DEF PanelInv, PanelTypeOK
<1>3. NotesInv'
  BY <1>1 DEF PanelInv, NotesInv, EditsLandWhereShown, EntriesTellWhatWas, Seen
<1>4. OneAtATime' /\ EditInv' /\ RefreshInv'
  BY <1>1 DEF PanelInv, OneAtATime, EditInv, RefreshInv, Free
<1>5. DrawnInv'
  BY <1>1 DEF PanelInv, DrawnInv, Free, Seen, Same
<1> QED BY <1>2, <1>3, <1>4, <1>5 DEF PanelInv

LEMMA PanelNextHolds ==
  ASSUME PanelInv, PanelNext
  PROVE  PanelInv'
<1>1. CASE \E d \in Devices : Select(d) \/ OthersEdit(d)
  BY <1>1, SelectHolds, OthersEditHolds
<1>2. CASE SelectDraft \/ HidePanel \/ Close
  BY <1>2, HideHolds
<1>3. CASE \E r \in Refreshes :
             BeginRefresh(r) \/ GetDevice(r) \/ FetchFails(r) \/ Loaded(r) \/ Render(r)
  BY <1>3, BeginRefreshHolds, GetDeviceHolds, FetchFailsHolds, LoadedHolds, RenderHolds
<1>4. CASE \E v \in Values : SaveNotes(v) \/ SaveField(v)
  BY <1>4, SaveNotesHolds, SaveFieldHolds
<1>5. CASE \E t \in Tags : ChangeTag(t) \/ CopyTag(t)
  BY <1>5, ToggleHolds, CopyTagHolds DEF ChangeTag, Parts
<1>6. CASE \/ \E n \in Networks : ChangeNetwork(n)
           \/ \E f \in Files : ChangeFile(f)
  BY <1>6, ToggleHolds DEF ChangeNetwork, ChangeFile, Parts
<1>7. CASE Serve \/ EditFails \/ EditRefused \/ Saved
  BY <1>7, ServeHolds, EditFailsHolds, EditRefusedHolds, SavedHolds
<1>8. CASE Duplicate \/ PostCopy \/ PostRefused \/ CopyField \/ PartFails \/ ShowCopy
  BY <1>8, DuplicateHolds, PostCopyHolds, PostRefusedHolds, CopyFieldHolds, PartFailsHolds,
     ShowCopyHolds
<1> QED BY <1>1, <1>2, <1>3, <1>4, <1>5, <1>6, <1>7, <1>8 DEF PanelNext

\* Of a user who lets the panel settle, at most one refresh, edit or duplication is under
\* way, it is of the device that is selected, and what is drawn is that device's but for
\* what is on its way; a version tells the notes apart for any number of refreshes.
THEOREM PanelInductive == PanelSpec => []PanelInv
<1>1. PanelInv /\ [PanelNext]_panelVars => PanelInv'
  BY PanelNextHolds, PanelRestsStill
<1> QED BY <1>1, PanelInitHolds, PTL DEF PanelSpec

\* An edit goes to the device that the panel showed, however refreshes and saves overtake
\* each other; an undo entry remembers what was in the inventory, and a panel at rest
\* shows the device that is selected (device_detail_panel.py).
THEOREM PanelCorrect == PanelSpec => []PanelHolds
<1>1. PanelInv => PanelSettles
  <2> SUFFICES ASSUME PanelInv, quiet, ~hurried, ~failed, fresh, page # Missing
               PROVE  PanelSettles
    BY DEF PanelSettles
  <2>1. DrawnInv /\ req.at = "none" /\ copy.at = "none" /\ \A r \in Refreshes : Free(r)
    BY DEF PanelInv, quiet, Free
  <2>2. /\ Same(inv[page.id], page.notes, page.field)
        /\ sel # Missing => page.id = sel /\ last.id = sel
    BY <2>1 DEF DrawnInv
  <2> QED BY <2>2 DEF Same, PanelSettles
<1>2. PanelInv => PanelHolds
  BY <1>1 DEF PanelInv, NotesInv, PanelHolds
<1> QED BY <1>2, PanelInductive, PTL
===============================================================================
