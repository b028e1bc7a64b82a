--------------------------- MODULE AutosaveClient ---------------------------
(* The browser's half of a personal draft: one page of the topology editor  *)
(* that saves the canvas in the background, and the guard that asks before  *)
(* the page is left.  The draft service is one atomic step here: its own    *)
(* interleavings are the subject of TopologyEditor.  The code is JavaScript *)
(* held in the Python modules ui/components/canvas_js_autosave_core.py,     *)
(* canvas_js_autosave_runtime.py, canvas_mode.py, topology_leave_guard.py.  *)
(*                                                                          *)
(* What a canvas shows is the number of changes the user has made to it; a  *)
(* draft holds the number its sender's canvas had.                          *)
EXTENDS Naturals, FiniteSets

CONSTANTS
    MaxEdits,   \* bound: changes the user makes
    MaxTurns,   \* bound: clicks on Stop editing, Retry, the guard's buttons
    MaxOthers,  \* bound: what other tabs of the user do to the draft
    MaxStray,   \* bound: requests under way that no page waits for
    TooLarge,   \* canvases above HT_AUTOSAVE_MAX_KEEPALIVE_BYTES
    Retries     \* HT_AUTOSAVE_RETRY_DELAYS_MS.length, 3 in the code

ASSUME ClientAssumption ==
    /\ MaxEdits \in Nat /\ MaxTurns \in Nat /\ MaxOthers \in Nat
    /\ MaxStray \in Nat /\ TooLarge \subseteq Nat /\ Retries \in Nat

VARIABLES
    canvas,     \* changes made to the canvas
    page,       \* "open" or "left"
    mode,       \* HT_READONLY: "view" is TRUE, "edit" and "stopping" are FALSE
    auto,       \* the flags, timers and call of the autosave client
    known,      \* window._htDraftVersion, 0 for null
    unsaved,    \* window._htHasUnsavedChanges
    notice,     \* _htAutosaveFailureShown, and whether the toast still shows
    guard,      \* the leave guard's modal and its request
    wire,       \* PUTs that may still reach the server, awaited by nobody
    draft,      \* the row of the owner, version 0 for none
    saved,      \* the canvas of the current version
    turns,      \* clicks so far
    others,     \* writes of other tabs so far
    stored,     \* the newest change that a draft or a version has ever held
    told,       \* the newest change the user has been warned about
    events      \* what went past the page or the client: see TypeOK

vars == <<canvas, page, mode, auto, known, unsaved, notice, guard, wire,
          draft, saved, turns, others, stored, told, events>>

screen == <<canvas, page, mode>>
learnt == <<known, unsaved>>
notices == <<notice, told>>
client == <<auto, learnt, notices>>
server == <<draft, saved, stored>>
bounds == <<turns, others>>

\* A version that was there before the page, unlike anything on the canvas.
Older == MaxEdits + 1
Later(m, n) == IF m > n THEN m ELSE n

-----------------------------------------------------------------------------
(* The client's flags.  A call is the time in which _htAutosaveInFlight is  *)
(* set: from the first request to the answer, retries included.             *)

NoCall == [stage |-> "none", attempt |-> 0, base |-> 0, edit |-> 0,
           version |-> 0, changed |-> FALSE]
\* _htAutosaveRequestInFlight: the fetch has not settled.
Unsettled == {"sent", "stored", "refused", "failed", "rejected"}
Quiet == [timer |-> FALSE, pending |-> FALSE, dirty |-> FALSE,
          suspended |-> FALSE, call |-> NoCall]

CanAutosave(a) == mode # "view" /\ ~a.suspended

\* Variant: a change made during a call is not queued.
ScheduledIfIdle(a) ==
    IF ~CanAutosave(a) \/ a.call.stage # "none" THEN a
    ELSE [a EXCEPT !.dirty = TRUE, !.timer = TRUE]

Scheduled(a) ==
    IF ~CanAutosave(a) THEN a
    ELSE IF a.call.stage # "none" THEN [a EXCEPT !.dirty = TRUE, !.pending = TRUE]
    ELSE [a EXCEPT !.dirty = TRUE, !.timer = TRUE]

\* The request is composed when it is sent, a retry's as well.
Send(a, attempt, base) ==
    [a EXCEPT !.call = [NoCall EXCEPT !.stage = "sent", !.attempt = attempt,
                                      !.base = base, !.edit = canvas]]

Flush(a, base) ==
    LET b == [a EXCEPT !.timer = FALSE, !.dirty = CanAutosave(a) \/ a.dirty]
    IN  IF ~CanAutosave(a) THEN b
        ELSE IF a.call.stage # "none" THEN [b EXCEPT !.pending = TRUE]
        ELSE Send(b, 0, base)

\* Variant: changes made during the call stay queued.
FinishOnly(a, again, base) == [a EXCEPT !.call = NoCall]

\* The call is over; after a success, changes made meanwhile go next.
Finish(a, again, base) ==
    LET b == [a EXCEPT !.call = NoCall]
    IN  IF again /\ b.pending /\ ~b.suspended
        THEN Flush([b EXCEPT !.pending = FALSE, !.dirty = TRUE], base)
        ELSE b

Conflict(a) ==
    Finish([a EXCEPT !.timer = FALSE, !.pending = FALSE, !.dirty = TRUE,
                     !.suspended = TRUE], FALSE, known)

\* Variant: one retry more than there are delays.
RetriesOnce(a) == a.call.attempt <= Retries
RetriesLeft(a) == a.call.attempt < Retries

RetryAfter(a) == [a EXCEPT !.call = [NoCall EXCEPT !.stage = "waiting",
                                                   !.attempt = a.call.attempt]]

GiveUp(a) == Finish([a EXCEPT !.pending = FALSE, !.dirty = TRUE], FALSE, known)

-----------------------------------------------------------------------------
(* The draft service.                                                       *)

\* Variant: only a version the server does not have yet is refused.
AcceptsOlder(base) == draft.version = 0 \/ base <= draft.version

Accepts(base) == draft.version = 0 \/ base = 0 \/ base = draft.version
NextVersion == draft.version + 1

Store(edit) ==
    /\ draft' = [version |-> NextVersion, edit |-> edit]
    /\ stored' = Later(stored, edit)
    /\ UNCHANGED saved

Put(base, edit) == [base |-> base, edit |-> edit]
\* Requests the page stops waiting for may still arrive, or not.
Strays(puts) == {w \in SUBSET (wire \cup puts) : wire \subseteq w
                                              /\ Cardinality(w) <= MaxStray}
Underway == IF auto.call.stage = "sent"
            THEN {Put(auto.call.base, auto.call.edit)} ELSE {}

Init ==
    /\ canvas = 0 /\ page = "open" /\ mode = "view" /\ auto = Quiet
    /\ notice = "none" /\ guard = "closed" /\ wire = {}
    /\ turns = 0 /\ others = 0 /\ stored = 0 /\ told = 0 /\ events = {}
    /\ \/ draft = [version |-> 0, edit |-> 0] /\ saved = 0 /\ unsaved = FALSE
       \/ draft = [version |-> 1, edit |-> 0] /\ saved = Older /\ unsaved = TRUE
    /\ known = draft.version

-----------------------------------------------------------------------------
(* The user on the canvas.                                                  *)

\* The modal covers the page, so no change is made under it.
AtCanvas == page = "open" /\ guard = "closed"
Click == turns < MaxTurns /\ turns' = turns + 1

Edit ==
    /\ AtCanvas /\ mode # "view" /\ canvas < MaxEdits
    /\ canvas' = canvas + 1
    /\ auto' = Scheduled(auto)
    /\ UNCHANGED <<page, mode, learnt, notices, guard, wire, server, bounds, events>>

EnterEdit ==
    /\ AtCanvas /\ mode = "view"
    /\ mode' = "edit"
    /\ UNCHANGED <<canvas, page, client, guard, wire, server, bounds, events>>

\* Stop editing runs two scripts, one round trip apart: a flush ...
StopEditing ==
    /\ AtCanvas /\ mode = "edit" /\ Click
    /\ mode' = "stopping"
    /\ auto' = Flush(auto, known)
    /\ UNCHANGED <<canvas, page, learnt, notices, guard, wire, server, others, events>>

\* ... and htSetViewMode.
EnterView ==
    /\ page = "open" /\ mode = "stopping"
    /\ mode' = "view"
    /\ events' = IF canvas > stored THEN events \cup {"stopped"} ELSE events
    /\ UNCHANGED <<canvas, page, client, guard, wire, server, bounds>>

ClickRetry ==
    /\ AtCanvas /\ notice = "shown" /\ Click
    /\ notice' = "none"
    /\ auto' = Scheduled(auto)
    /\ UNCHANGED <<screen, learnt, told, guard, wire, server, others, events>>

\* The toast goes away by itself; _htAutosaveFailureShown stays set.
NoticeFades ==
    /\ page = "open" /\ notice = "shown"
    /\ notice' = "faded"
    /\ UNCHANGED <<screen, auto, learnt, told, guard, wire, server, bounds, events>>

-----------------------------------------------------------------------------
(* One call.                                                                *)

TimerFires ==
    /\ page = "open" /\ auto.timer
    /\ auto' = Flush(auto, known)
    /\ UNCHANGED <<screen, learnt, notices, guard, wire, server, bounds, events>>

Waiting(stage) == page = "open" /\ auto.call.stage = stage
Outcome(stage) == auto' = [auto EXCEPT !.call.stage = stage]

ServerStores ==
    /\ Waiting("sent") /\ Accepts(auto.call.base)
    /\ Store(auto.call.edit)
    /\ auto' = [auto EXCEPT !.call.stage = "stored",
                            !.call.version = NextVersion,
                            !.call.changed = auto.call.edit # saved]
    /\ UNCHANGED <<screen, learnt, notices, guard, wire, bounds, events>>

ServerRefuses ==
    /\ Waiting("sent") /\ ~Accepts(auto.call.base)
    /\ Outcome("refused")
    /\ UNCHANGED <<screen, learnt, notices, guard, wire, server, bounds, events>>

\* A status 500 or 429, or any other error status.
ServerFails ==
    /\ Waiting("sent")
    /\ \E stage \in {"failed", "rejected"} : Outcome(stage)
    /\ UNCHANGED <<screen, learnt, notices, guard, wire, server, bounds, events>>

\* The fetch fails although the request may have been handled, or may be yet.
NetworkFails ==
    /\ page = "open" /\ auto.call.stage \in {"sent", "stored", "refused"}
    /\ wire' \in Strays(Underway)
    /\ Outcome("failed")
    /\ events' = IF auto.call.stage = "stored" \/ wire' # wire
                 THEN events \cup {"lost"} ELSE events
    /\ UNCHANGED <<screen, learnt, notices, guard, server, bounds>>

\* Variant: the version in the answer is not kept.
LearnStatus(call) == known' = known /\ unsaved' = call.changed
Learn(call) == known' = call.version /\ unsaved' = call.changed

ReceiveStored ==
    /\ Waiting("stored")
    /\ Learn(auto.call)
    /\ notice' = "none"
    /\ auto' = Finish([auto EXCEPT !.dirty = FALSE], TRUE, known')
    /\ UNCHANGED <<screen, told, guard, wire, server, bounds, events>>

ReceiveRefused ==
    /\ Waiting("refused")
    /\ auto' = Conflict(auto)
    /\ UNCHANGED <<screen, learnt, notices, guard, wire, server, bounds, events>>

ReceiveFailed ==
    /\ Waiting("failed") /\ RetriesLeft(auto)
    /\ auto' = RetryAfter(auto)
    /\ UNCHANGED <<screen, learnt, notices, guard, wire, server, bounds, events>>

ReceiveLastFailed ==
    /\ \/ Waiting("failed") /\ ~RetriesLeft(auto)
       \/ Waiting("rejected")
    /\ auto' = GiveUp(auto)
    /\ IF notice = "faded" THEN UNCHANGED notices
                           ELSE notice' = "shown" /\ told' = canvas
    /\ UNCHANGED <<screen, learnt, guard, wire, server, bounds, events>>

RetryFires ==
    /\ Waiting("waiting")
    /\ auto' = IF CanAutosave(auto) THEN Send(auto, auto.call.attempt + 1, known)
                                    ELSE Finish(auto, FALSE, known)
    /\ UNCHANGED <<screen, learnt, notices, guard, wire, server, bounds, events>>

-----------------------------------------------------------------------------
(* What the page does not see.                                              *)

StrayArrives(p) ==
    /\ wire' = wire \ {p}
    /\ IF Accepts(p.base) THEN Store(p.edit) ELSE UNCHANGED server
    /\ UNCHANGED <<screen, client, guard, bounds, events>>

OtherTab == page = "open" /\ others < MaxOthers /\ others' = others + 1

OtherSaves ==
    /\ OtherTab
    /\ draft' = [version |-> NextVersion, edit |-> 0]
    /\ events' = events \cup {"other"}
    /\ UNCHANGED <<screen, client, guard, wire, saved, stored, turns>>

OtherDiscards ==
    /\ OtherTab /\ draft.version # 0
    /\ draft' = [version |-> 0, edit |-> 0]
    /\ events' = events \cup {"other", "discard"}
    /\ UNCHANGED <<screen, client, guard, wire, saved, stored, turns>>

-----------------------------------------------------------------------------
(* Leaving the page.                                                        *)

\* The page's state ends with it; what it was sending may still arrive.
Leave ==
    /\ page' = "left" /\ canvas' = 0 /\ mode' = "view" /\ auto' = Quiet
    /\ known' = 0 /\ unsaved' = FALSE /\ notice' = "none" /\ told' = 0
    /\ guard' = "closed" /\ turns' = 0 /\ others' = 0
    /\ UNCHANGED <<server, events>>

\* A marked link, or Back: proceed() arms the bypass, which silences both
\* beforeunload listeners.
Navigate ==
    /\ AtCanvas /\ ~unsaved
    /\ Leave /\ wire' \in Strays(Underway)

NavigateAsks ==
    /\ AtCanvas /\ unsaved
    /\ guard' = "asking"
    /\ UNCHANGED <<screen, client, wire, server, bounds, events>>

\* Closing the tab runs the beforeunload listeners of autosave and guard: a
\* last PUT with keepalive, or the browser's question.

\* Variant: nothing scheduled or under way is taken for nothing to save.
NeedsFlushIfBusy == CanAutosave(auto) /\ (auto.timer \/ auto.pending
                                          \/ auto.call.stage # "none")
NeedsFlush == CanAutosave(auto) /\ (auto.dirty \/ auto.timer \/ auto.pending
                                    \/ auto.call.stage # "none")
FlushAsks == NeedsFlush /\ (canvas \in TooLarge \/ auto.call.stage \in Unsettled)
LastPut == IF NeedsFlush /\ ~FlushAsks THEN {Put(known, canvas)} ELSE {}
Asks == FlushAsks \/ unsaved

\* (Not modelled while the guard's own request is under way.)
Unloading == page = "open" /\ guard \in {"closed", "asking"}

CloseTab ==
    /\ Unloading
    /\ Leave
    /\ \E w \in Strays(Underway \cup LastPut) : LastPut \subseteq w /\ wire' = w

\* The user answers the browser's question with Stay; the PUT has been sent.
StayOnPage ==
    /\ Unloading /\ Asks /\ Click
    /\ wire' = wire \cup LastPut /\ Cardinality(wire') <= MaxStray
    /\ events' = IF LastPut = {} THEN events ELSE events \cup {"stayed"}
    /\ UNCHANGED <<screen, client, guard, server, others>>

GuardCancels ==
    /\ page = "open" /\ guard = "asking"
    /\ guard' = "closed"
    /\ UNCHANGED <<screen, client, wire, server, bounds, events>>

GuardClicks ==
    /\ page = "open" /\ guard = "asking" /\ Click
    /\ guard' \in {"saving", "discarding"}
    /\ UNCHANGED <<screen, client, wire, server, others, events>>

\* save-version keeps the canvas and deletes the draft.
ServerSaves ==
    /\ page = "open" /\ guard = "saving"
    /\ guard' = "saved"
    /\ draft' = [version |-> 0, edit |-> 0]
    /\ saved' = canvas /\ stored' = canvas
    /\ events' = events \cup {"discard"}
    /\ UNCHANGED <<screen, client, wire, bounds>>

ServerDiscards ==
    /\ page = "open" /\ guard = "discarding"
    /\ guard' = "discarded"
    /\ draft' = [version |-> 0, edit |-> 0]
    /\ events' = events \cup {"discard"}
    /\ UNCHANGED <<screen, client, wire, saved, stored, bounds>>

\* An error status or no answer: the modal stays.
GuardFails ==
    /\ page = "open" /\ guard \in {"saving", "saved", "discarding", "discarded"}
    /\ guard' = "asking"
    /\ UNCHANGED <<screen, client, wire, server, bounds, events>>

GuardLeaves ==
    /\ page = "open" /\ guard \in {"saved", "discarded"}
    /\ Leave /\ wire' \in Strays(Underway)

-----------------------------------------------------------------------------
Next ==
    \/ Edit \/ EnterEdit \/ StopEditing \/ EnterView \/ ClickRetry \/ NoticeFades
    \/ TimerFires \/ ServerStores \/ ServerRefuses \/ ServerFails \/ NetworkFails
    \/ ReceiveStored \/ ReceiveRefused \/ ReceiveFailed \/ ReceiveLastFailed
    \/ RetryFires
    \/ \E p \in wire : StrayArrives(p)
    \/ OtherSaves \/ OtherDiscards
    \/ Navigate \/ NavigateAsks \/ CloseTab \/ StayOnPage
    \/ GuardCancels \/ GuardClicks \/ ServerSaves \/ ServerDiscards
    \/ GuardFails \/ GuardLeaves

Spec == Init /\ [][Next]_vars

\* Timers fire, every fetch settles one way or another and its continuation
\* runs.  Nothing is assumed of the user, of other tabs, or of stray requests.
CallSettles == ServerStores \/ ServerRefuses \/ ServerFails \/ NetworkFails
CallReturns == ReceiveStored \/ ReceiveRefused \/ ReceiveFailed
               \/ ReceiveLastFailed
Fairness ==
    /\ WF_vars(TimerFires) /\ WF_vars(RetryFires)
    /\ WF_vars(CallSettles) /\ WF_vars(CallReturns)

FairSpec == Spec /\ Fairness

-----------------------------------------------------------------------------
(* Properties.                                                              *)

\* Types; a call makes at most one request more than there are retry delays,
\* and no timer runs beside a call.
TypeOK ==
    /\ canvas \in 0..MaxEdits /\ turns \in 0..MaxTurns /\ others \in 0..MaxOthers
    /\ page \in {"open", "left"} /\ mode \in {"view", "edit", "stopping"}
    /\ auto.timer \in BOOLEAN /\ auto.pending \in BOOLEAN
    /\ auto.dirty \in BOOLEAN /\ auto.suspended \in BOOLEAN
    /\ auto.call.stage \in {"none", "waiting"} \cup Unsettled
    /\ auto.call.attempt \in 0..Retries
    /\ auto.call.stage # "none" => ~auto.timer
    /\ known \in Nat /\ unsaved \in BOOLEAN
    /\ notice \in {"none", "shown", "faded"}
    /\ guard \in {"closed", "asking", "saving", "saved", "discarding", "discarded"}
    /\ Cardinality(wire) <= MaxStray
    /\ draft.version \in Nat /\ draft.edit \in 0..MaxEdits
    /\ saved \in 0..Older /\ stored \in 0..MaxEdits
    /\ events \subseteq {"other", "discard", "lost", "stayed", "stopped"}
    /\ told \in 0..MaxEdits

\* A change that neither a draft nor a version has ever held leaves
\* _htAutosaveDirty set, whatever calls, retries, conflicts and mode changes
\* lie in between: the flag that the last save on closing the tab depends on.
DirtyUntilSaved ==
    page = "open" /\ canvas > stored => auto.dirty

\* Closing the tab while editing never drops such a change in silence: either
\* the browser asks, or a last request carries the canvas as it is.
UnloadNotSilent ==
    [][CloseTab /\ CanAutosave(auto) /\ canvas > stored
        => Asks \/ Put(known, canvas) \in wire']_vars

\* Autosave is suspended only when another tab wrote the draft or the page
\* missed the outcome of a request of its own: as long as every answer
\* arrives, the version the page sends is the version the server has.
ConflictHasCause ==
    auto.suspended => events \cap {"other", "lost", "stayed"} # {}

\* A request that arrives late and names a draft version does not replace a
\* newer change by an older one, as long as nothing deleted the draft.
NoStaleOverwrite ==
    [][\A p \in wire :
        StrayArrives(p) /\ p.base # 0 /\ draft' # draft /\ "discard" \notin events
            => p.edit >= draft.edit]_vars

\* Every change made while editing is saved in the end, or the user is told
\* that it may not be: unless the page is left, editing is stopped before the
\* save, or the only failure notice that will ever show has faded.
EditSavedOrTold ==
    \A n \in 1..MaxEdits :
        (page = "open" /\ canvas = n)
            ~> (\/ stored >= n \/ told >= n \/ auto.suspended
                \/ notice = "faded" \/ page = "left" \/ "stopped" \in events)

-----------------------------------------------------------------------------
(* What documents say of the program and the code does not keep.            *)

\* doc/stories/done/HT-074.md:22: a user with unsaved changes who navigates
\* away is asked.  Here: what the guard lets through leaves nothing behind
\* that no draft and no version holds.
LeaveAsks == [][Navigate => canvas <= stored]_vars

\* Does not hold either.  doc/rfc/RFC-HT-048-view-designer-mode-toggle.md:343: stopping to edit
\* loses no change.  Here: in view mode, with nothing scheduled or under way
\* and no notice given, every change has been stored.
StoppingSaves ==
    page = "open" /\ mode = "view" /\ canvas > stored
        => \/ auto.timer \/ auto.call.stage # "none"
           \/ auto.suspended \/ notice # "none"

\* Does not hold either.  ui/components/canvas_js_autosave_core.py:8: the draft was "modified
\* elsewhere" when the conflict notice says so.
ConflictMeansOther == auto.suspended => "other" \in events
=============================================================================
