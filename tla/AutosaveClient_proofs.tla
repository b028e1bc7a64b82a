------------------------ MODULE AutosaveClient_proofs ------------------------
(* Theorems about AutosaveClient, for every number of changes, clicks,      *)
(* retries, other writes and stray requests.                                *)
EXTENDS AutosaveClient, TLAPS

CallType == [stage : {"none", "waiting"} \cup Unsettled, attempt : Nat,
             base : Nat, edit : Nat, version : Nat, changed : BOOLEAN]
AutoType == [timer : BOOLEAN, pending : BOOLEAN, dirty : BOOLEAN,
             suspended : BOOLEAN, call : CallType]

\* DirtyUntilSaved is not inductive: an answer clears the flag, so a change
\* that was not in the request must be queued by then, and the request must
\* count as stored.  A suspended client has no call that could come back.
AutoInv(a, s) ==
    /\ a \in AutoType
    /\ a.call.edit <= canvas
    /\ a.call.stage \in Unsettled /\ canvas > a.call.edit => a.pending
    /\ a.call.stage = "stored" => s >= a.call.edit
    /\ a.suspended => a.call.stage = "none" /\ a.dirty
    /\ canvas > s => a.dirty

AInv ==
    /\ canvas \in Nat /\ stored \in Nat /\ known \in Nat
    /\ draft.version \in Nat
    /\ \A p \in wire : p.edit \in Nat
    /\ AutoInv(auto, stored)

-----------------------------------------------------------------------------
(* The operators on the flags.                                              *)

\* A request carries the canvas as it is, whoever sends it.
LEMMA SendKeeps ==
  ASSUME canvas \in Nat, NEW s \in Nat, NEW a \in AutoType, NEW attempt \in Nat,
         NEW base \in Nat, ~a.suspended, canvas > s => a.dirty
  PROVE  AutoInv(Send(a, attempt, base), s)
<1>. DEFINE k == [NoCall EXCEPT !.stage = "sent", !.attempt = attempt,
                                !.base = base, !.edit = canvas]
            c == [a EXCEPT !.call = k]
<1>1. k \in CallType /\ k.stage = "sent" /\ k.edit = canvas
  BY DEF NoCall, CallType, Unsettled
<1>2. /\ c \in AutoType /\ c.call = k /\ c.suspended = a.suspended
      /\ c.dirty = a.dirty
  BY <1>1 DEF AutoType
<1>3. Send(a, attempt, base) = c
  BY DEF Send
<1>. HIDE DEF c, k
<1>. QED
  BY <1>1, <1>2, <1>3 DEF AutoInv

\* A flush keeps the invariant of the flags.
LEMMA FlushKeeps ==
  ASSUME canvas \in Nat, NEW s \in Nat, NEW a, AutoInv(a, s), NEW base \in Nat
  PROVE  AutoInv(Flush(a, base), s)
<1>. DEFINE b == [a EXCEPT !.timer = FALSE, !.dirty = CanAutosave(a) \/ a.dirty]
<1>0. a \in AutoType
  BY DEF AutoInv
<1>1. b \in AutoType
  BY <1>0 DEF AutoType, CanAutosave
<1>2. /\ b.call = a.call /\ b.pending = a.pending /\ b.suspended = a.suspended
      /\ (a.dirty => b.dirty)
  BY <1>0 DEF AutoType
<1>3. AutoInv(b, s)
  BY <1>1, <1>2 DEF AutoInv
<1>4. CASE ~CanAutosave(a)
  BY <1>3, <1>4 DEF Flush
<1>5. CASE CanAutosave(a) /\ a.call.stage # "none"
  <2>1. Flush(a, base) = [b EXCEPT !.pending = TRUE]
    BY <1>5 DEF Flush
  <2>. DEFINE c == [b EXCEPT !.pending = TRUE]
  <2>2. /\ c \in AutoType /\ c.call = b.call /\ c.pending = TRUE
        /\ c.suspended = b.suspended /\ c.dirty = b.dirty
    BY <1>1 DEF AutoType
  <2>. QED
    BY <1>3, <2>1, <2>2 DEF AutoInv
<1>6. CASE CanAutosave(a) /\ a.call.stage = "none"
  <2>1. Flush(a, base) = Send(b, 0, base)
    BY <1>6 DEF Flush
  <2>2. ~b.suspended /\ (canvas > s => b.dirty)
    BY <1>2, <1>3, <1>6 DEF CanAutosave, AutoInv
  <2>. QED
    BY <1>1, <2>1, <2>2, SendKeeps
<1>. QED
  BY <1>4, <1>5, <1>6

\* The end of a call keeps it, if an unsaved change is marked, or is queued
\* and taken up at once.
LEMMA FinishKeeps ==
  ASSUME canvas \in Nat, NEW s \in Nat, NEW a \in AutoType, NEW base \in Nat,
         NEW again \in BOOLEAN,
         a.suspended => a.dirty,
         canvas > s => a.dirty \/ (again /\ a.pending /\ ~a.suspended)
  PROVE  AutoInv(Finish(a, again, base), s)
<1>. DEFINE b == [a EXCEPT !.call = NoCall]
            c == [b EXCEPT !.pending = FALSE, !.dirty = TRUE]
<1>1. /\ b \in AutoType /\ b.call = NoCall /\ b.dirty = a.dirty
      /\ b.pending = a.pending /\ b.suspended = a.suspended
  BY DEF AutoType, CallType, NoCall
<1>2. c \in AutoType /\ c.call = NoCall /\ c.dirty = TRUE
  BY <1>1 DEF AutoType
<1>3. NoCall.edit = 0 /\ NoCall.stage = "none" /\ "none" \notin Unsettled
  BY DEF NoCall, Unsettled
<1>4. CASE again /\ b.pending /\ ~b.suspended
  <2>1. AutoInv(c, s)
    BY <1>2, <1>3 DEF AutoInv
  <2>. QED
    BY <1>4, <2>1, FlushKeeps DEF Finish
<1>5. CASE ~(again /\ b.pending /\ ~b.suspended)
  <2>1. canvas > s => b.dirty
    BY <1>1, <1>5
  <2>2. AutoInv(b, s)
    BY <1>1, <1>3, <2>1 DEF AutoInv
  <2>. QED
    BY <1>5, <2>2 DEF Finish
<1>. QED
  BY <1>4, <1>5

\* What scheduling does to the flags: it sets the dirty flag and a timer, or
\* queues the change behind the call.
LEMMA ScheduledFacts ==
  ASSUME NEW a \in AutoType
  PROVE  /\ Scheduled(a) \in AutoType
         /\ Scheduled(a).call = a.call /\ Scheduled(a).suspended = a.suspended
         /\ a.dirty => Scheduled(a).dirty
         /\ a.pending => Scheduled(a).pending
         /\ CanAutosave(a) => Scheduled(a).dirty
         /\ CanAutosave(a) /\ a.call.stage # "none" => Scheduled(a).pending
<1>1. CASE ~CanAutosave(a)
  BY <1>1 DEF Scheduled
<1>2. CASE CanAutosave(a) /\ a.call.stage # "none"
  <2>. DEFINE b == [a EXCEPT !.dirty = TRUE, !.pending = TRUE]
  <2>1. Scheduled(a) = b
    BY <1>2 DEF Scheduled
  <2>2. /\ b \in AutoType /\ b.call = a.call /\ b.suspended = a.suspended
        /\ b.dirty = TRUE /\ b.pending = TRUE
    BY DEF AutoType
  <2>. QED BY <2>1, <2>2
<1>3. CASE CanAutosave(a) /\ a.call.stage = "none"
  <2>. DEFINE b == [a EXCEPT !.dirty = TRUE, !.timer = TRUE]
  <2>1. Scheduled(a) = b
    BY <1>3 DEF Scheduled
  <2>2. /\ b \in AutoType /\ b.call = a.call /\ b.suspended = a.suspended
        /\ b.dirty = TRUE /\ b.pending = a.pending
    BY DEF AutoType
  <2>. QED BY <1>3, <2>1, <2>2
<1>. QED
  BY <1>1, <1>2, <1>3

\* The outcome of a request moves the call on and leaves the flags alone.
LEMMA OutcomeFacts ==
  ASSUME NEW a \in AutoType, NEW k \in CallType
  PROVE  LET b == [a EXCEPT !.call = k]
         IN  /\ b \in AutoType /\ b.call = k /\ b.pending = a.pending
             /\ b.dirty = a.dirty /\ b.suspended = a.suspended
  BY DEF AutoType

\* Flags that satisfy the invariant still do when a step has installed them.
LEMMA Installed ==
  ASSUME NEW a, NEW s, AutoInv(a, s), auto' = a, stored' = s, canvas' = canvas
  PROVE  AutoInv(auto, stored)'
  BY DEF AutoInv

\* What is stored only grows, so a step that leaves page and client alone
\* keeps the invariant.
LEMMA StoredGrows ==
  ASSUME AInv, UNCHANGED <<canvas, auto>>, stored' \in Nat, stored' >= stored
  PROVE  AutoInv(auto, stored)'
  BY DEF AInv, AutoInv, AutoType, CallType

\* Requests left behind carry a canvas.
LEMMA StrayTypes ==
  ASSUME NEW puts, \A p \in wire \cup puts : p.edit \in Nat, NEW w \in Strays(puts)
  PROVE  \A p \in w : p.edit \in Nat
  BY DEF Strays

LEMMA UnderwayType ==
  ASSUME AInv
  PROVE  \A p \in Underway \cup LastPut : p.edit \in Nat
  BY DEF AInv, AutoInv, AutoType, CallType, Underway, LastPut, Put

-----------------------------------------------------------------------------
(* The steps.                                                               *)

\* The page's requests, from the timer to the continuation of the fetch.
CallStep ==
    \/ TimerFires \/ ServerStores \/ ServerRefuses \/ ServerFails \/ NetworkFails
    \/ ReceiveStored \/ ReceiveRefused \/ ReceiveFailed \/ ReceiveLastFailed
    \/ RetryFires

\* What the server's answer adds to the call.
LEMMA StoredCallFacts ==
  ASSUME NEW c \in CallType, NEW version \in Nat, NEW changed \in BOOLEAN
  PROVE  LET k == [c EXCEPT !.stage = "stored", !.version = version,
                            !.changed = changed]
         IN  k \in CallType /\ k.stage = "stored" /\ k.edit = c.edit
  BY DEF CallType, Unsettled

LEMMA CallStepKeeps ==
  ASSUME AInv, CallStep
  PROVE  AutoInv(auto, stored)'
<1>0. /\ canvas \in Nat /\ stored \in Nat /\ known \in Nat /\ auto \in AutoType
      /\ draft.version \in Nat /\ AutoInv(auto, stored)
  BY DEF AInv, AutoInv
<1>1. auto.call \in CallType
  BY <1>0 DEF AutoType
<1>2. CASE TimerFires
  <2>1. AutoInv(Flush(auto, known), stored)
    BY <1>0, FlushKeeps
  <2>. QED
    BY <1>2, <2>1, Installed DEF TimerFires, screen, server
<1>3. CASE ServerStores
  <2>. DEFINE k == [auto.call EXCEPT !.stage = "stored", !.version = NextVersion,
                                     !.changed = auto.call.edit # saved]
  <2>1. k \in CallType /\ k.stage = "stored" /\ k.edit = auto.call.edit
    <3>1. NextVersion \in Nat /\ (auto.call.edit # saved) \in BOOLEAN
      BY <1>0 DEF NextVersion
    <3>. QED
      BY <1>1, <3>1, StoredCallFacts
  <2>2. auto' = [auto EXCEPT !.call = k]
    BY <1>0, <1>3 DEF ServerStores, AutoType
  <2>3. stored' = Later(stored, auto.call.edit) /\ canvas' = canvas
    BY <1>3 DEF ServerStores, Store, screen
  <2>4. stored' \in Nat /\ stored' >= stored /\ stored' >= auto.call.edit
    BY <1>0, <1>1, <2>3 DEF Later, CallType
  <2>5. auto.call.stage = "sent" /\ ~auto.suspended
    BY <1>0, <1>3 DEF ServerStores, Waiting, AutoInv
  <2>6. /\ auto' \in AutoType /\ auto'.call = k /\ auto'.pending = auto.pending
        /\ auto'.dirty = auto.dirty /\ auto'.suspended = auto.suspended
    BY <1>0, <2>1, <2>2, OutcomeFacts
  <2>. HIDE DEF k
  <2>. QED
    BY <1>0, <2>1, <2>3, <2>4, <2>5, <2>6 DEF AutoInv, Unsettled, AutoType
<1>4. ASSUME NEW stage \in {"refused", "failed", "rejected"}, Outcome(stage),
             auto.call.stage \in Unsettled, UNCHANGED <<canvas, stored>>
      PROVE  AutoInv(auto, stored)'
  <2>. DEFINE k == [auto.call EXCEPT !.stage = stage]
  <2>1. k \in CallType /\ k.stage = stage /\ k.edit = auto.call.edit
    BY <1>1 DEF CallType, Unsettled
  <2>2. auto' = [auto EXCEPT !.call = k]
    BY <1>0, <1>4 DEF Outcome, AutoType
  <2>3. /\ auto' \in AutoType /\ auto'.call = k /\ auto'.pending = auto.pending
        /\ auto'.dirty = auto.dirty /\ auto'.suspended = auto.suspended
    BY <1>0, <2>1, <2>2, OutcomeFacts
  <2>. HIDE DEF k
  <2>. QED
    BY <1>0, <1>4, <2>1, <2>3 DEF AutoInv, Unsettled
<1>5. CASE ServerRefuses \/ ServerFails \/ NetworkFails
  BY <1>4, <1>5 DEF ServerRefuses, ServerFails, NetworkFails, Waiting, Unsettled,
                    screen, server
<1>6. CASE ReceiveStored
  <2>. DEFINE a == [auto EXCEPT !.dirty = FALSE]
  <2>1. /\ a \in AutoType /\ a.pending = auto.pending
        /\ a.suspended = auto.suspended
    BY <1>0 DEF AutoType
  <2>2. auto.call.stage = "stored" /\ "stored" \in Unsettled
    BY <1>6 DEF ReceiveStored, Waiting, Unsettled
  <2>3. canvas > stored => a.dirty \/ (TRUE /\ a.pending /\ ~a.suspended)
    BY <1>0, <1>1, <2>1, <2>2 DEF AutoInv, CallType
  <2>4. known' \in Nat /\ ~a.suspended
    BY <1>0, <1>1, <1>6, <2>1, <2>2 DEF ReceiveStored, Learn, CallType, AutoInv
  <2>. HIDE DEF a
  <2>5. AutoInv(Finish(a, TRUE, known'), stored)
    BY <1>0, <2>1, <2>3, <2>4, FinishKeeps
  <2>6. auto' = Finish(a, TRUE, known')
    BY <1>6 DEF ReceiveStored, a
  <2>. QED
    BY <1>6, <2>5, <2>6, Installed DEF ReceiveStored, screen, server
<1>7. CASE ReceiveRefused
  <2>. DEFINE a == [auto EXCEPT !.timer = FALSE, !.pending = FALSE,
                                !.dirty = TRUE, !.suspended = TRUE]
  <2>1. a \in AutoType /\ a.dirty = TRUE
    BY <1>0 DEF AutoType
  <2>2. auto' = Finish(a, FALSE, known)
    BY <1>7 DEF ReceiveRefused, Conflict
  <2>. HIDE DEF a
  <2>3. AutoInv(Finish(a, FALSE, known), stored)
    BY <1>0, <2>1, FinishKeeps
  <2>. QED
    BY <1>7, <2>2, <2>3, Installed DEF ReceiveRefused, screen, server
<1>8. CASE ReceiveFailed
  <2>. DEFINE k == [NoCall EXCEPT !.stage = "waiting",
                                  !.attempt = auto.call.attempt]
  <2>1. k \in CallType /\ k.stage = "waiting" /\ k.edit = 0
    BY <1>1 DEF CallType, NoCall
  <2>2. auto' = [auto EXCEPT !.call = k]
    BY <1>8 DEF ReceiveFailed, RetryAfter
  <2>3. /\ auto' \in AutoType /\ auto'.call = k /\ auto'.pending = auto.pending
        /\ auto'.dirty = auto.dirty /\ auto'.suspended = auto.suspended
    BY <1>0, <2>1, <2>2, OutcomeFacts
  <2>4. ~auto.suspended /\ canvas' = canvas /\ stored' = stored
    BY <1>0, <1>8 DEF ReceiveFailed, Waiting, AutoInv, screen, server
  <2>. HIDE DEF k
  <2>. QED
    BY <1>0, <2>1, <2>3, <2>4 DEF AutoInv, Unsettled
<1>9. CASE ReceiveLastFailed
  <2>. DEFINE a == [auto EXCEPT !.pending = FALSE, !.dirty = TRUE]
  <2>1. a \in AutoType /\ a.dirty = TRUE
    BY <1>0 DEF AutoType
  <2>2. auto' = Finish(a, FALSE, known)
    BY <1>9 DEF ReceiveLastFailed, GiveUp
  <2>. HIDE DEF a
  <2>3. AutoInv(Finish(a, FALSE, known), stored)
    BY <1>0, <2>1, FinishKeeps
  <2>. QED
    BY <1>9, <2>2, <2>3, Installed DEF ReceiveLastFailed, screen, server
<1>10. CASE RetryFires
  <2>1. ~auto.suspended /\ (canvas > stored => auto.dirty)
    BY <1>0, <1>10 DEF RetryFires, Waiting, AutoInv
  <2>2. auto.call.attempt + 1 \in Nat
    BY <1>1 DEF CallType
  <2>3. AutoInv(Send(auto, auto.call.attempt + 1, known), stored)
    BY <1>0, <2>1, <2>2, SendKeeps
  <2>4. AutoInv(Finish(auto, FALSE, known), stored)
    BY <1>0, <2>1, FinishKeeps
  <2>. QED
    BY <1>10, <2>3, <2>4, Installed DEF RetryFires, screen, server
<1>. QED
  BY <1>2, <1>3, <1>5, <1>6, <1>7, <1>8, <1>9, <1>10 DEF CallStep

\* The user and the leave guard, while the page stays open.
OpenStep ==
    \/ Edit \/ EnterEdit \/ StopEditing \/ EnterView \/ ClickRetry \/ NoticeFades
    \/ OtherSaves \/ OtherDiscards \/ NavigateAsks \/ StayOnPage
    \/ GuardCancels \/ GuardClicks \/ ServerSaves \/ ServerDiscards \/ GuardFails

LEMMA OpenStepKeeps ==
  ASSUME AInv, OpenStep
  PROVE  AutoInv(auto, stored)'
<1>0. /\ canvas \in Nat /\ stored \in Nat /\ known \in Nat /\ auto \in AutoType
      /\ AutoInv(auto, stored)
  BY DEF AInv, AutoInv
<1>1. auto.call \in CallType
  BY <1>0 DEF AutoType
<1>2. CASE Edit
  <2>1. canvas' = canvas + 1 /\ auto' = Scheduled(auto) /\ stored' = stored
    BY <1>2 DEF Edit, server
  <2>2. CASE ~CanAutosave(auto)
    <3>1. auto' = auto /\ auto.suspended
      BY <1>2, <2>1, <2>2 DEF Scheduled, CanAutosave, Edit
    <3>2. auto.dirty /\ auto.call.stage = "none"
      BY <1>0, <3>1 DEF AutoInv
    <3>. QED
      BY <1>0, <1>1, <2>1, <3>1, <3>2 DEF AutoInv, Unsettled, CallType
  <2>3. CASE CanAutosave(auto)
    <3>1. /\ auto' \in AutoType /\ auto'.call = auto.call
          /\ auto'.suspended = auto.suspended /\ auto'.dirty
          /\ auto.call.stage # "none" => auto'.pending
      BY <1>0, <2>1, <2>3, ScheduledFacts
    <3>. QED
      BY <1>0, <1>1, <2>1, <3>1 DEF AutoInv, Unsettled, CallType
  <2>. QED
    BY <2>2, <2>3
<1>3. CASE StopEditing
  <2>1. AutoInv(Flush(auto, known), stored)
    BY <1>0, FlushKeeps
  <2>. QED
    BY <1>3, <2>1, Installed DEF StopEditing, server
<1>4. CASE ClickRetry
  <2>1. canvas' = canvas /\ auto' = Scheduled(auto) /\ stored' = stored
    BY <1>4 DEF ClickRetry, screen, server
  <2>2. /\ auto' \in AutoType /\ auto'.call = auto.call
        /\ auto'.suspended = auto.suspended
        /\ auto.dirty => auto'.dirty
        /\ auto.pending => auto'.pending
    BY <1>0, <2>1, ScheduledFacts
  <2>. QED
    BY <1>0, <2>1, <2>2 DEF AutoInv
<1>5. CASE ServerSaves
  <2>1. stored' = canvas /\ UNCHANGED <<canvas, auto>>
    BY <1>5 DEF ServerSaves, screen, client
  <2>. QED
    BY <1>0, <1>1, <2>1 DEF AutoInv, CallType
<1>6. CASE \/ EnterEdit \/ EnterView \/ NoticeFades \/ OtherSaves \/ OtherDiscards
           \/ NavigateAsks \/ StayOnPage \/ GuardCancels \/ GuardClicks
           \/ ServerDiscards \/ GuardFails
  <2>1. UNCHANGED <<canvas, auto, stored>>
    BY <1>6 DEF EnterEdit, EnterView, NoticeFades, OtherSaves, OtherDiscards,
         NavigateAsks, StayOnPage, GuardCancels, GuardClicks, ServerDiscards,
         GuardFails, screen, client, server
  <2>. QED
    BY <1>0, <2>1, Installed
<1>. QED
  BY <1>2, <1>3, <1>4, <1>5, <1>6 DEF OpenStep

LEMMA LeaveKeeps ==
  ASSUME AInv, Leave
  PROVE  AutoInv(auto, stored)'
<1>1. canvas' = 0 /\ auto' = Quiet /\ stored' = stored /\ stored \in Nat
  BY DEF Leave, server, AInv
<1>2. NoCall \in CallType /\ NoCall.edit = 0 /\ NoCall.stage = "none"
  BY DEF NoCall, CallType
<1>3. Quiet \in AutoType /\ Quiet.call = NoCall /\ Quiet.suspended = FALSE
  BY <1>2 DEF Quiet, AutoType
<1>. HIDE DEF Quiet
<1>. QED
  BY <1>1, <1>2, <1>3 DEF AutoInv, Unsettled

\* The rest of the invariant is about types.
LEMMA CountsKeep ==
  ASSUME AInv, Next
  PROVE  /\ canvas' \in Nat /\ stored' \in Nat /\ known' \in Nat
         /\ draft'.version \in Nat
         /\ \A p \in wire' : p.edit \in Nat
<1>0. /\ canvas \in Nat /\ stored \in Nat /\ known \in Nat
      /\ draft.version \in Nat /\ auto.call \in CallType
      /\ \A p \in wire : p.edit \in Nat
  BY DEF AInv, AutoInv, AutoType
<1>1. canvas' \in Nat
  <2>1. CASE Edit
    BY <1>0, <2>1 DEF Edit
  <2>2. CASE Leave
    BY <2>2 DEF Leave
  <2>3. CASE canvas' = canvas
    BY <1>0, <2>3
  <2>. QED
    BY <2>1, <2>2, <2>3
    DEF Next, EnterEdit, StopEditing, EnterView, ClickRetry, NoticeFades,
       TimerFires, ServerStores, ServerRefuses, ServerFails, NetworkFails,
       ReceiveStored, ReceiveRefused, ReceiveFailed, ReceiveLastFailed,
       RetryFires, StrayArrives, OtherSaves, OtherDiscards, Navigate,
       NavigateAsks, CloseTab, StayOnPage, GuardCancels, GuardClicks,
       ServerSaves, ServerDiscards, GuardFails, GuardLeaves, screen
<1>2. known' \in Nat
  <2>1. CASE ReceiveStored
    BY <1>0, <2>1 DEF ReceiveStored, Learn, CallType
  <2>2. CASE Leave
    BY <2>2 DEF Leave
  <2>3. CASE known' = known
    BY <1>0, <2>3
  <2>. QED
    BY <2>1, <2>2, <2>3
    DEF Next, Edit, EnterEdit, StopEditing, EnterView, ClickRetry, NoticeFades,
       TimerFires, ServerStores, ServerRefuses, ServerFails, NetworkFails,
       ReceiveRefused, ReceiveFailed, ReceiveLastFailed, RetryFires,
       StrayArrives, OtherSaves, OtherDiscards, Navigate, NavigateAsks,
       CloseTab, StayOnPage, GuardCancels, GuardClicks, ServerSaves,
       ServerDiscards, GuardFails, GuardLeaves, client, learnt
<1>3. ASSUME NEW edit \in Nat, Store(edit)
      PROVE  stored' \in Nat /\ draft'.version \in Nat
  BY <1>0, <1>3 DEF Store, Later, NextVersion
<1>4. stored' \in Nat /\ draft'.version \in Nat
  <2>1. CASE ServerStores
    BY <1>0, <1>3, <2>1 DEF ServerStores, CallType
  <2>2. CASE \E p \in wire : StrayArrives(p)
    BY <1>0, <1>3, <2>2 DEF StrayArrives, server
  <2>3. CASE OtherSaves \/ OtherDiscards \/ ServerSaves \/ ServerDiscards
    BY <1>0, <2>3 DEF OtherSaves, OtherDiscards, ServerSaves, ServerDiscards,
         NextVersion
  <2>4. CASE UNCHANGED server
    BY <1>0, <2>4 DEF server
  <2>. QED
    BY <2>1, <2>2, <2>3, <2>4
    DEF Next, Edit, EnterEdit, StopEditing, EnterView, ClickRetry,
       NoticeFades, TimerFires, ServerRefuses, ServerFails,
       NetworkFails, ReceiveStored, ReceiveRefused, ReceiveFailed,
       ReceiveLastFailed, RetryFires, Navigate, NavigateAsks, CloseTab,
       StayOnPage, GuardCancels, GuardClicks, GuardFails, GuardLeaves, Leave
<1>5. \A p \in wire' : p.edit \in Nat
  <2>1. \A p \in Underway \cup LastPut : p.edit \in Nat
    BY UnderwayType
  <2>2. CASE wire' \in Strays(Underway)
    BY <1>0, <2>1, <2>2, StrayTypes
  <2>3. CASE wire' \in Strays(Underway \cup LastPut)
    BY <1>0, <2>1, <2>3, StrayTypes
  <2>4. CASE wire' \subseteq wire \cup LastPut
    BY <1>0, <2>1, <2>4
  <2>. QED
    BY <2>2, <2>3, <2>4
    DEF Next, Edit, EnterEdit, StopEditing, EnterView, ClickRetry,
       NoticeFades, TimerFires, ServerStores, ServerRefuses, ServerFails,
       NetworkFails, ReceiveStored, ReceiveRefused, ReceiveFailed,
       ReceiveLastFailed, RetryFires, StrayArrives, OtherSaves, OtherDiscards,
       Navigate, NavigateAsks, CloseTab, StayOnPage, GuardCancels, GuardClicks,
       ServerSaves, ServerDiscards, GuardFails, GuardLeaves
<1>. QED
  BY <1>1, <1>2, <1>4, <1>5

-----------------------------------------------------------------------------
(* The theorems.                                                            *)

\* The strengthened invariant holds in every reachable state.
THEOREM ClientInductive == Spec => []AInv
<1>1. Init => AInv
  <2>. SUFFICES ASSUME Init PROVE AInv
    OBVIOUS
  <2>1. NoCall \in CallType /\ NoCall.edit = 0 /\ NoCall.stage = "none"
    BY DEF NoCall, CallType
  <2>2. Quiet \in AutoType /\ Quiet.call = NoCall /\ Quiet.suspended = FALSE
    BY <2>1 DEF Quiet, AutoType
  <2>3. /\ canvas = 0 /\ stored = 0 /\ auto = Quiet /\ wire = {}
        /\ draft.version \in Nat /\ known = draft.version
    BY DEF Init
  <2>. HIDE DEF Quiet
  <2>. QED
    BY <2>1, <2>2, <2>3 DEF AInv, AutoInv, Unsettled
<1>2. AInv /\ [Next]_vars => AInv'
  <2>. SUFFICES ASSUME AInv, [Next]_vars PROVE AInv'
    OBVIOUS
  <2>1. CASE Next
    <3>1. AutoInv(auto, stored)'
      <4>1. CASE CallStep
        BY <4>1, CallStepKeeps
      <4>2. CASE OpenStep
        BY <4>2, OpenStepKeeps
      <4>3. CASE Navigate \/ CloseTab \/ GuardLeaves
        BY <4>3, LeaveKeeps DEF Navigate, CloseTab, GuardLeaves
      <4>4. ASSUME NEW p \in wire, StrayArrives(p)
            PROVE  AutoInv(auto, stored)'
        <5>1. UNCHANGED <<canvas, auto>> /\ p.edit \in Nat /\ stored \in Nat
          BY <4>4 DEF StrayArrives, screen, client, AInv
        <5>2. stored' \in Nat /\ stored' >= stored
          BY <4>4, <5>1 DEF StrayArrives, Store, Later, server
        <5>. QED
          BY <5>1, <5>2, StoredGrows
      <4>. QED
        BY <2>1, <4>1, <4>2, <4>3, <4>4 DEF Next, CallStep, OpenStep
    <3>. QED
      BY <2>1, <3>1, CountsKeep DEF AInv
  <2>2. CASE UNCHANGED vars
    BY <2>2 DEF vars, AInv, AutoInv
  <2>. QED
    BY <2>1, <2>2
<1>. QED
  BY <1>1, <1>2, PTL DEF Spec

\* A change that nothing holds leaves _htAutosaveDirty set.
THEOREM DirtyCorrect == Spec => []DirtyUntilSaved
<1>1. AInv => DirtyUntilSaved
  BY DEF AInv, AutoInv, DirtyUntilSaved
<1>. QED
  BY <1>1, ClientInductive, PTL

\* Closing the tab while editing asks, or sends the canvas as it is.
THEOREM UnloadCorrect == Spec => UnloadNotSilent
<1>1. ASSUME AInv, CloseTab, CanAutosave(auto), canvas > stored
      PROVE  Asks \/ Put(known, canvas) \in wire'
  <2>1. NeedsFlush
    BY <1>1 DEF AInv, AutoInv, NeedsFlush
  <2>2. LastPut \subseteq wire'
    BY <1>1 DEF CloseTab
  <2>. QED
    BY <2>1, <2>2 DEF LastPut, Asks
<1>2. AInv /\ [Next]_vars
        => [CloseTab /\ CanAutosave(auto) /\ canvas > stored
              => Asks \/ Put(known, canvas) \in wire']_vars
  BY <1>1
<1>. QED
  BY <1>2, ClientInductive, PTL DEF Spec, UnloadNotSilent

-----------------------------------------------------------------------------
(* Versions that the page quotes.                                           *)

Causes == {"other", "lost", "stayed"}

\* The page has the draft to itself, and every answer has arrived.
Alone == page = "open" /\ events \cap Causes = {}

\* As long as it has, the server accepts what the page sends: the version
\* that it knows, or is about to be told, is that of the draft.
CauseInv ==
    /\ page # "open" => ~auto.suspended
    /\ Alone =>
         /\ wire = {} /\ ~auto.suspended /\ auto.call.stage # "refused"
         /\ auto.call.stage = "sent" => Accepts(auto.call.base)
         /\ IF auto.call.stage = "stored" THEN draft.version \in {0, auto.call.version}
            ELSE Accepts(known)

\* Whoever quotes the version of draft d sends no older change than d holds.
Quotes(d, base, edit) ==
    /\ base \in Nat /\ base <= d.version
    /\ base # 0 /\ base = d.version => d.edit <= edit

\* As long as no draft is deleted, versions count up, so that a version names
\* one draft to everybody who quotes it, however late.
OverwriteInv ==
    /\ draft.version = 0 => draft.edit = 0
    /\ draft.edit \in Nat
    /\ "discard" \notin events =>
         /\ \A p \in wire : Quotes(draft, p.base, p.edit)
         /\ Quotes(draft, known, canvas)
         /\ auto.call.stage = "sent" => Quotes(draft, auto.call.base, auto.call.edit)
         /\ auto.call.stage = "stored" => Quotes(draft, auto.call.version, auto.call.edit)

LearntInv == CauseInv /\ OverwriteInv

\* A call that sends the canvas as it is.
Sends(k, base) == k.stage = "sent" /\ k.base = base /\ k.edit = canvas

LEMMA SendCall ==
  ASSUME NEW a \in AutoType, NEW attempt, NEW base
  PROVE  /\ Send(a, attempt, base).suspended = a.suspended
         /\ Sends(Send(a, attempt, base).call, base)
  BY DEF Send, Sends, AutoType, NoCall

\* A flush sends the canvas, or leaves the call alone.
LEMMA FlushCall ==
  ASSUME NEW a \in AutoType, NEW base
  PROVE  /\ Flush(a, base).suspended = a.suspended
         /\ \/ Flush(a, base).call = a.call
            \/ a.call.stage = "none" /\ Sends(Flush(a, base).call, base)
<1>. DEFINE b == [a EXCEPT !.timer = FALSE, !.dirty = CanAutosave(a) \/ a.dirty]
<1>1. b \in AutoType /\ b.call = a.call /\ b.suspended = a.suspended
  BY DEF AutoType, CanAutosave
<1>2. CASE ~CanAutosave(a)
  BY <1>1, <1>2 DEF Flush
<1>3. CASE CanAutosave(a) /\ a.call.stage # "none"
  <2>1. Flush(a, base) = [b EXCEPT !.pending = TRUE]
    BY <1>3 DEF Flush
  <2>. QED
    BY <1>1, <2>1 DEF AutoType
<1>4. CASE CanAutosave(a) /\ a.call.stage = "none"
  <2>1. Flush(a, base) = Send(b, 0, base)
    BY <1>4 DEF Flush
  <2>. HIDE DEF b
  <2>. QED
    BY <1>1, <1>4, <2>1, SendCall
<1>. QED
  BY <1>2, <1>3, <1>4

\* After a call there is none, or the next one sends the canvas.
LEMMA FinishCall ==
  ASSUME NEW a \in AutoType, NEW again \in BOOLEAN, NEW base
  PROVE  /\ Finish(a, again, base).suspended = a.suspended
         /\ \/ Finish(a, again, base).call = NoCall
            \/ Sends(Finish(a, again, base).call, base)
<1>. DEFINE b == [a EXCEPT !.call = NoCall]
            c == [b EXCEPT !.pending = FALSE, !.dirty = TRUE]
<1>1. b \in AutoType /\ b.call = NoCall /\ b.suspended = a.suspended
  BY DEF AutoType, CallType, NoCall
<1>2. c \in AutoType /\ c.call = NoCall /\ c.suspended = a.suspended
  BY <1>1 DEF AutoType
<1>3. CASE again /\ b.pending /\ ~b.suspended
  <2>1. Finish(a, again, base) = Flush(c, base)
    BY <1>3 DEF Finish
  <2>. HIDE DEF c
  <2>. QED
    BY <1>2, <2>1, FlushCall
<1>4. CASE ~(again /\ b.pending /\ ~b.suspended)
  BY <1>1, <1>4 DEF Finish
<1>. QED
  BY <1>3, <1>4

\* A draft that is kept, or written once more, is quoted as before.
LEMMA QuotesKept ==
  ASSUME NEW d, NEW e, d.version \in Nat, e = d \/ e.version = d.version + 1,
         NEW base, NEW edit, Quotes(d, base, edit)
  PROVE  Quotes(e, base, edit)
  BY DEF Quotes

\* Nor does a newer change make a difference.
LEMMA QuotesLater ==
  ASSUME NEW d, d.edit \in Nat, NEW base, NEW edit \in Nat, NEW later \in Nat,
         later >= edit, Quotes(d, base, edit)
  PROVE  Quotes(d, base, later)
  BY DEF Quotes

\* Steps of the page on which the call goes on, ends or begins.
LEMMA PageSteps ==
  ASSUME AInv, AInv', LearntInv, UNCHANGED <<page, known, draft, wire>>,
         canvas' >= canvas, events \subseteq events',
         auto'.suspended = auto.suspended,
         \/ auto'.call = auto.call
         \/ /\ auto.call.stage # "stored"
            /\ auto'.call.stage \notin {"sent", "stored", "refused"}
         \/ /\ auto.call.stage # "stored"
            /\ auto'.call.stage = "sent" /\ auto'.call.base = known
            /\ auto'.call.edit = canvas'
  PROVE  LearntInv'
<1>1. Alone' => Alone
  BY DEF Alone
<1>2. \A base : Accepts(base)' = Accepts(base)
  BY DEF Accepts
<1>3. CauseInv'
  BY <1>1, <1>2 DEF LearntInv, CauseInv, Alone
<1>4. canvas \in Nat /\ canvas' \in Nat /\ draft.version \in Nat
  BY DEF AInv
<1>5. "discard" \notin events' => Quotes(draft', known', canvas')
  BY <1>4, QuotesLater DEF LearntInv, OverwriteInv
<1>6. OverwriteInv'
  BY <1>5 DEF LearntInv, OverwriteInv
<1>. QED
  BY <1>3, <1>6 DEF LearntInv

LEMMA CallEnds ==
  ASSUME AInv, AInv', LearntInv, UNCHANGED <<page, known, draft, wire, canvas, events>>,
         auto'.suspended = auto.suspended, auto.call.stage # "stored",
         auto'.call = NoCall \/ Sends(auto'.call, known)
  PROVE  LearntInv'
<1>1. NoCall.stage \notin {"sent", "stored", "refused"}
  BY DEF NoCall
<1>2. canvas' >= canvas /\ events \subseteq events'
  BY DEF AInv
<1>3. CASE auto'.call = NoCall
  BY <1>1, <1>2, <1>3, PageSteps
<1>4. CASE Sends(auto'.call, known)
  BY <1>2, <1>4, PageSteps DEF Sends
<1>. QED
  BY <1>3, <1>4

\* The calls of a page: before the answer, and after it.
LEMMA LearntCalls ==
  ASSUME AInv, AInv', LearntInv, CallStep
  PROVE  LearntInv'
<1>0. /\ canvas \in Nat /\ known \in Nat /\ auto \in AutoType /\ auto.call \in CallType
      /\ draft.version \in Nat /\ draft.edit \in Nat /\ auto.call.edit <= canvas
  BY DEF AInv, AutoInv, AutoType, LearntInv, OverwriteInv
<1>1. CASE TimerFires
  <2>1. UNCHANGED <<page, known, draft, wire, canvas, events>> /\ auto' = Flush(auto, known)
    BY <1>1 DEF TimerFires, screen, learnt, server
  <2>. QED
    BY <1>0, <2>1, FlushCall, PageSteps DEF Sends
<1>2. CASE ServerStores
  <2>1. /\ UNCHANGED <<page, known, canvas, wire, events>>
        /\ draft' = [version |-> draft.version + 1, edit |-> auto.call.edit]
        /\ auto.call.stage = "sent"
    BY <1>2 DEF ServerStores, Waiting, Store, NextVersion, screen, learnt
  <2>2. /\ auto'.suspended = auto.suspended /\ auto'.call.stage = "stored"
        /\ auto'.call.version = draft.version + 1 /\ auto'.call.edit = auto.call.edit
    BY <1>0, <1>2 DEF ServerStores, AutoType, CallType, NextVersion
  <2>3. CauseInv'
    BY <2>1, <2>2 DEF LearntInv, CauseInv, Alone
  <2>4. \A base, edit : Quotes(draft, base, edit) => Quotes(draft', base, edit)
    BY <1>0, <2>1, QuotesKept
  <2>5. draft'.version # 0 /\ draft'.edit \in Nat
    BY <1>0, <2>1 DEF CallType
  <2>6. Quotes(draft', draft.version + 1, auto.call.edit)
    BY <1>0, <2>1 DEF Quotes, CallType
  <2>7. OverwriteInv'
    BY <2>1, <2>2, <2>4, <2>5, <2>6 DEF LearntInv, OverwriteInv
  <2>. QED
    BY <2>3, <2>7 DEF LearntInv
<1>3. CASE ServerRefuses
  <2>1. /\ UNCHANGED <<page, known, draft, canvas, wire, events>>
        /\ auto.call.stage = "sent" /\ ~Accepts(auto.call.base) /\ page = "open"
    BY <1>3 DEF ServerRefuses, Waiting, screen, learnt, server
  <2>2. auto'.suspended = auto.suspended /\ auto'.call.stage = "refused"
    BY <1>0, <1>3 DEF ServerRefuses, Outcome, AutoType, CallType
  <2>3. ~Alone'
    BY <2>1 DEF LearntInv, CauseInv, Alone
  <2>. QED
    BY <2>1, <2>2, <2>3 DEF LearntInv, CauseInv, OverwriteInv
<1>4. CASE ServerFails
  <2>1. /\ UNCHANGED <<page, known, draft, canvas, wire, events>>
        /\ auto.call.stage = "sent"
    BY <1>4 DEF ServerFails, Waiting, screen, learnt, server
  <2>2. /\ auto'.suspended = auto.suspended
        /\ auto'.call.stage \in {"failed", "rejected"}
    BY <1>0, <1>4 DEF ServerFails, Outcome, AutoType, CallType
  <2>. QED
    BY <1>0, <2>1, <2>2, PageSteps
<1>5. CASE NetworkFails
  <2>1. /\ UNCHANGED <<page, known, draft, canvas>> /\ wire' \in Strays(Underway)
        /\ page = "open"
        /\ auto.call.stage = "stored" \/ wire' # wire => events' = events \cup {"lost"}
        /\ events \subseteq events'
    BY <1>5 DEF NetworkFails, screen, learnt, server
  <2>2. auto'.suspended = auto.suspended /\ auto'.call.stage = "failed"
    BY <1>0, <1>5 DEF NetworkFails, Outcome, AutoType, CallType
  <2>3. CASE auto.call.stage # "stored" /\ wire' = wire
    BY <1>0, <2>1, <2>2, <2>3, PageSteps
  <2>4. CASE auto.call.stage = "stored" \/ wire' # wire
    <3>1. ~Alone'
      BY <2>1, <2>4 DEF Alone, Causes
    <3>2. \A p \in wire' : p \in wire \/ p \in Underway
      BY <2>1 DEF Strays
    <3>3. "discard" \notin events' => \A p \in wire' : Quotes(draft, p.base, p.edit)
      BY <2>1, <3>2 DEF LearntInv, OverwriteInv, Underway, Put
    <3>. QED
      BY <2>1, <2>2, <3>1, <3>3 DEF LearntInv, CauseInv, OverwriteInv
  <2>. QED
    BY <2>3, <2>4
<1>6. CASE ReceiveStored
  <2>. DEFINE a == [auto EXCEPT !.dirty = FALSE]
  <2>1. a \in AutoType /\ a.suspended = auto.suspended
    BY <1>0 DEF AutoType
  <2>2. /\ UNCHANGED <<page, draft, canvas, wire, events>> /\ auto.call.stage = "stored"
        /\ known' = auto.call.version /\ auto' = Finish(a, TRUE, auto.call.version)
    BY <1>6 DEF ReceiveStored, Waiting, Learn, screen, server
  <2>. HIDE DEF a
  <2>3. /\ auto'.suspended = auto.suspended
        /\ \/ auto'.call = NoCall
           \/ /\ auto'.call.stage = "sent" /\ auto'.call.edit = canvas
              /\ auto'.call.base = auto.call.version
    BY <1>0, <2>1, <2>2, FinishCall DEF Sends
  <2>4. NoCall.stage = "none"
    BY DEF NoCall
  <2>5. CauseInv'
    BY <2>2, <2>3, <2>4 DEF LearntInv, CauseInv, Alone, Accepts
  <2>6. "discard" \notin events => Quotes(draft, auto.call.version, canvas)
    BY <1>0, <2>2, QuotesLater DEF LearntInv, OverwriteInv, CallType
  <2>7. OverwriteInv'
    BY <2>2, <2>3, <2>4, <2>6 DEF LearntInv, OverwriteInv
  <2>. QED
    BY <2>5, <2>7 DEF LearntInv
<1>7. CASE ReceiveRefused
  <2>. DEFINE a == [auto EXCEPT !.timer = FALSE, !.pending = FALSE,
                                !.dirty = TRUE, !.suspended = TRUE]
  <2>1. a \in AutoType
    BY <1>0 DEF AutoType
  <2>2. /\ UNCHANGED <<page, known, draft, canvas, wire, events>>
        /\ auto.call.stage = "refused" /\ page = "open" /\ auto' = Finish(a, FALSE, known)
    BY <1>7 DEF ReceiveRefused, Conflict, Waiting, screen, learnt, server
  <2>. HIDE DEF a
  <2>3. auto'.call = NoCall \/ Sends(auto'.call, known)
    BY <1>0, <2>1, <2>2, FinishCall
  <2>4. ~Alone'
    BY <2>2 DEF LearntInv, CauseInv, Alone
  <2>5. NoCall.stage = "none"
    BY DEF NoCall
  <2>. QED
    BY <2>2, <2>3, <2>4, <2>5 DEF LearntInv, CauseInv, OverwriteInv, Sends
<1>8. CASE ReceiveFailed
  <2>1. /\ UNCHANGED <<page, known, draft, canvas, wire, events>>
        /\ auto.call.stage = "failed" /\ auto' = RetryAfter(auto)
    BY <1>8 DEF ReceiveFailed, Waiting, screen, learnt, server
  <2>2. auto'.suspended = auto.suspended /\ auto'.call.stage = "waiting"
    BY <1>0, <2>1 DEF RetryAfter, AutoType, NoCall
  <2>. QED
    BY <1>0, <2>1, <2>2, PageSteps
<1>9. CASE ReceiveLastFailed
  <2>. DEFINE a == [auto EXCEPT !.pending = FALSE, !.dirty = TRUE]
  <2>1. a \in AutoType /\ a.suspended = auto.suspended
    BY <1>0 DEF AutoType
  <2>2. /\ UNCHANGED <<page, known, draft, canvas, wire, events>>
        /\ auto.call.stage \in {"failed", "rejected"} /\ auto' = Finish(a, FALSE, known)
    BY <1>9 DEF ReceiveLastFailed, GiveUp, Waiting, screen, learnt, server
  <2>. HIDE DEF a
  <2>3. /\ auto'.suspended = auto.suspended
        /\ auto'.call = NoCall \/ Sends(auto'.call, known)
    BY <1>0, <2>1, <2>2, FinishCall
  <2>. QED
    BY <2>2, <2>3, CallEnds
<1>10. CASE RetryFires
  <2>1. /\ UNCHANGED <<page, known, draft, canvas, wire, events>>
        /\ auto.call.stage = "waiting"
        /\ auto' = IF CanAutosave(auto) THEN Send(auto, auto.call.attempt + 1, known)
                                        ELSE Finish(auto, FALSE, known)
    BY <1>10 DEF RetryFires, Waiting, screen, learnt, server
  <2>2. /\ auto'.suspended = auto.suspended
        /\ auto'.call = NoCall \/ Sends(auto'.call, known)
    BY <1>0, <2>1, FinishCall, SendCall
  <2>. QED
    BY <2>1, <2>2, CallEnds
<1>. QED
  BY <1>1, <1>2, <1>3, <1>4, <1>5, <1>6, <1>7, <1>8, <1>9, <1>10 DEF CallStep

\* The user and the leave guard, while the page stays open.
LEMMA LearntOpen ==
  ASSUME AInv, AInv', LearntInv, OpenStep
  PROVE  LearntInv'
<1>0. /\ canvas \in Nat /\ known \in Nat /\ auto \in AutoType /\ draft.version \in Nat
      /\ draft.edit \in Nat
  BY DEF AInv, AutoInv, LearntInv, OverwriteInv
<1>1. CASE Edit \/ ClickRetry
  <2>1. /\ UNCHANGED <<page, known, draft, wire, events>> /\ canvas' >= canvas
        /\ auto' = Scheduled(auto)
    BY <1>0, <1>1 DEF Edit, ClickRetry, learnt, server, screen
  <2>. QED
    BY <1>0, <2>1, ScheduledFacts, PageSteps
<1>2. CASE StopEditing
  <2>1. /\ UNCHANGED <<page, known, draft, wire, canvas, events>>
        /\ auto' = Flush(auto, known)
    BY <1>2 DEF StopEditing, learnt, server
  <2>. QED
    BY <1>0, <2>1, FlushCall, PageSteps DEF Sends
<1>3. CASE EnterEdit \/ EnterView \/ NoticeFades \/ NavigateAsks \/ GuardCancels
           \/ GuardClicks \/ GuardFails
  <2>1. /\ UNCHANGED <<page, known, draft, wire, canvas, auto>> /\ canvas' >= canvas
        /\ events \subseteq events'
    BY <1>0, <1>3 DEF EnterEdit, EnterView, NoticeFades, NavigateAsks, GuardCancels,
       GuardClicks, GuardFails, screen, client, learnt, server
  <2>. QED
    BY <2>1, PageSteps
<1>4. CASE OtherSaves
  <2>1. /\ UNCHANGED <<page, known, wire, canvas, auto>> /\ events' = events \cup {"other"}
        /\ draft' = [version |-> draft.version + 1, edit |-> 0] /\ page = "open"
    BY <1>4 DEF OtherSaves, OtherTab, NextVersion, screen, client, learnt
  <2>2. ~Alone'
    BY <2>1 DEF Alone, Causes
  <2>3. \A base, edit : Quotes(draft, base, edit) => Quotes(draft', base, edit)
    BY <1>0, <2>1, QuotesKept
  <2>4. draft'.version # 0 /\ draft'.edit \in Nat
    BY <1>0, <2>1
  <2>. QED
    BY <2>1, <2>2, <2>3, <2>4 DEF LearntInv, CauseInv, OverwriteInv
<1>5. CASE OtherDiscards \/ ServerSaves \/ ServerDiscards
  <2>1. /\ UNCHANGED <<page, known, wire, canvas, auto>> /\ page = "open"
        /\ events \subseteq events' /\ "discard" \in events'
        /\ draft' = [version |-> 0, edit |-> 0]
    BY <1>5 DEF OtherDiscards, OtherTab, ServerSaves, ServerDiscards, screen, client, learnt
  <2>2. \A base : Accepts(base)'
    BY <2>1 DEF Accepts
  <2>3. CauseInv'
    BY <2>1, <2>2 DEF LearntInv, CauseInv, Alone
  <2>. QED
    BY <2>1, <2>3 DEF LearntInv, OverwriteInv
<1>6. CASE StayOnPage
  <2>1. /\ UNCHANGED <<page, known, draft, canvas, auto>> /\ wire' = wire \cup LastPut
        /\ events' = IF LastPut = {} THEN events ELSE events \cup {"stayed"}
    BY <1>6 DEF StayOnPage, screen, client, learnt, server
  <2>2. CASE LastPut = {}
    <3>1. wire' = wire /\ events' = events /\ canvas' >= canvas
      BY <1>0, <2>1, <2>2
    <3>. QED
      BY <2>1, <3>1, PageSteps
  <2>3. CASE LastPut # {}
    <3>1. ~Alone'
      BY <2>1, <2>3 DEF Alone, Causes
    <3>2. "discard" \notin events' => \A p \in wire' : Quotes(draft, p.base, p.edit)
      BY <2>1 DEF LearntInv, OverwriteInv, LastPut, Put
    <3>. QED
      BY <2>1, <3>1, <3>2 DEF LearntInv, CauseInv, OverwriteInv
  <2>. QED
    BY <2>2, <2>3
<1>. QED
  BY <1>1, <1>2, <1>3, <1>4, <1>5, <1>6 DEF OpenStep

\* A page that is left has learnt nothing; what it sent may arrive later.
LEMMA LearntLeave ==
  ASSUME AInv, LearntInv, Leave, wire' \in Strays(Underway \cup LastPut)
  PROVE  LearntInv'
<1>1. /\ page' = "left" /\ known' = 0 /\ canvas' = 0 /\ auto' = Quiet
      /\ UNCHANGED <<draft, events>> /\ draft.version \in Nat
  BY DEF Leave, server, AInv
<1>2. Quiet.suspended = FALSE /\ Quiet.call.stage = "none"
  BY DEF Quiet, NoCall
<1>3. CauseInv'
  BY <1>1, <1>2 DEF CauseInv, Alone
<1>4. \A p \in wire' : p \in wire \/ p \in Underway \/ p \in LastPut
  BY DEF Strays
<1>5. "discard" \notin events => \A p \in wire' : Quotes(draft, p.base, p.edit)
  BY <1>4 DEF LearntInv, OverwriteInv, Underway, LastPut, Put
<1>6. Quotes(draft, 0, 0)
  BY <1>1 DEF Quotes
<1>7. OverwriteInv'
  BY <1>1, <1>2, <1>5, <1>6 DEF LearntInv, OverwriteInv
<1>. QED
  BY <1>3, <1>7 DEF LearntInv

\* A late request arrives at a page that is not alone, or at none.
LEMMA LearntStray ==
  ASSUME AInv, LearntInv, NEW p \in wire, StrayArrives(p)
  PROVE  LearntInv'
<1>1. /\ UNCHANGED <<page, known, canvas, auto, events>> /\ wire' \subseteq wire
      /\ \/ draft' = [version |-> draft.version + 1, edit |-> p.edit]
         \/ draft' = draft
      /\ draft.version \in Nat /\ p.edit \in Nat
  BY DEF StrayArrives, Store, NextVersion, screen, client, learnt, server, AInv
<1>2. ~Alone' \/ ~Alone
  BY DEF LearntInv, CauseInv
<1>3. CauseInv'
  BY <1>1, <1>2 DEF LearntInv, CauseInv, Alone
<1>4. \A base, edit : Quotes(draft, base, edit) => Quotes(draft', base, edit)
  BY <1>1, QuotesKept
<1>5. draft'.edit \in Nat /\ (draft'.version = 0 => draft'.edit = 0)
  BY <1>1 DEF LearntInv, OverwriteInv
<1>6. OverwriteInv'
  BY <1>1, <1>4, <1>5 DEF LearntInv, OverwriteInv
<1>. QED
  BY <1>3, <1>6 DEF LearntInv

\* What the page has learnt stays right until something else writes the draft.
THEOREM LearntCorrect == Spec => []LearntInv
<1>1. Init => LearntInv
  <2>. SUFFICES ASSUME Init PROVE LearntInv
    OBVIOUS
  <2>1. Quiet.suspended = FALSE /\ Quiet.call.stage = "none"
    BY DEF Quiet, NoCall
  <2>2. /\ auto = Quiet /\ wire = {} /\ known = draft.version /\ page = "open"
        /\ draft.version \in Nat /\ draft.edit = 0 /\ canvas = 0
    BY DEF Init
  <2>3. Quotes(draft, known, canvas) /\ Accepts(known)
    BY <2>2 DEF Quotes, Accepts
  <2>. QED
    BY <2>1, <2>2, <2>3 DEF LearntInv, CauseInv, OverwriteInv
<1>2. AInv /\ AInv' /\ LearntInv /\ [Next]_vars => LearntInv'
  <2>. SUFFICES ASSUME AInv, AInv', LearntInv, [Next]_vars PROVE LearntInv'
    OBVIOUS
  <2>1. CASE CallStep
    BY <2>1, LearntCalls
  <2>2. CASE OpenStep
    BY <2>2, LearntOpen
  <2>3. CASE Navigate \/ CloseTab \/ GuardLeaves
    <3>1. Strays(Underway) \subseteq Strays(Underway \cup LastPut)
      BY DEF Strays
    <3>. QED
      BY <2>3, <3>1, LearntLeave DEF Navigate, CloseTab, GuardLeaves
  <2>4. CASE \E p \in wire : StrayArrives(p)
    BY <2>4, LearntStray
  <2>5. CASE UNCHANGED vars
    <3>1. canvas' >= canvas
      BY <2>5 DEF vars, AInv
    <3>. QED
      BY <2>5, <3>1, PageSteps DEF vars
  <2>. QED
    BY <2>1, <2>2, <2>3, <2>4, <2>5 DEF Next, CallStep, OpenStep
<1>. QED
  BY <1>1, <1>2, ClientInductive, PTL DEF Spec

\* Theorem: autosave is suspended only after another tab wrote the draft or the
\* page missed the outcome of a request of its own.
THEOREM ConflictCorrect == Spec => []ConflictHasCause
<1>1. LearntInv => ConflictHasCause
  BY DEF LearntInv, CauseInv, Alone, Causes, ConflictHasCause
<1>. QED
  BY <1>1, LearntCorrect, PTL

\* Theorem: a late request that names a version replaces no newer change, as
\* long as nothing deleted the draft.
THEOREM OverwriteCorrect == Spec => NoStaleOverwrite
<1>1. ASSUME AInv, LearntInv, NEW p \in wire, StrayArrives(p), p.base # 0,
             draft' # draft, "discard" \notin events
      PROVE  p.edit >= draft.edit
  <2>1. Quotes(draft, p.base, p.edit) /\ p.edit \in Nat
    BY <1>1 DEF LearntInv, OverwriteInv, AInv
  <2>2. Accepts(p.base)
    BY <1>1 DEF StrayArrives, server
  <2>3. CASE draft.version = 0
    <3>1. draft.edit = 0
      BY <1>1, <2>3 DEF LearntInv, OverwriteInv
    <3>. QED
      BY <2>1, <3>1
  <2>4. CASE draft.version # 0
    BY <1>1, <2>1, <2>2, <2>4 DEF Accepts, Quotes, LearntInv, OverwriteInv
  <2>. QED
    BY <2>3, <2>4
<1>2. AInv /\ LearntInv /\ [Next]_vars =>
        [\A p \in wire :
           StrayArrives(p) /\ p.base # 0 /\ draft' # draft /\ "discard" \notin events
             => p.edit >= draft.edit]_vars
  BY <1>1
<1>. QED
  BY <1>2, ClientInductive, LearntCorrect, PTL DEF Spec, NoStaleOverwrite

==============================================================================
