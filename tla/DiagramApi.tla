----------------------------- MODULE DiagramApi -----------------------------
(***************************************************************************)
(* The older /api/diagrams endpoints (diagram_service), which write the    *)
(* same layouts and the same pointer as the topology editor.  PUT, PATCH   *)
(* and DELETE lock the layout row with SELECT ... FOR UPDATE from their    *)
(* first read to their commit, so an update is one step.  DELETE also      *)
(* reads the topology row, without a lock, before it writes: it is two     *)
(* steps, and the layout stays locked in between.                          *)
(***************************************************************************)
EXTENDS TopologyEditor

CONSTANTS
  Scripts,            \* clients of /api/diagrams
  MaxLayoutVersion    \* bound: updates of one layout

ASSUME ApiAssumption == MaxLayoutVersion \in Nat

VARIABLE
  removal    \* the DELETE each script has in flight: the layout it locks and
             \* the pointer it read; layout 0 is none

apiVars == <<vars, removal>>

NoRemoval == [layout |-> 0, pointer |-> 0]

ApiTypeOK ==
  /\ TypeOK
  /\ removal \in [Scripts -> [layout : 0..MaxId, pointer : 0..MaxId]]

ApiInit == Init /\ removal = [s \in Scripts |-> NoRemoval]

Locked(i) == \E s \in Scripts : removal[s].layout = i

Accepts(version, i) == Stored(i) /\ version = layouts[i].version

\* POST: a layout without a history entry becomes the current one.
CreateLayout ==
  /\ nextId \in Ids
  /\ \E c \in Sent :
       layouts' = [layouts EXCEPT ![nextId] = [version |-> 1, json |-> c]]
  /\ current' = nextId
  /\ nextId' = nextId + 1
  /\ UNCHANGED <<history, draft, live, used, nextDraft, tab, req, removal>>

\* Variant: the document is replaced under the same version.
BumpedNot(row, json) == [version |-> row.version, json |-> json]

Bumped(row, json) == [version |-> row.version + 1, json |-> json]

\* PUT and PATCH: the version is checked and counted under the row lock.  A
\* PATCH without a document counts the version as well.
UpdateLayout(i, version) ==
  /\ ~Locked(i)
  /\ Accepts(version, i)
  /\ version < MaxLayoutVersion
  /\ \E c \in Sent \cup {layouts[i].json} :
       layouts' = [layouts EXCEPT ![i] = Bumped(layouts[i], c)]
  /\ UNCHANGED <<current, history, draft, live, used, nextId, nextDraft, tab,
                 req, removal>>

BeginDeleteLayout(s, i) ==
  /\ removal[s] = NoRemoval
  /\ Stored(i) /\ ~Locked(i)
  /\ removal' = [removal EXCEPT ![s] = [layout |-> i, pointer |-> current]]
  /\ UNCHANGED vars

\* Variant: the references to the deleted entry stay.
HistoryWithoutEntryOnly(i) == [history EXCEPT ![i] = NoEntry]

\* ON DELETE CASCADE takes the entry of the layout along, and ON DELETE SET
\* NULL clears what refers to that entry.
HistoryWithout(i) ==
  [j \in Ids |-> IF j = i THEN NoEntry
                 ELSE IF history[j].from = i THEN [history[j] EXCEPT !.from = 0]
                 ELSE history[j]]

\* The database clears a pointer to the deleted layout; the handler clears it
\* also when the pointer it read named that layout.
PointerWithout(r) ==
  IF current = r.layout \/ r.pointer = r.layout THEN 0 ELSE current

CommitDeleteLayout(s) ==
  LET r == removal[s]
  IN /\ r.layout # 0
     /\ layouts' = [layouts EXCEPT ![r.layout] = NoLayout]
     /\ history' = HistoryWithout(r.layout)
     /\ current' = PointerWithout(r)
     /\ removal' = [removal EXCEPT ![s] = NoRemoval]
     /\ UNCHANGED <<draft, live, used, nextId, nextDraft, tab, req>>

AbandonDeleteLayout(s) ==
  /\ removal[s] # NoRemoval
  /\ removal' = [removal EXCEPT ![s] = NoRemoval]
  /\ UNCHANGED vars

\* A write of the editor waits for the lock of the row it updates.
LockFree(t) ==
  req[t].op = "delete_device" /\ MustClean(req[t]) => ~Locked(req[t].cur.id)

EditorStep ==
  /\ \/ CreateDevice
     \/ \E t \in Tabs : \/ Request(t) \/ Read(t) \/ Respond(t) \/ Abandon(t)
                        \/ LockFree(t) /\ Write(t)
  /\ UNCHANGED removal

ApiNext ==
  \/ EditorStep
  \/ CreateLayout
  \/ \E i \in Ids, v \in 1..MaxLayoutVersion : UpdateLayout(i, v)
  \/ \E s \in Scripts : \/ \E i \in Ids : BeginDeleteLayout(s, i)
                        \/ CommitDeleteLayout(s)
                        \/ AbandonDeleteLayout(s)

ApiSpec == ApiInit /\ [][ApiNext]_apiVars

-----------------------------------------------------------------------------
\* The foreign keys hold in every interleaving of cascading deletes with
\* checkpoints that were composed before: the pointer names a stored layout,
\* an entry its layout, and a restore an entry that is still there.
ReferencesIntact ==
  /\ current # 0 => Stored(current)
  /\ \A i \in Ids : Entered(i) => Stored(i)
  /\ \A i \in Ids : history[i].from # 0 => Entered(history[i].from)
ReferencesHold == ApiTypeOK /\ ReferencesIntact

\* Does not hold: that entries and the documents they keep never change and
\* never go away, with the /api/diagrams endpoints in play.
HistoryImmutable ==
  [][\A i \in Ids : Entered(i) => /\ history'[i] = history[i]
                                  /\ layouts'[i] = layouts[i]]_apiVars
=============================================================================
