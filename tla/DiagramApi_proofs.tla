-------------------------- MODULE DiagramApi_proofs --------------------------
(***************************************************************************)
(* The foreign keys of the layouts, for every number of tabs, scripts,     *)
(* devices and worker threads and every bound: deletions that cascade      *)
(* overlap with checkpoints of the editor that were composed before.       *)
(***************************************************************************)
EXTENDS DiagramApi, TopologyEditor_proofs

USE EditorAssumption, ApiAssumption DEF EditorAssumption, ApiAssumption

\* ReferencesIntact is not inductive: a checkpoint must write the row of an id
\* that nothing refers to, and only a restore refers to an entry at all.
NamesInv ==
  /\ \A t \in Tabs : req[t].op # "restore" => req[t].source = 0
  /\ DeviceInv

RefInv == ApiTypeOK /\ TicketInv /\ NamesInv /\ ReferencesIntact

-----------------------------------------------------------------------------
(***************************************************************************)
(* The editor's steps.                                                     *)
(***************************************************************************)

\* A new request carries no ticket, and a source only to restore it.
Asks(q) == /\ q.op # "restore" => q.source = 0
           /\ ~(q.op \in Checkpoints /\ q.pc = "write")

LEMMA RequestAsks ==
  ASSUME TypeOK, NEW t \in Tabs, Request(t)
  PROVE  Asks(req'[t]) /\ UNCHANGED nextId
<1>1. ASSUME NEW q, Begin(t, q), Asks(q)
      PROVE  Asks(req'[t]) /\ UNCHANGED nextId
  BY <1>1 DEF Begin, TypeOK
<1>2. ASSUME NEW op
      PROVE  New(op).op = op /\ New(op).pc = "current" /\ New(op).source = 0
  BY DEF New, Idle
<1>3. CASE BeginLoad(t)
  BY <1>1, <1>2, <1>3 DEF BeginLoad, Asks
<1>4. CASE BeginSaveDraft(t)
  <2>1. PICK c \in Sent :
          Begin(t, [New("save_draft") EXCEPT !.base = tab[t].draft.version,
                                             !.json = c, !.pc = "draft"])
    BY <1>4 DEF BeginSaveDraft
  <2>. DEFINE q == [New("save_draft") EXCEPT !.base = tab[t].draft.version,
                                             !.json = c, !.pc = "draft"]
  <2>2. Asks(q)
    BY DEF Asks, New, Idle, Checkpoints
  <2>. QED
    BY <1>1, <2>1, <2>2
<1>5. CASE BeginDiscard(t)
  <2>1. Asks([New("discard") EXCEPT !.pc = "draft"])
    BY DEF Asks, New, Idle, Checkpoints
  <2>. QED
    BY <1>1, <1>5, <2>1 DEF BeginDiscard
<1>6. CASE BeginSaveVersion(t)
  <2>. DEFINE new == [New("save_version") EXCEPT !.base = tab[t].base.version]
  <2>1. Asks(new)
    BY DEF Asks, New, Idle
  <2>2. ASSUME NEW c \in Sent PROVE Asks([new EXCEPT !.sends = TRUE, !.json = c])
    BY DEF Asks, New, Idle
  <2>. HIDE DEF new
  <2>3. Begin(t, new) \/ \E c \in Sent : Begin(t, [new EXCEPT !.sends = TRUE, !.json = c])
    BY <1>6 DEF BeginSaveVersion, new
  <2>. QED
    BY <1>1, <2>1, <2>2, <2>3
<1>7. CASE BeginRestore(t)
  <2>1. PICK i \in Ids :
          Begin(t, [New("restore") EXCEPT !.base = tab[t].base.version, !.source = i])
    BY <1>7 DEF BeginRestore
  <2>. DEFINE q == [New("restore") EXCEPT !.base = tab[t].base.version, !.source = i]
  <2>2. Asks(q)
    BY DEF Asks, New, Idle
  <2>. QED
    BY <1>1, <2>1, <2>2
<1>8. CASE BeginRecreate(t)
  <2>1. PICK g \in used :
          Begin(t, [New("ghost_recreate") EXCEPT !.base = tab[t].base.version,
                                                 !.ghost = g])
    BY <1>8 DEF BeginRecreate
  <2>. DEFINE q == [New("ghost_recreate") EXCEPT !.base = tab[t].base.version,
                                                 !.ghost = g]
  <2>2. Asks(q)
    BY DEF Asks, New, Idle
  <2>. QED
    BY <1>1, <2>1, <2>2
<1>9. CASE BeginMap(t)
  <2>1. PICK g \in used, d \in used :
          Begin(t, [New("ghost_map") EXCEPT !.base = tab[t].base.version,
                                            !.ghost = g, !.device = d])
    BY <1>9 DEF BeginMap
  <2>. DEFINE q == [New("ghost_map") EXCEPT !.base = tab[t].base.version,
                                            !.ghost = g, !.device = d]
  <2>2. Asks(q)
    BY DEF Asks, New, Idle
  <2>. QED
    BY <1>1, <2>1, <2>2
<1>10. CASE BeginDeleteDevice(t)
  <2>1. PICK d \in live :
          Begin(t, [New("delete_device") EXCEPT !.pc = "write", !.device = d,
                    !.cur = Sight(current), !.json = Document(current)])
    BY <1>10 DEF BeginDeleteDevice
  <2>. DEFINE q == [New("delete_device") EXCEPT !.pc = "write", !.device = d,
                    !.cur = Sight(current), !.json = Document(current)]
  <2>2. Asks(q)
    BY DEF Asks, New, Idle, Checkpoints
  <2>. QED
    BY <1>1, <2>1, <2>2
<1>. QED
  BY <1>3, <1>4, <1>5, <1>6, <1>7, <1>8, <1>9, <1>10 DEF Request

\* A request that reads goes on asking, or takes the next ticket.
LEMMA ReadAsks ==
  ASSUME TypeOK, NamesInv, NEW t \in Tabs, Read(t)
  PROVE  \/ Asks(req'[t]) /\ UNCHANGED nextId
         \/ /\ req'[t].op # "restore" => req'[t].source = 0
            /\ nextId \in Ids /\ req'[t].ticket = nextId /\ nextId' = nextId + 1
            /\ req'[t].op = "ghost_recreate" => req'[t].device \in Devices
<1>. DEFINE r == req[t]
            q == req'[t]
<1>0. r \in RequestType /\ (r.op # "restore" => r.source = 0)
  BY DEF TypeOK, NamesInv
<1>1. CASE ReadCurrent(t)
  <2>1. q.op = r.op /\ q.source = r.source /\ q.pc \in {"draft", "source"}
    BY <1>0, <1>1 DEF ReadCurrent, NextRead, RequestType, TypeOK
  <2>2. UNCHANGED nextId
    BY <1>1 DEF ReadCurrent
  <2>. QED
    BY <1>0, <2>1, <2>2 DEF Asks
<1>2. CASE ReadDraftToSave(t) \/ ReadDraftToDiscard(t)
  <2>1. q.op = r.op /\ q.source = r.source /\ q.op \notin Checkpoints /\ UNCHANGED nextId
    BY <1>0, <1>2 DEF ReadDraftToSave, ReadDraftToDiscard, RequestType, Checkpoints, TypeOK
  <2>. QED
    BY <1>0, <2>1 DEF Asks
<1>3. CASE \/ FinishLoad(t) \/ NothingToDiscard(t)
           \/ RefuseStaleBase(t) \/ RefuseNoCurrent(t) \/ RefuseStaleDraft(t)
           \/ RefuseNoEntry(t) \/ RefuseGhost(t)
  <2>1. req' = [req EXCEPT ![t] = Idle] /\ UNCHANGED nextId
    BY <1>3 DEF FinishLoad, NothingToDiscard, RefuseStaleBase, RefuseNoCurrent,
       RefuseStaleDraft, RefuseNoEntry, RefuseGhost, Refuse
  <2>. QED
    BY <2>1 DEF TypeOK, Asks, Idle, Checkpoints
<1>4. ASSUME NEW json, NEW read, NEW device, Compose(t, json, read, device),
             r.op = "ghost_recreate" => device \in Devices
      PROVE  /\ q.op # "restore" => q.source = 0
             /\ nextId \in Ids /\ q.ticket = nextId /\ nextId' = nextId + 1
             /\ q.op = "ghost_recreate" => q.device \in Devices
  <2>1. /\ q.op = r.op /\ q.source = r.source /\ q.ticket = nextId /\ q.device = device
    BY <1>0, <1>4 DEF Compose, RequestType, TypeOK
  <2>. QED
    BY <1>0, <1>4, <2>1 DEF Compose
<1>5. CASE ComposeSaveVersion(t) \/ ComposeRestore(t) \/ ComposeMap(t)
  BY <1>4, <1>5 DEF ComposeSaveVersion, ComposeRestore, ComposeMap
<1>6. CASE ComposeRecreate(t)
  BY <1>4, <1>6 DEF ComposeRecreate
<1>. QED
  BY <1>1, <1>2, <1>3, <1>5, <1>6 DEF Read

\* A step of one request that writes no layout, no entry and no pointer keeps
\* every reference.
LEMMA RefFrame ==
  ASSUME RefInv, TypeOK', NEW t \in Tabs,
         UNCHANGED <<current, layouts, history, removal>>,
         \A u \in Tabs : u # t => req'[u] = req[u],
         \/ Asks(req'[t]) /\ UNCHANGED nextId
         \/ /\ req'[t].op # "restore" => req'[t].source = 0
            /\ nextId \in Ids /\ req'[t].ticket = nextId /\ nextId' = nextId + 1
            /\ req'[t].op = "ghost_recreate" => req'[t].device \in Devices
  PROVE  RefInv'
<1>1. \A i : Stored(i)' = Stored(i) /\ Entered(i)' = Entered(i)
  BY DEF Stored, Entered
<1>2. ReferencesIntact' /\ ApiTypeOK'
  BY <1>1 DEF RefInv, ReferencesIntact, ApiTypeOK
<1>3. nextId \in Nat /\ nextId' >= nextId
  BY DEF RefInv, ApiTypeOK, TypeOK
<1>4. \A u \in Tabs : u # t => Pending(u)' = Pending(u)
  BY DEF Pending
<1>5. NamesInv'
  BY <1>4 DEF RefInv, NamesInv, DeviceInv, Pending, Asks
<1>6. \A i \in Ids : Stored(i)' \/ Entered(i)' => i < nextId /\ i < nextId'
  BY <1>1, <1>3 DEF RefInv, TicketInv, Ids
<1>7. CASE Asks(req'[t]) /\ UNCHANGED nextId
  <2>1. ~Pending(t)'
    BY <1>7 DEF Asks, Pending
  <2>2. TicketInv'
    BY <1>1, <1>4, <1>6, <1>7, <2>1 DEF RefInv, TicketInv
  <2>. QED
    BY <1>2, <1>5, <2>2 DEF RefInv
<1>8. CASE nextId \in Ids /\ req'[t].ticket = nextId /\ nextId' = nextId + 1
  <2>1. ~Stored(nextId) /\ ~Entered(nextId) /\ nextId < nextId'
    BY <1>3, <1>6, <1>8 DEF RefInv, TicketInv
  <2>2. \A u \in Tabs : u # t /\ Pending(u) =>
          req[u].ticket < nextId /\ req[u].ticket < nextId' /\ req[u].ticket # nextId
    BY <1>3, <1>8 DEF RefInv, TicketInv, Ids
  <2>3. TicketInv'
    BY <1>1, <1>4, <1>6, <1>8, <2>1, <2>2 DEF RefInv, TicketInv
  <2>. QED
    BY <1>2, <1>5, <2>3 DEF RefInv
<1>. QED
  BY <1>7, <1>8

\* The end of a request asks nothing.
LEMMA RefEnds ==
  ASSUME RefInv, TypeOK', NEW t \in Tabs, req' = [req EXCEPT ![t] = Idle],
         UNCHANGED <<current, layouts, history, nextId, removal>>
  PROVE  RefInv'
<1>1. req'[t] = Idle /\ \A u \in Tabs : u # t => req'[u] = req[u]
  BY DEF RefInv, ApiTypeOK, TypeOK
<1>2. Asks(Idle)
  BY DEF Asks, Idle, Checkpoints
<1>. QED
  BY <1>1, <1>2, RefFrame

\* What a checkpoint writes: the row and the entry of its ticket, which refers
\* to an entry that is there.
LEMMA RefCommits ==
  ASSUME RefInv, TypeOK', NEW t \in Tabs, CommitCheckpoint(t), UNCHANGED removal
  PROVE  RefInv'
<1>. DEFINE r == req[t]
            i == req[t].ticket
<1>1. Pending(t) /\ r \in RequestType /\ r.op \in Checkpoints
  BY DEF CommitCheckpoint, Pending, RefInv, ApiTypeOK, TypeOK
<1>2. i \in Ids /\ i < nextId /\ ~Stored(i) /\ ~Entered(i)
  BY <1>1 DEF RefInv, TicketInv
<1>3. NewRow(r).version > 0 /\ EntryOf(r).action # "none" /\ EntryOf(r).from = r.source
  BY <1>1 DEF NewRow, EntryOf, RequestType, LayoutSight, Checkpoints
<1>4. /\ layouts'[i] = NewRow(r) /\ history'[i] = EntryOf(r)
      /\ \A j \in Ids : j # i => layouts'[j] = layouts[j] /\ history'[j] = history[j]
      /\ req'[t] = Committed(r, NoSight) /\ \A u \in Tabs : u # t => req'[u] = req[u]
      /\ current' = i /\ nextId' = nextId
  BY <1>2 DEF CommitCheckpoint, PointerAfter, RefInv, ApiTypeOK, TypeOK
<1>5. ASSUME NEW j
      PROVE  Stored(j)' = (Stored(j) \/ j = i) /\ Entered(j)' = (Entered(j) \/ j = i)
  <2>1. CASE j = i
    BY <1>2, <1>3, <1>4, <2>1 DEF Stored, Entered
  <2>2. CASE j # i
    BY <1>4, <2>2 DEF Stored, Entered
  <2>. QED BY <2>1, <2>2
<1>6. Asks(Committed(r, NoSight))
  BY DEF Asks, Committed, Idle
<1>7. \A u \in Tabs : Pending(u)' => u # t /\ Pending(u)
  BY <1>4, <1>6 DEF Pending, Asks
<1>8. TicketInv'
  BY <1>1, <1>2, <1>4, <1>5, <1>7 DEF RefInv, TicketInv
<1>9. NamesInv'
  BY <1>4, <1>6, <1>7 DEF RefInv, NamesInv, DeviceInv, Asks
<1>10. r.source # 0 => Entered(r.source)
  BY DEF CommitCheckpoint, SourceLives, RefInv, NamesInv
<1>11. \A j \in Ids : history'[j].from # 0 => Entered(history'[j].from)
  BY <1>2, <1>3, <1>4, <1>10 DEF RefInv, ReferencesIntact
<1>12. \A j \in Ids : (history[j].from # 0 => Entered(history[j].from))'
  <2>1. ASSUME NEW j \in Ids, history'[j].from # 0
        PROVE  (Entered(history[j].from))'
    <3>1. PICK k : k = history'[j].from
      OBVIOUS
    <3>2. Entered(k)
      BY <1>11, <2>1, <3>1
    <3>3. Entered(k)'
      BY <1>5, <3>2
    <3>. QED BY <3>1, <3>3 DEF Entered
  <2>. QED BY <2>1
<1>13. ReferencesIntact'
  BY <1>2, <1>4, <1>5, <1>12 DEF RefInv, ReferencesIntact
<1>. QED
  BY <1>8, <1>9, <1>13 DEF RefInv, ApiTypeOK

\* The deletion of a device rewrites the document of a layout that is stored.
LEMMA RefDeletes ==
  ASSUME RefInv, TypeOK', NEW t \in Tabs, CommitDeleteDevice(t), UNCHANGED removal
  PROVE  RefInv'
<1>. DEFINE r == req[t]
<1>1. \A i \in Ids : layouts'[i].version = layouts[i].version
  BY DEF CommitDeleteDevice, RefInv, ApiTypeOK, TypeOK
<1>2. /\ req'[t] = Idle /\ \A u \in Tabs : u # t => req'[u] = req[u]
      /\ UNCHANGED <<current, history, nextId>>
  BY DEF CommitDeleteDevice, RefInv, ApiTypeOK, TypeOK
<1>3. \A i : Stored(i)' = Stored(i) /\ Entered(i)' = Entered(i)
  BY <1>1, <1>2 DEF Stored, Entered
<1>4. Asks(Idle)
  BY DEF Asks, Idle, Checkpoints
<1>5. \A u \in Tabs : Pending(u)' => u # t /\ Pending(u)
  BY <1>2, <1>4 DEF Pending, Asks
<1>6. TicketInv'
  BY <1>2, <1>3, <1>5 DEF RefInv, TicketInv
<1>7. NamesInv'
  BY <1>2, <1>4, <1>5 DEF RefInv, NamesInv, DeviceInv, Asks
<1>8. ReferencesIntact'
  BY <1>2, <1>3 DEF RefInv, ReferencesIntact, Entered
<1>. QED
  BY <1>6, <1>7, <1>8 DEF RefInv, ApiTypeOK

\* Every step of the editor keeps the references.
LEMMA RefEditor ==
  ASSUME RefInv, EditorStep
  PROVE  RefInv'
<1>0. TypeOK /\ DeviceInv /\ NamesInv /\ UNCHANGED removal
  BY DEF RefInv, ApiTypeOK, NamesInv, EditorStep
<1>1. TypeOK'
  <2>1. Next
    BY DEF EditorStep, Next
  <2>. QED
    BY <1>0, <2>1, NextType
<1>2. CASE CreateDevice
  <2>1. UNCHANGED <<current, layouts, history, nextId, req>>
    BY <1>2 DEF CreateDevice
  <2>2. \A i : Stored(i)' = Stored(i) /\ Entered(i)' = Entered(i)
    BY <2>1 DEF Stored, Entered
  <2>3. TicketInv' /\ NamesInv'
    BY <2>1, <2>2 DEF RefInv, TicketInv, NamesInv, DeviceInv, Pending
  <2>4. ReferencesIntact'
    BY <2>1, <2>2 DEF RefInv, ReferencesIntact
  <2>. QED
    BY <1>0, <1>1, <2>3, <2>4 DEF RefInv, ApiTypeOK
<1>3. ASSUME NEW t \in Tabs, Request(t) PROVE RefInv'
  <2>1. UNCHANGED <<current, layouts, history>>
    BY <1>3, RequestKeeps DEF DbUnchanged
  <2>2. \A u \in Tabs : u # t => req'[u] = req[u]
    BY <1>0, <1>3, OwnStep
  <2>. QED
    BY <1>0, <1>1, <1>3, <2>1, <2>2, RequestAsks, RefFrame
<1>4. ASSUME NEW t \in Tabs, Read(t) PROVE RefInv'
  <2>1. UNCHANGED <<current, layouts, history>>
    BY <1>4, ReadKeeps DEF DbUnchanged
  <2>2. \A u \in Tabs : u # t => req'[u] = req[u]
    BY <1>0, <1>4, OwnStep
  <2>. QED
    BY <1>0, <1>1, <1>4, <2>1, <2>2, ReadAsks, RefFrame
<1>5. ASSUME NEW t \in Tabs, Respond(t) \/ Abandon(t) \/ FailSaveDraft(t) PROVE RefInv'
  <2>1. /\ req' = [req EXCEPT ![t] = Idle]
        /\ UNCHANGED <<current, layouts, history, nextId>>
    BY <1>5 DEF Respond, AnswerCheckpoint, AnswerDraft, AnswerDiscard, Answer, Abandon,
       FailSaveDraft, Refuse, DbUnchanged
  <2>. QED
    BY <1>0, <1>1, <2>1, RefEnds
<1>6. ASSUME NEW t \in Tabs, CreateDraft(t) \/ UpdateDraft(t) \/ CommitDiscard(t)
      PROVE  RefInv'
  <2>1. PICK row : req' = [req EXCEPT ![t] = Committed(req[t], row)]
    BY <1>6 DEF CreateDraft, UpdateDraft, CommitDiscard
  <2>2. req[t].op \notin Checkpoints
    BY <1>6 DEF CreateDraft, UpdateDraft, CommitDiscard, Checkpoints
  <2>3. req'[t] = Committed(req[t], row) /\ \A u \in Tabs : u # t => req'[u] = req[u]
    BY <1>0, <2>1 DEF TypeOK
  <2>4. Asks(Committed(req[t], row))
    BY DEF Asks, Committed, Idle
  <2>5. UNCHANGED <<current, layouts, history, nextId>>
    BY <1>6 DEF CreateDraft, UpdateDraft, CommitDiscard
  <2>. QED
    BY <1>0, <1>1, <2>3, <2>4, <2>5, RefFrame
<1>. QED
  BY <1>0, <1>1, <1>2, <1>3, <1>4, <1>5, <1>6, RefCommits, RefDeletes
  DEF EditorStep, Write

-----------------------------------------------------------------------------
(***************************************************************************)
(* The steps of /api/diagrams.                                             *)
(***************************************************************************)

\* A new layout takes the next id, to which nothing refers.
LEMMA RefCreates ==
  ASSUME RefInv, CreateLayout
  PROVE  RefInv'
<1>1. PICK c \in Sent :
        layouts' = [layouts EXCEPT ![nextId] = [version |-> 1, json |-> c]]
  BY DEF CreateLayout
<1>2. /\ nextId \in Ids /\ current' = nextId /\ nextId' = nextId + 1
      /\ UNCHANGED <<history, draft, live, used, nextDraft, tab, req, removal>>
  BY DEF CreateLayout
<1>3. /\ TypeOK /\ layouts' \in [Ids -> [version : Nat, json : SUBSET Devices]]
  BY <1>1, <1>2 DEF RefInv, ApiTypeOK, TypeOK, Sent
<1>4. ApiTypeOK'
  BY <1>2, <1>3 DEF RefInv, ApiTypeOK, TypeOK, Ids
<1>5. /\ \A i : Entered(i)' = Entered(i)
      /\ \A i : Stored(i)' => Stored(i) \/ i = nextId
      /\ \A i : Stored(i) => Stored(i)'
      /\ \A i : i = nextId => Stored(i)'
  BY <1>1, <1>2, <1>3 DEF Entered, Stored, TypeOK
<1>6. \A u \in Tabs : Pending(u)' = Pending(u)
  BY <1>2 DEF Pending
<1>7. \A i \in Ids : i < nextId => i < nextId' /\ i # nextId
  BY <1>2, <1>3 DEF TypeOK, Ids
<1>8. nextId < nextId'
  BY <1>2, <1>3 DEF TypeOK
<1>9. TicketInv'
  BY <1>2, <1>5, <1>6, <1>7, <1>8 DEF RefInv, TicketInv
<1>10. NamesInv'
  BY <1>2, <1>6 DEF RefInv, NamesInv, DeviceInv
<1>11. ReferencesIntact'
  BY <1>2, <1>5 DEF RefInv, ReferencesIntact
<1>. QED
  BY <1>4, <1>9, <1>10, <1>11 DEF RefInv

\* An update writes a row that is there.
LEMMA RefUpdates ==
  ASSUME RefInv, NEW i \in Ids, NEW version, UpdateLayout(i, version)
  PROVE  RefInv'
<1>1. PICK c \in Sent \cup {layouts[i].json} :
        layouts' = [layouts EXCEPT ![i] = Bumped(layouts[i], c)]
  BY DEF UpdateLayout
<1>2. /\ Stored(i) /\ TypeOK
      /\ UNCHANGED <<current, history, draft, live, used, nextId, nextDraft, tab, req,
                     removal>>
  BY DEF UpdateLayout, Accepts, RefInv, ApiTypeOK
<1>3. layouts' \in [Ids -> [version : Nat, json : SUBSET Devices]]
  BY <1>1, <1>2 DEF TypeOK, Bumped, Sent
<1>4. ApiTypeOK'
  BY <1>2, <1>3 DEF RefInv, ApiTypeOK, TypeOK
<1>5. layouts'[i].version > 0 /\ \A j \in Ids : j # i => layouts'[j] = layouts[j]
  BY <1>1, <1>2 DEF TypeOK, Bumped
<1>6. \A j : Entered(j)' = Entered(j) /\ Stored(j)' = Stored(j)
  BY <1>2, <1>5 DEF Entered, Stored
<1>7. \A u \in Tabs : Pending(u)' = Pending(u)
  BY <1>2 DEF Pending
<1>8. TicketInv'
  BY <1>2, <1>6, <1>7 DEF RefInv, TicketInv
<1>9. NamesInv'
  BY <1>2, <1>7 DEF RefInv, NamesInv, DeviceInv
<1>10. ReferencesIntact'
  BY <1>2, <1>6 DEF RefInv, ReferencesIntact
<1>. QED
  BY <1>4, <1>8, <1>9, <1>10 DEF RefInv

\* A deletion takes the entry along, clears what refers to it, and leaves the
\* pointer on a layout that stays, or on none.
LEMMA RefRemoves ==
  ASSUME RefInv, NEW s \in Scripts, CommitDeleteLayout(s)
  PROVE  RefInv'
<1>. DEFINE l == removal[s].layout
<1>1. /\ l # 0 /\ layouts' = [layouts EXCEPT ![l] = NoLayout]
      /\ history' = HistoryWithout(l) /\ current' = PointerWithout(removal[s])
      /\ removal' = [removal EXCEPT ![s] = NoRemoval]
      /\ UNCHANGED <<draft, live, used, nextId, nextDraft, tab, req>>
  BY DEF CommitDeleteLayout
<1>2. l \in Ids /\ TypeOK
  BY <1>1 DEF RefInv, ApiTypeOK, Ids
<1>. HIDE DEF l
<1>3. layouts' \in [Ids -> [version : Nat, json : SUBSET Devices]]
  BY <1>1, <1>2 DEF TypeOK, NoLayout
<1>4. history' \in [Ids -> [action : Checkpoints \cup {"none"}, from : 0..MaxId]]
  BY <1>1, <1>2 DEF TypeOK, HistoryWithout, NoEntry
<1>5. current' \in 0..MaxId
  BY <1>1, <1>2 DEF TypeOK, PointerWithout
<1>6. removal' \in [Scripts -> [layout : 0..MaxId, pointer : 0..MaxId]]
  BY <1>1 DEF RefInv, ApiTypeOK, NoRemoval
<1>7. ApiTypeOK'
  BY <1>1, <1>2, <1>3, <1>4, <1>5, <1>6 DEF ApiTypeOK, TypeOK
<1>8. ASSUME NEW i
      PROVE  Stored(i)' = (Stored(i) /\ i # l)
  <2>1. CASE i = l
    BY <1>1, <1>2, <2>1 DEF Stored, TypeOK, NoLayout
  <2>2. CASE i # l
    BY <1>1, <1>2, <2>2 DEF Stored, TypeOK
  <2>. QED BY <2>1, <2>2
<1>9. ASSUME NEW i \in Ids
      PROVE  /\ i = l => history'[i] = NoEntry
             /\ i # l => /\ history'[i].action = history[i].action
                         /\ history'[i].from = IF history[i].from = l THEN 0
                                               ELSE history[i].from
  BY <1>1, <1>2 DEF HistoryWithout, TypeOK
<1>10. ASSUME NEW i
       PROVE  Entered(i)' = (Entered(i) /\ i # l)
  BY <1>9 DEF Entered, NoEntry
<1>11. \A u \in Tabs : Pending(u)' = Pending(u)
  BY <1>1 DEF Pending
<1>12. TicketInv'
  BY <1>1, <1>8, <1>10, <1>11 DEF RefInv, TicketInv
<1>13. NamesInv'
  BY <1>1, <1>11 DEF RefInv, NamesInv, DeviceInv
<1>14. (current # 0 => Stored(current))'
  <2>1. SUFFICES ASSUME current' # 0 PROVE Stored(current)'
    BY DEF Stored
  <2>2. current' = current /\ current # l
    BY <1>1, <2>1 DEF PointerWithout, l
  <2>3. Stored(current)
    BY <2>1, <2>2 DEF RefInv, ReferencesIntact
  <2>. QED
    BY <1>1, <1>2, <2>2, <2>3 DEF Stored, TypeOK
<1>15. \A i \in Ids : Entered(i)' => Stored(i)'
  BY <1>8, <1>10 DEF RefInv, ReferencesIntact
<1>16. \A i \in Ids : (history[i].from # 0 => Entered(history[i].from))'
  <2>1. SUFFICES ASSUME NEW i \in Ids, history'[i].from # 0
                 PROVE  (Entered(history[i].from))'
    OBVIOUS
  <2>2. PICK k : k = history'[i].from
    OBVIOUS
  <2>3. i # l /\ history[i].from = k /\ k # l
    BY <1>9, <2>1, <2>2 DEF NoEntry
  <2>4. Entered(k)
    BY <2>1, <2>2, <2>3 DEF RefInv, ReferencesIntact
  <2>5. Entered(k)'
    BY <1>10, <2>3, <2>4
  <2>. QED
    BY <2>2, <2>5 DEF Entered
<1>17. ReferencesIntact'
  BY <1>14, <1>15, <1>16 DEF ReferencesIntact
<1>. QED
  BY <1>7, <1>12, <1>13, <1>17 DEF RefInv

-----------------------------------------------------------------------------
(***************************************************************************)
(* The theorem.                                                            *)
(***************************************************************************)

LEMMA RefInit == ApiInit => RefInv
<1>. SUFFICES ASSUME ApiInit PROVE RefInv
  OBVIOUS
<1>1. IInv /\ (\A i : ~Entered(i)) /\ (\A i \in Ids : history[i].from = 0)
  BY InitInv DEF ApiInit, Init, Entered, NoEntry
<1>2. removal \in [Scripts -> [layout : 0..MaxId, pointer : 0..MaxId]]
  BY DEF ApiInit, NoRemoval
<1>. QED
  BY <1>1, <1>2 DEF RefInv, ApiTypeOK, NamesInv, DeviceInv, ReferencesIntact, IInv,
                    CarriedInv, CurrentIsKept

LEMMA RefNext ==
  ASSUME RefInv, [ApiNext]_apiVars
  PROVE  RefInv'
<1>1. ASSUME UNCHANGED vars, removal' \in [Scripts -> [layout : 0..MaxId, pointer : 0..MaxId]]
      PROVE  RefInv'
  <2>1. \A i : Entered(i)' = Entered(i) /\ Stored(i)' = Stored(i)
    BY <1>1 DEF vars, Entered, Stored
  <2>2. \A u \in Tabs : Pending(u)' = Pending(u)
    BY <1>1 DEF vars, Pending
  <2>3. ApiTypeOK'
    BY <1>1 DEF vars, RefInv, ApiTypeOK, TypeOK
  <2>4. TicketInv'
    BY <1>1, <2>1, <2>2 DEF vars, RefInv, TicketInv
  <2>5. NamesInv'
    BY <1>1, <2>2 DEF vars, RefInv, NamesInv, DeviceInv
  <2>6. ReferencesIntact'
    BY <1>1, <2>1 DEF vars, RefInv, ReferencesIntact
  <2>. QED
    BY <2>3, <2>4, <2>5, <2>6 DEF RefInv
<1>2. ASSUME NEW s \in Scripts, NEW i \in Ids, BeginDeleteLayout(s, i)
      PROVE  RefInv'
  <2>1. UNCHANGED vars /\ [layout |-> i, pointer |-> current]
                            \in [layout : 0..MaxId, pointer : 0..MaxId]
    BY <1>2 DEF BeginDeleteLayout, RefInv, ApiTypeOK, TypeOK, Ids
  <2>2. removal' \in [Scripts -> [layout : 0..MaxId, pointer : 0..MaxId]]
    BY <1>2, <2>1 DEF BeginDeleteLayout, RefInv, ApiTypeOK
  <2>. QED
    BY <1>1, <2>1, <2>2
<1>3. ASSUME NEW s \in Scripts, AbandonDeleteLayout(s)
      PROVE  RefInv'
  BY <1>1, <1>3 DEF AbandonDeleteLayout, RefInv, ApiTypeOK, NoRemoval
<1>4. CASE UNCHANGED apiVars
  BY <1>1, <1>4 DEF apiVars, RefInv, ApiTypeOK
<1>. QED
  BY <1>2, <1>3, <1>4, RefEditor, RefCreates, RefUpdates, RefRemoves DEF ApiNext

\* Theorem: the strengthened invariant holds in every reachable state.
THEOREM RefInductive == ApiSpec => []RefInv
  BY RefInit, RefNext, PTL DEF ApiSpec

\* Theorem: the pointer names a stored layout, every entry its layout and every
\* restore an entry, whatever deletions and checkpoints overlap.
THEOREM ReferencesCorrect == ApiSpec => []ReferencesHold
<1>1. RefInv => ReferencesHold
  BY DEF RefInv, ReferencesHold
<1>. QED
  BY <1>1, RefInductive, PTL

\* Theorem: the types, with the scripts of /api/diagrams in play.
THEOREM ApiTypeCorrect == ApiSpec => []ApiTypeOK
<1>1. RefInv => ApiTypeOK
  BY DEF RefInv
<1>. QED
  BY <1>1, RefInductive, PTL

=============================================================================
