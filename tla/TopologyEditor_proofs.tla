----------------------- MODULE TopologyEditor_proofs ------------------------
(***************************************************************************)
(* Theorems about TopologyEditor, for every number of tabs, devices and    *)
(* worker threads and every bound.                                         *)
(***************************************************************************)
EXTENDS TopologyEditor, FiniteSetTheorems, TLAPS

USE EditorAssumption DEF EditorAssumption

-----------------------------------------------------------------------------
(***************************************************************************)
(* Types.                                                                  *)
(***************************************************************************)

\* No request has the type of a request.
LEMMA IdleType == Idle \in RequestType
  BY DEF Idle, RequestType, NoSight, LayoutSight, DraftSight, Ops, Checkpoints

\* Every new request that names an operation has the type of a request.
LEMMA NewType ==
  ASSUME TypeOK, NEW op \in Ops
  PROVE  New(op) \in RequestType
<1>. DEFINE sight  == [NoSight EXCEPT !.id = current]
            named  == [Idle EXCEPT !.op = op]
            placed == [named EXCEPT !.pc = "current"]
<1>1. sight \in LayoutSight
  BY DEF TypeOK, NoSight, LayoutSight
<1>2. named \in RequestType
  BY IdleType DEF RequestType
<1>3. placed \in RequestType
  <2>. HIDE DEF named
  <2>. QED
    BY <1>2 DEF RequestType
<1>4. New(op) = [placed EXCEPT !.cur = sight]
  BY DEF New, Idle
<1>. HIDE DEF placed, sight
<1>. QED
  BY <1>1, <1>3, <1>4 DEF RequestType

\* Beginning a request of the right type preserves the types.
LEMMA BeginType ==
  ASSUME TypeOK, NEW t \in Tabs, NEW request \in RequestType,
         Begin(t, request)
  PROVE  TypeOK'
  BY DEF TypeOK, Begin

\* A refused request preserves the types.
LEMMA RefuseType ==
  ASSUME TypeOK, NEW t \in Tabs, Refuse(t)
  PROVE  TypeOK'
  BY IdleType DEF TypeOK, Refuse, DbUnchanged

\* What a handler reads of a layout has the type of what requests keep.
LEMMA SightType ==
  ASSUME TypeOK, NEW i \in 0..MaxId
  PROVE  Sight(i) \in LayoutSight /\ Document(i) \in SUBSET Devices
  BY DEF TypeOK, Sight, Document, Stored, Ids, LayoutSight, NoSight

\* Beginning any operation preserves the types.
LEMMA RequestStepType ==
  ASSUME TypeOK, NEW t \in Tabs, Request(t)
  PROVE  TypeOK'
<1>1. CASE BeginLoad(t)
  BY <1>1, NewType, BeginType DEF BeginLoad, Ops
<1>2. CASE BeginSaveDraft(t)
  <2>1. PICK c \in Sent :
          Begin(t, [New("save_draft") EXCEPT !.base = tab[t].draft.version,
                                             !.json = c, !.pc = "draft"])
    BY <1>2 DEF BeginSaveDraft
  <2>2. tab[t].draft.version \in Nat /\ c \in SUBSET Devices
    BY DEF TypeOK, DraftSight, Sent
  <2>3. New("save_draft") \in RequestType
    BY NewType DEF Ops
  <2>4. [New("save_draft") EXCEPT !.base = tab[t].draft.version,
                                  !.json = c, !.pc = "draft"] \in RequestType
    BY <2>2, <2>3 DEF RequestType
  <2>. QED BY <2>1, <2>4, BeginType
<1>3. CASE BeginDiscard(t)
  <2>1. [New("discard") EXCEPT !.pc = "draft"] \in RequestType
    BY NewType DEF Ops, RequestType
  <2>. QED BY <1>3, <2>1, BeginType DEF BeginDiscard
<1>4. CASE BeginSaveVersion(t)
  <2>1. tab[t].base.version \in Nat
    BY DEF TypeOK, LayoutSight
  <2>2. New("save_version") \in RequestType
    BY NewType DEF Ops, Checkpoints
  <2>3. [New("save_version") EXCEPT !.base = tab[t].base.version]
          \in RequestType
    BY <2>1, <2>2 DEF RequestType
  <2>4. ASSUME NEW c \in Sent
        PROVE  [[New("save_version") EXCEPT !.base = tab[t].base.version]
                  EXCEPT !.sends = TRUE, !.json = c] \in RequestType
    BY <2>3 DEF RequestType, Sent
  <2>. QED BY <1>4, <2>3, <2>4, BeginType DEF BeginSaveVersion
<1>5. CASE BeginRestore(t)
  <2>1. PICK i \in Ids :
          Begin(t, [New("restore") EXCEPT !.base = tab[t].base.version,
                                          !.source = i])
    BY <1>5 DEF BeginRestore
  <2>2. tab[t].base.version \in Nat /\ i \in 0..MaxId
    BY DEF TypeOK, LayoutSight, Ids
  <2>3. New("restore") \in RequestType
    BY NewType DEF Ops, Checkpoints
  <2>4. [New("restore") EXCEPT !.base = tab[t].base.version, !.source = i]
          \in RequestType
    BY <2>2, <2>3 DEF RequestType
  <2>. QED BY <2>1, <2>4, BeginType
<1>6. CASE BeginRecreate(t)
  <2>1. PICK g \in used :
          Begin(t, [New("ghost_recreate") EXCEPT !.base = tab[t].base.version,
                                                 !.ghost = g])
    BY <1>6 DEF BeginRecreate
  <2>2. tab[t].base.version \in Nat /\ g \in Devices
    BY DEF TypeOK, LayoutSight
  <2>3. New("ghost_recreate") \in RequestType
    BY NewType DEF Ops, Checkpoints
  <2>4. [New("ghost_recreate") EXCEPT !.base = tab[t].base.version,
                                      !.ghost = g] \in RequestType
    BY <2>2, <2>3 DEF RequestType
  <2>. QED BY <2>1, <2>4, BeginType
<1>7. CASE BeginMap(t)
  <2>1. PICK g \in used, d \in used :
          Begin(t, [New("ghost_map") EXCEPT !.base = tab[t].base.version,
                                            !.ghost = g, !.device = d])
    BY <1>7 DEF BeginMap
  <2>2. tab[t].base.version \in Nat /\ g \in Devices /\ d \in Devices
    BY DEF TypeOK, LayoutSight
  <2>3. New("ghost_map") \in RequestType
    BY NewType DEF Ops, Checkpoints
  <2>4. [New("ghost_map") EXCEPT !.base = tab[t].base.version,
                                 !.ghost = g, !.device = d] \in RequestType
    BY <2>2, <2>3 DEF RequestType
  <2>. QED BY <2>1, <2>4, BeginType
<1>8. CASE BeginDeleteDevice(t)
  <2>1. PICK d \in live :
          Begin(t, [New("delete_device") EXCEPT !.pc = "write", !.device = d,
                    !.cur = Sight(current), !.json = Document(current)])
    BY <1>8 DEF BeginDeleteDevice
  <2>2. d \in Devices /\ current \in 0..MaxId
    BY DEF TypeOK
  <2>3. New("delete_device") \in RequestType
    BY NewType DEF Ops
  <2>4. [New("delete_device") EXCEPT !.pc = "write", !.device = d,
         !.cur = Sight(current), !.json = Document(current)] \in RequestType
    BY <2>2, <2>3, SightType DEF RequestType
  <2>. QED BY <2>1, <2>4, BeginType
<1>. QED
  BY <1>1, <1>2, <1>3, <1>4, <1>5, <1>6, <1>7, <1>8 DEF Request

\* A document that a ghost was taken off is a document.
LEMMA ReplacedType ==
  ASSUME NEW json \in SUBSET Devices, NEW g, NEW d \in Devices
  PROVE  Replaced(json, g, d) \in SUBSET Devices
  BY DEF Replaced

\* Composing a checkpoint preserves the types.
LEMMA ComposeType ==
  ASSUME TypeOK, NEW t \in Tabs, NEW json \in SUBSET Devices,
         NEW read \in DraftSight, NEW device \in Devices \cup {NoDevice},
         used' \in SUBSET Devices,
         Compose(t, json, read, device)
  PROVE  TypeOK'
<1>1. req[t] \in RequestType /\ nextId \in 0..MaxId
  BY DEF TypeOK, Compose, Ids
<1>2. [req[t] EXCEPT !.json = json, !.draft = read, !.device = device,
                     !.ticket = nextId, !.pc = "write"] \in RequestType
  BY <1>1 DEF RequestType
<1>3. req' \in [Tabs -> RequestType]
  BY <1>2 DEF TypeOK, Compose
<1>. QED
  BY <1>3 DEF TypeOK, Compose, DbUnchanged

\* Reading preserves the types.
LEMMA ReadStepType ==
  ASSUME TypeOK, NEW t \in Tabs, Read(t)
  PROVE  TypeOK'
<1>. DEFINE r == req[t]
<1>0. r \in RequestType /\ DraftRead \in DraftSight
  BY DEF TypeOK, DraftRead, DraftSight
<1>1. CASE ReadCurrent(t)
  <2>1. r.cur.id \in 0..MaxId
    BY <1>0 DEF RequestType, LayoutSight
  <2>2. Sight(r.cur.id) \in LayoutSight /\ Document(r.cur.id) \in SUBSET Devices
    BY <2>1, SightType
  <2>3. NextRead(r.op) \in {"draft", "source"}
    BY DEF NextRead
  <2>4. req' \in [Tabs -> RequestType]
    BY <1>0, <1>1, <2>2, <2>3 DEF TypeOK, ReadCurrent, RequestType
  <2>. QED BY <1>1, <2>4 DEF TypeOK, ReadCurrent, DbUnchanged
<1>2. CASE FinishLoad(t)
  BY <1>0, <1>2, IdleType DEF TypeOK, FinishLoad, DbUnchanged, RequestType
<1>3. CASE ReadDraftToSave(t) \/ ReadDraftToDiscard(t)
  <2>1. req' \in [Tabs -> RequestType]
    BY <1>0, <1>3 DEF TypeOK, ReadDraftToSave, ReadDraftToDiscard, RequestType
  <2>. QED
    BY <1>3, <2>1 DEF TypeOK, ReadDraftToSave, ReadDraftToDiscard, DbUnchanged
<1>4. CASE NothingToDiscard(t)
  BY <1>4, IdleType DEF TypeOK, NothingToDiscard, DbUnchanged, NoSight,
                        DraftSight
<1>5. CASE ComposeSaveVersion(t)
  <2>1. SourceJson(r) \in SUBSET Devices
    BY <1>0 DEF TypeOK, SourceJson, RequestType
  <2>. QED
    BY <1>0, <1>5, <2>1, ComposeType DEF ComposeSaveVersion, TypeOK
<1>6. CASE ComposeRestore(t)
  <2>1. layouts[r.source].json \in SUBSET Devices
    BY <1>6 DEF ComposeRestore, Stored, TypeOK
  <2>2. NoSight \in DraftSight /\ used' \in SUBSET Devices
    BY <1>6 DEF NoSight, DraftSight, TypeOK, ComposeRestore
  <2>. QED
    BY <1>6, <2>1, <2>2, ComposeType DEF ComposeRestore
<1>7. CASE ComposeRecreate(t)
  <2>1. PICK d \in Devices \ used :
          /\ used' = used \cup {d}
          /\ Compose(t, Replaced(r.json, r.ghost, d), NoSight, d)
    BY <1>7 DEF ComposeRecreate
  <2>2. Replaced(r.json, r.ghost, d) \in SUBSET Devices
    BY <1>0, ReplacedType DEF RequestType
  <2>3. NoSight \in DraftSight /\ used' \in SUBSET Devices
    BY <2>1 DEF NoSight, DraftSight, TypeOK
  <2>. QED BY <2>1, <2>2, <2>3, ComposeType
<1>8. CASE ComposeMap(t)
  <2>1. Replaced(r.json, r.ghost, r.device) \in SUBSET Devices
    BY <1>0, <1>8, ReplacedType DEF RequestType, ComposeMap, TypeOK
  <2>2. NoSight \in DraftSight /\ used' \in SUBSET Devices
    BY <1>8 DEF NoSight, DraftSight, TypeOK, ComposeMap
  <2>. QED
    BY <1>0, <1>8, <2>1, <2>2, ComposeType DEF ComposeMap, RequestType
<1>9. CASE \/ RefuseStaleBase(t) \/ RefuseNoCurrent(t) \/ RefuseStaleDraft(t)
           \/ RefuseNoEntry(t) \/ RefuseGhost(t)
  BY <1>9, RefuseType DEF RefuseStaleBase, RefuseNoCurrent, RefuseStaleDraft,
                          RefuseNoEntry, RefuseGhost
<1>. QED
  BY <1>1, <1>2, <1>3, <1>4, <1>5, <1>6, <1>7, <1>8, <1>9 DEF Read

\* What is kept of a request after its commit has the type of a request.
LEMMA CommittedType ==
  ASSUME NEW r \in RequestType, NEW row \in DraftSight
  PROVE  /\ Committed(r, row) \in RequestType
         /\ Committed(r, row).op = r.op /\ Committed(r, row).pc = "answer"
         /\ Committed(r, row).source = 0 /\ Committed(r, row).cur = NoSight
<1>. DEFINE named  == [Idle EXCEPT !.op = r.op]
            placed == [named EXCEPT !.pc = "answer"]
            told   == [placed EXCEPT !.ticket = r.ticket]
<1>1. r.op \in Ops \cup {"idle"} /\ r.ticket \in 0..MaxId
  BY DEF RequestType
<1>2. named \in RequestType
  BY <1>1, IdleType DEF RequestType
<1>3. placed \in RequestType
  <2>. HIDE DEF named
  <2>. QED
    BY <1>2 DEF RequestType
<1>4. told \in RequestType
  <2>. HIDE DEF placed
  <2>. QED
    BY <1>1, <1>3 DEF RequestType
<1>5. Committed(r, row) \in RequestType
  <2>1. Committed(r, row) = [told EXCEPT !.draft = row]
    BY DEF Committed
  <2>. HIDE DEF told
  <2>. QED
    BY <2>1, <1>4 DEF RequestType
<1>. QED
  BY <1>5 DEF Committed, Idle

\* A ghost that is about to be recreated has its device.
DeviceInv ==
  \A t \in Tabs : Pending(t) /\ req[t].op = "ghost_recreate" => req[t].device \in Devices

\* Writing preserves the types.
LEMMA WriteStepType ==
  ASSUME TypeOK, DeviceInv, NEW t \in Tabs, Write(t)
  PROVE  TypeOK'
<1>. DEFINE r == req[t]
<1>0. r \in RequestType /\ NoSight \in DraftSight
  BY DEF TypeOK, NoSight, DraftSight
<1>1. CASE CommitCheckpoint(t)
  <2>1. r.op \in Checkpoints /\ r.ticket \in 0..MaxId /\ r.source \in 0..MaxId
    BY <1>0, <1>1 DEF CommitCheckpoint, RequestType
  <2>2. NewRow(r) \in [version : Nat, json : SUBSET Devices]
    BY <1>0 DEF NewRow, RequestType, LayoutSight
  <2>3. EntryOf(r) \in [action : Checkpoints \cup {"none"}, from : 0..MaxId]
    BY <2>1 DEF EntryOf
  <2>4. DraftAfter(r) \in [id : Nat, version : Nat, json : SUBSET Devices]
    BY DEF TypeOK, DraftAfter, NoDraft
  <2>5. live' \in SUBSET Devices
    BY <1>1 DEF TypeOK, DeviceInv, Pending, CommitCheckpoint
  <2>6. Committed(r, NoSight) \in RequestType
    BY <1>0, CommittedType
  <2>. QED
    BY <1>1, <2>1, <2>2, <2>3, <2>4, <2>5, <2>6
    DEF TypeOK, CommitCheckpoint, PointerAfter
<1>2. CASE CreateDraft(t)
  <2>1. [id |-> nextDraft, version |-> 1] \in DraftSight
    BY DEF TypeOK, DraftSight
  <2>2. Committed(r, [id |-> nextDraft, version |-> 1]) \in RequestType
    BY <1>0, <2>1, CommittedType
  <2>. QED
    BY <1>0, <1>2, <2>2 DEF TypeOK, CreateDraft, RequestType
<1>3. CASE UpdateDraft(t)
  <2>1. NextVersion(r.draft) \in Nat
    BY <1>0 DEF NextVersion, RequestType, DraftSight
  <2>2. [id |-> draft.id, version |-> NextVersion(r.draft)] \in DraftSight
    BY <2>1 DEF TypeOK, DraftSight
  <2>3. Committed(r, [id |-> draft.id, version |-> NextVersion(r.draft)])
          \in RequestType
    BY <1>0, <2>2, CommittedType
  <2>. QED
    BY <1>0, <1>3, <2>1, <2>3 DEF TypeOK, UpdateDraft, RequestType
<1>4. CASE FailSaveDraft(t)
  BY <1>4, RefuseType DEF FailSaveDraft
<1>5. CASE CommitDiscard(t)
  <2>1. Committed(r, NoSight) \in RequestType
    BY <1>0, CommittedType
  <2>. QED
    BY <1>5, <2>1 DEF TypeOK, CommitDiscard, NoDraft
<1>6. CASE CommitDeleteDevice(t)
  <2>1. layouts' \in [Ids -> [version : Nat, json : SUBSET Devices]]
    BY <1>0, <1>6 DEF TypeOK, CommitDeleteDevice, RequestType, Stored
  <2>. QED
    BY <1>6, <2>1, IdleType DEF TypeOK, CommitDeleteDevice
<1>. QED
  BY <1>1, <1>2, <1>3, <1>4, <1>5, <1>6 DEF Write

\* Answering preserves the types.
LEMMA RespondStepType ==
  ASSUME TypeOK, NEW t \in Tabs, Respond(t)
  PROVE  TypeOK'
<1>0. /\ tab[t] \in [base : LayoutSight, draft : DraftSight]
      /\ req[t] \in RequestType
  BY DEF TypeOK
<1>1. ASSUME NEW seen \in [base : LayoutSight, draft : DraftSight],
             Answer(t, seen)
      PROVE  TypeOK'
  BY <1>1, IdleType DEF TypeOK, Answer, DbUnchanged
<1>2. NoSight \in DraftSight /\ DraftRead \in DraftSight
  BY DEF TypeOK, NoSight, DraftRead, DraftSight
<1>3. CASE AnswerCheckpoint(t)
  <2>1. Sight(req[t].ticket) \in LayoutSight
    BY <1>0, SightType DEF RequestType
  <2>. QED
    BY <1>1, <1>2, <1>3, <2>1 DEF AnswerCheckpoint
<1>4. CASE AnswerDraft(t)
  BY <1>0, <1>1, <1>2, <1>4 DEF AnswerDraft
<1>5. CASE AnswerDiscard(t)
  BY <1>0, <1>1, <1>2, <1>5 DEF AnswerDiscard
<1>. QED
  BY <1>3, <1>4, <1>5 DEF Respond

\* The types hold at the start.
LEMMA InitType == Init => TypeOK
  BY IdleType DEF Init, TypeOK, NoLayout, NoEntry, NoDraft, NoSight, Ids,
                  LayoutSight, DraftSight

\* Every step preserves the types.
LEMMA NextType ==
  ASSUME TypeOK, DeviceInv, [Next]_vars
  PROVE  TypeOK'
<1>1. CASE CreateDevice
  BY <1>1 DEF TypeOK, CreateDevice
<1>2. ASSUME NEW t \in Tabs, Abandon(t) PROVE TypeOK'
  BY <1>2, RefuseType DEF Abandon
<1>3. CASE UNCHANGED vars
  BY <1>3 DEF TypeOK, vars
<1>. QED
  BY <1>1, <1>2, <1>3, RequestStepType, ReadStepType, WriteStepType,
     RespondStepType DEF Next

-----------------------------------------------------------------------------
(***************************************************************************)
(* The inductive invariant.                                                *)
(***************************************************************************)

\* What one request may look like, whoever else is served.
Sound(q) ==
  /\ q.op # "restore" => q.source = 0
  /\ q.cur.id # 0 => Stored(q.cur.id)
  /\ q.op \in Checkpoints /\ q.pc # "current" /\ q.cur.version # 0 =>
       Stored(q.cur.id) /\ layouts[q.cur.id].version = q.cur.version

\* A step that writes no layout, no entry and no pointer, and leaves its
\* request short of its commit, preserves the invariant.
LEMMA QuietStep ==
  ASSUME IInv, TypeOK', NEW t \in Tabs, NEW q \in RequestType,
         UNCHANGED <<current, layouts, history, nextId>>,
         req' = [req EXCEPT ![t] = q],
         Sound(q), ~(q.op \in Checkpoints /\ q.pc = "write")
  PROVE  IInv'
<1>1. /\ req'[t] = q
      /\ \A u \in Tabs : u # t => req'[u] = req[u]
      /\ \A i : Stored(i)' = Stored(i) /\ Entered(i)' = Entered(i)
  BY DEF IInv, TypeOK, Stored, Entered
<1>2. \A u \in Tabs : Pending(u)' => u # t /\ Pending(u)
  BY <1>1 DEF Pending
<1>3. TicketInv'
  BY <1>1, <1>2 DEF IInv, TicketInv
<1>4. BackedInv'
  BY <1>1 DEF IInv, BackedInv
<1>5. SightInv'
  BY <1>1, <1>2 DEF IInv, SightInv, Sound
<1>6. CarriedInv'
  BY <1>1, <1>2 DEF IInv, CarriedInv, Sound
<1>7. CurrentIsKept' /\ VersionChain' /\ RestoreFaithful'
  BY <1>1 DEF IInv, CurrentIsKept, VersionChain, RestoreFaithful
<1>. QED
  BY <1>3, <1>4, <1>5, <1>6, <1>7 DEF IInv

\* Ending a request is such a step.
LEMMA IdleStep ==
  ASSUME IInv, TypeOK', NEW t \in Tabs,
         UNCHANGED <<current, layouts, history, nextId>>,
         req' = [req EXCEPT ![t] = Idle]
  PROVE  IInv'
<1>1. Sound(Idle) /\ Idle.op = "idle"
  BY DEF Sound, Idle, NoSight, Checkpoints
<1>. QED
  BY <1>1, QuietStep, IdleType DEF Checkpoints

\* Reading layout i yields nothing, or the version of a stored layout.
LEMMA SightSound ==
  ASSUME NEW i
  PROVE  /\ Sight(i).id # 0 => Stored(Sight(i).id)
         /\ Sight(i).version # 0 =>
              /\ Stored(Sight(i).id)
              /\ layouts[Sight(i).id].version = Sight(i).version
  BY DEF Sight, NoSight, Stored

\* Beginning a request preserves the invariant.
LEMMA BeginStep ==
  ASSUME IInv, TypeOK', NEW t \in Tabs, NEW q \in RequestType,
         Begin(t, q), Sound(q), ~(q.op \in Checkpoints /\ q.pc = "write")
  PROVE  IInv'
  BY QuietStep DEF Begin

\* A new request names the current layout, or none.
LEMMA NewSound ==
  ASSUME IInv, NEW op
  PROVE  /\ New(op).op = op /\ New(op).pc = "current" /\ New(op).source = 0
         /\ New(op).cur = [id |-> current, version |-> 0]
         /\ current # 0 => Stored(current)
  BY DEF IInv, CurrentIsKept, New, Idle, NoSight

\* Beginning a request that has read the topology row only.
LEMMA BeginNew ==
  ASSUME IInv, TypeOK', NEW t \in Tabs, NEW q, Begin(t, q),
         q.pc = "current" \/ (q.pc = "draft" /\ q.op \notin Checkpoints),
         q.op # "restore" => q.source = 0,
         q.cur = [id |-> current, version |-> 0]
  PROVE  IInv'
<1>1. q = req'[t]
  BY DEF IInv, TypeOK, Begin
<1>2. q \in RequestType
  BY <1>1 DEF TypeOK
<1>3. Sound(q)
  BY NewSound DEF Sound
<1>. QED
  BY <1>2, <1>3, BeginStep

\* Beginning any operation preserves the invariant.
LEMMA RequestStep ==
  ASSUME IInv, TypeOK', NEW t \in Tabs, Request(t)
  PROVE  IInv'
<1>1. CASE BeginLoad(t)
  BY <1>1, NewSound, BeginNew DEF BeginLoad
<1>2. CASE BeginSaveDraft(t)
  <2>1. PICK c \in Sent :
          Begin(t, [New("save_draft") EXCEPT !.base = tab[t].draft.version,
                                             !.json = c, !.pc = "draft"])
    BY <1>2 DEF BeginSaveDraft
  <2>. DEFINE q == [New("save_draft") EXCEPT !.base = tab[t].draft.version,
                                             !.json = c, !.pc = "draft"]
  <2>2. /\ q.op \notin Checkpoints /\ q.pc = "draft" /\ q.source = 0
        /\ q.cur = [id |-> current, version |-> 0]
    BY NewSound DEF New, Idle, Checkpoints
  <2>3. Begin(t, q)
    BY <2>1
  <2>. HIDE DEF q
  <2>. QED
    BY <2>2, <2>3, BeginNew
<1>3. CASE BeginDiscard(t)
  <2>. DEFINE q == [New("discard") EXCEPT !.pc = "draft"]
  <2>1. /\ q.op \notin Checkpoints /\ q.pc = "draft" /\ q.source = 0
        /\ q.cur = [id |-> current, version |-> 0]
    BY NewSound DEF New, Idle, Checkpoints
  <2>2. Begin(t, q)
    BY <1>3 DEF BeginDiscard
  <2>. HIDE DEF q
  <2>. QED
    BY <2>1, <2>2, BeginNew
<1>4. CASE BeginSaveVersion(t)
  <2>. DEFINE new == [New("save_version") EXCEPT !.base = tab[t].base.version]
  <2>1. /\ new.pc = "current" /\ new.source = 0
        /\ new.cur = [id |-> current, version |-> 0]
    BY NewSound DEF New, Idle
  <2>2. CASE Begin(t, new)
    BY <2>1, <2>2, BeginNew
  <2>3. ASSUME NEW c \in Sent,
               Begin(t, [new EXCEPT !.sends = TRUE, !.json = c])
        PROVE  IInv'
    <3>. DEFINE q == [new EXCEPT !.sends = TRUE, !.json = c]
    <3>1. /\ q.pc = "current" /\ q.source = 0
          /\ q.cur = [id |-> current, version |-> 0]
      BY <2>1 DEF New, Idle
    <3>. QED
      BY <2>3, <3>1, BeginNew
  <2>. QED
    BY <1>4, <2>2, <2>3 DEF BeginSaveVersion
<1>5. CASE BeginRestore(t)
  <2>1. PICK i \in Ids :
          Begin(t, [New("restore") EXCEPT !.base = tab[t].base.version,
                                          !.source = i])
    BY <1>5 DEF BeginRestore
  <2>. DEFINE q == [New("restore") EXCEPT !.base = tab[t].base.version,
                                          !.source = i]
  <2>2. /\ q.op = "restore" /\ q.pc = "current"
        /\ q.cur = [id |-> current, version |-> 0]
    BY NewSound DEF New, Idle
  <2>. QED
    BY <2>1, <2>2, BeginNew
<1>6. CASE BeginRecreate(t)
  <2>1. PICK g \in used :
          Begin(t, [New("ghost_recreate") EXCEPT !.base = tab[t].base.version,
                                                 !.ghost = g])
    BY <1>6 DEF BeginRecreate
  <2>. DEFINE q == [New("ghost_recreate") EXCEPT !.base = tab[t].base.version,
                                                 !.ghost = g]
  <2>2. /\ q.pc = "current" /\ q.source = 0
        /\ q.cur = [id |-> current, version |-> 0]
    BY NewSound DEF New, Idle
  <2>. QED
    BY <2>1, <2>2, BeginNew
<1>7. CASE BeginMap(t)
  <2>1. PICK g \in used, d \in used :
          Begin(t, [New("ghost_map") EXCEPT !.base = tab[t].base.version,
                                            !.ghost = g, !.device = d])
    BY <1>7 DEF BeginMap
  <2>. DEFINE q == [New("ghost_map") EXCEPT !.base = tab[t].base.version,
                                            !.ghost = g, !.device = d]
  <2>2. /\ q.pc = "current" /\ q.source = 0
        /\ q.cur = [id |-> current, version |-> 0]
    BY NewSound DEF New, Idle
  <2>. QED
    BY <2>1, <2>2, BeginNew
<1>8. CASE BeginDeleteDevice(t)
  <2>1. PICK d \in live :
          Begin(t, [New("delete_device") EXCEPT !.pc = "write", !.device = d,
                    !.cur = Sight(current), !.json = Document(current)])
    BY <1>8 DEF BeginDeleteDevice
  <2>. DEFINE q == [New("delete_device") EXCEPT !.pc = "write", !.device = d,
                    !.cur = Sight(current), !.json = Document(current)]
  <2>2. q.op = "delete_device" /\ q.source = 0 /\ q.cur = Sight(current)
    BY DEF New, Idle
  <2>3. q = req'[t]
    BY <2>1 DEF IInv, TypeOK, Begin
  <2>4. q \in RequestType
    BY <2>3 DEF TypeOK
  <2>5. Sound(q) /\ q.op \notin Checkpoints
    BY <2>2, SightSound DEF Sound, Checkpoints
  <2>. QED
    BY <2>1, <2>4, <2>5, BeginStep
<1>. QED
  BY <1>1, <1>2, <1>3, <1>4, <1>5, <1>6, <1>7, <1>8 DEF Request

\* Composing a checkpoint hands out a fresh id and preserves the invariant.
LEMMA ComposeStep ==
  ASSUME IInv, TypeOK', NEW t \in Tabs, NEW json, NEW read, NEW device,
         Compose(t, json, read, device),
         req[t].op \in Checkpoints, req[t].pc \in {"draft", "source"},
         req[t].op = "restore" =>
           Entered(req[t].source) /\ json = layouts[req[t].source].json,
         req[t].op = "ghost_recreate" => device \in Devices
  PROVE  IInv'
<1>. DEFINE r == req[t]
            q == req'[t]
<1>0. TypeOK /\ r \in RequestType /\ nextId \in Ids
  BY DEF IInv, TypeOK, Compose
<1>1. /\ q = [r EXCEPT !.json = json, !.draft = read, !.device = device,
                       !.ticket = nextId, !.pc = "write"]
      /\ \A u \in Tabs : u # t => req'[u] = req[u]
      /\ \A i : Stored(i)' = Stored(i) /\ Entered(i)' = Entered(i)
      /\ UNCHANGED <<current, layouts, history>>
      /\ nextId' = nextId + 1
  BY <1>0 DEF TypeOK, Compose, DbUnchanged, Stored, Entered
<1>2. /\ q.op = r.op /\ q.pc = "write" /\ q.cur = r.cur
      /\ q.source = r.source /\ q.ticket = nextId /\ q.json = json
      /\ q.device = device
  BY <1>0, <1>1 DEF RequestType
<1>3. \A u \in Tabs : u # t => Pending(u)' = Pending(u)
  BY <1>1 DEF Pending
<1>4. \A i \in Ids : Stored(i) \/ Entered(i) => i < nextId
  BY DEF IInv, TicketInv
<1>5. TicketInv'
  <2>1. \A i \in Ids : Stored(i)' \/ Entered(i)' => i < nextId'
    BY <1>1, <1>4 DEF Ids, TypeOK, IInv
  <2>2. ASSUME NEW u \in Tabs, Pending(u)', u # t
        PROVE  /\ req'[u].ticket \in Ids /\ req'[u].ticket < nextId
               /\ ~Stored(req'[u].ticket) /\ ~Entered(req'[u].ticket)
               /\ \A w \in Tabs : w # t /\ Pending(w)' /\ w # u =>
                    req'[w].ticket # req'[u].ticket
    <3>1. Pending(u) /\ req'[u] = req[u]
      BY <1>1, <1>3, <2>2
    <3>2. /\ req[u].ticket \in Ids /\ req[u].ticket < nextId
          /\ ~Stored(req[u].ticket) /\ ~Entered(req[u].ticket)
          /\ \A w \in Tabs : Pending(w) /\ w # u =>
               req[w].ticket # req[u].ticket
      BY <3>1 DEF IInv, TicketInv
    <3>. QED
      BY <1>1, <1>3, <3>1, <3>2
  <2>3. ~Stored(nextId) /\ ~Entered(nextId)
    BY <1>0, <1>1, <1>4 DEF Ids
  <2>4. \A i \in Ids : i < nextId => i < nextId' /\ i # nextId
    BY <1>0, <1>1 DEF Ids
  <2>5. nextId < nextId'
    BY <1>0, <1>1 DEF Ids
  <2>. QED
    BY <1>0, <1>1, <1>2, <2>1, <2>2, <2>3, <2>4, <2>5
    DEF TicketInv, Stored, Entered
<1>6. BackedInv'
  BY <1>1 DEF IInv, BackedInv
<1>7. SightInv'
  <2>1. r.cur.id < nextId
    <3>1. r.cur.id \in 0..MaxId
      BY <1>0 DEF RequestType, LayoutSight
    <3>2. r.cur.id # 0 => Stored(r.cur.id)
      BY DEF IInv, SightInv
    <3>. QED
      BY <1>0, <1>4, <3>1, <3>2 DEF Ids
  <2>2. /\ q.cur.id # 0 => Stored(q.cur.id)
        /\ q.cur.version # 0 =>
             Stored(q.cur.id) /\ layouts[q.cur.id].version = q.cur.version
    BY <1>2 DEF IInv, SightInv
  <2>3. ASSUME NEW u \in Tabs, u # t
        PROVE  /\ req[u].cur.id # 0 => Stored(req[u].cur.id)
               /\ req[u].op \in Checkpoints /\ req[u].pc # "current"
                    /\ req[u].cur.version # 0 =>
                    /\ Stored(req[u].cur.id)
                    /\ layouts[req[u].cur.id].version = req[u].cur.version
               /\ Pending(u)' => req[u].cur.id < req[u].ticket
    BY <1>3, <2>3 DEF IInv, SightInv
  <2>4. ASSUME NEW u \in Tabs
        PROVE  /\ req'[u].cur.id # 0 => Stored(req'[u].cur.id)
               /\ req'[u].op \in Checkpoints /\ req'[u].pc # "current"
                    /\ req'[u].cur.version # 0 =>
                    /\ Stored(req'[u].cur.id)
                    /\ layouts[req'[u].cur.id].version = req'[u].cur.version
               /\ Pending(u)' => req'[u].cur.id < req'[u].ticket
    <3>1. CASE u = t
      BY <1>2, <2>1, <2>2, <3>1
    <3>2. CASE u # t
      BY <1>1, <2>3, <3>2
    <3>. QED
      BY <3>1, <3>2
  <2>. QED
    BY <1>1, <2>4 DEF SightInv, Stored
<1>8. CarriedInv'
  <2>1. r.op = "restore" => r.source < nextId
    BY <1>4 DEF Entered
  <2>2. r.op # "restore" => r.source = 0
    BY DEF IInv, CarriedInv
  <2>3. ASSUME NEW u \in Tabs, u # t
        PROVE  /\ req[u].op # "restore" => req[u].source = 0
               /\ Pending(u)' /\ req[u].op = "restore" =>
                    /\ Entered(req[u].source) /\ req[u].source < req[u].ticket
                    /\ req[u].json = layouts[req[u].source].json
               /\ Pending(u)' /\ req[u].op = "ghost_recreate" =>
                    req[u].device \in Devices
    BY <1>3, <2>3 DEF IInv, CarriedInv
  <2>4. ASSUME NEW u \in Tabs
        PROVE  /\ req'[u].op # "restore" => req'[u].source = 0
               /\ Pending(u)' /\ req'[u].op = "restore" =>
                    /\ Entered(req'[u].source)
                    /\ req'[u].source < req'[u].ticket
                    /\ req'[u].json = layouts[req'[u].source].json
               /\ Pending(u)' /\ req'[u].op = "ghost_recreate" =>
                    req'[u].device \in Devices
    <3>1. CASE u = t
      BY <1>2, <2>1, <2>2, <3>1
    <3>2. CASE u # t
      BY <1>1, <2>3, <3>2
    <3>. QED
      BY <3>1, <3>2
  <2>. QED
    BY <1>1, <2>4 DEF CarriedInv, Entered
<1>9. CurrentIsKept' /\ VersionChain' /\ RestoreFaithful'
  BY <1>1 DEF IInv, CurrentIsKept, VersionChain, RestoreFaithful
<1>. QED
  BY <1>5, <1>6, <1>7, <1>8, <1>9 DEF IInv

\* Reading, composing and refusing preserve the invariant.
LEMMA ReadStep ==
  ASSUME IInv, TypeOK', NEW t \in Tabs, Read(t)
  PROVE  IInv'
<1>. DEFINE r == req[t]
            q == req'[t]
<1>0. r \in RequestType /\ q \in RequestType
  BY DEF IInv, TypeOK
<1>1. CASE ReadCurrent(t)
  <2>1. /\ q.op = r.op /\ q.source = r.source
        /\ q.cur = Sight(r.cur.id) /\ q.pc \in {"draft", "source"}
        /\ req' = [req EXCEPT ![t] = q]
    BY <1>0, <1>1 DEF ReadCurrent, NextRead, RequestType, IInv, TypeOK
  <2>2. Sound(q)
    BY <2>1, SightSound DEF Sound, IInv, CarriedInv
  <2>. QED
    BY <1>0, <1>1, <2>1, <2>2, QuietStep DEF ReadCurrent, DbUnchanged
<1>2. CASE ReadDraftToSave(t) \/ ReadDraftToDiscard(t)
  <2>1. /\ q.op \notin Checkpoints /\ q.op # "restore"
        /\ q.source = r.source /\ q.cur = r.cur /\ q.op = r.op
        /\ req' = [req EXCEPT ![t] = q]
    BY <1>0, <1>2 DEF ReadDraftToSave, ReadDraftToDiscard, RequestType,
                      Checkpoints, IInv, TypeOK
  <2>2. Sound(q)
    BY <2>1 DEF Sound, IInv, CarriedInv, SightInv
  <2>. QED
    BY <1>0, <1>2, <2>1, <2>2, QuietStep
    DEF ReadDraftToSave, ReadDraftToDiscard, DbUnchanged
<1>3. CASE \/ FinishLoad(t) \/ NothingToDiscard(t)
           \/ RefuseStaleBase(t) \/ RefuseNoCurrent(t) \/ RefuseStaleDraft(t)
           \/ RefuseNoEntry(t) \/ RefuseGhost(t)
  BY <1>3, IdleStep DEF FinishLoad, NothingToDiscard, RefuseStaleBase,
     RefuseNoCurrent, RefuseStaleDraft, RefuseNoEntry, RefuseGhost, Refuse,
     DbUnchanged
<1>4. CASE ComposeSaveVersion(t)
  BY <1>4, ComposeStep DEF ComposeSaveVersion, Checkpoints
<1>5. CASE ComposeRestore(t)
  BY <1>5, ComposeStep DEF ComposeRestore, Checkpoints
<1>6. CASE ComposeRecreate(t)
  BY <1>6, ComposeStep DEF ComposeRecreate, Checkpoints
<1>7. CASE ComposeMap(t)
  BY <1>7, ComposeStep DEF ComposeMap, Checkpoints
<1>. QED
  BY <1>1, <1>2, <1>3, <1>4, <1>5, <1>6, <1>7 DEF Read

\* What a checkpoint that is about to commit may rely on.
LEMMA PendingFacts ==
  ASSUME IInv, NEW t \in Tabs, Pending(t)
  PROVE  /\ req[t] \in RequestType
         /\ req[t].ticket \in Ids /\ req[t].ticket < nextId
         /\ ~Stored(req[t].ticket) /\ ~Entered(req[t].ticket)
         /\ req[t].cur.id < req[t].ticket
         /\ req[t].cur.version # 0 =>
              /\ Stored(req[t].cur.id)
              /\ layouts[req[t].cur.id].version = req[t].cur.version
  BY DEF IInv, TypeOK, TicketInv, SightInv, Pending

\* The commit of a checkpoint writes one row and one entry, both new.
LEMMA CommitWrites ==
  ASSUME IInv, TypeOK', NEW t \in Tabs, CommitCheckpoint(t)
  PROVE  /\ Pending(t)
         /\ layouts'[req[t].ticket] = NewRow(req[t])
         /\ history'[req[t].ticket] = EntryOf(req[t])
         /\ \A j \in Ids : j # req[t].ticket =>
              layouts'[j] = layouts[j] /\ history'[j] = history[j]
         /\ current' = req[t].ticket /\ nextId' = nextId
         /\ req'[t] = Committed(req[t], NoSight) /\ \A u \in Tabs : u # t => req'[u] = req[u]
         /\ \A j : /\ Stored(j)' = (Stored(j) \/ j = req[t].ticket)
                   /\ Entered(j)' = (Entered(j) \/ j = req[t].ticket)
<1>. DEFINE r == req[t]
            i == req[t].ticket
<1>1. Pending(t)
  BY DEF CommitCheckpoint, Pending
<1>2. /\ r \in RequestType /\ i \in Ids /\ r.op \in Checkpoints
  BY <1>1, PendingFacts DEF Pending
<1>3. /\ layouts' = [layouts EXCEPT ![i] = NewRow(r)]
      /\ history' = [history EXCEPT ![i] = EntryOf(r)]
      /\ current' = i /\ nextId' = nextId /\ req' = [req EXCEPT ![t] = Committed(r, NoSight)]
  BY DEF CommitCheckpoint, PointerAfter
<1>4. NewRow(r).version > 0 /\ EntryOf(r).action # "none"
  BY <1>2 DEF NewRow, EntryOf, RequestType, LayoutSight, Checkpoints
<1>5. /\ layouts'[i] = NewRow(r) /\ history'[i] = EntryOf(r)
      /\ \A j \in Ids : j # i =>
           layouts'[j] = layouts[j] /\ history'[j] = history[j]
      /\ req'[t] = Committed(r, NoSight)
      /\ \A u \in Tabs : u # t => req'[u] = req[u]
  BY <1>2, <1>3 DEF IInv, TypeOK
<1>6. ASSUME NEW j
      PROVE  /\ Stored(j)' = (Stored(j) \/ j = i)
             /\ Entered(j)' = (Entered(j) \/ j = i)
  <2>1. CASE j = i
    BY <1>2, <1>4, <1>5, <2>1 DEF Stored, Entered
  <2>2. CASE j # i
    BY <1>5, <2>2 DEF Stored, Entered
  <2>. QED BY <2>1, <2>2
<1>. QED
  BY <1>1, <1>3, <1>5, <1>6

\* The commit of a checkpoint preserves the invariant.
LEMMA CommitStep ==
  ASSUME IInv, TypeOK', NEW t \in Tabs, CommitCheckpoint(t)
  PROVE  IInv'
<1>. DEFINE r == req[t]
            i == req[t].ticket
<1>0. TypeOK /\ i \in Ids
  BY CommitWrites, PendingFacts DEF IInv
<1>1. /\ Pending(t) /\ i < nextId /\ ~Stored(i) /\ ~Entered(i)
      /\ r \in RequestType
  BY CommitWrites, PendingFacts
<1>2. /\ \A j : Stored(j)' = (Stored(j) \/ j = i)
      /\ \A j : Entered(j)' = (Entered(j) \/ j = i)
      /\ req'[t] = Committed(r, NoSight)
      /\ \A u \in Tabs : u # t => req'[u] = req[u]
      /\ \A j \in Ids : j # i =>
           layouts'[j] = layouts[j] /\ history'[j] = history[j]
  BY CommitWrites
<1>. /\ nextId' = nextId /\ current' = i
     /\ layouts'[i] = NewRow(r) /\ history'[i] = EntryOf(r)
  BY CommitWrites
<1>11. /\ req'[t].op = r.op /\ req'[t].pc = "answer" /\ req'[t].source = 0
      /\ req'[t].cur.id = 0 /\ req'[t].cur.version = 0
  <2>1. NoSight \in DraftSight
    BY DEF NoSight, DraftSight
  <2>. QED
    BY <1>1, <1>2, <2>1, CommittedType DEF NoSight
<1>3. \A u \in Tabs : Pending(u)' => u # t /\ Pending(u)
  BY <1>2, <1>11 DEF Pending
<1>4. TicketInv'
  <2>1. \A j \in Ids : Stored(j)' \/ Entered(j)' => j < nextId'
    BY <1>1, <1>2 DEF IInv, TicketInv
  <2>2. ASSUME NEW u \in Tabs, Pending(u)'
        PROVE  /\ req'[u].ticket \in Ids /\ req'[u].ticket < nextId'
               /\ ~(Stored(req'[u].ticket) \/ req'[u].ticket = i)
               /\ ~(Entered(req'[u].ticket) \/ req'[u].ticket = i)
               /\ \A w \in Tabs : Pending(w)' /\ w # u =>
                    req'[w].ticket # req'[u].ticket
    BY <1>1, <1>2, <1>3, <2>2 DEF IInv, TicketInv
  <2>3. \A u \in Tabs : Pending(u)' =>
          (~Stored(req[u].ticket) /\ ~Entered(req[u].ticket))'
    BY <1>2, <1>3, <2>2 DEF Stored, Entered
  <2>. QED
    BY <2>1, <2>2, <2>3 DEF TicketInv
<1>5. BackedInv'
  BY <1>2 DEF IInv, BackedInv
<1>6. SightInv'
  <2>1. ASSUME NEW u \in Tabs, u # t
        PROVE  /\ req[u].cur.id # 0 =>
                    Stored(req[u].cur.id) /\ req[u].cur.id # i
               /\ req[u].op \in Checkpoints /\ req[u].pc # "current"
                    /\ req[u].cur.version # 0 =>
                    /\ Stored(req[u].cur.id) /\ req[u].cur.id # i
                    /\ layouts[req[u].cur.id].version = req[u].cur.version
               /\ Pending(u)' => req[u].cur.id < req[u].ticket
    BY <1>1, <1>3, <2>1 DEF IInv, SightInv
  <2>3. ASSUME NEW u \in Tabs
        PROVE  (/\ req[u].cur.id # 0 => Stored(req[u].cur.id)
                /\ req[u].op \in Checkpoints /\ req[u].pc # "current"
                     /\ req[u].cur.version # 0 =>
                     /\ Stored(req[u].cur.id)
                     /\ layouts[req[u].cur.id].version = req[u].cur.version
                /\ Pending(u) => req[u].cur.id < req[u].ticket)'
    <3>1. CASE u = t
      BY <1>3, <1>11, <3>1
    <3>2. CASE u # t
      BY <1>2, <2>1, <3>2 DEF Stored
    <3>. QED
      BY <3>1, <3>2
  <2>. QED
    BY <2>3 DEF SightInv
<1>7. CarriedInv'
  <2>1. ASSUME NEW u \in Tabs, u # t
        PROVE  /\ req[u].op # "restore" => req[u].source = 0
               /\ Pending(u)' /\ req[u].op = "restore" =>
                    /\ Entered(req[u].source) /\ req[u].source # i
                    /\ req[u].source < req[u].ticket
                    /\ req[u].json = layouts[req[u].source].json
               /\ Pending(u)' /\ req[u].op = "ghost_recreate" =>
                    req[u].device \in Devices
    BY <1>1, <1>3, <2>1 DEF IInv, CarriedInv
  <2>3. ASSUME NEW u \in Tabs
        PROVE  (/\ req[u].op # "restore" => req[u].source = 0
                /\ Pending(u) /\ req[u].op = "restore" =>
                     /\ Entered(req[u].source)
                     /\ req[u].source < req[u].ticket
                     /\ req[u].json = layouts[req[u].source].json
                /\ Pending(u) /\ req[u].op = "ghost_recreate" =>
                     req[u].device \in Devices)'
    <3>1. CASE u = t
      BY <1>3, <1>11, <3>1
    <3>2. CASE u # t
      BY <1>2, <2>1, <3>2 DEF Entered
    <3>. QED
      BY <3>1, <3>2
  <2>. QED
    BY <2>3 DEF CarriedInv
<1>8. CurrentIsKept'
  BY <1>0, <1>2 DEF CurrentIsKept, Stored, Entered
<1>9. VersionChain'
  <2>1. SUFFICES ASSUME NEW j \in Ids, layouts'[j].version > 1
                 PROVE  \E k \in Ids :
                          k < j /\ layouts'[j].version
                                     = layouts'[k].version + 1
    BY DEF VersionChain
  <2>2. CASE j = i
    <3>1. layouts'[i].version = r.cur.version + 1 /\ r.cur.version \in Nat
      BY <1>1 DEF NewRow, RequestType, LayoutSight
    <3>2. /\ r.cur.id \in Ids /\ r.cur.id < i
          /\ layouts[r.cur.id].version = r.cur.version
      BY <1>1, <2>1, <2>2, <3>1, PendingFacts DEF Stored
    <3>3. layouts'[r.cur.id] = layouts[r.cur.id]
      BY <1>0, <1>2, <3>2 DEF Ids
    <3>. QED
      BY <2>2, <3>1, <3>2, <3>3
  <2>3. CASE j # i
    <3>1. PICK k \in Ids :
            k < j /\ layouts[j].version = layouts[k].version + 1
      BY <1>2, <2>1, <2>3 DEF IInv, VersionChain
    <3>2. k # i
      BY <1>0, <1>1, <1>2, <2>1, <2>3, <3>1 DEF TypeOK, Stored
    <3>. QED
      BY <1>2, <2>3, <3>1, <3>2
  <2>. QED
    BY <2>2, <2>3
<1>10. RestoreFaithful'
  <2>1. SUFFICES ASSUME NEW j \in Ids, history'[j].action = "restore"
                 PROVE  /\ Entered(history'[j].from) \/ history'[j].from = i
                        /\ history'[j].from < j
                        /\ layouts'[j].json = layouts'[history'[j].from].json
    BY <1>2 DEF RestoreFaithful, Entered
  <2>2. CASE j = i
    <3>1. /\ r.op = "restore" /\ history'[j].from = r.source
          /\ layouts'[j].json = r.json
      BY <2>1, <2>2 DEF EntryOf, NewRow
    <3>2. /\ Entered(r.source) /\ r.source < i
          /\ r.json = layouts[r.source].json
      BY <1>1, <3>1 DEF IInv, CarriedInv
    <3>3. layouts'[r.source] = layouts[r.source]
      BY <1>1, <1>2, <3>2 DEF Entered
    <3>. QED
      BY <2>2, <3>1, <3>2, <3>3
  <2>3. CASE j # i
    <3>1. /\ Entered(history[j].from) /\ history[j].from < j
          /\ layouts[j].json = layouts[history[j].from].json
      BY <1>2, <2>1, <2>3 DEF IInv, RestoreFaithful
    <3>2. layouts'[history[j].from] = layouts[history[j].from]
      BY <1>1, <1>2, <3>1 DEF Entered
    <3>. QED
      BY <1>2, <2>3, <3>1, <3>2
  <2>. QED
    BY <2>2, <2>3
<1>. QED
  BY <1>4, <1>5, <1>6, <1>7, <1>8, <1>9, <1>10 DEF IInv

\* Deleting a device rewrites at most the document of a view that history
\* does not keep.
LEMMA DeleteWrites ==
  ASSUME IInv, NEW t \in Tabs, CommitDeleteDevice(t)
  PROVE  /\ \A i \in Ids : layouts'[i].version = layouts[i].version
         /\ \A i \in Ids : Entered(i) => layouts'[i] = layouts[i]
         /\ UNCHANGED <<current, history, nextId>>
         /\ req' = [req EXCEPT ![t] = Idle]
<1>. DEFINE r == req[t]
<1>1. /\ UNCHANGED <<current, history, nextId>>
      /\ req' = [req EXCEPT ![t] = Idle]
  BY DEF CommitDeleteDevice
<1>2. CASE MustClean(r)
  <2>1. layouts' = [layouts EXCEPT ![r.cur.id].json = r.json \ {r.device}]
    BY <1>2 DEF CommitDeleteDevice
  <2>2. ~Entered(r.cur.id)
    BY <1>2 DEF MustClean
  <2>. QED
    BY <1>1, <2>1, <2>2 DEF IInv, TypeOK
<1>3. CASE ~MustClean(r)
  BY <1>1, <1>3 DEF CommitDeleteDevice
<1>. QED
  BY <1>2, <1>3

\* The deletion of a device preserves the invariant.
LEMMA DeleteDeviceStep ==
  ASSUME IInv, TypeOK', NEW t \in Tabs, CommitDeleteDevice(t)
  PROVE  IInv'
<1>1. /\ \A i \in Ids : layouts'[i].version = layouts[i].version
      /\ \A i \in Ids : Entered(i) => layouts'[i] = layouts[i]
      /\ UNCHANGED <<current, history, nextId>>
      /\ req'[t] = Idle /\ \A u \in Tabs : u # t => req'[u] = req[u]
  BY DeleteWrites DEF IInv, TypeOK
<1>2. \A i : Stored(i)' = Stored(i) /\ Entered(i)' = Entered(i)
  BY <1>1 DEF Stored, Entered
<1>3. \A u \in Tabs : Pending(u)' => u # t /\ Pending(u)
  BY <1>1 DEF Pending, Idle, Checkpoints
<1>4. /\ Idle.op \notin Checkpoints /\ Idle.op # "restore"
      /\ Idle.source = 0 /\ Idle.cur.id = 0
  BY DEF Idle, NoSight, Checkpoints
<1>5. TicketInv'
  BY <1>1, <1>2, <1>3 DEF IInv, TicketInv
<1>6. BackedInv'
  BY <1>2 DEF IInv, BackedInv
<1>7. SightInv'
  <2>1. ASSUME NEW u \in Tabs, u # t
        PROVE  (/\ req[u].cur.id # 0 => Stored(req[u].cur.id)
                /\ req[u].op \in Checkpoints /\ req[u].pc # "current"
                     /\ req[u].cur.version # 0 =>
                     /\ Stored(req[u].cur.id)
                     /\ layouts[req[u].cur.id].version = req[u].cur.version
                /\ Pending(u) => req[u].cur.id < req[u].ticket)'
    BY <1>1, <1>3, <2>1 DEF IInv, SightInv, Stored
  <2>. QED
    BY <1>1, <1>3, <1>4, <2>1 DEF SightInv
<1>8. CarriedInv'
  <2>1. ASSUME NEW u \in Tabs, u # t
        PROVE  (/\ req[u].op # "restore" => req[u].source = 0
                /\ Pending(u) /\ req[u].op = "restore" =>
                     /\ Entered(req[u].source)
                     /\ req[u].source < req[u].ticket
                     /\ req[u].json = layouts[req[u].source].json
                /\ Pending(u) /\ req[u].op = "ghost_recreate" =>
                     req[u].device \in Devices)'
    BY <1>1, <1>3, <2>1 DEF IInv, CarriedInv, Entered
  <2>. QED
    BY <1>1, <1>3, <1>4, <2>1 DEF CarriedInv
<1>9. CurrentIsKept'
  BY <1>1, <1>2 DEF IInv, CurrentIsKept
<1>10. VersionChain'
  BY <1>1 DEF IInv, VersionChain
<1>11. RestoreFaithful'
  BY <1>1, <1>2 DEF IInv, RestoreFaithful, Entered, Checkpoints
<1>. QED
  BY <1>5, <1>6, <1>7, <1>8, <1>9, <1>10, <1>11 DEF IInv

\* Committing, and failing to, preserve the invariant.
LEMMA WriteStep ==
  ASSUME IInv, TypeOK', NEW t \in Tabs, Write(t)
  PROVE  IInv'
<1>0. TypeOK /\ req[t] \in RequestType
  BY DEF IInv, TypeOK
<1>1. CASE CreateDraft(t) \/ UpdateDraft(t) \/ CommitDiscard(t)
  <2>1. PICK row : req' = [req EXCEPT ![t] = Committed(req[t], row)]
    BY <1>1 DEF CreateDraft, UpdateDraft, CommitDiscard
  <2>. DEFINE q == Committed(req[t], row)
  <2>2. q \in RequestType
    BY <1>0, <2>1 DEF TypeOK
  <2>3. q.op = req[t].op /\ q.pc = "answer" /\ q.source = 0 /\ q.cur = NoSight
    BY DEF Committed, Idle
  <2>4. Sound(q)
    BY <2>3 DEF Sound, NoSight
  <2>5. UNCHANGED <<current, layouts, history, nextId>>
    BY <1>1 DEF CreateDraft, UpdateDraft, CommitDiscard
  <2>. HIDE DEF q
  <2>. QED
    BY <2>1, <2>2, <2>3, <2>4, <2>5, QuietStep DEF q
<1>2. CASE FailSaveDraft(t)
  BY <1>2, IdleStep DEF FailSaveDraft, Refuse, DbUnchanged
<1>. QED
  BY <1>1, <1>2, CommitStep, DeleteDeviceStep DEF Write

\* Answering preserves the invariant.
LEMMA RespondStep ==
  ASSUME IInv, TypeOK', NEW t \in Tabs, Respond(t)
  PROVE  IInv'
  BY IdleStep DEF Respond, AnswerCheckpoint, AnswerDraft, AnswerDiscard,
     Answer, DbUnchanged

\* The invariant holds at the start.
LEMMA InitInv == Init => IInv
<1>. SUFFICES ASSUME Init PROVE IInv
  OBVIOUS
<1>1. TypeOK
  BY InitType
<1>2. /\ \A i : ~Entered(i)
      /\ \A i : Stored(i) => i = 1 /\ nextId = 2
      /\ current # 0 => current = 1 /\ Stored(1)
      /\ \A i \in Ids : layouts[i].version \in {0, 1}
      /\ \A i \in Ids : history[i].action = "none"
  BY DEF Init, Entered, Stored, NoEntry, NoLayout, Ids
<1>3. \A t \in Tabs : /\ req[t].op = "idle" /\ req[t].cur.id = 0
                      /\ req[t].source = 0 /\ ~Pending(t)
  BY DEF Init, Idle, NoSight, Pending, Checkpoints
<1>4. TicketInv /\ BackedInv
  BY <1>2, <1>3 DEF TicketInv, BackedInv
<1>5. SightInv /\ CarriedInv
  BY <1>3 DEF SightInv, CarriedInv, Checkpoints
<1>6. CurrentIsKept /\ VersionChain /\ RestoreFaithful
  BY <1>2 DEF CurrentIsKept, VersionChain, RestoreFaithful
<1>. QED
  BY <1>1, <1>4, <1>5, <1>6 DEF IInv

\* Every step preserves the invariant.
LEMMA NextInv ==
  ASSUME IInv, [Next]_vars
  PROVE  IInv'
<1>1. TypeOK'
  BY NextType DEF IInv, CarriedInv, DeviceInv
<1>2. CASE CreateDevice \/ UNCHANGED vars
  <2>1. UNCHANGED <<current, layouts, history, nextId, req>>
    BY <1>2 DEF CreateDevice, vars
  <2>2. /\ TicketInv' /\ BackedInv' /\ SightInv' /\ CarriedInv'
        /\ CurrentIsKept' /\ VersionChain' /\ RestoreFaithful'
    BY <2>1 DEF IInv, TicketInv, BackedInv, SightInv, CarriedInv,
                CurrentIsKept, VersionChain, RestoreFaithful, Pending,
                Stored, Entered
  <2>. QED
    BY <1>1, <2>2 DEF IInv
<1>3. ASSUME NEW t \in Tabs, Abandon(t) PROVE IInv'
  BY <1>1, <1>3, IdleStep DEF Abandon, Refuse, DbUnchanged
<1>. QED
  BY <1>1, <1>2, <1>3, RequestStep, ReadStep, WriteStep, RespondStep DEF Next

\* IInv holds in every reachable state of every instance.
THEOREM Inductive == Spec => []IInv
  BY InitInv, NextInv, PTL DEF Spec

\* The variables keep their types.
THEOREM TypeCorrect == Spec => []TypeOK
<1>1. IInv => TypeOK
  BY DEF IInv
<1>. QED
  BY <1>1, Inductive, PTL

\* The pointer names a stored layout, and one that history keeps as soon as
\* there is history.
THEOREM PointerCorrect == Spec => []CurrentIsKept
<1>1. IInv => CurrentIsKept
  BY DEF IInv
<1>. QED
  BY <1>1, Inductive, PTL

\* Versions come without gaps, each made from an older layout.
THEOREM VersionsCorrect == Spec => []VersionChain
<1>1. IInv => VersionChain
  BY DEF IInv
<1>. QED
  BY <1>1, Inductive, PTL

\* A restored version shows what the entry it was restored from shows.
THEOREM RestoreCorrect == Spec => []RestoreFaithful
<1>1. IInv => RestoreFaithful
  BY DEF IInv
<1>. QED
  BY <1>1, Inductive, PTL

-----------------------------------------------------------------------------
(***************************************************************************)
(* What steps never do, and the refinement.                                *)
(***************************************************************************)

\* Neither a request that begins nor one that reads changes what is stored.
LEMMA RequestKeeps ==
  ASSUME NEW t \in Tabs, Request(t)
  PROVE  DbUnchanged
<1>1. ASSUME NEW r, Begin(t, r) PROVE DbUnchanged
  BY <1>1, Zenon DEF Begin, DbUnchanged
<1>2. CASE BeginLoad(t) \/ BeginSaveDraft(t) \/ BeginDiscard(t)
  BY <1>1, <1>2, Zenon DEF BeginLoad, BeginSaveDraft, BeginDiscard
<1>3. CASE BeginSaveVersion(t) \/ BeginRestore(t) \/ BeginDeleteDevice(t)
  BY <1>1, <1>3, Zenon DEF BeginSaveVersion, BeginRestore, BeginDeleteDevice
<1>4. CASE BeginRecreate(t) \/ BeginMap(t)
  BY <1>1, <1>4, Zenon DEF BeginRecreate, BeginMap
<1>. QED
  BY <1>2, <1>3, <1>4, Zenon DEF Request

LEMMA ReadKeeps ==
  ASSUME NEW t \in Tabs, Read(t)
  PROVE  DbUnchanged
<1>1. CASE \/ RefuseStaleBase(t) \/ RefuseNoCurrent(t) \/ RefuseStaleDraft(t)
           \/ RefuseNoEntry(t) \/ RefuseGhost(t)
  BY <1>1, Zenon DEF RefuseStaleBase, RefuseNoCurrent, RefuseStaleDraft,
                     RefuseNoEntry, RefuseGhost, Refuse
<1>2. CASE \/ ReadCurrent(t) \/ FinishLoad(t) \/ ReadDraftToSave(t)
           \/ ReadDraftToDiscard(t) \/ NothingToDiscard(t)
  BY <1>2, Zenon DEF ReadCurrent, FinishLoad, ReadDraftToSave,
                     ReadDraftToDiscard, NothingToDiscard, Refuse
<1>3. CASE \/ ComposeSaveVersion(t) \/ ComposeRestore(t)
           \/ ComposeRecreate(t) \/ ComposeMap(t)
  BY <1>3, Zenon DEF ComposeSaveVersion, ComposeRestore, ComposeRecreate,
                     ComposeMap, Compose
<1>. QED
  BY <1>1, <1>2, <1>3, Zenon DEF Read

\* A step that neither commits a checkpoint nor deletes a device leaves the
\* layouts, the history and the pointer alone.
LEMMA OtherSteps ==
  ASSUME [Next]_vars,
         ~ \E t \in Tabs : CommitCheckpoint(t) \/ CommitDeleteDevice(t)
  PROVE  UNCHANGED <<current, layouts, history>>
<1>1. CASE CreateDevice \/ UNCHANGED vars
  BY <1>1 DEF CreateDevice, vars
<1>2. ASSUME NEW t \in Tabs, Request(t)
      PROVE  UNCHANGED <<current, layouts, history>>
  BY <1>2, RequestKeeps DEF DbUnchanged
<1>3. ASSUME NEW t \in Tabs, Read(t)
      PROVE  UNCHANGED <<current, layouts, history>>
  BY <1>3, ReadKeeps DEF DbUnchanged
<1>4. ASSUME NEW t \in Tabs, Write(t)
      PROVE  UNCHANGED <<current, layouts, history>>
  BY <1>4 DEF Write, CreateDraft, UpdateDraft, FailSaveDraft, CommitDiscard,
     Refuse, DbUnchanged
<1>5. ASSUME NEW t \in Tabs, Respond(t) \/ Abandon(t)
      PROVE  UNCHANGED <<current, layouts, history>>
  BY <1>5 DEF Respond, AnswerCheckpoint, AnswerDraft, AnswerDiscard, Answer,
     Abandon, Refuse, DbUnchanged
<1>. QED
  BY <1>1, <1>2, <1>3, <1>4, <1>5 DEF Next

\* No step changes an entry or the document it keeps.
LEMMA HistoryStep ==
  ASSUME IInv, [Next]_vars, NEW i \in Ids, Entered(i)
  PROVE  history'[i] = history[i] /\ layouts'[i] = layouts[i]
<1>1. ASSUME NEW t \in Tabs, CommitCheckpoint(t)
      PROVE  history'[i] = history[i] /\ layouts'[i] = layouts[i]
  <2>1. ~Entered(req[t].ticket)
    BY <1>1, PendingFacts DEF CommitCheckpoint, Pending
  <2>. QED
    BY <1>1, <2>1 DEF CommitCheckpoint, IInv, TypeOK
<1>2. ASSUME NEW t \in Tabs, CommitDeleteDevice(t)
      PROVE  history'[i] = history[i] /\ layouts'[i] = layouts[i]
  BY <1>2, DeleteWrites
<1>. QED
  BY <1>1, <1>2, OtherSteps

\* History is append-only: entries and the documents they keep stay as they
\* were written, whatever requests overlap.
THEOREM HistoryCorrect == Spec => HistoryAppendOnly
<1>1. IInv /\ [Next]_vars =>
        [\A i \in Ids : Entered(i) => /\ history'[i] = history[i]
                                      /\ layouts'[i] = layouts[i]]_vars
  BY HistoryStep
<1>. QED
  BY <1>1, Inductive, PTL DEF Spec, HistoryAppendOnly

\* The start of the editor is the start of the log.
LEMMA InitRefines == Init => Log!Init
<1>. SUFFICES ASSUME Init PROVE Log!Init
  OBVIOUS
<1>1. \A i : ~Entered(i)
  BY DEF Init, Entered, NoEntry
<1>. QED
  BY <1>1 DEF Log!Init, Log!Ids, Log!NoSnapshot, LogMap, LogHead, LogOf, Ids

\* The commit of a checkpoint appends its snapshot to the log.
LEMMA CommitRefines ==
  ASSUME IInv, IInv', NEW t \in Tabs, CommitCheckpoint(t)
  PROVE  Log!Next
<1>. DEFINE r == req[t]
<1>0. PICK i : i = req[t].ticket
  OBVIOUS
<1>1. /\ Pending(t) /\ i \in Ids /\ ~Entered(i) /\ r \in RequestType
      /\ r.json \in SUBSET Devices
  BY <1>0, CommitWrites, PendingFacts DEF IInv, RequestType
<1>2. /\ \A j : Entered(j)' = (Entered(j) \/ j = i)
      /\ \A j \in Ids : j # i =>
           layouts'[j] = layouts[j] /\ history'[j] = history[j]
      /\ layouts'[i] = NewRow(r) /\ history'[i] = EntryOf(r)
      /\ current' = i
  <2>. TypeOK'
    BY DEF IInv
  <2>. QED
    BY <1>0, CommitWrites
<1>3. LogMap' = [LogMap EXCEPT ![i] = [kept |-> TRUE, from |-> r.source,
                                       json |-> r.json]]
  <2>1. LogOf(i)' = [kept |-> TRUE, from |-> r.source, json |-> r.json]
    <3>1. Entered(i)'
      BY <1>2
    <3>2. history'[i].from = r.source
      BY <1>2 DEF EntryOf
    <3>3. layouts'[i].json = r.json
      BY <1>2 DEF NewRow
    <3>. QED
      BY <3>1, <3>2, <3>3 DEF LogOf
  <2>2. \A j \in Ids : j # i => LogOf(j)' = LogOf(j)
    BY <1>2 DEF LogOf
  <2>. QED
    BY <1>1, <2>1, <2>2 DEF LogMap
<1>4. ~LogMap[i].kept /\ LogHead' = i
  BY <1>1, <1>2 DEF LogMap, LogOf, LogHead, Entered
<1>5. Log!Append(i, r.source, r.json)
  BY <1>3, <1>4 DEF Log!Append
<1>6. CASE r.op = "restore"
  <2>1. /\ Entered(r.source) /\ r.source < i
        /\ r.json = layouts[r.source].json
    BY <1>0, <1>1, <1>6 DEF IInv, CarriedInv
  <2>2. /\ r.source \in Ids /\ LogMap[r.source].kept
        /\ LogMap[r.source].json = r.json
    BY <2>1 DEF LogMap, LogOf, Entered
  <2>. QED
    BY <1>1, <1>5, <2>1, <2>2 DEF Log!Next, Log!Restore, Log!Ids, Ids
<1>7. CASE r.op # "restore"
  <2>1. r.source = 0
    BY <1>7 DEF IInv, CarriedInv
  <2>. QED
    BY <1>1, <1>5, <2>1 DEF Log!Next, Log!Checkpoint, Log!Ids, Ids
<1>. QED
  BY <1>6, <1>7

\* Every step of the editor is a step of the log, or leaves it alone.
LEMMA NextRefines ==
  ASSUME IInv, IInv', [Next]_vars
  PROVE  [Log!Next]_<<LogMap, LogHead>>
<1>1. ASSUME NEW t \in Tabs, CommitDeleteDevice(t)
      PROVE  UNCHANGED <<LogMap, LogHead>>
  <2>1. /\ \A i \in Ids : Entered(i) => layouts'[i] = layouts[i]
        /\ UNCHANGED <<current, history>>
    BY <1>1, DeleteWrites
  <2>2. \A i \in Ids : LogOf(i)' = LogOf(i)
    BY <2>1 DEF LogOf, Entered
  <2>. QED
    BY <2>1, <2>2 DEF LogMap, LogHead, Entered
<1>2. ASSUME UNCHANGED <<current, layouts, history>>
      PROVE  UNCHANGED <<LogMap, LogHead>>
  BY <1>2 DEF LogMap, LogHead, LogOf, Entered
<1>. QED
  BY <1>1, <1>2, CommitRefines, OtherSteps

\* The editor implements the append-only log of snapshots.
THEOREM Refinement == Spec => ImplementsLog
  BY InitRefines, NextRefines, NextInv, Inductive, PTL
  DEF Spec, ImplementsLog, Log!Spec

\* The draft of the owner is never replaced by another row in one step, and a
\* deleted row does not come back.
THEOREM DraftRowCorrect == Spec => DraftRowNotReplaced
<1>. DEFINE Kept == draft'.id # draft.id =>
                      draft'.id = 0 \/ (draft.id = 0 /\ draft'.id >= nextDraft)
<1>1. ASSUME TypeOK, [Next]_vars PROVE Kept
  <2>0. nextDraft >= nextDraft
    BY <1>1 DEF TypeOK
  <2>1. CASE CreateDevice \/ UNCHANGED vars
    BY <2>1 DEF CreateDevice, vars
  <2>2. ASSUME NEW t \in Tabs, Request(t) PROVE Kept
    BY <2>2, RequestKeeps DEF DbUnchanged
  <2>3. ASSUME NEW t \in Tabs, Read(t) PROVE Kept
    BY <2>3, ReadKeeps DEF DbUnchanged
  <2>4. ASSUME NEW t \in Tabs, Write(t) PROVE Kept
    <3>1. CASE CommitCheckpoint(t)
      BY <3>1 DEF CommitCheckpoint, DraftAfter, NoDraft
    <3>2. CASE CreateDraft(t)
      BY <2>0, <3>2 DEF CreateDraft
    <3>3. CASE UpdateDraft(t)
      BY <3>3 DEF UpdateDraft
    <3>4. CASE CommitDiscard(t)
      BY <3>4 DEF CommitDiscard, NoDraft
    <3>5. CASE FailSaveDraft(t) \/ CommitDeleteDevice(t)
      BY <3>5 DEF FailSaveDraft, CommitDeleteDevice, Refuse, DbUnchanged
    <3>. QED
      BY <2>4, <3>1, <3>2, <3>3, <3>4, <3>5 DEF Write
  <2>5. ASSUME NEW t \in Tabs, Respond(t) \/ Abandon(t) PROVE Kept
    BY <2>5 DEF Respond, AnswerCheckpoint, AnswerDraft, AnswerDiscard, Answer,
       Abandon, Refuse, DbUnchanged
  <2>. QED
    BY <1>1, <2>1, <2>2, <2>3, <2>4, <2>5 DEF Next
<1>2. TypeOK /\ [Next]_vars => [Kept]_vars
  BY <1>1
<1>. QED
  BY <1>2, TypeCorrect, PTL DEF Spec, DraftRowNotReplaced

-----------------------------------------------------------------------------
(***************************************************************************)
(* Deleted devices.                                                        *)
(***************************************************************************)

\* A step that leaves the other requests alone preserves GhostInv if it does
\* for its own.
LEMMA GhostFrame ==
  ASSUME TypeOK, GhostInv, used \subseteq used', NEW t \in Tabs, NEW q,
         req' = [req EXCEPT ![t] = q],
         q.op = "ghost_recreate" /\ q.pc # "answer" =>
           q.ghost \in used' /\ (q.pc = "write" => q.device # q.ghost)
  PROVE  GhostInv'
<1>1. req'[t] = q /\ \A u \in Tabs : u # t => req'[u] = req[u]
  BY DEF TypeOK
<1>. QED
  BY <1>1 DEF GhostInv

\* Ending a request, or keeping it for its answer only, preserves GhostInv.
LEMMA GhostEnd ==
  ASSUME TypeOK, GhostInv, used \subseteq used', NEW t \in Tabs, NEW row,
         \/ req' = [req EXCEPT ![t] = Idle]
         \/ req' = [req EXCEPT ![t] = Committed(req[t], row)]
  PROVE  GhostInv'
<1>1. Idle.op # "ghost_recreate"
  BY DEF Idle
<1>2. Committed(req[t], row).pc = "answer"
  BY DEF Committed, Idle
<1>. QED
  BY <1>1, <1>2, GhostFrame

\* Beginning an operation preserves GhostInv.
LEMMA GhostRequest ==
  ASSUME TypeOK, GhostInv, NEW t \in Tabs, Request(t)
  PROVE  GhostInv'
<1>1. ASSUME NEW q, Begin(t, q),
             q.op = "ghost_recreate" => q.pc = "current" /\ q.ghost \in used
      PROVE  GhostInv'
  BY <1>1, GhostFrame DEF Begin
<1>3. CASE BeginRecreate(t)
  <2>1. PICK g \in used :
          Begin(t, [New("ghost_recreate") EXCEPT !.base = tab[t].base.version,
                                                 !.ghost = g])
    BY <1>3 DEF BeginRecreate
  <2>. DEFINE q == [New("ghost_recreate") EXCEPT !.base = tab[t].base.version,
                                                 !.ghost = g]
  <2>2. q.pc = "current" /\ q.ghost = g
    BY DEF New, Idle
  <2>3. Begin(t, q)
    BY <2>1
  <2>. HIDE DEF q
  <2>. QED
    BY <1>1, <2>2, <2>3
<1>4. CASE BeginLoad(t)
  <2>1. New("load").op # "ghost_recreate"
    BY DEF New, Idle
  <2>. QED
    BY <1>1, <1>4, <2>1 DEF BeginLoad
<1>5. CASE BeginDiscard(t)
  <2>1. [New("discard") EXCEPT !.pc = "draft"].op # "ghost_recreate"
    BY DEF New, Idle
  <2>. QED
    BY <1>1, <1>5, <2>1 DEF BeginDiscard
<1>6. CASE BeginSaveDraft(t)
  <2>1. \A base, c : [New("save_draft") EXCEPT !.base = base, !.json = c,
                      !.pc = "draft"].op # "ghost_recreate"
    BY DEF New, Idle
  <2>. QED
    BY <1>1, <1>6, <2>1 DEF BeginSaveDraft
<1>7. CASE BeginSaveVersion(t)
  <2>. DEFINE new == [New("save_version") EXCEPT !.base = tab[t].base.version]
  <2>1. new.op # "ghost_recreate"
    BY DEF New, Idle
  <2>2. \A c : [new EXCEPT !.sends = TRUE, !.json = c].op # "ghost_recreate"
    BY DEF New, Idle
  <2>. QED
    BY <1>1, <1>7, <2>1, <2>2 DEF BeginSaveVersion
<1>8. CASE BeginRestore(t)
  <2>1. \A base, i : [New("restore") EXCEPT !.base = base, !.source = i].op
                        # "ghost_recreate"
    BY DEF New, Idle
  <2>. QED
    BY <1>1, <1>8, <2>1 DEF BeginRestore
<1>9. CASE BeginMap(t)
  <2>1. \A base, g, d : [New("ghost_map") EXCEPT !.base = base, !.ghost = g,
                         !.device = d].op # "ghost_recreate"
    BY DEF New, Idle
  <2>. QED
    BY <1>1, <1>9, <2>1 DEF BeginMap
<1>10. CASE BeginDeleteDevice(t)
  <2>1. \A d, c, json : [New("delete_device") EXCEPT !.pc = "write",
            !.device = d, !.cur = c, !.json = json].op # "ghost_recreate"
    BY DEF New, Idle
  <2>. QED
    BY <1>1, <1>10, <2>1 DEF BeginDeleteDevice
<1>. QED
  BY <1>3, <1>4, <1>5, <1>6, <1>7, <1>8, <1>9, <1>10 DEF Request

\* Reading and composing preserve GhostInv: a recreated device has a new id.
LEMMA GhostRead ==
  ASSUME TypeOK, GhostInv, NEW t \in Tabs, Read(t)
  PROVE  GhostInv'
<1>. DEFINE r == req[t]
            q == req'[t]
<1>0. r \in RequestType
  BY DEF TypeOK
<1>1. CASE ReadCurrent(t)
  <2>1. /\ q.op = r.op /\ q.ghost = r.ghost /\ q.pc # "write"
        /\ req' = [req EXCEPT ![t] = q] /\ r.pc = "current"
    BY <1>0, <1>1 DEF ReadCurrent, NextRead, RequestType, TypeOK
  <2>2. q.op = "ghost_recreate" => r.ghost \in used
    BY <2>1 DEF GhostInv
  <2>3. used' = used
    BY <1>1 DEF ReadCurrent
  <2>. QED
    BY <2>1, <2>2, <2>3, GhostFrame
<1>2. CASE ReadDraftToSave(t) \/ ReadDraftToDiscard(t)
  <2>1. q.op # "ghost_recreate" /\ req' = [req EXCEPT ![t] = q]
    BY <1>0, <1>2 DEF ReadDraftToSave, ReadDraftToDiscard, RequestType, TypeOK
  <2>. QED
    BY <1>2, <2>1, GhostFrame DEF ReadDraftToSave, ReadDraftToDiscard
<1>3. CASE \/ FinishLoad(t) \/ NothingToDiscard(t)
           \/ RefuseStaleBase(t) \/ RefuseNoCurrent(t) \/ RefuseStaleDraft(t)
           \/ RefuseNoEntry(t) \/ RefuseGhost(t)
  BY <1>3, GhostEnd DEF FinishLoad, NothingToDiscard, RefuseStaleBase,
     RefuseNoCurrent, RefuseStaleDraft, RefuseNoEntry, RefuseGhost, Refuse
<1>4. ASSUME NEW json, NEW read, NEW device, Compose(t, json, read, device)
      PROVE  /\ q.op = r.op /\ q.ghost = r.ghost /\ q.device = device
             /\ req' = [req EXCEPT ![t] = q]
  BY <1>0, <1>4 DEF Compose, RequestType, TypeOK
<1>5. CASE ComposeSaveVersion(t) \/ ComposeRestore(t) \/ ComposeMap(t)
  <2>1. q.op # "ghost_recreate" /\ req' = [req EXCEPT ![t] = q]
    BY <1>4, <1>5 DEF ComposeSaveVersion, ComposeRestore, ComposeMap
  <2>. QED
    BY <1>5, <2>1, GhostFrame DEF ComposeSaveVersion, ComposeRestore, ComposeMap
<1>6. CASE ComposeRecreate(t)
  <2>1. PICK d \in Devices \ used :
          /\ used' = used \cup {d}
          /\ Compose(t, Replaced(r.json, r.ghost, d), NoSight, d)
    BY <1>6 DEF ComposeRecreate
  <2>2. r.ghost \in used
    BY <1>6 DEF ComposeRecreate, GhostInv
  <2>. QED
    BY <1>4, <2>1, <2>2, GhostFrame
<1>. QED
  BY <1>1, <1>2, <1>3, <1>5, <1>6 DEF Read

\* GhostInv holds in every reachable state.
LEMMA GhostsKept == Spec => []GhostInv
<1>1. Init => GhostInv
  BY DEF Init, GhostInv, Idle
<1>2. ASSUME TypeOK, GhostInv, [Next]_vars PROVE GhostInv'
  <2>1. CASE CreateDevice \/ UNCHANGED vars
    BY <1>2, <2>1 DEF CreateDevice, vars, GhostInv
  <2>2. ASSUME NEW t \in Tabs, Write(t) PROVE GhostInv'
    BY <1>2, <2>2, GhostEnd DEF Write, CommitCheckpoint, CreateDraft,
       UpdateDraft, FailSaveDraft, CommitDiscard, CommitDeleteDevice, Refuse
  <2>3. ASSUME NEW t \in Tabs, Respond(t) \/ Abandon(t) PROVE GhostInv'
    BY <1>2, <2>3, GhostEnd DEF Respond, AnswerCheckpoint, AnswerDraft,
       AnswerDiscard, Answer, Abandon, Refuse
  <2>. QED
    BY <1>2, <2>1, <2>2, <2>3, GhostRequest, GhostRead DEF Next
<1>. QED
  BY <1>1, <1>2, TypeCorrect, PTL DEF Spec

\* No checkpoint brings the id of a deleted device back to life: what the
\* editor recreates from a ghost is a device with a new id.
THEOREM DeletedCorrect == Spec => DeletedStaysDeleted
<1>. DEFINE Stay == \A d \in used \ live : d \in live' =>
                      \E t \in Tabs : /\ req[t].op = "ghost_recreate"
                                      /\ req[t].device = d
                                      /\ req[t].ghost # d
<1>1. ASSUME TypeOK, GhostInv, [Next]_vars PROVE Stay
  <2>1. CASE CreateDevice \/ UNCHANGED vars
    BY <2>1 DEF CreateDevice, vars
  <2>2. ASSUME NEW t \in Tabs, Request(t) PROVE live' = live
    BY <2>2, RequestKeeps DEF DbUnchanged
  <2>3. ASSUME NEW t \in Tabs, Read(t) PROVE live' = live
    BY <2>3, ReadKeeps DEF DbUnchanged
  <2>4. ASSUME NEW t \in Tabs, CommitCheckpoint(t) PROVE Stay
    BY <1>1, <2>4 DEF CommitCheckpoint, GhostInv
  <2>5. ASSUME NEW t \in Tabs, Write(t), ~CommitCheckpoint(t)
        PROVE  live' \subseteq live
    BY <2>5 DEF Write, CreateDraft, UpdateDraft, FailSaveDraft, CommitDiscard,
       CommitDeleteDevice, Refuse, DbUnchanged
  <2>6. ASSUME NEW t \in Tabs, Respond(t) \/ Abandon(t) PROVE live' = live
    BY <2>6 DEF Respond, AnswerCheckpoint, AnswerDraft, AnswerDiscard, Answer,
       Abandon, Refuse, DbUnchanged
  <2>. QED
    BY <1>1, <2>1, <2>2, <2>3, <2>4, <2>5, <2>6 DEF Next
<1>2. TypeOK /\ GhostInv /\ [Next]_vars => [Stay]_vars
  BY <1>1
<1>. QED
  BY <1>2, TypeCorrect, GhostsKept, PTL DEF Spec, DeletedStaysDeleted

-----------------------------------------------------------------------------
(***************************************************************************)
(* One request at a time.                                                  *)
(***************************************************************************)

\* The only worker thread has to be free for a request to begin.
LEMMA BeginAlone ==
  ASSUME MaxInFlight = 1, OneAtATime, NEW t \in Tabs, NEW q, Begin(t, q)
  PROVE  \A u \in Tabs : req[u].op = "idle"
<1>1. Cardinality(InFlight) < 1
  BY DEF Begin
<1>2. SUFFICES ASSUME NEW u \in InFlight PROVE FALSE
  BY DEF InFlight
<1>3. InFlight = {u}
  BY <1>2 DEF OneAtATime
<1>4. Cardinality({u}) = 1
  BY FS_Singleton
<1>. QED
  BY <1>1, <1>3, <1>4

\* A tab without a request has read nothing that could be stale.
LEMMA IdleIsFresh ==
  ASSUME NEW u \in Tabs, req'[u] = Idle
  PROVE  FreshView(u)' /\ FreshDraft(u)'
  BY DEF FreshView, FreshDraft, Pending, Checkpoints, Idle

\* A step of the only request: what holds of it holds of all.
LEMMA SerialFrame ==
  ASSUME SerialInv, NEW t \in Tabs,
         \A u \in Tabs : u # t => req'[u] = req[u],
         req[t].op # "idle" \/ \A u \in Tabs : req[u].op = "idle",
         NewestInv', WorkingViewClean', FreshView(t)', FreshDraft(t)'
  PROVE  SerialInv'
<1>1. ASSUME NEW u \in Tabs, u # t PROVE req'[u] = Idle
  BY <1>1 DEF SerialInv, OneAtATime, InFlight, FreshView
<1>2. OneAtATime'
  BY <1>1 DEF OneAtATime, InFlight, Idle
<1>3. \A u \in Tabs : FreshView(u)' /\ FreshDraft(u)'
  BY <1>1, IdleIsFresh
<1>. QED
  BY <1>2, <1>3 DEF SerialInv

\* As long as no layout is written, versions stay in order; new devices leave the
\* working view clean.
LEMMA ViewKept ==
  ASSUME SerialInv, UNCHANGED <<current, layouts, history>>, live \subseteq live',
         \A u \in Tabs : tab'[u].base.version # 0 =>
           /\ Stored(tab'[u].base.id)
           /\ layouts[tab'[u].base.id].version = tab'[u].base.version
  PROVE  NewestInv' /\ WorkingViewClean'
<1>1. \A i : Stored(i)' = Stored(i) /\ Entered(i)' = Entered(i)
  BY DEF Stored, Entered
<1>. QED
  BY <1>1 DEF SerialInv, NewestInv, WorkingViewClean

\* A request that ends writes nothing.
LEMMA SerialEnds ==
  ASSUME IInv, SerialInv, NEW t \in Tabs, req[t].op # "idle",
         req' = [req EXCEPT ![t] = Idle],
         UNCHANGED <<current, layouts, history, live>>,
         \A u \in Tabs : tab'[u].base.version # 0 =>
           /\ Stored(tab'[u].base.id)
           /\ layouts[tab'[u].base.id].version = tab'[u].base.version
  PROVE  SerialInv'
<1>1. req'[t] = Idle /\ \A u \in Tabs : u # t => req'[u] = req[u]
  BY DEF IInv, TypeOK
<1>2. FreshView(t)' /\ FreshDraft(t)'
  BY <1>1, IdleIsFresh
<1>. QED
  BY <1>1, <1>2, ViewKept, SerialFrame

\* What a new request must have read.
NewlyRead(t, q) ==
  /\ q.op # "idle"
  /\ q.pc = "current" => q.cur.id = current
  /\ q.op \in Checkpoints => q.pc = "current" /\ q.base = tab[t].base.version
  /\ q.op = "load" => q.pc = "current"
  /\ q.op = "save_draft" => q.pc = "draft"
  /\ q.op = "delete_device" =>
       q.pc = "write" /\ q.cur = Sight(current) /\ q.json = Document(current)

LEMMA SerialBegins ==
  ASSUME MaxInFlight = 1, IInv, SerialInv, NEW t \in Tabs, NEW q, Begin(t, q),
         NewlyRead(t, q)
  PROVE  SerialInv'
<1>1. req'[t] = q /\ \A u \in Tabs : u # t => req'[u] = req[u]
  BY DEF IInv, TypeOK, Begin
<1>2. UNCHANGED <<current, layouts, history, live, tab>>
  BY DEF Begin
<1>3. NewestInv' /\ WorkingViewClean'
  BY <1>2, ViewKept DEF SerialInv, NewestInv
<1>4. Sight(current)' = Sight(current) /\ Document(current)' = Document(current)
  BY <1>2 DEF Sight, Document, Stored
<1>5. FreshView(t)'
  BY <1>1, <1>2, <1>4 DEF FreshView, NewlyRead, Checkpoints
<1>6. FreshDraft(t)'
  BY <1>1 DEF FreshDraft, NewlyRead, Pending, Checkpoints
<1>7. \A u \in Tabs : req[u].op = "idle"
  BY BeginAlone DEF SerialInv
<1>. QED
  BY <1>1, <1>3, <1>5, <1>6, <1>7, SerialFrame

\* Beginning any operation.
LEMMA SerialRequest ==
  ASSUME MaxInFlight = 1, IInv, SerialInv, NEW t \in Tabs, Request(t)
  PROVE  SerialInv'
<1>0. ASSUME NEW op \in Ops
      PROVE  /\ New(op) \in RequestType
             /\ New(op).op = op /\ New(op).pc = "current" /\ New(op).cur.id = current
  BY NewType, NewSound DEF IInv
<1>1. CASE BeginLoad(t)
  BY <1>0, <1>1, SerialBegins DEF BeginLoad, NewlyRead, Ops, Checkpoints
<1>2. CASE BeginSaveDraft(t)
  <2>1. PICK c \in Sent :
          Begin(t, [New("save_draft") EXCEPT !.base = tab[t].draft.version,
                                             !.json = c, !.pc = "draft"])
    BY <1>2 DEF BeginSaveDraft
  <2>. DEFINE q == [New("save_draft") EXCEPT !.base = tab[t].draft.version,
                                             !.json = c, !.pc = "draft"]
  <2>2. q.op = "save_draft" /\ q.pc = "draft"
    BY <1>0 DEF Ops, New, Idle
  <2>. QED
    BY <2>1, <2>2, SerialBegins DEF NewlyRead, Checkpoints
<1>3. CASE BeginDiscard(t)
  <2>. DEFINE q == [New("discard") EXCEPT !.pc = "draft"]
  <2>1. q.op = "discard" /\ q.pc = "draft"
    BY <1>0 DEF Ops, New, Idle
  <2>. QED
    BY <1>3, <2>1, SerialBegins DEF BeginDiscard, NewlyRead, Checkpoints
<1>4. CASE BeginSaveVersion(t)
  <2>. DEFINE new == [New("save_version") EXCEPT !.base = tab[t].base.version]
  <2>1. CASE Begin(t, new)
    <3>1. /\ new.op = "save_version" /\ new.pc = "current"
          /\ new.cur.id = current /\ new.base = tab[t].base.version
      BY <1>0 DEF Ops, New, Idle, NoSight
    <3>. QED
      BY <2>1, <3>1, SerialBegins DEF NewlyRead
  <2>2. ASSUME NEW c \in Sent,
               Begin(t, [new EXCEPT !.sends = TRUE, !.json = c])
        PROVE  SerialInv'
    <3>. DEFINE q == [new EXCEPT !.sends = TRUE, !.json = c]
    <3>1. /\ q.op = "save_version" /\ q.pc = "current"
          /\ q.cur.id = current /\ q.base = tab[t].base.version
      BY <1>0 DEF Ops, New, Idle, NoSight
    <3>. QED
      BY <2>2, <3>1, SerialBegins DEF NewlyRead
  <2>. QED
    BY <1>4, <2>1, <2>2 DEF BeginSaveVersion
<1>5. CASE BeginRestore(t)
  <2>1. PICK i \in Ids :
          Begin(t, [New("restore") EXCEPT !.base = tab[t].base.version,
                                          !.source = i])
    BY <1>5 DEF BeginRestore
  <2>. DEFINE q == [New("restore") EXCEPT !.base = tab[t].base.version,
                                          !.source = i]
  <2>2. /\ q.op = "restore" /\ q.pc = "current"
        /\ q.cur.id = current /\ q.base = tab[t].base.version
    BY <1>0 DEF Ops, New, Idle, NoSight
  <2>. QED
    BY <2>1, <2>2, SerialBegins DEF NewlyRead
<1>6. CASE BeginRecreate(t)
  <2>1. PICK g \in used :
          Begin(t, [New("ghost_recreate") EXCEPT !.base = tab[t].base.version,
                                                 !.ghost = g])
    BY <1>6 DEF BeginRecreate
  <2>. DEFINE q == [New("ghost_recreate") EXCEPT !.base = tab[t].base.version,
                                                 !.ghost = g]
  <2>2. /\ q.op = "ghost_recreate" /\ q.pc = "current"
        /\ q.cur.id = current /\ q.base = tab[t].base.version
    BY <1>0 DEF Ops, New, Idle, NoSight
  <2>. QED
    BY <2>1, <2>2, SerialBegins DEF NewlyRead
<1>7. CASE BeginMap(t)
  <2>1. PICK g \in used, d \in used :
          Begin(t, [New("ghost_map") EXCEPT !.base = tab[t].base.version,
                                            !.ghost = g, !.device = d])
    BY <1>7 DEF BeginMap
  <2>. DEFINE q == [New("ghost_map") EXCEPT !.base = tab[t].base.version,
                                            !.ghost = g, !.device = d]
  <2>2. /\ q.op = "ghost_map" /\ q.pc = "current"
        /\ q.cur.id = current /\ q.base = tab[t].base.version
    BY <1>0 DEF Ops, New, Idle, NoSight
  <2>. QED
    BY <2>1, <2>2, SerialBegins DEF NewlyRead
<1>8. CASE BeginDeleteDevice(t)
  <2>1. PICK d \in live :
          Begin(t, [New("delete_device") EXCEPT !.pc = "write", !.device = d,
                    !.cur = Sight(current), !.json = Document(current)])
    BY <1>8 DEF BeginDeleteDevice
  <2>. DEFINE q == [New("delete_device") EXCEPT !.pc = "write", !.device = d,
                    !.cur = Sight(current), !.json = Document(current)]
  <2>2. /\ q.op = "delete_device" /\ q.pc = "write"
        /\ q.cur = Sight(current) /\ q.json = Document(current)
    BY DEF New, Idle
  <2>. QED
    BY <2>1, <2>2, SerialBegins DEF NewlyRead, Checkpoints
<1>. QED
  BY <1>1, <1>2, <1>3, <1>4, <1>5, <1>6, <1>7, <1>8 DEF Request

\* A read that goes on: what was read was the truth, and still is.
LEMMA SerialReads ==
  ASSUME IInv, SerialInv, NEW t \in Tabs, req[t].op # "idle",
         req'[t].op = req[t].op, \A u \in Tabs : u # t => req'[u] = req[u],
         UNCHANGED <<current, layouts, history, live, tab>>,
         FreshView(t)', FreshDraft(t)'
  PROVE  SerialInv'
<1>1. NewestInv' /\ WorkingViewClean'
  BY ViewKept DEF SerialInv, NewestInv
<1>. QED
  BY <1>1, SerialFrame

\* The current layout is read, and its version is the one that the client quotes.
LEMMA SerialReadCurrent ==
  ASSUME IInv, SerialInv, NEW t \in Tabs, ReadCurrent(t)
  PROVE  SerialInv'
<1>. DEFINE r == req[t]
            q == req'[t]
<1>0. r \in RequestType /\ FreshView(t) /\ FreshDraft(t)
  BY DEF IInv, TypeOK, SerialInv
<1>1. /\ q.op = r.op /\ q.pc = NextRead(r.op) /\ q.cur = Sight(r.cur.id)
      /\ q.base = r.base /\ r.pc = "current"
      /\ r.op \in Checkpoints => ~StaleBase(r, Sight(r.cur.id))
      /\ \A u \in Tabs : u # t => req'[u] = req[u]
  BY <1>0 DEF ReadCurrent, RequestType, IInv, TypeOK
<1>2. r.cur.id = current /\ r.op # "idle"
  BY <1>0, <1>1 DEF FreshView, Idle
<1>3. UNCHANGED <<current, layouts, history, live, tab>>
  BY DEF ReadCurrent, DbUnchanged
<1>4. Sight(current)' = Sight(current)
  BY <1>3 DEF Sight, Stored
<1>5. r.op # "delete_device"
  BY <1>0, <1>1 DEF FreshView
<1>6. FreshView(t)'
  BY <1>0, <1>1, <1>2, <1>3, <1>4, <1>5 DEF FreshView, StaleBase, NextRead
<1>7. FreshDraft(t)'
  BY <1>1 DEF FreshDraft, Pending, NextRead
<1>. QED
  BY <1>1, <1>2, <1>3, <1>6, <1>7, SerialReads

\* The draft is read for an autosave, or to be discarded.
LEMMA SerialReadDraft ==
  ASSUME IInv, SerialInv, NEW t \in Tabs, ReadDraftToSave(t) \/ ReadDraftToDiscard(t)
  PROVE  SerialInv'
<1>. DEFINE r == req[t]
            q == req'[t]
<1>1. /\ q.op = r.op /\ q.pc = "write" /\ q.draft = DraftRead
      /\ r.op \in {"save_draft", "discard"}
      /\ \A u \in Tabs : u # t => req'[u] = req[u]
  BY DEF ReadDraftToSave, ReadDraftToDiscard, RequestType, IInv, TypeOK
<1>2. UNCHANGED <<current, layouts, history, live, tab, draft>>
  BY DEF ReadDraftToSave, ReadDraftToDiscard, DbUnchanged
<1>3. DraftRead' = DraftRead
  BY <1>2 DEF DraftRead
<1>4. FreshView(t)' /\ FreshDraft(t)'
  BY <1>1, <1>3 DEF FreshView, FreshDraft, Pending, Checkpoints
<1>. QED
  BY <1>1, <1>2, <1>4, SerialReads

\* A checkpoint is composed from the current layout, the draft or an entry.
LEMMA SerialComposes ==
  ASSUME IInv, SerialInv, NEW t \in Tabs, NEW json, NEW read, NEW device,
         Compose(t, json, read, device),
         req[t].op \in Checkpoints, req[t].pc \in {"draft", "source"},
         req[t].op = "save_version" /\ ~req[t].sends /\ draft.id # 0 => json = draft.json,
         req[t].op \in {"ghost_recreate", "ghost_map"} =>
           req[t].ghost \notin json /\ device \in json,
         req[t].op = "ghost_map" => device \in live
  PROVE  SerialInv'
<1>. DEFINE r == req[t]
            q == req'[t]
<1>0. r \in RequestType /\ FreshView(t)
  BY DEF IInv, TypeOK, SerialInv
<1>1. /\ q.op = r.op /\ q.pc = "write" /\ q.cur = r.cur /\ q.base = r.base
      /\ q.sends = r.sends /\ q.ghost = r.ghost /\ q.json = json /\ q.device = device
      /\ \A u \in Tabs : u # t => req'[u] = req[u]
  BY <1>0 DEF Compose, RequestType, IInv, TypeOK
<1>2. UNCHANGED <<current, layouts, history, live, tab, draft>>
  BY DEF Compose, DbUnchanged
<1>3. Sight(current)' = Sight(current)
  BY <1>2 DEF Sight, Stored
<1>4. FreshView(t)'
  BY <1>0, <1>1, <1>2, <1>3 DEF FreshView, StaleBase, Checkpoints
<1>5. FreshDraft(t)'
  BY <1>1, <1>2 DEF FreshDraft, Checkpoints
<1>. QED
  BY <1>1, <1>2, <1>4, <1>5, SerialReads DEF Checkpoints

\* Reading, composing and refusing.
LEMMA SerialRead ==
  ASSUME IInv, SerialInv, GhostInv, NEW t \in Tabs, Read(t)
  PROVE  SerialInv'
<1>. DEFINE r == req[t]
<1>0. r \in RequestType /\ FreshView(t)
  BY DEF IInv, TypeOK, SerialInv
<1>1. CASE ReadCurrent(t)
  BY <1>1, SerialReadCurrent
<1>2. CASE ReadDraftToSave(t) \/ ReadDraftToDiscard(t)
  BY <1>2, SerialReadDraft
<1>3. CASE \/ RefuseStaleBase(t) \/ RefuseNoCurrent(t) \/ RefuseStaleDraft(t)
           \/ RefuseNoEntry(t) \/ RefuseGhost(t)
  <2>1. Refuse(t) /\ r.pc # "idle"
    BY <1>3 DEF RefuseStaleBase, RefuseNoCurrent, RefuseStaleDraft, RefuseNoEntry, RefuseGhost
  <2>2. r.op # "idle"
    BY <1>0, <2>1 DEF FreshView, Idle
  <2>. QED
    BY <2>1, <2>2, SerialEnds DEF Refuse, DbUnchanged, SerialInv, NewestInv
<1>4. CASE FinishLoad(t)
  <2>1. r.cur = Sight(current) /\ r.op # "idle"
    BY <1>0, <1>4 DEF FinishLoad, FreshView
  <2>2. /\ \A u \in Tabs : u # t => tab'[u] = tab[u]
        /\ tab'[t].base = Sight(current)
    BY <1>4, <2>1 DEF FinishLoad, IInv, TypeOK
  <2>3. \A u \in Tabs : tab'[u].base.version # 0 =>
          /\ Stored(tab'[u].base.id)
          /\ layouts[tab'[u].base.id].version = tab'[u].base.version
    BY <2>2, SightSound DEF SerialInv, NewestInv
  <2>. QED
    BY <1>4, <2>1, <2>3, SerialEnds DEF FinishLoad, DbUnchanged
<1>5. CASE NothingToDiscard(t)
  <2>1. \A u \in Tabs : tab'[u].base = tab[u].base
    BY <1>5 DEF NothingToDiscard, IInv, TypeOK
  <2>2. \A u \in Tabs : tab'[u].base.version # 0 =>
          /\ Stored(tab'[u].base.id)
          /\ layouts[tab'[u].base.id].version = tab'[u].base.version
    BY <2>1 DEF SerialInv, NewestInv
  <2>. QED
    BY <1>5, <2>2, SerialEnds DEF NothingToDiscard, DbUnchanged
<1>6. CASE ComposeSaveVersion(t)
  BY <1>6, SerialComposes DEF ComposeSaveVersion, SourceJson, Checkpoints
<1>7. CASE ComposeRestore(t)
  BY <1>7, SerialComposes DEF ComposeRestore, Checkpoints
<1>8. CASE ComposeRecreate(t)
  <2>1. r.ghost \in used
    BY <1>8 DEF ComposeRecreate, GhostInv
  <2>2. PICK d \in Devices \ used : Compose(t, Replaced(r.json, r.ghost, d), NoSight, d)
    BY <1>8 DEF ComposeRecreate
  <2>3. r.ghost \notin Replaced(r.json, r.ghost, d) /\ d \in Replaced(r.json, r.ghost, d)
    BY <2>1 DEF Replaced
  <2>. QED
    BY <1>8, <2>2, <2>3, SerialComposes DEF ComposeRecreate, Checkpoints
<1>9. CASE ComposeMap(t)
  <2>1. /\ r.ghost \notin Replaced(r.json, r.ghost, r.device) /\ r.device \in live
        /\ r.device \in Replaced(r.json, r.ghost, r.device)
    BY <1>9 DEF ComposeMap, IsGhost, Replaced
  <2>. QED
    BY <1>9, <2>1, SerialComposes DEF ComposeMap, Checkpoints
<1>. QED
  BY <1>1, <1>2, <1>3, <1>4, <1>5, <1>6, <1>7, <1>8, <1>9 DEF Read

\* A checkpoint counts on from the newest version, and becomes the newest itself.
LEMMA SerialCommit ==
  ASSUME IInv, TypeOK', SerialInv, NEW t \in Tabs, CommitCheckpoint(t)
  PROVE  SerialInv'
<1>. DEFINE r == req[t]
            i == req[t].ticket
<1>0. /\ TypeOK /\ Pending(t) /\ r \in RequestType /\ FreshView(t)
      /\ i \in Ids /\ ~Stored(i) /\ r.cur.id < i
  BY CommitWrites, PendingFacts DEF IInv, SerialInv
<1>1. /\ layouts'[i] = NewRow(r) /\ current' = i
      /\ \A j \in Ids : j # i => layouts'[j] = layouts[j]
      /\ req'[t] = Committed(r, NoSight) /\ \A u \in Tabs : u # t => req'[u] = req[u]
      /\ \A j : Stored(j)' = (Stored(j) \/ j = i)
      /\ \A j : Entered(j)' = (Entered(j) \/ j = i)
  BY CommitWrites
<1>2. r.cur = Sight(current)
  BY <1>0 DEF FreshView, Pending
<1>3. ASSUME NEW j \in Ids, Stored(j)
      PROVE  j < i /\ layouts[j].version < layouts'[i].version
  <2>1. j <= current /\ layouts[j].version <= layouts[current].version
    BY <1>3 DEF SerialInv, NewestInv
  <2>2. Stored(current)
    <3>1. current # 0
      BY <1>0, <2>1 DEF Ids, TypeOK
    <3>. QED  BY <3>1 DEF IInv, CurrentIsKept
  <2>3. r.cur.id = current /\ r.cur.version = layouts[current].version
    BY <1>2, <2>2 DEF Sight
  <2>4. layouts'[i].version = layouts[current].version + 1
    BY <1>1, <2>3 DEF NewRow
  <2>5. layouts[j].version \in Nat /\ layouts[current].version \in Nat /\ current \in Nat
    BY <1>0, <2>2 DEF TypeOK, Stored
  <2>. QED
    BY <1>0, <2>1, <2>3, <2>4, <2>5 DEF Ids
<1>4. NewestInv'
  <2>1. ASSUME NEW j \in Ids, Stored(j)'
        PROVE  j <= current' /\ layouts'[j].version <= layouts'[current'].version
    <3>1. layouts'[i].version \in Nat /\ layouts'[j].version \in Nat
      BY <1>0 DEF TypeOK
    <3>2. CASE j = i
      BY <1>0, <1>1, <3>1, <3>2 DEF Ids
    <3>3. CASE j # i
      <4>1. j < i /\ layouts'[j].version < layouts'[i].version
        BY <1>1, <1>3, <2>1, <3>3
      <4>. QED  BY <1>0, <1>1, <3>1, <4>1 DEF Ids
    <3>. QED  BY <3>2, <3>3
  <2>2. ASSUME NEW j \in Ids, NEW k \in Ids, Stored(j)', Stored(k)', j # k
        PROVE  layouts'[j].version # layouts'[k].version
    <3>1. /\ layouts'[j].version \in Nat /\ layouts'[k].version \in Nat
          /\ layouts'[i].version \in Nat
      BY <1>0 DEF TypeOK
    <3>2. CASE j # i /\ k # i
      BY <1>1, <2>2, <3>2 DEF SerialInv, NewestInv
    <3>3. CASE j = i
      <4>1. layouts'[k].version < layouts'[i].version
        BY <1>1, <1>3, <2>2, <3>3
      <4>. QED  BY <3>1, <3>3, <4>1
    <3>4. CASE k = i
      <4>1. layouts'[j].version < layouts'[i].version
        BY <1>1, <1>3, <2>2, <3>4
      <4>. QED  BY <3>1, <3>4, <4>1
    <3>. QED  BY <3>2, <3>3, <3>4
  <2>3. ASSUME NEW u \in Tabs, tab'[u].base.version # 0
        PROVE  /\ (Stored(tab[u].base.id))'
               /\ layouts'[tab'[u].base.id].version = tab'[u].base.version
    <3>1. tab' = tab
      BY DEF CommitCheckpoint
    <3>2. Stored(tab[u].base.id) /\ layouts[tab[u].base.id].version = tab[u].base.version
      BY <2>3, <3>1 DEF SerialInv, NewestInv
    <3>3. PICK b : b = tab[u].base.id
      OBVIOUS
    <3>4. b \in Ids /\ b # i /\ Stored(b)'
      BY <1>0, <1>1, <3>2, <3>3 DEF Stored
    <3>5. layouts'[b] = layouts[b]
      BY <1>1, <3>4
    <3>. QED  BY <3>1, <3>2, <3>3, <3>4, <3>5 DEF Stored
  <2>. QED  BY <2>1, <2>2, <2>3 DEF NewestInv
<1>5. WorkingViewClean'
  BY <1>1 DEF WorkingViewClean
<1>6. req'[t].op = r.op /\ req'[t].pc = "answer" /\ r.op \in Checkpoints
  BY <1>0, <1>1, CommittedType DEF Pending, NoSight, DraftSight
<1>7. FreshView(t)' /\ FreshDraft(t)'
  BY <1>6 DEF FreshView, FreshDraft, Pending, Checkpoints
<1>8. r.op # "idle"
  BY <1>6 DEF Checkpoints
<1>. QED
  BY <1>1, <1>4, <1>5, <1>7, <1>8, SerialFrame

\* The deletion of a device cleans the view that it has read, which is the current one.
LEMMA SerialDelete ==
  ASSUME IInv, SerialInv, NEW t \in Tabs, CommitDeleteDevice(t)
  PROVE  SerialInv'
<1>. DEFINE r == req[t]
<1>0. /\ r.op = "delete_device" /\ r.cur = Sight(current) /\ r.json = Document(current)
      /\ live' = live \ {r.device}
  BY DEF CommitDeleteDevice, SerialInv, FreshView
<1>1. /\ \A i \in Ids : layouts'[i].version = layouts[i].version
      /\ UNCHANGED <<current, history, tab>>
      /\ req'[t] = Idle /\ \A u \in Tabs : u # t => req'[u] = req[u]
  BY DeleteWrites DEF CommitDeleteDevice, IInv, TypeOK
<1>2. \A i : Stored(i)' = Stored(i) /\ Entered(i)' = Entered(i)
  BY <1>1 DEF Stored, Entered
<1>3. NewestInv'
  <2>1. \A i : Stored(i) => i \in Ids /\ layouts'[i].version = layouts[i].version
    BY <1>1 DEF Stored
  <2>2. \A i \in Ids : Stored(i) => Stored(current)
    <3>1. ASSUME NEW i \in Ids, Stored(i) PROVE Stored(current)
      <4>1. i <= current /\ current \in Nat
        BY <3>1 DEF SerialInv, NewestInv, IInv, TypeOK
      <4>. QED  BY <4>1 DEF IInv, CurrentIsKept, Ids
    <3>. QED  BY <3>1
  <2>. QED  BY <1>1, <1>2, <2>1, <2>2 DEF SerialInv, NewestInv
<1>4. WorkingViewClean'
  <2>1. SUFFICES ASSUME current # 0, ~Entered(current)
                 PROVE  layouts'[current].json \subseteq live'
    BY <1>1, <1>2 DEF WorkingViewClean
  <2>2. Stored(current) /\ layouts[current].json \subseteq live
    BY <2>1 DEF IInv, CurrentIsKept, SerialInv, WorkingViewClean
  <2>3. r.cur.id = current /\ r.json = layouts[current].json /\ current \in Ids
    BY <1>0, <2>2 DEF Sight, Document, Stored
  <2>4. CASE MustClean(r)
    <3>1. layouts' = [layouts EXCEPT ![current].json = r.json \ {r.device}]
      BY <2>3, <2>4 DEF CommitDeleteDevice
    <3>2. layouts'[current].json = r.json \ {r.device}
      BY <2>3, <3>1 DEF IInv, TypeOK
    <3>. QED  BY <1>0, <2>2, <2>3, <3>2
  <2>5. CASE ~MustClean(r)
    <3>1. layouts' = layouts
      BY <2>5 DEF CommitDeleteDevice
    <3>2. r.device \notin r.json
      BY <2>1, <2>3, <2>5 DEF MustClean
    <3>. QED  BY <1>0, <2>2, <2>3, <3>1, <3>2
  <2>. QED  BY <2>4, <2>5
<1>5. FreshView(t)' /\ FreshDraft(t)'
  BY <1>1, IdleIsFresh
<1>. QED
  BY <1>0, <1>1, <1>3, <1>4, <1>5, SerialFrame

\* Committing, and failing to.
LEMMA SerialWrite ==
  ASSUME IInv, TypeOK', SerialInv, NEW t \in Tabs, Write(t)
  PROVE  SerialInv'
<1>. DEFINE r == req[t]
<1>0. r \in RequestType /\ FreshView(t) /\ FreshDraft(t)
  BY DEF IInv, TypeOK, SerialInv
<1>1. CASE CreateDraft(t) \/ UpdateDraft(t)
  <2>1. req' = [req EXCEPT ![t] = Committed(r, DraftRead')] /\ r.op = "save_draft"
    BY <1>1 DEF CreateDraft, UpdateDraft, DraftRead
  <2>2. DraftRead' \in DraftSight
    BY DEF TypeOK, DraftRead, DraftSight
  <2>3. /\ req'[t] = Committed(r, DraftRead')
        /\ \A u \in Tabs : u # t => req'[u] = req[u]
    BY <2>1 DEF IInv, TypeOK
  <2>4. Committed(r, DraftRead').draft = DraftRead'
    BY DEF Committed, Idle
  <2>5. FreshView(t)' /\ FreshDraft(t)'
    BY <1>0, <2>1, <2>2, <2>3, <2>4, CommittedType
       DEF FreshView, FreshDraft, Pending, Checkpoints
  <2>6. UNCHANGED <<current, layouts, history, live, tab>>
    BY <1>1 DEF CreateDraft, UpdateDraft
  <2>7. req'[t].op = r.op
    BY <1>0, <2>2, <2>3, CommittedType
  <2>. QED
    BY <2>1, <2>3, <2>5, <2>6, <2>7, SerialReads
<1>2. CASE CommitDiscard(t)
  <2>1. /\ req'[t] = Committed(r, NoSight) /\ r.op = "discard"
        /\ \A u \in Tabs : u # t => req'[u] = req[u]
    BY <1>2 DEF CommitDiscard, IInv, TypeOK
  <2>2. NoSight \in DraftSight
    BY DEF NoSight, DraftSight
  <2>3. req'[t].op = r.op /\ req'[t].pc = "answer"
    BY <1>0, <2>1, <2>2, CommittedType
  <2>4. FreshView(t)' /\ FreshDraft(t)'
    BY <2>1, <2>3 DEF FreshView, FreshDraft, Pending, Checkpoints
  <2>5. UNCHANGED <<current, layouts, history, live, tab>>
    BY <1>2 DEF CommitDiscard
  <2>. QED
    BY <2>1, <2>3, <2>4, <2>5, SerialReads
<1>3. CASE FailSaveDraft(t)
  BY <1>3, SerialEnds DEF FailSaveDraft, Refuse, DbUnchanged, SerialInv, NewestInv
<1>. QED
  BY <1>1, <1>2, <1>3, SerialCommit, SerialDelete DEF Write

\* The tab learns what the database holds now.
LEMMA SerialRespond ==
  ASSUME IInv, SerialInv, NEW t \in Tabs, Respond(t)
  PROVE  SerialInv'
<1>1. /\ req[t].op # "idle" /\ req' = [req EXCEPT ![t] = Idle]
      /\ UNCHANGED <<current, layouts, history, live>>
  BY DEF Respond, AnswerCheckpoint, AnswerDraft, AnswerDiscard, Answer, DbUnchanged,
         Checkpoints
<1>2. ASSUME NEW u \in Tabs
      PROVE  tab'[u].base = tab[u].base \/ tab'[u].base = Sight(req[t].ticket)
  BY DEF Respond, AnswerCheckpoint, AnswerDraft, AnswerDiscard, Answer, IInv, TypeOK
<1>3. \A u \in Tabs : tab'[u].base.version # 0 =>
        /\ Stored(tab'[u].base.id)
        /\ layouts[tab'[u].base.id].version = tab'[u].base.version
  BY <1>2, SightSound DEF SerialInv, NewestInv
<1>. QED
  BY <1>1, <1>3, SerialEnds

LEMMA SerialInit == Init => SerialInv
<1>. SUFFICES ASSUME Init PROVE SerialInv
  OBVIOUS
<1>1. /\ \A t \in Tabs : req[t] = Idle /\ tab[t] = [base |-> NoSight, draft |-> NoSight]
      /\ \A i : ~Entered(i)
  BY DEF Init, Entered, NoEntry
<1>2. /\ \A i : Stored(i) => i = 1 /\ current = 1 /\ layouts[1].version = 1
      /\ current # 0 => layouts[current].json \subseteq live
  BY DEF Init, Stored, NoLayout, Ids
<1>3. OneAtATime /\ NewestInv /\ WorkingViewClean
  BY <1>1, <1>2 DEF OneAtATime, InFlight, Idle, NewestInv, NoSight, WorkingViewClean
<1>4. ASSUME NEW t \in Tabs PROVE FreshView(t) /\ FreshDraft(t)
  <2>1. req[t].op = "idle" /\ req[t].pc = "idle"
    BY <1>1 DEF Idle
  <2>. QED
    BY <1>1, <2>1 DEF FreshView, FreshDraft, Pending, Checkpoints
<1>. QED
  BY <1>3, <1>4 DEF SerialInv

LEMMA SerialNext ==
  ASSUME MaxInFlight = 1, IInv, TypeOK', GhostInv, SerialInv, [Next]_vars
  PROVE  SerialInv'
<1>1. CASE CreateDevice \/ UNCHANGED vars
  <2>1. UNCHANGED <<current, layouts, history, draft, tab, req>> /\ live \subseteq live'
    BY <1>1 DEF CreateDevice, vars
  <2>2. NewestInv' /\ WorkingViewClean'
    BY <2>1, ViewKept DEF SerialInv, NewestInv
  <2>3. /\ Sight(current)' = Sight(current) /\ Document(current)' = Document(current)
        /\ DraftRead' = DraftRead
    BY <2>1 DEF Sight, Document, Stored, DraftRead
  <2>4. ASSUME NEW t \in Tabs PROVE FreshView(t)'
    BY <2>1, <2>3 DEF SerialInv, FreshView, StaleBase
  <2>5. ASSUME NEW t \in Tabs PROVE FreshDraft(t)'
    BY <2>1, <2>3 DEF SerialInv, FreshDraft, Pending
  <2>6. OneAtATime'
    BY <2>1 DEF SerialInv, OneAtATime, InFlight
  <2>. QED
    BY <2>2, <2>4, <2>5, <2>6 DEF SerialInv
<1>2. ASSUME NEW t \in Tabs, Abandon(t) PROVE SerialInv'
  <2>1. req[t].op # "idle"
    BY <1>2 DEF Abandon, SerialInv, FreshView
  <2>. QED
    BY <1>2, <2>1, SerialEnds DEF Abandon, Refuse, DbUnchanged, SerialInv, NewestInv
<1>. QED
  BY <1>1, <1>2, SerialRequest, SerialRead, SerialWrite, SerialRespond DEF Next

\* Theorem: with one worker, what a request has read is still so when it writes.
THEOREM SerialCorrect ==
  ASSUME MaxInFlight = 1
  PROVE  Spec => []SerialInv
<1>1. Init => SerialInv
  BY SerialInit
<1>2. IInv /\ TypeOK' /\ GhostInv /\ SerialInv /\ [Next]_vars => SerialInv'
  BY SerialNext
<1>. QED
  BY <1>1, <1>2, Inductive, TypeCorrect, GhostsKept, PTL DEF Spec

\* Theorem: one at a time, versions are not handed out twice, the current
\* layout is the newest and the working view is clean.
THEOREM SerialHistoryCorrect ==
  ASSUME MaxInFlight = 1
  PROVE  Spec => []SerialHistoryHolds
<1>1. IInv /\ SerialInv => SerialHistoryHolds
  BY DEF IInv, BackedInv, SerialInv, NewestInv, SerialHistoryHolds, VersionUnique,
         CurrentIsNewest
<1>. QED
  BY <1>1, SerialCorrect, Inductive, PTL

\* A step changes what its own tab knows and asks, and that of no other.
LEMMA OwnStep ==
  ASSUME TypeOK, NEW u \in Tabs,
         Request(u) \/ Read(u) \/ Write(u) \/ Respond(u) \/ Abandon(u),
         NEW t \in Tabs, t # u
  PROVE  req'[t] = req[t] /\ tab'[t] = tab[t]
<1>. /\ req = [v \in Tabs |-> req[v]] /\ tab = [v \in Tabs |-> tab[v]]
  BY DEF TypeOK
<1>1. CASE Request(u)
  <2>1. ASSUME NEW q, Begin(u, q) PROVE req'[t] = req[t] /\ tab'[t] = tab[t]
    BY <2>1 DEF Begin
  <2>2. CASE BeginLoad(u) \/ BeginSaveDraft(u) \/ BeginDiscard(u) \/ BeginSaveVersion(u)
    BY <2>1, <2>2, Zenon DEF BeginLoad, BeginSaveDraft, BeginDiscard, BeginSaveVersion
  <2>3. CASE BeginRestore(u) \/ BeginRecreate(u) \/ BeginMap(u) \/ BeginDeleteDevice(u)
    BY <2>1, <2>3, Zenon DEF BeginRestore, BeginRecreate, BeginMap, BeginDeleteDevice
  <2>. QED
    BY <1>1, <2>2, <2>3, Zenon DEF Request
<1>2. CASE Read(u)
  <2>1. CASE \/ RefuseStaleBase(u) \/ RefuseNoCurrent(u) \/ RefuseStaleDraft(u)
             \/ RefuseNoEntry(u) \/ RefuseGhost(u)
    BY <2>1 DEF RefuseStaleBase, RefuseNoCurrent, RefuseStaleDraft, RefuseNoEntry,
                RefuseGhost, Refuse
  <2>2. CASE ReadCurrent(u)
    BY <2>2 DEF ReadCurrent
  <2>3. CASE FinishLoad(u) \/ NothingToDiscard(u)
    BY <2>3 DEF FinishLoad, NothingToDiscard
  <2>4. CASE ReadDraftToSave(u) \/ ReadDraftToDiscard(u)
    BY <2>4 DEF ReadDraftToSave, ReadDraftToDiscard
  <2>5. ASSUME NEW json, NEW read, NEW device, Compose(u, json, read, device)
        PROVE  req'[t] = req[t] /\ tab'[t] = tab[t]
    BY <2>5 DEF Compose
  <2>6. CASE ComposeSaveVersion(u) \/ ComposeRestore(u) \/ ComposeRecreate(u) \/ ComposeMap(u)
    BY <2>5, <2>6, Zenon DEF ComposeSaveVersion, ComposeRestore, ComposeRecreate, ComposeMap
  <2>. QED
    BY <1>2, <2>1, <2>2, <2>3, <2>4, <2>6, Zenon DEF Read
<1>3. CASE Write(u)
  <2>1. CASE CommitCheckpoint(u)
    BY <2>1 DEF CommitCheckpoint
  <2>2. CASE CreateDraft(u) \/ UpdateDraft(u)
    BY <2>2 DEF CreateDraft, UpdateDraft
  <2>3. CASE FailSaveDraft(u) \/ CommitDiscard(u) \/ CommitDeleteDevice(u)
    BY <2>3 DEF FailSaveDraft, Refuse, CommitDiscard, CommitDeleteDevice
  <2>. QED
    BY <1>3, <2>1, <2>2, <2>3, Zenon DEF Write
<1>4. CASE Respond(u) \/ Abandon(u)
  BY <1>4 DEF Respond, AnswerCheckpoint, AnswerDraft, AnswerDiscard, Answer, Abandon, Refuse
<1>. QED
  BY <1>1, <1>2, <1>3, <1>4

\* What changes for a tab, changes in a step of its own.
LEMMA ChangeIsOwn ==
  ASSUME IInv, [Next]_vars, NEW t \in Tabs, req'[t] # req[t] \/ tab'[t] # tab[t]
  PROVE  Request(t) \/ Read(t) \/ Write(t) \/ Respond(t) \/ Abandon(t)
<1>1. ~(CreateDevice \/ UNCHANGED vars)
  BY DEF CreateDevice, vars
<1>2. PICK u \in Tabs : Request(u) \/ Read(u) \/ Write(u) \/ Respond(u) \/ Abandon(u)
  BY <1>1 DEF Next
<1>. QED
  BY <1>2, OwnStep DEF IInv

\* The step in which an autosave is accepted writes the draft.
LEMMA AutosaveWrites ==
  ASSUME IInv, SerialInv, [Next]_vars, NEW t \in Tabs, Autosaves(t)
  PROVE  CreateDraft(t) \/ UpdateDraft(t)
<1>1. /\ req[t] # Idle /\ req[t].op = "save_draft" /\ req[t].pc = "write"
      /\ req'[t].pc = "answer" /\ req'[t] # req[t]
  BY DEF Autosaves, Idle
<1>2. ~Request(t)
  BY <1>1 DEF Request, BeginLoad, BeginSaveDraft, BeginDiscard, BeginSaveVersion,
     BeginRestore, BeginRecreate, BeginMap, BeginDeleteDevice, Begin
<1>3. ~Read(t)
  BY <1>1 DEF Read, ReadCurrent, RefuseStaleBase, RefuseNoCurrent, FinishLoad,
     ReadDraftToSave, RefuseStaleDraft, ReadDraftToDiscard, NothingToDiscard,
     ComposeSaveVersion, ComposeRestore, RefuseNoEntry, ComposeRecreate, ComposeMap,
     RefuseGhost
<1>4. ~Respond(t)
  BY <1>1 DEF Respond, AnswerCheckpoint, AnswerDraft, AnswerDiscard, Answer, Checkpoints
<1>5. ~(Abandon(t) \/ FailSaveDraft(t))
  <2>1. ~Refuse(t)
    BY <1>1 DEF Refuse, IInv, TypeOK, Idle
  <2>. QED
    BY <2>1 DEF Abandon, FailSaveDraft
<1>6. ~(CommitCheckpoint(t) \/ CommitDiscard(t) \/ CommitDeleteDevice(t))
  BY <1>1 DEF CommitCheckpoint, CommitDiscard, CommitDeleteDevice, Checkpoints
<1>. QED
  BY <1>1, <1>2, <1>3, <1>4, <1>5, <1>6, ChangeIsOwn DEF Write

\* The pointer moves to the ticket of a request when that request commits.
LEMMA CommitsCommits ==
  ASSUME IInv, SerialInv, [Next]_vars, NEW t \in Tabs, Commits(t)
  PROVE  CommitCheckpoint(t)
<1>1. PICK u \in Tabs : CommitCheckpoint(u)
  BY OtherSteps DEF Commits, CommitDeleteDevice
<1>2. u \in InFlight /\ t \in InFlight
  BY <1>1 DEF Commits, Pending, CommitCheckpoint, InFlight, Checkpoints
<1>. QED
  BY <1>1, <1>2 DEF SerialInv, OneAtATime

LEMMA AutosaveStep ==
  ASSUME IInv, SerialInv, [Next]_vars, NEW t \in Tabs, Autosaves(t), draft'.id = draft.id
  PROVE  draft'.version > draft.version
<1>1. req[t].draft = DraftRead /\ draft.version \in Nat
  BY DEF Autosaves, SerialInv, FreshDraft, IInv, TypeOK
<1>2. CASE CreateDraft(t)
  BY <1>2 DEF CreateDraft, IInv, TypeOK
<1>3. CASE UpdateDraft(t)
  BY <1>1, <1>3 DEF UpdateDraft, NextVersion, DraftRead
<1>. QED
  BY <1>2, <1>3, AutosaveWrites

LEMMA AnswerStep ==
  ASSUME IInv, SerialInv, [Next]_vars, NEW t \in Tabs,
         req[t].op = "save_draft", tab'[t] # tab[t]
  PROVE  tab'[t].draft = req[t].draft
<1>1. ~Request(t)
  <2>1. req[t] # Idle
    BY DEF Idle
  <2>. QED
    BY <2>1 DEF Request, BeginLoad, BeginSaveDraft, BeginDiscard, BeginSaveVersion,
       BeginRestore, BeginRecreate, BeginMap, BeginDeleteDevice, Begin
<1>2. ~Read(t)
  BY DEF Read, ReadCurrent, RefuseStaleBase, RefuseNoCurrent, FinishLoad,
     ReadDraftToSave, RefuseStaleDraft, ReadDraftToDiscard, NothingToDiscard,
     ComposeSaveVersion, ComposeRestore, RefuseNoEntry, ComposeRecreate, ComposeMap,
     RefuseGhost, Refuse, Checkpoints
<1>3. ~(Write(t) \/ Abandon(t))
  BY DEF Write, CommitCheckpoint, CreateDraft, UpdateDraft, FailSaveDraft, CommitDiscard,
     CommitDeleteDevice, Abandon, Refuse
<1>4. AnswerDraft(t)
  BY <1>1, <1>2, <1>3, ChangeIsOwn DEF Respond, AnswerCheckpoint, AnswerDiscard, Checkpoints
<1>5. req[t].draft = DraftRead
  BY <1>4 DEF AnswerDraft, Answer, SerialInv, FreshDraft
<1>6. tab'[t] = [tab[t] EXCEPT !.draft = DraftRead]
  BY <1>4 DEF AnswerDraft, Answer, IInv, TypeOK
<1>. QED
  BY <1>5, <1>6 DEF IInv, TypeOK

LEMMA DraftStep ==
  ASSUME IInv, SerialInv, [Next]_vars, NEW t \in Tabs, Commits(t), TypeOK',
         req[t].op = "save_version", ~req[t].sends, draft.id # 0
  PROVE  layouts'[current'].json = draft.json
<1>1. layouts'[current'] = NewRow(req[t])
  BY CommitsCommits, CommitWrites DEF Commits
<1>2. req[t].json = draft.json
  BY DEF Commits, SerialInv, FreshDraft
<1>. QED
  BY <1>1, <1>2 DEF NewRow

LEMMA BaseStep ==
  ASSUME IInv, SerialInv, [Next]_vars, NEW t \in Tabs, Commits(t), req[t].base # 0
  PROVE  current = tab[t].base.id
<1>1. req[t].base = tab[t].base.version /\ ~StaleBase(req[t], Sight(current))
  BY DEF Commits, Pending, SerialInv, FreshView
<1>2. PICK b : b = tab[t].base.id
  OBVIOUS
<1>3. Stored(b) /\ layouts[b].version = tab[t].base.version
  BY <1>1, <1>2 DEF SerialInv, NewestInv
<1>4. b \in Ids /\ b <= current /\ current \in Nat
  BY <1>3 DEF Stored, SerialInv, NewestInv, IInv, TypeOK
<1>5. current # 0 /\ Stored(current)
  BY <1>4 DEF Ids, IInv, CurrentIsKept
<1>6. layouts[current].version = req[t].base
  BY <1>1, <1>5 DEF StaleBase, Sight
<1>. QED
  BY <1>1, <1>2, <1>3, <1>5, <1>6 DEF SerialInv, NewestInv, Stored

LEMMA GhostStep ==
  ASSUME IInv, SerialInv, [Next]_vars, NEW t \in Tabs, Commits(t), TypeOK',
         req[t].op \in {"ghost_recreate", "ghost_map"}
  PROVE  /\ req[t].ghost \notin layouts'[current'].json
         /\ req[t].device \in layouts'[current'].json \cap live'
<1>1. layouts'[current'] = NewRow(req[t])
  BY CommitsCommits, CommitWrites DEF Commits
<1>2. /\ req[t].ghost \notin req[t].json /\ req[t].device \in req[t].json
      /\ req[t].op = "ghost_map" => req[t].device \in live
  BY DEF Commits, SerialInv, FreshDraft
<1>3. live' = IF req[t].op = "ghost_recreate" THEN live \cup {req[t].device} ELSE live
  BY CommitsCommits DEF CommitCheckpoint
<1>. QED
  BY <1>1, <1>2, <1>3 DEF NewRow

\* Theorem: one at a time, each accepted autosave has a version of its own,
\* the answer names it, and Save Version keeps the draft that it deletes.
THEOREM SerialDraftsCorrect ==
  ASSUME MaxInFlight = 1
  PROVE  Spec => SerialDraftsHold
<1>1. IInv /\ SerialInv /\ [Next]_vars =>
        [\A t \in Tabs : Autosaves(t) /\ draft'.id = draft.id
                          => draft'.version > draft.version]_vars
  BY AutosaveStep
<1>2. IInv /\ SerialInv /\ [Next]_vars =>
        [\A t \in Tabs : req[t].op = "save_draft" /\ tab'[t] # tab[t]
                          => tab'[t].draft = req[t].draft]_vars
  BY AnswerStep
<1>3. IInv /\ SerialInv /\ TypeOK' /\ [Next]_vars =>
        [\A t \in Tabs :
           /\ Commits(t) /\ req[t].op = "save_version" /\ ~req[t].sends
           /\ draft.id # 0 /\ draft'.id = 0
           => layouts'[current'].json = draft.json]_vars
  BY DraftStep
<1>4. Spec => DraftVersionAdvances
  BY <1>1, Inductive, SerialCorrect, PTL DEF Spec, DraftVersionAdvances
<1>5. Spec => AnswerNamesOwnDraft
  BY <1>2, Inductive, SerialCorrect, PTL DEF Spec, AnswerNamesOwnDraft
<1>6. Spec => DraftBecomesVersion
  BY <1>3, Inductive, TypeCorrect, SerialCorrect, PTL DEF Spec, DraftBecomesVersion
<1>. QED
  BY <1>4, <1>5, <1>6 DEF SerialDraftsHold

\* Theorem: one at a time, a checkpoint that quotes a version replaces the layout
\* that its tab has seen, and a reconciled ghost makes room for a live device.
THEOREM SerialCheckpointsCorrect ==
  ASSUME MaxInFlight = 1
  PROVE  Spec => SerialCheckpointsHold
<1>1. IInv /\ SerialInv /\ [Next]_vars =>
        [\A t \in Tabs :
           Commits(t) /\ req[t].base # 0 => current = tab[t].base.id]_vars
  BY BaseStep
<1>2. IInv /\ SerialInv /\ TypeOK' /\ [Next]_vars =>
        [\A t \in Tabs :
           /\ Commits(t) /\ req[t].op \in {"ghost_recreate", "ghost_map"}
           => /\ req[t].ghost \notin layouts'[current'].json
              /\ req[t].device \in layouts'[current'].json \cap live']_vars
  BY GhostStep
<1>3. Spec => CheckpointOnSeenBase
  BY <1>1, Inductive, SerialCorrect, PTL DEF Spec, CheckpointOnSeenBase
<1>4. Spec => ReconciledToLive
  BY <1>2, Inductive, TypeCorrect, SerialCorrect, PTL DEF Spec, ReconciledToLive
<1>. QED
  BY <1>3, <1>4 DEF SerialCheckpointsHold

=============================================================================
