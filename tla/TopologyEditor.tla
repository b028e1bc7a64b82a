--------------------------- MODULE TopologyEditor ---------------------------
(***************************************************************************)
(* The topology editor of Hometower: one topology, its layouts, its        *)
(* history of checkpoints and the personal draft of its owner, as the      *)
(* services topology_editor_history_service, topology_editor_draft_service *)
(* and topology_editor_ghost_service read and write them, together with    *)
(* the creation and deletion of devices (device_service).                  *)
(*                                                                         *)
(* Every HTTP request runs in a worker thread with a database session of   *)
(* its own at READ COMMITTED.  A handler issues several SELECTs, decides   *)
(* on what it read, and then writes in one transaction that appears at     *)
(* its COMMIT.  A request is therefore a little program of its own:        *)
(*   pc = "current"  the topology row was read (cur.id holds its pointer); *)
(*                   the current layout is read next                       *)
(*   pc = "draft"    the personal draft is read next                       *)
(*   pc = "source"   the history entry or the ghost is looked up next      *)
(*   pc = "write"    all that was read is in the record; the transaction   *)
(*                   commits next                                          *)
(*   pc = "answer"   it is committed; the session forgot its rows at the   *)
(*                   commit (expire_on_commit) and the answer reads them   *)
(*                   again.                                                *)
(* The rows of other topologies, of other owners and the columns that do   *)
(* not take part in a decision (names, tags, timestamps) are left out.     *)
(* A canvas document is the set of the devices drawn on it.                *)
(***************************************************************************)
EXTENDS Naturals, FiniteSets

CONSTANTS
  Tabs,             \* browser tabs (or scripts) of the owner, one request each
  Devices,          \* device ids
  InitialDevices,   \* devices in the inventory at the start
  Canvases,         \* documents a client may send
  NoDevice,         \* "no device" in a request that names none
  Offered,          \* operations the clients of this instance use
  MaxInFlight,      \* worker threads serving this topology at a time
  MaxId,            \* bound: layouts ever created
  MaxDraftId,       \* bound: draft rows ever created
  MaxDraftVersion   \* bound: autosaves of one draft row

ASSUME EditorAssumption ==
  /\ InitialDevices \subseteq Devices
  /\ Canvases \subseteq SUBSET Devices
  /\ NoDevice \notin Devices
  /\ MaxInFlight \in Nat \ {0}
  /\ MaxId \in Nat \ {0}
  /\ MaxDraftId \in Nat
  /\ MaxDraftVersion \in Nat

VARIABLES
  current,    \* topologies.current_diagram_id; 0 is NULL
  layouts,    \* diagram_layouts by id; version 0 means there is no such row
  history,    \* topology_history_entries by the id of the layout they keep
  draft,      \* topology_personal_drafts: at most one row; id 0 is none
  live,       \* the devices in the inventory
  used,       \* device ids ever handed out
  nextId,     \* next uuid: creation order, hence the order of created_at
  nextDraft,  \* next uuid of a draft row
  tab,        \* what each tab last learned from the server
  req         \* the request each tab has in flight

vars == <<current, layouts, history, draft, live, used, nextId, nextDraft,
          tab, req>>

-----------------------------------------------------------------------------
Ids == 1..MaxId

Checkpoints == {"save_version", "restore", "ghost_recreate", "ghost_map"}
Ops == Checkpoints \cup {"load", "save_draft", "discard", "delete_device"}

NoLayout  == [version |-> 0, json |-> {}]
NoEntry   == [action |-> "none", from |-> 0]
NoDraft   == [id |-> 0, version |-> 0, json |-> {}]
NoSight   == [id |-> 0, version |-> 0]

Idle == [op |-> "idle", pc |-> "idle", base |-> 0, sends |-> FALSE,
         json |-> {}, source |-> 0, ghost |-> NoDevice, device |-> NoDevice,
         cur |-> NoSight, draft |-> NoSight, ticket |-> 0]

Stored(i)  == i \in Ids /\ layouts[i].version > 0
Entered(i) == i \in Ids /\ history[i].action # "none"

\* The key and version of a row that was read: of a layout, of a draft.
LayoutSight == [id : 0..MaxId, version : Nat]
DraftSight  == [id : Nat, version : Nat]

\* A request: what the client asked for, and what the handler read so far.
\* json is the document it carries, sent by the client or copied from a row.
RequestType ==
  [op : Ops \cup {"idle"},
   pc : {"idle", "current", "draft", "source", "write", "answer"},
   base : Nat, sends : BOOLEAN, json : SUBSET Devices, source : 0..MaxId,
   ghost : Devices \cup {NoDevice}, device : Devices \cup {NoDevice},
   cur : LayoutSight, draft : DraftSight, ticket : 0..MaxId]

TypeOK ==
  /\ current \in 0..MaxId
  /\ layouts \in [Ids -> [version : Nat, json : SUBSET Devices]]
  /\ history \in [Ids -> [action : Checkpoints \cup {"none"}, from : 0..MaxId]]
  /\ draft \in [id : Nat, version : Nat, json : SUBSET Devices]
  /\ live \in SUBSET Devices
  /\ used \in SUBSET Devices
  /\ nextId \in Nat \ {0}
  /\ nextDraft \in Nat \ {0}
  /\ tab \in [Tabs -> [base : LayoutSight, draft : DraftSight]]
  /\ req \in [Tabs -> RequestType]

\* A topology starts empty, or with a view of the time before history
\* existed: a current layout that no entry keeps.
Init ==
  /\ live = InitialDevices
  /\ used = InitialDevices
  /\ history = [i \in Ids |-> NoEntry]
  /\ draft = NoDraft
  /\ nextDraft = 1
  /\ tab = [t \in Tabs |-> [base |-> NoSight, draft |-> NoSight]]
  /\ req = [t \in Tabs |-> Idle]
  /\ \/ /\ current = 0
        /\ nextId = 1
        /\ layouts = [i \in Ids |-> NoLayout]
     \/ \E c \in Canvases :
        /\ c \subseteq InitialDevices
        /\ current = 1
        /\ nextId = 2
        /\ layouts = [i \in Ids |-> IF i = 1 THEN [version |-> 1, json |-> c]
                                              ELSE NoLayout]

-----------------------------------------------------------------------------
\* resolve_current_diagram: the layout a pointer names, if it is still there.
Sight(i) == IF Stored(i)
            THEN [id |-> i, version |-> layouts[i].version] ELSE NoSight

\* its document; empty_canvas_json() when there is none
Document(i) == IF Stored(i) THEN layouts[i].json ELSE {}

(***************************************************************************)
(* Requests begin: a worker thread is free and the handler reads the       *)
(* topology row.  A tab quotes the version it last learned, 0 for none.    *)
(***************************************************************************)
InFlight == {t \in Tabs : req[t].op # "idle"}

Sent == {c \in Canvases : c \subseteq used}

Begin(t, request) ==
  /\ req[t] = Idle
  /\ request.op \in Offered
  /\ Cardinality(InFlight) < MaxInFlight
  /\ req' = [req EXCEPT ![t] = request]
  /\ UNCHANGED <<current, layouts, history, draft, live, used, nextId,
                 nextDraft, tab>>

New(op) == [Idle EXCEPT !.op = op, !.pc = "current", !.cur.id = current]

BeginLoad(t) == Begin(t, New("load"))

\* save_personal_draft reads the current layout for its answer only.
BeginSaveDraft(t) ==
  \E c \in Sent :
    Begin(t, [New("save_draft") EXCEPT !.base = tab[t].draft.version,
                                       !.json = c, !.pc = "draft"])

\* discard_personal_draft does not read the current layout.
BeginDiscard(t) == Begin(t, [New("discard") EXCEPT !.pc = "draft"])

\* The canvas document is optional in save_version: the toolbar sends the
\* canvas, the leave guard sends none while there is no canvas on the page.
BeginSaveVersion(t) ==
  LET new == [New("save_version") EXCEPT !.base = tab[t].base.version]
  IN \/ Begin(t, new)
     \/ \E c \in Sent : Begin(t, [new EXCEPT !.sends = TRUE, !.json = c])

BeginRestore(t) ==
  \E i \in Ids :
    /\ i < nextId
    /\ Begin(t, [New("restore") EXCEPT !.base = tab[t].base.version,
                                       !.source = i])

BeginRecreate(t) ==
  \E g \in used :
    Begin(t, [New("ghost_recreate") EXCEPT !.base = tab[t].base.version,
                                           !.ghost = g])

BeginMap(t) ==
  \E g, d \in used :
    Begin(t, [New("ghost_map") EXCEPT !.base = tab[t].base.version,
                                      !.ghost = g, !.device = d])

\* device_service.delete reads the current layouts and which of them history
\* keeps before it deletes anything.
BeginDeleteDevice(t) ==
  \E d \in live :
    Begin(t, [New("delete_device") EXCEPT !.pc = "write", !.device = d,
              !.cur = Sight(current), !.json = Document(current)])

-----------------------------------------------------------------------------
(***************************************************************************)
(* Reading.  A request that is refused (404, 409) ends without a write.    *)
(***************************************************************************)
DbUnchanged == UNCHANGED <<current, layouts, history, draft, live, nextDraft>>

Refuse(t) ==
  /\ req' = [req EXCEPT ![t] = Idle]
  /\ DbUnchanged
  /\ UNCHANGED <<used, nextId, tab>>

\* Variant: only a base newer than the current version is refused.
StaleBaseNewerOnly(r, c) == c.id # 0 /\ r.base > c.version

StaleBase(r, c) == c.id # 0 /\ r.base # 0 /\ r.base # c.version

NextRead(op) == IF op \in {"restore", "ghost_recreate", "ghost_map"}
                THEN "source" ELSE "draft"

ReadCurrent(t) ==
  LET r == req[t]
      c == Sight(r.cur.id)
  IN /\ r.pc = "current"
     /\ r.op \in Checkpoints => ~StaleBase(r, c)
     /\ r.op \in {"ghost_recreate", "ghost_map"} => c.id # 0
     /\ req' = [req EXCEPT ![t].cur = c, ![t].pc = NextRead(r.op),
                           ![t].json = IF r.sends THEN r.json
                                       ELSE Document(r.cur.id)]
     /\ DbUnchanged
     /\ UNCHANGED <<used, nextId, tab>>

\* 409 "topology version is stale"
RefuseStaleBase(t) ==
  LET r == req[t]
  IN /\ r.pc = "current"
     /\ r.op \in Checkpoints
     /\ StaleBase(r, Sight(r.cur.id))
     /\ Refuse(t)

\* 404 "Current topology snapshot not found"
RefuseNoCurrent(t) ==
  LET r == req[t]
  IN /\ r.pc = "current"
     /\ r.op \in {"ghost_recreate", "ghost_map"}
     /\ Sight(r.cur.id).id = 0
     /\ Refuse(t)

DraftRead == [id |-> draft.id, version |-> draft.version]

\* get_editor_state ends: the tab learns the versions its next writes quote.
FinishLoad(t) ==
  LET r == req[t]
  IN /\ r.op = "load" /\ r.pc = "draft"
     /\ tab' = [tab EXCEPT ![t] =
                  [base |-> r.cur, draft |-> DraftRead]]
     /\ req' = [req EXCEPT ![t] = Idle]
     /\ DbUnchanged
     /\ UNCHANGED <<used, nextId>>

StaleDraft(r) == draft.id # 0 /\ r.base # 0 /\ r.base # draft.version

ReadDraftToSave(t) ==
  LET r == req[t]
  IN /\ r.op = "save_draft" /\ r.pc = "draft"
     /\ ~StaleDraft(r)
     /\ req' = [req EXCEPT ![t].draft = DraftRead, ![t].pc = "write"]
     /\ DbUnchanged
     /\ UNCHANGED <<used, nextId, tab>>

\* 409 "personal draft was modified by another request"
RefuseStaleDraft(t) ==
  LET r == req[t]
  IN /\ r.op = "save_draft" /\ r.pc = "draft"
     /\ StaleDraft(r)
     /\ Refuse(t)

ReadDraftToDiscard(t) ==
  /\ req[t].op = "discard" /\ req[t].pc = "draft"
  /\ draft.id # 0
  /\ req' = [req EXCEPT ![t].draft = DraftRead, ![t].pc = "write"]
  /\ DbUnchanged
  /\ UNCHANGED <<used, nextId, tab>>

NothingToDiscard(t) ==
  /\ req[t].op = "discard" /\ req[t].pc = "draft"
  /\ draft.id = 0
  /\ tab' = [tab EXCEPT ![t].draft = NoSight]
  /\ req' = [req EXCEPT ![t] = Idle]
  /\ DbUnchanged
  /\ UNCHANGED <<used, nextId>>

-----------------------------------------------------------------------------
(***************************************************************************)
(* A checkpoint is composed: its document is chosen from what was read and *)
(* the new rows get their uuid and created_at.  nextId stands for both, so *)
(* ids are in the order of created_at, and not in the order of commits.    *)
(***************************************************************************)
Compose(t, json, read, device) ==
  /\ nextId \in Ids
  /\ req' = [req EXCEPT ![t].json = json, ![t].draft = read,
                        ![t].device = device,
                        ![t].ticket = nextId, ![t].pc = "write"]
  /\ nextId' = nextId + 1
  /\ DbUnchanged
  /\ UNCHANGED tab

\* Variant: the draft is passed over in favour of the current layout.
SourceJsonNoDraft(r) == r.json

\* The document sent, else the draft, else the current layout.
SourceJson(r) == IF ~r.sends /\ draft.id # 0 THEN draft.json ELSE r.json

ComposeSaveVersion(t) ==
  /\ req[t].op = "save_version" /\ req[t].pc = "draft"
  /\ Compose(t, SourceJson(req[t]), DraftRead, NoDevice)
  /\ UNCHANGED used

\* Variant: the document of the current layout is copied.
ComposeRestoreOfCurrent(t) ==
  LET r == req[t]
  IN /\ r.op = "restore" /\ r.pc = "source"
     /\ Entered(r.source) /\ Stored(r.source)
     /\ Compose(t, r.json, NoSight, NoDevice)
     /\ UNCHANGED used

ComposeRestore(t) ==
  LET r == req[t]
  IN /\ r.op = "restore" /\ r.pc = "source"
     /\ Entered(r.source) /\ Stored(r.source)
     /\ Compose(t, layouts[r.source].json, NoSight, NoDevice)
     /\ UNCHANGED used

\* 404 "History entry not found", "History snapshot not found"
RefuseNoEntry(t) ==
  LET r == req[t]
  IN /\ r.op = "restore" /\ r.pc = "source"
     /\ ~(Entered(r.source) /\ Stored(r.source))
     /\ Refuse(t)

\* replace_ghost_with_live_device
Replaced(json, ghost, device) == (json \ {ghost}) \cup {device}

IsGhost(r) == r.ghost \notin live /\ r.ghost \in r.json

\* Variant: the deleted device gets its old id back.
ComposeRecreateSameId(t) ==
  LET r == req[t]
  IN /\ r.op = "ghost_recreate" /\ r.pc = "source"
     /\ IsGhost(r)
     /\ Compose(t, r.json, NoSight, r.ghost)
     /\ UNCHANGED used

ComposeRecreate(t) ==
  LET r == req[t]
  IN /\ r.op = "ghost_recreate" /\ r.pc = "source"
     /\ IsGhost(r)
     /\ \E d \in Devices \ used :
          /\ used' = used \cup {d}
          /\ Compose(t, Replaced(r.json, r.ghost, d), NoSight, d)

\* Variant: the target is not looked up in the inventory.
ComposeMapUnchecked(t) ==
  LET r == req[t]
  IN /\ r.op = "ghost_map" /\ r.pc = "source"
     /\ IsGhost(r)
     /\ Compose(t, Replaced(r.json, r.ghost, r.device), NoSight, r.device)
     /\ UNCHANGED used

ComposeMap(t) ==
  LET r == req[t]
  IN /\ r.op = "ghost_map" /\ r.pc = "source"
     /\ r.device \in live
     /\ IsGhost(r)
     /\ Compose(t, Replaced(r.json, r.ghost, r.device), NoSight, r.device)
     /\ UNCHANGED used

\* 409 "Device still exists", 404 "Ghost placeholder / Target device not found"
RefuseGhost(t) ==
  LET r == req[t]
  IN /\ r.op \in {"ghost_recreate", "ghost_map"} /\ r.pc = "source"
     /\ ~IsGhost(r) \/ (r.op = "ghost_map" /\ r.device \notin live)
     /\ Refuse(t)

-----------------------------------------------------------------------------
(***************************************************************************)
(* Writing: the transaction commits.  The handler keeps the keys of the    *)
(* rows it wrote, for its answer.                                          *)
(***************************************************************************)
Committed(r, row) == [Idle EXCEPT !.op = r.op, !.pc = "answer",
                                  !.ticket = r.ticket, !.draft = row]

\* Variants: the version is counted down, counted twice, or taken over from
\* the restored layout.
NewRowDown(r)  == [version |-> r.cur.version - 1, json |-> r.json]
NewRowTwice(r) == [version |-> r.cur.version + 2, json |-> r.json]
NewRowOfSource(r) ==
  [version |-> IF r.op = "restore" THEN layouts[r.source].version
               ELSE r.cur.version + 1,
   json |-> r.json]

\* Variant: a restore leaves no entry.
EntryOfRestoreMissing(r) == IF r.op = "restore" THEN NoEntry
                            ELSE [action |-> r.op, from |-> r.source]

\* Variant: a restore moves the pointer back to the restored layout.
PointerBack(r) == IF r.op = "restore" THEN r.source ELSE r.ticket

\* _next_immutable_diagram_version: no current layout counts as version 0.
NewRow(r) == [version |-> r.cur.version + 1, json |-> r.json]

EntryOf(r) == [action |-> r.op, from |-> r.source]

PointerAfter(r) == r.ticket

\* save_version deletes the draft row it read; restore and the ghost actions
\* look the draft up again inside the transaction.
DraftAfter(r) == IF r.op = "save_version" /\ draft.id # r.draft.id
                 THEN draft ELSE NoDraft

SourceLives(r) == r.op = "restore" => Entered(r.source)

CommitCheckpoint(t) ==
  LET r == req[t]
      i == r.ticket
  IN /\ r.pc = "write" /\ r.op \in Checkpoints
     /\ SourceLives(r)
     /\ layouts' = [layouts EXCEPT ![i] = NewRow(r)]
     /\ history' = [history EXCEPT ![i] = EntryOf(r)]
     /\ current' = PointerAfter(r)
     /\ draft' = DraftAfter(r)
     /\ live' = IF r.op = "ghost_recreate" THEN live \cup {r.device} ELSE live
     /\ req' = [req EXCEPT ![t] = Committed(r, NoSight)]
     /\ UNCHANGED <<used, nextId, nextDraft, tab>>

\* Variant: no unique constraint on (topology, user).
CreateDraftUnchecked(t) ==
  LET r == req[t]
  IN /\ r.op = "save_draft" /\ r.pc = "write"
     /\ r.draft.id = 0
     /\ nextDraft <= MaxDraftId
     /\ draft' = [id |-> nextDraft, version |-> 1, json |-> r.json]
     /\ nextDraft' = nextDraft + 1
     /\ req' = [req EXCEPT ![t] =
                  Committed(r, [id |-> nextDraft, version |-> 1])]
     /\ UNCHANGED <<current, layouts, history, live, used, nextId, tab>>

CreateDraft(t) ==
  LET r == req[t]
  IN /\ r.op = "save_draft" /\ r.pc = "write"
     /\ r.draft.id = 0 /\ draft.id = 0
     /\ nextDraft <= MaxDraftId
     /\ draft' = [id |-> nextDraft, version |-> 1, json |-> r.json]
     /\ nextDraft' = nextDraft + 1
     /\ req' = [req EXCEPT ![t] =
                  Committed(r, [id |-> nextDraft, version |-> 1])]
     /\ UNCHANGED <<current, layouts, history, live, used, nextId, tab>>

\* Variant: the version is not counted.
NextVersionSame(seen) == seen.version

NextVersion(seen) == seen.version + 1

\* UPDATE ... SET version = <the version read> + 1 WHERE id = <the row read>
UpdateDraft(t) ==
  LET r == req[t]
      v == NextVersion(r.draft)
  IN /\ r.op = "save_draft" /\ r.pc = "write"
     /\ r.draft.id # 0 /\ draft.id = r.draft.id
     /\ v <= MaxDraftVersion
     /\ draft' = [id |-> draft.id, version |-> v, json |-> r.json]
     /\ req' = [req EXCEPT ![t] =
                  Committed(r, [id |-> draft.id, version |-> v])]
     /\ UNCHANGED <<current, layouts, history, live, used, nextId, nextDraft,
                    tab>>

\* The unique constraint refuses the INSERT (409), or the UPDATE matches no
\* row (StaleDataError, 500).
FailSaveDraft(t) ==
  LET r == req[t]
  IN /\ r.op = "save_draft" /\ r.pc = "write"
     /\ draft.id # r.draft.id
     /\ Refuse(t)

\* A DELETE that matches no row is only a warning.
CommitDiscard(t) ==
  LET r == req[t]
  IN /\ r.op = "discard" /\ r.pc = "write"
     /\ draft' = IF draft.id = r.draft.id THEN NoDraft ELSE draft
     /\ req' = [req EXCEPT ![t] = Committed(r, NoSight)]
     /\ UNCHANGED <<current, layouts, history, live, used, nextId, nextDraft,
                    tab>>

\* _clean_device_from_views: the layout that was current is rewritten from
\* the document that was read, unless history keeps it; its version stays.
\* Variants: history is cleaned as well, or instead.
MustCleanAll(r)     == r.cur.id # 0 /\ r.device \in r.json
MustCleanHistory(r) == /\ r.cur.id # 0 /\ Entered(r.cur.id)
                       /\ r.device \in r.json

MustClean(r) == /\ r.cur.id # 0 /\ ~Entered(r.cur.id)
                /\ r.device \in r.json

CommitDeleteDevice(t) ==
  LET r == req[t]
  IN /\ r.op = "delete_device" /\ r.pc = "write"
     /\ MustClean(r) => Stored(r.cur.id)
     /\ layouts' = IF MustClean(r)
                   THEN [layouts EXCEPT ![r.cur.id].json =
                                           r.json \ {r.device}]
                   ELSE layouts
     /\ live' = live \ {r.device}
     /\ req' = [req EXCEPT ![t] = Idle]
     /\ UNCHANGED <<current, history, draft, used, nextId, nextDraft, tab>>

\* device_service.create
CreateDevice ==
  \E d \in Devices \ used :
    /\ live' = live \cup {d}
    /\ used' = used \cup {d}
    /\ UNCHANGED <<current, layouts, history, draft, nextId, nextDraft, tab,
                   req>>

(***************************************************************************)
(* Answering: the response is built from rows that are read again.         *)
(***************************************************************************)
Answer(t, seen) ==
  /\ req[t].pc = "answer"
  /\ req' = [req EXCEPT ![t] = Idle]
  /\ tab' = [tab EXCEPT ![t] = seen]
  /\ DbUnchanged
  /\ UNCHANGED <<used, nextId>>

AnswerCheckpoint(t) ==
  LET i == req[t].ticket
  IN /\ req[t].op \in Checkpoints
     /\ Stored(i)
     /\ Answer(t, [base |-> Sight(i), draft |-> NoSight])

\* Variant: a draft that is stored is answered as if it were new.
AnswerDraftAsNew(t) ==
  /\ req[t].op = "save_draft"
  /\ draft.id = req[t].draft.id
  /\ Answer(t, [tab[t] EXCEPT !.draft = [id |-> draft.id, version |-> 1]])

AnswerDraft(t) ==
  /\ req[t].op = "save_draft"
  /\ draft.id = req[t].draft.id
  /\ Answer(t, [tab[t] EXCEPT !.draft = DraftRead])

AnswerDiscard(t) ==
  /\ req[t].op = "discard"
  /\ Answer(t, [tab[t] EXCEPT !.draft = NoSight])

\* The client hangs up, the worker dies, the database connection is lost or a
\* foreign key is violated: what is not committed is rolled back.  After the
\* commit the answer is lost, or the row it reads again is gone (500).
Abandon(t) == req[t] # Idle /\ Refuse(t)

-----------------------------------------------------------------------------
Request(t) ==
  \/ BeginLoad(t) \/ BeginSaveDraft(t) \/ BeginDiscard(t)
  \/ BeginSaveVersion(t) \/ BeginRestore(t)
  \/ BeginRecreate(t) \/ BeginMap(t) \/ BeginDeleteDevice(t)

Read(t) ==
  \/ ReadCurrent(t) \/ RefuseStaleBase(t) \/ RefuseNoCurrent(t)
  \/ FinishLoad(t)
  \/ ReadDraftToSave(t) \/ RefuseStaleDraft(t)
  \/ ReadDraftToDiscard(t) \/ NothingToDiscard(t)
  \/ ComposeSaveVersion(t)
  \/ ComposeRestore(t) \/ RefuseNoEntry(t)
  \/ ComposeRecreate(t) \/ ComposeMap(t) \/ RefuseGhost(t)

Write(t) ==
  \/ CommitCheckpoint(t)
  \/ CreateDraft(t) \/ UpdateDraft(t) \/ FailSaveDraft(t)
  \/ CommitDiscard(t) \/ CommitDeleteDevice(t)

Respond(t) == AnswerCheckpoint(t) \/ AnswerDraft(t) \/ AnswerDiscard(t)

Next ==
  \/ CreateDevice
  \/ \E t \in Tabs :
       Request(t) \/ Read(t) \/ Write(t) \/ Respond(t) \/ Abandon(t)

Spec == Init /\ [][Next]_vars

-----------------------------------------------------------------------------
(***************************************************************************)
(* Properties of every interleaving.                                       *)
(***************************************************************************)

\* The pointer names a stored layout, and once history has an entry the
\* current layout is one that history keeps: no interleaving of checkpoints,
\* device deletions and failures leaves the editor on a view outside history.
CurrentIsKept ==
  /\ current # 0 => Stored(current)
  /\ (\E i \in Ids : Entered(i)) => Entered(current)

\* Every layout of version n + 1 was made from an older layout of version n:
\* versions come without gaps although _next_immutable_diagram_version counts
\* from whatever the request happened to read.
VersionChain ==
  \A i \in Ids : layouts[i].version > 1 =>
    \E j \in Ids : j < i /\ layouts[i].version = layouts[j].version + 1

\* A restored version shows what the entry it names shows, now and ever
\* after: restore_history_entry copies the document, and neither it nor the
\* cleaning of a deleted device from the views touches the original.
RestoreFaithful ==
  \A i \in Ids : history[i].action = "restore" =>
    /\ Entered(history[i].from) /\ history[i].from < i
    /\ layouts[i].json = layouts[history[i].from].json

\* Entries and the documents they keep never change and never go away.
HistoryAppendOnly ==
  [][\A i \in Ids : Entered(i) => /\ history'[i] = history[i]
                                  /\ layouts'[i] = layouts[i]]_vars

\* The draft row of the owner is never replaced by another row in one step,
\* and a row that was deleted does not come back: the unique constraint stops
\* a second INSERT, and an UPDATE of a deleted row writes nothing.
DraftRowNotReplaced ==
  [][draft'.id # draft.id =>
       draft'.id = 0 \/ (draft.id = 0 /\ draft'.id >= nextDraft)]_vars

\* No checkpoint brings the id of a deleted device back to life: a restored
\* version shows a ghost, and recreating the ghost makes a device with a new
\* id.  (Undoing a delete on the canvas, canvas_undo_service, does bring it
\* back; that service is not part of this module.)
DeletedStaysDeleted ==
  [][\A d \in used \ live : d \in live' =>
       \E t \in Tabs : /\ req[t].op = "ghost_recreate"
                       /\ req[t].device = d
                       /\ req[t].ghost # d]_vars

-----------------------------------------------------------------------------
(***************************************************************************)
(* The history is an append-only log of snapshots.                         *)
(***************************************************************************)
LogOf(i) == IF Entered(i)
            THEN [kept |-> TRUE, from |-> history[i].from,
                  json |-> layouts[i].json]
            ELSE [kept |-> FALSE, from |-> 0, json |-> {}]

LogMap  == [i \in Ids |-> LogOf(i)]
LogHead == IF Entered(current) THEN current ELSE 0

Log == INSTANCE SnapshotLog WITH log <- LogMap, head <- LogHead

\* Whatever requests overlap, history is an append-only log: the editor
\* implements SnapshotLog.
ImplementsLog == Log!Spec

(***************************************************************************)
(* Why: the inductive invariant.                                           *)
(***************************************************************************)
Pending(t) == req[t].op \in Checkpoints /\ req[t].pc = "write"

\* Ids are handed out once.  Rows have ids below nextId, and the ticket of a
\* checkpoint that is not committed yet is the id of no row and no other
\* checkpoint.
TicketInv ==
  /\ \A i \in Ids : Stored(i) \/ Entered(i) => i < nextId
  /\ \A t \in Tabs : Pending(t) =>
       /\ req[t].ticket \in Ids /\ req[t].ticket < nextId
       /\ ~Stored(req[t].ticket) /\ ~Entered(req[t].ticket)
       /\ \A u \in Tabs : Pending(u) /\ u # t => req[u].ticket # req[t].ticket

\* An entry has its layout.
BackedInv == \A i \in Ids : Entered(i) => Stored(i)

\* A layout that a request has read is still there, at the version it read.
SightInv ==
  \A t \in Tabs :
    LET r == req[t]
    IN /\ r.cur.id # 0 => Stored(r.cur.id)
       /\ r.op \in Checkpoints /\ r.pc # "current" /\ r.cur.version # 0 =>
            Stored(r.cur.id) /\ layouts[r.cur.id].version = r.cur.version
       /\ Pending(t) => r.cur.id < r.ticket

\* A restore that is about to commit carries the document of an entry, and
\* the recreation of a ghost its new device.
CarriedInv ==
  \A t \in Tabs :
    LET r == req[t]
    IN /\ r.op # "restore" => r.source = 0
       /\ Pending(t) /\ r.op = "restore" =>
            /\ Entered(r.source) /\ r.source < r.ticket
            /\ r.json = layouts[r.source].json
       /\ Pending(t) /\ r.op = "ghost_recreate" => r.device \in Devices

IInv ==
  /\ TypeOK
  /\ TicketInv /\ BackedInv /\ SightInv /\ CarriedInv
  /\ CurrentIsKept /\ VersionChain /\ RestoreFaithful

\* The ghost that a request recreates had an id, and the device that is to
\* take its place has another one.
GhostInv ==
  \A t \in Tabs :
    LET r == req[t]
    IN r.op = "ghost_recreate" /\ r.pc # "answer" =>
         r.ghost \in used /\ (r.pc = "write" => r.device # r.ghost)

-----------------------------------------------------------------------------
(***************************************************************************)
(* Properties the services keep when requests are served one at a time,    *)
(* and lose when two overlap: each check reads, and a later statement      *)
(* writes, without a lock on the row that was checked.                     *)
(***************************************************************************)

\* A version number names one checkpoint of the topology.
VersionUnique ==
  \A i, j \in Ids : Entered(i) /\ Entered(j) /\ i # j =>
    layouts[i].version # layouts[j].version

\* The current layout is the newest entry of the history drawer, which lists
\* entries by created_at.
CurrentIsNewest ==
  \A i \in Ids : Entered(i) => i <= current

Commits(t) == Pending(t) /\ current' # current /\ current' = req[t].ticket

\* A checkpoint that quotes a base version replaces the very layout its tab
\* had loaded: the conflict check lets no unseen version be superseded.
CheckpointOnSeenBase ==
  [][\A t \in Tabs :
       Commits(t) /\ req[t].base # 0 => current = tab[t].base.id]_vars

\* The autosave that req[t] carries is accepted.
Autosaves(t) == /\ req[t].op = "save_draft" /\ req[t].pc = "write"
                /\ req'[t].pc = "answer"

\* Each accepted autosave of a draft row gets a version of its own.
DraftVersionAdvances ==
  [][\A t \in Tabs : Autosaves(t) /\ draft'.id = draft.id
                       => draft'.version > draft.version]_vars

\* Does not hold, even one at a time: an autosave that quotes a version overwrites
\* the very draft its tab saw.
DraftOverwritesSeen ==
  [][\A t \in Tabs :
       Autosaves(t) /\ req[t].base # 0 /\ draft.id # 0
       => tab[t].draft = [id |-> draft.id, version |-> draft.version]]_vars

\* The answer to an autosave names the version that autosave wrote: a tab
\* never takes the write of another tab for its own.
AnswerNamesOwnDraft ==
  [][\A t \in Tabs :
       req[t].op = "save_draft" /\ tab'[t] # tab[t]
         => tab'[t].draft = req[t].draft]_vars

\* When Save Version sends no document, the draft it deletes is what the new
\* version shows: no autosaved work disappears.
DraftBecomesVersion ==
  [][\A t \in Tabs :
       /\ Commits(t) /\ req[t].op = "save_version" /\ ~req[t].sends
       /\ draft.id # 0 /\ draft'.id = 0
       => layouts'[current'].json = draft.json]_vars

\* Reconciling a ghost leaves it off the new current layout, which shows a
\* device of the inventory in its place.
ReconciledToLive ==
  [][\A t \in Tabs :
       /\ Commits(t) /\ req[t].op \in {"ghost_recreate", "ghost_map"}
       => /\ req[t].ghost \notin layouts'[current'].json
          /\ req[t].device \in layouts'[current'].json \cap live']_vars

\* A view that history does not keep shows no deleted device.
WorkingViewClean ==
  current # 0 /\ ~Entered(current) => layouts[current].json \subseteq live
\* With one request at a time history has one entry of each version, shows the
\* current layout first, and the working view shows no deleted device
\* (topology_editor_history_service.py, device_service.py).
SerialHistoryHolds == VersionUnique /\ CurrentIsNewest /\ WorkingViewClean

\* With one request at a time an autosave is never mistaken for that of another
\* tab, and Save Version loses none (topology_editor_draft_service.py).
SerialDraftsHold == DraftVersionAdvances /\ AnswerNamesOwnDraft /\ DraftBecomesVersion

\* With one request at a time a checkpoint replaces the layout that its tab has
\* seen, and one that reconciles a ghost shows a device of the inventory
\* (topology_editor_history_service.py, topology_editor_ghost_service.py).
SerialCheckpointsHold == CheckpointOnSeenBase /\ ReconciledToLive

(***************************************************************************)
(* Why: what a request has read is still so when it writes.                *)
(***************************************************************************)
OneAtATime == \A t, u \in InFlight : t = u

\* Ids and versions of layouts count up together, so that a version names one
\* layout and the current one is the newest; a tab has seen what it quotes.
NewestInv ==
  /\ \A i \in Ids : Stored(i) =>
       i <= current /\ layouts[i].version <= layouts[current].version
  /\ \A i, j \in Ids : Stored(i) /\ Stored(j) /\ i # j =>
       layouts[i].version # layouts[j].version
  /\ \A t \in Tabs : LET base == tab[t].base
                    IN  base.version # 0 =>
                          Stored(base.id) /\ layouts[base.id].version = base.version

\* The layout that a request has read is the current one.
FreshView(t) ==
  LET r == req[t]
  IN /\ r.op = "idle" => r = Idle
     /\ r.pc = "current" => r.cur.id = current
     /\ r.op \in Checkpoints \cup {"load"} /\ r.pc \in {"draft", "source", "write"} =>
          r.cur = Sight(current)
     /\ r.op = "delete_device" =>
          r.pc = "write" /\ r.cur = Sight(current) /\ r.json = Document(current)
     /\ r.op \in Checkpoints /\ r.pc # "answer" =>
          /\ r.base = tab[t].base.version
          /\ r.pc # "current" => ~StaleBase(r, Sight(current))

\* So is the draft, and a checkpoint carries the document it is meant to keep.
FreshDraft(t) ==
  LET r == req[t]
  IN /\ r.op = "save_draft" /\ r.pc \in {"write", "answer"} => r.draft = DraftRead
     /\ Pending(t) /\ r.op = "save_version" /\ ~r.sends /\ draft.id # 0 =>
          r.json = draft.json
     /\ Pending(t) /\ r.op \in {"ghost_recreate", "ghost_map"} =>
          /\ r.ghost \notin r.json /\ r.device \in r.json
          /\ r.op = "ghost_map" => r.device \in live

SerialInv ==
  /\ OneAtATime /\ NewestInv /\ WorkingViewClean
  /\ \A t \in Tabs : FreshView(t) /\ FreshDraft(t)
=============================================================================
