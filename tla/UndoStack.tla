------------------------------- MODULE UndoStack -------------------------------
(***************************************************************************)
(* Undo and redo in the topology page: two stacks in the browser, entries  *)
(* that it replays itself, and entries that the server replays for it.     *)
(* Such a request has three steps: the browser asks, the server commits,   *)
(* the answer changes the graph and the stacks.  Meanwhile the user may    *)
(* move nodes and replay what needs no server, and other users may write.  *)
(* The canvas shows the devices; one connection may join the two.          *)
(***************************************************************************)
EXTENDS Naturals, Sequences, FiniteSets

CONSTANTS CanvasDevices, Links,   \* devices, ids of connections
          Places, Names,    \* positions of a node, names of a device
          MaxEntries,       \* what the undo stack holds
          MaxActions,       \* bound on the actions of the user and the writes of others
          NoId

VARIABLES inventory, \* inventory.device: names of the devices; inventory.link
          linkIds,   \* ids that a connection has had
          canvas,    \* canvas.node: the nodes shown; canvas.edges: the edges
          undoStack, redoStack,
          pending,   \* the request under way
          actions, writes,
          overlap,   \* a stack has changed while the server replayed an entry
          renamed    \* an id that an entry names has been replaced by a new one

stackVars  == <<inventory, linkIds, canvas, undoStack, redoStack, pending, actions, writes, overlap, renamed>>

Node     == [at : Places, name : Names]
Partial(S, T) == UNION {[X -> T] : X \in SUBSET S}
Server   == [device : Partial(CanvasDevices, Names), link : Links \cup {NoId}]
Canvas   == [node : Partial(CanvasDevices, Node), edges : SUBSET Links]

ASSUME StackAssumption ==
  /\ MaxEntries \in Nat /\ MaxActions \in Nat /\ Places # {} /\ Names # {}
  /\ NoId \notin CanvasDevices \cup Links \cup Names \cup Places

LinkCount(l) == IF l = NoId THEN 0 ELSE 1

\* What the user sees of it all, whatever the ids of the connections.
ContentOf(srv, cnv) == [device |-> srv.device, links |-> LinkCount(srv.link),
                        node |-> cnv.node, edges |-> Cardinality(cnv.edges)]
Content == ContentOf(inventory, canvas)

Kinds   == {"move", "remove_from_view", "create_edge", "delete_edge", "delete_node", "field"}
Local(e) == e.kind \in {"move", "remove_from_view"}
\* sight: the part of the canvas that a removal took away.  kept: what the
\* server kept of a device.  was, now: Content before and after (for the
\* properties only).
NoSight == [node |-> [d \in {} |-> NoId], edges |-> {}]
NoKept  == [name |-> NoId, link |-> NoId]
Blank   == [id |-> 0, kind |-> "move", d |-> NoId, link |-> NoId, from |-> NoId, to |-> NoId,
            sight |-> NoSight, kept |-> NoKept, was |-> NoId, now |-> NoId]
NoEntryCall == [way |-> "none", at |-> "none", entry |-> Blank, link |-> NoId, kept |-> NoKept]

StackTypeOK ==
  /\ inventory \in Server /\ canvas \in Canvas /\ linkIds \subseteq Links
  /\ \A s \in {undoStack, redoStack} : \A i \in DOMAIN s :
        s[i].kind \in Kinds /\ s[i].id \in 1..MaxActions /\ s[i].sight \in Canvas
  /\ pending.way \in {"none", "forward", "undo", "redo"}
  /\ pending.at \in {"none", "asked", "done", "refused", "lost"}
  /\ actions + writes \in 0..MaxActions
  /\ overlap \in BOOLEAN /\ renamed \in BOOLEAN

StackInit ==
  /\ inventory \in [device : [CanvasDevices -> {CHOOSE n \in Names : TRUE}], link : Links \cup {NoId}]
  /\ linkIds = {inventory.link} \ {NoId}
  /\ canvas = [node |-> [d \in CanvasDevices |-> [at |-> CHOOSE p \in Places : TRUE,
                                                  name |-> inventory.device[d]]],
               edges |-> linkIds]
  /\ undoStack = <<>> /\ redoStack = <<>> /\ pending = NoEntryCall
  /\ actions = 0 /\ writes = 0 /\ overlap = FALSE /\ renamed = FALSE

waiting  == pending.way # "none"
TopEntry(s)   == s[Len(s)]
WithoutTop(s) == SubSeq(s, 1, Len(s) - 1)
OnCanvas(d) == d \in DOMAIN canvas.node

-----------------------------------------------------------------------------
(* The graph.                                                               *)

Without(f, X) == [x \in DOMAIN f \ X |-> f[x]]
Over(f, g)    == [x \in DOMAIN f \cup DOMAIN g |-> IF x \in DOMAIN g THEN g[x] ELSE f[x]]

\* A node, and the edges at it.
SnapshotNodeSet(d) == [node |-> [x \in {d} |-> canvas.node[d]], edges |-> canvas.edges]

\* An edge needs both ends; it goes with either.
Hung(nodes, edges) == IF CanvasDevices \subseteq DOMAIN nodes THEN edges ELSE {}

ApplySnapshotRemoval(sight) ==
  LET left == Without(canvas.node, DOMAIN sight.node)
  IN  [node |-> left, edges |-> Hung(left, canvas.edges \ sight.edges)]

\* Variant: the nodes come back without their edges.
ApplySnapshotRestoreBare(sight) ==
  [canvas EXCEPT !.node = Over(sight.node, @)]

ApplySnapshotRestore(sight) ==
  LET all == Over(sight.node, canvas.node)
  IN  [node |-> all, edges |-> Hung(all, canvas.edges \cup sight.edges)]

AddEdge(l)    == [canvas EXCEPT !.edges = Hung(canvas.node, @ \cup {l})]
RemoveEdge(l) == [canvas EXCEPT !.edges = @ \ {l}]

ApplyMove(d, p) ==
  IF OnCanvas(d) THEN [canvas EXCEPT !.node[d].at = p] ELSE canvas
PatchNode(d, n) ==
  IF OnCanvas(d) THEN [canvas EXCEPT !.node[d].name = n] ELSE canvas

-----------------------------------------------------------------------------
(* The stacks.                                                              *)

\* Variant: the new entry stays and the stack does not give up the oldest.
TrimUndoStackNot(s) == s
TrimUndoStack(s) ==
  IF Len(s) > MaxEntries THEN SubSeq(s, Len(s) - MaxEntries + 1, Len(s)) ELSE s

PushEntry(e) ==
  /\ undoStack' = TrimUndoStack(Append(undoStack, e))
  /\ redoStack' = <<>>

Overlapping == overlap' = (overlap \/ waiting)

\* Something the user does that needs no answer: it is done, and pushed.
Commit(e, srv, cnv) ==
  /\ actions + writes < MaxActions
  /\ inventory' = srv /\ canvas' = cnv
  /\ PushEntry([e EXCEPT !.id = actions + 1, !.was = Content,
                      !.now = ContentOf(srv, cnv)])
  /\ actions' = actions + 1
  /\ Overlapping
  /\ UNCHANGED <<linkIds, pending, writes, renamed>>

CommitMoveGesture ==
  \E d \in DOMAIN canvas.node, p \in Places :
    /\ p # canvas.node[d].at
    /\ Commit([Blank EXCEPT !.kind = "move", !.d = d, !.from = canvas.node[d].at, !.to = p],
              inventory, ApplyMove(d, p))

CommitLocalRemoveFromView ==
  \E d \in DOMAIN canvas.node :
    LET sight == SnapshotNodeSet(d)
    IN  Commit([Blank EXCEPT !.kind = "remove_from_view", !.d = d, !.sight = sight],
               inventory, ApplySnapshotRemoval(sight))

\* The detail panel saves a field itself and pushes an entry for it.
PushFieldEntry ==
  \E d \in DOMAIN canvas.node, n \in Names :
    /\ d \in DOMAIN inventory.device /\ n # inventory.device[d]
    /\ Commit([Blank EXCEPT !.kind = "field", !.d = d, !.from = inventory.device[d], !.to = n],
              [inventory EXCEPT !.device[d] = n], PatchNode(d, n))

\* What takes an answer: nothing else that does may be under way.
Ask(way, e) ==
  /\ pending' = [NoEntryCall EXCEPT !.way = way, !.at = "asked", !.entry = e]
  /\ UNCHANGED <<inventory, linkIds, canvas, undoStack, redoStack, writes, overlap, renamed>>

RequestCanvasAction(e) ==
  /\ ~waiting /\ actions + writes < MaxActions
  /\ Ask("forward", [e EXCEPT !.id = actions + 1, !.was = Content])
  /\ actions' = actions + 1

RequestCreateEdge ==
  /\ DOMAIN canvas.node = CanvasDevices
  /\ RequestCanvasAction([Blank EXCEPT !.kind = "create_edge"])
RequestDeleteEdge ==
  \E l \in canvas.edges :
    RequestCanvasAction([Blank EXCEPT !.kind = "delete_edge", !.link = l])
RequestDeleteNode ==
  \E d \in DOMAIN canvas.node :
    RequestCanvasAction([Blank EXCEPT !.kind = "delete_node", !.d = d,
                                      !.sight = SnapshotNodeSet(d)])

ApplyLocalOp(e, way) ==
  CASE e.kind = "move" -> ApplyMove(e.d, IF way = "undo" THEN e.from ELSE e.to)
    [] e.kind = "remove_from_view" /\ way = "undo" -> ApplySnapshotRestore(e.sight)
    [] e.kind = "remove_from_view" /\ way = "redo" -> ApplySnapshotRemoval(e.sight)

\* An entry goes from the top of one stack to the other.
ShiftEntry(way, e) ==
  IF way = "undo"
  THEN undoStack' = WithoutTop(undoStack) /\ redoStack' = Append(redoStack, e)
  ELSE redoStack' = WithoutTop(redoStack) /\ undoStack' = TrimUndoStack(Append(undoStack, e))

Source(way) == IF way = "undo" THEN undoStack ELSE redoStack

\* A local entry is replayed at once, even while the server is busy.
ReplayLocally(way) ==
  /\ Source(way) # <<>> /\ Local(TopEntry(Source(way)))
  /\ canvas' = ApplyLocalOp(TopEntry(Source(way)), way)
  /\ ShiftEntry(way, TopEntry(Source(way)))
  /\ Overlapping
  /\ UNCHANGED <<inventory, linkIds, pending, actions, writes, renamed>>

\* Any other stays where it is until the answer comes.
ReplayByServer(way) ==
  /\ ~waiting /\ Source(way) # <<>> /\ ~Local(TopEntry(Source(way)))
  /\ Ask(way, TopEntry(Source(way)))
  /\ UNCHANGED actions

-----------------------------------------------------------------------------
(* The server.                                                              *)

Op == LET back == pending.way = "undo"
      IN  CASE pending.entry.kind = "create_edge" -> IF back THEN "disconnect" ELSE "connect"
            [] pending.entry.kind = "delete_edge" -> IF back THEN "connect" ELSE "disconnect"
            [] pending.entry.kind = "delete_node" -> IF back THEN "restore" ELSE "delete"
            [] OTHER -> "field"

Asked(op) == pending.at = "asked" /\ Op = op

Settled(at, srv) ==
  /\ inventory' = srv
  /\ pending' = [pending EXCEPT !.at = at]
  /\ UNCHANGED <<linkIds, canvas, undoStack, redoStack, actions, writes, overlap, renamed>>

\* A connection gets a new id, also when an old one is made again.
CreateEdge ==
  /\ Asked("connect")
  /\ DOMAIN inventory.device = CanvasDevices /\ inventory.link = NoId
  /\ \E l \in Links \ linkIds :
       /\ inventory' = [inventory EXCEPT !.link = l]
       /\ linkIds' = linkIds \cup {l}
       /\ pending' = [pending EXCEPT !.at = "done", !.link = l]
  /\ UNCHANGED <<canvas, undoStack, redoStack, actions, writes, overlap, renamed>>

\* A connection that is not there (404) counts as deleted.
DeleteEdge ==
  /\ Asked("disconnect")
  /\ Settled("done", IF inventory.link = pending.entry.link
                      THEN [inventory EXCEPT !.link = NoId] ELSE inventory)

\* The connection goes with the device; the answer tells what went.
DeletePublishedDevice ==
  LET d == pending.entry.d
  IN /\ Asked("delete") /\ d \in DOMAIN inventory.device
     /\ inventory' = [device |-> Without(inventory.device, {d}), link |-> NoId]
     /\ pending' = [pending EXCEPT !.at = "done",
                      !.kept = [name |-> inventory.device[d], link |-> inventory.link]]
     /\ UNCHANGED <<linkIds, canvas, undoStack, redoStack, actions, writes, overlap, renamed>>

\* All that went comes back under its old ids, or nothing does.
RestorePublishedDevice ==
  LET d == pending.entry.d
      k == pending.entry.kept
  IN /\ Asked("restore") /\ d \notin DOMAIN inventory.device
     /\ k.link # NoId => CanvasDevices \ {d} \subseteq DOMAIN inventory.device /\ inventory.link = NoId
     /\ Settled("done", [device |-> Over(inventory.device, [x \in {d} |-> k.name]),
                          link |-> IF k.link # NoId THEN k.link ELSE inventory.link])

\* The version is read just before the write, so the write replaces whatever
\* others have made of the field.
ApplyUndoableFieldPatch ==
  LET e == pending.entry
  IN /\ Asked("field") /\ e.d \in DOMAIN inventory.device
     /\ Settled("done", [inventory EXCEPT !.device[e.d] =
                            IF pending.way = "undo" THEN e.from ELSE e.to])

\* Refused: the server says no (or a write of others came between the read of
\* the version and the write, or an autosave does not settle in three seconds).
RefuseEntry ==
  /\ pending.at = "asked"
  /\ Settled("refused", inventory)

\* The call of the server raises (it times out after five seconds): no handler
\* catches that, and no answer ever comes.
EntryCallRaises ==
  /\ pending.at \in {"asked", "done"}
  /\ Settled("lost", inventory)

-----------------------------------------------------------------------------
(* The answer.                                                              *)

GraphPatch ==
  LET e == pending.entry
      d == e.d
  IN CASE Op = "connect"    -> AddEdge(pending.link)
       [] Op = "disconnect" -> RemoveEdge(e.link)
       [] Op = "delete"     -> ApplySnapshotRemoval(e.sight)
       [] Op = "restore"    -> ApplySnapshotRestore(e.sight)
       [] Op = "field"      -> PatchNode(d, IF pending.way = "undo" THEN e.from ELSE e.to)

\* What the answer changes in the entry: the new id; what the server kept, and
\* the connections it kept in place of the edges seen.
EntryPatch(e) ==
  CASE Op = "connect" -> [e EXCEPT !.link = pending.link]
    [] Op = "delete"  -> [e EXCEPT !.kept = pending.kept,
                            !.sight.edges = IF pending.way = "forward" THEN @
                                            ELSE {pending.kept.link} \ {NoId}]
    [] OTHER          -> e

\* An entry that names id l, other than the one that is replayed.
Mentions(s, l, id) ==
  \E i \in DOMAIN s : s[i].id # id /\ (s[i].link = l \/ l \in s[i].sight.edges \/ s[i].kept.link = l)

EntrySucceeds ==
  LET way == pending.way
      e   == pending.entry
      src == Source(way)
      new == EntryPatch(e)
  IN /\ pending.at = "done"
     /\ canvas' = GraphPatch
     /\ IF way = "forward"
        THEN PushEntry([new EXCEPT !.now = ContentOf(inventory, GraphPatch)])
        ELSE IF src # <<>> /\ TopEntry(src).id = e.id
        THEN ShiftEntry(way, new)
        ELSE UNCHANGED <<undoStack, redoStack>>
     /\ renamed' = (renamed \/ /\ Op = "connect" /\ e.link # NoId
                               /\ \E s \in {undoStack, redoStack} : Mentions(s, e.link, e.id))
     /\ pending' = NoEntryCall
     /\ UNCHANGED <<inventory, linkIds, actions, writes, overlap>>

EntryFails ==
  /\ pending.at = "refused"
  /\ pending' = NoEntryCall
  /\ UNCHANGED <<inventory, linkIds, canvas, undoStack, redoStack, actions, writes, overlap, renamed>>

\* Another user deletes or names a device, deletes or makes a connection.
OthersWrite ==
  /\ actions + writes < MaxActions
  /\ \/ \E d \in DOMAIN inventory.device :
          /\ inventory' = [device |-> Without(inventory.device, {d}), link |-> NoId]
          /\ UNCHANGED linkIds
     \/ \E d \in DOMAIN inventory.device, n \in Names :
          /\ inventory' = [inventory EXCEPT !.device[d] = n]
          /\ UNCHANGED linkIds
     \/ /\ inventory.link # NoId /\ inventory' = [inventory EXCEPT !.link = NoId]
        /\ UNCHANGED linkIds
     \/ /\ inventory.link = NoId /\ DOMAIN inventory.device = CanvasDevices
        /\ \E l \in Links \ linkIds :
             inventory' = [inventory EXCEPT !.link = l] /\ linkIds' = linkIds \cup {l}
  /\ writes' = writes + 1
  /\ UNCHANGED <<canvas, undoStack, redoStack, pending, actions, overlap, renamed>>

Serve == \/ CreateEdge \/ DeleteEdge \/ DeletePublishedDevice \/ RestorePublishedDevice
         \/ ApplyUndoableFieldPatch \/ RefuseEntry \/ EntryCallRaises

StackNext ==
  \/ CommitMoveGesture \/ CommitLocalRemoveFromView \/ PushFieldEntry
  \/ RequestCreateEdge \/ RequestDeleteEdge \/ RequestDeleteNode
  \/ \E way \in {"undo", "redo"} : ReplayLocally(way) \/ ReplayByServer(way)
  \/ Serve \/ EntrySucceeds \/ EntryFails \/ OthersWrite

StackSpec == StackInit /\ [][StackNext]_stackVars

-----------------------------------------------------------------------------
\* Every action has one entry at most, in one of the stacks, and the two hold
\* no more than the limit together: a redo never pushes an entry out.
OneEntryEach ==
  /\ \A s \in {undoStack, redoStack} : \A i, j \in DOMAIN s : s[i].id = s[j].id => i = j
  /\ \A i \in DOMAIN undoStack, j \in DOMAIN redoStack : undoStack[i].id # redoStack[j].id
  /\ Len(undoStack) + Len(redoStack) <= MaxEntries

\* Undo and redo give back what there was: below the next entry to undo lies
\* what its action left, below the next to redo what its action found, on the
\* canvas and on the server.
GivesBack ==
  pending = NoEntryCall =>
    /\ undoStack # <<>> => TopEntry(undoStack).now = Content
    /\ redoStack # <<>> => TopEntry(redoStack).was = Content

\* That needs a user who is alone and waits for answers, and connections that
\* keep the ids which other entries know: nothing else gets in the way.
GivesBackUndisturbed == writes = 0 /\ ~overlap /\ ~renamed => GivesBack

\* Does not hold.  HT-032: an edge that was drawn goes away when its drawing is undone.
DrawnEdgeGoes == writes = 0 /\ ~overlap => GivesBack

\* Does not hold.  RFC HT-032: a successful undo moves the entry from undo to redo.
SuccessfulUndoMoves ==
  [][pending.way = "undo" /\ pending.at = "done" /\ pending' = NoEntryCall
       => \E i \in DOMAIN redoStack' : redoStack'[i].id = pending.entry.id]_stackVars

\* Does not hold: the lock is given back, since an answer comes and is applied.
StackFairness == WF_stackVars(Serve) /\ WF_stackVars(EntrySucceeds \/ EntryFails)
StackFairSpec == StackSpec /\ StackFairness
LockIsReleased == waiting ~> ~waiting

\* What undo and redo promise: the types, one entry for each action, and what was before
\* (canvas_js_undo*.py, canvas_undo_service.py).
StacksHold == StackTypeOK /\ OneEntryEach /\ GivesBackUndisturbed

===============================================================================
