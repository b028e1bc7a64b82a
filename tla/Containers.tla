------------------------------ MODULE Containers ------------------------------
(***************************************************************************)
(* Containers on the canvas: a device is dropped into another, taken out   *)
(* again, and a container is turned back into a plain node.                *)
(*                                                                         *)
(* A device of the inventory is moved on the canvas at once and at the     *)
(* server afterwards, by up to four calls; it is moved back if the server  *)
(* refuses.  A draft node is moved on the canvas only, whether a move is   *)
(* under way or not.  The conversion of a container saves a layout without *)
(* what is in it, and takes that off the canvas when it is saved.          *)
(***************************************************************************)
EXTENDS Naturals, Sequences, FiniteSets

CONSTANTS DeviceNodes, DraftNodes,   \* nodes of the inventory, nodes of the draft only
          MaxMoves,              \* bound on what the user asks: moves, replays, conversions
          MaxWrites,             \* bound on the writes of others, and on lost answers
          NoNode

TreeNodes == DeviceNodes \cup DraftNodes

VARIABLES nested,    \* server.parent, server.version: the devices
          tree,    \* canvas.parent: of the nodes shown; canvas.version; canvas.container
          drawnLayout,    \* the personal draft: the parents of its nodes, its version
          undoMoves, redoMoves,
          asking,   \* the move that waits for the server
          plan,      \* the conversion under way
          moves, others,
          moved,     \* devices that others have moved since the canvas heard of them
          dropped    \* a node has changed containers since the conversion was planned

nestVars == <<nested, tree, drawnLayout, undoMoves, redoMoves, asking, plan, moves, others,
          moved, dropped>>

NoMove == [id |-> 0, n |-> NoNode, from |-> NoNode, to |-> NoNode, cursor |-> 0]
NotAsking == [way |-> "none", at |-> "none", move |-> NoMove, locked |-> {}]
NoPlan == [at |-> "none", n |-> NoNode, left |-> <<>>, base |-> 0]

ParentMaps == UNION {[S -> TreeNodes \cup {NoNode}] : S \in SUBSET TreeNodes}
Entry == [id : Nat, n : TreeNodes \cup {NoNode}, from : TreeNodes \cup {NoNode},
          to : TreeNodes \cup {NoNode}, cursor : Nat]
Asking == [way : {"none", "forward", "undo", "redo"},
           at : {"none", "patch", "get", "retry", "reget", "done", "refused", "lost"},
           move : Entry, locked : SUBSET TreeNodes]

ASSUME NestAssumption ==
  /\ MaxMoves \in Nat /\ MaxWrites \in Nat
  /\ DeviceNodes \cap DraftNodes = {} /\ NoNode \notin TreeNodes

NestTypeOK ==
  /\ nested \in [parent : [DeviceNodes -> DeviceNodes \cup {NoNode}],
                 version : [DeviceNodes -> Nat]]
  /\ tree \in [parent : ParentMaps, version : [DeviceNodes -> Nat], container : SUBSET TreeNodes]
  /\ tree.container \subseteq DOMAIN tree.parent
  /\ drawnLayout \in [parent : ParentMaps, version : Nat]
  /\ undoMoves \in Seq(Entry) /\ redoMoves \in Seq(Entry)
  /\ asking \in Asking
  /\ plan \in [at : {"none", "asked", "put", "done", "failed"}, n : TreeNodes \cup {NoNode},
               left : ParentMaps \cup {<<>>}, base : Nat]
  /\ moves \in 0..MaxMoves /\ others \in 0..MaxWrites
  /\ moved \subseteq DeviceNodes /\ dropped \in BOOLEAN

\* The nodes above n: the fewest that hold the parent of n, and of each of their own.
Above(parent, n) ==
  {a \in TreeNodes : \A S \in SUBSET TreeNodes :
     (\A x \in ({n} \cup S) \cap DOMAIN parent : parent[x] \in S \cup {NoNode}) => a \in S}
Inside(parent, n) == {x \in DOMAIN parent : n \in Above(parent, x)}
\* Some member of every set of nodes has its parent outside of the set.
Forest(parent) ==
  \A S \in (SUBSET DOMAIN parent) \ {{}} : \E x \in S : parent[x] \notin S

NestInit ==
  /\ nested \in [parent : [DeviceNodes -> DeviceNodes \cup {NoNode}],
                 version : {[d \in DeviceNodes |-> 1]}]
  /\ Forest(nested.parent)
  /\ tree = [parent |-> [n \in TreeNodes |-> IF n \in DeviceNodes THEN nested.parent[n] ELSE NoNode],
               version |-> nested.version, container |-> TreeNodes]
  /\ drawnLayout = [parent |-> tree.parent, version |-> 1]
  /\ undoMoves = <<>> /\ redoMoves = <<>>
  /\ asking = NotAsking /\ plan = NoPlan
  /\ moves = 0 /\ others = 0 /\ moved = {} /\ dropped = FALSE

OnTree(n)  == n \in DOMAIN tree.parent
Top(s)    == s[Len(s)]
Popped(s) == SubSeq(s, 1, Len(s) - 1)
busy      == asking.way # "none"

-----------------------------------------------------------------------------
(* The canvas.                                                              *)

ApplyCanvasReparent(cnv, n, parent, version) ==
  IF n \notin DOMAIN cnv.parent THEN cnv
  ELSE [cnv EXCEPT !.parent[n] = parent,
                   !.version = IF n \in DeviceNodes THEN [@ EXCEPT ![n] = version] ELSE @]

\* Variant: a node may be dropped into what is inside it.
DropParentsAll(n) == (tree.container \ {n}) \cup {NoNode}

\* Where n may be dropped: not into itself or what is inside it, and only into
\* what is a container.
DropParents(n) == (tree.container \ ({n} \cup Inside(tree.parent, n))) \cup {NoNode}

PushCommitted(e) == undoMoves' = Append(undoMoves, e) /\ redoMoves' = <<>>

MoveEntry(way, e) ==
  IF way = "undo"
  THEN undoMoves' = Popped(undoMoves) /\ redoMoves' = Append(redoMoves, e)
  ELSE redoMoves' = Popped(redoMoves) /\ undoMoves' = Append(undoMoves, e)

StackOf(way) == IF way = "undo" THEN undoMoves ELSE redoMoves
GoesTo(way, e) == IF way = "undo" THEN e.from ELSE e.to

Dropping == dropped' = TRUE

\* A node of the draft is moved, and the move is pushed, at once; only a node
\* that was selected with the one that is being saved has to wait.
CommitLocalReparent(n) ==
  /\ moves < MaxMoves /\ n \in DraftNodes /\ OnTree(n) /\ n \notin asking.locked
  /\ plan.at # "asked"
  /\ \E to \in DropParents(n) \ {tree.parent[n]} :
       /\ tree' = ApplyCanvasReparent(tree, n, to, 0)
       /\ PushCommitted([id |-> moves + 1, n |-> n, from |-> tree.parent[n],
                         to |-> to, cursor |-> 0])
  /\ moves' = moves + 1
  /\ Dropping
  /\ UNCHANGED <<nested, drawnLayout, asking, plan, others, moved>>

\* A device is moved at once, locked with what is selected, and the server is
\* asked; nothing else that asks the server may be under way.
RequestPublishedReparent(n) ==
  /\ moves < MaxMoves /\ n \in DeviceNodes /\ OnTree(n) /\ ~busy
  /\ plan.at # "asked"
  /\ \E to \in DropParents(n) \ {tree.parent[n]}, selected \in SUBSET DraftNodes :
       /\ asking' = [way |-> "forward", at |-> "patch", locked |-> selected \cup {n},
                      move |-> [id |-> moves + 1, n |-> n, from |-> tree.parent[n],
                                to |-> to, cursor |-> tree.version[n]]]
       /\ tree' = ApplyCanvasReparent(tree, n, to, tree.version[n])
  /\ moves' = moves + 1
  /\ Dropping
  /\ UNCHANGED <<nested, drawnLayout, undoMoves, redoMoves, plan, others, moved>>

\* The move of a draft node is replayed at once.
RequestLocalDirection(way) ==
  /\ StackOf(way) # <<>> /\ Top(StackOf(way)).n \in DraftNodes
  /\ LET e == Top(StackOf(way))
     IN  tree' = ApplyCanvasReparent(tree, e.n, GoesTo(way, e), 0) /\ MoveEntry(way, e)
  /\ Dropping
  /\ UNCHANGED <<nested, drawnLayout, asking, plan, moves, others, moved>>

\* The move of a device is replayed by the server, and shown when it answers.
RequestApiDirection(way) ==
  /\ ~busy /\ StackOf(way) # <<>> /\ Top(StackOf(way)).n \in DeviceNodes /\ moves < MaxMoves
  /\ asking' = [NotAsking EXCEPT !.way = way, !.at = "patch", !.move = Top(StackOf(way))]
  /\ moves' = moves + 1
  /\ UNCHANGED <<nested, tree, drawnLayout, undoMoves, redoMoves, plan, others, moved, dropped>>

-----------------------------------------------------------------------------
(* The server's side of a move: PATCH; if the version has passed, GET and,  *)
(* unless the device is there already, PATCH again and GET again.           *)

n_to == GoesTo(asking.way, asking.move)

\* Refused: no such device, itself, or a circle.
ValidParent(n, to) ==
  to = NoNode \/ (to \in DeviceNodes /\ to # n /\ n \notin Above(nested.parent, to))

Replied(p) ==
  /\ asking' = p
  /\ UNCHANGED <<tree, drawnLayout, undoMoves, redoMoves, plan, moves, others, dropped>>

\* One PATCH: it holds the version first, then the parent.
Patch(at, stale) ==
  LET n == asking.move.n
      q == asking
  IN /\ q.at = at
     /\ IF q.move.cursor # nested.version[n]
        THEN Replied([q EXCEPT !.at = stale]) /\ UNCHANGED <<nested, moved>>
        ELSE IF ~ValidParent(n, n_to)
        THEN Replied([q EXCEPT !.at = "refused"]) /\ UNCHANGED <<nested, moved>>
        ELSE /\ nested' = [parent  |-> [nested.parent EXCEPT ![n] = n_to],
                           version |-> [nested.version EXCEPT ![n] = @ + 1]]
             /\ moved' = moved \ {n}
             /\ Replied([q EXCEPT !.at = "done", !.move.cursor = nested.version[n] + 1])

\* One GET: the device may be where it should go.
FetchCurrent(at, otherwise) ==
  LET n == asking.move.n
  IN /\ asking.at = at
     /\ Replied([asking EXCEPT !.move.cursor = nested.version[n],
                    !.at = IF nested.parent[n] = n_to THEN "done" ELSE otherwise])
     /\ moved' = IF nested.parent[n] = n_to THEN moved \ {n} ELSE moved
     /\ UNCHANGED nested

FirstPatch == Patch("patch", "get")
FirstGet   == FetchCurrent("get", "retry")
RetryPatch == Patch("retry", "reget")
SecondGet  == FetchCurrent("reget", "refused")

\* An undo waits three seconds for a save to end; a viewer is refused.
RefuseRequest ==
  /\ asking.at = "patch"
  /\ Replied([asking EXCEPT !.at = "refused"])
  /\ UNCHANGED <<nested, moved>>

\* A call raises, and no answer comes: the device may have moved or not.
CallRaises ==
  /\ asking.at \in {"patch", "get", "retry", "reget", "done"} /\ others < MaxWrites
  /\ asking' = [asking EXCEPT !.at = "lost"]
  /\ others' = others + 1
  /\ UNCHANGED <<nested, tree, drawnLayout, undoMoves, redoMoves, plan, moves, moved, dropped>>

-----------------------------------------------------------------------------
(* The answer.                                                              *)

ResolveSuccess ==
  LET way == asking.way
      e   == asking.move
      src == StackOf(way)
  IN /\ asking.at = "done"
     /\ tree' = ApplyCanvasReparent(tree, e.n, GoesTo(way, e), e.cursor)
     /\ IF way = "forward" THEN PushCommitted(e)
        ELSE IF src # <<>> /\ Top(src).id = e.id THEN MoveEntry(way, e)
        ELSE UNCHANGED <<undoMoves, redoMoves>>
     /\ asking' = NotAsking
     /\ Dropping
     /\ UNCHANGED <<nested, drawnLayout, plan, moves, others, moved>>

\* Variant: a device that the server refused to move stays where it was dropped.
RollbackNot(cnv, q) == cnv
Rollback(cnv, q) ==
  IF q.way = "forward" THEN ApplyCanvasReparent(cnv, q.move.n, q.move.from, cnv.version[q.move.n])
  ELSE cnv

ResolveFailure ==
  /\ asking.at = "refused"
  /\ tree' = Rollback(tree, asking)
  /\ asking' = NotAsking
  /\ Dropping
  /\ UNCHANGED <<nested, drawnLayout, undoMoves, redoMoves, plan, moves, others, moved>>

-----------------------------------------------------------------------------
(* A container becomes a plain node again.                                  *)

Kept(parent, n) == [x \in DOMAIN parent \ Inside(parent, n) |-> parent[x]]

\* Variant: what is deeper in the container stays in the layout.
CandidateLayoutChildren(parent, n) ==
  [x \in {y \in DOMAIN parent : parent[y] # n} |-> parent[x]]
CandidateLayout(parent, n) == Kept(parent, n)

\* The layout without what is in the container is made, and the user is asked.
BuildUnconvertPlan(n) ==
  /\ plan.at = "none" /\ OnTree(n) /\ n \in tree.container /\ moves < MaxMoves
  /\ plan' = [NoPlan EXCEPT !.at = "asked", !.n = n, !.left = CandidateLayout(tree.parent, n)]
  /\ moves' = moves + 1 /\ dropped' = FALSE
  /\ UNCHANGED <<nested, tree, drawnLayout, undoMoves, redoMoves, asking, others, moved>>

\* Confirmed: the layout is saved over the version that the page knows.
ConfirmUnconvert ==
  /\ plan.at = "asked"
  /\ plan' = [plan EXCEPT !.at = "put", !.base = drawnLayout.version]
  /\ UNCHANGED <<nested, tree, drawnLayout, undoMoves, redoMoves, asking, moves, others,
                 moved, dropped>>

CancelUnconvert ==
  /\ plan.at = "asked"
  /\ plan' = NoPlan
  /\ UNCHANGED <<nested, tree, drawnLayout, undoMoves, redoMoves, asking, moves, others,
                 moved, dropped>>

PutPersonalDraft ==
  /\ plan.at = "put"
  /\ IF plan.base = drawnLayout.version
     THEN /\ drawnLayout' = [parent |-> plan.left, version |-> drawnLayout.version + 1]
          /\ plan' = [plan EXCEPT !.at = "done"]
     ELSE plan' = [plan EXCEPT !.at = "failed"] /\ UNCHANGED drawnLayout
  /\ UNCHANGED <<nested, tree, undoMoves, redoMoves, asking, moves, others, moved, dropped>>

\* Saved: what is in the container now goes.
ApplyUnconvertPlan ==
  /\ plan.at = "done"
  /\ tree' = IF OnTree(plan.n)
               THEN [tree EXCEPT !.parent = Kept(@, plan.n),
                                   !.container = @ \ ({plan.n} \cup Inside(tree.parent, plan.n))]
               ELSE tree
  /\ plan' = NoPlan
  /\ UNCHANGED <<nested, drawnLayout, undoMoves, redoMoves, asking, moves, others, moved, dropped>>

UnconvertFailed ==
  /\ plan.at = "failed"
  /\ plan' = NoPlan
  /\ UNCHANGED <<nested, tree, drawnLayout, undoMoves, redoMoves, asking, moves, others,
                 moved, dropped>>

ConvertContainer(n) ==
  /\ OnTree(n) /\ n \notin tree.container /\ plan.at # "asked"
  /\ tree' = [tree EXCEPT !.container = @ \cup {n}]
  /\ UNCHANGED <<nested, drawnLayout, undoMoves, redoMoves, asking, plan, moves, others,
                 moved, dropped>>

\* The autosave, in one step: see AutosaveClient.  A save of the same draft by
\* another page of the user counts among the writes.
Autosave ==
  /\ drawnLayout.parent # tree.parent /\ plan.at \notin {"done"} /\ others < MaxWrites
  /\ drawnLayout' = [parent |-> tree.parent, version |-> drawnLayout.version + 1]
  /\ others' = others + 1
  /\ UNCHANGED <<nested, tree, undoMoves, redoMoves, asking, plan, moves, moved, dropped>>

\* Others move a device, or change a field of one.
OthersMove(n) ==
  /\ others < MaxWrites
  /\ \E to \in DeviceNodes \cup {NoNode} :
       /\ to # nested.parent[n] /\ ValidParent(n, to)
       /\ nested' = [parent  |-> [nested.parent EXCEPT ![n] = to],
                     version |-> [nested.version EXCEPT ![n] = @ + 1]]
  /\ moved' = moved \cup {n} /\ others' = others + 1
  /\ UNCHANGED <<tree, drawnLayout, undoMoves, redoMoves, asking, plan, moves, dropped>>

ChangeField(n) ==
  /\ others < MaxWrites
  /\ nested' = [nested EXCEPT !.version[n] = @ + 1]
  /\ others' = others + 1
  /\ UNCHANGED <<tree, drawnLayout, undoMoves, redoMoves, asking, plan, moves, moved, dropped>>

NestNext ==
  \/ \E n \in TreeNodes : \/ CommitLocalReparent(n) \/ RequestPublishedReparent(n)
                      \/ BuildUnconvertPlan(n) \/ ConvertContainer(n)
  \/ \E way \in {"undo", "redo"} : RequestLocalDirection(way) \/ RequestApiDirection(way)
  \/ FirstPatch \/ FirstGet \/ RetryPatch \/ SecondGet \/ RefuseRequest \/ CallRaises
  \/ ResolveSuccess \/ ResolveFailure
  \/ ConfirmUnconvert \/ CancelUnconvert \/ PutPersonalDraft \/ ApplyUnconvertPlan
  \/ UnconvertFailed \/ Autosave
  \/ \E n \in DeviceNodes : OthersMove(n) \/ ChangeField(n)

NestSpec == NestInit /\ [][NestNext]_nestVars

-----------------------------------------------------------------------------
\* When no move is under way the canvas shows every device where the server
\* has it, but for those that others have moved meanwhile.
CanvasShowsInventory ==
  asking = NotAsking =>
    \A n \in (DeviceNodes \cap DOMAIN tree.parent) \ moved : tree.parent[n] = nested.parent[n]

\* When no move is under way, and others have moved nothing that the canvas has
\* not heard of, nothing on it is inside itself.
NoCanvasCircle == asking = NotAsking /\ moved = {} => Forest(tree.parent)

\* Does not hold.  RFC HT-060: reload of the same view must match the post-success canvas.
ReloadMatches ==
  [][plan.at = "done" /\ plan' = NoPlan => tree'.parent = drawnLayout.parent]_nestVars
\* It does if nothing changed containers while the conversion was saved.
ReloadStep ==
  plan.at = "done" /\ plan' = NoPlan /\ ~dropped => tree'.parent = drawnLayout.parent
ReloadMatchesUndisturbed == [][ReloadStep]_nestVars

\* The nesting that the canvas shows is the one of the inventory, as far as the
\* page can know, and has no circle (canvas_container_*.py).
NestingHolds == NestTypeOK /\ CanvasShowsInventory /\ NoCanvasCircle

-----------------------------------------------------------------------------
(* The inductive invariant.                                                 *)

AskingInv ==
  /\ asking.way = "none" => asking = NotAsking
  /\ asking.way # "none" => asking.at # "none" /\ asking.move.n \in DeviceNodes

\* Until the answer is there, the server has the device where it was.
ShownInv ==
  \A n \in (DeviceNodes \cap DOMAIN tree.parent) \ moved :
    IF busy /\ n = asking.move.n
    THEN /\ asking.at = "done" => nested.parent[n] = n_to
         /\ asking.at \in {"patch", "get", "retry", "reget", "refused"} =>
              nested.parent[n] = IF asking.way = "forward" THEN asking.move.from ELSE tree.parent[n]
    ELSE tree.parent[n] = nested.parent[n]

\* Once entry i of a stack and all after it are replayed, x is in p.
Later(s, i, x) == {j \in i..Len(s) : s[j].n = x}
Leads(way, s, parent, i, x, p) ==
  \/ Later(s, i, x) = {} /\ p = parent[x]
  \/ \E j \in Later(s, i, x) : p = GoesTo(way, s[j]) /\ \A k \in Later(s, i, x) : j <= k

CameFrom(way, e) == IF way = "undo" THEN e.to ELSE e.from
DraftsOf(parent)   == DraftNodes \cap DOMAIN parent

\* What a stack leads to, at each of its entries, has no circle among the drafts,
\* and an entry finds its node where it has put it.
Unwinds(way, s, parent) ==
  \A i \in 1..(Len(s) + 1) :
    /\ \A S \in (SUBSET DraftsOf(parent)) \ {{}} :
         \E x \in S, p \in (TreeNodes \cup {NoNode}) \ S : Leads(way, s, parent, i, x, p)
    /\ i > 1 /\ s[i - 1].n \in DraftsOf(parent) =>
         Leads(way, s, parent, i, s[i - 1].n, CameFrom(way, s[i - 1]))

DraftsInv == Unwinds("undo", undoMoves, tree.parent) /\ Unwinds("redo", redoMoves, tree.parent)

\* An id names entries of one node.
EntriesOf(s) == {s[i] : i \in 1..Len(s)}
IdsInv ==
  LET all == EntriesOf(undoMoves) \cup EntriesOf(redoMoves)
  IN /\ \A e \in all : e.n \in TreeNodes /\ e.id <= moves
     /\ \A e, f \in all : e.id = f.id => (e.n \in DeviceNodes <=> f.n \in DeviceNodes)
     /\ busy => /\ asking.move.id <= moves
                /\ \A e \in all : e.id = asking.move.id => e.n \in DeviceNodes

\* The plan is of the tree as it is, unless a node changed containers.
PlanInv ==
  /\ plan.at # "none" => plan.left \in ParentMaps
  /\ plan.at # "none" /\ ~dropped =>
       OnTree(plan.n) /\ plan.left = CandidateLayout(tree.parent, plan.n)
  /\ plan.at = "done" => drawnLayout.parent = plan.left

NestInv ==
  NestTypeOK /\ AskingInv /\ Forest(nested.parent) /\ ShownInv /\ DraftsInv /\ IdsInv /\ PlanInv
===============================================================================
