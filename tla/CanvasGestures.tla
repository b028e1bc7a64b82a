--------------------------- MODULE CanvasGestures ---------------------------
(***************************************************************************)
(* Dragging and resizing on the canvas: what one press, move and release   *)
(* of the mouse do to the nodes, to the undo stack and to the autosave,    *)
(* and what a key or a change of mode does in between.                     *)
(*                                                                         *)
(* The page keeps what it knows of a gesture in global variables, written  *)
(* by a dozen handlers of Cytoscape's events: where each grabbed node came *)
(* from, who pressed it, whether the gesture was cancelled, and what an    *)
(* undo entry would need.  Cytoscape emits, for a press: pointerdown and   *)
(* grab; for the first movement dragstart; for each movement drag; for the *)
(* release dragfree for every node carried and dragend, or, when nothing   *)
(* was moved, tap.  A press that becomes a click is never followed by      *)
(* dragfree, so what grab has written stays.                               *)
(*                                                                         *)
(* A place is the number of the movement that led to it, and a size that   *)
(* of the resizing.  All nodes are nodes of the draft, whose containers    *)
(* change without the server; Containers has the others.                   *)
(***************************************************************************)
EXTENDS Naturals, Sequences, FiniteSets

CONSTANTS Nodes,
          Boxes,        \* nodes that are containers
          MaxDrags,     \* bound on presses and resizings
          None

VARIABLES canvas,    \* parent, place and size of each node; what is selected; readonly
          drag,      \* what the page remembers of gestures
          undoStack,
          due,       \* a change waits for the autosave
          saved,     \* what the autosave has stored
          hand,      \* what the mouse holds, carries, and whether it has moved
          resize,    \* the resizing under way
          drags,
          \* ghosts: the canvas as it was loaded; no gesture was interfered with;
          \* nodes that the last release dropped elsewhere and that did not move there
          loaded, calm, missed

vars == <<canvas, drag, undoStack, due, saved, hand, resize, drags, loaded, calm, missed>>

NoHand   == [node |-> None, carried |-> {}, moved |-> FALSE]
NoResize == [node |-> None, from |-> 0, last |-> 0]
Layout(cnv) == [parent |-> cnv.parent, place |-> cnv.place, size |-> cnv.size]

TypeOK ==
  /\ canvas.parent \in [Nodes -> Boxes \cup {None}]
  /\ canvas.place \in [Nodes -> 0..MaxDrags] /\ canvas.size \in [Nodes -> 0..MaxDrags]
  /\ canvas.selected \subseteq Nodes /\ canvas.readonly \in BOOLEAN
  /\ DOMAIN drag.origin \subseteq Nodes /\ DOMAIN drag.owned \subseteq Nodes
  /\ drag.owner \in Nodes \cup {None}
  /\ drag.inProgress = (DOMAIN drag.origin # {})
  /\ \A i \in DOMAIN undoStack : undoStack[i].from # undoStack[i].to
  /\ hand.node \in Nodes \cup {None} /\ hand.carried \subseteq Nodes
  /\ hand.node = None \/ resize.node = None
  /\ due \in BOOLEAN /\ drags \in 0..MaxDrags

\* The containers a node is in, and what is in a node.
Above(parent, n) ==
  LET up[i \in 0..Cardinality(Nodes)] ==
        IF i = 0 THEN {} ELSE LET S == up[i - 1] IN S \cup ({parent[x] : x \in S \cup {n}} \ {None})
  IN  up[Cardinality(Nodes)]
Below(parent, n) == {x \in Nodes : n \in Above(parent, x)}

Forgets(f, S) == [x \in DOMAIN f \ S |-> f[x]]
With(f, x, v) == [y \in DOMAIN f \cup {x} |-> IF y = x THEN v ELSE f[y]]
NoMap == [x \in {} |-> 0]

Init ==
  /\ canvas \in [parent : [Nodes -> Boxes \cup {None}], place : {[n \in Nodes |-> 0]},
                 size : {[n \in Nodes |-> 0]}, selected : {{}}, readonly : {TRUE}]
  /\ \A n \in Nodes : n \notin Above(canvas.parent, n)
  /\ drag = [origin |-> NoMap, owned |-> NoMap, owner |-> None, inProgress |-> FALSE,
             cancelled |-> FALSE, deferred |-> FALSE, gesture |-> NoMap, suppressed |-> {}]
  /\ undoStack = <<>> /\ due = FALSE /\ saved = Layout(canvas) /\ loaded = Layout(canvas)
  /\ hand = NoHand /\ resize = NoResize /\ drags = 0
  /\ calm = TRUE /\ missed = {}

-----------------------------------------------------------------------------
(* What the handlers do to the page, a record p of canvas, drag, undoStack  *)
(* and due.                                                                 *)

Page == [canvas |-> canvas, drag |-> drag, undoStack |-> undoStack, due |-> due]
Becomes(p) == /\ canvas' = p.canvas /\ drag' = p.drag
              /\ undoStack' = p.undoStack /\ due' = p.due

\* A selection holds no node together with a container it is in: the outermost stay.
NormalizeSelection(p) ==
  [p EXCEPT !.canvas.selected =
     {n \in @ : Above(p.canvas.parent, n) \cap @ = {}}]

\* The size that a drag has given a container is taken back, with any other.
RemoveStyle(p, c) == IF c = None THEN p ELSE [p EXCEPT !.canvas.size[c] = 0]

\* A node goes back to where it was grabbed, if that is still known, with what
\* is in it.
SnapBackNode(p, n) ==
  IF n \notin DOMAIN p.drag.origin THEN p
  ELSE LET o == p.drag.origin[n]
       IN  RemoveStyle([p EXCEPT !.canvas.parent[n] = o.parent,
                                 !.canvas.place = [x \in Nodes |-> IF x \in DOMAIN o.place
                                                                   THEN o.place[x] ELSE @[x]],
                                 !.drag.origin = Forgets(@, {n})], o.parent)

SnapBackAll(p) ==
  LET o == p.drag.origin
      into == {o[n].parent : n \in DOMAIN o} \ {None}
      known(x) == {n \in DOMAIN o : x \in DOMAIN o[n].place}
  IN  [p EXCEPT !.canvas.parent = [x \in Nodes |-> IF x \in DOMAIN o THEN o[x].parent ELSE @[x]],
                !.canvas.place = [x \in Nodes |-> IF known(x) = {} THEN @[x]
                                                  ELSE o[IF x \in DOMAIN o THEN x
                                                         ELSE CHOOSE n \in known(x) : TRUE].place[x]],
                !.canvas.size = [x \in Nodes |-> IF x \in into THEN 0 ELSE @[x]]]

CancelContainerDrag(p) ==
  [SnapBackAll(p) EXCEPT !.drag.cancelled = TRUE, !.drag.gesture = NoMap,
                         !.drag.origin = NoMap, !.drag.owned = NoMap, !.drag.owner = None,
                         !.drag.inProgress = FALSE, !.drag.deferred = FALSE]

\* A node's drag is over; with the last one, a cancellation that was put off
\* takes place.
FinalizeDragNode(p, n) ==
  LET q    == [p EXCEPT !.drag.origin = Forgets(@, {n}), !.drag.owned = Forgets(@, {n})]
      left == DOMAIN q.drag.origin # {}
      r    == [q EXCEPT !.drag.inProgress = left,
                        !.drag.owner = IF left THEN @ ELSE None]
  IN  IF ~left /\ r.drag.deferred THEN CancelContainerDrag(r) ELSE r

Subtree(p, n) == {n} \cup Below(p.canvas.parent, n)
PlacesOf(p, S) == [x \in S |-> p.canvas.place[x]]

\* Variant: the entry of a move knows the node that was dragged, not what is in it.
BeginMoveGestureAlone(p, n) == [p EXCEPT !.drag.gesture = PlacesOf(p, {n})]

BeginMoveGesture(p, n) == [p EXCEPT !.drag.gesture = PlacesOf(p, Subtree(p, n))]

Entry(kind, from, to) == [kind |-> kind, from |-> from, to |-> to]
At(parent, place) == [parent |-> parent, place |-> place]

CommitMoveGesture(p) ==
  LET g == p.drag.gesture
      updates == {x \in DOMAIN g : g[x] # p.canvas.place[x]}
      q == [p EXCEPT !.drag.gesture = NoMap]
  IN  IF updates = {} THEN q
      ELSE [q EXCEPT !.undoStack =
              Append(@, Entry("move", At(NoMap, [x \in updates |-> g[x]]),
                                      At(NoMap, PlacesOf(p, updates))))]

\* The press reaches the node, in edit mode: where it and what is selected with
\* it are is written down.
Origin(p, n) == At(p.canvas.parent[n], PlacesOf(p, Subtree(p, n)))
Grab(p0, n) ==
  LET p == NormalizeSelection([p0 EXCEPT !.drag.owned = With(@, n, n \in p0.canvas.selected)])
      selected == p.canvas.selected \ {n}
      wasOwned == p.drag.owned[n]
      q == [p EXCEPT !.drag.origin =
                       [x \in DOMAIN @ \cup {n} \cup selected |->
                          IF x = n \/ x \notin DOMAIN @ THEN Origin(p, x) ELSE @[x]],
                     !.drag.owned =
                       [x \in DOMAIN @ \cup selected |->
                          IF x = n THEN wasOwned \/ n \in p.canvas.selected
                          ELSE IF x \in selected THEN TRUE ELSE @[x]],
                     !.drag.owner = n, !.drag.inProgress = TRUE]
  IN  q

\* The first movement begins a gesture, and clears the marks of earlier ones.
DragStart(p, n) ==
  IF p.canvas.readonly THEN p
  ELSE BeginMoveGesture([p EXCEPT !.drag.cancelled = FALSE, !.drag.suppressed = @ \ {n}], n)

\* A node dragged out of its container makes the container grow.
GrowContainer(p, n, to) ==
  LET c == p.canvas.parent[n]
  IN  IF c = None THEN p ELSE [p EXCEPT !.canvas.size[c] = to]

\* Where a node may be dropped: in a container that is not the node nor in it.
DropParents(p, n) == (Boxes \ Subtree(p, n)) \cup {None}

CommitLocalReparent(p, n, to) ==
  LET o == p.drag.origin[n]
  IN  [p EXCEPT !.canvas.parent[n] = to, !.due = TRUE,
                !.undoStack = Append(@, Entry("reparent", At([x \in {n} |-> o.parent], o.place),
                                  At([x \in {n} |-> to], PlacesOf(p, DOMAIN o.place))))]

SelectedForReparent(p, n) == n \in DOMAIN p.drag.owned /\ p.drag.owned[n]

\* Released near where it was pressed, a node stays where it is, in its container.
NearRelease(p, n) == FinalizeDragNode(p, n)

\* The drag of node n ends, over container to, far from where it was pressed or
\* not; the request to move it there may be refused.
DragFree(p, n, to, far, refused) ==
  LET current == IF n \in DOMAIN p.drag.origin THEN p.drag.origin[n].parent
                 ELSE p.canvas.parent[n]
      q == NormalizeSelection(p)
  IN  IF p.canvas.readonly THEN CancelContainerDrag(p)
      ELSE IF p.drag.owner # n /\ p.drag.owner \in Above(p.canvas.parent, n)
      THEN FinalizeDragNode(p, n)
      ELSE IF p.drag.cancelled
      THEN FinalizeDragNode([p EXCEPT !.drag.cancelled = FALSE], n)
      ELSE IF n \in DOMAIN p.drag.owned /\ ~far THEN NearRelease(p, n)
      ELSE IF ~SelectedForReparent(p, n)
      THEN FinalizeDragNode(IF n \in DOMAIN p.drag.origin
                            THEN [SnapBackNode(q, n) EXCEPT !.drag.cancelled = TRUE] ELSE q, n)
      ELSE IF to = current THEN FinalizeDragNode(RemoveStyle(q, to), n)
      ELSE IF refused \/ n \notin DOMAIN p.drag.origin
      THEN FinalizeDragNode(SnapBackNode(q, n), n)
      ELSE FinalizeDragNode(RemoveStyle(
             [CommitLocalReparent(q, n, to) EXCEPT !.drag.suppressed = @ \cup {n},
                                                   !.drag.cancelled = TRUE,
                                                   !.drag.gesture = NoMap], current), n)

DragEnd(p, n) ==
  IF p.canvas.readonly THEN p
  ELSE IF n \in p.drag.suppressed
  THEN [p EXCEPT !.drag.suppressed = @ \ {n}, !.drag.cancelled = FALSE, !.drag.gesture = NoMap]
  ELSE IF p.drag.cancelled THEN [p EXCEPT !.drag.cancelled = FALSE]
  ELSE [CommitMoveGesture(p) EXCEPT !.due = TRUE]

-----------------------------------------------------------------------------
(* The mouse.                                                               *)

Free == hand.node = None /\ resize.node = None
Idle == DOMAIN drag.origin = {} /\ hand.node = None
Quiet == UNCHANGED <<resize, saved, loaded>>

Carried(p, n) ==
  UNION {Subtree(p, x) : x \in IF n \in p.canvas.selected THEN p.canvas.selected ELSE {n}}

Press(n) ==
  /\ Free /\ ~canvas.readonly /\ drags < MaxDrags
  /\ drags' = drags + 1
  /\ LET p == Grab(Page, n)
     IN  /\ Becomes(p)
         /\ hand' = [node |-> n, carried |-> Carried(p, n), moved |-> FALSE]
         /\ calm' = (calm /\ Carried(p, n) = Subtree(p, n))
  /\ Quiet /\ UNCHANGED missed

\* In view mode nothing is grabbed, but the press cancels what is left of a gesture,
\* and the click selects.
PressInView(n) ==
  /\ Free /\ canvas.readonly
  /\ LET p == CancelContainerDrag(Page)
     IN  Becomes([p EXCEPT !.canvas.selected = {n}])
  /\ calm' = (calm /\ Idle)
  /\ Quiet /\ UNCHANGED <<hand, drags, missed>>

\* A movement; the container of the node may grow, a moment later.
Move ==
  /\ hand.node # None /\ ~canvas.readonly
  /\ LET n == hand.node
         p == IF hand.moved THEN Page ELSE DragStart(Page, n)
         q == [p EXCEPT !.canvas.place = [x \in Nodes |-> IF x \in hand.carried THEN drags ELSE @[x]]]
     IN  \/ Becomes(q) /\ canvas' # canvas
         \/ /\ Below(canvas.parent, n) = {} /\ canvas.parent[n] # None
            /\ Becomes(GrowContainer(q, n, drags))
  /\ hand' = [hand EXCEPT !.moved = TRUE]
  /\ Quiet /\ UNCHANGED <<drags, calm, missed>>

\* The release after a movement: dragfree for each node carried, dragend for the
\* one that was held.
Orders(S) == {s \in [1..Cardinality(S) -> S] : \A i, j \in DOMAIN s : s[i] = s[j] => i = j}
Release ==
  /\ hand.node # None /\ hand.moved
  /\ \E order \in Orders(hand.carried), to \in [hand.carried -> Boxes \cup {None}],
        far, refused \in BOOLEAN :
       LET Over(p, x) == IF to[x] \in DropParents(p, x) THEN to[x] ELSE p.canvas.parent[x]
           freed[i \in 0..Len(order)] ==
             IF i = 0 THEN Page
             ELSE DragFree(freed[i - 1], order[i], Over(freed[i - 1], order[i]), far, refused)
           p == DragEnd(freed[Len(order)], hand.node)
       IN  /\ Becomes(p)
           /\ missed' = IF /\ far /\ ~refused /\ ~canvas.readonly /\ ~drag.cancelled
                              /\ hand.node \in canvas.selected
                              /\ \A x \in canvas.selected :
                                   x \in DOMAIN drag.origin /\ drag.origin[x].parent = canvas.parent[x]
                        THEN {x \in hand.carried \cap canvas.selected :
                                 /\ SelectedForReparent(Page, x)
                                 /\ to[x] \notin hand.carried
                                 /\ p.canvas.parent[x] # to[x]}
                        ELSE {}
  /\ hand' = NoHand
  /\ Quiet /\ UNCHANGED <<drags, calm>>

\* The release without a movement: a click, which selects.
Click ==
  /\ hand.node # None /\ ~hand.moved
  /\ Becomes([Page EXCEPT !.canvas.selected = {hand.node}])
  /\ hand' = NoHand
  /\ Quiet /\ UNCHANGED <<drags, calm, missed>>

\* A box drawn around nodes, or Ctrl+A.
SelectNodes ==
  /\ Free
  /\ \E S \in SUBSET Nodes : Becomes(NormalizeSelection([Page EXCEPT !.canvas.selected = S]))
  /\ canvas' # canvas
  /\ Quiet /\ UNCHANGED <<hand, drags, calm, missed>>

-----------------------------------------------------------------------------
(* Keys and modes.                                                          *)

\* Escape cancels the drag, and deselects.
Escape ==
  /\ LET p == CancelContainerDrag(Page)
     IN  Becomes([p EXCEPT !.canvas.selected = {}])
  /\ calm' = (calm /\ Idle)
  /\ Quiet /\ UNCHANGED <<hand, drags, missed>>

PointerCancel ==
  /\ resize.node = None
  /\ Becomes(CancelContainerDrag(Page))
  /\ calm' = (calm /\ Idle)
  /\ Quiet /\ UNCHANGED <<hand, drags, missed>>

ModeTransition(p) ==
  IF p.drag.inProgress THEN [p EXCEPT !.drag.deferred = TRUE] ELSE CancelContainerDrag(p)

StopResize(p) == IF resize.node = None THEN p
                 ELSE [p EXCEPT !.canvas.size[resize.node] = resize.from]

\* The button has the autosave stored before it changes the mode.
SetViewMode ==
  /\ ~canvas.readonly /\ ~due
  /\ Becomes(StopResize([ModeTransition(Page) EXCEPT !.canvas.readonly = TRUE]))
  /\ resize' = NoResize
  /\ calm' = (calm /\ Idle /\ resize.node = None)
  /\ UNCHANGED <<saved, loaded, hand, drags, missed>>

SetEditMode ==
  /\ canvas.readonly
  /\ Becomes([ModeTransition(Page) EXCEPT !.canvas.readonly = FALSE])
  /\ calm' = (calm /\ Idle)
  /\ Quiet /\ UNCHANGED <<hand, drags, missed>>

\* Ctrl+Z, with the mouse released: an entry of a move or of a change of container.
Undo ==
  /\ Free /\ ~canvas.readonly /\ undoStack # <<>>
  /\ LET e == undoStack[Len(undoStack)].from
     IN  /\ canvas' = [canvas EXCEPT
              !.parent = [x \in Nodes |-> IF x \in DOMAIN e.parent THEN e.parent[x] ELSE @[x]],
              !.place  = [x \in Nodes |-> IF x \in DOMAIN e.place THEN e.place[x] ELSE @[x]]]
  /\ undoStack' = SubSeq(undoStack, 1, Len(undoStack) - 1)
  /\ due' = TRUE
  /\ Quiet /\ UNCHANGED <<drag, hand, drags, calm, missed>>

\* The timer of the autosave stores what the canvas shows, in the middle of a gesture too.
Autosave ==
  /\ due /\ ~canvas.readonly
  /\ due' = FALSE /\ saved' = Layout(canvas)
  /\ calm' = (calm /\ Free)
  /\ UNCHANGED <<canvas, drag, undoStack, hand, resize, drags, loaded, missed>>

-----------------------------------------------------------------------------
(* The handles of the one selected node.                                    *)

ResizePointerDown(n) ==
  /\ Free /\ ~canvas.readonly /\ canvas.selected = {n} /\ drags < MaxDrags
  /\ drags' = drags + 1
  /\ resize' = [node |-> n, from |-> canvas.size[n], last |-> canvas.size[n]]
  /\ UNCHANGED <<canvas, drag, undoStack, due, saved, hand, loaded, calm, missed>>

\* The size that the movement of the handle gives the node.
Resized(n) == [canvas EXCEPT !.size[n] = drags]

ResizePointerMove ==
  /\ resize.node # None /\ resize.last # drags
  /\ resize' = [resize EXCEPT !.last = drags]
  /\ canvas' = Resized(resize.node)
  /\ UNCHANGED <<drag, undoStack, due, saved, hand, drags, loaded, calm, missed>>

ResizePointerUp ==
  /\ resize.node # None
  /\ due' = (due \/ resize.last # resize.from)
  /\ resize' = NoResize
  /\ UNCHANGED <<canvas, drag, undoStack, saved, hand, drags, loaded, calm, missed>>

ResizePointerCancel ==
  /\ resize.node # None
  /\ Becomes(CancelContainerDrag(StopResize(Page)))
  /\ resize' = NoResize
  /\ calm' = (calm /\ Idle)
  /\ UNCHANGED <<saved, hand, drags, loaded, missed>>

Next ==
  \/ \E n \in Nodes : Press(n) \/ PressInView(n) \/ ResizePointerDown(n)
  \/ Move \/ Release \/ Click \/ SelectNodes
  \/ Escape \/ PointerCancel \/ SetViewMode \/ SetEditMode \/ Undo \/ Autosave
  \/ ResizePointerMove \/ ResizePointerUp \/ ResizePointerCancel

Spec == Init /\ [][Next]_vars

-----------------------------------------------------------------------------
(* Properties.                                                              *)

\* What is on the canvas when no gesture is under way is stored or about to be,
\* as long as no gesture was interfered with: the marks that one gesture leaves
\* for its last event never swallow the autosave of another.  (A drag that is
\* put back takes the size of the container away without a word; that is left out.)
DragsAreSaved ==
  calm /\ Free /\ ~due =>
    /\ saved.parent = canvas.parent /\ saved.place = canvas.place
    /\ \A n \in Nodes : canvas.size[n] \in {0, saved.size[n]}

\* Undoing everything gives the canvas as it was loaded back: each drag of a node
\* or of a container with what is in it has left one entry that knows all it moved.
Taken(layout, e) ==
  At([x \in Nodes |-> IF x \in DOMAIN e.parent THEN e.parent[x] ELSE layout.parent[x]],
     [x \in Nodes |-> IF x \in DOMAIN e.place THEN e.place[x] ELSE layout.place[x]])
UndoTakesBack ==
  LET n == Len(undoStack)
      back[i \in 0..n] == IF i = 0 THEN At(canvas.parent, canvas.place)
                          ELSE Taken(back[i - 1], undoStack[n + 1 - i].from)
  IN  calm /\ Free => back[n] = At(loaded.parent, loaded.place)

\* Does not hold.  Escape with no drag under way moves nothing (canvas_shortcuts.py calls it
\* "deselect all + close detail panel (read-safe)").
EscapeMovesNothing == [][Escape /\ hand.node = None => canvas'.place = canvas.place]_vars

\* Does not hold.  All the selected nodes that are dropped elsewhere move there (HT-077, the third
\* of the added scenarios).
AllParticipate == missed = {}
=============================================================================
