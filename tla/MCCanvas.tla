------------------------------- MODULE MCCanvas -------------------------------
(***************************************************************************)
(* The canvas for TLC, in one run: its undo stack, its containers, drafts  *)
(* that become devices, gestures of the mouse, what the server keeps of a  *)
(* deleted device to undo that, and connections with the panel of an edge. *)
(* As in MCInventory a behaviour is one of one part; the others rest, and  *)
(* CanvasGestures is Off.                                                  *)
(***************************************************************************)
EXTENDS Connections, CanvasUndo, DraftPublish, Containers, UndoStack, TLC

CONSTANTS x1, x2, x3,   \* symmetric: ids that the server gives
          y1, y2,       \* symmetric: nodes of the canvas
          z1, z2, \* symmetric: drafts, requests
          p1, p2, n1, n2, Off,
          MaxSteps, MaxDrags

VARIABLES part,
  cg_canvas, drag, cg_undoStack, due, saved, hand, resize, drags, loaded, calm,
  missed                                                      \* CanvasGestures

G == INSTANCE CanvasGestures WITH Nodes <- {y1, y2}, Boxes <- {y1, y2},
       canvas <- cg_canvas, undoStack <- cg_undoStack

gvars == <<cg_canvas, drag, cg_undoStack, due, saved, hand, resize, drags, loaded,
           calm, missed>>
allvars == <<part, stackVars, nestVars, gvars, publishVars, undoVars, vars>>

\* Two devices without a connection, and no action.
SOff == StackInit /\ inventory.link = NoId

GOff == /\ cg_canvas = Off /\ drag = Off /\ cg_undoStack = Off /\ due = Off
        /\ saved = Off /\ hand = Off /\ resize = Off /\ drags = Off /\ loaded = Off
        /\ calm = Off /\ missed = Off
\* A canvas on which no device is in another, and no move.
COff == NestInit /\ \A d \in DeviceNodes : nested.parent[d] = NoNode

\* A canvas without nodes, and no request to publish one.
DOff == /\ server = [device |-> {}, link |-> {}] /\ shown = {} /\ drawn = {} /\ joined = {}
        /\ reqs = [r \in Requests |-> Idle] /\ used = {} /\ removed = {}
        /\ source = [d \in DeviceIds |-> NoDraft] /\ edits = 0 /\ lost = {} /\ refused = {}

\* A device without attachments, and no request on it.
FOff == UndoInit

\* No connection, and no request on one.
KOff == /\ devices = Devices /\ spent = {} /\ calls = 0 /\ foreign = {}
        /\ conn = [c \in Conns |-> None] /\ edge = conn /\ asked = conn
        /\ call = [k \in Clients |-> NoCall]

MCInit ==
  \/ part = "undo"       /\ StackInit /\ COff /\ DOff /\ GOff /\ FOff /\ KOff
  \/ part = "containers" /\ NestInit /\ SOff /\ DOff /\ GOff /\ FOff /\ KOff
  \/ part = "drafts"     /\ PublishInit /\ SOff /\ COff /\ GOff /\ FOff /\ KOff
  \/ part = "gestures"   /\ G!Init /\ SOff /\ COff /\ DOff /\ FOff /\ KOff
  \/ part = "files"      /\ UndoInit /\ SOff /\ COff /\ DOff /\ GOff /\ KOff
  \/ part = "edges"      /\ Init   /\ SOff /\ COff /\ DOff /\ GOff /\ FOff

Undoing    == part = "undo"       /\ StackNext /\ UNCHANGED <<part, nestVars, publishVars, gvars, undoVars, vars>>
Containing == part = "containers" /\ NestNext /\ UNCHANGED <<part, stackVars, publishVars, gvars, undoVars, vars>>
                /\ moves' + others' <= MaxSteps
Publishing == part = "drafts"     /\ PublishNext /\ UNCHANGED <<part, stackVars, nestVars, gvars, undoVars, vars>>
Dragging   == part = "gestures"   /\ G!Next /\ UNCHANGED <<part, stackVars, nestVars, publishVars, undoVars, vars>>
Restoring  == part = "files"      /\ UndoNext /\ UNCHANGED <<part, stackVars, nestVars, publishVars, gvars, vars>>
                /\ \A l \in Immutable : layout'[l].stored    \* a bound: none of these goes
Connecting == part = "edges"      /\ Next   /\ UNCHANGED <<part, stackVars, nestVars, publishVars, gvars, undoVars>>

MCNext == Undoing \/ Containing \/ Publishing \/ Dragging \/ Restoring \/ Connecting

MCSpec == MCInit /\ [][MCNext]_allvars

Symmetry == Permutations({x1, x2, x3}) \cup Permutations({y1, y2})
              \cup Permutations({z1, z2})
-----------------------------------------------------------------------------
\* What a gesture moved is saved in the end, and its entry takes the whole of it back
\* (canvas_js_interactions*.py, canvas_container_drag_events*.py).
GesturesHold == part = "gestures" => G!TypeOK /\ G!DragsAreSaved /\ G!UndoTakesBack
=============================================================================
