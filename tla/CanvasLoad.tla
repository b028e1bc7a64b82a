----------------------------- MODULE CanvasLoad -----------------------------
(***************************************************************************)
(* How the topology page gets what the canvas shows when it is opened.     *)
(*                                                                         *)
(* The page of a topology shows the editor's state as it was stored, with  *)
(* its drafts.  The page of a View without a topology shows the live       *)
(* inventory: it fetches the stored layout first, to know what is placed,  *)
(* then all devices, page by page, then all connections, page by page,     *)
(* each page in a transaction of its own, and keeps what is placed.        *)
(* Rows are paged by an offset in the order they were created in, so a     *)
(* deletion between two pages moves a row over the boundary, a deletion    *)
(* that is undone brings a row a second time, and a change of parents      *)
(* between two pages is seen half.                                         *)
(***************************************************************************)
EXTENDS Naturals, Sequences, SequencesExt, FiniteSets

CONSTANTS Devices, Drafts,
          Links,        \* connections
          PageLimit,    \* rows of a page
          MaxChanges,   \* bound on what others change
          None

VARIABLES devices,   \* the inventory: device rows in the order they were created in
          links,     \* and connection rows
          layout,    \* the stored layout
          load,      \* the load under way
          canvas,    \* what is shown
          changes,
          steady     \* ghost: nothing has changed since the load began

vars == <<devices, links, layout, load, canvas, changes, steady>>

Ids == Devices \cup Drafts
Device(d, parent) == [id |-> d, parent |-> parent]
Link(k, a, b) == [id |-> k, source |-> a, target |-> b]
IdsOf(s) == {s[i].id : i \in DOMAIN s}
Edges == [id : Links, source : Devices, target : Devices]

\* The layout is absent, or lists nodes and edges; a node that was moved into a
\* container after it was drawn comes before its container or after it.
NoLayout == [stored |-> FALSE, nodes |-> <<>>, edges |-> <<>>, collapsed |-> {}]
NoLoad == [step |-> "idle", layout |-> NoLayout, nodes |-> <<>>, edges |-> <<>>, page |-> 0]
Nothing == [nodes |-> <<>>, edges |-> {}, saved |-> {}, collapsed |-> {},
            live |-> FALSE]

TypeOK ==
  /\ IdsOf(devices) \subseteq Devices /\ Len(devices) = Cardinality(IdsOf(devices))
  /\ \A i \in DOMAIN devices : devices[i].parent \in IdsOf(devices) \cup {None}
  /\ Range(links) \subseteq Edges /\ Len(links) = Cardinality(IdsOf(links))
  /\ \A i \in DOMAIN links : {links[i].source, links[i].target} \subseteq IdsOf(devices)
  /\ load.step \in {"idle", "devices", "connections"} /\ load.page \in Nat
  /\ IdsOf(canvas.nodes) \subseteq Ids /\ canvas.saved \subseteq Ids
  /\ changes \in 0..MaxChanges /\ {steady, canvas.live} \subseteq BOOLEAN

Forest(nodes) ==
  \A S \in SUBSET IdsOf(nodes) :
     S # {} => \E i \in DOMAIN nodes : nodes[i].id \in S /\ nodes[i].parent \notin S
NodeLists(S) ==
  {n \in {[i \in DOMAIN o |-> Device(o[i], p[o[i]])] :
            o \in SetToAllKPermutations(S), p \in [S -> S \cup {None}]} :
     Forest(n) /\ \A i \in DOMAIN n : n[i].parent \in IdsOf(n) \cup {None}}

Init ==
  /\ devices \in {n \in NodeLists(Devices) : Len(n) = Cardinality(Devices)}
  /\ \E a, b \in Devices, k \in Links : a # b /\ links = <<Link(k, a, b)>>
  /\ layout \in {NoLayout} \cup
       {[stored |-> TRUE, nodes |-> n, edges |-> <<>>, collapsed |-> c] :
          n \in NodeLists(Ids), c \in {{}} \cup {{d} : d \in Devices}}
  /\ load = NoLoad /\ canvas = Nothing /\ changes = 0 /\ steady = TRUE

-----------------------------------------------------------------------------
(* What is done with the rows that were fetched.                            *)

\* Variant: the nodes stay in the order they were fetched in.
TopologicalSortNot(nodes) == nodes

\* A device that was fetched twice counts once, as it was fetched last.
Once(nodes) ==
  LET first == SelectSeq([i \in DOMAIN nodes |-> i],
                         LAMBDA i : \A j \in 1..i - 1 : nodes[j].id # nodes[i].id)
      last(x) == CHOOSE i \in DOMAIN nodes : nodes[i].id = x /\ \A j \in i + 1..Len(nodes) :
                                                nodes[j].id # x
  IN  [k \in DOMAIN first |-> nodes[last(nodes[first[k]].id)]]

\* Parents come before their children; nodes of a circle come last, as they are.
TopologicalSort(nodes) ==
  LET once == Once(nodes)
      over(e) == {nodes[i].parent : i \in {j \in DOMAIN nodes : nodes[j].id = e.id}} \cap IdsOf(nodes)
      queue[i \in 0..Len(once)] ==
        IF i = 0 THEN SelectSeq(once, LAMBDA e : over(e) = {})
        ELSE LET q == queue[i - 1]
             IN  IF i > Len(q) THEN q
                 ELSE q \o SelectSeq(once, LAMBDA e : /\ q[i].id \in over(e)
                                                      /\ over(e) \subseteq IdsOf(SubSeq(q, 1, i)))
      sorted == queue[Len(once)]
  IN  sorted \o SelectSeq(once, LAMBDA e : e.id \notin IdsOf(sorted))

\* The devices on the layout, and the layout without its drafts.
PublishedIds(lay) == IdsOf(lay.nodes) \ Drafts
PruneDrafts(lay) == [lay EXCEPT !.nodes = SelectSeq(@, LAMBDA e : e.id \notin Drafts)]

\* Variant: a layout with no device on it counts as no layout.
IncludesUnlessEmpty(lay, d) == d \in PublishedIds(lay) \/ PublishedIds(lay) = {}

\* Without a layout every device is shown.
Includes(lay, d) == ~lay.stored \/ d \in PublishedIds(lay)

PageOf(rows, n) == SubSeq(rows, (n - 1) * PageLimit + 1,
                          IF n * PageLimit < Len(rows) THEN n * PageLimit ELSE Len(rows))

\* Cytoscape leaves out a parent that is not there, or that would close a circle.
Kept(nodes) ==
  LET kept[i \in 0..Len(nodes)] ==
        IF i = 0 THEN [x \in IdsOf(nodes) |-> None]
        ELSE LET p == nodes[i].parent
                 up[j \in 0..Len(nodes)] == IF j = 0 THEN p
                   ELSE IF up[j - 1] \in IdsOf(nodes) THEN kept[i - 1][up[j - 1]] ELSE None
             IN  IF p \notin IdsOf(nodes) \/ \E j \in 0..Len(nodes) : up[j] = nodes[i].id
                 THEN kept[i - 1] ELSE [kept[i - 1] EXCEPT ![nodes[i].id] = p]
  IN  [i \in DOMAIN nodes |-> Device(nodes[i].id, kept[Len(nodes)][nodes[i].id])]

\* Shown: where the layout has them, collapsed as it says.  Cytoscape takes an edge once.
InitCanvas(nodes, edges, lay, live) ==
  [nodes |-> Kept(nodes), edges |-> Range(edges), saved |-> IdsOf(nodes) \cap IdsOf(lay.nodes),
   collapsed |-> IdsOf(nodes) \cap lay.collapsed, live |-> live]

-----------------------------------------------------------------------------
(* The load.                                                                *)

\* A topology: the stored state, whatever has become of its devices.
OpenTopology ==
  /\ load = NoLoad /\ canvas = Nothing /\ layout.stored
  /\ canvas' = InitCanvas(TopologicalSort(layout.nodes), layout.edges, layout, FALSE)
  /\ UNCHANGED <<devices, links, layout, load, changes, steady>>

\* A View: the layout that was asked for, or the latest, or none.
OpenView ==
  /\ load = NoLoad /\ canvas = Nothing
  /\ load' = [NoLoad EXCEPT !.step = "devices", !.layout = PruneDrafts(layout), !.page = 1]
  /\ steady' = TRUE
  /\ UNCHANGED <<devices, links, layout, canvas, changes>>

FetchDevices ==
  /\ load.step = "devices"
  /\ LET page == PageOf(devices, load.page)
         all  == load.nodes \o SelectSeq(page, LAMBDA e : Includes(load.layout, e.id))
     IN  load' = IF Len(page) < PageLimit
                 THEN [load EXCEPT !.step = "connections", !.nodes = TopologicalSort(all),
                                   !.page = 1]
                 ELSE [load EXCEPT !.nodes = all, !.page = @ + 1]
  /\ UNCHANGED <<devices, links, layout, canvas, changes, steady>>

\* Variant: an edge needs one of its ends.
PlacedOneEnd(e, nodes) == {e.source, e.target} \cap IdsOf(nodes) # {}

Placed(e, nodes) == {e.source, e.target} \subseteq IdsOf(nodes)

FetchConnections ==
  /\ load.step = "connections"
  /\ LET page == PageOf(links, load.page)
         all  == load.edges \o SelectSeq(page, LAMBDA e : ~load.layout.stored
                                                          \/ Placed(e, load.nodes))
     IN  IF Len(page) < PageLimit
         THEN /\ canvas' = InitCanvas(load.nodes, all, load.layout, TRUE)
              /\ load' = NoLoad
         ELSE /\ load' = [load EXCEPT !.edges = all, !.page = @ + 1]
              /\ UNCHANGED canvas
  /\ UNCHANGED <<devices, links, layout, changes, steady>>

\* A request that fails leaves the canvas empty.
LoadFails ==
  /\ load # NoLoad
  /\ load' = NoLoad
  /\ UNCHANGED <<devices, links, layout, canvas, changes, steady>>

-----------------------------------------------------------------------------
(* Others: a device that is created comes last, with the id it had when its *)
(* deletion is undone; devices take their connections along, and change     *)
(* their parents.                                                           *)

Change == /\ changes < MaxChanges /\ changes' = changes + 1
          /\ steady' = (load = NoLoad /\ canvas = Nothing)
          /\ UNCHANGED <<layout, load, canvas>>

CreateDevice ==
  /\ Change
  /\ \E d \in Devices \ IdsOf(devices) : devices' = Append(devices, Device(d, None))
  /\ UNCHANGED links

DeleteDevice ==
  /\ Change
  /\ \E d \in IdsOf(devices) :
       /\ \A i \in DOMAIN devices : devices[i].parent # d
       /\ devices' = SelectSeq(devices, LAMBDA e : e.id # d)
       /\ links' = SelectSeq(links, LAMBDA e : d \notin {e.source, e.target})

MoveDevice ==
  /\ Change
  /\ \E i \in DOMAIN devices, p \in IdsOf(devices) \cup {None} :
       /\ devices' = [devices EXCEPT ![i].parent = p]
       /\ p # devices[i].parent /\ Forest(devices')
  /\ UNCHANGED links

Connect ==
  /\ Change
  /\ \E k \in Links \ IdsOf(links), a, b \in IdsOf(devices) :
       a # b /\ links' = Append(links, Link(k, a, b))
  /\ UNCHANGED devices

Disconnect ==
  /\ Change
  /\ \E i \in DOMAIN links : links' = RemoveAt(links, i)
  /\ UNCHANGED devices

Next ==
  \/ OpenTopology \/ OpenView \/ FetchDevices \/ FetchConnections \/ LoadFails
  \/ CreateDevice \/ DeleteDevice \/ MoveDevice \/ Connect \/ Disconnect

Spec == Init /\ [][Next]_vars

-----------------------------------------------------------------------------
(* Properties.                                                              *)

\* When nothing changes during the load, the page of a View shows exactly the
\* devices of the layout that exist, in their containers as far as those are shown,
\* and every connection between two of them.
ShowsTheInventory ==
  canvas.live /\ steady =>
    LET on == {d \in IdsOf(devices) : layout.stored => d \in IdsOf(layout.nodes)}
    IN  /\ Range(canvas.nodes) =
             {Device(e.id, IF e.parent \in on THEN e.parent ELSE None) :
                e \in {x \in Range(devices) : x.id \in on}}
        /\ canvas.edges = {e \in Range(links) : {e.source, e.target} \subseteq on}

\* Whatever changes meanwhile, the canvas gets each device once, every container
\* before what is in it, except in a circle that no inventory had, and
\* with a layout no connection without both its ends and no device that has no place.
ShownIsClosed ==
  LET n == IF load.step = "connections" THEN load.nodes ELSE canvas.nodes
      circle == {x \in IdsOf(n) : \E S \in SUBSET IdsOf(n) :
                   x \in S /\ \A i \in DOMAIN n : n[i].id \in S => n[i].parent \in S}
  IN  /\ Len(n) = Cardinality(IdsOf(n))
      /\ load.step = "connections" =>
           \A i, j \in DOMAIN n : n[i].parent = n[j].id /\ n[i].id \notin circle => j < i
      /\ load.step = "connections" /\ load.layout.stored =>
           \A i \in DOMAIN load.edges :
              {load.edges[i].source, load.edges[i].target} \subseteq IdsOf(n)
      /\ Forest(canvas.nodes) /\ layout.stored => canvas.saved = IdsOf(canvas.nodes)
=============================================================================
