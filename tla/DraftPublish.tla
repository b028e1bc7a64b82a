----------------------------- MODULE DraftPublish -----------------------------
(***************************************************************************)
(* Draft devices: nodes that only the canvas has, until they are published *)
(* to the inventory.                                                       *)
(*                                                                         *)
(* Publishing asks the server for a device; the answer puts a node for it  *)
(* in the place of the draft, with the draft's edges; and each edge both   *)
(* of whose ends are published by then is asked for as a connection.       *)
(* Nothing locks the draft while this goes on: it may be edited, deleted   *)
(* or published again.  An edge is known by its two ends.                  *)
(***************************************************************************)
EXTENDS Naturals, FiniteSets

CONSTANTS Drafts, DeviceIds,   \* ids of drafts, ids that the server gives
          Requests,          \* requests that may be under way
          MaxEdits,          \* bound on drawings, removals and writes of others
          NoDraft

ASSUME DraftPublishAssumption ==
  IsFiniteSet(Drafts) /\ IsFiniteSet(DeviceIds) /\ Drafts \cap DeviceIds = {}

Nodes == Drafts \cup DeviceIds
Pairs == {p \in SUBSET Nodes : Cardinality(p) = 2}

VARIABLES server,   \* server.device: the devices; server.link: connected pairs
          shown,    \* the nodes on the canvas
          drawn,    \* pairs with an edge that only the canvas has
          joined,   \* pairs with an edge that shows a connection
          reqs,     \* the requests
          used,     \* drafts that were ever placed, ids ever given
          source,   \* source[d]: the draft that became device d
          removed,  \* nodes that the user took off the canvas
          edits,
          lost,     \* devices that were made, but no answer said so
          refused   \* pairs to be promoted that no answer said are connected

publishVars == <<server, shown, drawn, joined, reqs, used, source, removed, edits,
                 lost, refused>>

Idle == [at |-> "none", draft |-> NoDraft, new |-> NoDraft, asked |-> {}, made |-> {}]

DraftRequest ==
  [at : {"none", "posting", "created", "refused", "promoting", "connecting"},
   draft : Drafts \cup {NoDraft}, new : DeviceIds \cup {NoDraft},
   asked : SUBSET Pairs, made : SUBSET Pairs]

PublishTypeOK ==
  /\ server \in [device : SUBSET DeviceIds, link : SUBSET Pairs]
  /\ shown \subseteq Nodes /\ drawn \subseteq Pairs /\ joined \subseteq Pairs
  /\ reqs \in [Requests -> DraftRequest]
  /\ source \in [DeviceIds -> Drafts \cup {NoDraft}] /\ removed \subseteq Nodes
  /\ lost \subseteq DeviceIds /\ refused \subseteq Pairs

\* One device is in the inventory and on the canvas.
PublishInit ==
  \E d \in DeviceIds :
    /\ server = [device |-> {d}, link |-> {}]
    /\ shown = {d} /\ drawn = {} /\ joined = {}
    /\ reqs = [r \in Requests |-> Idle]
    /\ used = {d} /\ source = [x \in DeviceIds |-> NoDraft] /\ removed = {}
    /\ edits = 0 /\ lost = {} /\ refused = {}

At(n, pairs) == {p \in pairs : n \in p}
Published(p) == p \subseteq DeviceIds
quiet == \A r \in Requests : reqs[r].at = "none"

Edit == edits < MaxEdits /\ edits' = edits + 1

-----------------------------------------------------------------------------
(* What the user does.                                                      *)

PlaceDraft(x) ==
  /\ x \in Drafts \ used
  /\ shown' = shown \cup {x} /\ used' = used \cup {x}
  /\ UNCHANGED <<server, drawn, joined, reqs, source, removed, edits, lost, refused>>

\* An edge to a draft is drawn at once.
DrawDraftEdge(p) ==
  /\ p \subseteq shown /\ ~Published(p) /\ p \notin drawn /\ Edit
  /\ drawn' = drawn \cup {p}
  /\ UNCHANGED <<server, shown, joined, reqs, used, source, removed, lost, refused>>

\* A connection of two devices is asked for; one such request at a time.
RequestConnection(p) ==
  /\ p \subseteq shown /\ Published(p) /\ Edit
  /\ \A r \in Requests : reqs[r].at # "connecting"
  /\ \E r \in Requests :
       /\ reqs[r].at = "none"
       /\ reqs' = [reqs EXCEPT ![r] = [Idle EXCEPT !.at = "connecting", !.asked = {p}]]
  /\ UNCHANGED <<server, shown, drawn, joined, used, source, removed, lost, refused>>

\* A node goes, and its edges: a draft for good, a device from this view.
RemoveNode(n) ==
  /\ n \in shown /\ Edit
  /\ shown' = shown \ {n}
  /\ drawn' = drawn \ At(n, drawn) /\ joined' = joined \ At(n, joined)
  /\ removed' = removed \cup {n}
  /\ UNCHANGED <<server, reqs, used, source, lost, refused>>

PublishDraft(x) ==
  /\ x \in shown \cap Drafts
  /\ \E r \in Requests :
       /\ reqs[r].at = "none"
       /\ reqs' = [reqs EXCEPT ![r] = [Idle EXCEPT !.at = "posting", !.draft = x]]
  /\ UNCHANGED <<server, shown, drawn, joined, used, source, removed, edits, lost, refused>>

-----------------------------------------------------------------------------
(* The server.                                                              *)

PostDevice(r) ==
  /\ reqs[r].at = "posting"
  /\ \E d \in DeviceIds \ used :
       /\ server' = [server EXCEPT !.device = @ \cup {d}]
       /\ used' = used \cup {d} /\ source' = [source EXCEPT ![d] = reqs[r].draft]
       /\ reqs' = [reqs EXCEPT ![r] = [@ EXCEPT !.at = "created", !.new = d]]
  /\ UNCHANGED <<shown, drawn, joined, removed, edits, lost, refused>>

RefuseDevice(r) ==
  /\ reqs[r].at = "posting"
  /\ reqs' = [reqs EXCEPT ![r].at = "refused"]
  /\ UNCHANGED <<server, shown, drawn, joined, used, source, removed, edits, lost, refused>>

\* The server joins a pair once: a check, and an index over both orders.
PostConnection(r, p) ==
  /\ p \in reqs[r].asked \ reqs[r].made /\ p \notin server.link /\ p \subseteq server.device
  /\ server' = [server EXCEPT !.link = @ \cup {p}]
  /\ reqs' = [reqs EXCEPT ![r].made = @ \cup {p}]
  /\ UNCHANGED <<shown, drawn, joined, used, source, removed, edits, lost, refused>>

\* The page drops p, and an edge that stood for it stays as it was drawn.
GiveUpConnection(r, p) ==
  /\ reqs' = [reqs EXCEPT ![r].asked = @ \ {p}, ![r].made = @ \ {p}]
  /\ refused' = IF reqs[r].at = "promoting" THEN refused \cup {p} ELSE refused
  /\ UNCHANGED <<server, shown, drawn, joined, used, source, removed, edits, lost>>

\* Refused, by the pair or for any other reason: nobody is told.
RefuseConnection(r, p) == p \in reqs[r].asked \ reqs[r].made /\ GiveUpConnection(r, p)

OthersConnect(p) ==
  /\ p \subseteq server.device /\ p \notin server.link /\ Edit
  /\ server' = [server EXCEPT !.link = @ \cup {p}]
  /\ UNCHANGED <<shown, drawn, joined, reqs, used, source, removed, lost, refused>>

-----------------------------------------------------------------------------
(* The answers, and those that never come.                                  *)

BuildReplacementEdges(edges, x, d) ==
  {IF x \in p THEN (p \ {x}) \cup {d} ELSE p : p \in edges}

\* Variant: the edges are looked for before the node has the new id.
PromotedNot(edges, d) == {}
\* The drawn edges of d whose ends are both published.
Promoted(edges, d) == {p \in At(d, edges) : Published(p)}

\* Variant: no node appears if the draft is gone.
ReplaceNodeIfThere(x, d) == IF x \in shown THEN (shown \ {x}) \cup {d} ELSE shown
ReplaceNode(x, d) == (shown \ {x}) \cup {d}

\* The draft's node makes way for the device's.  If it is gone, the node of
\* the device appears all the same, without edges.
ReplaceDraft(r) ==
  LET x == reqs[r].draft
      d == reqs[r].new
      lines == BuildReplacementEdges(At(x, drawn), x, d)
      all   == (drawn \ At(x, drawn)) \cup lines
      known == {p \in Promoted(all, d) : p \in joined}
  IN /\ reqs[r].at = "created"
     /\ shown' = ReplaceNode(x, d)
     /\ drawn' = all \ known
     /\ reqs' = [reqs EXCEPT ![r] = [@ EXCEPT !.at = "promoting",
                                              !.asked = Promoted(all, d) \ known]]
     /\ UNCHANGED <<server, joined, used, source, removed, edits, lost, refused>>

\* A draft that was refused stays, marked as failed.
KeepDraft(r) ==
  /\ reqs[r].at = "refused"
  /\ reqs' = [reqs EXCEPT ![r] = Idle]
  /\ UNCHANGED <<server, shown, drawn, joined, used, source, removed, edits, lost, refused>>

\* The device is there, but its answer breaks off: to the page that is a refusal,
\* and the draft stays.  A call that breaks off before the server is done ends in
\* the same canvas.  That the graph refuses a node, which is rolled back, is left out.
LoseDeviceAnswer(r) ==
  /\ reqs[r].at = "created"
  /\ reqs' = [reqs EXCEPT ![r].at = "refused"]
  /\ lost' = lost \cup {reqs[r].new}
  /\ UNCHANGED <<server, shown, drawn, joined, used, source, removed, edits, refused>>

\* The same for a connection.  One that is made after the page gave up is another
\* client's to the page: OthersConnect.
LoseConnectionAnswer(r, p) == p \in reqs[r].made /\ GiveUpConnection(r, p)

\* A connection was made: its edge replaces the drawn one, if both ends are shown.
ShowConnection(r, p) ==
  /\ p \in reqs[r].made
  /\ reqs' = [reqs EXCEPT ![r].made = @ \ {p}, ![r].asked = @ \ {p}]
  /\ IF p \subseteq shown
     THEN /\ joined' = joined \cup {p}
          /\ drawn' = IF reqs[r].at = "promoting" THEN drawn \ {p} ELSE drawn
     ELSE UNCHANGED <<joined, drawn>>
  /\ UNCHANGED <<server, shown, used, source, removed, edits, lost, refused>>

\* All answers are there: drawn edges beside a connection go.
PrunePromotedDraftEdges(r) ==
  /\ reqs[r].at \in {"promoting", "connecting"} /\ reqs[r].asked = {}
  /\ drawn' = IF reqs[r].at = "promoting"
              THEN drawn \ {p \in Promoted(drawn, reqs[r].new) : p \in joined} ELSE drawn
  /\ reqs' = [reqs EXCEPT ![r] = Idle]
  /\ UNCHANGED <<server, shown, joined, used, source, removed, edits, lost, refused>>

PublishNext ==
  \/ \E x \in Drafts : PlaceDraft(x) \/ PublishDraft(x)
  \/ \E n \in Nodes : RemoveNode(n)
  \/ \E p \in Pairs : DrawDraftEdge(p) \/ RequestConnection(p) \/ OthersConnect(p)
  \/ \E r \in Requests :
       \/ PostDevice(r) \/ RefuseDevice(r) \/ ReplaceDraft(r) \/ KeepDraft(r)
       \/ LoseDeviceAnswer(r) \/ PrunePromotedDraftEdges(r)
       \/ \E p \in Pairs :
            \/ PostConnection(r, p) \/ RefuseConnection(r, p)
            \/ ShowConnection(r, p) \/ LoseConnectionAnswer(r, p)

PublishSpec == PublishInit /\ [][PublishNext]_publishVars

-----------------------------------------------------------------------------
\* A draft is on the canvas until the user takes it off or a device made from it
\* appears ("your draft has been kept", canvas_draft_publish.py:177); at any time,
\* whatever answers are late or lost.
DraftsAreKept ==
  \A x \in Drafts \cap used :
    \/ x \in shown \cup removed
    \/ \E d \in DeviceIds : source[d] = x /\ d \in shown \cup removed

\* When no request is under way, every device that was made from a draft is on
\* the canvas unless the user took it off, and the draft is not.  A device whose
\* answer was lost is excepted: it is never on the canvas, and its draft may be
\* published once more, as another device.
PublishedIsShown ==
  /\ lost \cap shown = {}
  /\ quiet => \A d \in DeviceIds \ lost : source[d] # NoDraft =>
                /\ d \in shown \cup removed
                /\ source[d] \notin shown

\* HT-051: when both ends of a drawn edge are published the connection is made;
\* so none is left, whatever the order of the answers, but where the connection of
\* this very edge was refused or its answer lost.
NoEdgeLeftBehind ==
  quiet => \A p \in drawn : Published(p) => p \in refused

\* A draft that became a device is shown as that device, and the edges drawn to
\* the draft go over to it (canvas_draft_publish.py).
DraftsPublished == PublishTypeOK /\ DraftsAreKept /\ PublishedIsShown /\ NoEdgeLeftBehind

-----------------------------------------------------------------------------
(* The inductive invariant.                                                 *)

\* A node on the canvas has an id that was given, and an edge has both its ends.
CanvasInv ==
  /\ shown \cup removed \cup lost \subseteq used
  /\ \A p \in drawn : p \subseteq shown
  /\ \A d \in DeviceIds : source[d] # NoDraft => d \in used /\ source[d] \in used

\* A device that was created for a draft is not on the canvas before its answer,
\* and never if that is lost.
AnswersInv ==
  /\ lost \cap shown = {}
  /\ \A r \in Requests :
       /\ reqs[r].at \in {"posting", "created"} => reqs[r].draft \in Drafts \cap used
       /\ reqs[r].at = "created" =>
            /\ reqs[r].new \in DeviceIds \cap used /\ reqs[r].new \notin shown \cup lost
            /\ source[reqs[r].new] = reqs[r].draft
  /\ \A r, s \in Requests :
       reqs[r].at = "created" /\ reqs[s].at = "created" /\ reqs[r].new = reqs[s].new => r = s

\* Until the answer is there, the draft stands for the device.
LandedInv ==
  /\ DraftsAreKept
  /\ \A d \in DeviceIds \ lost : source[d] # NoDraft =>
       \/ \E r \in Requests : reqs[r].at = "created" /\ reqs[r].new = d
       \/ d \in shown \cup removed /\ source[d] \notin shown

\* An edge whose ends are both published is being asked for.
EdgesInv ==
  \A p \in drawn \ refused : Published(p) =>
    \E r \in Requests : reqs[r].at = "promoting" /\ p \in reqs[r].asked

PublishInv == PublishTypeOK /\ CanvasInv /\ AnswersInv /\ LandedInv /\ EdgesInv
===============================================================================
