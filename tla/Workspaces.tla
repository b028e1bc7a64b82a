------------------------------ MODULE Workspaces ------------------------------
(***************************************************************************)
(* Workspaces, the topologies in them and the views in those.  The first   *)
(* list of an owner makes a default workspace in one commit and a default  *)
(* topology in the next; all other requests check, and commit later.       *)
(***************************************************************************)
EXTENDS FiniteSets

CONSTANTS Owners, Homes,    \* users, ids of workspaces
          Topologies, Views,
          Names, Default,   \* names; the one a list gives
          Clients,          \* requests that may be under way at a time
          None

VARIABLES owners,     \* the users that exist
          home,       \* home[w]: the row of workspace w, or None
          topology,   \* topology[t]: the row of topology t, or None
          view,       \* view[v]: its topology, or None
          used,       \* ids that a row has had
          call,       \* call[c]: the request of c
          bare        \* workspaces with a reason to hold no topology

tables == <<owners, home, topology, view, used>>
vars   == <<tables, call, bare>>

HomeRow     == [owner : Owners, name : Names]
TopologyRow == [home : Homes, name : Names]
Call   == [op : {"none", "find", "default", "furnish", "create", "rename", "delete",
                 "create_topology", "rename_topology", "delete_topology", "create_view"},
           id : Homes \cup Topologies \cup Views \cup {None},
           on : Owners \cup Homes \cup Topologies \cup {None}, name : Names \cup {None}]
NoCall == [op |-> "none", id |-> None, on |-> None, name |-> None]

ASSUME WorkspacesAssumption ==
  Default \in Names /\ None \notin HomeRow \cup TopologyRow \cup Topologies

TypeOK ==
  /\ owners \subseteq Owners
  /\ home \in [Homes -> HomeRow \cup {None}]
  /\ topology \in [Topologies -> TopologyRow \cup {None}]
  /\ view \in [Views -> Topologies \cup {None}]
  /\ used \subseteq Homes \cup Topologies \cup Views
  /\ call \in [Clients -> Call] /\ bare \subseteq Homes

Init ==
  /\ owners = Owners
  /\ home = [w \in Homes |-> None] /\ topology = [t \in Topologies |-> None]
  /\ view = [v \in Views |-> None] /\ used = {}
  /\ call = [c \in Clients |-> NoCall] /\ bare = {}

Stored(table)  == {x \in DOMAIN table : table[x] # None}
Owned(u)       == {w \in Stored(home) : home[w].owner = u}
TopologiesOf(w) == {t \in Stored(topology) : topology[t].home = w}

\* The unique constraints of the two tables.
NameFreeNot(w, u, n) == TRUE
NameFree(w, u, n)    == \A x \in Owned(u) \ {w} : home[x].name # n
TitleFreeAnywhere(t, w, n) == \A x \in Stored(topology) \ {t} : topology[x].name # n
TitleFree(t, w, n)   == \A x \in TopologiesOf(w) \ {t} : topology[x].name # n

-----------------------------------------------------------------------------
\* Ids are new: none that a row has had, none that a request has drawn.
New(S) == {x \in S \ used : \A c \in Clients : call[c].id # x}

Start(c, op, id, on, name) ==
  /\ call[c] = NoCall
  /\ call' = [call EXCEPT ![c] = [op |-> op, id |-> id, on |-> on, name |-> name]]
  /\ UNCHANGED <<tables, bare>>

Done(c) == call' = [call EXCEPT ![c] = NoCall]
Proceed(c, op) == call' = [call EXCEPT ![c].op = op]

\* Rollback, and an answer of 404, 409 or 500; or an answer without a write.
Answer(c) == Done(c) /\ UNCHANGED <<tables, bare>>

Put(table, x, row) == [table EXCEPT ![x] = row]
Drop(table, gone)  == [x \in DOMAIN table |-> IF x \in gone THEN None ELSE table[x]]

\* ON DELETE CASCADE: topologies go with their workspace, views with theirs.
Cascade(ws, ts) ==
  LET below == ts \cup UNION {TopologiesOf(w) : w \in ws}
  IN  /\ home' = Drop(home, ws)
      /\ topology' = Drop(topology, below)
      /\ view' = [v \in Views |-> IF view[v] \in below THEN None ELSE view[v]]

-----------------------------------------------------------------------------
(* GET /workspaces                                                          *)

\* The owner has none: the list looks for the default one, and makes it.
ListSummaries(c) ==
  \E u \in owners, w \in New(Homes) :
    Owned(u) = {} /\ Start(c, "find", w, u, Default)

GetOrCreateDefault(c) ==
  /\ call[c].op = "find"
  /\ IF NameFree(call[c].id, call[c].on, Default)
     THEN Proceed(c, "default") /\ UNCHANGED <<tables, bare>>
     ELSE Answer(c)

CommitDefault(c) ==
  LET r == call[c]
  IN /\ r.op = "default"
     /\ IF r.on \in owners /\ NameFree(r.id, r.on, Default)
        THEN /\ home' = Put(home, r.id, [owner |-> r.on, name |-> Default])
             /\ used' = used \cup {r.id}
             /\ Proceed(c, "furnish")
             /\ UNCHANGED <<owners, topology, view, bare>>
        ELSE Answer(c)

\* The row is read anew after the commit; without it the request fails.  A
\* topology of the name is good enough.
CommitDefaultTopology(c) ==
  LET w == call[c].id
  IN /\ call[c].op = "furnish"
     /\ \/ /\ w \in Stored(home) /\ TitleFree(None, w, Default)
           /\ \E t \in New(Topologies) :
                /\ topology' = Put(topology, t, [home |-> w, name |-> Default])
                /\ used' = used \cup {t}
           /\ Done(c)
           /\ UNCHANGED <<owners, home, view, bare>>
        \/ (w \notin Stored(home) \/ ~TitleFree(None, w, Default)) /\ Answer(c)

-----------------------------------------------------------------------------
(* Workspaces                                                               *)

Create(c) ==
  \E u \in owners, w \in New(Homes), n \in Names :
    NameFree(w, u, n) /\ Start(c, "create", w, u, n)

CommitCreate(c) ==
  LET r == call[c]
  IN /\ r.op = "create"
     /\ IF r.on \in owners /\ NameFree(r.id, r.on, r.name)
        THEN /\ home' = Put(home, r.id, [owner |-> r.on, name |-> r.name])
             /\ used' = used \cup {r.id} /\ bare' = bare \cup {r.id}
             /\ Done(c)
             /\ UNCHANGED <<owners, topology, view>>
        ELSE Answer(c)

Rename(c) ==
  \E w \in Stored(home), n \in Names :
    NameFree(w, home[w].owner, n) /\ Start(c, "rename", w, None, n)

CommitRename(c) ==
  LET r == call[c]
  IN /\ r.op = "rename"
     /\ IF r.id \in Stored(home) /\ NameFree(r.id, home[r.id].owner, r.name)
        THEN /\ home' = [home EXCEPT ![r.id].name = r.name]
             /\ Done(c)
             /\ UNCHANGED <<owners, topology, view, used, bare>>
        ELSE Answer(c)

Delete(c) == \E w \in Stored(home) : Start(c, "delete", w, None, None)

CommitDelete(c) ==
  /\ call[c].op = "delete"
  /\ Cascade({call[c].id}, {})
  /\ Done(c)
  /\ UNCHANGED <<owners, used, bare>>

\* The account of an owner is deleted, and everything of it.
DeleteOwner ==
  \E u \in owners :
    /\ owners' = owners \ {u}
    /\ Cascade(Owned(u), {})
    /\ UNCHANGED <<used, call, bare>>

-----------------------------------------------------------------------------
(* Topologies and views                                                     *)

CreateTopology(c) ==
  \E w \in Stored(home), t \in New(Topologies), n \in Names :
    TitleFree(t, w, n) /\ Start(c, "create_topology", t, w, n)

CommitCreateTopology(c) ==
  LET r == call[c]
  IN /\ r.op = "create_topology"
     /\ IF r.on \in Stored(home) /\ TitleFree(r.id, r.on, r.name)
        THEN /\ topology' = Put(topology, r.id, [home |-> r.on, name |-> r.name])
             /\ used' = used \cup {r.id}
             /\ Done(c)
             /\ UNCHANGED <<owners, home, view, bare>>
        ELSE Answer(c)

RenameTopology(c) ==
  \E t \in Stored(topology), n \in Names :
    /\ TitleFree(t, topology[t].home, n)
    /\ Start(c, "rename_topology", t, None, n)

CommitRenameTopology(c) ==
  LET r == call[c]
  IN /\ r.op = "rename_topology"
     /\ IF r.id \in Stored(topology) /\ TitleFree(r.id, topology[r.id].home, r.name)
        THEN /\ topology' = [topology EXCEPT ![r.id].name = r.name]
             /\ Done(c)
             /\ UNCHANGED <<owners, home, view, used, bare>>
        ELSE Answer(c)

DeleteTopology(c) ==
  \E t \in Stored(topology) : Start(c, "delete_topology", t, None, None)

CommitDeleteTopology(c) ==
  LET t == call[c].id
  IN /\ call[c].op = "delete_topology"
     /\ Cascade({}, {t})
     /\ bare' = bare \cup {w \in Stored(home) : t \in TopologiesOf(w)}
     /\ Done(c)
     /\ UNCHANGED <<owners, used>>

CreateView(c) ==
  \E t \in Stored(topology), v \in New(Views) : Start(c, "create_view", v, t, None)

CommitCreateView(c) ==
  LET r == call[c]
  IN /\ r.op = "create_view"
     /\ IF r.on \in Stored(topology)
        THEN /\ view' = Put(view, r.id, r.on)
             /\ used' = used \cup {r.id}
             /\ Done(c)
             /\ UNCHANGED <<owners, home, topology, bare>>
        ELSE Answer(c)

\* The process stops; the requests under way are gone.
Crash ==
  /\ call' = [c \in Clients |-> NoCall]
  /\ bare' = bare \cup {call[c].id : c \in {x \in Clients : call[x].op = "furnish"}}
  /\ UNCHANGED tables

Step(c) ==
  \/ ListSummaries(c) \/ GetOrCreateDefault(c) \/ CommitDefault(c) \/ CommitDefaultTopology(c)
  \/ Create(c) \/ CommitCreate(c) \/ Rename(c) \/ CommitRename(c) \/ Delete(c) \/ CommitDelete(c)
  \/ CreateTopology(c) \/ CommitCreateTopology(c) \/ RenameTopology(c) \/ CommitRenameTopology(c)
  \/ DeleteTopology(c) \/ CommitDeleteTopology(c) \/ CreateView(c) \/ CommitCreateView(c)

Next == DeleteOwner \/ Crash \/ \E c \in Clients : Step(c)

Spec == Init /\ [][Next]_vars

-----------------------------------------------------------------------------
\* Two workspaces of an owner, or two topologies of a workspace, never share a
\* name, and every row hangs on a row that exists, whatever requests overlap.
KeysHold ==
  /\ \A w, x \in Stored(home) : home[w] = home[x] => w = x
  /\ \A t, x \in Stored(topology) : topology[t] = topology[x] => t = x
  /\ \A w \in Stored(home) : home[w].owner \in owners
  /\ \A t \in Stored(topology) : topology[t].home \in Stored(home)
  /\ \A v \in Stored(view) : view[v] \in Stored(topology)

\* The workspace that a first list has made holds a topology as soon as the
\* request has ended, unless the process stopped between the two commits or a
\* topology of it was deleted: two first lists at once do not leave one empty.
DefaultIsFurnished ==
  \A w \in Stored(home) \ bare :
    \/ TopologiesOf(w) # {}
    \/ \E c \in Clients : call[c].op = "furnish" /\ call[c].id = w

\* Names and keys hold, and the first workspace gets its topology
\* (workspace_service.py, topology_service.py).
WorkspacesHold == TypeOK /\ KeysHold /\ DefaultIsFurnished

-----------------------------------------------------------------------------
(* What is known of the requests under way: an id that one has drawn for a  *)
(* row to come is neither a row's nor another's.                            *)

Drawing == {"find", "default", "create", "create_topology", "create_view"}

Fits(r) ==
  /\ r.op \in {"find", "default", "furnish", "create", "rename"} => r.id \in Homes
  /\ r.op \in {"create_topology", "rename_topology"} => r.id \in Topologies
  /\ r.op = "create_view" => r.id \in Views
  /\ r.op \in {"create", "rename", "create_topology", "rename_topology"} => r.name \in Names

CallsInv ==
  \A c \in Clients :
    /\ Fits(call[c])
    /\ call[c].op \in Drawing =>
         /\ call[c].id \notin used
         /\ \A x \in Clients : call[x].op \in Drawing /\ call[x].id = call[c].id => x = c

UsedInv == Stored(home) \cup Stored(topology) \cup Stored(view) \subseteq used

WInv == TypeOK /\ KeysHold /\ DefaultIsFurnished /\ CallsInv /\ UsedInv
===============================================================================
