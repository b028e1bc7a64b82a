------------------------------- MODULE Services -------------------------------
(***************************************************************************)
(* The services that run on devices and the dependencies between them, as  *)
(* service_service keeps them: every request reads without a lock, checks, *)
(* and commits later.                                                      *)
(***************************************************************************)
EXTENDS Naturals, FiniteSets

CONSTANTS Hosts,         \* devices
          ServiceIds,    \* ids of services
          ServiceNames,  \* names, up to their case
          Nowhere,       \* the device of an id without a row
          Callers,       \* requests that may be under way at a time
          Loads          \* which services there are at first, and which requests come

VARIABLES hosts,      \* the devices that exist
          service,    \* service[i]: device and name; Nowhere without a row
          spent,      \* ids that a row has had
          deps,       \* the table of dependencies: <<service, depends_on>>
          call,       \* call[c]: the request of c
          undo,       \* the snapshot of the last delete on the canvas
          workload     \* the workload in use

serviceTables == <<hosts, service, spent, deps>>
serviceVars   == <<hosts, service, spent, deps, call, undo, workload>>

Service  == [device : Hosts \cup {Nowhere}, name : ServiceNames \cup {Nowhere}]
Edges    == ServiceIds \X ServiceIds
Call     == [op : {"none", "create", "rename", "delete", "depend"},
             id : ServiceIds \cup {Nowhere}, row : Service, on : ServiceIds \cup {Nowhere},
             fresh : BOOLEAN]
NoRow    == [device |-> Nowhere, name |-> Nowhere]
Snapshot == [device : Hosts \cup {Nowhere}, rows : [ServiceIds -> Service],
             edges : SUBSET Edges]
NoUndo   == [device |-> Nowhere, rows |-> [i \in ServiceIds |-> NoRow], edges |-> {}]
NoCall   == [op |-> "none", id |-> Nowhere, row |-> NoRow, on |-> Nowhere,
             fresh |-> FALSE]

ASSUME ServicesAssumption ==
  /\ Nowhere \notin Hosts
  /\ \A w \in Loads :
       /\ DOMAIN w.rows \subseteq ServiceIds
       /\ \A i \in DOMAIN w.rows :
            /\ w.rows[i] \in Service /\ w.rows[i].device \in Hosts
            /\ \A j \in DOMAIN w.rows : w.rows[i] = w.rows[j] => i = j

ServicesTypeOK ==
  /\ hosts \subseteq Hosts
  /\ service \in [ServiceIds -> Service]
  /\ spent \subseteq ServiceIds
  /\ deps \subseteq Edges
  /\ call \in [Callers -> Call]
  /\ undo \in Snapshot /\ workload \in Loads

ServicesInit ==
  /\ hosts = Hosts
  /\ workload \in Loads
  /\ service = [i \in ServiceIds |-> IF i \in DOMAIN workload.rows THEN workload.rows[i] ELSE NoRow]
  /\ spent = DOMAIN workload.rows
  /\ deps = {}
  /\ call = [c \in Callers |-> NoCall]
  /\ undo = NoUndo

IsService(i)     == service[i].device # Nowhere
Rows             == {i \in ServiceIds : IsService(i)}
DeviceExists(d)  == d \in hosts

\* Names are compared without case, by the request and by the index of the
\* table.
Named(d, n)      == {i \in Rows : service[i] = [device |-> d, name |-> n]}
UniqueName(i, r) == Named(r.device, r.name) \subseteq {i}

-----------------------------------------------------------------------------
StartCall(c, r) ==
  /\ call[c] = NoCall /\ r.op \in workload.ops
  /\ call' = [call EXCEPT ![c] = [r EXCEPT !.fresh = TRUE]]
  /\ UNCHANGED <<serviceTables, undo, workload>>

\* A commit makes what the others have read stale.
Stale     == [x \in Callers |-> IF call[x] = NoCall THEN NoCall
                                ELSE [call[x] EXCEPT !.fresh = FALSE]]
Commit(c) == call' = [Stale EXCEPT ![c] = NoCall]

\* The database refuses: rollback, and an answer of 400, 409 or 500.
Refuse(c) ==
  /\ call' = [call EXCEPT ![c] = NoCall]
  /\ UNCHANGED <<serviceTables, undo, workload>>

\* POST /devices/{id}/services
Create(c) ==
  \E i \in ServiceIds \ spent, d \in hosts, n \in ServiceNames :
    /\ Named(d, n) = {}
    /\ \A x \in Callers : call[x].op = "create" => call[x].id # i
    /\ StartCall(c, [NoCall EXCEPT !.op = "create", !.id = i,
                               !.row = [device |-> d, name |-> n]])

CommitCreate(c) ==
  LET r == call[c]
  IN /\ r.op = "create"
     /\ IF DeviceExists(r.row.device) /\ UniqueName(r.id, r.row)
        THEN /\ service' = [service EXCEPT ![r.id] = r.row]
             /\ spent' = spent \cup {r.id}
             /\ Commit(c)
             /\ UNCHANGED <<hosts, deps, undo, workload>>
        ELSE Refuse(c)

\* PATCH /services/{id}: the name must be free unless it is the row's own.
Rename(c) ==
  \E i \in Rows, n \in ServiceNames :
    /\ n # service[i].name => Named(service[i].device, n) = {}
    /\ StartCall(c, [NoCall EXCEPT !.op = "rename", !.id = i,
                               !.row = [service[i] EXCEPT !.name = n]])

CommitRename(c) ==
  LET r == call[c]
  IN /\ r.op = "rename"
     /\ IF IsService(r.id) /\ UniqueName(r.id, r.row)
        THEN /\ service' = [service EXCEPT ![r.id] = r.row]
             /\ Commit(c)
             /\ UNCHANGED <<hosts, spent, deps, undo, workload>>
        ELSE Refuse(c)

\* Foreign keys: the dependencies of a service go with it (ON DELETE CASCADE).
DepsWithoutForward(gone) == {e \in deps : e[1] \notin gone}
DepsWithout(gone) == {e \in deps : e[1] \notin gone /\ e[2] \notin gone}

\* DELETE /services/{id}
Delete(c) ==
  \E i \in Rows : StartCall(c, [NoCall EXCEPT !.op = "delete", !.id = i])

CommitDelete(c) ==
  LET i == call[c].id
  IN /\ call[c].op = "delete"
     /\ service' = [service EXCEPT ![i] = NoRow]
     /\ deps' = DepsWithout({i})
     /\ Commit(c)
     /\ UNCHANGED <<hosts, spent, undo, workload>>

\* The breadth-first search from the dependency: what it visits.
Visited(graph, from) ==
  {x \in ServiceIds : \A S \in SUBSET ServiceIds :
     (from \in S /\ \A e \in graph : e[1] \in S => e[2] \in S) => x \in S}

\* Variant: the search visits only the direct dependencies.
DependencyCycleDirect(graph, i, on) == i = on \/ <<on, i>> \in graph

DependencyCycle(graph, i, on) == i = on \/ i \in Visited(graph, on)

\* POST /services/{id}/dependencies
ValidateDependencyCreation(i, on) ==
  /\ i \in Rows /\ on \in Rows
  /\ <<i, on>> \notin deps
  /\ ~DependencyCycle(deps, i, on)

AddDependency(c) ==
  \E i \in ServiceIds, on \in ServiceIds :
    /\ ValidateDependencyCreation(i, on)
    /\ StartCall(c, [NoCall EXCEPT !.op = "depend", !.id = i, !.on = on])

\* The keys of the table: both services exist, the pair is new.
CommitAddDependency(c) ==
  LET r == call[c]
  IN /\ r.op = "depend"
     /\ IF {r.id, r.on} \subseteq Rows /\ <<r.id, r.on>> \notin deps
        THEN /\ deps' = deps \cup {<<r.id, r.on>>}
             /\ Commit(c)
             /\ UNCHANGED <<hosts, service, spent, undo, workload>>
        ELSE Refuse(c)

\* DELETE /services/{id}/dependencies/{dep_id}: the row is looked up once more
\* when it is removed, so a race makes no difference: one step.
RemoveDependency ==
  \E e \in deps :
    /\ deps' = deps \ {e}
    /\ call' = Stale
    /\ UNCHANGED <<hosts, service, spent, undo, workload>>

\* A device is deleted, and its services go with it.  The canvas keeps them in
\* a snapshot: the rows and every dependency at one of them.
CapturedEdges(gone) == {e \in deps : e[1] \in gone \/ e[2] \in gone}

DeleteHost ==
  \E d \in hosts, canvas \in BOOLEAN :
    LET gone == {i \in Rows : service[i].device = d}
    IN /\ hosts' = hosts \ {d}
       /\ service' = [i \in ServiceIds |-> IF i \in gone THEN NoRow ELSE service[i]]
       /\ deps' = DepsWithout(gone)
       /\ undo' = IF canvas
                  THEN [device |-> d, edges |-> CapturedEdges(gone),
                        rows |-> [i \in ServiceIds |-> IF i \in gone THEN service[i] ELSE NoRow]]
                  ELSE undo
       /\ call' = Stale
       /\ UNCHANGED <<spent, workload>>

\* Undo inserts the rows and the dependencies of the snapshot again; the keys
\* of the serviceTables are all that is checked.
RestoreHost ==
  LET back == {i \in ServiceIds : undo.rows[i].device # Nowhere}
  IN /\ undo.device # Nowhere /\ undo.device \notin hosts
     /\ \A e \in undo.edges : {e[1], e[2]} \subseteq Rows \cup back
     /\ hosts' = hosts \cup {undo.device}
     /\ service' = [i \in ServiceIds |-> IF i \in back THEN undo.rows[i] ELSE service[i]]
     /\ deps' = deps \cup undo.edges
     /\ call' = Stale
     /\ UNCHANGED <<spent, undo, workload>>

Step(c) ==
  \/ Create(c) \/ CommitCreate(c) \/ Rename(c) \/ CommitRename(c)
  \/ Delete(c) \/ CommitDelete(c) \/ AddDependency(c) \/ CommitAddDependency(c)

ServicesNext == RemoveDependency \/ DeleteHost \/ RestoreHost \/ \E c \in Callers : Step(c)

ServicesSpec == ServicesInit /\ [][ServicesNext]_serviceVars

-----------------------------------------------------------------------------
\* GET /services/{id}?include=dependencies: what the two lists show.
DependsOn(i)   == {on \in Rows : <<i, on>> \in deps}
DependedBy(i)  == {x \in Rows : <<x, i>> \in deps}

\* The two lists of every service show every dependency there is, and no two
\* services of a device share a name, whatever deletions and renames race.
TablesAgree ==
  /\ \A e \in deps : e[2] \in DependsOn(e[1]) /\ e[1] \in DependedBy(e[2])
  /\ \A i, j \in Rows : service[i] = service[j] => i = j
  /\ \A i \in Rows : service[i].device \in hosts

\* No services depend on each other in a circle: every set of services has one
\* that depends on none of them.
AcyclicDeps(graph) ==
  \A S \in SUBSET ServiceIds : S # {} => \E i \in S : \A j \in S : <<i, j>> \notin graph

\* Only two things can close a circle: an insertion that another commit has
\* overlapped, and an undo.  The search of the request is enough otherwise.
CircleNeedsOverlapStep ==
  AcyclicDeps(deps) /\ ~AcyclicDeps(deps')
    => \/ RestoreHost
       \/ \E c \in Callers : call[c].op = "depend" /\ ~call[c].fresh
                           /\ call'[c] = NoCall
CircleNeedsOverlap == [][CircleNeedsOverlapStep]_serviceVars

\* The two lists of a service agree, and names stay unique (service_service.py).
ServicesHold == ServicesTypeOK /\ TablesAgree

-----------------------------------------------------------------------------
(* The inductive invariant.                                                 *)

\* A service stays on the device it was created on: in a request under way, and in
\* the snapshot of its device.
CallFits(r) ==
  /\ r.op = "create" => r.id \in ServiceIds \ spent /\ r.row.device \in Hosts
  /\ r.op = "rename" =>
       /\ r.id \in ServiceIds \cap spent /\ r.row.device \in Hosts
       /\ service[r.id].device \in {Nowhere, r.row.device}
       /\ undo.rows[r.id].device \in {Nowhere, r.row.device}
  /\ r.op = "delete" => r.id \in ServiceIds
  /\ r.op = "depend" =>
       /\ {r.id, r.on} \subseteq ServiceIds
       /\ r.fresh => ~DependencyCycle(deps, r.id, r.on)

CallsInv ==
  /\ \A c \in Callers : CallFits(call[c])
  /\ \A x, y \in Callers :
       call[x].op = "create" /\ call[y].op = "create" /\ call[x].id = call[y].id => x = y

\* The snapshot holds services of its device only, each name once.
Captured == {i \in ServiceIds : undo.rows[i].device # Nowhere}
UndoInv ==
  /\ Captured \subseteq spent
  /\ \A i \in Captured : undo.rows[i].device = undo.device
  /\ \A i, j \in Captured : undo.rows[i] = undo.rows[j] => i = j
  /\ \A i \in Captured : service[i].device \in {Nowhere, undo.device}

ServicesInv == ServicesHold /\ Rows \subseteq spent /\ CallsInv /\ UndoInv
=============================================================================
