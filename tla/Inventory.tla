------------------------------ MODULE Inventory ------------------------------
(***************************************************************************)
(* The device inventory and the locations: two trees of rows, and a        *)
(* reference from one into the other.  device_service and location_service *)
(* run every request in a worker thread of its own: the request reads rows *)
(* without a lock, decides, and writes in one transaction.  One step is    *)
(* the reads up to a decision, or the commit.                              *)
(***************************************************************************)
EXTENDS Naturals, FiniteSets

CONSTANTS Devices, Locations,   \* ids that rows may have
          Spare,                \* those that no row has yet
          None,                 \* the null reference
          Clients,              \* requests that may be under way at a time
          MaxVersion,           \* bound on the version of a device
          Workloads             \* sets of operations, one of them in use

ASSUME InventoryAssumption ==
  /\ None \notin Devices \cup Locations
  /\ Devices \cap Locations = {}
  /\ MaxVersion \in Nat \ {0} /\ IsFiniteSet(Devices)

VARIABLES device, location, req, offered

vars == <<device, location, req, offered>>

Ops == {"create_device", "move_device", "place_device", "delete_device",
        "create_location", "move_location", "reshape_location",
        "delete_location"}

\* A row is unused, then stored, then gone: ids are random and never come
\* back.  Names, addresses and notes of a device decide nothing here; every
\* update counts its version.
Stage     == {"unused", "stored", "gone"}
DeviceRow == [stage : Stage, version : 1..MaxVersion,
              parent : Devices \cup {None}, place : Locations \cup {None}]
NoDevice  == [stage |-> "unused", version |-> 1, parent |-> None, place |-> None]

\* What of a location is checked together: its type, whether it has
\* coordinates, and whether it has a rack or a row.
Shape       == [type : {"geo", "rack"}, coords : BOOLEAN, shelf : BOOLEAN]
LocationRow == [stage : Stage, shape : Shape, parent : Locations \cup {None}]
Rack        == [type |-> "rack", coords |-> FALSE, shelf |-> FALSE]
NoLocation  == [stage |-> "unused", shape |-> Rack, parent |-> None]

\* fresh: no other request has committed since this one read (for the
\* properties only; the code does not know it).
Request == [op : Ops \cup {"none"}, pc : {"idle", "check", "write"},
            id : Devices \cup Locations \cup {None},
            to : Devices \cup Locations \cup Shape \cup {None},
            was : Devices \cup Locations \cup Shape \cup {None},
            version : 0..MaxVersion, quoted : 0..MaxVersion, fresh : BOOLEAN]
Idle == [op |-> "none", pc |-> "idle", id |-> None, to |-> None, was |-> None,
         version |-> 0, quoted |-> 0, fresh |-> FALSE]

TypeOK ==
  /\ device \in [Devices -> DeviceRow]
  /\ location \in [Locations -> LocationRow]
  /\ req \in [Clients -> Request]
  /\ offered \in Workloads

IsDevice(d)   == d \in Devices /\ device[d].stage = "stored"
IsLocation(l) == l \in Locations /\ location[l].stage = "stored"

Init ==
  /\ device = [d \in Devices |->
                  IF d \in Spare THEN NoDevice ELSE [NoDevice EXCEPT !.stage = "stored"]]
  /\ location = [l \in Locations |->
                  IF l \in Spare THEN NoLocation ELSE [NoLocation EXCEPT !.stage = "stored"]]
  /\ req = [c \in Clients |-> Idle]
  /\ offered \in Workloads

-----------------------------------------------------------------------------
(* The trees.                                                               *)

GetParentMap         == [d \in {x \in Devices : IsDevice(x)} |-> device[d].parent]
GetLocationParentMap == [l \in {x \in Locations : IsLocation(x)} |-> location[l].parent]

\* parent_map.get: a row that is not in the map has no parent.
ParentIn(map, x) == IF x \in DOMAIN map THEN map[x] ELSE None

\* The rows a walk upwards from p comes across.
Walk(map, p) ==
  {x \in DOMAIN map \cup {p} :
     \A S \in SUBSET (DOMAIN map \cup {p}) :
       (p \in S /\ \A y \in S : ParentIn(map, y) \in S \cup {None}) => x \in S}

\* Variant: the walk stops one row above the new parent.
DetectCycleOneUp(map, x, p) == p = x \/ ParentIn(map, p) = x

\* The walk from the new parent meets the row itself, or goes in circles.
DetectCycle(map, x, p) ==
  \/ x \in Walk(map, p)
  \/ \A y \in Walk(map, p) : ParentIn(map, y) # None

DetectParentCycleOneUp(map, x, p) == DetectCycleOneUp(map, x, p)
DetectParentCycle(map, x, p) == DetectCycle(map, x, p)

CountChildren(d)    == Cardinality({x \in Devices : IsDevice(x) /\ device[x].parent = d})
GetChildren(l)      == {x \in Locations : IsLocation(x) /\ location[x].parent = l}
GetDevicesAt(l)     == {x \in Devices : IsDevice(x) /\ device[x].place = l}

\* validate_location_fields: a geo location has coordinates and no rack, a
\* rack has no coordinates.
ValidShape(s) == IF s.type = "geo" THEN s.coords /\ ~s.shelf ELSE ~s.coords

\* Only the columns that a request changes are written.  A patch of the shape
\* names some of its fields: `to` is the merged value the request validated.
Merge(stored, was, to) ==
  [type   |-> IF to.type   = was.type   THEN stored.type   ELSE to.type,
   coords |-> IF to.coords = was.coords THEN stored.coords ELSE to.coords,
   shelf  |-> IF to.shelf  = was.shelf  THEN stored.shelf  ELSE to.shelf]

-----------------------------------------------------------------------------
(* Requests.                                                                *)

Start(c, r) ==
  /\ req[c] = Idle /\ r.op \in offered
  /\ req' = [req EXCEPT ![c] = [r EXCEPT !.fresh = TRUE]]
  /\ UNCHANGED <<device, location, offered>>

\* The end of a request; a commit makes what the others read stale.
Done(c) == req' = [req EXCEPT ![c] = Idle]
Committed(c) ==
  req' = [x \in Clients |-> IF x = c THEN Idle
                            ELSE IF req[x] = Idle THEN Idle
                            ELSE [req[x] EXCEPT !.fresh = FALSE]]

\* A refused write: the session is rolled back, the answer is 409 or 500.
RaiseConflict(c) ==
  /\ Done(c)
  /\ UNCHANGED <<device, location, offered>>

AssertParentExists(p)   == p = None \/ IsDevice(p)
AssertLocationExists(l) == l = None \/ IsLocation(l)

\* What the foreign keys of the tables require of a row at its commit.
DeviceKeysHold(row)   == AssertParentExists(row.parent) /\ AssertLocationExists(row.place)
LocationKeysHold(row) == AssertLocationExists(row.parent)

\* POST /devices
CreateDevice(c) ==
  \E d \in Devices, p \in Devices \cup {None}, l \in Locations \cup {None} :
    /\ device[d].stage = "unused" /\ AssertParentExists(p) /\ AssertLocationExists(l)
    /\ \A x \in Clients : req[x].op = "create_device" => req[x].id # d
    /\ Start(c, [Idle EXCEPT !.op = "create_device", !.pc = "write",
                             !.id = d, !.to = p, !.was = l])

CommitCreateDevice(c) ==
  LET r   == req[c]
      row == [stage |-> "stored", version |-> 1, parent |-> r.to, place |-> r.was]
  IN /\ r.op = "create_device"
     /\ IF DeviceKeysHold(row)
        THEN /\ device' = [device EXCEPT ![r.id] = row]
             /\ Committed(c)
             /\ UNCHANGED <<location, offered>>
        ELSE RaiseConflict(c)

\* PATCH /devices/{id}: the row is read first and its version compared with
\* the one the client quotes.
VersionMatchesNot(row, quoted) == quoted <= row.version
VersionMatches(row, quoted) == quoted = row.version

UpdateDevice(c) ==
  \E d \in Devices, quoted \in 1..MaxVersion :
    /\ IsDevice(d) /\ quoted <= device[d].version
    /\ VersionMatches(device[d], quoted)
    /\ LET r == [Idle EXCEPT !.pc = "check", !.id = d, !.quoted = quoted,
                             !.version = device[d].version]
       IN \/ \E p \in Devices \cup {None} :
               /\ p # d
               /\ Start(c, [r EXCEPT !.op = "move_device", !.to = p,
                                     !.was = device[d].parent])
          \/ \E l \in Locations \cup {None} :
               Start(c, [r EXCEPT !.op = "place_device", !.to = l,
                                  !.was = device[d].place])

ValidateParentUpdate(r) ==
  r.to # None => IsDevice(r.to) /\ ~DetectParentCycle(GetParentMap, r.id, r.to)
ValidateLocationUpdate(r) == AssertLocationExists(r.to)

PrepareDeviceUpdate(c) ==
  LET r  == req[c]
      ok == IF r.op = "move_device" THEN ValidateParentUpdate(r)
            ELSE ValidateLocationUpdate(r)
  IN /\ r.op \in {"move_device", "place_device"} /\ r.pc = "check"
     /\ req' = [req EXCEPT ![c] = IF ok THEN [r EXCEPT !.pc = "write"] ELSE Idle]
     /\ UNCHANGED <<device, location, offered>>

\* The UPDATE names the row by its id only, and writes the version that was
\* read plus one.
UpdatedDevice(r) ==
  LET row == [device[r.id] EXCEPT !.version = r.version + 1]
  IN IF r.to = r.was THEN row
     ELSE IF r.op = "move_device" THEN [row EXCEPT !.parent = r.to]
     ELSE [row EXCEPT !.place = r.to]

CommitUpdateDevice(c) ==
  LET r == req[c]
  IN /\ r.op \in {"move_device", "place_device"} /\ r.pc = "write"
     /\ r.version < MaxVersion
     /\ IF IsDevice(r.id) /\ DeviceKeysHold(UpdatedDevice(r))
        THEN /\ device' = [device EXCEPT ![r.id] = UpdatedDevice(r)]
             /\ Committed(c)
             /\ UNCHANGED <<location, offered>>
        ELSE RaiseConflict(c)

\* DELETE /devices/{id}: refused while there are children.
DeleteDevice(c) ==
  \E d \in Devices :
    /\ IsDevice(d) /\ CountChildren(d) = 0
    /\ Start(c, [Idle EXCEPT !.op = "delete_device", !.pc = "write", !.id = d])

\* The foreign key of the children (ON DELETE RESTRICT) looks again.
RestrictDeviceNot(d) == TRUE
RestrictDevice(d) == CountChildren(d) = 0

CommitDeleteDevice(c) ==
  LET d == req[c].id
  IN /\ req[c].op = "delete_device"
     /\ IF RestrictDevice(d)
        THEN /\ device' = [device EXCEPT ![d] = [NoDevice EXCEPT !.stage = "gone"]]
             /\ Committed(c)
             /\ UNCHANGED <<location, offered>>
        ELSE RaiseConflict(c)

\* POST /locations
CreateLocation(c) ==
  \E l \in Locations, s \in Shape, p \in Locations \cup {None} :
    /\ location[l].stage = "unused" /\ ValidShape(s) /\ AssertLocationExists(p)
    /\ \A x \in Clients : req[x].op = "create_location" => req[x].id # l
    /\ Start(c, [Idle EXCEPT !.op = "create_location", !.pc = "write",
                             !.id = l, !.to = p, !.was = s])

CommitCreateLocation(c) ==
  LET r   == req[c]
      row == [stage |-> "stored", shape |-> r.was, parent |-> r.to]
  IN /\ r.op = "create_location"
     /\ IF LocationKeysHold(row)
        THEN /\ location' = [location EXCEPT ![r.id] = row]
             /\ Committed(c)
             /\ UNCHANGED <<device, offered>>
        ELSE RaiseConflict(c)

\* PATCH /locations/{id}: the row is read first.
UpdateLocation(c) ==
  \E l \in Locations :
    /\ IsLocation(l)
    /\ LET r == [Idle EXCEPT !.pc = "check", !.id = l]
       IN \/ \E p \in Locations \cup {None} :
               Start(c, [r EXCEPT !.op = "move_location", !.to = p,
                                  !.was = location[l].parent])
          \/ \E s \in Shape :
               Start(c, [r EXCEPT !.op = "reshape_location", !.to = s,
                                  !.was = location[l].shape])

\* A parent that does not change is not checked.
ValidateLocationMove(r) ==
  (r.to # r.was /\ r.to # None) =>
    IsLocation(r.to) /\ ~DetectCycle(GetLocationParentMap, r.id, r.to)

PrepareLocationUpdate(c) ==
  LET r  == req[c]
      ok == IF r.op = "move_location" THEN ValidateLocationMove(r)
            ELSE ValidShape(r.to)
  IN /\ r.op \in {"move_location", "reshape_location"} /\ r.pc = "check"
     /\ req' = [req EXCEPT ![c] = IF ok THEN [r EXCEPT !.pc = "write"] ELSE Idle]
     /\ UNCHANGED <<device, location, offered>>

UpdatedLocation(r) ==
  LET row == location[r.id]
  IN IF r.op = "reshape_location"
     THEN [row EXCEPT !.shape = Merge(row.shape, r.was, r.to)]
     ELSE IF r.to = r.was THEN row ELSE [row EXCEPT !.parent = r.to]

CommitUpdateLocation(c) ==
  LET r == req[c]
  IN /\ r.op \in {"move_location", "reshape_location"} /\ r.pc = "write"
     /\ IF IsLocation(r.id) /\ LocationKeysHold(UpdatedLocation(r))
        THEN /\ location' = [location EXCEPT ![r.id] = UpdatedLocation(r)]
             /\ Committed(c)
             /\ UNCHANGED <<device, offered>>
        ELSE RaiseConflict(c)

\* DELETE /locations/{id}: refused while it has children or devices.
ValidateLocationDeletable(l) == GetDevicesAt(l) = {}

DeleteLocation(c) ==
  \E l \in Locations :
    /\ IsLocation(l) /\ GetChildren(l) = {} /\ ValidateLocationDeletable(l)
    /\ Start(c, [Idle EXCEPT !.op = "delete_location", !.pc = "write", !.id = l])

\* The foreign keys of locations and devices (ON DELETE RESTRICT) look again.
RestrictLocationChildrenOnly(l) == GetChildren(l) = {}
RestrictLocation(l) == GetChildren(l) = {} /\ GetDevicesAt(l) = {}

CommitDeleteLocation(c) ==
  LET l == req[c].id
  IN /\ req[c].op = "delete_location"
     /\ IF RestrictLocation(l)
        THEN /\ location' = [location EXCEPT ![l] = [NoLocation EXCEPT !.stage = "gone"]]
             /\ Committed(c)
             /\ UNCHANGED <<device, offered>>
        ELSE RaiseConflict(c)

DeviceStep(c) ==
  \/ CreateDevice(c) \/ CommitCreateDevice(c)
  \/ UpdateDevice(c) \/ PrepareDeviceUpdate(c) \/ CommitUpdateDevice(c)
  \/ DeleteDevice(c) \/ CommitDeleteDevice(c)

LocationStep(c) ==
  \/ CreateLocation(c) \/ CommitCreateLocation(c)
  \/ UpdateLocation(c) \/ PrepareLocationUpdate(c) \/ CommitUpdateLocation(c)
  \/ DeleteLocation(c) \/ CommitDeleteLocation(c)

Next == \E c \in Clients : DeviceStep(c) \/ LocationStep(c)

Spec == Init /\ [][Next]_vars

-----------------------------------------------------------------------------
(* Properties.                                                              *)

\* A forest: every set of rows has a member whose parent is outside of it.
Grounded(map) ==
  \A S \in SUBSET DOMAIN map :
    S # {} => \E x \in S : map[x] \notin S

DeviceForest   == Grounded(GetParentMap)
LocationForest == Grounded(GetLocationParentMap)
ShapesValid    == \A l \in Locations : IsLocation(l) => ValidShape(location[l].shape)

\* No row refers to a row that is gone, whatever was deleted between the check
\* of a request and its commit.
NothingHangsOnDeleted ==
  /\ \A d \in Devices : IsDevice(d) => DeviceKeysHold(device[d])
  /\ \A l \in Locations : IsLocation(l) => LocationKeysHold(location[l])

\* A commit that no other commit overlapped.
FreshCommit(c) == req[c].pc = "write" /\ req[c].fresh /\ req'[c] = Idle

\* The checks of one request are enough if no other commits in between: the
\* trees stay forests, and every location keeps a shape that fits its type.
FreshCommitsKeepOrderStep ==
  \A c \in Clients : FreshCommit(c) =>
    /\ DeviceForest => DeviceForest'
    /\ LocationForest => LocationForest'
    /\ ShapesValid => ShapesValid'
FreshCommitsKeepOrder == [][FreshCommitsKeepOrderStep]_vars

\* An update that no other commit overlapped replaces the version that its
\* client has seen.
FreshUpdateReplacesSeenStep ==
  \A c \in Clients :
    FreshCommit(c) /\ req[c].op \in {"move_device", "place_device"}
    /\ device'[req[c].id] # device[req[c].id]
      => /\ device[req[c].id].version = req[c].quoted
         /\ device'[req[c].id].version = req[c].quoted + 1
FreshUpdateReplacesSeen == [][FreshUpdateReplacesSeenStep]_vars

\* Nothing is left inside what was deleted (device_service.py, location_service.py).
InventoryHolds == TypeOK /\ NothingHangsOnDeleted

\* A commit that no other overlapped closes no circle of parents, and replaces the
\* version of a device that its client has seen (device_update_service_support.py,
\* location_service.py).
FreshCommitsHold == [][FreshCommitsKeepOrderStep /\ FreshUpdateReplacesSeenStep]_vars

\* doc/stories/HT-021.md:38: no cycles allowed in the containment of devices.
NoContainmentCycle == DeviceForest
=============================================================================
