--------------------------- MODULE Inventory_proofs ---------------------------
(***************************************************************************)
(* The trees of the inventory, and the services with their dependencies, for any *)
(* number of rows and requests.                                            *)
(*                                                                         *)
(* A walk upwards from the new parent that does not meet the row stays in  *)
(* a set that is closed under the parents and has not the row in it.  If   *)
(* the move made a circle, the part of the circle in that set would be one *)
(* already, without the move.  A search along the dependencies works the same *)
(* way: what it visits is closed, and a circle through the new edge would leave *)
(* a circle outside.  No induction is needed.                              *)
(***************************************************************************)
EXTENDS Inventory, Services, FiniteSetTheorems, TLAPS

(***************************************************************************)
(* Devices and locations (Inventory).                                      *)
(***************************************************************************)

Parent == Devices \cup {None}
Place  == Locations \cup {None}

Creating == {"create_device", "create_location"}

\* A new id belongs to one request and to no row; the others name a row.
DeviceRequest(r) ==
  /\ r.op = "create_device" =>
       r.id \in Devices /\ device[r.id].stage = "unused"
       /\ r.to \in Parent /\ r.was \in Place
  /\ r.op \in {"move_device", "place_device", "delete_device"} =>
       r.id \in Devices /\ device[r.id].stage # "unused"
  /\ r.op = "move_device" => r.to \in Parent /\ r.was \in Parent
  /\ r.op = "place_device" => r.to \in Place /\ r.was \in Place

LocationRequest(r) ==
  /\ r.op = "create_location" =>
       r.id \in Locations /\ location[r.id].stage = "unused"
       /\ r.to \in Place /\ r.was \in Shape /\ ValidShape(r.was)
  /\ r.op \in {"move_location", "reshape_location", "delete_location"} =>
       r.id \in Locations /\ location[r.id].stage # "unused"
  /\ r.op = "move_location" => r.to \in Place /\ r.was \in Place
  /\ r.op = "reshape_location" => r.to \in Shape /\ r.was \in Shape

Requests == \A c \in Clients : DeviceRequest(req[c]) /\ LocationRequest(req[c])

IdsApart ==
  \A x, y \in Clients :
    req[x].op \in Creating /\ req[y].op = req[x].op /\ req[y].id = req[x].id => x = y

\* What a request has read, and found out, is still so.
StillSo(r) ==
  /\ r.op \in {"move_device", "place_device"} =>
       IsDevice(r.id) /\ r.version = r.quoted /\ device[r.id].version = r.version
  /\ r.op = "move_device" /\ r.pc = "write" => ValidateParentUpdate(r)
  /\ r.op = "move_location" /\ r.pc = "write" => ValidateLocationMove(r)
  /\ r.op = "reshape_location" =>
       /\ location[r.id].shape = r.was
       /\ r.pc = "write" => ValidShape(r.to)

FreshStillSo == \A c \in Clients : req[c].fresh => StillSo(req[c])

TreeInv ==
  /\ TypeOK /\ NothingHangsOnDeleted
  /\ Requests /\ IdsApart /\ FreshStillSo

-----------------------------------------------------------------------------
(* Trees.                                                                   *)

\* Fewer rows, each under the same parent: no new circle.
LEMMA FewerKeepForest ==
  ASSUME NEW old, NEW new, Grounded(old),
         DOMAIN new \subseteq DOMAIN old,
         \A x \in DOMAIN new : new[x] = old[x]
  PROVE  Grounded(new)
BY DEF Grounded

\* A row that nobody hangs on, under another row: no new circle.
LEMMA CreateKeepsForest ==
  ASSUME NEW old, NEW new, NEW d, Grounded(old),
         DOMAIN new = DOMAIN old \cup {d}, d \notin DOMAIN old,
         \A x \in DOMAIN old : new[x] = old[x] /\ old[x] # d,
         new[d] # d
  PROVE  Grounded(new)
<1>1. SUFFICES ASSUME NEW S \in SUBSET DOMAIN new, S # {},
                      \A x \in S : new[x] \in S
               PROVE  FALSE
  BY DEF Grounded
<1>2. S \ {d} \in SUBSET DOMAIN old
  BY <1>1
<1>3. S \ {d} # {}
  <2>1. CASE d \in S
    BY <1>1, <2>1
  <2>2. CASE d \notin S
    BY <1>1, <2>2
  <2> QED BY <2>1, <2>2
<1>4. \A x \in S \ {d} : old[x] \in S \ {d}
  BY <1>1, <1>2
<1> QED BY <1>2, <1>3, <1>4 DEF Grounded

\* The row moves under a row that the walk found not to be below it.
LEMMA MoveKeepsForest ==
  ASSUME NEW old, NEW new, NEW d, NEW p, Grounded(old),
         DOMAIN new = DOMAIN old, None \notin DOMAIN old,
         \A x \in DOMAIN old : x # d => new[x] = old[x],
         new[d] \in {old[d], p},
         p # None => p \in DOMAIN old /\ ~DetectCycle(old, d, p)
  PROVE  Grounded(new)
<1>1. SUFFICES ASSUME NEW S \in SUBSET DOMAIN new, S # {},
                      \A x \in S : new[x] \in S
               PROVE  FALSE
  BY DEF Grounded
<1>2. CASE d \notin S \/ new[d] = old[d]
  <2>1. \A x \in S : old[x] \in S
    BY <1>1, <1>2
  <2> QED BY <1>1, <2>1 DEF Grounded
<1>3. CASE d \in S /\ new[d] = p
  <2>1. p \in S /\ p # None /\ d \in DOMAIN old
    BY <1>1, <1>3
  <2>2. d \notin Walk(old, p)
    BY <2>1 DEF DetectCycle
  <2>3. PICK T \in SUBSET (DOMAIN old \cup {p}) :
          /\ p \in T /\ d \notin T
          /\ \A y \in T : ParentIn(old, y) \in T \cup {None}
    BY <2>1, <2>2 DEF Walk
  <2>4. S \cap T \in SUBSET DOMAIN old /\ S \cap T # {}
    BY <1>1, <2>1, <2>3
  <2>5. ASSUME NEW x \in S \cap T PROVE old[x] \in S \cap T
    <3>1. x # d /\ x \in DOMAIN old /\ old[x] \in S /\ old[x] # None
      BY <1>1, <2>3, <2>5
    <3>2. ParentIn(old, x) = old[x]
      BY <3>1 DEF ParentIn
    <3> QED BY <2>3, <2>5, <3>1, <3>2
  <2> QED BY <2>4, <2>5 DEF Grounded
<1> QED BY <1>2, <1>3

-----------------------------------------------------------------------------
(* The start.                                                               *)

LEMMA InitHolds == Init => TreeInv
<1> SUFFICES ASSUME Init PROVE TreeInv
  OBVIOUS
<1> USE InventoryAssumption
<1>1. NoDevice \in DeviceRow /\ [NoDevice EXCEPT !.stage = "stored"] \in DeviceRow
  BY DEF NoDevice, DeviceRow, Stage
<1>2. NoLocation \in LocationRow /\ [NoLocation EXCEPT !.stage = "stored"] \in LocationRow
  BY DEF NoLocation, LocationRow, Stage, Rack, Shape
<1>3. Idle \in Request
  BY DEF Idle, Request
<1>4. TypeOK
  BY <1>1, <1>2, <1>3 DEF Init, TypeOK
<1>5. NothingHangsOnDeleted
  <2>1. \A d \in Devices : device[d].parent = None /\ device[d].place = None
    BY DEF Init, NoDevice
  <2>2. \A l \in Locations : location[l].parent = None
    BY DEF Init, NoLocation
  <2> QED BY <2>1, <2>2 DEF NothingHangsOnDeleted, DeviceKeysHold, LocationKeysHold,
                            AssertParentExists, AssertLocationExists
<1>6. \A c \in Clients : req[c].op = "none" /\ req[c].fresh = FALSE
  BY DEF Init, Idle
<1> QED BY <1>4, <1>5, <1>6 DEF TreeInv, Requests, DeviceRequest, LocationRequest,
                               IdsApart, Creating, FreshStillSo

-----------------------------------------------------------------------------
(* Requests that start, go on and end.                                      *)

\* The tables stand, and every request stands or takes its next step.
LEMMA TablesStand ==
  ASSUME TreeInv, UNCHANGED <<device, location, offered>>,
         req' \in [Clients -> Request],
         \A x \in Clients : DeviceRequest(req'[x]) /\ LocationRequest(req'[x]),
         \A x \in Clients : req'[x].fresh => StillSo(req'[x]),
         IdsApart'
  PROVE  TreeInv'
<1>1. GetParentMap' = GetParentMap /\ GetLocationParentMap' = GetLocationParentMap
  BY DEF GetParentMap, GetLocationParentMap, IsDevice, IsLocation
<1>2. TypeOK'
  BY DEF TreeInv, TypeOK
<1>3. NothingHangsOnDeleted'
  BY DEF TreeInv, NothingHangsOnDeleted, DeviceKeysHold, LocationKeysHold,
         AssertParentExists, AssertLocationExists, IsDevice, IsLocation
<1>4. Requests'
  BY DEF Requests, DeviceRequest, LocationRequest
<1>5. FreshStillSo'
  BY <1>1 DEF FreshStillSo, StillSo, ValidateParentUpdate, ValidateLocationMove,
              IsDevice, IsLocation
<1> QED BY <1>2, <1>3, <1>4, <1>5 DEF TreeInv

LEMMA StartHolds ==
  ASSUME TreeInv, NEW c \in Clients, NEW r \in Request, Start(c, r),
         DeviceRequest(r), LocationRequest(r), StillSo(r),
         r.op \in Creating => \A x \in Clients : req[x].op = r.op => req[x].id # r.id
  PROVE  TreeInv'
<1> DEFINE s == [r EXCEPT !.fresh = TRUE]
<1>1. s \in Request /\ s.op = r.op /\ s.id = r.id /\ s.to = r.to /\ s.was = r.was
      /\ s.version = r.version /\ s.quoted = r.quoted /\ s.pc = r.pc
  BY DEF Request
<1>2. DeviceRequest(s) /\ LocationRequest(s) /\ StillSo(s)
  BY <1>1 DEF DeviceRequest, LocationRequest, StillSo, ValidateParentUpdate,
              ValidateLocationMove
<1>3. req \in [Clients -> Request]
  BY DEF TreeInv, TypeOK
<1>4. req' = [req EXCEPT ![c] = s] /\ UNCHANGED <<device, location, offered>>
  BY DEF Start
<1> HIDE DEF s
<1>5. req'[c] = s /\ \A x \in Clients : x # c => req'[x] = req[x]
  BY <1>3, <1>4
<1>6. req' \in [Clients -> Request]
  BY <1>1, <1>3, <1>4
<1>7. \A x \in Clients : DeviceRequest(req'[x]) /\ LocationRequest(req'[x])
  <2> TAKE x \in Clients
  <2>1. CASE x = c
    BY <1>2, <1>5, <2>1
  <2>2. CASE x # c
    <3>1. DeviceRequest(req[x]) /\ LocationRequest(req[x])
      BY DEF TreeInv, Requests
    <3> QED BY <1>5, <2>2, <3>1
  <2> QED BY <2>1, <2>2
<1>8. \A x \in Clients : req'[x].fresh => StillSo(req'[x])
  <2> TAKE x \in Clients
  <2>1. CASE x = c
    BY <1>2, <1>5, <2>1
  <2>2. CASE x # c
    <3>1. req[x].fresh => StillSo(req[x])
      BY DEF TreeInv, FreshStillSo
    <3> QED BY <1>5, <2>2, <3>1
  <2> QED BY <2>1, <2>2
<1>9. IdsApart'
  <2>1. IdsApart
    BY DEF TreeInv
  <2> QED BY <1>1, <1>5, <2>1 DEF IdsApart
<1> QED BY <1>4, <1>6, <1>7, <1>8, <1>9, TablesStand

\* A request that goes on with what it has found, or ends.
LEMMA GoesOnHolds ==
  ASSUME TreeInv, NEW c \in Clients, NEW s \in Request,
         UNCHANGED <<device, location, offered>>, req' = [req EXCEPT ![c] = s],
         DeviceRequest(s), LocationRequest(s), s.fresh => StillSo(s),
         s.op \notin Creating
  PROVE  TreeInv'
<1>3. req \in [Clients -> Request]
  BY DEF TreeInv, TypeOK
<1>5. req'[c] = s /\ \A x \in Clients : x # c => req'[x] = req[x]
  BY <1>3
<1>6. req' \in [Clients -> Request]
  BY <1>3
<1>7. \A x \in Clients : DeviceRequest(req'[x]) /\ LocationRequest(req'[x])
  <2> TAKE x \in Clients
  <2>1. CASE x = c
    BY <1>5, <2>1
  <2>2. CASE x # c
    <3>1. DeviceRequest(req[x]) /\ LocationRequest(req[x])
      BY DEF TreeInv, Requests
    <3> QED BY <1>5, <2>2, <3>1
  <2> QED BY <2>1, <2>2
<1>8. \A x \in Clients : req'[x].fresh => StillSo(req'[x])
  <2> TAKE x \in Clients
  <2>1. CASE x = c
    BY <1>5, <2>1
  <2>2. CASE x # c
    <3>1. req[x].fresh => StillSo(req[x])
      BY DEF TreeInv, FreshStillSo
    <3> QED BY <1>5, <2>2, <3>1
  <2> QED BY <2>1, <2>2
<1>9. IdsApart'
  <2>1. IdsApart
    BY DEF TreeInv
  <2> QED BY <1>5, <2>1 DEF IdsApart
<1> QED BY <1>6, <1>7, <1>8, <1>9, TablesStand

LEMMA RefusedHolds ==
  ASSUME TreeInv, NEW c \in Clients, RaiseConflict(c)
  PROVE  TreeInv'
<1>1. Idle \in Request /\ Idle.op = "none" /\ Idle.fresh = FALSE
  BY InventoryAssumption DEF Idle, Request
<1>2. DeviceRequest(Idle) /\ LocationRequest(Idle) /\ Idle.op \notin Creating
  BY <1>1 DEF DeviceRequest, LocationRequest, Creating
<1>3. req' = [req EXCEPT ![c] = Idle] /\ UNCHANGED <<device, location, offered>>
  BY DEF RaiseConflict, Done
<1> QED BY <1>1, <1>2, <1>3, GoesOnHolds

\* A commit: rows do not become unused, the row that the request creates may
\* be the only one that stops being unused, and what the others have read is
\* no longer fresh.
LEMMA CommitHolds ==
  ASSUME TreeInv, NEW c \in Clients, Committed(c), offered' = offered,
         device' \in [Devices -> DeviceRow], location' \in [Locations -> LocationRow],
         \A d \in Devices : device[d].stage # "unused" => device'[d].stage # "unused",
         \A l \in Locations : location[l].stage # "unused" => location'[l].stage # "unused",
         \A d \in Devices : device[d].stage = "unused" /\ device'[d].stage # "unused"
           => req[c].op = "create_device" /\ req[c].id = d,
         \A l \in Locations : location[l].stage = "unused" /\ location'[l].stage # "unused"
           => req[c].op = "create_location" /\ req[c].id = l,
         NothingHangsOnDeleted'
  PROVE  TreeInv'
<1>1. Idle \in Request /\ Idle.op = "none" /\ Idle.fresh = FALSE
  BY InventoryAssumption DEF Idle, Request
<1>2. req \in [Clients -> Request]
  BY DEF TreeInv, TypeOK
<1>3. \A x \in Clients :
        \/ x = c /\ req'[x] = Idle
        \/ req[x] = Idle /\ req'[x] = Idle
        \/ x # c /\ req'[x] = [req[x] EXCEPT !.fresh = FALSE]
  BY DEF Committed
<1>4. ASSUME NEW x \in Clients
      PROVE  /\ req'[x] \in Request /\ req'[x].fresh = FALSE
             /\ \/ req'[x].op = "none"
                \/ /\ x # c
                   /\ req'[x].op = req[x].op /\ req'[x].id = req[x].id
                   /\ req'[x].to = req[x].to /\ req'[x].was = req[x].was
  <2>1. req[x] \in Request
    BY <1>2
  <2>2. CASE req'[x] = Idle
    BY <1>1, <2>2
  <2>3. CASE x # c /\ req'[x] = [req[x] EXCEPT !.fresh = FALSE]
    BY <2>1, <2>3 DEF Request
  <2> QED BY <1>3, <2>2, <2>3
<1>5. req' \in [Clients -> Request]
  BY <1>4 DEF Committed
<1>6. TypeOK'
  BY <1>5 DEF TreeInv, TypeOK
<1>7. IdsApart /\ Requests
  BY DEF TreeInv
<1>8. IdsApart'
  <2> SUFFICES ASSUME NEW x \in Clients, NEW y \in Clients,
                      req'[x].op \in Creating, req'[y].op = req'[x].op,
                      req'[y].id = req'[x].id
               PROVE  x = y
    BY DEF IdsApart
  <2>1. req'[x].op # "none" /\ req'[y].op # "none"
    BY DEF Creating
  <2>2. /\ req[x].op = req'[x].op /\ req[x].id = req'[x].id
        /\ req[y].op = req'[y].op /\ req[y].id = req'[y].id
    BY <1>4, <2>1
  <2> QED BY <1>7, <2>2 DEF IdsApart
<1>9. Requests'
  <2> SUFFICES ASSUME NEW x \in Clients
               PROVE  (DeviceRequest(req[x]) /\ LocationRequest(req[x]))'
    BY DEF Requests
  <2>1. CASE req'[x].op = "none"
    BY <2>1 DEF DeviceRequest, LocationRequest
  <2>2. CASE /\ x # c
             /\ req'[x].op = req[x].op /\ req'[x].id = req[x].id
             /\ req'[x].to = req[x].to /\ req'[x].was = req[x].was
    <3>1. DeviceRequest(req[x]) /\ LocationRequest(req[x])
      BY <1>7 DEF Requests
    <3>2. req[x].op \in Creating => ~(req[c].op = req[x].op /\ req[c].id = req[x].id)
      BY <1>7, <2>2 DEF IdsApart
    <3>3. DeviceRequest(req[x])'
      BY <2>2, <3>1, <3>2 DEF DeviceRequest, Creating
    <3>4. LocationRequest(req[x])'
      BY <2>2, <3>1, <3>2 DEF LocationRequest, Creating
    <3> QED BY <3>3, <3>4
  <2> QED BY <1>4, <2>1, <2>2
<1>10. FreshStillSo'
  BY <1>4 DEF FreshStillSo
<1> QED BY <1>6, <1>8, <1>9, <1>10 DEF TreeInv

-----------------------------------------------------------------------------
(* The reads of each operation.                                             *)

\* A request is made from Idle, which is one.
LEMMA IdleIsRequest ==
  /\ Idle \in Request /\ Idle.to = None /\ Idle.was = None /\ Idle.version = 0
  /\ MaxVersion \in Nat \ {0}
BY InventoryAssumption DEF Idle, Request

LEMMA CreateDeviceHolds ==
  ASSUME TreeInv, NEW c \in Clients, CreateDevice(c)
  PROVE  TreeInv'
<1>1. PICK d \in Devices, p \in Parent, l \in Place :
        /\ device[d].stage = "unused"
        /\ \A x \in Clients : req[x].op = "create_device" => req[x].id # d
        /\ Start(c, [Idle EXCEPT !.op = "create_device", !.pc = "write",
                                 !.id = d, !.to = p, !.was = l])
  BY DEF CreateDevice, Parent, Place
<1> DEFINE r == [Idle EXCEPT !.op = "create_device", !.pc = "write",
                             !.id = d, !.to = p, !.was = l]
<1>2. /\ r \in Request /\ r.op = "create_device" /\ r.id = d /\ r.to = p /\ r.was = l
  BY IdleIsRequest DEF Request, Ops, Parent, Place
<1>3. Start(c, r)
  BY <1>1
<1> HIDE DEF r
<1>4. DeviceRequest(r) /\ LocationRequest(r) /\ StillSo(r)
  BY <1>1, <1>2 DEF DeviceRequest, LocationRequest, StillSo
<1>5. \A x \in Clients : req[x].op = r.op => req[x].id # r.id
  BY <1>1, <1>2
<1> QED BY <1>2, <1>3, <1>4, <1>5, StartHolds

LEMMA UpdateDeviceHolds ==
  ASSUME TreeInv, NEW c \in Clients, UpdateDevice(c)
  PROVE  TreeInv'
<1>1. PICK d \in Devices, quoted \in 1..MaxVersion :
        /\ IsDevice(d) /\ quoted = device[d].version
        /\ LET r == [Idle EXCEPT !.pc = "check", !.id = d, !.quoted = quoted,
                                 !.version = device[d].version]
           IN \/ \E p \in Parent :
                   Start(c, [r EXCEPT !.op = "move_device", !.to = p,
                                      !.was = device[d].parent])
              \/ \E l \in Place :
                   Start(c, [r EXCEPT !.op = "place_device", !.to = l,
                                      !.was = device[d].place])
  BY DEF UpdateDevice, VersionMatches, Parent, Place
<1> DEFINE i == [Idle EXCEPT !.pc = "check", !.id = d, !.quoted = quoted,
                             !.version = device[d].version]
<1>2. device[d] \in DeviceRow /\ device[d].stage = "stored"
  BY <1>1 DEF TreeInv, TypeOK, IsDevice
<1>3. device[d].version \in 1..MaxVersion /\ device[d].version \in 0..MaxVersion
      /\ device[d].parent \in Parent /\ device[d].place \in Place
  BY <1>2, IdleIsRequest DEF DeviceRow, Parent, Place
<1>7. /\ i \in Request /\ i.pc = "check" /\ i.id = d
      /\ i.version = device[d].version /\ i.quoted = device[d].version
  BY <1>1, <1>3, IdleIsRequest DEF Request
<1>8. \/ \E p \in Parent : Start(c, [i EXCEPT !.op = "move_device", !.to = p,
                                              !.was = device[d].parent])
      \/ \E l \in Place : Start(c, [i EXCEPT !.op = "place_device", !.to = l,
                                             !.was = device[d].place])
  BY <1>1
<1> HIDE DEF i
<1>5. ASSUME NEW p \in Parent, NEW r, Start(c, r),
             r = [i EXCEPT !.op = "move_device", !.to = p, !.was = device[d].parent]
      PROVE  TreeInv'
  <2>1. /\ r \in Request /\ r.op = "move_device" /\ r.to = p /\ r.was = device[d].parent
        /\ r.pc = i.pc /\ r.id = i.id /\ r.version = i.version /\ r.quoted = i.quoted
    BY <1>3, <1>5, <1>7 DEF Request, Ops, Parent
  <2>2. DeviceRequest(r) /\ LocationRequest(r) /\ StillSo(r) /\ r.op \notin Creating
    BY <1>1, <1>2, <1>3, <1>7, <2>1 DEF DeviceRequest, LocationRequest, StillSo, Creating
  <2> QED BY <1>5, <2>1, <2>2, StartHolds
<1>6. ASSUME NEW l \in Place, NEW r, Start(c, r),
             r = [i EXCEPT !.op = "place_device", !.to = l, !.was = device[d].place]
      PROVE  TreeInv'
  <2>1. /\ r \in Request /\ r.op = "place_device" /\ r.to = l /\ r.was = device[d].place
        /\ r.pc = i.pc /\ r.id = i.id /\ r.version = i.version /\ r.quoted = i.quoted
    BY <1>3, <1>6, <1>7 DEF Request, Ops, Place
  <2>2. DeviceRequest(r) /\ LocationRequest(r) /\ StillSo(r) /\ r.op \notin Creating
    BY <1>1, <1>2, <1>3, <1>7, <2>1 DEF DeviceRequest, LocationRequest, StillSo, Creating
  <2> QED BY <1>6, <2>1, <2>2, StartHolds
<1> QED BY <1>5, <1>6, <1>8

LEMMA PrepareDeviceHolds ==
  ASSUME TreeInv, NEW c \in Clients, PrepareDeviceUpdate(c)
  PROVE  TreeInv'
<1> DEFINE r == req[c]
           w == [r EXCEPT !.pc = "write"]
<1>1. r \in Request /\ DeviceRequest(r) /\ LocationRequest(r) /\ (r.fresh => StillSo(r))
  BY DEF TreeInv, TypeOK, Requests, FreshStillSo
<1>2. r.op \in {"move_device", "place_device"}
  BY DEF PrepareDeviceUpdate
<1>3. CASE RaiseConflict(c)
  BY <1>3, RefusedHolds
<1>4. CASE /\ req' = [req EXCEPT ![c] = w] /\ UNCHANGED <<device, location, offered>>
           /\ r.op = "move_device" => ValidateParentUpdate(r)
  <2>1. /\ w \in Request /\ w.pc = "write" /\ w.op = r.op /\ w.id = r.id /\ w.to = r.to
        /\ w.was = r.was /\ w.version = r.version /\ w.quoted = r.quoted /\ w.fresh = r.fresh
    BY <1>1 DEF Request
  <2>2. DeviceRequest(w) /\ LocationRequest(w)
    BY <1>1, <2>1 DEF DeviceRequest, LocationRequest
  <2>3. r.op = "move_device" => ValidateParentUpdate(w)
    BY <1>4, <2>1 DEF ValidateParentUpdate
  <2>4. w.fresh => StillSo(w)
    BY <1>1, <1>2, <2>1, <2>3 DEF StillSo
  <2>5. w.op \notin Creating
    BY <1>2, <2>1 DEF Creating
  <2> HIDE DEF w
  <2> QED BY <1>4, <2>1, <2>2, <2>4, <2>5, GoesOnHolds
<1> QED BY <1>3, <1>4 DEF PrepareDeviceUpdate, RaiseConflict, Done

LEMMA DeleteDeviceHolds ==
  ASSUME TreeInv, NEW c \in Clients, DeleteDevice(c)
  PROVE  TreeInv'
<1>1. PICK d \in Devices :
        /\ IsDevice(d)
        /\ Start(c, [Idle EXCEPT !.op = "delete_device", !.pc = "write", !.id = d])
  BY DEF DeleteDevice
<1> DEFINE r == [Idle EXCEPT !.op = "delete_device", !.pc = "write", !.id = d]
<1>2. r \in Request /\ r.op = "delete_device" /\ r.id = d
  BY IdleIsRequest DEF Request, Ops
<1>3. Start(c, r)
  BY <1>1
<1> HIDE DEF r
<1>4. DeviceRequest(r) /\ LocationRequest(r) /\ StillSo(r) /\ r.op \notin Creating
  BY <1>1, <1>2 DEF DeviceRequest, LocationRequest, StillSo, Creating, IsDevice
<1> QED BY <1>2, <1>3, <1>4, StartHolds

LEMMA CreateLocationHolds ==
  ASSUME TreeInv, NEW c \in Clients, CreateLocation(c)
  PROVE  TreeInv'
<1>1. PICK l \in Locations, s \in Shape, p \in Place :
        /\ location[l].stage = "unused" /\ ValidShape(s)
        /\ \A x \in Clients : req[x].op = "create_location" => req[x].id # l
        /\ Start(c, [Idle EXCEPT !.op = "create_location", !.pc = "write",
                                 !.id = l, !.to = p, !.was = s])
  BY DEF CreateLocation, Place
<1> DEFINE r == [Idle EXCEPT !.op = "create_location", !.pc = "write",
                             !.id = l, !.to = p, !.was = s]
<1>2. /\ r \in Request /\ r.op = "create_location" /\ r.id = l /\ r.to = p /\ r.was = s
  BY IdleIsRequest DEF Request, Ops, Place
<1>3. Start(c, r)
  BY <1>1
<1> HIDE DEF r
<1>4. DeviceRequest(r) /\ LocationRequest(r) /\ StillSo(r)
  BY <1>1, <1>2 DEF DeviceRequest, LocationRequest, StillSo
<1>5. \A x \in Clients : req[x].op = r.op => req[x].id # r.id
  BY <1>1, <1>2
<1> QED BY <1>2, <1>3, <1>4, <1>5, StartHolds

LEMMA UpdateLocationHolds ==
  ASSUME TreeInv, NEW c \in Clients, UpdateLocation(c)
  PROVE  TreeInv'
<1>1. PICK l \in Locations :
        /\ IsLocation(l)
        /\ LET r == [Idle EXCEPT !.pc = "check", !.id = l]
           IN \/ \E p \in Place :
                   Start(c, [r EXCEPT !.op = "move_location", !.to = p,
                                      !.was = location[l].parent])
              \/ \E s \in Shape :
                   Start(c, [r EXCEPT !.op = "reshape_location", !.to = s,
                                      !.was = location[l].shape])
  BY DEF UpdateLocation, Place
<1> DEFINE i == [Idle EXCEPT !.pc = "check", !.id = l]
<1>2. location[l] \in LocationRow /\ location[l].stage = "stored"
  BY <1>1 DEF TreeInv, TypeOK, IsLocation
<1>3. location[l].parent \in Place /\ location[l].shape \in Shape
  BY <1>2 DEF LocationRow, Place
<1>4. i \in Request /\ i.pc = "check" /\ i.id = l
  BY IdleIsRequest DEF Request
<1>5. \/ \E p \in Place : Start(c, [i EXCEPT !.op = "move_location", !.to = p,
                                             !.was = location[l].parent])
      \/ \E s \in Shape : Start(c, [i EXCEPT !.op = "reshape_location", !.to = s,
                                             !.was = location[l].shape])
  BY <1>1
<1> HIDE DEF i
<1>6. ASSUME NEW p \in Place, NEW r, Start(c, r),
             r = [i EXCEPT !.op = "move_location", !.to = p, !.was = location[l].parent]
      PROVE  TreeInv'
  <2>1. /\ r \in Request /\ r.op = "move_location" /\ r.to = p
        /\ r.was = location[l].parent /\ r.pc = "check" /\ r.id = l
    BY <1>3, <1>4, <1>6 DEF Request, Ops, Place
  <2>2. DeviceRequest(r) /\ LocationRequest(r) /\ StillSo(r) /\ r.op \notin Creating
    BY <1>2, <1>3, <2>1 DEF DeviceRequest, LocationRequest, StillSo, Creating
  <2> QED BY <1>6, <2>1, <2>2, StartHolds
<1>7. ASSUME NEW s \in Shape, NEW r, Start(c, r),
             r = [i EXCEPT !.op = "reshape_location", !.to = s, !.was = location[l].shape]
      PROVE  TreeInv'
  <2>1. /\ r \in Request /\ r.op = "reshape_location" /\ r.to = s
        /\ r.was = location[l].shape /\ r.pc = "check" /\ r.id = l
    BY <1>3, <1>4, <1>7 DEF Request, Ops
  <2>2. DeviceRequest(r) /\ LocationRequest(r) /\ StillSo(r) /\ r.op \notin Creating
    BY <1>2, <1>3, <2>1 DEF DeviceRequest, LocationRequest, StillSo, Creating
  <2> QED BY <1>7, <2>1, <2>2, StartHolds
<1> QED BY <1>5, <1>6, <1>7

LEMMA PrepareLocationHolds ==
  ASSUME TreeInv, NEW c \in Clients, PrepareLocationUpdate(c)
  PROVE  TreeInv'
<1> DEFINE r == req[c]
           w == [r EXCEPT !.pc = "write"]
<1>1. r \in Request /\ DeviceRequest(r) /\ LocationRequest(r) /\ (r.fresh => StillSo(r))
  BY DEF TreeInv, TypeOK, Requests, FreshStillSo
<1>2. r.op \in {"move_location", "reshape_location"}
  BY DEF PrepareLocationUpdate
<1>3. CASE RaiseConflict(c)
  BY <1>3, RefusedHolds
<1>4. CASE /\ req' = [req EXCEPT ![c] = w] /\ UNCHANGED <<device, location, offered>>
           /\ r.op = "move_location" => ValidateLocationMove(r)
           /\ r.op = "reshape_location" => ValidShape(r.to)
  <2>1. /\ w \in Request /\ w.pc = "write" /\ w.op = r.op /\ w.id = r.id /\ w.to = r.to
        /\ w.was = r.was /\ w.version = r.version /\ w.quoted = r.quoted /\ w.fresh = r.fresh
    BY <1>1 DEF Request
  <2>2. DeviceRequest(w) /\ LocationRequest(w)
    BY <1>1, <2>1 DEF DeviceRequest, LocationRequest
  <2>3. /\ r.op = "move_location" => ValidateLocationMove(w)
        /\ r.op = "reshape_location" => ValidShape(w.to)
    BY <1>4, <2>1 DEF ValidateLocationMove
  <2>4. w.fresh => StillSo(w)
    BY <1>1, <1>2, <2>1, <2>3 DEF StillSo
  <2>5. w.op \notin Creating
    BY <1>2, <2>1 DEF Creating
  <2> HIDE DEF w
  <2> QED BY <1>4, <2>1, <2>2, <2>4, <2>5, GoesOnHolds
<1> QED BY <1>2, <1>3, <1>4 DEF PrepareLocationUpdate, RaiseConflict, Done

LEMMA DeleteLocationHolds ==
  ASSUME TreeInv, NEW c \in Clients, DeleteLocation(c)
  PROVE  TreeInv'
<1>1. PICK l \in Locations :
        /\ IsLocation(l)
        /\ Start(c, [Idle EXCEPT !.op = "delete_location", !.pc = "write", !.id = l])
  BY DEF DeleteLocation
<1> DEFINE r == [Idle EXCEPT !.op = "delete_location", !.pc = "write", !.id = l]
<1>2. r \in Request /\ r.op = "delete_location" /\ r.id = l
  BY IdleIsRequest DEF Request, Ops
<1>3. Start(c, r)
  BY <1>1
<1> HIDE DEF r
<1>4. DeviceRequest(r) /\ LocationRequest(r) /\ StillSo(r) /\ r.op \notin Creating
  BY <1>1, <1>2 DEF DeviceRequest, LocationRequest, StillSo, Creating, IsLocation
<1> QED BY <1>2, <1>3, <1>4, StartHolds

-----------------------------------------------------------------------------
(* The commits.                                                             *)

\* The maps of the parents, row by row.
MapsTell ==
  /\ DOMAIN GetParentMap = {x \in Devices : IsDevice(x)}
  /\ \A x \in Devices : IsDevice(x) => GetParentMap[x] = device[x].parent
  /\ DOMAIN GetLocationParentMap = {x \in Locations : IsLocation(x)}
  /\ \A x \in Locations : IsLocation(x) => GetLocationParentMap[x] = location[x].parent

LEMMA ParentMaps == MapsTell /\ MapsTell'
BY DEF MapsTell, GetParentMap, GetLocationParentMap

\* What one commit leaves in order.
Orderly ==
  /\ DeviceForest => DeviceForest'
  /\ LocationForest => LocationForest'
  /\ ShapesValid => ShapesValid'

LEMMA LocationsStand ==
  location' = location => (LocationForest => LocationForest') /\ (ShapesValid => ShapesValid')
<1> SUFFICES ASSUME location' = location
             PROVE  (LocationForest => LocationForest') /\ (ShapesValid => ShapesValid')
  OBVIOUS
<1>1. GetLocationParentMap' = GetLocationParentMap
  BY DEF GetLocationParentMap, IsLocation
<1>2. ShapesValid => ShapesValid'
  BY DEF ShapesValid, IsLocation
<1> QED BY <1>1, <1>2 DEF LocationForest

LEMMA DevicesStand == device' = device => (DeviceForest => DeviceForest')
<1> SUFFICES ASSUME device' = device
             PROVE  DeviceForest => DeviceForest'
  OBVIOUS
<1>1. GetParentMap' = GetParentMap
  BY DEF GetParentMap, IsDevice
<1> QED BY <1>1 DEF DeviceForest

LEMMA RefusedIsOrderly ==
  ASSUME NEW c \in Clients, RaiseConflict(c)
  PROVE  Orderly
BY LocationsStand, DevicesStand DEF RaiseConflict, Orderly

LEMMA CommitCreateDeviceHolds ==
  ASSUME TreeInv, NEW c \in Clients, CommitCreateDevice(c)
  PROVE  TreeInv' /\ Orderly
<1>0. PICK e, p, q : e = req[c].id /\ p = req[c].to /\ q = req[c].was
  OBVIOUS
<1> DEFINE row == [stage |-> "stored", version |-> 1, parent |-> p, place |-> q]
<1>1. CASE RaiseConflict(c)
  BY <1>1, RefusedHolds, RefusedIsOrderly
<1>2. CASE /\ DeviceKeysHold(row)
           /\ device' = [device EXCEPT ![e] = row]
           /\ Committed(c) /\ UNCHANGED <<location, offered>>
  <2>1. req[c].op = "create_device" /\ DeviceRequest(req[c])
    BY DEF CommitCreateDevice, TreeInv, Requests
  <2>2. /\ e \in Devices /\ device[e].stage = "unused"
        /\ p \in Parent /\ q \in Place
    BY <1>0, <2>1 DEF DeviceRequest
  <2>3. device \in [Devices -> DeviceRow] /\ location \in [Locations -> LocationRow]
        /\ NothingHangsOnDeleted
    BY DEF TreeInv, TypeOK
  <2>4. row \in DeviceRow
    BY <2>2, InventoryAssumption DEF DeviceRow, Stage, Parent, Place
  <2>5. device' \in [Devices -> DeviceRow]
    BY <1>2, <2>3, <2>4
  <2>6. device'[e] = row /\ \A x \in Devices : x # e => device'[x] = device[x]
    BY <1>2, <2>2, <2>3
  <2>7. /\ IsDevice(e)' /\ ~IsDevice(e)
        /\ \A x : x # e => (IsDevice(x)' <=> IsDevice(x))
        /\ \A x : IsLocation(x)' <=> IsLocation(x)
    BY <1>2, <2>2, <2>6 DEF IsDevice, IsLocation
  <2>8. DeviceKeysHold(row)'
    BY <1>2, <2>7 DEF DeviceKeysHold, AssertParentExists, AssertLocationExists
  <2>9. NothingHangsOnDeleted'
    <3>1. ASSUME NEW x \in Devices, IsDevice(x)' PROVE DeviceKeysHold(device[x])'
      <4>1. CASE x = e
        BY <2>6, <2>8, <4>1 DEF DeviceKeysHold, AssertParentExists, AssertLocationExists
      <4>2. CASE x # e
        <5>1. IsDevice(x) /\ device'[x] = device[x]
          BY <2>6, <2>7, <3>1, <4>2
        <5>2. DeviceKeysHold(device[x])
          BY <2>3, <5>1 DEF NothingHangsOnDeleted
        <5> QED BY <2>7, <5>1, <5>2 DEF DeviceKeysHold, AssertParentExists,
                                        AssertLocationExists
      <4> QED BY <4>1, <4>2
    <3>2. ASSUME NEW l \in Locations, IsLocation(l)' PROVE LocationKeysHold(location[l])'
      BY <1>2, <2>3, <2>7, <3>2 DEF NothingHangsOnDeleted, LocationKeysHold,
                                    AssertLocationExists
    <3> QED BY <3>1, <3>2 DEF NothingHangsOnDeleted
  <2>10. TreeInv'
    BY <1>0, <1>2, <2>1, <2>2, <2>3, <2>5, <2>6, <2>9, CommitHolds
  <2>11. ASSUME DeviceForest PROVE DeviceForest'
    <3> DEFINE old == GetParentMap
               new == GetParentMap'
    <3>1. /\ DOMAIN old = {x \in Devices : IsDevice(x)}
          /\ \A x \in Devices : IsDevice(x) => old[x] = device[x].parent
      BY ParentMaps DEF MapsTell
    <3>2. /\ DOMAIN new = {x \in Devices : IsDevice(x)'}
          /\ \A x \in Devices : IsDevice(x)' => new[x] = device'[x].parent
      BY ParentMaps DEF MapsTell
    <3>3. Grounded(old)
      BY <2>11 DEF DeviceForest
    <3> HIDE DEF old, new
    <3>4. DOMAIN new = DOMAIN old \cup {e} /\ e \notin DOMAIN old
      BY <2>2, <2>7, <3>1, <3>2
    <3>5. \A x \in DOMAIN old : new[x] = old[x]
      BY <2>6, <2>7, <3>1, <3>2
    <3>6. \A x \in DOMAIN old : old[x] # e
      <4> TAKE x \in DOMAIN old
      <4>1. IsDevice(x) /\ x \in Devices /\ old[x] = device[x].parent
        BY <3>1
      <4>2. AssertParentExists(device[x].parent)
        BY <2>3, <4>1 DEF NothingHangsOnDeleted, DeviceKeysHold
      <4> QED BY <2>2, <2>7, <4>1, <4>2, InventoryAssumption DEF AssertParentExists
    <3>7. new[e] # e
      <4>1. new[e] = p
        BY <2>2, <2>6, <2>7, <3>2
      <4>2. AssertParentExists(p)
        BY <1>2 DEF DeviceKeysHold
      <4> QED BY <2>2, <2>7, <4>1, <4>2, InventoryAssumption DEF AssertParentExists
    <3>8. Grounded(new)
      BY <3>3, <3>4, <3>5, <3>6, <3>7, CreateKeepsForest
    <3> QED BY <3>8 DEF DeviceForest, new
  <2> QED BY <1>2, <2>10, <2>11, LocationsStand DEF Orderly
<1> QED BY <1>0, <1>1, <1>2 DEF CommitCreateDevice

\* What an update writes.
LEMMA UpdatedDeviceIs ==
  ASSUME TreeInv, NEW c \in Clients, NEW e, NEW t, NEW u,
         e = req[c].id, t = req[c].to, u = UpdatedDevice(req[c]),
         req[c].op \in {"move_device", "place_device"},
         req[c].version < MaxVersion, IsDevice(e)
  PROVE  /\ e \in Devices /\ u \in DeviceRow /\ u.stage = "stored"
         /\ u.version = req[c].version + 1
         /\ u.parent \in {device[e].parent, t}
         /\ req[c].op = "place_device" => u.parent = device[e].parent
<1>1. device[e] \in DeviceRow /\ e \in Devices /\ device[e].stage = "stored"
      /\ req[c] \in Request /\ DeviceRequest(req[c])
  BY DEF TreeInv, TypeOK, IsDevice, Requests
<1>2. req[c].version + 1 \in 1..MaxVersion
  BY <1>1, InventoryAssumption DEF Request
<1> DEFINE row == [device[e] EXCEPT !.version = req[c].version + 1]
<1>3. /\ row \in DeviceRow /\ row.stage = "stored" /\ row.version = req[c].version + 1
      /\ row.parent = device[e].parent
  BY <1>1, <1>2 DEF DeviceRow
<1>4. u = IF t = req[c].was THEN row
          ELSE IF req[c].op = "move_device" THEN [row EXCEPT !.parent = t]
          ELSE [row EXCEPT !.place = t]
  BY DEF UpdatedDevice
<1> HIDE DEF row
<1>5. CASE t = req[c].was
  BY <1>1, <1>3, <1>4, <1>5
<1>6. CASE t # req[c].was /\ req[c].op = "move_device"
  <2>1. t \in Parent
    BY <1>1, <1>6 DEF DeviceRequest
  <2> QED BY <1>1, <1>3, <1>4, <1>6, <2>1 DEF DeviceRow, Parent
<1>7. CASE t # req[c].was /\ req[c].op = "place_device"
  <2>1. t \in Place
    BY <1>1, <1>7 DEF DeviceRequest
  <2> QED BY <1>1, <1>3, <1>4, <1>7, <2>1 DEF DeviceRow, Place
<1> QED BY <1>5, <1>6, <1>7

\* An update that no other commit overlapped replaces the version its client
\* has seen.
ReplacesSeen(c) ==
  device'[req[c].id] # device[req[c].id] =>
    /\ device[req[c].id].version = req[c].quoted
    /\ device'[req[c].id].version = req[c].quoted + 1

LEMMA CommitUpdateDeviceHolds ==
  ASSUME TreeInv, NEW c \in Clients, CommitUpdateDevice(c)
  PROVE  TreeInv' /\ (req[c].fresh => Orderly /\ ReplacesSeen(c))
<1>0. PICK e, t, u : e = req[c].id /\ t = req[c].to /\ u = UpdatedDevice(req[c])
  OBVIOUS
<1>1. CASE RaiseConflict(c)
  BY <1>1, RefusedHolds, RefusedIsOrderly DEF ReplacesSeen, RaiseConflict
<1>2. CASE /\ IsDevice(e) /\ DeviceKeysHold(u)
           /\ device' = [device EXCEPT ![e] = u]
           /\ Committed(c) /\ UNCHANGED <<location, offered>>
  <2>1. /\ req[c].op \in {"move_device", "place_device"} /\ req[c].pc = "write"
        /\ req[c].version < MaxVersion
    BY DEF CommitUpdateDevice
  <2>2. /\ e \in Devices /\ u \in DeviceRow /\ u.stage = "stored"
        /\ u.version = req[c].version + 1
        /\ u.parent \in {device[e].parent, t}
        /\ req[c].op = "place_device" => u.parent = device[e].parent
    BY <1>0, <1>2, <2>1, UpdatedDeviceIs
  <2>3. device \in [Devices -> DeviceRow] /\ location \in [Locations -> LocationRow]
        /\ NothingHangsOnDeleted
    BY DEF TreeInv, TypeOK
  <2>5. device' \in [Devices -> DeviceRow]
    BY <1>2, <2>2, <2>3
  <2>6. device'[e] = u /\ \A x \in Devices : x # e => device'[x] = device[x]
    BY <1>2, <2>2, <2>3
  <2>7. /\ device[e].stage = "stored"
        /\ \A x : IsDevice(x)' <=> IsDevice(x)
        /\ \A x : IsLocation(x)' <=> IsLocation(x)
    BY <1>2, <2>2, <2>6 DEF IsDevice, IsLocation
  <2>9. NothingHangsOnDeleted'
    <3>1. ASSUME NEW x \in Devices, IsDevice(x)' PROVE DeviceKeysHold(device[x])'
      <4>1. CASE x = e
        BY <1>2, <2>6, <2>7, <4>1 DEF DeviceKeysHold, AssertParentExists,
                                      AssertLocationExists
      <4>2. CASE x # e
        <5>1. IsDevice(x) /\ device'[x] = device[x]
          BY <2>6, <2>7, <3>1, <4>2
        <5>2. DeviceKeysHold(device[x])
          BY <2>3, <5>1 DEF NothingHangsOnDeleted
        <5> QED BY <2>7, <5>1, <5>2 DEF DeviceKeysHold, AssertParentExists,
                                        AssertLocationExists
      <4> QED BY <4>1, <4>2
    <3>2. ASSUME NEW l \in Locations, IsLocation(l)' PROVE LocationKeysHold(location[l])'
      BY <1>2, <2>3, <2>7, <3>2 DEF NothingHangsOnDeleted, LocationKeysHold,
                                    AssertLocationExists
    <3> QED BY <3>1, <3>2 DEF NothingHangsOnDeleted
  <2>10. TreeInv'
    <3>1. \A d \in Devices : device'[d].stage = device[d].stage
      BY <2>2, <2>6, <2>7
    <3> QED BY <1>2, <2>3, <2>5, <2>9, <3>1, CommitHolds
  <2>11. ASSUME req[c].fresh
         PROVE  StillSo(req[c])
    BY <2>11 DEF TreeInv, FreshStillSo
  <2>12. ASSUME req[c].fresh PROVE ReplacesSeen(c)
    <3>1. req[c].version = req[c].quoted /\ device[e].version = req[c].version
      BY <1>0, <2>1, <2>11, <2>12 DEF StillSo
    <3> QED BY <1>0, <2>2, <2>6, <3>1 DEF ReplacesSeen
  <2>13. ASSUME req[c].fresh, DeviceForest PROVE DeviceForest'
    <3> DEFINE old == GetParentMap
               new == GetParentMap'
    <3>1. /\ DOMAIN old = {x \in Devices : IsDevice(x)}
          /\ \A x \in Devices : IsDevice(x) => old[x] = device[x].parent
      BY ParentMaps DEF MapsTell
    <3>2. /\ DOMAIN new = {x \in Devices : IsDevice(x)'}
          /\ \A x \in Devices : IsDevice(x)' => new[x] = device'[x].parent
      BY ParentMaps DEF MapsTell
    <3>3. Grounded(old)
      BY <2>13 DEF DeviceForest
    <3>4. t # None /\ req[c].op = "move_device" => IsDevice(t) /\ ~DetectCycle(old, e, t)
      BY <1>0, <2>1, <2>11, <2>13 DEF StillSo, ValidateParentUpdate, DetectParentCycle
    <3> HIDE DEF old, new
    <3>5. DOMAIN new = DOMAIN old /\ None \notin DOMAIN old
      BY <2>7, <3>1, <3>2, InventoryAssumption
    <3>6. \A x \in DOMAIN old : x # e => new[x] = old[x]
      BY <2>6, <2>7, <3>1, <3>2
    <3>7. e \in DOMAIN old /\ new[e] = u.parent /\ old[e] = device[e].parent
      BY <1>2, <2>2, <2>6, <2>7, <3>1, <3>2
    <3>8. ASSUME new[e] = old[e] PROVE Grounded(new)
      <4>1. \A x \in DOMAIN new : new[x] = old[x]
        BY <3>5, <3>6, <3>8
      <4> QED BY <3>3, <3>5, <4>1, FewerKeepForest
    <3>9. ASSUME new[e] # old[e] PROVE Grounded(new)
      <4>1. req[c].op = "move_device" /\ new[e] = t
        BY <2>1, <2>2, <3>7, <3>9
      <4>2. t # None => t \in DOMAIN old /\ ~DetectCycle(old, e, t)
        BY <3>1, <3>4, <4>1 DEF IsDevice
      <4> QED BY <3>3, <3>5, <3>6, <4>1, <4>2, MoveKeepsForest
    <3>10. Grounded(new)
      BY <3>8, <3>9
    <3> QED BY <3>10 DEF DeviceForest, new
  <2> QED BY <1>2, <2>10, <2>12, <2>13, LocationsStand DEF Orderly
<1> QED BY <1>0, <1>1, <1>2 DEF CommitUpdateDevice

LEMMA CommitDeleteDeviceHolds ==
  ASSUME TreeInv, NEW c \in Clients, CommitDeleteDevice(c)
  PROVE  TreeInv' /\ Orderly
<1>0. PICK e : e = req[c].id
  OBVIOUS
<1> DEFINE row == [NoDevice EXCEPT !.stage = "gone"]
<1>1. CASE RaiseConflict(c)
  BY <1>1, RefusedHolds, RefusedIsOrderly
<1>2. CASE /\ CountChildren(e) = 0
           /\ device' = [device EXCEPT ![e] = row]
           /\ Committed(c) /\ UNCHANGED <<location, offered>>
  <2>1. req[c].op = "delete_device" /\ DeviceRequest(req[c])
    BY DEF CommitDeleteDevice, TreeInv, Requests
  <2>2. e \in Devices /\ device[e].stage # "unused"
    BY <1>0, <2>1 DEF DeviceRequest
  <2>3. device \in [Devices -> DeviceRow] /\ location \in [Locations -> LocationRow]
        /\ NothingHangsOnDeleted
    BY DEF TreeInv, TypeOK
  <2>4. row \in DeviceRow /\ row.stage = "gone"
    BY InventoryAssumption DEF NoDevice, DeviceRow, Stage
  <2> HIDE DEF row
  <2>5. device' \in [Devices -> DeviceRow]
    BY <1>2, <2>3, <2>4
  <2>6. device'[e] = row /\ \A x \in Devices : x # e => device'[x] = device[x]
    BY <1>2, <2>2, <2>3
  <2>7. /\ \A x : IsDevice(x)' <=> IsDevice(x) /\ x # e
        /\ \A x : IsLocation(x)' <=> IsLocation(x)
    BY <1>2, <2>2, <2>4, <2>6 DEF IsDevice, IsLocation
  <2>8. \A x \in Devices : IsDevice(x) => device[x].parent # e
    <3> DEFINE C == {x \in Devices : IsDevice(x) /\ device[x].parent = e}
    <3>1. IsFiniteSet(C)
      BY FS_Subset, InventoryAssumption
    <3>2. C = {}
      BY <1>2, <3>1, FS_EmptySet DEF CountChildren
    <3> QED BY <3>2
  <2>9. NothingHangsOnDeleted'
    <3>1. ASSUME NEW x \in Devices, IsDevice(x)' PROVE DeviceKeysHold(device[x])'
      <4>1. IsDevice(x) /\ device'[x] = device[x]
        BY <2>6, <2>7, <3>1
      <4>2. DeviceKeysHold(device[x]) /\ device[x].parent # e
        BY <2>3, <2>8, <4>1 DEF NothingHangsOnDeleted
      <4> QED BY <2>7, <4>1, <4>2 DEF DeviceKeysHold, AssertParentExists,
                                      AssertLocationExists
    <3>2. ASSUME NEW l \in Locations, IsLocation(l)' PROVE LocationKeysHold(location[l])'
      BY <1>2, <2>3, <2>7, <3>2 DEF NothingHangsOnDeleted, LocationKeysHold,
                                    AssertLocationExists
    <3> QED BY <3>1, <3>2 DEF NothingHangsOnDeleted
  <2>10. TreeInv'
    <3>1. \A d \in Devices : device[d].stage # "unused" => device'[d].stage # "unused"
      BY <2>4, <2>6
    <3>2. \A d \in Devices : ~(device[d].stage = "unused" /\ device'[d].stage # "unused")
      BY <2>2, <2>6
    <3> QED BY <1>2, <2>3, <2>5, <2>9, <3>1, <3>2, CommitHolds
  <2>11. ASSUME DeviceForest PROVE DeviceForest'
    <3> DEFINE old == GetParentMap
               new == GetParentMap'
    <3>1. /\ DOMAIN old = {x \in Devices : IsDevice(x)}
          /\ \A x \in Devices : IsDevice(x) => old[x] = device[x].parent
      BY ParentMaps DEF MapsTell
    <3>2. /\ DOMAIN new = {x \in Devices : IsDevice(x)'}
          /\ \A x \in Devices : IsDevice(x)' => new[x] = device'[x].parent
      BY ParentMaps DEF MapsTell
    <3>3. Grounded(old)
      BY <2>11 DEF DeviceForest
    <3> HIDE DEF old, new
    <3>4. DOMAIN new \subseteq DOMAIN old
      BY <2>7, <3>1, <3>2
    <3>5. \A x \in DOMAIN new : new[x] = old[x]
      BY <2>6, <2>7, <3>1, <3>2
    <3>6. Grounded(new)
      BY <3>3, <3>4, <3>5, FewerKeepForest
    <3> QED BY <3>6 DEF DeviceForest, new
  <2> QED BY <1>2, <2>10, <2>11, LocationsStand DEF Orderly
<1> QED BY <1>0, <1>1, <1>2 DEF CommitDeleteDevice, RestrictDevice

LEMMA CommitCreateLocationHolds ==
  ASSUME TreeInv, NEW c \in Clients, CommitCreateLocation(c)
  PROVE  TreeInv' /\ Orderly
<1>0. PICK e, p, q : e = req[c].id /\ p = req[c].to /\ q = req[c].was
  OBVIOUS
<1> DEFINE row == [stage |-> "stored", shape |-> q, parent |-> p]
<1>1. CASE RaiseConflict(c)
  BY <1>1, RefusedHolds, RefusedIsOrderly
<1>2. CASE /\ LocationKeysHold(row)
           /\ location' = [location EXCEPT ![e] = row]
           /\ Committed(c) /\ UNCHANGED <<device, offered>>
  <2>1. req[c].op = "create_location" /\ LocationRequest(req[c])
    BY DEF CommitCreateLocation, TreeInv, Requests
  <2>2. /\ e \in Locations /\ location[e].stage = "unused"
        /\ p \in Place /\ q \in Shape /\ ValidShape(q)
    BY <1>0, <2>1 DEF LocationRequest
  <2>3. device \in [Devices -> DeviceRow] /\ location \in [Locations -> LocationRow]
        /\ NothingHangsOnDeleted
    BY DEF TreeInv, TypeOK
  <2>4. row \in LocationRow
    BY <2>2 DEF LocationRow, Stage, Place
  <2>5. location' \in [Locations -> LocationRow]
    BY <1>2, <2>3, <2>4
  <2>6. location'[e] = row /\ \A x \in Locations : x # e => location'[x] = location[x]
    BY <1>2, <2>2, <2>3
  <2>7. /\ IsLocation(e)' /\ ~IsLocation(e)
        /\ \A x : x # e => (IsLocation(x)' <=> IsLocation(x))
        /\ \A x : IsDevice(x)' <=> IsDevice(x)
    BY <1>2, <2>2, <2>6 DEF IsDevice, IsLocation
  <2>9. NothingHangsOnDeleted'
    <3>1. ASSUME NEW x \in Devices, IsDevice(x)' PROVE DeviceKeysHold(device[x])'
      BY <1>2, <2>3, <2>7, <3>1 DEF NothingHangsOnDeleted, DeviceKeysHold,
                                    AssertParentExists, AssertLocationExists
    <3>2. ASSUME NEW x \in Locations, IsLocation(x)' PROVE LocationKeysHold(location[x])'
      <4>1. CASE x = e
        BY <1>2, <2>6, <2>7, <4>1 DEF LocationKeysHold, AssertLocationExists
      <4>2. CASE x # e
        <5>1. IsLocation(x) /\ location'[x] = location[x]
          BY <2>6, <2>7, <3>2, <4>2
        <5>2. LocationKeysHold(location[x])
          BY <2>3, <5>1 DEF NothingHangsOnDeleted
        <5> QED BY <2>7, <5>1, <5>2 DEF LocationKeysHold, AssertLocationExists
      <4> QED BY <4>1, <4>2
    <3> QED BY <3>1, <3>2 DEF NothingHangsOnDeleted
  <2>10. TreeInv'
    BY <1>0, <1>2, <2>1, <2>2, <2>3, <2>5, <2>6, <2>9, CommitHolds
  <2>11. ASSUME LocationForest PROVE LocationForest'
    <3> DEFINE old == GetLocationParentMap
               new == GetLocationParentMap'
    <3>1. /\ DOMAIN old = {x \in Locations : IsLocation(x)}
          /\ \A x \in Locations : IsLocation(x) => old[x] = location[x].parent
      BY ParentMaps DEF MapsTell
    <3>2. /\ DOMAIN new = {x \in Locations : IsLocation(x)'}
          /\ \A x \in Locations : IsLocation(x)' => new[x] = location'[x].parent
      BY ParentMaps DEF MapsTell
    <3>3. Grounded(old)
      BY <2>11 DEF LocationForest
    <3> HIDE DEF old, new
    <3>4. DOMAIN new = DOMAIN old \cup {e} /\ e \notin DOMAIN old
      BY <2>2, <2>7, <3>1, <3>2
    <3>5. \A x \in DOMAIN old : new[x] = old[x]
      BY <2>6, <2>7, <3>1, <3>2
    <3>6. \A x \in DOMAIN old : old[x] # e
      <4> TAKE x \in DOMAIN old
      <4>1. IsLocation(x) /\ x \in Locations /\ old[x] = location[x].parent
        BY <3>1
      <4>2. AssertLocationExists(location[x].parent)
        BY <2>3, <4>1 DEF NothingHangsOnDeleted, LocationKeysHold
      <4> QED BY <2>2, <2>7, <4>1, <4>2, InventoryAssumption DEF AssertLocationExists
    <3>7. new[e] # e
      <4>1. new[e] = p
        BY <2>2, <2>6, <2>7, <3>2
      <4>2. AssertLocationExists(p)
        BY <1>2 DEF LocationKeysHold
      <4> QED BY <2>2, <2>7, <4>1, <4>2, InventoryAssumption DEF AssertLocationExists
    <3>8. Grounded(new)
      BY <3>3, <3>4, <3>5, <3>6, <3>7, CreateKeepsForest
    <3> QED BY <3>8 DEF LocationForest, new
  <2>12. ShapesValid => ShapesValid'
    BY <2>2, <2>6, <2>7 DEF ShapesValid
  <2> QED BY <1>2, <2>10, <2>11, <2>12, DevicesStand DEF Orderly
<1> QED BY <1>0, <1>1, <1>2 DEF CommitCreateLocation

\* A patch of a shape that is still the one it was read with gives the shape
\* that was validated.
LEMMA MergeOfSame ==
  ASSUME NEW s \in Shape, NEW to \in Shape
  PROVE  Merge(s, s, to) \in Shape /\ (ValidShape(to) => ValidShape(Merge(s, s, to)))
BY DEF Merge, Shape, ValidShape

LEMMA UpdatedLocationIs ==
  ASSUME TreeInv, NEW c \in Clients, NEW e, NEW t, NEW u,
         e = req[c].id, t = req[c].to, u = UpdatedLocation(req[c]),
         req[c].op \in {"move_location", "reshape_location"}, IsLocation(e)
  PROVE  /\ e \in Locations /\ u \in LocationRow /\ u.stage = "stored"
         /\ \/ u.parent = location[e].parent
            \/ req[c].op = "move_location" /\ t # req[c].was /\ u.parent = t
         /\ req[c].op = "move_location" => u.shape = location[e].shape
         /\ req[c].op = "reshape_location" =>
              t \in Shape /\ u.shape = Merge(location[e].shape, req[c].was, t)
<1>1. location[e] \in LocationRow /\ e \in Locations /\ location[e].stage = "stored"
      /\ LocationRequest(req[c])
  BY DEF TreeInv, TypeOK, IsLocation, Requests
<1>2. CASE req[c].op = "reshape_location"
  <2>1. t \in Shape /\ req[c].was \in Shape /\ location[e].shape \in Shape
    BY <1>1, <1>2 DEF LocationRequest, LocationRow
  <2>2. Merge(location[e].shape, req[c].was, t) \in Shape
    BY <2>1 DEF Merge, Shape
  <2>3. u = [location[e] EXCEPT !.shape = Merge(location[e].shape, req[c].was, t)]
    BY <1>2 DEF UpdatedLocation
  <2> DEFINE m == Merge(location[e].shape, req[c].was, t)
  <2> HIDE DEF m
  <2>4. /\ u \in LocationRow /\ u.stage = "stored" /\ u.shape = m
        /\ u.parent = location[e].parent
    BY <1>1, <2>2, <2>3 DEF LocationRow, m
  <2>5. req[c].op # "move_location"
    BY <1>2
  <2> QED BY <1>1, <2>1, <2>4, <2>5 DEF m
<1>3. CASE req[c].op = "move_location" /\ t = req[c].was
  <2>1. u = location[e]
    BY <1>3 DEF UpdatedLocation
  <2>2. req[c].op # "reshape_location"
    BY <1>3
  <2> QED BY <1>1, <2>1, <2>2
<1>4. CASE req[c].op = "move_location" /\ t # req[c].was
  <2>1. t \in Place
    BY <1>1, <1>4 DEF LocationRequest
  <2>2. u = [location[e] EXCEPT !.parent = t]
    BY <1>4 DEF UpdatedLocation
  <2> QED BY <1>1, <1>4, <2>1, <2>2 DEF LocationRow, Place
<1> QED BY <1>2, <1>3, <1>4

LEMMA CommitUpdateLocationHolds ==
  ASSUME TreeInv, NEW c \in Clients, CommitUpdateLocation(c)
  PROVE  TreeInv' /\ (req[c].fresh => Orderly)
<1>0. PICK e, t, u : e = req[c].id /\ t = req[c].to /\ u = UpdatedLocation(req[c])
  OBVIOUS
<1>1. CASE RaiseConflict(c)
  BY <1>1, RefusedHolds, RefusedIsOrderly
<1>2. CASE /\ IsLocation(e) /\ LocationKeysHold(u)
           /\ location' = [location EXCEPT ![e] = u]
           /\ Committed(c) /\ UNCHANGED <<device, offered>>
  <2>1. req[c].op \in {"move_location", "reshape_location"} /\ req[c].pc = "write"
    BY DEF CommitUpdateLocation
  <2>2. /\ e \in Locations /\ u \in LocationRow /\ u.stage = "stored"
        /\ \/ u.parent = location[e].parent
           \/ req[c].op = "move_location" /\ t # req[c].was /\ u.parent = t
        /\ req[c].op = "move_location" => u.shape = location[e].shape
        /\ req[c].op = "reshape_location" =>
             t \in Shape /\ u.shape = Merge(location[e].shape, req[c].was, t)
    BY <1>0, <1>2, <2>1, UpdatedLocationIs
  <2>3. device \in [Devices -> DeviceRow] /\ location \in [Locations -> LocationRow]
        /\ NothingHangsOnDeleted
    BY DEF TreeInv, TypeOK
  <2>5. location' \in [Locations -> LocationRow]
    BY <1>2, <2>2, <2>3
  <2>6. location'[e] = u /\ \A x \in Locations : x # e => location'[x] = location[x]
    BY <1>2, <2>2, <2>3
  <2>7. /\ location[e].stage = "stored"
        /\ \A x : IsLocation(x)' <=> IsLocation(x)
        /\ \A x : IsDevice(x)' <=> IsDevice(x)
    BY <1>2, <2>2, <2>6 DEF IsDevice, IsLocation
  <2>9. NothingHangsOnDeleted'
    <3>1. ASSUME NEW x \in Devices, IsDevice(x)' PROVE DeviceKeysHold(device[x])'
      BY <1>2, <2>3, <2>7, <3>1 DEF NothingHangsOnDeleted, DeviceKeysHold,
                                    AssertParentExists, AssertLocationExists
    <3>2. ASSUME NEW x \in Locations, IsLocation(x)' PROVE LocationKeysHold(location[x])'
      <4>1. CASE x = e
        BY <1>2, <2>6, <2>7, <4>1 DEF LocationKeysHold, AssertLocationExists
      <4>2. CASE x # e
        <5>1. IsLocation(x) /\ location'[x] = location[x]
          BY <2>6, <2>7, <3>2, <4>2
        <5>2. LocationKeysHold(location[x])
          BY <2>3, <5>1 DEF NothingHangsOnDeleted
        <5> QED BY <2>7, <5>1, <5>2 DEF LocationKeysHold, AssertLocationExists
      <4> QED BY <4>1, <4>2
    <3> QED BY <3>1, <3>2 DEF NothingHangsOnDeleted
  <2>10. TreeInv'
    <3>1. \A l \in Locations : location'[l].stage = location[l].stage
      BY <2>2, <2>6, <2>7
    <3> QED BY <1>2, <2>3, <2>5, <2>9, <3>1, CommitHolds
  <2>11. ASSUME req[c].fresh
         PROVE  StillSo(req[c])
    BY <2>11 DEF TreeInv, FreshStillSo
  <2>12. ASSUME req[c].fresh, LocationForest PROVE LocationForest'
    <3> DEFINE old == GetLocationParentMap
               new == GetLocationParentMap'
    <3>1. /\ DOMAIN old = {x \in Locations : IsLocation(x)}
          /\ \A x \in Locations : IsLocation(x) => old[x] = location[x].parent
      BY ParentMaps DEF MapsTell
    <3>2. /\ DOMAIN new = {x \in Locations : IsLocation(x)'}
          /\ \A x \in Locations : IsLocation(x)' => new[x] = location'[x].parent
      BY ParentMaps DEF MapsTell
    <3>3. Grounded(old)
      BY <2>12 DEF LocationForest
    <3>4. req[c].op = "move_location" /\ t # req[c].was /\ t # None
            => IsLocation(t) /\ ~DetectCycle(old, e, t)
      BY <1>0, <2>1, <2>11, <2>12 DEF StillSo, ValidateLocationMove
    <3> HIDE DEF old, new
    <3>5. DOMAIN new = DOMAIN old /\ None \notin DOMAIN old
      BY <2>7, <3>1, <3>2, InventoryAssumption
    <3>6. \A x \in DOMAIN old : x # e => new[x] = old[x]
      BY <2>6, <2>7, <3>1, <3>2
    <3>7. e \in DOMAIN old /\ new[e] = u.parent /\ old[e] = location[e].parent
      BY <1>2, <2>2, <2>6, <2>7, <3>1, <3>2
    <3>8. ASSUME new[e] = old[e] PROVE Grounded(new)
      <4>1. \A x \in DOMAIN new : new[x] = old[x]
        BY <3>5, <3>6, <3>8
      <4> QED BY <3>3, <3>5, <4>1, FewerKeepForest
    <3>9. ASSUME new[e] # old[e] PROVE Grounded(new)
      <4>1. req[c].op = "move_location" /\ t # req[c].was /\ new[e] = t
        BY <2>1, <2>2, <3>7, <3>9
      <4>2. t # None => t \in DOMAIN old /\ ~DetectCycle(old, e, t)
        BY <3>1, <3>4, <4>1 DEF IsLocation
      <4> QED BY <3>3, <3>5, <3>6, <4>1, <4>2, MoveKeepsForest
    <3>10. Grounded(new)
      BY <3>8, <3>9
    <3> QED BY <3>10 DEF LocationForest, new
  <2>13. ASSUME req[c].fresh, ShapesValid PROVE ShapesValid'
    <3>1. ValidShape(location[e].shape)
      BY <1>2, <2>2, <2>13 DEF ShapesValid
    <3>2. ValidShape(u.shape)
      <4>1. CASE req[c].op = "move_location"
        BY <2>2, <3>1, <4>1
      <4>2. CASE req[c].op = "reshape_location"
        <5>1. location[e].shape = req[c].was /\ ValidShape(t) /\ location[e].shape \in Shape
          BY <1>0, <2>1, <2>2, <2>3, <2>11, <2>13, <4>2 DEF StillSo, LocationRow
        <5> QED BY <2>2, <4>2, <5>1, MergeOfSame
      <4> QED BY <2>1, <4>1, <4>2
    <3> QED BY <2>6, <2>7, <2>13, <3>2 DEF ShapesValid
  <2> QED BY <1>2, <2>10, <2>12, <2>13, DevicesStand DEF Orderly
<1> QED BY <1>0, <1>1, <1>2 DEF CommitUpdateLocation

LEMMA CommitDeleteLocationHolds ==
  ASSUME TreeInv, NEW c \in Clients, CommitDeleteLocation(c)
  PROVE  TreeInv' /\ Orderly
<1>0. PICK e : e = req[c].id
  OBVIOUS
<1> DEFINE row == [NoLocation EXCEPT !.stage = "gone"]
<1>1. CASE RaiseConflict(c)
  BY <1>1, RefusedHolds, RefusedIsOrderly
<1>2. CASE /\ GetChildren(e) = {} /\ GetDevicesAt(e) = {}
           /\ location' = [location EXCEPT ![e] = row]
           /\ Committed(c) /\ UNCHANGED <<device, offered>>
  <2>1. req[c].op = "delete_location" /\ LocationRequest(req[c])
    BY DEF CommitDeleteLocation, TreeInv, Requests
  <2>2. e \in Locations /\ location[e].stage # "unused"
    BY <1>0, <2>1 DEF LocationRequest
  <2>3. device \in [Devices -> DeviceRow] /\ location \in [Locations -> LocationRow]
        /\ NothingHangsOnDeleted
    BY DEF TreeInv, TypeOK
  <2>4. row \in LocationRow /\ row.stage = "gone"
    BY DEF NoLocation, LocationRow, Stage, Rack, Shape
  <2> HIDE DEF row
  <2>5. location' \in [Locations -> LocationRow]
    BY <1>2, <2>3, <2>4
  <2>6. location'[e] = row /\ \A x \in Locations : x # e => location'[x] = location[x]
    BY <1>2, <2>2, <2>3
  <2>7. /\ \A x : IsLocation(x)' <=> IsLocation(x) /\ x # e
        /\ \A x : IsDevice(x)' <=> IsDevice(x)
    BY <1>2, <2>2, <2>4, <2>6 DEF IsDevice, IsLocation
  <2>8. /\ \A x \in Locations : IsLocation(x) => location[x].parent # e
        /\ \A x \in Devices : IsDevice(x) => device[x].place # e
    BY <1>2 DEF GetChildren, GetDevicesAt
  <2>9. NothingHangsOnDeleted'
    <3>1. ASSUME NEW x \in Devices, IsDevice(x)' PROVE DeviceKeysHold(device[x])'
      BY <1>2, <2>3, <2>7, <2>8, <3>1 DEF NothingHangsOnDeleted, DeviceKeysHold,
                                          AssertParentExists, AssertLocationExists
    <3>2. ASSUME NEW x \in Locations, IsLocation(x)' PROVE LocationKeysHold(location[x])'
      <4>1. IsLocation(x) /\ location'[x] = location[x]
        BY <2>6, <2>7, <3>2
      <4>2. LocationKeysHold(location[x]) /\ location[x].parent # e
        BY <2>3, <2>8, <4>1 DEF NothingHangsOnDeleted
      <4> QED BY <2>7, <4>1, <4>2 DEF LocationKeysHold, AssertLocationExists
    <3> QED BY <3>1, <3>2 DEF NothingHangsOnDeleted
  <2>10. TreeInv'
    <3>1. \A l \in Locations : location[l].stage # "unused" => location'[l].stage # "unused"
      BY <2>4, <2>6
    <3>2. \A l \in Locations : ~(location[l].stage = "unused" /\ location'[l].stage # "unused")
      BY <2>2, <2>6
    <3> QED BY <1>2, <2>3, <2>5, <2>9, <3>1, <3>2, CommitHolds
  <2>11. ASSUME LocationForest PROVE LocationForest'
    <3> DEFINE old == GetLocationParentMap
               new == GetLocationParentMap'
    <3>1. /\ DOMAIN old = {x \in Locations : IsLocation(x)}
          /\ \A x \in Locations : IsLocation(x) => old[x] = location[x].parent
      BY ParentMaps DEF MapsTell
    <3>2. /\ DOMAIN new = {x \in Locations : IsLocation(x)'}
          /\ \A x \in Locations : IsLocation(x)' => new[x] = location'[x].parent
      BY ParentMaps DEF MapsTell
    <3>3. Grounded(old)
      BY <2>11 DEF LocationForest
    <3> HIDE DEF old, new
    <3>4. DOMAIN new \subseteq DOMAIN old
      BY <2>7, <3>1, <3>2
    <3>5. \A x \in DOMAIN new : new[x] = old[x]
      BY <2>6, <2>7, <3>1, <3>2
    <3>6. Grounded(new)
      BY <3>3, <3>4, <3>5, FewerKeepForest
    <3> QED BY <3>6 DEF LocationForest, new
  <2>12. ShapesValid => ShapesValid'
    BY <2>6, <2>7 DEF ShapesValid
  <2> QED BY <1>2, <2>10, <2>11, <2>12, DevicesStand DEF Orderly
<1> QED BY <1>0, <1>1, <1>2 DEF CommitDeleteLocation, RestrictLocation

-----------------------------------------------------------------------------
(* The theorems.                                                            *)

LEMMA StutterHolds ==
  ASSUME TreeInv, UNCHANGED vars
  PROVE  TreeInv'
<1>1. \A x \in Clients : DeviceRequest(req'[x]) /\ LocationRequest(req'[x])
  BY DEF vars, TreeInv, Requests
<1>2. \A x \in Clients : req'[x].fresh => StillSo(req'[x])
  BY DEF vars, TreeInv, FreshStillSo
<1>3. req' \in [Clients -> Request] /\ IdsApart'
  BY DEF vars, TreeInv, TypeOK, IdsApart
<1> QED BY <1>1, <1>2, <1>3, TablesStand DEF vars

LEMMA NextHolds == TreeInv /\ [Next]_vars => TreeInv'
<1>1. ASSUME TreeInv, NEW c \in Clients, DeviceStep(c)
      PROVE  TreeInv'
  BY <1>1, CreateDeviceHolds, CommitCreateDeviceHolds, UpdateDeviceHolds,
     PrepareDeviceHolds, CommitUpdateDeviceHolds, DeleteDeviceHolds,
     CommitDeleteDeviceHolds DEF DeviceStep
<1>2. ASSUME TreeInv, NEW c \in Clients, LocationStep(c)
      PROVE  TreeInv'
  BY <1>2, CreateLocationHolds, CommitCreateLocationHolds, UpdateLocationHolds,
     PrepareLocationHolds, CommitUpdateLocationHolds, DeleteLocationHolds,
     CommitDeleteLocationHolds DEF LocationStep
<1> QED BY <1>1, <1>2, StutterHolds DEF Next

LEMMA InvAlways == Spec => []TreeInv
BY InitHolds, NextHolds, PTL DEF Spec

\* A fresh commit that leaves its client idle is a step of that client.
LEMMA FreshCommitIsOwn ==
  ASSUME TreeInv, NEW x \in Clients, NEW c \in Clients, FreshCommit(c),
         DeviceStep(x) \/ LocationStep(x)
  PROVE  /\ c = x
         /\ \/ CommitCreateDevice(c) \/ CommitUpdateDevice(c) \/ CommitDeleteDevice(c)
            \/ CommitCreateLocation(c) \/ CommitUpdateLocation(c) \/ CommitDeleteLocation(c)
<1>1. req \in [Clients -> Request] /\ req[c] \in Request
  BY DEF TreeInv, TypeOK
<1>2. req[c].pc = "write" /\ req[c].fresh /\ req'[c] = Idle /\ req[c] # Idle
  BY DEF FreshCommit, Idle
<1>3. ASSUME NEW r, Start(x, r) PROVE FALSE
  <2>1. CASE x = c
    BY <1>2, <1>3, <2>1 DEF Start
  <2>2. CASE x # c
    BY <1>1, <1>2, <1>3, <2>2 DEF Start
  <2> QED BY <2>1, <2>2
<1>4. ASSUME RaiseConflict(x) PROVE c = x
  BY <1>1, <1>2, <1>4 DEF RaiseConflict, Done
<1>5. ASSUME Committed(x), c # x PROVE FALSE
  <2>1. req'[c] = [req[c] EXCEPT !.fresh = FALSE]
    BY <1>2, <1>5 DEF Committed
  <2>2. req'[c].pc = "write"
    BY <1>1, <1>2, <2>1 DEF Request
  <2> QED BY <1>2, <2>2 DEF Idle
<1>6. ASSUME req[x].pc = "check", NEW v, req' = [req EXCEPT ![x] = v] PROVE FALSE
  <2>1. x # c
    BY <1>2, <1>6
  <2> QED BY <1>1, <1>2, <1>6, <2>1
<1>7. ~CreateDevice(x) /\ ~UpdateDevice(x) /\ ~DeleteDevice(x)
  BY <1>3 DEF CreateDevice, UpdateDevice, DeleteDevice
<1>8. ~CreateLocation(x) /\ ~UpdateLocation(x) /\ ~DeleteLocation(x)
  BY <1>3 DEF CreateLocation, UpdateLocation, DeleteLocation
<1>9. ~PrepareDeviceUpdate(x) /\ ~PrepareLocationUpdate(x)
  BY <1>6 DEF PrepareDeviceUpdate, PrepareLocationUpdate
<1>10. \/ CommitCreateDevice(x) \/ CommitUpdateDevice(x) \/ CommitDeleteDevice(x)
       \/ CommitCreateLocation(x) \/ CommitUpdateLocation(x) \/ CommitDeleteLocation(x)
  BY <1>7, <1>8, <1>9 DEF DeviceStep, LocationStep
<1>11. RaiseConflict(x) \/ Committed(x)
  BY <1>10 DEF CommitCreateDevice, CommitUpdateDevice, CommitDeleteDevice,
               CommitCreateLocation, CommitUpdateLocation, CommitDeleteLocation
<1>12. c = x
  BY <1>4, <1>5, <1>11
<1> QED BY <1>10, <1>12

LEMMA FreshCommitStep ==
  ASSUME TreeInv, NEW c \in Clients, FreshCommit(c), Next
  PROVE  Orderly /\ (req[c].op \in {"move_device", "place_device"} => ReplacesSeen(c))
<1>1. \/ CommitCreateDevice(c) \/ CommitUpdateDevice(c) \/ CommitDeleteDevice(c)
      \/ CommitCreateLocation(c) \/ CommitUpdateLocation(c) \/ CommitDeleteLocation(c)
  BY FreshCommitIsOwn DEF Next
<1>2. req[c].fresh
  BY DEF FreshCommit
<1>3. Orderly
  BY <1>1, <1>2, CommitCreateDeviceHolds, CommitUpdateDeviceHolds,
     CommitDeleteDeviceHolds, CommitCreateLocationHolds,
     CommitUpdateLocationHolds, CommitDeleteLocationHolds
<1>4. req[c].op \in {"move_device", "place_device"} => CommitUpdateDevice(c)
  BY <1>1 DEF CommitCreateDevice, CommitDeleteDevice, CommitCreateLocation,
              CommitUpdateLocation, CommitDeleteLocation
<1> QED BY <1>2, <1>3, <1>4, CommitUpdateDeviceHolds

\* The tables keep their types, and no row refers to a row that is gone,
\* whatever was deleted between the check of a request and its commit
\* (device_service, location_service and the foreign keys).
THEOREM InventoryCorrect == Spec => []InventoryHolds
<1>1. TreeInv => InventoryHolds
  BY DEF TreeInv, InventoryHolds
<1> QED BY <1>1, InvAlways, PTL

\* A request that no other commit overlaps leaves both trees forests and every
\* location with a shape that fits its type, and an update of a device replaces
\* the version its client has seen (the checks of device_update_service_support
\* and location_service are enough for one request at a time).
THEOREM FreshCommitsCorrect == Spec => FreshCommitsHold
<1>1. TreeInv /\ [Next]_vars
        => [FreshCommitsKeepOrderStep /\ FreshUpdateReplacesSeenStep]_vars
  <2> SUFFICES ASSUME TreeInv, Next
               PROVE  FreshCommitsKeepOrderStep /\ FreshUpdateReplacesSeenStep
    OBVIOUS
  <2>1. FreshCommitsKeepOrderStep
    BY FreshCommitStep DEF FreshCommitsKeepOrderStep, Orderly
  <2>2. FreshUpdateReplacesSeenStep
    BY FreshCommitStep DEF FreshUpdateReplacesSeenStep, ReplacesSeen
  <2> QED BY <2>1, <2>2
<1> QED BY <1>1, InvAlways, PTL DEF Spec, FreshCommitsHold

-----------------------------------------------------------------------------
(***************************************************************************)
(* Services and their dependencies (Services).                             *)
(***************************************************************************)

\* What the two lists of every service come to: a dependency is between rows.
BetweenRows == \A e \in deps : e[1] \in Rows /\ e[2] \in Rows
ListsAgree  == \A e \in deps : e[2] \in DependsOn(e[1]) /\ e[1] \in DependedBy(e[2])

LEMMA ListsTell ==
  /\ deps \subseteq Edges => (ListsAgree <=> BetweenRows)
  /\ deps' \subseteq Edges => (ListsAgree' <=> BetweenRows')
<1>1. deps \subseteq Edges => (ListsAgree <=> BetweenRows)
  <2>1. ASSUME deps \subseteq Edges, NEW e \in deps
        PROVE  e = <<e[1], e[2]>>
    BY <2>1 DEF Edges
  <2> QED BY <2>1 DEF ListsAgree, BetweenRows, DependsOn, DependedBy
<1>2. deps' \subseteq Edges => (ListsAgree' <=> BetweenRows')
  <2>1. ASSUME deps' \subseteq Edges, NEW e \in deps'
        PROVE  e = <<e[1], e[2]>>
    BY <2>1 DEF Edges
  <2> QED BY <2>1 DEF ListsAgree, BetweenRows, DependsOn, DependedBy
<1> QED BY <1>1, <1>2

\* The invariant of the tables, part by part.
TablesInv ==
  /\ BetweenRows
  /\ \A i, j \in Rows : service[i] = service[j] => i = j
  /\ \A i \in Rows : service[i].device \in hosts

LEMMA TablesTell ==
  /\ ServicesInv <=> /\ ServicesTypeOK /\ TablesInv /\ Rows \subseteq spent
                     /\ CallsInv /\ UndoInv
  /\ (ServicesInv <=> /\ ServicesTypeOK /\ TablesInv /\ Rows \subseteq spent
                      /\ CallsInv /\ UndoInv)'
BY ListsTell DEF ServicesInv, ServicesHold, TablesAgree, TablesInv, ServicesTypeOK, ListsAgree

\* At first every service of the workload has its row, and nobody asks.
LEMMA ServicesInitHolds == ServicesInit => ServicesInv
<1>1. SUFFICES ASSUME ServicesInit PROVE ServicesInv
  OBVIOUS
<1>2. NoRow \in Service /\ NoCall \in Call /\ NoUndo \in Snapshot
  BY DEF NoRow, NoCall, NoUndo, Service, Call, Snapshot
<1>3. ServicesTypeOK
  BY <1>1, <1>2, ServicesAssumption DEF ServicesInit, ServicesTypeOK
<1>4. \A i \in Rows : i \in DOMAIN workload.rows /\ service[i] = workload.rows[i]
  BY <1>1 DEF ServicesInit, Rows, IsService, NoRow
<1>5. TablesInv
  BY <1>1, <1>4, ServicesAssumption DEF ServicesInit, TablesInv, BetweenRows, Rows
<1>6. Rows \subseteq spent
  BY <1>1, <1>4 DEF ServicesInit
<1>7. CallsInv
  BY <1>1 DEF ServicesInit, CallsInv, CallFits, NoCall
<1>8. UndoInv
  BY <1>1 DEF ServicesInit, UndoInv, Captured, NoUndo, NoRow
<1> QED BY <1>3, <1>5, <1>6, <1>7, <1>8, TablesTell

\* A request that has read what fits the tables now.
LEMMA StartCallHolds ==
  ASSUME ServicesInv, NEW c \in Callers, NEW r \in Call, StartCall(c, r),
         CallFits([r EXCEPT !.fresh = TRUE]),
         r.op = "create" => \A x \in Callers : call[x].op = "create" => call[x].id # r.id
  PROVE  ServicesInv'
<1> DEFINE q == [r EXCEPT !.fresh = TRUE]
<1>1. q \in Call /\ q.op = r.op /\ q.id = r.id
  BY DEF Call
<1>2. ServicesTypeOK /\ TablesInv /\ Rows \subseteq spent /\ CallsInv /\ UndoInv
  BY TablesTell
<1>3. /\ UNCHANGED <<hosts, service, spent, deps, undo, workload>>
      /\ call' = [call EXCEPT ![c] = q] /\ call \in [Callers -> Call]
  BY <1>2 DEF StartCall, serviceTables, ServicesTypeOK
<1>4. call' \in [Callers -> Call] /\ \A x \in Callers : call'[x] = IF x = c THEN q ELSE call[x]
  BY <1>1, <1>3
<1>5. ServicesTypeOK'
  BY <1>2, <1>3, <1>4 DEF ServicesTypeOK
<1>6. TablesInv' /\ (Rows \subseteq spent)' /\ UndoInv'
  BY <1>2, <1>3 DEF TablesInv, BetweenRows, Rows, IsService, UndoInv, Captured
<1>7. ASSUME NEW x \in Callers PROVE CallFits(call[x])'
  <2>1. CallFits(call'[x])
    BY <1>2, <1>4 DEF CallsInv
  <2> QED BY <2>1, <1>3 DEF CallFits, DependencyCycle, Visited
<1>8. \A x, y \in Callers :
        call'[x].op = "create" /\ call'[y].op = "create" /\ call'[x].id = call'[y].id => x = y
  BY <1>1, <1>2, <1>4 DEF CallsInv
<1>9. CallsInv'
  BY <1>7, <1>8 DEF CallsInv
<1> QED BY <1>5, <1>6, <1>9, TablesTell

\* A refused request leaves the tables as they were.
LEMMA RefusedCallHolds ==
  ASSUME ServicesInv, NEW c \in Callers, Refuse(c)
  PROVE  ServicesInv'
<1>1. NoCall \in Call /\ NoCall.op = "none"
  BY DEF NoCall, NoRow, Call, Service
<1>2. ServicesTypeOK /\ TablesInv /\ Rows \subseteq spent /\ CallsInv /\ UndoInv
  BY TablesTell
<1>3. /\ UNCHANGED <<hosts, service, spent, deps, undo, workload>>
      /\ call' = [call EXCEPT ![c] = NoCall] /\ call \in [Callers -> Call]
  BY <1>2 DEF Refuse, serviceTables, ServicesTypeOK
<1>4. call' \in [Callers -> Call] /\ \A x \in Callers : call'[x] = IF x = c THEN NoCall ELSE call[x]
  BY <1>1, <1>3
<1>5. ServicesTypeOK'
  BY <1>2, <1>3, <1>4 DEF ServicesTypeOK
<1>6. TablesInv' /\ (Rows \subseteq spent)' /\ UndoInv'
  BY <1>2, <1>3 DEF TablesInv, BetweenRows, Rows, IsService, UndoInv, Captured
<1>7. ASSUME NEW x \in Callers PROVE CallFits(call[x])'
  <2>1. CallFits(call'[x])
    <3>1. CASE x = c
      BY <1>1, <1>4, <3>1 DEF CallFits
    <3>2. CASE x # c
      BY <1>2, <1>4, <3>2 DEF CallsInv
    <3> QED BY <3>1, <3>2
  <2> QED BY <2>1, <1>3 DEF CallFits, DependencyCycle, Visited
<1>8. \A x, y \in Callers :
        call'[x].op = "create" /\ call'[y].op = "create" /\ call'[x].id = call'[y].id => x = y
  BY <1>1, <1>2, <1>4 DEF CallsInv
<1>9. CallsInv'
  BY <1>7, <1>8 DEF CallsInv
<1> QED BY <1>5, <1>6, <1>9, TablesTell

\* After a commit the requests that go on are the same ones, and no longer fresh.
SameButStale ==
  /\ call' \in [Callers -> Call]
  /\ \A x \in Callers : \/ call'[x].op = "none"
                        \/ /\ call'[x].op = call[x].op /\ call'[x].id = call[x].id
                           /\ call'[x].row = call[x].row /\ call'[x].on = call[x].on
                           /\ call'[x].fresh = FALSE

LEMMA StaleIs ==
  ASSUME call \in [Callers -> Call]
  PROVE  /\ call' = Stale => SameButStale
         /\ \A c \in Callers : Commit(c) => SameButStale /\ call'[c] = NoCall
<1>1. NoCall \in Call /\ NoCall.op = "none"
  BY DEF NoCall, NoRow, Call, Service
<1>2. \A x \in Callers :
        LET q == [call[x] EXCEPT !.fresh = FALSE]
        IN /\ q \in Call /\ q.op = call[x].op /\ q.id = call[x].id
           /\ q.row = call[x].row /\ q.on = call[x].on /\ q.fresh = FALSE
  BY DEF Call
<1>3. Stale \in [Callers -> Call]
  BY <1>1, <1>2 DEF Stale
<1>4. \A x \in Callers : Stale[x] = IF call[x] = NoCall THEN NoCall
                                    ELSE [call[x] EXCEPT !.fresh = FALSE]
  BY DEF Stale
<1>5. ASSUME call' = Stale PROVE SameButStale
  <2>1. \A x \in Callers : call'[x] \in {NoCall, [call[x] EXCEPT !.fresh = FALSE]}
    BY <1>4, <1>5
  <2>2. call' \in [Callers -> Call]
    BY <1>3, <1>5
  <2>3. ASSUME NEW x \in Callers
        PROVE  \/ call'[x].op = "none"
               \/ /\ call'[x].op = call[x].op /\ call'[x].id = call[x].id
                  /\ call'[x].row = call[x].row /\ call'[x].on = call[x].on
                  /\ call'[x].fresh = FALSE
    BY <1>1, <1>2, <2>1
  <2> QED BY <2>2, <2>3 DEF SameButStale
<1>6. ASSUME NEW c \in Callers, Commit(c) PROVE SameButStale /\ call'[c] = NoCall
  <2>1. /\ call' \in [Callers -> Call] /\ call'[c] = NoCall
        /\ \A x \in Callers : x # c => call'[x] = Stale[x]
    BY <1>1, <1>3, <1>6 DEF Commit
  <2>2. ASSUME NEW x \in Callers
        PROVE  \/ call'[x].op = "none"
               \/ /\ call'[x].op = call[x].op /\ call'[x].id = call[x].id
                  /\ call'[x].row = call[x].row /\ call'[x].on = call[x].on
                  /\ call'[x].fresh = FALSE
    <3>1. call'[x] \in {NoCall, [call[x] EXCEPT !.fresh = FALSE]}
      BY <1>4, <2>1
    <3> QED BY <1>1, <1>2, <3>1
  <2> QED BY <2>1, <2>2 DEF SameButStale
<1> QED BY <1>5, <1>6

\* The requests that go on still fit, whatever was committed: an id keeps its device.
LEMMA OthersFit ==
  ASSUME ServicesInv, SameButStale,
         spent \subseteq spent', spent' \subseteq ServiceIds,
         \A x \in Callers : call'[x].op = "create" => call'[x].id \notin spent',
         \A i \in spent, d \in Hosts :
            service[i].device \in {Nowhere, d} /\ undo.rows[i].device \in {Nowhere, d}
            => service'[i].device \in {Nowhere, d} /\ undo'.rows[i].device \in {Nowhere, d}
  PROVE  CallsInv'
<1>1. CallsInv
  BY TablesTell
<1>2. ASSUME NEW x \in Callers PROVE CallFits(call[x])'
  <2>1. CallFits(call[x])
    BY <1>1 DEF CallsInv
  <2>2. CASE call'[x].op = "none"
    BY <2>2 DEF CallFits
  <2>3. CASE /\ call'[x].op = call[x].op /\ call'[x].id = call[x].id
             /\ call'[x].row = call[x].row /\ call'[x].on = call[x].on
             /\ call'[x].fresh = FALSE
    <3>1. call'[x].op = "create" => call'[x].id \in ServiceIds \ spent' /\ call'[x].row.device \in Hosts
      BY <2>1, <2>3 DEF CallFits
    <3>2. call'[x].op = "rename" =>
            /\ call'[x].id \in ServiceIds \cap spent' /\ call'[x].row.device \in Hosts
            /\ service'[call'[x].id].device \in {Nowhere, call'[x].row.device}
            /\ undo'.rows[call'[x].id].device \in {Nowhere, call'[x].row.device}
      BY <2>1, <2>3 DEF CallFits
    <3>3. call'[x].op = "delete" => call'[x].id \in ServiceIds
      BY <2>1, <2>3 DEF CallFits
    <3>4. call'[x].op = "depend" => {call'[x].id, call'[x].on} \subseteq ServiceIds /\ ~call'[x].fresh
      BY <2>1, <2>3 DEF CallFits
    <3> QED BY <3>1, <3>2, <3>3, <3>4 DEF CallFits
  <2> QED BY <2>2, <2>3 DEF SameButStale
<1>3. \A x, y \in Callers :
        call'[x].op = "create" /\ call'[y].op = "create" /\ call'[x].id = call'[y].id => x = y
  BY <1>1 DEF CallsInv, SameButStale
<1> QED BY <1>2, <1>3 DEF CallsInv

-----------------------------------------------------------------------------
(* What each request reads first.                                           *)

LEMMA CreateHolds ==
  ASSUME ServicesInv, NEW c \in Callers, Create(c) PROVE ServicesInv'
<1>1. ServicesTypeOK
  BY TablesTell
<1>2. PICK i \in ServiceIds \ spent, d \in hosts, n \in ServiceNames :
        /\ \A x \in Callers : call[x].op = "create" => call[x].id # i
        /\ StartCall(c, [NoCall EXCEPT !.op = "create", !.id = i,
                                       !.row = [device |-> d, name |-> n]])
  BY DEF Create
<1> DEFINE r == [NoCall EXCEPT !.op = "create", !.id = i,
                               !.row = [device |-> d, name |-> n]]
<1>3. r \in Call /\ r.op = "create" /\ r.id = i /\ r.row.device = d
  BY <1>1 DEF NoCall, NoRow, Call, Service, ServicesTypeOK
<1>4. CallFits([r EXCEPT !.fresh = TRUE])
  BY <1>1, <1>3 DEF CallFits, Call, ServicesTypeOK
<1>5. StartCall(c, r)
  BY <1>2
<1> HIDE DEF r
<1> QED BY <1>2, <1>3, <1>4, <1>5, StartCallHolds

LEMMA RenameHolds ==
  ASSUME ServicesInv, NEW c \in Callers, Rename(c) PROVE ServicesInv'
<1>1. ServicesTypeOK /\ TablesInv /\ Rows \subseteq spent /\ UndoInv
  BY TablesTell
<1>2. PICK i \in Rows, n \in ServiceNames :
        StartCall(c, [NoCall EXCEPT !.op = "rename", !.id = i,
                                    !.row = [service[i] EXCEPT !.name = n]])
  BY DEF Rename
<1> DEFINE r == [NoCall EXCEPT !.op = "rename", !.id = i,
                               !.row = [service[i] EXCEPT !.name = n]]
<1>3. i \in ServiceIds \cap spent /\ service[i] \in Service /\ service[i].device \in Hosts
  BY <1>1 DEF Rows, ServicesTypeOK, TablesInv
<1>4. r \in Call /\ r.op = "rename" /\ r.id = i /\ r.row.device = service[i].device
  BY <1>3 DEF NoCall, NoRow, Call, Service
<1>5. undo.rows[i].device \in {Nowhere, service[i].device}
  BY <1>1, <1>3 DEF UndoInv, Captured, Rows, IsService
<1>6. CallFits([r EXCEPT !.fresh = TRUE])
  BY <1>3, <1>4, <1>5 DEF CallFits, Call
<1>7. StartCall(c, r)
  BY <1>2
<1> HIDE DEF r
<1> QED BY <1>4, <1>6, <1>7, StartCallHolds

LEMMA DeleteHolds ==
  ASSUME ServicesInv, NEW c \in Callers, Delete(c) PROVE ServicesInv'
<1>1. PICK i \in Rows : StartCall(c, [NoCall EXCEPT !.op = "delete", !.id = i])
  BY DEF Delete
<1> DEFINE r == [NoCall EXCEPT !.op = "delete", !.id = i]
<1>2. r \in Call /\ r.op = "delete" /\ r.id = i /\ i \in ServiceIds
  BY DEF NoCall, NoRow, Call, Service, Rows
<1>3. CallFits([r EXCEPT !.fresh = TRUE])
  BY <1>2 DEF CallFits, Call
<1>4. StartCall(c, r)
  BY <1>1
<1> HIDE DEF r
<1> QED BY <1>2, <1>3, <1>4, StartCallHolds

LEMMA AddDependencyHolds ==
  ASSUME ServicesInv, NEW c \in Callers, AddDependency(c) PROVE ServicesInv'
<1>1. PICK i \in ServiceIds, on \in ServiceIds :
        /\ ValidateDependencyCreation(i, on)
        /\ StartCall(c, [NoCall EXCEPT !.op = "depend", !.id = i, !.on = on])
  BY DEF AddDependency
<1> DEFINE r == [NoCall EXCEPT !.op = "depend", !.id = i, !.on = on]
<1>2. r \in Call /\ r.op = "depend" /\ r.id = i /\ r.on = on
  BY DEF NoCall, NoRow, Call, Service
<1>3. CallFits([r EXCEPT !.fresh = TRUE])
  BY <1>1, <1>2 DEF CallFits, Call, ValidateDependencyCreation
<1>4. StartCall(c, r)
  BY <1>1
<1> HIDE DEF r
<1> QED BY <1>2, <1>3, <1>4, StartCallHolds

-----------------------------------------------------------------------------
(* What each request commits.                                               *)

\* A step that gives the ids it changes other rows, and leaves the snapshot.
LEMMA CommitCreateHolds ==
  ASSUME ServicesInv, NEW c \in Callers, CommitCreate(c) PROVE ServicesInv'
<1>1. ServicesTypeOK /\ TablesInv /\ Rows \subseteq spent /\ CallsInv /\ UndoInv
  BY TablesTell
<1> DEFINE r == call[c]
<1>2. CASE Refuse(c)
  BY <1>2, RefusedCallHolds
<1>3. CASE /\ DeviceExists(r.row.device) /\ UniqueName(r.id, r.row)
           /\ service' = [service EXCEPT ![r.id] = r.row]
           /\ spent' = spent \cup {r.id}
           /\ Commit(c)
           /\ UNCHANGED <<hosts, deps, undo, workload>>
  <2>1. /\ r \in Call /\ r.op = "create" /\ r.id \in ServiceIds \ spent
        /\ r.row \in Service /\ r.row.device \in hosts
    BY <1>1, <1>3 DEF CommitCreate, ServicesTypeOK, Call, CallsInv, CallFits, DeviceExists
  <2>2. SameButStale /\ call'[c] = NoCall
    BY <1>1, <1>3, StaleIs DEF ServicesTypeOK
  <2>3. service' \in [ServiceIds -> Service]
        /\ \A i \in ServiceIds : service'[i] = IF i = r.id THEN r.row ELSE service[i]
    BY <1>1, <1>3, <2>1 DEF ServicesTypeOK
  <2>4. ServicesTypeOK'
    BY <1>1, <1>3, <2>1, <2>2, <2>3 DEF ServicesTypeOK, SameButStale
  <2>5. r.row.device # Nowhere
    BY <1>1, <2>1, ServicesAssumption DEF ServicesTypeOK
  <2>6. Rows' = Rows \cup {r.id}
    BY <2>1, <2>3, <2>5 DEF Rows, IsService
  <2>7. \A i \in Rows : service[i] = r.row => i = r.id
    <3>1. r.row = [device |-> r.row.device, name |-> r.row.name]
      BY <2>1 DEF Service
    <3> QED BY <1>3, <3>1 DEF UniqueName, Named
  <2>8. TablesInv'
    <3>1. BetweenRows'
      BY <1>1, <1>3, <2>6 DEF BetweenRows, TablesInv
    <3>2. \A i, j \in Rows' : service'[i] = service'[j] => i = j
      BY <1>1, <2>1, <2>3, <2>6, <2>7 DEF TablesInv, Rows
    <3>3. \A i \in Rows' : service'[i].device \in hosts'
      BY <1>1, <1>3, <2>1, <2>3, <2>6 DEF TablesInv, Rows
    <3> QED BY <3>1, <3>2, <3>3 DEF TablesInv
  <2>9. (Rows \subseteq spent)'
    BY <1>1, <1>3, <2>6
  <2>10. CallsInv'
    <3>1. spent \subseteq spent' /\ spent' \subseteq ServiceIds
      BY <1>1, <1>3, <2>1 DEF ServicesTypeOK
    <3>2. \A x \in Callers : call'[x].op = "create" => call'[x].id \notin spent'
      <4>1. SUFFICES ASSUME NEW x \in Callers, call'[x].op = "create"
                     PROVE  call'[x].id \notin spent'
        OBVIOUS
      <4>2. x # c /\ call[x].op = "create" /\ call'[x].id = call[x].id
        BY <2>2, <4>1 DEF NoCall, SameButStale
      <4>3. call[x].id \notin spent /\ call[x].id # r.id
        BY <1>1, <2>1, <4>2 DEF CallsInv, CallFits
      <4> QED BY <1>3, <4>2, <4>3
    <3>3. \A i \in spent : service'[i] = service[i] /\ undo'.rows[i] = undo.rows[i]
      BY <1>1, <1>3, <2>1, <2>3 DEF ServicesTypeOK
    <3> QED BY <2>2, <3>1, <3>2, <3>3, OthersFit
  <2>11. UndoInv'
    <3>1. Captured' = Captured /\ undo' = undo /\ r.id \notin Captured /\ Captured \subseteq ServiceIds
      BY <1>1, <1>3, <2>1 DEF Captured, UndoInv
    <3> QED BY <1>1, <1>3, <2>3, <3>1 DEF UndoInv
  <2> QED BY <2>4, <2>8, <2>9, <2>10, <2>11, TablesTell
<1> QED BY <1>2, <1>3 DEF CommitCreate

LEMMA CommitRenameHolds ==
  ASSUME ServicesInv, NEW c \in Callers, CommitRename(c) PROVE ServicesInv'
<1>1. ServicesTypeOK /\ TablesInv /\ Rows \subseteq spent /\ CallsInv /\ UndoInv
  BY TablesTell
<1> DEFINE r == call[c]
<1>2. CASE Refuse(c)
  BY <1>2, RefusedCallHolds
<1>3. CASE /\ IsService(r.id) /\ UniqueName(r.id, r.row)
           /\ service' = [service EXCEPT ![r.id] = r.row]
           /\ Commit(c)
           /\ UNCHANGED <<hosts, spent, deps, undo, workload>>
  <2>1. /\ r \in Call /\ r.op = "rename" /\ r.id \in ServiceIds \cap spent
        /\ r.row \in Service /\ r.row.device = service[r.id].device
        /\ r.row.device # Nowhere /\ r.id \in Rows
        /\ undo.rows[r.id].device \in {Nowhere, r.row.device}
    BY <1>1, <1>3 DEF CommitRename, ServicesTypeOK, Call, CallsInv, CallFits, IsService, Rows
  <2>2. SameButStale /\ call'[c] = NoCall
    BY <1>1, <1>3, StaleIs DEF ServicesTypeOK
  <2>3. service' \in [ServiceIds -> Service]
        /\ \A i \in ServiceIds : service'[i] = IF i = r.id THEN r.row ELSE service[i]
    BY <1>1, <1>3, <2>1 DEF ServicesTypeOK
  <2>4. ServicesTypeOK'
    BY <1>1, <1>3, <2>1, <2>2, <2>3 DEF ServicesTypeOK, SameButStale
  <2>5. Rows' = Rows /\ \A i \in ServiceIds : service'[i].device = service[i].device
    BY <2>1, <2>3 DEF Rows, IsService
  <2>6. \A i \in Rows : service[i] = r.row => i = r.id
    <3>1. r.row = [device |-> r.row.device, name |-> r.row.name]
      BY <2>1 DEF Service
    <3> QED BY <1>3, <3>1 DEF UniqueName, Named
  <2>7. TablesInv'
    <3>1. BetweenRows'
      BY <1>1, <1>3, <2>5 DEF BetweenRows, TablesInv
    <3>2. \A i, j \in Rows' : service'[i] = service'[j] => i = j
      BY <1>1, <2>1, <2>3, <2>5, <2>6 DEF TablesInv, Rows
    <3>3. \A i \in Rows' : service'[i].device \in hosts'
      BY <1>1, <1>3, <2>5 DEF TablesInv, Rows
    <3> QED BY <3>1, <3>2, <3>3 DEF TablesInv
  <2>8. CallsInv'
    <3>1. spent \subseteq spent' /\ spent' \subseteq ServiceIds
      BY <1>1, <1>3 DEF ServicesTypeOK
    <3>2. \A x \in Callers : call'[x].op = "create" => call'[x].id \notin spent'
      BY <1>1, <1>3, <2>2 DEF CallsInv, CallFits, SameButStale
    <3>3. \A i \in spent : service'[i].device = service[i].device /\ undo'.rows[i] = undo.rows[i]
      BY <1>3, <3>1, <2>5
    <3> QED BY <2>2, <3>1, <3>2, <3>3, OthersFit
  <2>9. UndoInv'
    <3>1. Captured' = Captured /\ undo' = undo /\ Captured \subseteq ServiceIds
      BY <1>3 DEF Captured
    <3> QED BY <1>1, <1>3, <2>5, <3>1 DEF UndoInv
  <2> QED BY <1>1, <1>3, <2>4, <2>5, <2>7, <2>8, <2>9, TablesTell
<1> QED BY <1>2, <1>3 DEF CommitRename

LEMMA CommitDeleteHolds ==
  ASSUME ServicesInv, NEW c \in Callers, CommitDelete(c) PROVE ServicesInv'
<1>1. ServicesTypeOK /\ TablesInv /\ Rows \subseteq spent /\ CallsInv /\ UndoInv
  BY TablesTell
<1> DEFINE k == call[c].id
<1>2. /\ service' = [service EXCEPT ![k] = NoRow] /\ deps' = DepsWithout({k})
      /\ Commit(c) /\ UNCHANGED <<hosts, spent, undo, workload>>
      /\ k \in ServiceIds
  BY <1>1 DEF CommitDelete, CallsInv, CallFits
<1>3. SameButStale
  BY <1>1, <1>2, StaleIs DEF ServicesTypeOK
<1>4. NoRow \in Service /\ NoRow.device = Nowhere
  BY DEF NoRow, Service
<1>5. service' \in [ServiceIds -> Service]
      /\ \A i \in ServiceIds : service'[i] = IF i = k THEN NoRow ELSE service[i]
  BY <1>1, <1>2, <1>4 DEF ServicesTypeOK
<1>6. ServicesTypeOK'
  BY <1>1, <1>2, <1>3, <1>5 DEF ServicesTypeOK, SameButStale, DepsWithout
<1>7. Rows' = Rows \ {k} /\ Rows \subseteq ServiceIds
  BY <1>2, <1>4, <1>5 DEF Rows, IsService
<1>8. TablesInv'
  <2>1. BetweenRows'
    BY <1>1, <1>2, <1>7 DEF BetweenRows, TablesInv, DepsWithout
  <2>2. \A i, j \in Rows' : service'[i] = service'[j] => i = j
    BY <1>1, <1>5, <1>7 DEF TablesInv
  <2>3. \A i \in Rows' : service'[i].device \in hosts'
    BY <1>1, <1>2, <1>5, <1>7 DEF TablesInv
  <2> QED BY <2>1, <2>2, <2>3 DEF TablesInv
<1>9. CallsInv'
  <2>1. spent \subseteq spent' /\ spent' \subseteq ServiceIds
    BY <1>1, <1>2 DEF ServicesTypeOK
  <2>2. \A x \in Callers : call'[x].op = "create" => call'[x].id \notin spent'
    BY <1>1, <1>2, <1>3 DEF CallsInv, CallFits, SameButStale
  <2>3. \A i \in spent : /\ service'[i].device \in {Nowhere, service[i].device}
                         /\ undo'.rows[i] = undo.rows[i]
    BY <1>2, <1>4, <1>5, <2>1
  <2> QED BY <1>3, <2>1, <2>2, <2>3, OthersFit
<1>10. UndoInv'
  <2>1. Captured' = Captured /\ undo' = undo /\ Captured \subseteq ServiceIds
    BY <1>2 DEF Captured
  <2> QED BY <1>1, <1>2, <1>4, <1>5, <2>1 DEF UndoInv
<1> QED BY <1>1, <1>2, <1>6, <1>7, <1>8, <1>9, <1>10, TablesTell

LEMMA CommitAddDependencyHolds ==
  ASSUME ServicesInv, NEW c \in Callers, CommitAddDependency(c) PROVE ServicesInv'
<1>1. ServicesTypeOK /\ TablesInv /\ Rows \subseteq spent /\ CallsInv /\ UndoInv
  BY TablesTell
<1> DEFINE r == call[c]
<1>2. CASE Refuse(c)
  BY <1>2, RefusedCallHolds
<1>3. CASE /\ {r.id, r.on} \subseteq Rows
           /\ deps' = deps \cup {<<r.id, r.on>>}
           /\ Commit(c)
           /\ UNCHANGED <<hosts, service, spent, undo, workload>>
  <2>1. SameButStale
    BY <1>1, <1>3, StaleIs DEF ServicesTypeOK
  <2>2. Rows' = Rows /\ Captured' = Captured /\ Rows \subseteq ServiceIds
    BY <1>3 DEF Rows, IsService, Captured
  <2>3. ServicesTypeOK'
    BY <1>1, <1>3, <2>1, <2>2 DEF ServicesTypeOK, SameButStale, Edges
  <2>4. TablesInv'
    BY <1>1, <1>3, <2>2 DEF TablesInv, BetweenRows
  <2>5. CallsInv'
    <3>1. \A x \in Callers : call'[x].op = "create" => call'[x].id \notin spent'
      BY <1>1, <1>3, <2>1 DEF CallsInv, CallFits, SameButStale
    <3> QED BY <1>1, <1>3, <2>1, <3>1, OthersFit DEF ServicesTypeOK
  <2>6. UndoInv'
    BY <1>1, <1>3, <2>2 DEF UndoInv
  <2> QED BY <1>1, <1>3, <2>2, <2>3, <2>4, <2>5, <2>6, TablesTell
<1> QED BY <1>2, <1>3 DEF CommitAddDependency

LEMMA RemoveDependencyHolds ==
  ASSUME ServicesInv, RemoveDependency PROVE ServicesInv'
<1>1. ServicesTypeOK /\ TablesInv /\ Rows \subseteq spent /\ CallsInv /\ UndoInv
  BY TablesTell
<1>2. /\ deps' \subseteq deps /\ call' = Stale
      /\ UNCHANGED <<hosts, service, spent, undo, workload>>
  BY DEF RemoveDependency
<1>3. SameButStale
  BY <1>1, <1>2, StaleIs DEF ServicesTypeOK
<1>4. Rows' = Rows /\ Captured' = Captured
  BY <1>2 DEF Rows, IsService, Captured
<1>5. ServicesTypeOK'
  BY <1>1, <1>2, <1>3 DEF ServicesTypeOK, SameButStale
<1>6. TablesInv'
  BY <1>1, <1>2, <1>4 DEF TablesInv, BetweenRows
<1>7. CallsInv'
  <2>1. \A x \in Callers : call'[x].op = "create" => call'[x].id \notin spent'
    BY <1>1, <1>2, <1>3 DEF CallsInv, CallFits, SameButStale
  <2> QED BY <1>1, <1>2, <1>3, <2>1, OthersFit DEF ServicesTypeOK
<1>8. UndoInv'
  BY <1>1, <1>2, <1>4 DEF UndoInv
<1> QED BY <1>1, <1>2, <1>4, <1>5, <1>6, <1>7, <1>8, TablesTell

LEMMA DeleteHostHolds ==
  ASSUME ServicesInv, DeleteHost PROVE ServicesInv'
<1>1. ServicesTypeOK /\ TablesInv /\ Rows \subseteq spent /\ CallsInv /\ UndoInv
  BY TablesTell
<1>2. PICK d \in hosts, canvas \in BOOLEAN :
        LET gone == {i \in Rows : service[i].device = d}
        IN /\ hosts' = hosts \ {d}
           /\ service' = [i \in ServiceIds |-> IF i \in gone THEN NoRow ELSE service[i]]
           /\ deps' = DepsWithout(gone)
           /\ undo' = IF canvas
                      THEN [device |-> d, edges |-> CapturedEdges(gone),
                            rows |-> [i \in ServiceIds |-> IF i \in gone THEN service[i] ELSE NoRow]]
                      ELSE undo
           /\ call' = Stale
           /\ UNCHANGED <<spent, workload>>
  BY DEF DeleteHost
<1> DEFINE gone == {i \in Rows : service[i].device = d}
           kept == [i \in ServiceIds |-> IF i \in gone THEN service[i] ELSE NoRow]
<1>3. /\ hosts' = hosts \ {d} /\ deps' = DepsWithout(gone) /\ call' = Stale
      /\ UNCHANGED <<spent, workload>>
      /\ service' = [i \in ServiceIds |-> IF i \in gone THEN NoRow ELSE service[i]]
      /\ undo' \in {undo, [device |-> d, edges |-> CapturedEdges(gone), rows |-> kept]}
  BY <1>2
<1>4. /\ NoRow \in Service /\ NoRow.device = Nowhere
      /\ d \in Hosts /\ d # Nowhere /\ Rows \subseteq ServiceIds
  BY <1>1, ServicesAssumption DEF NoRow, Service, ServicesTypeOK, Rows
<1>5. service' \in [ServiceIds -> Service]
      /\ \A i \in ServiceIds : service'[i] = IF i \in gone THEN NoRow ELSE service[i]
  BY <1>1, <1>3, <1>4 DEF ServicesTypeOK
<1>6. kept \in [ServiceIds -> Service]
      /\ \A i \in ServiceIds : kept[i] = IF i \in gone THEN service[i] ELSE NoRow
  BY <1>1, <1>4 DEF ServicesTypeOK
<1>7. Rows' = Rows \ gone
  BY <1>4, <1>5 DEF Rows, IsService
<1>8. gone \subseteq Rows /\ \A i \in gone : service[i].device = d
  OBVIOUS
<1>9. \A i \in Rows \ gone : service[i].device # d
  OBVIOUS
<1> HIDE DEF gone, kept
<1>10. SameButStale
  BY <1>1, <1>3, StaleIs DEF ServicesTypeOK
<1>11. undo' \in Snapshot
  <2>1. CapturedEdges(gone) \subseteq Edges
    BY <1>1 DEF CapturedEdges, ServicesTypeOK
  <2>2. [device |-> d, edges |-> CapturedEdges(gone), rows |-> kept] \in Snapshot
    BY <1>4, <1>6, <2>1 DEF Snapshot
  <2> QED BY <1>1, <1>3, <2>2 DEF ServicesTypeOK
<1>12. ServicesTypeOK'
  BY <1>1, <1>3, <1>5, <1>10, <1>11 DEF ServicesTypeOK, SameButStale, DepsWithout
<1>13. TablesInv'
  <2>1. BetweenRows'
    BY <1>1, <1>3, <1>7 DEF BetweenRows, TablesInv, DepsWithout
  <2>2. \A i, j \in Rows' : service'[i] = service'[j] => i = j
    BY <1>1, <1>4, <1>5, <1>7 DEF TablesInv
  <2>3. \A i \in Rows' : service'[i].device \in hosts'
    BY <1>1, <1>3, <1>4, <1>5, <1>7, <1>9 DEF TablesInv
  <2> QED BY <2>1, <2>2, <2>3 DEF TablesInv
<1>14. CallsInv'
  <2>1. spent \subseteq spent' /\ spent' \subseteq ServiceIds
    BY <1>1, <1>3 DEF ServicesTypeOK
  <2>2. \A x \in Callers : call'[x].op = "create" => call'[x].id \notin spent'
    BY <1>1, <1>3, <1>10 DEF CallsInv, CallFits, SameButStale
  <2>3. ASSUME NEW i \in spent
        PROVE  /\ service'[i].device \in {Nowhere, service[i].device}
               /\ undo'.rows[i].device \in {Nowhere, service[i].device, undo.rows[i].device}
    <3>1. i \in ServiceIds
      BY <2>1
    <3>2. kept[i].device \in {Nowhere, service[i].device}
      BY <1>4, <1>6, <3>1
    <3>3. undo'.rows[i] \in {undo.rows[i], kept[i]}
      BY <1>3
    <3> QED BY <1>4, <1>5, <3>1, <3>2, <3>3
  <2> QED BY <1>10, <2>1, <2>2, <2>3, OthersFit
<1>15. UndoInv'
  <2>1. CASE undo' = undo
    <3>1. Captured' = Captured /\ Captured \subseteq ServiceIds
      BY <2>1 DEF Captured
    <3> QED BY <1>1, <1>3, <1>4, <1>5, <2>1, <3>1 DEF UndoInv
  <2>2. CASE undo' = [device |-> d, edges |-> CapturedEdges(gone), rows |-> kept]
    <3>1. undo'.rows = kept /\ undo'.device = d
      BY <2>2
    <3>2. Captured' = gone
      BY <1>4, <1>6, <1>8, <3>1 DEF Captured
    <3>3. \A i \in gone : kept[i] = service[i] /\ i \in ServiceIds /\ service'[i] = NoRow
      BY <1>4, <1>5, <1>6, <1>8
    <3> QED BY <1>1, <1>3, <1>4, <1>8, <3>1, <3>2, <3>3 DEF UndoInv, TablesInv
  <2> QED BY <1>3, <2>1, <2>2
<1> QED BY <1>1, <1>3, <1>7, <1>12, <1>13, <1>14, <1>15, TablesTell

LEMMA RestoreHostHolds ==
  ASSUME ServicesInv, RestoreHost PROVE ServicesInv'
<1>1. ServicesTypeOK /\ TablesInv /\ Rows \subseteq spent /\ CallsInv /\ UndoInv
  BY TablesTell
<1>2. /\ undo.device # Nowhere /\ undo.device \notin hosts
      /\ \A e \in undo.edges : {e[1], e[2]} \subseteq Rows \cup Captured
      /\ hosts' = hosts \cup {undo.device}
      /\ service' = [i \in ServiceIds |-> IF i \in Captured THEN undo.rows[i] ELSE service[i]]
      /\ deps' = deps \cup undo.edges /\ call' = Stale
      /\ UNCHANGED <<spent, undo, workload>>
  BY DEF RestoreHost, Captured
<1>3. /\ undo.device \in Hosts /\ undo.rows \in [ServiceIds -> Service] /\ undo.edges \subseteq Edges
      /\ Captured \subseteq ServiceIds /\ Rows \subseteq ServiceIds
  BY <1>1, <1>2 DEF ServicesTypeOK, Snapshot, Captured, Rows
<1>4. service' \in [ServiceIds -> Service]
      /\ \A i \in ServiceIds : service'[i] = IF i \in Captured THEN undo.rows[i] ELSE service[i]
  BY <1>1, <1>2, <1>3 DEF ServicesTypeOK
<1>5. SameButStale
  BY <1>1, <1>2, StaleIs DEF ServicesTypeOK
<1>6. ServicesTypeOK'
  BY <1>1, <1>2, <1>3, <1>4, <1>5 DEF ServicesTypeOK, SameButStale
<1>7. \A i \in Captured : service'[i] = undo.rows[i] /\ service'[i].device = undo.device
  BY <1>1, <1>3, <1>4 DEF UndoInv
<1>8. Rows' = Rows \cup Captured
  BY <1>2, <1>3, <1>4, <1>7 DEF Rows, IsService
<1>9. \A i \in Rows \ Captured : service'[i] = service[i] /\ service[i].device \in hosts
  BY <1>1, <1>3, <1>4 DEF TablesInv
<1>10. TablesInv'
  <2>1. BetweenRows'
    BY <1>1, <1>2, <1>8 DEF BetweenRows, TablesInv
  <2>2. \A i, j \in Rows' : service'[i] = service'[j] => i = j
    BY <1>1, <1>2, <1>7, <1>8, <1>9 DEF TablesInv, UndoInv
  <2>3. \A i \in Rows' : service'[i].device \in hosts'
    BY <1>2, <1>7, <1>8, <1>9
  <2> QED BY <2>1, <2>2, <2>3 DEF TablesInv
<1>11. CallsInv'
  <2>1. spent \subseteq spent' /\ spent' \subseteq ServiceIds
    BY <1>1, <1>2 DEF ServicesTypeOK
  <2>2. \A x \in Callers : call'[x].op = "create" => call'[x].id \notin spent'
    BY <1>1, <1>2, <1>5 DEF CallsInv, CallFits, SameButStale
  <2>3. \A i \in spent : /\ service'[i] \in {undo.rows[i], service[i]}
                         /\ undo'.rows[i] = undo.rows[i]
    BY <1>2, <1>4, <2>1
  <2> QED BY <1>5, <2>1, <2>2, <2>3, OthersFit
<1>12. UndoInv'
  <2>1. Captured' = Captured /\ undo' = undo
    BY <1>2 DEF Captured
  <2> QED BY <1>1, <1>2, <1>7, <2>1 DEF UndoInv
<1>13. (Rows \subseteq spent)'
  BY <1>1, <1>2, <1>8 DEF UndoInv
<1> QED BY <1>6, <1>10, <1>11, <1>12, <1>13, TablesTell

LEMMA ServicesNextHolds == ServicesInv /\ [ServicesNext]_serviceVars => ServicesInv'
<1>1. ASSUME ServicesInv, UNCHANGED serviceVars PROVE ServicesInv'
  <2>1. UNCHANGED <<hosts, service, spent, deps, call, undo, workload>>
    BY <1>1 DEF serviceVars
  <2>2. ServicesHold'
    BY <1>1, <2>1 DEF ServicesInv, ServicesHold, ServicesTypeOK, TablesAgree, DependsOn,
                      DependedBy, Rows, IsService
  <2>3. (Rows \subseteq spent)' /\ UndoInv'
    BY <1>1, <2>1 DEF ServicesInv, Rows, IsService, UndoInv, Captured
  <2>4. CallsInv'
    <3>1. ASSUME NEW x \in Callers PROVE CallFits(call[x])'
      <4>1. CallFits(call[x]) /\ call'[x] = call[x]
        BY <1>1, <2>1 DEF ServicesInv, CallsInv
      <4> QED BY <4>1, <2>1 DEF CallFits, DependencyCycle, Visited
    <3> QED BY <1>1, <2>1, <3>1 DEF ServicesInv, CallsInv
  <2> QED BY <2>2, <2>3, <2>4 DEF ServicesInv
<1>2. ASSUME ServicesInv, NEW c \in Callers, Step(c) PROVE ServicesInv'
  BY <1>2, CreateHolds, CommitCreateHolds, RenameHolds, CommitRenameHolds, DeleteHolds,
     CommitDeleteHolds, AddDependencyHolds, CommitAddDependencyHolds DEF Step
<1> QED BY <1>1, <1>2, RemoveDependencyHolds, DeleteHostHolds, RestoreHostHolds DEF ServicesNext

\* The two lists agree, names are unique, a service has its device; and what
\* the requests under way and the snapshot have read still fits.
THEOREM ServicesInductive == ServicesSpec => []ServicesInv
BY ServicesInitHolds, ServicesNextHolds, PTL DEF ServicesSpec

THEOREM ServicesCorrect == ServicesSpec => []ServicesHold
<1>1. ServicesInv => ServicesHold
  BY DEF ServicesInv
<1> QED BY <1>1, ServicesInductive, PTL

-----------------------------------------------------------------------------
(* Circles of dependencies.                                                 *)

\* Fewer dependencies make no circle.
LEMMA FewerKeepAcyclic ==
  ASSUME NEW old, NEW new, AcyclicDeps(old), new \subseteq old
  PROVE  AcyclicDeps(new)
BY DEF AcyclicDeps

\* A new dependency makes none if the search from its end does not meet its
\* start: what that search visits is closed, so a circle would have to lie
\* outside of it, and it has the new end in it.
LEMMA DependencyKeepsAcyclic ==
  ASSUME NEW graph, NEW i \in ServiceIds, NEW on \in ServiceIds,
         AcyclicDeps(graph), graph \subseteq Edges, ~DependencyCycle(graph, i, on)
  PROVE  AcyclicDeps(graph \cup {<<i, on>>})
<1>1. PICK T \in SUBSET ServiceIds :
        on \in T /\ i \notin T /\ \A e \in graph : e[1] \in T => e[2] \in T
  BY DEF DependencyCycle, Visited
<1>2. SUFFICES ASSUME NEW S \in SUBSET ServiceIds, S # {}
               PROVE  \E x \in S : \A y \in S : <<x, y>> \notin graph \cup {<<i, on>>}
  BY DEF AcyclicDeps
<1>3. CASE S \cap T = {}
  <2>1. PICK x \in S : \A y \in S : <<x, y>> \notin graph
    BY <1>2 DEF AcyclicDeps
  <2>2. \A y \in S : <<x, y>> # <<i, on>>
    BY <1>1, <1>3
  <2> QED BY <2>1, <2>2
<1>4. CASE S \cap T # {}
  <2>1. PICK x \in S \cap T : \A y \in S \cap T : <<x, y>> \notin graph
    BY <1>4 DEF AcyclicDeps
  <2>2. ASSUME NEW y \in S, <<x, y>> \in graph PROVE FALSE
    <3>1. y \in T
      BY <1>1, <2>2
    <3> QED BY <2>1, <2>2, <3>1
  <2>3. x # i
    BY <1>1
  <2> QED BY <2>2, <2>3
<1> QED BY <1>3, <1>4

LEMMA CircleStep ==
  ServicesInv /\ [ServicesNext]_serviceVars => [CircleNeedsOverlapStep]_serviceVars
<1>1. SUFFICES ASSUME ServicesInv, ServicesNext, AcyclicDeps(deps), ~AcyclicDeps(deps')
               PROVE  \/ RestoreHost
                      \/ \E c \in Callers : call[c].op = "depend" /\ ~call[c].fresh
                                          /\ call'[c] = NoCall
  BY DEF CircleNeedsOverlapStep
<1>2. ~(deps' \subseteq deps)
  BY <1>1, FewerKeepAcyclic
<1>3. ServicesTypeOK /\ CallsInv
  BY <1>1, TablesTell
<1>4. CASE RemoveDependency \/ DeleteHost
  BY <1>2, <1>4 DEF RemoveDependency, DeleteHost, DepsWithout
<1>5. ASSUME NEW c \in Callers, Step(c) PROVE CommitAddDependency(c) /\ ~Refuse(c)
  <2>1. deps' # deps
    BY <1>2
  <2>2. ~Refuse(c) /\ \A r : ~StartCall(c, r)
    BY <2>1 DEF Refuse, StartCall, serviceTables
  <2>3. ~Create(c) /\ ~Rename(c) /\ ~Delete(c) /\ ~AddDependency(c)
    BY <2>2 DEF Create, Rename, Delete, AddDependency
  <2>4. ~CommitCreate(c) /\ ~CommitRename(c) /\ ~CommitDelete(c)
    BY <1>2, <2>1, <2>2 DEF CommitCreate, CommitRename, CommitDelete, DepsWithout
  <2> QED BY <1>5, <2>2, <2>3, <2>4 DEF Step
<1>6. ASSUME NEW c \in Callers, CommitAddDependency(c), ~Refuse(c)
      PROVE  call[c].op = "depend" /\ ~call[c].fresh /\ call'[c] = NoCall
  <2>1. call[c].op = "depend" /\ deps' = deps \cup {<<call[c].id, call[c].on>>} /\ Commit(c)
    BY <1>6 DEF CommitAddDependency
  <2>2. call'[c] = NoCall
    BY <1>3, <2>1, StaleIs DEF ServicesTypeOK
  <2>3. /\ call[c].id \in ServiceIds /\ call[c].on \in ServiceIds
        /\ call[c].fresh => ~DependencyCycle(deps, call[c].id, call[c].on)
    BY <1>3, <2>1 DEF CallsInv, CallFits
  <2>4. ~call[c].fresh
    BY <1>1, <1>3, <2>1, <2>3, DependencyKeepsAcyclic DEF ServicesTypeOK
  <2> QED BY <2>1, <2>2, <2>4
<1> QED BY <1>1, <1>4, <1>5, <1>6 DEF ServicesNext

\* A circle of dependencies comes only of an insertion that another commit has
\* overlapped, or of an undo.
THEOREM CirclesCorrect == ServicesSpec => CircleNeedsOverlap
BY ServicesInductive, CircleStep, PTL DEF ServicesSpec, CircleNeedsOverlap
=============================================================================
