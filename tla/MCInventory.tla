------------------------------ MODULE MCInventory ------------------------------
(***************************************************************************)
(* The inventory for TLC, in one run: devices and locations, services, and *)
(* what a canvas loads of it.  A behaviour is one of one part, the         *)
(* variable part says of which; the other parts rest, or are Off: their    *)
(* variables have no value.  Of devices and locations each workload offers *)
(* the operations that meet.                                               *)
(***************************************************************************)
EXTENDS Inventory, Services, TLC

CONSTANTS d1, d2, d3, l1, l2, a, b,
          s1, s2, s3, n1, n2, Off, PageLimit, MaxChanges

VARIABLES part,
  cl_devices, links, layout, load, canvas, changes, steady    \* CanvasLoad

MCDevices   == {d1, d2, d3}
MCLocations == {l1, l2}
MCClients   == {a, b}

MCWorkloads ==
  {{"create_device", "move_device"}, {"create_device", "delete_device"},
   {"move_device", "delete_device"},
   {"place_device", "delete_location"},
   {"move_location", "reshape_location"},
   {"create_location", "move_location", "delete_location"}}

MCSpare     == {d3, l2}

\* One service and the requests that change it; three that may depend on each
\* other; two that may, and may be deleted.
On(d, n) == [device |-> d, name |-> n]
NoServices == [ops |-> {}, rows |-> <<>>]
ServiceLoads ==
  {NoServices,
   [ops |-> {"create", "rename", "delete"}, rows |-> s1 :> On(d1, n1)],
   [ops |-> {"depend"}, rows |-> s1 :> On(d1, n1) @@ s2 :> On(d2, n1) @@ s3 :> On(d2, n2)],
   [ops |-> {"depend", "delete"}, rows |-> s1 :> On(d1, n1) @@ s2 :> On(d2, n1)]}

L == INSTANCE CanvasLoad WITH Devices <- {d1, d2}, Drafts <- {l1}, Links <- {a, b},
       devices <- cl_devices

lvars == <<cl_devices, links, layout, load, canvas, changes, steady>>
allvars == <<part, vars, serviceVars, lvars>>

IOff == Init /\ offered = CHOOSE w \in Workloads : TRUE
SOff == ServicesInit /\ workload = NoServices
LOff == /\ cl_devices = Off /\ links = Off /\ layout = Off /\ load = Off
        /\ canvas = Off /\ changes = Off /\ steady = Off

MCInit ==
  \/ part = "inventory" /\ Init   /\ SOff /\ LOff
  \/ part = "services"  /\ ServicesInit /\ workload # NoServices /\ IOff /\ LOff
  \/ part = "load"      /\ L!Init /\ IOff /\ SOff

OnInventory == part = "inventory" /\ Next   /\ UNCHANGED <<part, serviceVars, lvars>>
OnServices  == part = "services"  /\ ServicesNext /\ UNCHANGED <<part, vars, lvars>>
OnLoad      == part = "load"      /\ L!Next /\ UNCHANGED <<part, vars, serviceVars>>

MCNext == OnInventory \/ OnServices \/ OnLoad

MCSpec == MCInit /\ [][MCNext]_allvars

MCSymmetry == Permutations({d1, d2}) \cup Permutations(MCClients)
-----------------------------------------------------------------------------
\* A loaded page shows the inventory in the places of the layout; parents come
\* before their children, and no edge lacks an end (topology_data*.py).
LoadShowsTheView ==
  part = "load" => L!TypeOK /\ L!ShowsTheInventory /\ L!ShownIsClosed
=============================================================================
