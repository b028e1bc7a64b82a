------------------------------- MODULE MCRecords ------------------------------
(***************************************************************************)
(* Other records of the server for TLC, in one run: networks and their     *)
(* addresses, export and import, and workspaces with their topologies.     *)
(* A behaviour is one of one part, and the others rest.                    *)
(***************************************************************************)
EXTENDS Workspaces, Networks, Transfer, TLC

CONSTANTS a, b,                \* symmetric: requests, users
          x1, x2, x3, y1, y2,  \* symmetric: ids, requests
          t1, t2,              \* symmetric: ids of topologies, devices
          v1, m1, m2, l1, l2

VARIABLE part

-----------------------------------------------------------------------------
(* Networks: none, a small one, one that is drawn as a grid, one of two    *)
(* blocks, one that is too large to be drawn, and one of IPv6.             *)

Net(size) == [family |-> "ipv4", first |-> 0, size |-> size]
RowOf(name, size, gateway) == [name |-> name, net |-> Net(size), gateway |-> gateway]
MCRanges  == {Net(4), Net(16), Net(64), [family |-> "ipv6", first |-> 100, size |-> 4]}
NoLoad    == [ops |-> {}, rows |-> <<>>, asks |-> {}]
NetLoads  ==
  {NoLoad,
   [ops |-> {"create", "update"}, rows |-> y1 :> RowOf(m1, 4, None),
    asks |-> {RowOf(m1, 4, 2), RowOf(m2, 4, None)}],
   [ops |-> {"update", "attach", "list"}, rows |-> y1 :> RowOf(m1, 16, None),
    asks |-> {RowOf(m1, 16, 9), RowOf(m1, 4, None), RowOf(m1, 4, 2),
              RowOf(m1, 64, None)}],
   [ops |-> {"delete", "attach", "create", "device"}, rows |-> y1 :> RowOf(m1, 4, 2),
    asks |-> {RowOf(m1, 4, 2)}]}

\* Tables to export: none, a device in another at a location, a circle of two, and two
\* locations that may become a circle of two.
At(place, parent) == [place |-> place, parent |-> parent]
MCTables ==
  {NoRows,
   [device |-> x1 :> At(l1, None) @@ x2 :> At(None, x1),
    location |-> l1 :> [parent |-> None], link |-> {{x1, x2}}],
   [device |-> x1 :> At(None, x2) @@ x2 :> At(None, x1), location |-> <<>>,
    link |-> {}],
   [device |-> <<>>, location |-> l1 :> [parent |-> None] @@ l2 :> [parent |-> None],
    link |-> {}]}

allvars == <<part, networkVars, transferVars, vars>>

NOff == NetworksInit /\ offered = NoLoad
WOff == Init
TOff == TransferInit /\ db = NoRows

MCInit ==
  \/ part = "networks"   /\ NetworksInit /\ offered # NoLoad /\ TOff /\ WOff
  \/ part = "transfer"   /\ TransferInit /\ db # NoRows /\ NOff /\ WOff
  \/ part = "workspaces" /\ Init /\ NOff /\ TOff

OnNetworks   == part = "networks"   /\ NetworksNext /\ UNCHANGED <<part, transferVars, vars>>
OnTransfer   == part = "transfer"   /\ TransferNext /\ UNCHANGED <<part, networkVars, vars>>
OnWorkspaces == part = "workspaces" /\ Next   /\ UNCHANGED <<part, networkVars, transferVars>>

MCNext == OnNetworks \/ OnTransfer \/ OnWorkspaces

MCSpec == MCInit /\ [][MCNext]_allvars

MCSymmetry == Permutations({a, b}) \cup Permutations({x1, x2, x3})
                \cup Permutations({y1, y2}) \cup Permutations({t1, t2})
-----------------------------------------------------------------------------
=============================================================================
