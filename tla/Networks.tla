------------------------------- MODULE Networks -------------------------------
(***************************************************************************)
(* The networks, the addresses that devices have in them, and the pages    *)
(* that show who uses which address.  A request of network_service reads   *)
(* and checks without a lock and commits in a step of its own; ipam_service *)
(* reads the networks and the addresses in two statements.                 *)
(***************************************************************************)
EXTENDS Ipam

CONSTANTS Nets,          \* ids of networks
          NetworkNames,  \* names, up to their case
          Ranges,        \* the ranges a request may ask for: [family, first, size]
          Addresses,     \* the addresses a request may ask for
          Devices,
          Askers,        \* requests that may be under way at a time
          Workloads      \* which rows there are at first, which a request may ask
              \* for, and which requests come

VARIABLES devices,    \* the devices that exist
          network,    \* network[n]: name, range and gateway; NoNetRow without a row
          spent,      \* ids that a row has had
          member,     \* member[n][d]: the address of d in n, or Unset
          asking,     \* asking[c]: the request of c
          raced,      \* networks written by a request after another had written
                      \* them since it read (for the properties only)
          offered     \* the workload in use

networkTables == <<devices, network, spent, member>>
networkVars   == <<devices, network, spent, member, asking, raced, offered>>

NetRow      == [name : NetworkNames, net : Ranges, gateway : Addresses \cup {Unset}]
NoNetRow    == [name |-> Unset, net |-> Unset, gateway |-> Unset]
NetworkCall == [op : {"none", "create", "update", "delete", "attach", "list"},
                n : Nets \cup {Unset}, d : Devices \cup {Unset},
                was : NetRow \cup {NoNetRow}, to : NetRow \cup {NoNetRow},
                address : Addresses \cup {Unset},
                seen : [Nets -> NetRow \cup {NoNetRow}], fresh : BOOLEAN]
NoNetworkCall == [op |-> "none", n |-> Unset, d |-> Unset, was |-> NoNetRow,
                  to |-> NoNetRow, address |-> Unset,
                  seen |-> [n \in Nets |-> NoNetRow], fresh |-> FALSE]

\* The rows that there are at first obey the rules of the table and of the domain.
ASSUME NetworksAssumption ==
  /\ Unset \notin NetworkNames /\ IsFiniteSet(Devices)
  /\ \A w \in Workloads :
       /\ DOMAIN w.rows \subseteq Nets /\ w.asks \subseteq NetRow
       /\ \A n \in DOMAIN w.rows :
            /\ w.rows[n] \in NetRow
            /\ w.rows[n].gateway \in Hosts(w.rows[n].net) \cup {Unset}
            /\ \A m \in DOMAIN w.rows : w.rows[m].name = w.rows[n].name => m = n

NetworksTypeOK ==
  /\ devices \subseteq Devices /\ spent \subseteq Nets /\ raced \subseteq Nets
  /\ network \in [Nets -> NetRow \cup {NoNetRow}]
  /\ member \in [Nets -> [Devices -> Addresses \cup {Unset}]]
  /\ asking \in [Askers -> NetworkCall] /\ offered \in Workloads

NetworksInit ==
  /\ devices = Devices
  /\ offered \in Workloads
  /\ network = [n \in Nets |-> IF n \in DOMAIN offered.rows THEN offered.rows[n] ELSE NoNetRow]
  /\ spent = DOMAIN offered.rows
  /\ member = [n \in Nets |-> [d \in Devices |-> Unset]]
  /\ asking = [c \in Askers |-> NoNetworkCall]
  /\ raced = {}

StoredNets   == {n \in Nets : network[n] # NoNetRow}
Members(n)   == {d \in Devices : member[n][d] # Unset}
CountDevices(n) == Cardinality(Members(n))
GetByName(m) == {n \in StoredNets : network[n].name = m}

\* The index on lower(name); the names of requests come trimmed.
UniqueName(n, m) == GetByName(m) \subseteq {n}

-----------------------------------------------------------------------------
(* The rules of domain/networks.                                            *)

ValidateIpInSubnet(a, net) == a \in Hosts(net)
ValidateGateway(g, net)    == g = Unset \/ ValidateIpInSubnet(g, net)

\* Variant: a change of the range asks only for the gateway.
MembershipsFitNot(n, net) == TRUE

\* Every address that is given out in n lies in its new range.
ValidateMemberships(n, net) == \A d \in Members(n) : ValidateIpInSubnet(member[n][d], net)

-----------------------------------------------------------------------------
StartAsking(c, r) ==
  /\ asking[c] = NoNetworkCall /\ r.op \in offered.ops
  /\ asking' = [asking EXCEPT ![c] = [r EXCEPT !.fresh = TRUE]]
  /\ UNCHANGED <<networkTables, raced, offered>>

\* A commit on the networks ns makes what others have read of them stale.
CommitOn(c, ns) ==
  /\ asking' = [x \in Askers |->
                IF x = c \/ asking[x] = NoNetworkCall THEN NoNetworkCall
                ELSE [asking[x] EXCEPT !.fresh = @ /\ asking[x].n \notin ns \cup {Unset}]]
  /\ raced' = IF asking[c].fresh THEN raced ELSE raced \cup ns

Refuse(c) ==
  /\ asking' = [asking EXCEPT ![c] = NoNetworkCall]
  /\ UNCHANGED <<networkTables, raced, offered>>

\* POST /networks
CreateNetwork(c) ==
  \E n \in Nets \ spent, row \in offered.asks :
    /\ GetByName(row.name) = {} /\ ValidateGateway(row.gateway, row.net)
    /\ \A x \in Askers : asking[x].op = "create" => asking[x].n # n
    /\ StartAsking(c, [NoNetworkCall EXCEPT !.op = "create", !.n = n, !.to = row])

CommitCreateNetwork(c) ==
  LET r == asking[c]
  IN /\ r.op = "create"
     /\ IF UniqueName(r.n, r.to.name)
        THEN /\ network' = [network EXCEPT ![r.n] = r.to]
             /\ spent' = spent \cup {r.n}
             /\ CommitOn(c, {r.n})
             /\ UNCHANGED <<devices, member, offered>>
        ELSE Refuse(c)

\* A patch names some of the fields; a gateway it does not name must fit the
\* range it names.
ValidateAddressPatch(to) == ValidateGateway(to.gateway, to.net)

\* PATCH /networks/{id}
Update(c) ==
  \E n \in StoredNets, to \in offered.asks :
    LET was == network[n]
    IN /\ to.name # was.name => UniqueName(n, to.name)
       /\ ValidateAddressPatch(to)
       /\ to.net # was.net => ValidateMemberships(n, to.net)
       /\ StartAsking(c, [NoNetworkCall EXCEPT !.op = "update", !.n = n, !.was = was, !.to = to])

\* The session writes the columns that differ from what it had read.
Merge(stored, was, to) ==
  [f \in DOMAIN stored |-> IF to[f] = was[f] THEN stored[f] ELSE to[f]]

CommitUpdate(c) ==
  LET r == asking[c]
      row == Merge(network[r.n], r.was, r.to)
  IN /\ r.op = "update"
     /\ IF r.n \in StoredNets /\ UniqueName(r.n, row.name)
        THEN /\ network' = [network EXCEPT ![r.n] = row]
             /\ CommitOn(c, {r.n})
             /\ UNCHANGED <<devices, spent, member, offered>>
        ELSE Refuse(c)

\* Variant: only a network of which every device is a member is in use.
InUseByAll(n) == CountDevices(n) = Cardinality(devices)
InUse(n) == CountDevices(n) > 0

\* DELETE /networks/{id}: refused while devices are assigned.
DeleteNetwork(c) ==
  \E n \in StoredNets :
    /\ ~InUse(n)
    /\ StartAsking(c, [NoNetworkCall EXCEPT !.op = "delete", !.n = n])

\* Memberships go with their network, and with their device (ON DELETE
\* CASCADE).
CommitDeleteNetwork(c) ==
  LET n == asking[c].n
  IN /\ asking[c].op = "delete"
     /\ network' = [network EXCEPT ![n] = NoNetRow]
     /\ member' = [member EXCEPT ![n] = [d \in Devices |-> Unset]]
     /\ CommitOn(c, {n})
     /\ UNCHANGED <<devices, spent, offered>>

DeleteDevice(d) ==
  /\ d \in devices /\ "device" \in offered.ops
  /\ devices' = devices \ {d}
  /\ member' = [n \in Nets |-> [member[n] EXCEPT ![d] = Unset]]
  /\ UNCHANGED <<network, spent, asking, raced, offered>>

\* POST /devices/{id}/networks
AttachToDevice(c) ==
  \E d \in devices, n \in StoredNets, a \in Addresses :
    /\ ValidateIpInSubnet(a, network[n].net) /\ member[n][d] = Unset
    /\ StartAsking(c, [NoNetworkCall EXCEPT !.op = "attach", !.n = n, !.d = d, !.address = a])

\* The primary key refuses a second membership, the foreign keys one whose
\* network or device is gone.
CommitAttach(c) ==
  LET r == asking[c]
  IN /\ r.op = "attach"
     /\ IF r.d \in devices /\ r.n \in StoredNets /\ member[r.n][r.d] = Unset
        THEN /\ member' = [member EXCEPT ![r.n][r.d] = r.address]
             /\ CommitOn(c, {r.n})
             /\ UNCHANGED <<devices, network, spent, offered>>
        ELSE Refuse(c)

\* DELETE /devices/{id}/networks/{network}
DetachFromDevice(d, n) ==
  /\ d \in devices /\ n \in StoredNets /\ "attach" \in offered.ops
  /\ member' = [member EXCEPT ![n][d] = Unset]
  /\ UNCHANGED <<devices, network, spent, asking, raced, offered>>

\* GET /ipam/networks: the networks first, then the addresses in them.
ListNetworks(c) == StartAsking(c, [NoNetworkCall EXCEPT !.op = "list", !.seen = network])

Claims(n) == {[device |-> d, address |-> member[n][d]] : d \in Members(n)}
Summaries(seen) ==
  [n \in {x \in Nets : seen[x] # NoNetRow} |-> BuildSummary(seen[n].net, Claims(n))]
Visualizable(seen) ==
  {n \in DOMAIN Summaries(seen) : ClassifyNetwork(seen[n].net) # "unsupported"}
TotalAssigned(seen) == Sum(Summaries(seen), LAMBDA x : x.claims)

AnswerList(c) ==
  /\ asking[c].op = "list"
  /\ Refuse(c)

NetworksNext ==
  \/ \E c \in Askers :
       \/ CreateNetwork(c) \/ CommitCreateNetwork(c) \/ Update(c) \/ CommitUpdate(c)
       \/ DeleteNetwork(c) \/ CommitDeleteNetwork(c) \/ AttachToDevice(c) \/ CommitAttach(c)
       \/ ListNetworks(c) \/ AnswerList(c)
  \/ \E d \in Devices : DeleteDevice(d) \/ \E n \in Nets : DetachFromDevice(d, n)

NetworksSpec == NetworksInit /\ [][NetworksNext]_networkVars

-----------------------------------------------------------------------------
\* Names stay unique, and a membership has its network and its device.
NetworkKeysHold ==
  /\ \A m, n \in StoredNets : network[m].name = network[n].name => m = n
  /\ \A n \in Nets : \A d \in Members(n) : n \in StoredNets /\ d \in devices

\* Addresses and gateways lie in the range of their network, unless two
\* requests on that network overlapped: the range is checked against the
\* addresses, and an address against the range, before the commit.
AddressesFit ==
  \A n \in StoredNets \ raced :
    /\ network[n].gateway \in Hosts(network[n].net) \cup {Unset}
    /\ \A d \in Members(n) : member[n][d] \in Hosts(network[n].net)

\* The page of one network agrees with itself whatever the tables hold.
PagesAgree ==
  \A n \in StoredNets :
    LET row == network[n]
    IN CASE ClassifyNetwork(row.net) = "grid" -> GridAgrees(row.net, row.gateway, Claims(n))
         [] ClassifyNetwork(row.net) = "block_summary" ->
              BlocksAgree(row.net, row.gateway, Claims(n))
         [] OTHER -> BuildDetail(row.net, row.gateway, Claims(n)).allocations = {}

\* A list that nothing overlapped counts every address that is given out, in
\* networks that were not written by requests that overlapped.
ListCountsAll ==
  \A c \in Askers : asking[c].op = "list" /\ asking[c].fresh =>
    \A n \in StoredNets \ raced : Summaries(asking[c].seen)[n].claims = CountDevices(n)

\* The pages of the addresses add up, each in itself and with the tables
\* (domain/ipam.py, ipam_service.py).
IpamAddsUp == PagesAgree /\ ListCountsAll

\* A delete that nothing overlapped takes no address from a device.
DeleteTakesNothingStep ==
  \A c \in Askers :
    asking[c].op = "delete" /\ asking[c].fresh /\ asking'[c] = NoNetworkCall => member' = member
DeleteTakesNothing == [][DeleteTakesNothingStep]_networkVars

-----------------------------------------------------------------------------
(* The inductive invariant.                                                 *)

\* Names and ids stay unique, memberships have both their ends, and addresses lie
\* in their networks (network_service.py).
AddressesHold == NetworksTypeOK /\ NetworkKeysHold /\ AddressesFit

\* What a request has checked is still so while nobody else has written to its
\* network.
AskedFits(r) ==
  /\ r.op = "create" =>
       r.n \in Nets \ spent /\ r.to \in NetRow /\ ValidateGateway(r.to.gateway, r.to.net)
  /\ r.op = "update" =>
       /\ r.n \in Nets /\ r.was \in NetRow /\ r.to \in NetRow
       /\ r.fresh => /\ network[r.n] = r.was /\ ValidateGateway(r.to.gateway, r.to.net)
                     /\ r.n \notin raced => ValidateMemberships(r.n, r.to.net)
  /\ r.op = "delete" => r.n \in Nets \cap spent /\ (r.fresh => Members(r.n) = {})
  /\ r.op = "attach" =>
       /\ r.n \in Nets /\ r.d \in Devices
       /\ r.fresh => r.n \in StoredNets /\ ValidateIpInSubnet(r.address, network[r.n].net)

AskedInv == \A c \in Askers : AskedFits(asking[c])

\* An id is given once.
GivenInv ==
  /\ StoredNets \subseteq spent
  /\ \A x, y \in Askers :
       asking[x].op = "create" /\ asking[y].op = "create" /\ asking[x].n = asking[y].n
       => x = y

NetworksInv == AddressesHold /\ AskedInv /\ GivenInv
===============================================================================
