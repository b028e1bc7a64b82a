--------------------------------- MODULE Ipam ---------------------------------
(***************************************************************************)
(* The arithmetic of the address pages: what is counted, and drawn, of one *)
(* network with the addresses that devices claim in it.  An address is a   *)
(* number, a network a range of them; IPv6 networks lie in a range of      *)
(* their own.  256, the addresses of a /24, is BlockSize here.             *)
(***************************************************************************)
EXTENDS Naturals, FiniteSets, FiniteSetsExt

CONSTANTS BlockSize,     \* addresses in one block
          BlocksMost,    \* blocks of the largest network that is drawn (a /16)
          Unset

\* A network: an aligned range whose length is a power of two.
FirstOf(net) == net.first
LastOf(net)  == net.first + net.size - 1
Hosts(net)   == FirstOf(net)..LastOf(net)

ClassifyNetwork(net) ==
  IF net.family = "ipv6" THEN "unsupported"
  ELSE IF net.size <= BlockSize THEN "grid"
  ELSE IF net.size <= BlockSize * BlocksMost THEN "block_summary"
  ELSE "unsupported"

\* Claims are a set of [device, address]; those outside the network do not
\* count.
GroupClaims(net, claims) ==
  [a \in {x.address : x \in claims} \cap Hosts(net) |->
     {x.device : x \in {y \in claims : y.address = a}}]

\* The network and the broadcast address, in a /30 or larger.
ReservedEndpointsLess(net) == IF net.size > 4 THEN {FirstOf(net), LastOf(net)} ELSE {}
ReservedEndpoints(net) ==
  IF net.family = "ipv6" \/ net.size < 4 THEN {} ELSE {FirstOf(net), LastOf(net)}

UsableIpCount(net) ==
  IF net.family = "ipv6" THEN 0 ELSE IF net.size >= 4 THEN net.size - 2 ELSE net.size

BlockStart(a)   == (a \div BlockSize) * BlockSize
BlockCount(net) == (BlockStart(LastOf(net)) - BlockStart(FirstOf(net))) \div BlockSize + 1

GatewayInt(net, gateway) == IF gateway \in Hosts(net) THEN gateway ELSE Unset

AtLeastZero(used, usable) == IF used > usable THEN 0 ELSE usable - used

StatusForAddress(a, n, reserved, gateway) ==
  IF n > 1 THEN "conflict" ELSE IF a = gateway THEN "gateway"
  ELSE IF a \in reserved THEN "reserved" ELSE IF n = 1 THEN "used" ELSE "free"

BuildAllocations(grouped, reserved, gateway) ==
  {[address |-> a, block |-> BlockStart(a), claims |-> grouped[a],
    status |-> StatusForAddress(a, Cardinality(grouped[a]), reserved, gateway)] :
     a \in DOMAIN grouped}

BuildGridCells(net, grouped, reserved, gateway) ==
  LET count(a) == IF a \in DOMAIN grouped THEN Cardinality(grouped[a]) ELSE 0
  IN  [a \in Hosts(net) |->
         [index |-> a - FirstOf(net), claims |-> count(a),
          status |-> StatusForAddress(a, count(a), reserved, gateway)]]

\* What is counted of the addresses from first to last.
CountBetween(first, last, grouped, reserved, usable) ==
  LET claimed == DOMAIN grouped \cap first..last
      used    == Cardinality(claimed \ reserved)
  IN  [usable    |-> usable,
       used      |-> used,
       free      |-> AtLeastZero(used, usable),
       conflicts |-> Cardinality({a \in claimed : Cardinality(grouped[a]) > 1}),
       claims    |-> MapThenSumSet(LAMBDA a : Cardinality(grouped[a]), claimed)]

BuildBlockSummaries(net, grouped, reserved) ==
  LET starts  == {BlockStart(a) : a \in Hosts(net)}
      low(b)  == Max({b, FirstOf(net)})
      high(b) == Min({b + BlockSize - 1, LastOf(net)})
  IN  [b \in starts |->
         CountBetween(low(b), high(b), grouped, reserved,
                      high(b) - low(b) + 1 - Cardinality(reserved \cap low(b)..high(b)))]

BuildSummary(net, claims) ==
  LET grouped == GroupClaims(net, claims)
      counted == CountBetween(FirstOf(net), LastOf(net), grouped, ReservedEndpoints(net),
                              UsableIpCount(net))
  IN  IF ClassifyNetwork(net) = "unsupported"
      THEN [counted EXCEPT !.usable = Unset, !.free = Unset,
                           !.used = Cardinality(DOMAIN grouped)]
      ELSE counted

BuildDetail(net, gateway, claims) ==
  LET grouped  == GroupClaims(net, claims)
      reserved == ReservedEndpoints(net)
      router   == GatewayInt(net, gateway)
      mode     == ClassifyNetwork(net)
      nothing  == [summary |-> BuildSummary(net, claims), allocations |-> {},
                   cells |-> <<>>, blocks |-> <<>>]
      listed   == [nothing EXCEPT !.allocations = BuildAllocations(grouped, reserved, router)]
  IN  CASE mode = "unsupported" -> nothing
        [] mode = "grid" ->
             [listed EXCEPT !.cells = BuildGridCells(net, grouped, reserved, router)]
        [] OTHER -> [listed EXCEPT !.blocks = BuildBlockSummaries(net, grouped, reserved)]
-----------------------------------------------------------------------------
Sum(f, of(_)) == MapThenSumSet(LAMBDA x : of(f[x]), DOMAIN f)

\* The grid says what the summary above it says: the used addresses are those
\* with a claim that are not reserved, and what is free is drawn free, or is
\* the gateway without a claim, which the summary counts as free.
GridAgrees(net, gateway, claims) ==
  LET d == BuildDetail(net, gateway, claims)
      reserved == ReservedEndpoints(net)
      With(s) == {a \in DOMAIN d.cells : d.cells[a].status = s}
  IN  /\ d.summary.conflicts = Cardinality(With("conflict"))
      /\ d.summary.claims = Sum(d.cells, LAMBDA x : x.claims)
      /\ d.summary.used = Cardinality({a \in DOMAIN d.cells :
                                         d.cells[a].claims > 0 /\ a \notin reserved})
      /\ d.summary.free = Cardinality(With("free")) +
           Cardinality({a \in With("gateway") : d.cells[a].claims = 0 /\ a \notin reserved})
      /\ {x.address : x \in d.allocations} = {a \in DOMAIN d.cells : d.cells[a].claims > 0}
      /\ \A x \in d.allocations : x.status = d.cells[x.address].status

\* The blocks of a large network add up to its summary.
BlocksAgree(net, gateway, claims) ==
  LET d == BuildDetail(net, gateway, claims)
  IN  /\ Cardinality(DOMAIN d.blocks) = BlockCount(net)
      /\ d.summary.usable    = Sum(d.blocks, LAMBDA x : x.usable)
      /\ d.summary.used      = Sum(d.blocks, LAMBDA x : x.used)
      /\ d.summary.free      = Sum(d.blocks, LAMBDA x : x.free)
      /\ d.summary.conflicts = Sum(d.blocks, LAMBDA x : x.conflicts)
      /\ d.summary.claims    = Sum(d.blocks, LAMBDA x : x.claims)
===============================================================================
