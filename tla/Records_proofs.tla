---------------------------- MODULE Records_proofs ----------------------------
(***************************************************************************)
(* The records of the server, for any number of users, ids, names, addresses *)
(* and requests: names and keys of workspaces and the topology of the first *)
(* one, networks with the addresses in them, and what an import leaves.    *)
(*                                                                         *)
(* What the invariants need beside the tables is what the requests under way *)
(* have checked: that the ids they draw are new (CallsInv, UsedInv, GivenInv), *)
(* and that a row they read is still as they read it (AskedInv).           *)
(***************************************************************************)
EXTENDS Workspaces, Networks, Transfer, FiniteSetTheorems, TLAPS

(***************************************************************************)
(* Workspaces, topologies and views (Workspaces).                          *)
(***************************************************************************)

LEMMA NoCallFits == NoCall \in Call /\ Fits(NoCall) /\ NoCall.op = "none"
  BY DEF NoCall, Call, Fits

\* A step of one request that draws an id only from new ones keeps what is known of
\* all of them.
LEMMA CallsKept ==
  ASSUME CallsInv, TypeOK, NEW c \in Clients, NEW I,
         call' \in [Clients -> Call],
         \A x \in Clients \ {c} : call'[x] = call[x],
         Fits(call'[c]),
         used' \subseteq used \cup I,
         \A x \in Clients \ {c} : call[x].op \in Drawing => call[x].id \notin I,
         call'[c].op \in Drawing =>
           /\ call'[c].id \notin used'
           /\ \A x \in Clients \ {c} : call[x].op \in Drawing => call[x].id # call'[c].id
  PROVE  CallsInv'
<1> SUFFICES ASSUME NEW x \in Clients
             PROVE  /\ Fits(call'[x])
                    /\ call'[x].op \in Drawing =>
                         /\ call'[x].id \notin used'
                         /\ \A y \in Clients :
                              call'[y].op \in Drawing /\ call'[y].id = call'[x].id => y = x
  BY DEF CallsInv, Fits
<1>1. CASE x = c
  BY <1>1
<1>2. CASE x # c
  <2>1. /\ call'[x] = call[x] /\ Fits(call[x])
        /\ call[x].op \in Drawing => call[x].id \notin used
    BY <1>2 DEF CallsInv
  <2>2. ASSUME NEW y \in Clients, call'[y].op \in Drawing, call'[y].id = call[x].id,
               call[x].op \in Drawing
        PROVE  y = x
    <3>1. CASE y = c
      BY <1>2, <2>2, <3>1
    <3>2. CASE y # c
      BY <1>2, <2>2, <3>2 DEF CallsInv
    <3> QED  BY <3>1, <3>2
  <2> QED  BY <1>2, <2>1, <2>2
<1> QED  BY <1>1, <1>2

\* A request that ends.
LEMMA EndKeepsCalls ==
  ASSUME CallsInv, TypeOK, NEW c \in Clients, NEW I, Done(c),
         used' \subseteq used \cup I,
         \A x \in Clients \ {c} : call[x].op \in Drawing => call[x].id \notin I
  PROVE  CallsInv' /\ call' \in [Clients -> Call]
<1>1. /\ call' \in [Clients -> Call] /\ call'[c] = NoCall
      /\ \A x \in Clients \ {c} : call'[x] = call[x]
  BY NoCallFits DEF Done, TypeOK
<1>2. NoCall.op \notin Drawing
  BY DEF NoCall, Drawing
<1> QED  BY <1>1, <1>2, NoCallFits, CallsKept

LEMMA EndLeavesIds ==
  ASSUME CallsInv, TypeOK, NEW c \in Clients, Done(c), used' = used
  PROVE  CallsInv' /\ call' \in [Clients -> Call]
<1>1. PICK I : used' \subseteq used \cup I /\ I = {}
  OBVIOUS
<1>2. \A x \in Clients \ {c} : call[x].op \in Drawing => call[x].id \notin I
  BY <1>1
<1> QED  BY <1>1, <1>2, EndKeepsCalls

\* One that moves on to its next commit.
LEMMA ProceedKeepsCalls ==
  ASSUME CallsInv, TypeOK, NEW c \in Clients, NEW op \in {"default", "furnish"},
         Proceed(c, op), call[c].op \in {"find", "default"},
         used' \subseteq used \cup (IF op = "furnish" THEN {call[c].id} ELSE {})
  PROVE  /\ CallsInv' /\ call' \in [Clients -> Call]
         /\ call'[c].op = op /\ call'[c].id = call[c].id
         /\ \A x \in Clients \ {c} : call'[x] = call[x]
<1>1. call[c] \in Call /\ call[c].id \in Homes
  BY DEF TypeOK, CallsInv, Fits
<1>2. /\ call' \in [Clients -> Call]
      /\ call'[c].op = op /\ call'[c].id = call[c].id
      /\ \A x \in Clients \ {c} : call'[x] = call[x]
  BY <1>1 DEF Proceed, TypeOK, Call
<1>3. Fits(call'[c])
  BY <1>1, <1>2 DEF Fits
<1>4. /\ call[c].op \in Drawing /\ call[c].id \notin used
      /\ \A x \in Clients \ {c} : call[x].op \in Drawing => call[x].id # call[c].id
  BY DEF CallsInv, Drawing
<1>5. call'[c].op \in Drawing => op = "default"
  BY <1>2 DEF Drawing
<1>6. PICK I : used' \subseteq used \cup I /\ I = (IF op = "furnish" THEN {call[c].id} ELSE {})
  OBVIOUS
<1>7. \A x \in Clients \ {c} : call[x].op \in Drawing => call[x].id \notin I
  BY <1>4, <1>6
<1>8. call'[c].op \in Drawing =>
        /\ call'[c].id \notin used'
        /\ \A x \in Clients \ {c} : call[x].op \in Drawing => call[x].id # call'[c].id
  BY <1>2, <1>4, <1>5
<1>9. CallsInv'
  BY <1>2, <1>3, <1>6, <1>7, <1>8, CallsKept
<1> QED  BY <1>2, <1>9

-----------------------------------------------------------------------------
(* Steps that write no row.                                                 *)

\* Requests that furnish a workspace go on doing so, or it is in bare or furnished.
LEMMA TablesKept ==
  ASSUME WInv, UNCHANGED tables, CallsInv', call' \in [Clients -> Call],
         bare' \subseteq Homes, bare \subseteq bare',
         \A c \in Clients : call[c].op = "furnish" =>
           \/ call'[c].op = "furnish" /\ call'[c].id = call[c].id
           \/ call[c].id \in bare' \/ call[c].id \notin Stored(home)
           \/ TopologiesOf(call[c].id) # {}
  PROVE  WInv'
<1>1. UNCHANGED <<owners, home, topology, view, used>>
  BY DEF tables
<1>2. TypeOK' /\ KeysHold' /\ UsedInv'
  BY <1>1 DEF WInv, TypeOK, KeysHold, UsedInv, Stored
<1>3. DefaultIsFurnished'
  <2> SUFFICES ASSUME NEW w \in Stored(home) \ bare', TopologiesOf(w) = {}
               PROVE  \E c \in Clients : call'[c].op = "furnish" /\ call'[c].id = w
    BY <1>1 DEF DefaultIsFurnished, TopologiesOf, Stored
  <2>1. PICK c \in Clients : call[c].op = "furnish" /\ call[c].id = w
    BY DEF WInv, DefaultIsFurnished
  <2> QED  BY <2>1
<1> QED  BY <1>2, <1>3 DEF WInv

\* A request that starts has drawn a new id, or names a row.
LEMMA StartHolds ==
  ASSUME WInv, NEW c \in Clients, NEW op, NEW id, NEW on, NEW name,
         Start(c, op, id, on, name),
         [op |-> op, id |-> id, on |-> on, name |-> name] \in Call,
         Fits([op |-> op, id |-> id, on |-> on, name |-> name]),
         op # "furnish",
         op \in Drawing => id \notin used /\ \A x \in Clients : call[x].id # id
  PROVE  WInv'
<1> DEFINE r == [op |-> op, id |-> id, on |-> on, name |-> name]
<1>1. r.op = op /\ r.id = id
  OBVIOUS
<1> HIDE DEF r
<1>2. /\ UNCHANGED <<tables, bare>> /\ call[c].op = "none"
      /\ call' = [call EXCEPT ![c] = r]
  BY DEF Start, NoCall, r
<1>3. /\ call' \in [Clients -> Call] /\ call'[c] = r
      /\ \A x \in Clients \ {c} : call'[x] = call[x]
  BY <1>2 DEF WInv, TypeOK, r
<1>4. used' = used /\ bare' = bare
  BY <1>2 DEF tables
<1>5. Fits(call'[c])
  BY <1>3 DEF r
<1>7. call'[c].op \in Drawing =>
        /\ call'[c].id \notin used'
        /\ \A x \in Clients \ {c} : call[x].op \in Drawing => call[x].id # call'[c].id
  BY <1>1, <1>3, <1>4
<1>8. PICK I : used' \subseteq used \cup I /\ I = {}
  BY <1>4
<1>9. CallsInv'
  BY <1>3, <1>5, <1>7, <1>8, CallsKept DEF WInv
<1> QED  BY <1>2, <1>3, <1>4, <1>9, TablesKept DEF WInv, TypeOK

\* What the requests start with.
LEMMA BeginHolds ==
  ASSUME WInv, NEW c \in Clients,
         \/ ListSummaries(c) \/ Create(c) \/ Rename(c) \/ Delete(c) \/ CreateTopology(c)
         \/ RenameTopology(c) \/ DeleteTopology(c) \/ CreateView(c)
  PROVE  WInv'
<1> USE WorkspacesAssumption
<1>1. owners \subseteq Owners /\ Stored(home) \subseteq Homes
      /\ Stored(topology) \subseteq Topologies
  BY DEF WInv, TypeOK, Stored
<1>2. CASE ListSummaries(c)
  <2>1. PICK u \in owners, w \in New(Homes) : Start(c, "find", w, u, Default)
    BY <1>2 DEF ListSummaries
  <2>2. [op |-> "find", id |-> w, on |-> u, name |-> Default] \in Call
    BY <1>1 DEF New, Call
  <2> QED  BY <2>1, <2>2, StartHolds DEF New, Fits
<1>3. CASE Create(c)
  <2>1. PICK u \in owners, w \in New(Homes), n \in Names : Start(c, "create", w, u, n)
    BY <1>3 DEF Create
  <2>2. [op |-> "create", id |-> w, on |-> u, name |-> n] \in Call
    BY <1>1 DEF New, Call
  <2> QED  BY <2>1, <2>2, StartHolds DEF New, Fits
<1>4. CASE Rename(c)
  <2>1. PICK w \in Stored(home), n \in Names : Start(c, "rename", w, None, n)
    BY <1>4 DEF Rename
  <2>2. [op |-> "rename", id |-> w, on |-> None, name |-> n] \in Call
    BY <1>1 DEF Call
  <2> QED  BY <1>1, <2>1, <2>2, StartHolds DEF Fits, Drawing
<1>5. CASE Delete(c)
  <2>1. PICK w \in Stored(home) : Start(c, "delete", w, None, None)
    BY <1>5 DEF Delete
  <2>2. [op |-> "delete", id |-> w, on |-> None, name |-> None] \in Call
    BY <1>1 DEF Call
  <2> QED  BY <1>1, <2>1, <2>2, StartHolds DEF Fits, Drawing
<1>6. CASE CreateTopology(c)
  <2>1. PICK w \in Stored(home), t \in New(Topologies), n \in Names :
          Start(c, "create_topology", t, w, n)
    BY <1>6 DEF CreateTopology
  <2>2. [op |-> "create_topology", id |-> t, on |-> w, name |-> n] \in Call
    BY <1>1 DEF New, Call
  <2> QED  BY <2>1, <2>2, StartHolds DEF New, Fits
<1>7. CASE RenameTopology(c)
  <2>1. PICK t \in Stored(topology), n \in Names : Start(c, "rename_topology", t, None, n)
    BY <1>7 DEF RenameTopology
  <2>2. [op |-> "rename_topology", id |-> t, on |-> None, name |-> n] \in Call
    BY <1>1 DEF Call
  <2> QED  BY <1>1, <2>1, <2>2, StartHolds DEF Fits, Drawing
<1>8. CASE DeleteTopology(c)
  <2>1. PICK t \in Stored(topology) : Start(c, "delete_topology", t, None, None)
    BY <1>8 DEF DeleteTopology
  <2>2. [op |-> "delete_topology", id |-> t, on |-> None, name |-> None] \in Call
    BY <1>1 DEF Call
  <2> QED  BY <1>1, <2>1, <2>2, StartHolds DEF Fits, Drawing
<1>9. CASE CreateView(c)
  <2>1. PICK t \in Stored(topology), v \in New(Views) : Start(c, "create_view", v, t, None)
    BY <1>9 DEF CreateView
  <2>2. [op |-> "create_view", id |-> v, on |-> t, name |-> None] \in Call
    BY <1>1 DEF New, Call
  <2> QED  BY <2>1, <2>2, StartHolds DEF New, Fits
<1> QED  BY <1>2, <1>3, <1>4, <1>5, <1>6, <1>7, <1>8, <1>9

\* An answer without a write; a request that furnishes ends so only if its workspace
\* is gone or holds a topology.
LEMMA AnswerHolds ==
  ASSUME WInv, NEW c \in Clients, Answer(c),
         call[c].op = "furnish" =>
           call[c].id \notin Stored(home) \/ TopologiesOf(call[c].id) # {}
  PROVE  WInv'
<1>1. /\ Done(c) /\ UNCHANGED <<tables, bare>>
      /\ \A x \in Clients \ {c} : call'[x] = call[x]
  BY DEF Answer, Done, WInv, TypeOK
<1>2. used' = used
  BY <1>1 DEF tables
<1>3. CallsInv' /\ call' \in [Clients -> Call]
  BY <1>1, <1>2, EndLeavesIds DEF WInv
<1>4. bare' \subseteq Homes /\ bare \subseteq bare'
  BY <1>1 DEF WInv, TypeOK
<1>5. ASSUME NEW x \in Clients, call[x].op = "furnish"
      PROVE  \/ call'[x].op = "furnish" /\ call'[x].id = call[x].id
             \/ call[x].id \in bare' \/ call[x].id \notin Stored(home)
             \/ TopologiesOf(call[x].id) # {}
  <2>1. CASE x = c
    BY <1>5, <2>1
  <2>2. CASE x # c
    BY <1>1, <1>5, <2>2
  <2> QED  BY <2>1, <2>2
<1> QED  BY <1>1, <1>3, <1>4, <1>5, TablesKept

\* A first list that finds no workspace goes on to make one.
LEMMA FindHolds == ASSUME WInv, NEW c \in Clients, GetOrCreateDefault(c) PROVE WInv'
<1>1. CASE Proceed(c, "default") /\ UNCHANGED <<tables, bare>>
  <2>1. used' = used /\ call[c].op = "find"
    BY <1>1 DEF tables, GetOrCreateDefault
  <2>2. /\ CallsInv' /\ call' \in [Clients -> Call]
        /\ \A x \in Clients \ {c} : call'[x] = call[x]
    BY <1>1, <2>1, ProceedKeepsCalls DEF WInv
  <2>3. bare' \subseteq Homes /\ bare \subseteq bare'
    BY <1>1 DEF WInv, TypeOK
  <2>4. \A x \in Clients : call[x].op = "furnish" =>
          call'[x].op = "furnish" /\ call'[x].id = call[x].id
    BY <2>1, <2>2
  <2> QED  BY <1>1, <2>2, <2>3, <2>4, TablesKept
<1>2. CASE Answer(c)
  BY <1>2, AnswerHolds DEF GetOrCreateDefault
<1> QED  BY <1>1, <1>2 DEF GetOrCreateDefault

\* The process stops: what was not furnished is in bare.
LEMMA CrashHolds == ASSUME WInv, Crash PROVE WInv'
<1>1. /\ call' = [c \in Clients |-> NoCall] /\ UNCHANGED tables
      /\ bare' = bare \cup {call[c].id : c \in {x \in Clients : call[x].op = "furnish"}}
  BY DEF Crash
<1>2. call' \in [Clients -> Call] /\ CallsInv'
  BY <1>1, NoCallFits DEF CallsInv, Drawing
<1>3. bare' \subseteq Homes
  BY <1>1 DEF WInv, TypeOK, CallsInv, Fits
<1> QED  BY <1>1, <1>2, <1>3, TablesKept

-----------------------------------------------------------------------------
(* Steps that write rows.                                                   *)

\* A workspace is written, under a name that its owner uses for no other.
LEMMA HomeHolds ==
  ASSUME WInv, NEW c \in Clients, NEW w \in Homes, NEW row \in HomeRow,
         home' = Put(home, w, row), UNCHANGED <<owners, topology, view>>,
         row.owner \in owners, NameFree(w, row.owner, row.name),
         used' = used \cup {w}, bare \subseteq bare', bare' \subseteq Homes,
         CallsInv', call' \in [Clients -> Call],
         \A x \in Clients : call[x].op = "furnish" =>
           call'[x].op = "furnish" /\ call'[x].id = call[x].id,
         \/ w \in Stored(home) \/ w \in bare'
         \/ call'[c].op = "furnish" /\ call'[c].id = w
  PROVE  WInv'
<1> USE WorkspacesAssumption
<1>1. /\ home' \in [Homes -> HomeRow \cup {None}] /\ home'[w] = row
      /\ \A x \in Homes : x # w => home'[x] = home[x]
  BY DEF Put, WInv, TypeOK
<1>2. Stored(home') = Stored(home) \cup {w} /\ Stored(home) \subseteq Homes
  BY <1>1 DEF Stored, WInv, TypeOK
<1>3. TypeOK'
  BY <1>1 DEF WInv, TypeOK
<1>4. UsedInv'
  BY <1>2 DEF WInv, UsedInv
<1>5. KeysHold'
  <2>1. ASSUME NEW x \in Stored(home'), NEW y \in Stored(home'), home'[x] = home'[y]
        PROVE  x = y
    BY <1>1, <1>2, <2>1 DEF NameFree, Owned, WInv, KeysHold
  <2>2. \A x \in Stored(home') : home'[x].owner \in owners
    BY <1>1, <1>2 DEF WInv, KeysHold
  <2> QED  BY <1>2, <2>1, <2>2 DEF WInv, KeysHold
<1>6. DefaultIsFurnished'
  <2> SUFFICES ASSUME NEW x \in Stored(home') \ bare', TopologiesOf(x) = {}
               PROVE  \E y \in Clients : call'[y].op = "furnish" /\ call'[y].id = x
    BY DEF DefaultIsFurnished, TopologiesOf
  <2>1. CASE x \in Stored(home)
    BY <2>1 DEF WInv, DefaultIsFurnished
  <2>2. CASE x \notin Stored(home)
    BY <1>2, <2>2
  <2> QED  BY <2>1, <2>2
<1> QED  BY <1>3, <1>4, <1>5, <1>6 DEF WInv

\* A topology is written, under a name that its workspace uses for no other; no row
\* moves from one workspace to another.
LEMMA TopologyHolds ==
  ASSUME WInv, NEW t \in Topologies, NEW row \in TopologyRow,
         topology' = Put(topology, t, row), UNCHANGED <<owners, home, view, bare>>,
         row.home \in Stored(home),
         \A x \in TopologiesOf(row.home) \ {t} : topology[x].name # row.name,
         t \in Stored(topology) => topology[t].home = row.home,
         used' = used \cup {t},
         CallsInv', call' \in [Clients -> Call],
         \A x \in Clients : call[x].op = "furnish" =>
           \/ call'[x].op = "furnish" /\ call'[x].id = call[x].id
           \/ call[x].id = row.home
  PROVE  WInv'
<1> USE WorkspacesAssumption
<1>1. /\ topology' \in [Topologies -> TopologyRow \cup {None}] /\ topology'[t] = row
      /\ \A x \in Topologies : x # t => topology'[x] = topology[x]
  BY DEF Put, WInv, TypeOK
<1>2. /\ Stored(topology') = Stored(topology) \cup {t}
      /\ Stored(topology) \subseteq Topologies
  BY <1>1 DEF Stored, WInv, TypeOK
<1>3. TypeOK'
  BY <1>1 DEF WInv, TypeOK
<1>4. UsedInv'
  BY <1>2 DEF WInv, UsedInv
<1>5. KeysHold'
  <2>1. ASSUME NEW x \in Stored(topology'), NEW y \in Stored(topology'),
               topology'[x] = topology'[y]
        PROVE  x = y
    BY <1>1, <1>2, <2>1 DEF TopologiesOf, WInv, KeysHold
  <2>2. \A x \in Stored(topology') : topology'[x].home \in Stored(home)
    BY <1>1, <1>2 DEF WInv, KeysHold
  <2> QED  BY <1>2, <2>1, <2>2 DEF WInv, KeysHold
<1>6. DefaultIsFurnished'
  <2> SUFFICES ASSUME NEW w \in Stored(home) \ bare
               PROVE  \/ \E x \in Stored(topology') : topology'[x].home = w
                      \/ \E x \in Clients : call'[x].op = "furnish" /\ call'[x].id = w
    BY DEF DefaultIsFurnished, TopologiesOf
  <2>1. CASE TopologiesOf(w) # {}
    BY <1>1, <1>2, <2>1 DEF TopologiesOf
  <2>2. CASE TopologiesOf(w) = {}
    <3>1. PICK x \in Clients : call[x].op = "furnish" /\ call[x].id = w
      BY <2>2 DEF WInv, DefaultIsFurnished
    <3> QED  BY <1>1, <1>2, <3>1
  <2> QED  BY <2>1, <2>2
<1> QED  BY <1>3, <1>4, <1>5, <1>6 DEF WInv

\* Rows go with what they hang on; a workspace that loses a topology alone is in bare.
LEMMA CascadeHolds ==
  ASSUME WInv, NEW ws, NEW ts, Cascade(ws, ts), used' = used,
         owners' \subseteq owners,
         \A w \in Stored(home) \ ws : home[w].owner \in owners',
         bare \subseteq bare', bare' \subseteq Homes,
         \A w \in Stored(home) : \A t \in TopologiesOf(w) : t \in ts => w \in bare',
         CallsInv', call' \in [Clients -> Call],
         \A x \in Clients : call[x].op = "furnish" =>
           call'[x].op = "furnish" /\ call'[x].id = call[x].id
  PROVE  WInv'
<1> DEFINE below == ts \cup UNION {TopologiesOf(w) : w \in ws}
<1>1. /\ \A w \in Homes : home'[w] = IF w \in ws THEN None ELSE home[w]
      /\ \A t \in Topologies : topology'[t] = IF t \in below THEN None ELSE topology[t]
      /\ \A v \in Views : view'[v] = IF view[v] \in below THEN None ELSE view[v]
      /\ home' \in [Homes -> HomeRow \cup {None}]
      /\ topology' \in [Topologies -> TopologyRow \cup {None}]
      /\ view' \in [Views -> Topologies \cup {None}]
  BY DEF Cascade, Drop, WInv, TypeOK
<1>2. /\ Stored(home') = Stored(home) \ ws
      /\ Stored(topology') = Stored(topology) \ below
      /\ Stored(view') = {v \in Stored(view) : view[v] \notin below}
      /\ Stored(home) \subseteq Homes /\ Stored(topology) \subseteq Topologies
      /\ Stored(view) \subseteq Views
  BY <1>1 DEF Stored, WInv, TypeOK
<1>3. \A w, t : w \in ws /\ t \in TopologiesOf(w) => t \in below
  OBVIOUS
<1>4. ASSUME NEW w \in Stored(home) \ ws, w \notin bare', NEW t \in TopologiesOf(w)
      PROVE  t \notin below
  BY <1>4 DEF TopologiesOf
<1> HIDE DEF below
<1>5. TypeOK'
  BY <1>1 DEF WInv, TypeOK
<1>6. UsedInv'
  BY <1>2 DEF WInv, UsedInv
<1>7. KeysHold'
  <2>1. \A w \in Stored(home') : home'[w] = home[w] /\ w \in Stored(home) \ ws
    BY <1>1, <1>2
  <2>2. \A t \in Stored(topology') :
          topology'[t] = topology[t] /\ t \in Stored(topology) /\ t \notin below
    BY <1>1, <1>2
  <2>3. \A v \in Stored(view') :
          view'[v] = view[v] /\ v \in Stored(view) /\ view[v] \notin below
    BY <1>1, <1>2
  <2>4. \A t \in Stored(topology') : topology'[t].home \in Stored(home')
    BY <1>2, <1>3, <2>2 DEF WInv, KeysHold, TopologiesOf
  <2>5. \A v \in Stored(view') : view'[v] \in Stored(topology')
    BY <1>2, <2>3 DEF WInv, KeysHold
  <2> QED  BY <2>1, <2>2, <2>4, <2>5 DEF WInv, KeysHold
<1>8. DefaultIsFurnished'
  <2> SUFFICES ASSUME NEW w \in Stored(home') \ bare'
               PROVE  \/ \E t \in Stored(topology') : topology'[t].home = w
                      \/ \E x \in Clients : call'[x].op = "furnish" /\ call'[x].id = w
    BY DEF DefaultIsFurnished, TopologiesOf
  <2>1. w \in Stored(home) \ ws /\ w \notin bare
    BY <1>2
  <2>2. CASE TopologiesOf(w) # {}
    BY <1>1, <1>2, <1>4, <2>1, <2>2 DEF TopologiesOf
  <2>3. CASE TopologiesOf(w) = {}
    <3>1. PICK x \in Clients : call[x].op = "furnish" /\ call[x].id = w
      BY <2>1, <2>3 DEF WInv, DefaultIsFurnished
    <3> QED  BY <3>1
  <2> QED  BY <2>2, <2>3
<1> QED  BY <1>5, <1>6, <1>7, <1>8 DEF WInv

-----------------------------------------------------------------------------
(* The commits.                                                             *)

LEMMA DefaultHolds == ASSUME WInv, NEW c \in Clients, CommitDefault(c) PROVE WInv'
<1> DEFINE w == call[c].id
           row == [owner |-> call[c].on, name |-> Default]
<1>1. CASE ~Answer(c)
  <2>1. /\ call[c].op = "default" /\ call[c].on \in owners /\ NameFree(w, call[c].on, Default)
        /\ home' = Put(home, w, row) /\ used' = used \cup {w}
        /\ Proceed(c, "furnish") /\ UNCHANGED <<owners, topology, view, bare>>
    BY <1>1 DEF CommitDefault
  <2>2. w \in Homes /\ row \in HomeRow /\ row.owner = call[c].on /\ row.name = Default
    BY <2>1, WorkspacesAssumption DEF WInv, CallsInv, Fits, TypeOK, HomeRow
  <2>3. /\ CallsInv' /\ call' \in [Clients -> Call]
        /\ call'[c].op = "furnish" /\ call'[c].id = w
        /\ \A x \in Clients \ {c} : call'[x] = call[x]
    BY <2>1, ProceedKeepsCalls DEF WInv
  <2>4. bare' \subseteq Homes /\ bare \subseteq bare'
    BY <2>1 DEF WInv, TypeOK
  <2>5. \A x \in Clients : call[x].op = "furnish" =>
          call'[x].op = "furnish" /\ call'[x].id = call[x].id
    BY <2>1, <2>3
  <2> HIDE DEF row, w
  <2> QED  BY <2>1, <2>2, <2>3, <2>4, <2>5, HomeHolds
<1>2. CASE Answer(c)
  BY <1>2, AnswerHolds DEF CommitDefault
<1> QED  BY <1>1, <1>2

LEMMA FurnishHolds == ASSUME WInv, NEW c \in Clients, CommitDefaultTopology(c) PROVE WInv'
<1> DEFINE w == call[c].id
           row == [home |-> w, name |-> Default]
<1> USE WorkspacesAssumption
<1>1. ASSUME w \in Stored(home), TitleFree(None, w, Default),
             NEW t \in New(Topologies), topology' = Put(topology, t, row),
             used' = used \cup {t}, Done(c), UNCHANGED <<owners, home, view, bare>>
      PROVE  WInv'
  <2>1. /\ t \in Topologies /\ t \notin used /\ \A x \in Clients : call[x].id # t
        /\ row \in TopologyRow /\ row.home = w /\ row.name = Default
    BY <1>1 DEF New, TopologyRow, Stored, WInv, TypeOK
  <2>2. \A x \in TopologiesOf(row.home) \ {t} : topology[x].name # row.name
    BY <1>1, <2>1 DEF TitleFree, TopologiesOf, Stored, WInv, TypeOK
  <2>3. t \notin Stored(topology)
    BY <2>1 DEF WInv, UsedInv
  <2>4. PICK I : used' \subseteq used \cup I /\ I = {t}
    BY <1>1
  <2>5. CallsInv' /\ call' \in [Clients -> Call]
    BY <1>1, <2>1, <2>4, EndKeepsCalls DEF WInv
  <2>6. \A x \in Clients \ {c} : call'[x] = call[x]
    BY <1>1 DEF Done, WInv, TypeOK
  <2>7. \A x \in Clients : call[x].op = "furnish" =>
          \/ call'[x].op = "furnish" /\ call'[x].id = call[x].id
          \/ call[x].id = row.home
    BY <2>1, <2>6
  <2> HIDE DEF row, w
  <2> QED  BY <1>1, <2>1, <2>2, <2>3, <2>5, <2>7, TopologyHolds
<1>2. CASE (w \notin Stored(home) \/ ~TitleFree(None, w, Default)) /\ Answer(c)
  <2>1. w \notin Stored(home) \/ TopologiesOf(w) # {}
    BY <1>2 DEF TitleFree
  <2> QED  BY <1>2, <2>1, AnswerHolds
<1> QED  BY <1>1, <1>2 DEF CommitDefaultTopology

LEMMA CreateHolds == ASSUME WInv, NEW c \in Clients, CommitCreate(c) PROVE WInv'
<1> DEFINE w == call[c].id
           row == [owner |-> call[c].on, name |-> call[c].name]
<1>1. CASE ~Answer(c)
  <2>1. /\ call[c].op = "create" /\ call[c].on \in owners
        /\ NameFree(w, call[c].on, call[c].name)
        /\ home' = Put(home, w, row) /\ used' = used \cup {w} /\ bare' = bare \cup {w}
        /\ Done(c) /\ UNCHANGED <<owners, topology, view>>
    BY <1>1 DEF CommitCreate
  <2>2. w \in Homes /\ row \in HomeRow /\ row.owner = call[c].on /\ row.name = call[c].name
    BY <2>1 DEF WInv, CallsInv, Fits, TypeOK, HomeRow
  <2>3. \A x \in Clients \ {c} : call[x].op \in Drawing => call[x].id # w
    BY <2>1 DEF WInv, CallsInv, Drawing
  <2>4. PICK I : used' \subseteq used \cup I /\ I = {w}
    BY <2>1
  <2>5. CallsInv' /\ call' \in [Clients -> Call]
    BY <2>1, <2>3, <2>4, EndKeepsCalls DEF WInv
  <2>6. \A x \in Clients : call[x].op = "furnish" =>
          call'[x].op = "furnish" /\ call'[x].id = call[x].id
    BY <2>1 DEF Done, WInv, TypeOK
  <2>7. bare' \subseteq Homes /\ bare \subseteq bare' /\ w \in bare'
    BY <2>1, <2>2 DEF WInv, TypeOK
  <2> HIDE DEF row, w
  <2> QED  BY <2>1, <2>2, <2>5, <2>6, <2>7, HomeHolds
<1>2. CASE Answer(c)
  BY <1>2, AnswerHolds DEF CommitCreate
<1> QED  BY <1>1, <1>2

LEMMA RenameHolds == ASSUME WInv, NEW c \in Clients, CommitRename(c) PROVE WInv'
<1> DEFINE w == call[c].id
           row == [home[w] EXCEPT !.name = call[c].name]
<1>1. CASE ~Answer(c)
  <2>1. /\ call[c].op = "rename" /\ w \in Stored(home)
        /\ NameFree(w, home[w].owner, call[c].name)
        /\ home' = [home EXCEPT ![w].name = call[c].name]
        /\ Done(c) /\ UNCHANGED <<owners, topology, view, used, bare>>
    BY <1>1 DEF CommitRename
  <2>2. /\ w \in Homes /\ home[w] \in HomeRow /\ call[c].name \in Names
        /\ home[w].owner \in owners /\ w \in used
    BY <2>1 DEF WInv, CallsInv, Fits, TypeOK, Stored, KeysHold, UsedInv
  <2>3. row \in HomeRow /\ row.owner = home[w].owner /\ row.name = call[c].name
    BY <2>2 DEF HomeRow
  <2>4. home' = Put(home, w, row)
    BY <2>1, <2>2 DEF Put, WInv, TypeOK
  <2>6. CallsInv' /\ call' \in [Clients -> Call]
    BY <2>1, EndLeavesIds DEF WInv
  <2>7. \A x \in Clients : call[x].op = "furnish" =>
          call'[x].op = "furnish" /\ call'[x].id = call[x].id
    BY <2>1 DEF Done, WInv, TypeOK
  <2>8. bare' \subseteq Homes /\ bare \subseteq bare' /\ used' = used \cup {w}
    BY <2>1, <2>2 DEF WInv, TypeOK
  <2> HIDE DEF row, w
  <2> QED  BY <2>1, <2>2, <2>3, <2>4, <2>6, <2>7, <2>8, HomeHolds
<1>2. CASE Answer(c)
  BY <1>2, AnswerHolds DEF CommitRename
<1> QED  BY <1>1, <1>2

LEMMA TopologyCreateHolds ==
  ASSUME WInv, NEW c \in Clients, CommitCreateTopology(c) PROVE WInv'
<1> DEFINE t == call[c].id
           row == [home |-> call[c].on, name |-> call[c].name]
<1>1. CASE ~Answer(c)
  <2>1. /\ call[c].op = "create_topology" /\ call[c].on \in Stored(home)
        /\ TitleFree(t, call[c].on, call[c].name)
        /\ topology' = Put(topology, t, row) /\ used' = used \cup {t}
        /\ Done(c) /\ UNCHANGED <<owners, home, view, bare>>
    BY <1>1 DEF CommitCreateTopology
  <2>2. /\ t \in Topologies /\ row \in TopologyRow
        /\ row.home = call[c].on /\ row.name = call[c].name
    BY <2>1 DEF WInv, CallsInv, Fits, TypeOK, TopologyRow, Stored
  <2>3. /\ t \notin used
        /\ \A x \in Clients \ {c} : call[x].op \in Drawing => call[x].id # t
    BY <2>1 DEF WInv, CallsInv, Drawing
  <2>4. t \notin Stored(topology)
    BY <2>3 DEF WInv, UsedInv
  <2>5. PICK I : used' \subseteq used \cup I /\ I = {t}
    BY <2>1
  <2>6. CallsInv' /\ call' \in [Clients -> Call]
    BY <2>1, <2>3, <2>5, EndKeepsCalls DEF WInv
  <2>7. \A x \in Clients : call[x].op = "furnish" =>
          call'[x].op = "furnish" /\ call'[x].id = call[x].id
    BY <2>1 DEF Done, WInv, TypeOK
  <2>8. \A x \in TopologiesOf(row.home) \ {t} : topology[x].name # row.name
    BY <2>1, <2>2 DEF TitleFree
  <2> HIDE DEF row, t
  <2> QED  BY <2>1, <2>2, <2>4, <2>6, <2>7, <2>8, TopologyHolds
<1>2. CASE Answer(c)
  BY <1>2, AnswerHolds DEF CommitCreateTopology
<1> QED  BY <1>1, <1>2

LEMMA TopologyRenameHolds ==
  ASSUME WInv, NEW c \in Clients, CommitRenameTopology(c) PROVE WInv'
<1> DEFINE t == call[c].id
           row == [topology[t] EXCEPT !.name = call[c].name]
<1>1. CASE ~Answer(c)
  <2>1. /\ call[c].op = "rename_topology" /\ t \in Stored(topology)
        /\ TitleFree(t, topology[t].home, call[c].name)
        /\ topology' = [topology EXCEPT ![t].name = call[c].name]
        /\ Done(c) /\ UNCHANGED <<owners, home, view, used, bare>>
    BY <1>1 DEF CommitRenameTopology
  <2>2. /\ t \in Topologies /\ topology[t] \in TopologyRow /\ call[c].name \in Names
        /\ topology[t].home \in Stored(home) /\ t \in used
    BY <2>1 DEF WInv, CallsInv, Fits, TypeOK, Stored, KeysHold, UsedInv
  <2>3. row \in TopologyRow /\ row.home = topology[t].home /\ row.name = call[c].name
    BY <2>2 DEF TopologyRow
  <2>4. topology' = Put(topology, t, row)
    BY <2>1, <2>2 DEF Put, WInv, TypeOK
  <2>6. CallsInv' /\ call' \in [Clients -> Call]
    BY <2>1, EndLeavesIds DEF WInv
  <2>7. \A x \in Clients : call[x].op = "furnish" =>
          call'[x].op = "furnish" /\ call'[x].id = call[x].id
    BY <2>1 DEF Done, WInv, TypeOK
  <2>8. used' = used \cup {t}
    BY <2>1, <2>2
  <2>9. \A x \in TopologiesOf(row.home) \ {t} : topology[x].name # row.name
    BY <2>1, <2>3 DEF TitleFree
  <2> HIDE DEF row, t
  <2> QED  BY <2>1, <2>2, <2>3, <2>4, <2>6, <2>7, <2>8, <2>9, TopologyHolds
<1>2. CASE Answer(c)
  BY <1>2, AnswerHolds DEF CommitRenameTopology
<1> QED  BY <1>1, <1>2

LEMMA DeletesHold ==
  ASSUME WInv, NEW c \in Clients, CommitDelete(c) \/ CommitDeleteTopology(c) PROVE WInv'
<1>1. Done(c) /\ UNCHANGED <<owners, used>> /\ call[c].op # "furnish"
  BY DEF CommitDelete, CommitDeleteTopology
<1>3. CallsInv' /\ call' \in [Clients -> Call]
  BY <1>1, EndLeavesIds DEF WInv
<1>4. \A x \in Clients : call[x].op = "furnish" =>
        call'[x].op = "furnish" /\ call'[x].id = call[x].id
  BY <1>1 DEF Done, WInv, TypeOK
<1>5. /\ bare \subseteq Homes /\ Stored(home) \subseteq Homes
      /\ \A w \in Stored(home) : home[w].owner \in owners'
  BY <1>1 DEF WInv, TypeOK, KeysHold, Stored
<1>6. CASE CommitDelete(c)
  <2>1. PICK ws, ts : Cascade(ws, ts) /\ ts = {} /\ bare' = bare
    BY <1>6 DEF CommitDelete
  <2> QED  BY <1>1, <1>3, <1>4, <1>5, <2>1, CascadeHolds
<1>7. CASE CommitDeleteTopology(c)
  <2>1. PICK ws, ts : /\ Cascade(ws, ts) /\ ts = {call[c].id}
                      /\ bare' = bare \cup {w \in Stored(home) : call[c].id \in TopologiesOf(w)}
    BY <1>7 DEF CommitDeleteTopology
  <2>2. /\ bare \subseteq bare' /\ bare' \subseteq Homes
        /\ \A w \in Stored(home) : \A t \in TopologiesOf(w) : t \in ts => w \in bare'
    BY <1>5, <2>1
  <2> QED  BY <1>1, <1>3, <1>4, <1>5, <2>1, <2>2, CascadeHolds
<1> QED  BY <1>6, <1>7

LEMMA OwnerHolds == ASSUME WInv, DeleteOwner PROVE WInv'
<1>1. PICK u \in owners : /\ owners' = owners \ {u} /\ Cascade(Owned(u), {})
                          /\ UNCHANGED <<used, call, bare>>
  BY DEF DeleteOwner
<1>2. CallsInv' /\ call' \in [Clients -> Call] /\ bare' \subseteq Homes
  BY <1>1 DEF WInv, CallsInv, TypeOK
<1>3. \A w \in Stored(home) \ Owned(u) : home[w].owner \in owners'
  BY <1>1 DEF Owned, WInv, KeysHold
<1>4. PICK ws, ts : Cascade(ws, ts) /\ ws = Owned(u) /\ ts = {}
  BY <1>1
<1> QED  BY <1>1, <1>2, <1>3, <1>4, CascadeHolds

LEMMA ViewHolds == ASSUME WInv, NEW c \in Clients, CommitCreateView(c) PROVE WInv'
<1> DEFINE v == call[c].id
<1> USE WorkspacesAssumption
<1>1. CASE ~Answer(c)
  <2>1. /\ call[c].op = "create_view" /\ call[c].on \in Stored(topology)
        /\ view' = Put(view, v, call[c].on) /\ used' = used \cup {v}
        /\ Done(c) /\ UNCHANGED <<owners, home, topology, bare>>
    BY <1>1 DEF CommitCreateView
  <2>2. v \in Views /\ call[c].on \in Topologies
    BY <2>1 DEF WInv, CallsInv, Fits, TypeOK, Stored
  <2>3. \A x \in Clients \ {c} : call[x].op \in Drawing => call[x].id # v
    BY <2>1 DEF WInv, CallsInv, Drawing
  <2>4. PICK I : used' \subseteq used \cup I /\ I = {v}
    BY <2>1
  <2>5. CallsInv' /\ call' \in [Clients -> Call]
    BY <2>1, <2>3, <2>4, EndKeepsCalls DEF WInv
  <2>6. \A x \in Clients : call[x].op = "furnish" =>
          call'[x].op = "furnish" /\ call'[x].id = call[x].id
    BY <2>1 DEF Done, WInv, TypeOK
  <2>7. /\ view' \in [Views -> Topologies \cup {None}] /\ view'[v] = call[c].on
        /\ \A x \in Views : x # v => view'[x] = view[x]
    BY <2>1, <2>2 DEF Put, WInv, TypeOK
  <2>8. Stored(view') = Stored(view) \cup {v} /\ Stored(view) \subseteq Views
    BY <2>2, <2>7 DEF Stored, WInv, TypeOK
  <2>9. TypeOK' /\ KeysHold' /\ UsedInv'
    BY <2>1, <2>2, <2>5, <2>7, <2>8 DEF WInv, TypeOK, KeysHold, UsedInv
  <2>10. DefaultIsFurnished'
    BY <2>1, <2>6 DEF WInv, DefaultIsFurnished, TopologiesOf
  <2> QED  BY <2>5, <2>9, <2>10 DEF WInv
<1>2. CASE Answer(c)
  BY <1>2, AnswerHolds DEF CommitCreateView
<1> QED  BY <1>1, <1>2

-----------------------------------------------------------------------------

LEMMA WInit == Init => WInv
<1> SUFFICES ASSUME Init PROVE WInv
  OBVIOUS
<1>1. Stored(home) = {} /\ Stored(topology) = {} /\ Stored(view) = {}
  BY DEF Init, Stored
<1>2. TypeOK /\ CallsInv
  BY NoCallFits DEF Init, TypeOK, CallsInv, Drawing
<1> QED  BY <1>1, <1>2 DEF WInv, KeysHold, DefaultIsFurnished, UsedInv

LEMMA WNext == WInv /\ [Next]_vars => WInv'
<1> SUFFICES ASSUME WInv, [Next]_vars PROVE WInv'
  OBVIOUS
<1>1. CASE UNCHANGED vars
  <2>1. CallsInv' /\ call' \in [Clients -> Call] /\ bare' \subseteq Homes /\ UNCHANGED tables
    BY <1>1 DEF vars, tables, WInv, CallsInv, TypeOK
  <2> QED  BY <1>1, <2>1, TablesKept DEF vars
<1>2. CASE Next
  <2>1. ASSUME NEW c \in Clients, Step(c) PROVE WInv'
    BY <2>1, BeginHolds, FindHolds, DefaultHolds, FurnishHolds, CreateHolds, RenameHolds,
       DeletesHold, TopologyCreateHolds, TopologyRenameHolds, ViewHolds DEF Step
  <2> QED  BY <1>2, <2>1, OwnerHolds, CrashHolds DEF Next
<1> QED  BY <1>1, <1>2

\* Whatever requests on workspaces, topologies and views overlap, and wherever the
\* process stops: no two workspaces of a user and no two topologies of a workspace share a
\* name, every row hangs on one that exists, and the workspace that a first list has made
\* gets its topology (workspace_service.py, topology_service.py).
THEOREM WorkspacesCorrect == Spec => []WorkspacesHold
<1>1. Spec => []WInv
  BY WInit, WNext, PTL DEF Spec
<1>2. WInv => WorkspacesHold
  BY DEF WInv, WorkspacesHold
<1> QED  BY <1>1, <1>2, PTL

-----------------------------------------------------------------------------
(***************************************************************************)
(* Networks and the addresses in them (Networks).                          *)
(***************************************************************************)

\* A row that is stored is no missing row, and a missing row has no name.
LEMMA RowsAreRows == NoNetRow \notin NetRow
  BY NetworksAssumption DEF NoNetRow, NetRow

\* No request is well typed, and has nothing to be stale.
LEMMA NothingAsked ==
  /\ NoNetworkCall \in NetworkCall /\ NoNetworkCall.op = "none"
  /\ AskedFits(NoNetworkCall) /\ AskedFits(NoNetworkCall)'
<1>1. /\ [n \in Nets |-> NoNetRow] \in [Nets -> NetRow \cup {NoNetRow}]
      /\ NoNetworkCall.op = "none"
  BY DEF NoNetworkCall
<1>2. NoNetworkCall \in NetworkCall
  BY <1>1 DEF NoNetworkCall, NetworkCall
<1> QED  BY <1>1, <1>2 DEF AskedFits

\* A request that starts, after it has checked what it has read.
LEMMA AskHolds ==
  ASSUME NetworksInv, NEW c \in Askers, NEW r \in NetworkCall, StartAsking(c, r),
         r.op = "create" => /\ r.n \in Nets \ spent /\ r.to \in NetRow
                            /\ ValidateGateway(r.to.gateway, r.to.net)
                            /\ \A x \in Askers : asking[x].op = "create" => asking[x].n # r.n,
         r.op = "update" => /\ r.n \in Nets /\ r.was \in NetRow /\ r.to \in NetRow
                            /\ network[r.n] = r.was /\ ValidateGateway(r.to.gateway, r.to.net)
                            /\ r.n \notin raced => ValidateMemberships(r.n, r.to.net),
         r.op = "delete" => r.n \in Nets \cap spent /\ Members(r.n) = {},
         r.op = "attach" => /\ r.n \in StoredNets /\ r.d \in Devices
                            /\ ValidateIpInSubnet(r.address, network[r.n].net)
  PROVE  NetworksInv'
<1>1. PICK q : q = [r EXCEPT !.fresh = TRUE]
  OBVIOUS
<1>2. /\ q \in NetworkCall /\ q.op = r.op /\ q.n = r.n /\ q.d = r.d /\ q.was = r.was
      /\ q.to = r.to /\ q.address = r.address
  BY <1>1 DEF NetworkCall
<1>3. /\ asking' = [asking EXCEPT ![c] = q] /\ asking[c] = NoNetworkCall
      /\ UNCHANGED <<devices, network, spent, member, raced, offered>>
  BY <1>1 DEF StartAsking, networkTables
<1>4. /\ asking' \in [Askers -> NetworkCall] /\ asking'[c] = q
      /\ \A x \in Askers \ {c} : asking'[x] = asking[x]
  BY <1>2, <1>3 DEF NetworksInv, AddressesHold, NetworksTypeOK
<1>5. AskedFits(q)'
  BY <1>2, <1>3 DEF AskedFits, StoredNets, Members, ValidateMemberships
<1>6. AskedInv'
  <2>1. \A x \in Askers : AskedFits(asking[x])'
    BY <1>3, <1>4, <1>5
       DEF NetworksInv, AskedInv, AskedFits, StoredNets, Members, ValidateMemberships
  <2> QED  BY <2>1 DEF AskedInv
<1>7. GivenInv'
  BY <1>2, <1>3, <1>4 DEF NetworksInv, GivenInv, StoredNets
<1>8. AddressesHold'
  <2>1. NetworksTypeOK'
    BY <1>3, <1>4 DEF NetworksInv, AddressesHold, NetworksTypeOK
  <2>2. NetworkKeysHold'
    BY <1>3, <1>4 DEF NetworksInv, AddressesHold, NetworkKeysHold, StoredNets, Members
  <2>3. AddressesFit'
    BY <1>3, <1>4 DEF NetworksInv, AddressesHold, AddressesFit, StoredNets, Members
  <2> QED  BY <2>1, <2>2, <2>3 DEF AddressesHold
<1> QED  BY <1>6, <1>7, <1>8 DEF NetworksInv

\* A request that ends without a commit.
LEMMA RefuseHolds ==
  ASSUME NetworksInv, NEW c \in Askers, Refuse(c)
  PROVE  NetworksInv'
<1>1. /\ asking' = [asking EXCEPT ![c] = NoNetworkCall]
      /\ UNCHANGED <<devices, network, spent, member, raced, offered>>
  BY DEF Refuse, networkTables
<1>2. /\ asking' \in [Askers -> NetworkCall] /\ asking'[c] = NoNetworkCall
      /\ \A x \in Askers \ {c} : asking'[x] = asking[x]
  BY <1>1, NothingAsked DEF NetworksInv, AddressesHold, NetworksTypeOK
<1>3. AskedInv'
  <2>1. \A x \in Askers : AskedFits(asking[x])'
    BY <1>1, <1>2, NothingAsked
       DEF NetworksInv, AskedInv, AskedFits, StoredNets, Members, ValidateMemberships
  <2> QED  BY <2>1 DEF AskedInv
<1>4. GivenInv'
  BY <1>1, <1>2, NothingAsked DEF NetworksInv, GivenInv, StoredNets
<1>5. AddressesHold'
  <2>1. NetworksTypeOK'
    BY <1>1, <1>2 DEF NetworksInv, AddressesHold, NetworksTypeOK
  <2>2. NetworkKeysHold'
    BY <1>1, <1>2 DEF NetworksInv, AddressesHold, NetworkKeysHold, StoredNets, Members
  <2>3. AddressesFit'
    BY <1>1, <1>2 DEF NetworksInv, AddressesHold, AddressesFit, StoredNets, Members
  <2> QED  BY <2>1, <2>2, <2>3 DEF AddressesHold
<1> QED  BY <1>3, <1>4, <1>5 DEF NetworksInv

\* What a commit on one network leaves of the other requests: those on that network
\* are stale, the others find their network as they have read it.
LEMMA CommitLeaves ==
  ASSUME NetworksInv, NEW c \in Askers, NEW n \in Nets, CommitOn(c, {n}),
         \A m \in Nets \ {n} : /\ network'[m] = network[m]
                               /\ \A d \in Devices : member'[m][d] = member[m][d],
         spent \subseteq spent' /\ spent' \subseteq spent \cup {n},
         \A x \in Askers \ {c} : asking[x].op = "create" => asking[x].n # n
  PROVE  /\ asking' \in [Askers -> NetworkCall] /\ AskedInv'
         /\ \A x, y \in Askers :
              asking'[x].op = "create" /\ asking'[y].op = "create" /\ asking'[x].n = asking'[y].n
              => x = y
         /\ raced \subseteq raced' /\ raced' \subseteq raced \cup {n}
         /\ ~asking[c].fresh => n \in raced'
<1>1. raced \subseteq raced' /\ raced' \subseteq raced \cup {n} /\ (~asking[c].fresh => n \in raced')
  BY DEF CommitOn
<1>2. ASSUME NEW x \in Askers
      PROVE  /\ asking'[x] \in NetworkCall /\ AskedFits(asking[x])'
             /\ asking'[x].op = "create" =>
                  x # c /\ asking[x].op = "create" /\ asking'[x].n = asking[x].n
  <2>1. CASE x = c \/ asking[x] = NoNetworkCall
    BY <2>1, NothingAsked DEF CommitOn
  <2>2. CASE x # c /\ asking[x] # NoNetworkCall
    <3>1. PICK o : o = asking[x]
      OBVIOUS
    <3>2. o \in NetworkCall /\ AskedFits(o)
      BY <3>1 DEF NetworksInv, AddressesHold, NetworksTypeOK, AskedInv
    <3>3. PICK q : q = [o EXCEPT !.fresh = o.fresh /\ o.n \notin {n} \cup {Unset}]
      OBVIOUS
    <3>4. /\ q \in NetworkCall /\ q.op = o.op /\ q.n = o.n /\ q.d = o.d /\ q.was = o.was
          /\ q.to = o.to /\ q.address = o.address
          /\ (q.fresh => o.fresh /\ o.n # n)
      BY <3>2, <3>3 DEF NetworkCall
    <3>5. asking'[x] = q
      BY <2>2, <3>1, <3>3 DEF CommitOn
    <3>6. q.op = "create" => q.n # n
      BY <2>2, <3>1, <3>4
    <3>7. AskedFits(q)'
      BY <1>1, <3>2, <3>4, <3>6 DEF AskedFits, StoredNets, Members, ValidateMemberships
    <3> QED  BY <2>2, <3>1, <3>4, <3>5, <3>7
  <2> QED  BY <2>1, <2>2
<1>3. asking' \in [Askers -> NetworkCall]
  BY <1>2 DEF CommitOn
<1>4. AskedInv'
  BY <1>2 DEF AskedInv, AskedFits
<1>5. \A x, y \in Askers :
        asking'[x].op = "create" /\ asking'[y].op = "create" /\ asking'[x].n = asking'[y].n
        => x = y
  BY <1>2 DEF NetworksInv, GivenInv
<1> QED  BY <1>1, <1>3, <1>4, <1>5

\* A new network takes an id that is nobody's, and has no member yet.
LEMMA CreateNetworkHolds ==
  ASSUME NetworksInv, NEW c \in Askers, CreateNetwork(c)
  PROVE  NetworksInv'
<1>1. PICK n \in Nets \ spent, row \in offered.asks :
        /\ ValidateGateway(row.gateway, row.net)
        /\ \A x \in Askers : asking[x].op = "create" => asking[x].n # n
        /\ StartAsking(c, [NoNetworkCall EXCEPT !.op = "create", !.n = n, !.to = row])
  BY DEF CreateNetwork
<1>2. row \in NetRow
  BY <1>1, NetworksAssumption DEF NetworksInv, AddressesHold, NetworksTypeOK
<1>3. PICK r : r = [NoNetworkCall EXCEPT !.op = "create", !.n = n, !.to = row]
  OBVIOUS
<1>4. r \in NetworkCall /\ r.op = "create" /\ r.n = n /\ r.to = row
  BY <1>1, <1>2, <1>3, NothingAsked DEF NetworkCall
<1> QED  BY <1>1, <1>2, <1>3, <1>4, AskHolds

LEMMA CommitCreateHolds ==
  ASSUME NetworksInv, NEW c \in Askers, CommitCreateNetwork(c)
  PROVE  NetworksInv'
<1>1. CASE Refuse(c)
  BY <1>1, RefuseHolds
<1>2. CASE ~Refuse(c)
  <2>1. PICK r : r = asking[c]
    OBVIOUS
  <2>2. /\ r.op = "create" /\ UniqueName(r.n, r.to.name)
        /\ network' = [network EXCEPT ![r.n] = r.to]
        /\ spent' = spent \cup {r.n}
        /\ CommitOn(c, {r.n})
        /\ UNCHANGED <<devices, member, offered>>
    BY <1>2, <2>1 DEF CommitCreateNetwork
  <2>3. /\ r \in NetworkCall /\ r.n \in Nets \ spent /\ r.to \in NetRow
        /\ ValidateGateway(r.to.gateway, r.to.net)
    BY <2>1, <2>2 DEF NetworksInv, AddressesHold, NetworksTypeOK, AskedInv, AskedFits
  <2>4. /\ network' \in [Nets -> NetRow \cup {NoNetRow}] /\ network'[r.n] = r.to
        /\ \A m \in Nets \ {r.n} : network'[m] = network[m]
    BY <2>2, <2>3 DEF NetworksInv, AddressesHold, NetworksTypeOK
  <2>5. \A x \in Askers \ {c} : asking[x].op = "create" => asking[x].n # r.n
    BY <2>1, <2>2 DEF NetworksInv, GivenInv
  <2>6. /\ asking' \in [Askers -> NetworkCall] /\ AskedInv'
        /\ \A x, y \in Askers :
             asking'[x].op = "create" /\ asking'[y].op = "create" /\ asking'[x].n = asking'[y].n
             => x = y
        /\ raced \subseteq raced' /\ raced' \subseteq raced \cup {r.n}
    BY <2>2, <2>3, <2>4, <2>5, CommitLeaves
  <2>7. StoredNets' = StoredNets \cup {r.n} /\ r.n \notin StoredNets
    BY <2>3, <2>4, RowsAreRows DEF StoredNets, NetworksInv, GivenInv
  <2>8. \A n \in Nets : Members(n)' = Members(n)
    BY <2>2 DEF Members
  <2>9. Members(r.n) = {}
    BY <2>3, <2>7 DEF NetworksInv, AddressesHold, NetworkKeysHold
  <2>10. NetworksTypeOK'
    BY <2>2, <2>3, <2>4, <2>6 DEF NetworksInv, AddressesHold, NetworksTypeOK
  <2>11. NetworkKeysHold'
    <3>1. \A m \in StoredNets : network[m].name # r.to.name
      BY <2>2, <2>7 DEF UniqueName, GetByName
    <3> QED  BY <2>2, <2>4, <2>7, <2>8, <3>1
             DEF NetworksInv, AddressesHold, NetworkKeysHold, StoredNets
  <2>12. AddressesFit'
    <3>1. r.to.gateway \in Hosts(r.to.net) \cup {Unset}
      BY <2>3 DEF ValidateGateway, ValidateIpInSubnet
    <3>2. ASSUME NEW n \in StoredNets' \ raced'
          PROVE  /\ network'[n].gateway \in Hosts(network'[n].net) \cup {Unset}
                 /\ \A d \in Members(n)' : member'[n][d] \in Hosts(network'[n].net)
      <4>1. CASE n = r.n
        BY <2>3, <2>4, <2>8, <2>9, <3>1, <4>1
      <4>2. CASE n # r.n
        <5>1. n \in StoredNets \ raced /\ n \in Nets
          BY <2>6, <2>7, <3>2, <4>2 DEF StoredNets
        <5> QED  BY <2>2, <2>4, <2>8, <4>2, <5>1 DEF NetworksInv, AddressesHold, AddressesFit
      <4> QED  BY <4>1, <4>2
    <3> QED  BY <3>2 DEF AddressesFit
  <2>13. GivenInv'
    BY <2>2, <2>6, <2>7 DEF NetworksInv, GivenInv
  <2> QED  BY <2>6, <2>10, <2>11, <2>12, <2>13 DEF NetworksInv, AddressesHold
<1> QED  BY <1>1, <1>2

\* A patch starts with a range that the members it has read lie in.
LEMMA UpdateNetworkHolds ==
  ASSUME NetworksInv, NEW c \in Askers, Update(c)
  PROVE  NetworksInv'
<1>1. PICK n \in StoredNets, to \in offered.asks :
        /\ ValidateAddressPatch(to)
        /\ to.net # network[n].net => ValidateMemberships(n, to.net)
        /\ StartAsking(c, [NoNetworkCall EXCEPT !.op = "update", !.n = n,
                                                !.was = network[n], !.to = to])
  BY DEF Update
<1>2. to \in NetRow /\ n \in Nets /\ network[n] \in NetRow
  BY <1>1, NetworksAssumption DEF NetworksInv, AddressesHold, NetworksTypeOK, StoredNets
<1>3. PICK r : r = [NoNetworkCall EXCEPT !.op = "update", !.n = n, !.was = network[n], !.to = to]
  OBVIOUS
<1>4. r \in NetworkCall /\ r.op = "update" /\ r.n = n /\ r.was = network[n] /\ r.to = to
  BY <1>1, <1>2, <1>3, NothingAsked DEF NetworkCall
<1>5. n \notin raced => ValidateMemberships(n, to.net)
  BY <1>1 DEF NetworksInv, AddressesHold, AddressesFit, ValidateMemberships, ValidateIpInSubnet
<1>6. ValidateGateway(r.to.gateway, r.to.net)
  BY <1>1, <1>4 DEF ValidateAddressPatch
<1> QED  BY <1>1, <1>2, <1>3, <1>4, <1>5, <1>6, AskHolds

LEMMA CommitUpdateHolds ==
  ASSUME NetworksInv, NEW c \in Askers, CommitUpdate(c)
  PROVE  NetworksInv'
<1>1. CASE Refuse(c)
  BY <1>1, RefuseHolds
<1>2. CASE ~Refuse(c)
  <2>1. PICK r : r = asking[c]
    OBVIOUS
  <2>2. PICK row : row = Merge(network[r.n], r.was, r.to)
    OBVIOUS
  <2>3. /\ r.op = "update" /\ r.n \in StoredNets /\ UniqueName(r.n, row.name)
        /\ network' = [network EXCEPT ![r.n] = row]
        /\ CommitOn(c, {r.n})
        /\ UNCHANGED <<devices, spent, member, offered>>
    BY <1>2, <2>1, <2>2 DEF CommitUpdate
  <2>4. /\ r \in NetworkCall /\ r.n \in Nets /\ r.was \in NetRow /\ r.to \in NetRow
        /\ network[r.n] \in NetRow
        /\ r.fresh => /\ network[r.n] = r.was /\ ValidateGateway(r.to.gateway, r.to.net)
                      /\ r.n \notin raced => ValidateMemberships(r.n, r.to.net)
    BY <2>1, <2>3 DEF NetworksInv, AddressesHold, NetworksTypeOK, AskedInv, AskedFits, StoredNets
  <2>5. row \in NetRow /\ (network[r.n] = r.was => row = r.to)
    <3>1. PICK s : s = network[r.n]
      OBVIOUS
    <3>2. /\ DOMAIN s = {"name", "net", "gateway"} /\ s \in NetRow
          /\ row = [f \in DOMAIN s |-> IF r.to[f] = r.was[f] THEN s[f] ELSE r.to[f]]
      BY <2>2, <2>4, <3>1 DEF Merge, NetRow
    <3>3. row = [name |-> row.name, net |-> row.net, gateway |-> row.gateway]
      BY <3>2
    <3>4. row.name \in {s.name, r.to.name} /\ row.net \in {s.net, r.to.net}
          /\ row.gateway \in {s.gateway, r.to.gateway}
      BY <3>2
    <3>5. row \in NetRow
      BY <2>4, <3>2, <3>3, <3>4 DEF NetRow
    <3>6. s = r.was => row.name = r.to.name /\ row.net = r.to.net /\ row.gateway = r.to.gateway
      BY <3>2
    <3> QED  BY <2>4, <3>1, <3>5, <3>6 DEF NetRow
  <2>6. /\ network' \in [Nets -> NetRow \cup {NoNetRow}] /\ network'[r.n] = row
        /\ \A m \in Nets \ {r.n} : network'[m] = network[m]
    BY <2>3, <2>4, <2>5 DEF NetworksInv, AddressesHold, NetworksTypeOK
  <2>7. \A x \in Askers \ {c} : asking[x].op = "create" => asking[x].n # r.n
    BY <2>3 DEF NetworksInv, GivenInv, AskedInv, AskedFits
  <2>8. /\ asking' \in [Askers -> NetworkCall] /\ AskedInv'
        /\ \A x, y \in Askers :
             asking'[x].op = "create" /\ asking'[y].op = "create" /\ asking'[x].n = asking'[y].n
             => x = y
        /\ raced \subseteq raced' /\ raced' \subseteq raced \cup {r.n}
        /\ ~r.fresh => r.n \in raced'
    BY <2>1, <2>3, <2>4, <2>6, <2>7, CommitLeaves
  <2>9. StoredNets' = StoredNets
    BY <2>3, <2>5, <2>6, RowsAreRows DEF StoredNets
  <2>10. \A n \in Nets : Members(n)' = Members(n)
    BY <2>3 DEF Members
  <2>11. NetworksTypeOK'
    BY <2>3, <2>6, <2>8 DEF NetworksInv, AddressesHold, NetworksTypeOK
  <2>12. NetworkKeysHold'
    <3>1. \A m \in StoredNets \ {r.n} : network[m].name # row.name
      BY <2>3 DEF UniqueName, GetByName
    <3> QED  BY <2>3, <2>4, <2>6, <2>9, <2>10, <3>1
             DEF NetworksInv, AddressesHold, NetworkKeysHold, StoredNets
  <2>13. AddressesFit'
    <3>1. ASSUME NEW n \in StoredNets' \ raced'
          PROVE  /\ network'[n].gateway \in Hosts(network'[n].net) \cup {Unset}
                 /\ \A d \in Members(n)' : member'[n][d] \in Hosts(network'[n].net)
      <4>1. CASE n = r.n
        <5>1. r.fresh /\ r.n \notin raced
          BY <2>8, <3>1, <4>1 DEF NetworksInv, AddressesHold, NetworksTypeOK
        <5>2. /\ network'[n] = r.to /\ ValidateGateway(r.to.gateway, r.to.net)
              /\ ValidateMemberships(n, r.to.net)
          BY <2>4, <2>5, <2>6, <4>1, <5>1
        <5> QED  BY <2>3, <2>4, <2>10, <4>1, <5>2
                 DEF ValidateGateway, ValidateMemberships, ValidateIpInSubnet
      <4>2. CASE n # r.n
        <5>1. n \in StoredNets \ raced /\ n \in Nets
          BY <2>8, <2>9, <3>1 DEF StoredNets
        <5> QED  BY <2>3, <2>6, <2>10, <4>2, <5>1 DEF NetworksInv, AddressesHold, AddressesFit
      <4> QED  BY <4>1, <4>2
    <3> QED  BY <3>1 DEF AddressesFit
  <2>14. GivenInv'
    BY <2>3, <2>8, <2>9 DEF NetworksInv, GivenInv
  <2> QED  BY <2>8, <2>11, <2>12, <2>13, <2>14 DEF NetworksInv, AddressesHold
<1> QED  BY <1>1, <1>2

\* A delete starts where no device is a member.
LEMMA DeleteNetworkHolds ==
  ASSUME NetworksInv, NEW c \in Askers, DeleteNetwork(c)
  PROVE  NetworksInv'
<1>1. PICK n \in StoredNets :
        ~InUse(n) /\ StartAsking(c, [NoNetworkCall EXCEPT !.op = "delete", !.n = n])
  BY DEF DeleteNetwork
<1>2. n \in Nets \cap spent
  BY <1>1 DEF StoredNets, NetworksInv, GivenInv
<1>3. PICK r : r = [NoNetworkCall EXCEPT !.op = "delete", !.n = n]
  OBVIOUS
<1>4. r \in NetworkCall /\ r.op = "delete" /\ r.n = n
  BY <1>2, <1>3, NothingAsked DEF NetworkCall
<1>5. Members(n) = {}
  <2>1. IsFiniteSet(Members(n))
    BY NetworksAssumption, FS_Subset DEF Members
  <2>2. Cardinality(Members(n)) = 0
    BY <1>1, <2>1, FS_CardinalityType DEF InUse, CountDevices
  <2> QED  BY <2>1, <2>2, FS_EmptySet
<1> QED  BY <1>1, <1>2, <1>3, <1>4, <1>5, AskHolds

LEMMA CommitDeleteHolds ==
  ASSUME NetworksInv, NEW c \in Askers, CommitDeleteNetwork(c)
  PROVE  NetworksInv' /\ (asking[c].fresh => member' = member)
<1>1. PICK n : n = asking[c].n
  OBVIOUS
<1>2. /\ asking[c].op = "delete"
      /\ network' = [network EXCEPT ![n] = NoNetRow]
      /\ member' = [member EXCEPT ![n] = [d \in Devices |-> Unset]]
      /\ CommitOn(c, {n})
      /\ UNCHANGED <<devices, spent, offered>>
  BY <1>1 DEF CommitDeleteNetwork
<1>3. n \in Nets \cap spent /\ (asking[c].fresh => Members(n) = {})
  BY <1>1, <1>2 DEF NetworksInv, AskedInv, AskedFits
<1>4. /\ network' \in [Nets -> NetRow \cup {NoNetRow}] /\ network'[n] = NoNetRow
      /\ \A m \in Nets \ {n} : network'[m] = network[m]
  BY <1>2, <1>3 DEF NetworksInv, AddressesHold, NetworksTypeOK
<1>5. /\ member' \in [Nets -> [Devices -> Addresses \cup {Unset}]]
      /\ member'[n] = [d \in Devices |-> Unset]
      /\ \A m \in Nets \ {n} : member'[m] = member[m]
  BY <1>2, <1>3 DEF NetworksInv, AddressesHold, NetworksTypeOK
<1>6. /\ asking' \in [Askers -> NetworkCall] /\ AskedInv'
      /\ \A x, y \in Askers :
           asking'[x].op = "create" /\ asking'[y].op = "create" /\ asking'[x].n = asking'[y].n
           => x = y
      /\ raced \subseteq raced' /\ raced' \subseteq raced \cup {n}
  <2>1. \A x \in Askers \ {c} : asking[x].op = "create" => asking[x].n # n
    BY <1>3 DEF NetworksInv, AskedInv, AskedFits
  <2> QED  BY <1>2, <1>3, <1>4, <1>5, <2>1, CommitLeaves
<1>7. Members(n)' = {} /\ \A m \in Nets \ {n} : Members(m)' = Members(m)
  BY <1>3, <1>5 DEF Members
<1>8. StoredNets' = StoredNets \ {n}
  BY <1>3, <1>4 DEF StoredNets
<1>9. NetworksTypeOK'
  BY <1>2, <1>4, <1>5, <1>6, <1>3 DEF NetworksInv, AddressesHold, NetworksTypeOK
<1>10. NetworkKeysHold'
  BY <1>2, <1>4, <1>7, <1>8 DEF NetworksInv, AddressesHold, NetworkKeysHold, StoredNets
<1>11. AddressesFit'
  <2>1. ASSUME NEW m \in StoredNets' \ raced'
        PROVE  /\ network'[m].gateway \in Hosts(network'[m].net) \cup {Unset}
               /\ \A d \in Members(m)' : member'[m][d] \in Hosts(network'[m].net)
    <3>1. m \in StoredNets \ raced /\ m \in Nets \ {n}
      BY <1>6, <1>8, <2>1 DEF StoredNets
    <3> QED  BY <1>4, <1>5, <1>7, <3>1 DEF NetworksInv, AddressesHold, AddressesFit
  <2> QED  BY <2>1 DEF AddressesFit
<1>12. GivenInv'
  BY <1>2, <1>6, <1>8 DEF NetworksInv, GivenInv
<1>13. asking[c].fresh => member' = member
  <2> SUFFICES ASSUME asking[c].fresh
               PROVE  member' = member
    OBVIOUS
  <2>1. \A d \in Devices : member[n][d] = Unset
    BY <1>3 DEF Members
  <2>2. member[n] = [d \in Devices |-> Unset]
    BY <1>3, <2>1 DEF NetworksInv, AddressesHold, NetworksTypeOK
  <2> QED  BY <1>3, <1>5, <2>2 DEF NetworksInv, AddressesHold, NetworksTypeOK
<1> QED  BY <1>6, <1>9, <1>10, <1>11, <1>12, <1>13 DEF NetworksInv, AddressesHold

\* An address is asked for in the range that the network has at that moment.
LEMMA AttachHolds ==
  ASSUME NetworksInv, NEW c \in Askers, AttachToDevice(c)
  PROVE  NetworksInv'
<1>1. PICK d \in devices, n \in StoredNets, a \in Addresses :
        /\ ValidateIpInSubnet(a, network[n].net)
        /\ StartAsking(c, [NoNetworkCall EXCEPT !.op = "attach", !.n = n, !.d = d,
                                                !.address = a])
  BY DEF AttachToDevice
<1>2. n \in Nets /\ d \in Devices
  BY <1>1 DEF StoredNets, NetworksInv, AddressesHold, NetworksTypeOK
<1>3. PICK r : r = [NoNetworkCall EXCEPT !.op = "attach", !.n = n, !.d = d, !.address = a]
  OBVIOUS
<1>4. r \in NetworkCall /\ r.op = "attach" /\ r.n = n /\ r.d = d /\ r.address = a
  BY <1>1, <1>2, <1>3, NothingAsked DEF NetworkCall
<1> QED  BY <1>1, <1>2, <1>3, <1>4, AskHolds

LEMMA CommitAttachHolds ==
  ASSUME NetworksInv, NEW c \in Askers, CommitAttach(c)
  PROVE  NetworksInv'
<1>1. CASE Refuse(c)
  BY <1>1, RefuseHolds
<1>2. CASE ~Refuse(c)
  <2>1. PICK r : r = asking[c]
    OBVIOUS
  <2>2. /\ r.op = "attach" /\ r.d \in devices /\ r.n \in StoredNets
        /\ member' = [member EXCEPT ![r.n][r.d] = r.address]
        /\ CommitOn(c, {r.n})
        /\ UNCHANGED <<devices, network, spent, offered>>
    BY <1>2, <2>1 DEF CommitAttach
  <2>3. /\ r \in NetworkCall /\ r.n \in Nets /\ r.d \in Devices
        /\ r.address \in Addresses \cup {Unset}
        /\ r.fresh => ValidateIpInSubnet(r.address, network[r.n].net)
    BY <2>1, <2>2
       DEF NetworksInv, AddressesHold, NetworksTypeOK, AskedInv, AskedFits, NetworkCall
  <2>4. /\ member' \in [Nets -> [Devices -> Addresses \cup {Unset}]]
        /\ member'[r.n][r.d] = r.address
        /\ \A d \in Devices \ {r.d} : member'[r.n][d] = member[r.n][d]
        /\ \A m \in Nets \ {r.n} : member'[m] = member[m]
    BY <2>2, <2>3 DEF NetworksInv, AddressesHold, NetworksTypeOK
  <2>5. \A x \in Askers \ {c} : asking[x].op = "create" => asking[x].n # r.n
    BY <2>2 DEF NetworksInv, GivenInv, AskedInv, AskedFits
  <2>6. /\ asking' \in [Askers -> NetworkCall] /\ AskedInv'
        /\ \A x, y \in Askers :
             asking'[x].op = "create" /\ asking'[y].op = "create" /\ asking'[x].n = asking'[y].n
             => x = y
        /\ raced \subseteq raced' /\ raced' \subseteq raced \cup {r.n}
        /\ ~r.fresh => r.n \in raced'
    BY <2>1, <2>2, <2>3, <2>4, <2>5, CommitLeaves
  <2>7. /\ Members(r.n)' \subseteq Members(r.n) \cup {r.d}
        /\ \A m \in Nets \ {r.n} : Members(m)' = Members(m)
    BY <2>3, <2>4 DEF Members
  <2>8. StoredNets' = StoredNets
    BY <2>2 DEF StoredNets
  <2>9. NetworksTypeOK'
    BY <2>2, <2>4, <2>6, <2>3 DEF NetworksInv, AddressesHold, NetworksTypeOK
  <2>10. NetworkKeysHold'
    BY <2>2, <2>7, <2>8 DEF NetworksInv, AddressesHold, NetworkKeysHold
  <2>11. AddressesFit'
    <3>1. ASSUME NEW n \in StoredNets' \ raced'
          PROVE  /\ network'[n].gateway \in Hosts(network'[n].net) \cup {Unset}
                 /\ \A d \in Members(n)' : member'[n][d] \in Hosts(network'[n].net)
      <4>1. n \in StoredNets \ raced /\ n \in Nets
        BY <2>6, <2>8, <3>1 DEF StoredNets
      <4>2. /\ network[n].gateway \in Hosts(network[n].net) \cup {Unset}
            /\ \A d \in Members(n) : member[n][d] \in Hosts(network[n].net)
        BY <4>1 DEF NetworksInv, AddressesHold, AddressesFit
      <4>3. CASE n = r.n
        <5>1. member'[n][r.d] \in Hosts(network[n].net)
          BY <2>3, <2>4, <2>6, <3>1, <4>3
             DEF ValidateIpInSubnet, NetworksInv, AddressesHold, NetworksTypeOK
        <5>2. Members(n)' \subseteq Devices
          BY DEF Members
        <5> QED  BY <2>2, <2>4, <2>7, <4>2, <4>3, <5>1, <5>2
      <4>4. CASE n # r.n
        BY <2>2, <2>4, <2>7, <4>1, <4>2, <4>4
      <4> QED  BY <4>3, <4>4
    <3> QED  BY <3>1 DEF AddressesFit
  <2>12. GivenInv'
    BY <2>2, <2>6, <2>8 DEF NetworksInv, GivenInv
  <2> QED  BY <2>6, <2>9, <2>10, <2>11, <2>12 DEF NetworksInv, AddressesHold
<1> QED  BY <1>1, <1>2

\* Memberships that go leave the checks of the requests under way true.
LEMMA FewerMembersHold ==
  ASSUME NetworksInv, devices' \subseteq devices,
         member' \in [Nets -> [Devices -> Addresses \cup {Unset}]],
         \A n \in Nets : \A d \in Devices : member'[n][d] \in {member[n][d], Unset},
         \A n \in Nets : \A d \in Devices \ devices' : member'[n][d] = Unset,
         UNCHANGED <<network, spent, asking, raced, offered>>
  PROVE  NetworksInv'
<1>1. /\ StoredNets' = StoredNets
      /\ \A n \in Nets : /\ Members(n)' \subseteq Members(n) \cap devices'
                         /\ \A d \in Members(n)' : d \in Devices /\ member'[n][d] = member[n][d]
  BY DEF StoredNets, Members, NetworksInv, AddressesHold, NetworksTypeOK
<1>2. NetworksTypeOK'
  BY DEF NetworksInv, AddressesHold, NetworksTypeOK
<1>3. NetworkKeysHold'
  BY <1>1 DEF NetworksInv, AddressesHold, NetworkKeysHold
<1>4. AddressesFit'
  BY <1>1 DEF NetworksInv, AddressesHold, AddressesFit, StoredNets
<1>5. AskedInv'
  <2>1. ASSUME NEW c \in Askers
        PROVE  AskedFits(asking[c])'
    <3>1. AskedFits(asking[c])
      BY DEF NetworksInv, AskedInv
    <3> QED  BY <1>1, <3>1 DEF AskedFits, ValidateMemberships
  <2> QED  BY <2>1 DEF AskedInv
<1>6. GivenInv'
  BY <1>1 DEF NetworksInv, GivenInv
<1> QED  BY <1>2, <1>3, <1>4, <1>5, <1>6 DEF NetworksInv, AddressesHold

LEMMA DeviceGoesHolds ==
  ASSUME NetworksInv, NEW d \in Devices, DeleteDevice(d)
  PROVE  NetworksInv'
<1>1. /\ devices' = devices \ {d}
      /\ member' = [n \in Nets |-> [member[n] EXCEPT ![d] = Unset]]
      /\ UNCHANGED <<network, spent, asking, raced, offered>>
  BY DEF DeleteDevice
<1>2. \A n \in Nets : member[n] \in [Devices -> Addresses \cup {Unset}]
  BY DEF NetworksInv, AddressesHold, NetworksTypeOK
<1>3. /\ member' \in [Nets -> [Devices -> Addresses \cup {Unset}]]
      /\ \A n \in Nets : member'[n][d] = Unset
      /\ \A n \in Nets : \A e \in Devices \ {d} : member'[n][e] = member[n][e]
  BY <1>1, <1>2
<1>4. \A n \in Nets : \A e \in Devices \ devices : member[n][e] = Unset
  BY DEF NetworksInv, AddressesHold, NetworkKeysHold, Members
<1>5. \A n \in Nets : \A e \in Devices \ devices' : member'[n][e] = Unset
  BY <1>1, <1>3, <1>4
<1>6. \A n \in Nets : \A e \in Devices : member'[n][e] \in {member[n][e], Unset}
  BY <1>3
<1> QED  BY <1>1, <1>3, <1>5, <1>6, FewerMembersHold

LEMMA DetachFromDeviceHolds ==
  ASSUME NetworksInv, NEW d \in Devices, NEW n \in Nets, DetachFromDevice(d, n)
  PROVE  NetworksInv'
<1>1. /\ member' = [member EXCEPT ![n][d] = Unset]
      /\ UNCHANGED <<devices, network, spent, asking, raced, offered>>
  BY DEF DetachFromDevice
<1>2. member \in [Nets -> [Devices -> Addresses \cup {Unset}]]
  BY DEF NetworksInv, AddressesHold, NetworksTypeOK
<1>3. /\ member' \in [Nets -> [Devices -> Addresses \cup {Unset}]]
      /\ \A m \in Nets : \A e \in Devices : member'[m][e] \in {member[m][e], Unset}
  BY <1>1, <1>2
<1>4. \A m \in Nets : \A e \in Devices \ devices : member[m][e] = Unset
  BY DEF NetworksInv, AddressesHold, NetworkKeysHold, Members
<1>5. \A m \in Nets : \A e \in Devices \ devices' : member'[m][e] = Unset
  BY <1>1, <1>3, <1>4
<1> QED  BY <1>1, <1>3, <1>5, FewerMembersHold

\* A list only reads.
LEMMA ListHolds ==
  ASSUME NetworksInv, NEW c \in Askers, ListNetworks(c)
  PROVE  NetworksInv'
<1>1. PICK r : r = [NoNetworkCall EXCEPT !.op = "list", !.seen = network]
  OBVIOUS
<1>2. r \in NetworkCall /\ r.op = "list"
  BY <1>1, NothingAsked DEF NetworkCall, NetworksInv, AddressesHold, NetworksTypeOK
<1> QED  BY <1>1, <1>2, AskHolds DEF ListNetworks

LEMMA NetworksInitHolds == NetworksInit => NetworksInv
<1> SUFFICES ASSUME NetworksInit
             PROVE  NetworksInv
  OBVIOUS
<1>1. /\ DOMAIN offered.rows \subseteq Nets
      /\ \A n \in DOMAIN offered.rows :
           /\ offered.rows[n] \in NetRow
           /\ offered.rows[n].gateway \in Hosts(offered.rows[n].net) \cup {Unset}
           /\ \A m \in DOMAIN offered.rows :
                offered.rows[m].name = offered.rows[n].name => m = n
  BY NetworksAssumption DEF NetworksInit
<1>2. /\ network \in [Nets -> NetRow \cup {NoNetRow}]
      /\ \A n \in Nets : network[n] = IF n \in DOMAIN offered.rows THEN offered.rows[n]
                                      ELSE NoNetRow
  BY <1>1 DEF NetworksInit
<1>3. StoredNets = DOMAIN offered.rows
  BY <1>1, <1>2, RowsAreRows DEF StoredNets
<1>4. \A n \in Nets : Members(n) = {}
  BY DEF NetworksInit, Members
<1>5. NetworksTypeOK
  BY <1>1, <1>2, NothingAsked DEF NetworksInit, NetworksTypeOK
<1>6. NetworkKeysHold
  BY <1>1, <1>2, <1>3, <1>4 DEF NetworkKeysHold
<1>7. AddressesFit
  BY <1>1, <1>2, <1>3, <1>4 DEF AddressesFit
<1>8. AskedInv /\ GivenInv
  BY <1>3, NothingAsked DEF NetworksInit, AskedInv, GivenInv
<1> QED  BY <1>5, <1>6, <1>7, <1>8 DEF NetworksInv, AddressesHold

LEMMA NetworksStepHolds ==
  ASSUME NetworksInv, [NetworksNext]_networkVars
  PROVE  NetworksInv'
<1>1. CASE UNCHANGED networkVars
  BY <1>1 DEF networkVars, NetworksInv, AddressesHold, NetworksTypeOK, NetworkKeysHold,
              AddressesFit, AskedInv, AskedFits, GivenInv, StoredNets, Members,
              ValidateMemberships
<1>2. ASSUME NEW c \in Askers,
             \/ CreateNetwork(c) \/ CommitCreateNetwork(c) \/ Update(c) \/ CommitUpdate(c)
             \/ DeleteNetwork(c) \/ CommitDeleteNetwork(c) \/ AttachToDevice(c)
             \/ CommitAttach(c) \/ ListNetworks(c) \/ AnswerList(c)
      PROVE  NetworksInv'
  BY <1>2, CreateNetworkHolds, CommitCreateHolds, UpdateNetworkHolds, CommitUpdateHolds,
     DeleteNetworkHolds, CommitDeleteHolds, AttachHolds, CommitAttachHolds, ListHolds,
     RefuseHolds DEF AnswerList
<1>3. ASSUME NEW d \in Devices, DeleteDevice(d) \/ \E n \in Nets : DetachFromDevice(d, n)
      PROVE  NetworksInv'
  BY <1>3, DeviceGoesHolds, DetachFromDeviceHolds
<1> QED  BY <1>1, <1>2, <1>3 DEF NetworksNext

\* For any number of networks, addresses, devices and requests: the invariant, which
\* ties the check of every request to the row it was made on.
THEOREM NetworksInductive == NetworksSpec => []NetworksInv
<1> QED  BY NetworksInitHolds, NetworksStepHolds, PTL DEF NetworksSpec

\* network_service.py: names stay unique, no membership outlives its network or its
\* device, and addresses lie in their networks unless two requests on one network
\* overlapped.
THEOREM AddressesCorrect == NetworksSpec => []AddressesHold
<1>1. NetworksInv => AddressesHold
  BY DEF NetworksInv
<1> QED  BY <1>1, NetworksInductive, PTL

\* Only the commit of a delete ends a delete.
LEMMA DeletesEnd ==
  ASSUME NetworksInv, NetworksNext, NEW c \in Askers,
         asking[c].op = "delete", asking'[c] = NoNetworkCall
  PROVE  CommitDeleteNetwork(c)
<1>1. asking[c] # NoNetworkCall
  BY NothingAsked
<1>2. asking[c] \in NetworkCall
  BY DEF NetworksInv, AddressesHold, NetworksTypeOK
<1>3. asking' # asking
  BY <1>1
<1>4. ASSUME NEW x \in Askers, NEW r, StartAsking(x, r)
      PROVE  FALSE
  BY <1>1, <1>4 DEF StartAsking, NetworksInv, AddressesHold, NetworksTypeOK
<1>5. ASSUME NEW x \in Askers \ {c}, Refuse(x)
      PROVE  FALSE
  BY <1>1, <1>5 DEF Refuse, NetworksInv, AddressesHold, NetworksTypeOK
<1>6. ASSUME NEW x \in Askers \ {c}, NEW ns, CommitOn(x, ns)
      PROVE  FALSE
  <2>1. asking'[c] = [asking[c] EXCEPT !.fresh = asking[c].fresh
                                         /\ asking[c].n \notin ns \cup {Unset}]
    BY <1>1, <1>6 DEF CommitOn
  <2>2. asking'[c].op = "delete"
    BY <1>2, <2>1 DEF NetworkCall
  <2> QED  BY <2>2, NothingAsked
<1>7. PICK x \in Askers :
        \/ CreateNetwork(x) \/ CommitCreateNetwork(x) \/ Update(x) \/ CommitUpdate(x)
        \/ DeleteNetwork(x) \/ CommitDeleteNetwork(x) \/ AttachToDevice(x)
        \/ CommitAttach(x) \/ ListNetworks(x) \/ AnswerList(x)
  BY <1>3 DEF NetworksNext, DeleteDevice, DetachFromDevice
<1>8. ~CreateNetwork(x) /\ ~Update(x) /\ ~DeleteNetwork(x) /\ ~AttachToDevice(x)
      /\ ~ListNetworks(x)
  BY <1>4 DEF CreateNetwork, Update, DeleteNetwork, AttachToDevice, ListNetworks
<1>9. CASE x = c
  BY <1>7, <1>8, <1>9 DEF CommitCreateNetwork, CommitUpdate, CommitAttach, AnswerList
<1>10. CASE x # c
  BY <1>5, <1>6, <1>7, <1>8, <1>10
     DEF CommitCreateNetwork, CommitUpdate, CommitAttach, AnswerList, CommitDeleteNetwork
<1> QED  BY <1>9, <1>10

\* network_service.py: a delete that nothing overlapped on its network takes no address
\* from a device, although the members are counted without a lock.
THEOREM DeleteTakesNothingCorrect == NetworksSpec => DeleteTakesNothing
<1>1. NetworksInv /\ [NetworksNext]_networkVars => [DeleteTakesNothingStep]_networkVars
  <2> SUFFICES ASSUME NetworksInv, NetworksNext
               PROVE  DeleteTakesNothingStep
    OBVIOUS
  <2> QED  BY DeletesEnd, CommitDeleteHolds DEF DeleteTakesNothingStep
<1> QED  BY <1>1, NetworksInductive, PTL DEF NetworksSpec, DeleteTakesNothing

-----------------------------------------------------------------------------
(***************************************************************************)
(* Import and export (Transfer).                                           *)
(*                                                                         *)
(* What an import has read of a table it has cleared may be old when it    *)
(* inserts; what it leaves rests on its having deleted every row but those *)
(* that others commit meanwhile.                                           *)
(***************************************************************************)

\* Maps of ids to rows.
RowMaps(K, R) == UNION {[S -> R] : S \in SUBSET K}

LEMMA RowMapsAre ==
  ASSUME NEW K, NEW R, NEW f
  PROVE  f \in RowMaps(K, R) <=> DOMAIN f \in SUBSET K /\ f \in [DOMAIN f -> R]
BY DEF RowMaps

LEMMA TablesAre ==
  Tables = [device : RowMaps(DeviceKeys, DeviceRow), location : RowMaps(LocationKeys, LocationRow),
            link : SUBSET Pairs]
BY DEF Tables, RowMaps

\* One row more, one row other, some rows fewer, the rows of two maps.
LEMMA RowAdded ==
  ASSUME NEW K, NEW R, NEW f \in RowMaps(K, R), NEW x \in K, NEW v \in R
  PROVE  With(f, x, v) \in RowMaps(K, R)
<1>1. DOMAIN f \in SUBSET K /\ f \in [DOMAIN f -> R]
  BY RowMapsAre
<1>2. With(f, x, v) \in [DOMAIN f \cup {x} -> R]
  BY <1>1 DEF With
<1> QED BY <1>1, <1>2 DEF RowMaps

LEMMA RowChanged ==
  ASSUME NEW K, NEW R, NEW f \in RowMaps(K, R), NEW x \in K, NEW v \in R
  PROVE  [f EXCEPT ![x] = v] \in RowMaps(K, R) /\ DOMAIN [f EXCEPT ![x] = v] = DOMAIN f
<1>1. DOMAIN f \in SUBSET K /\ f \in [DOMAIN f -> R]
  BY RowMapsAre
<1>2. [f EXCEPT ![x] = v] \in [DOMAIN f -> R]
  BY <1>1
<1> QED BY <1>1, <1>2 DEF RowMaps

LEMMA RowsDropped ==
  ASSUME NEW K, NEW R, NEW f \in RowMaps(K, R), NEW X
  PROVE  Without(f, X) \in RowMaps(K, R)
<1>1. DOMAIN f \in SUBSET K /\ f \in [DOMAIN f -> R]
  BY RowMapsAre
<1>2. Without(f, X) \in [DOMAIN f \ X -> R]
  BY <1>1 DEF Without
<1> QED BY <1>1, <1>2 DEF RowMaps

LEMMA RowsMerged ==
  ASSUME NEW K, NEW R, NEW f \in RowMaps(K, R), NEW g \in RowMaps(K, R)
  PROVE  Merged(f, g) \in RowMaps(K, R)
<1>1. DOMAIN f \in SUBSET K /\ f \in [DOMAIN f -> R] /\ DOMAIN g \in SUBSET K /\ g \in [DOMAIN g -> R]
  BY RowMapsAre
<1>2. Merged(f, g) \in [DOMAIN f \cup DOMAIN g -> R]
  BY <1>1 DEF Merged
<1> QED BY <1>1, <1>2 DEF RowMaps

\* What an import has done is what it has deleted and what others have done since.
LEMMA NoImportTyped ==
  /\ NoRows \in Tables /\ NoIds \in Ids
  /\ NoImport \in [pc : {"idle", "connections", "devices", "locations", "insert"},
                   rows : Tables, gone : Ids, since : Ids]
  /\ NoExport \in [pc : {"idle", "connections", "locations"}, rows : Tables, clean : BOOLEAN]
  /\ NoFile \in [rows : Tables, clean : BOOLEAN]
<1>1. DOMAIN NoRow = {} /\ NoRow \in [{} -> DeviceRow] /\ NoRow \in [{} -> LocationRow]
  BY DEF NoRow
<1>2. NoRow \in RowMaps(DeviceKeys, DeviceRow) /\ NoRow \in RowMaps(LocationKeys, LocationRow)
  BY <1>1, RowMapsAre
<1>3. NoRows \in Tables /\ NoIds \in Ids
  BY <1>2, TablesAre DEF NoRows, NoIds, Ids
<1> QED BY <1>3 DEF NoImport, NoExport, NoFile

\* The fields of the state.
LEMMA TransferTypes ==
  ASSUME TransferTypeOK
  PROVE  /\ db \in [device : RowMaps(DeviceKeys, DeviceRow),
                    location : RowMaps(LocationKeys, LocationRow), link : SUBSET Pairs]
         /\ import.rows \in Tables /\ import.gone \in Ids /\ import.since \in Ids
         /\ file.rows \in Tables /\ export.rows \in Tables
         /\ DOMAIN db.device \subseteq DeviceKeys /\ DOMAIN db.location \subseteq LocationKeys
         /\ writes \in Nat
BY TablesAre, RowMapsAre, TransferAssumption DEF TransferTypeOK

\* A step of another request: one kind of row is written, at ids that the import
\* hears of, and no connection is left of a device that it has deleted.
LEMMA WriteKeeps ==
  ASSUME TransferInv, NEW rows \in Tables, NEW kind \in {"device", "location", "link"}, NEW x,
         x \in (CASE kind = "device" -> DeviceKeys [] kind = "location" -> LocationKeys
                  [] OTHER -> Pairs),
         Write(rows, kind, x), LinksKept(rows),
         usedKeys' \subseteq DeviceKeys \cup LocationKeys, moves' \subseteq Move,
         DOMAIN rows.device \subseteq DOMAIN db.device \cup (IF kind = "device" THEN {x} ELSE {}),
         DOMAIN rows.location \subseteq DOMAIN db.location \cup (IF kind = "location" THEN {x} ELSE {}),
         rows.link \subseteq db.link \cup (IF kind = "link" THEN {x} ELSE {}),
         kind = "link" /\ x \in rows.link => x \cap import.gone.device = {}
  PROVE  TransferInv'
<1>0. TransferTypeOK /\ LinksKept(db) /\ ClearedInv
  BY DEF TransferInv
<1>1. db' = rows /\ file' = file /\ writes' \in 0..MaxWrites
  BY <1>0, TransferAssumption DEF Write, TransferTypeOK
<1>2. export' \in [pc : {"idle", "connections", "locations"}, rows : Tables, clean : BOOLEAN]
  BY <1>0 DEF Write, TransferTypeOK
<1>3. CASE import.pc = "idle"
  <2>1. import' = import
    BY <1>3 DEF Write
  <2>2. TransferTypeOK'
    BY <1>0, <1>1, <1>2, <2>1 DEF TransferTypeOK
  <2>3. ClearedInv'
    BY <1>3, <2>1 DEF ClearedInv
  <2> QED BY <1>1, <2>2, <2>3 DEF TransferInv, LinksKept
<1>4. CASE import.pc # "idle"
  <2>1. import' = [import EXCEPT !.since[kind] = @ \cup {x}]
    BY <1>4 DEF Write
  <2>2. /\ import'.pc = import.pc /\ import'.rows = import.rows /\ import'.gone = import.gone
        /\ import'.since = [import.since EXCEPT ![kind] = @ \cup {x}]
    BY <1>0, <2>1 DEF TransferTypeOK
  <2>3. /\ import'.since \in Ids
        /\ import'.since.device = import.since.device \cup (IF kind = "device" THEN {x} ELSE {})
        /\ import'.since.location = import.since.location \cup (IF kind = "location" THEN {x} ELSE {})
        /\ import'.since.link = import.since.link \cup (IF kind = "link" THEN {x} ELSE {})
    <3>1. import.since \in [device : SUBSET DeviceKeys, location : SUBSET LocationKeys,
                            link : SUBSET Pairs]
      BY <1>0, TransferTypes DEF Ids
    <3>2. CASE kind = "device"
      BY <2>2, <3>1, <3>2 DEF Ids
    <3>3. CASE kind = "location"
      BY <2>2, <3>1, <3>3 DEF Ids
    <3>4. CASE kind = "link"
      BY <2>2, <3>1, <3>4 DEF Ids
    <3> QED BY <3>2, <3>3, <3>4
  <2>4. import' \in [pc : {"idle", "connections", "devices", "locations", "insert"},
                     rows : Tables, gone : Ids, since : Ids]
    BY <1>0, <2>1, <2>2, <2>3 DEF TransferTypeOK
  <2>5. TransferTypeOK'
    BY <1>0, <1>1, <1>2, <2>4 DEF TransferTypeOK
  <2>6. ClearedInv'
    BY <1>0, <1>1, <2>2, <2>3 DEF ClearedInv
  <2> QED BY <1>1, <2>5, <2>6 DEF TransferInv, LinksKept
<1> QED BY <1>3, <1>4


\* What each other request writes (the handlers of devices, locations and connections).
LEMMA OthersKeep ==
  ASSUME TransferInv,
         CreateDevice \/ MoveDevice \/ DropDevice \/ CreateLocation \/ DeleteLocation
           \/ CheckLocationMove \/ MoveLocation \/ Connect \/ Disconnect
  PROVE  TransferInv'
<1>0. TransferTypeOK /\ LinksKept(db)
  BY DEF TransferInv
<1>a. /\ db \in [device : RowMaps(DeviceKeys, DeviceRow),
                 location : RowMaps(LocationKeys, LocationRow), link : SUBSET Pairs]
      /\ DOMAIN db.device \subseteq DeviceKeys /\ DOMAIN db.location \subseteq LocationKeys
      /\ usedKeys \subseteq DeviceKeys \cup LocationKeys
      /\ db.device \in RowMaps(DeviceKeys, DeviceRow) /\ db.location \in RowMaps(LocationKeys, LocationRow)
  BY <1>0, TransferTypes DEF TransferTypeOK
<1>b. \A rows : rows \in Tables <=>
        rows \in [device : RowMaps(DeviceKeys, DeviceRow),
                  location : RowMaps(LocationKeys, LocationRow), link : SUBSET Pairs]
  BY TablesAre
<1>m. moves' \subseteq Move
  <2>1. moves \subseteq Move
    BY <1>0 DEF TransferTypeOK
  <2>2. CASE CheckLocationMove
    <3>1. PICK l \in DOMAIN db.location, p \in DOMAIN db.location \cup {NoKey} :
            moves' = moves \cup {[of |-> l, to |-> p]}
      BY <2>2 DEF CheckLocationMove
    <3> QED BY <1>a, <2>1, <3>1 DEF Move
  <2>3. CASE ~CheckLocationMove
    BY <2>1, <2>3 DEF CreateDevice, MoveDevice, DropDevice, CreateLocation, DeleteLocation,
                      MoveLocation, Connect, Disconnect
  <2> QED BY <2>2, <2>3
<1>1. CASE CreateDevice
  <2>1. PICK d \in DeviceKeys \ usedKeys, row \in DeviceRow :
          /\ Write([db EXCEPT !.device = With(@, d, row)], "device", d)
          /\ usedKeys' = usedKeys \cup {d}
    BY <1>1 DEF CreateDevice
  <2> DEFINE f == With(db.device, d, row)
             rows == [db EXCEPT !.device = f]
  <2>2. f \in RowMaps(DeviceKeys, DeviceRow) /\ DOMAIN f = DOMAIN db.device \cup {d}
    <3>1. f \in RowMaps(DeviceKeys, DeviceRow)
      BY <1>a, RowAdded
    <3>2. DOMAIN f = DOMAIN db.device \cup {d}
      BY DEF With
    <3> QED BY <3>1, <3>2
  <2>3. Write(rows, "device", d)
    BY <2>1
  <2> HIDE DEF f
  <2>4. rows \in Tables /\ rows.device = f /\ rows.location = db.location /\ rows.link = db.link
    BY <1>a, <1>b, <2>2
  <2> HIDE DEF rows
  <2>5. LinksKept(rows)
    BY <1>0, <2>2, <2>4 DEF LinksKept
  <2>6. usedKeys' \subseteq DeviceKeys \cup LocationKeys
    BY <1>a, <2>1
  <2> QED BY <2>2, <2>3, <2>4, <2>5, <2>6, <1>m, WriteKeeps
<1>2. CASE MoveDevice
  <2>0. PICK d \in DOMAIN db.device, l \in LocationKeys \cup {NoKey} :
          \E p \in {NoKey, db.device[d].parent} :
            /\ Write([db EXCEPT !.device[d] = [place |-> l, parent |-> p]], "device", d)
            /\ usedKeys' = usedKeys
    BY <1>2 DEF MoveDevice
  <2>1. PICK p \in {NoKey, db.device[d].parent} :
            /\ Write([db EXCEPT !.device[d] = [place |-> l, parent |-> p]], "device", d)
            /\ usedKeys' = usedKeys
    BY <2>0
  <2>2. PICK v \in DeviceRow : v = [place |-> l, parent |-> p]
    <3>1. db.device \in [DOMAIN db.device -> DeviceRow]
      BY <1>a, RowMapsAre
    <3>2. p \in DeviceKeys \cup {NoKey}
      BY <2>1, <3>1 DEF DeviceRow
    <3> QED BY <3>2 DEF DeviceRow
  <2> DEFINE f == [db.device EXCEPT ![d] = v]
             rows == [db EXCEPT !.device = f]
  <2>3. f \in RowMaps(DeviceKeys, DeviceRow) /\ DOMAIN f = DOMAIN db.device
    BY <1>a, RowChanged
  <2>4. Write(rows, "device", d)
    BY <2>1, <2>2
  <2> HIDE DEF f
  <2>5. rows \in Tables /\ rows.device = f /\ rows.location = db.location /\ rows.link = db.link
    BY <1>a, <1>b, <2>3
  <2> HIDE DEF rows
  <2>6. LinksKept(rows)
    BY <1>0, <2>3, <2>5 DEF LinksKept
  <2>7. usedKeys' \subseteq DeviceKeys \cup LocationKeys /\ d \in DeviceKeys
    BY <1>a, <2>1
  <2> QED BY <2>3, <2>4, <2>5, <2>6, <2>7, <1>m, WriteKeeps
<1>3. CASE DropDevice
  <2>1. PICK d \in DOMAIN db.device :
          /\ Write([db EXCEPT !.device = Without(@, {d}), !.link = @ \ LinksOf({d})], "device", d)
          /\ usedKeys' = usedKeys
    BY <1>3 DEF DropDevice
  <2> DEFINE f == Without(db.device, {d})
             k == db.link \ LinksOf({d})
             rows == [db EXCEPT !.device = f, !.link = k]
  <2>2. f \in RowMaps(DeviceKeys, DeviceRow) /\ DOMAIN f = DOMAIN db.device \ {d}
    <3>1. f \in RowMaps(DeviceKeys, DeviceRow)
      BY <1>a, RowsDropped
    <3>2. DOMAIN f = DOMAIN db.device \ {d}
      BY DEF Without
    <3> QED BY <3>1, <3>2
  <2>3. k \subseteq db.link /\ k \in SUBSET Pairs /\ \A e \in k : d \notin e
    BY <1>a DEF LinksOf
  <2>4. Write(rows, "device", d)
    BY <2>1
  <2> HIDE DEF f, k
  <2>5. rows \in Tables /\ rows.device = f /\ rows.location = db.location /\ rows.link = k
    BY <1>a, <1>b, <2>2, <2>3
  <2> HIDE DEF rows
  <2>6. LinksKept(rows)
    BY <1>0, <2>2, <2>3, <2>5 DEF LinksKept
  <2>7. usedKeys' \subseteq DeviceKeys \cup LocationKeys /\ d \in DeviceKeys
    BY <1>a, <2>1
  <2>8. DOMAIN rows.device \subseteq DOMAIN db.device /\ DOMAIN rows.location \subseteq DOMAIN db.location
        /\ rows.link \subseteq db.link
    BY <2>2, <2>3, <2>5
  <2> QED BY <2>4, <2>5, <2>6, <2>7, <2>8, <1>m, WriteKeeps
<1>4. CASE CreateLocation
  <2>1. PICK l \in LocationKeys \ usedKeys, p \in LocationKeys \cup {NoKey} :
          /\ Write([db EXCEPT !.location = With(@, l, [parent |-> p])], "location", l)
          /\ usedKeys' = usedKeys \cup {l}
    BY <1>4 DEF CreateLocation
  <2>2. PICK v \in LocationRow : v = [parent |-> p]
    BY DEF LocationRow
  <2> DEFINE f == With(db.location, l, v)
             rows == [db EXCEPT !.location = f]
  <2>3. f \in RowMaps(LocationKeys, LocationRow) /\ DOMAIN f = DOMAIN db.location \cup {l}
    <3>1. f \in RowMaps(LocationKeys, LocationRow)
      BY <1>a, RowAdded
    <3>2. DOMAIN f = DOMAIN db.location \cup {l}
      BY DEF With
    <3> QED BY <3>1, <3>2
  <2>4. Write(rows, "location", l)
    BY <2>1, <2>2
  <2> HIDE DEF f
  <2>5. rows \in Tables /\ rows.device = db.device /\ rows.location = f /\ rows.link = db.link
    BY <1>a, <1>b, <2>3
  <2> HIDE DEF rows
  <2>6. LinksKept(rows)
    BY <1>0, <2>5 DEF LinksKept
  <2>7. usedKeys' \subseteq DeviceKeys \cup LocationKeys
    BY <1>a, <2>1
  <2> QED BY <2>3, <2>4, <2>5, <2>6, <2>7, <1>m, WriteKeeps
<1>5. CASE DeleteLocation
  <2>1. PICK l \in DOMAIN db.location :
          /\ Write([db EXCEPT !.location = Without(@, {l})], "location", l)
          /\ usedKeys' = usedKeys
    BY <1>5 DEF DeleteLocation
  <2> DEFINE f == Without(db.location, {l})
             rows == [db EXCEPT !.location = f]
  <2>2. f \in RowMaps(LocationKeys, LocationRow) /\ DOMAIN f = DOMAIN db.location \ {l}
    <3>1. f \in RowMaps(LocationKeys, LocationRow)
      BY <1>a, RowsDropped
    <3>2. DOMAIN f = DOMAIN db.location \ {l}
      BY DEF Without
    <3> QED BY <3>1, <3>2
  <2>3. Write(rows, "location", l)
    BY <2>1
  <2> HIDE DEF f
  <2>4. rows \in Tables /\ rows.device = db.device /\ rows.location = f /\ rows.link = db.link
    BY <1>a, <1>b, <2>2
  <2> HIDE DEF rows
  <2>5. LinksKept(rows)
    BY <1>0, <2>4 DEF LinksKept
  <2>6. usedKeys' \subseteq DeviceKeys \cup LocationKeys /\ l \in LocationKeys
    BY <1>a, <2>1
  <2> QED BY <2>2, <2>3, <2>4, <2>5, <2>6, <1>m, WriteKeeps
<1>6. CASE Connect
  <2>1. PICK e \in Pairs :
          /\ \A d \in e : d \in DOMAIN db.device /\ Free("device", d)
          /\ Write([db EXCEPT !.link = @ \cup {e}], "link", e)
          /\ usedKeys' = usedKeys
    BY <1>6 DEF Connect
  <2> DEFINE k == db.link \cup {e}
             rows == [db EXCEPT !.link = k]
  <2>2. k \in SUBSET Pairs
    BY <1>a
  <2>3. Write(rows, "link", e)
    BY <2>1
  <2>4. rows \in Tables /\ rows.device = db.device /\ rows.location = db.location
        /\ rows.link = db.link \cup {e}
    BY <1>a, <1>b, <2>2
  <2> HIDE DEF rows
  <2>5. LinksKept(rows)
    BY <1>0, <2>1, <2>4 DEF LinksKept
  <2>6. e \cap import.gone.device = {}
    <3>1. ASSUME NEW d \in e PROVE d \notin import.gone.device
      <4>1. d = NoKey \/ d \notin import.gone["device"]
        BY <2>1 DEF Free
      <4>2. \A x \in DeviceKeys : x # NoKey
        BY TransferAssumption
      <4>3. d \in DeviceKeys
        BY <1>a, <2>1
      <4> QED BY <4>1, <4>2, <4>3
    <3> QED BY <3>1
  <2>7. usedKeys' \subseteq DeviceKeys \cup LocationKeys
    BY <1>a, <2>1
  <2> QED BY <2>3, <2>4, <2>5, <2>6, <2>7, <1>m, WriteKeeps
<1>7. CASE Disconnect
  <2>1. PICK e \in db.link \ import.gone.link :
          /\ Write([db EXCEPT !.link = @ \ {e}], "link", e)
          /\ usedKeys' = usedKeys
    BY <1>7 DEF Disconnect
  <2> DEFINE rows == [db EXCEPT !.link = db.link \ {e}]
  <2>2. Write(rows, "link", e)
    BY <2>1
  <2>3. rows \in Tables /\ rows.device = db.device /\ rows.location = db.location
        /\ rows.link = db.link \ {e}
    BY <1>a, <1>b
  <2> HIDE DEF rows
  <2>4. LinksKept(rows)
    BY <1>0, <2>3 DEF LinksKept
  <2>5. usedKeys' \subseteq DeviceKeys \cup LocationKeys /\ e \in Pairs /\ e \notin rows.link
    BY <1>a, <2>1, <2>3
  <2> QED BY <2>2, <2>3, <2>4, <2>5, <1>m, WriteKeeps
<1>8. CASE CheckLocationMove
  <2>1. UNCHANGED <<db, usedKeys, export, file, import, writes>>
    BY <1>8 DEF CheckLocationMove
  <2> QED BY <1>m, <2>1 DEF TransferInv, TransferTypeOK, LinksKept, ClearedInv
<1>9. CASE MoveLocation
  <2>1. PICK m \in moves :
          /\ usedKeys' = usedKeys
          /\ \/ /\ {m.of, m.to} \subseteq DOMAIN db.location \cup {NoKey}
                /\ Write([db EXCEPT !.location[m.of] = [parent |-> m.to]], "location", m.of)
             \/ UNCHANGED <<db, export, file, import, writes>>
    BY <1>9 DEF MoveLocation
  <2>2. CASE UNCHANGED <<db, export, file, import, writes>>
    BY <1>m, <2>1, <2>2 DEF TransferInv, TransferTypeOK, LinksKept, ClearedInv
  <2>3. CASE /\ {m.of, m.to} \subseteq DOMAIN db.location \cup {NoKey}
             /\ Write([db EXCEPT !.location[m.of] = [parent |-> m.to]], "location", m.of)
    <3>1. m.of \in LocationKeys /\ m.to \in LocationKeys \cup {NoKey}
      BY <1>0 DEF TransferTypeOK, Move
    <3>2. PICK l : l = m.of
      OBVIOUS
    <3>3. PICK v \in LocationRow : v = [parent |-> m.to]
      BY <3>1 DEF LocationRow
    <3> DEFINE f == [db.location EXCEPT ![l] = v]
               rows == [db EXCEPT !.location = f]
    <3>4. f \in RowMaps(LocationKeys, LocationRow) /\ DOMAIN f = DOMAIN db.location
      BY <1>a, <3>1, <3>2, RowChanged
    <3>5. Write(rows, "location", l)
      BY <2>3, <3>2, <3>3
    <3> HIDE DEF f
    <3>6. rows \in Tables /\ rows.device = db.device /\ rows.location = f /\ rows.link = db.link
      BY <1>a, <1>b, <3>4
    <3> HIDE DEF rows
    <3>7. LinksKept(rows)
      BY <1>0, <3>6 DEF LinksKept
    <3>8. usedKeys' \subseteq DeviceKeys \cup LocationKeys /\ l \in LocationKeys
      BY <1>a, <2>1, <3>1, <3>2
    <3> QED BY <3>4, <3>5, <3>6, <3>7, <3>8, <1>m, WriteKeeps
  <2> QED BY <2>1, <2>2, <2>3
<1> QED BY <1>1, <1>2, <1>3, <1>4, <1>5, <1>6, <1>7, <1>8, <1>9

\* The rows of the file replace what is left when everything is deleted
\* (insert_snapshot_rows).
LEMMA InsertKeeps ==
  ASSUME TransferInv, InsertSnapshotRows, db' # db
  PROVE  LET new == import.rows
         IN  /\ db' \in Tables /\ import' = NoImport
             /\ DOMAIN db'.device = (DOMAIN db.device \ import.gone.device) \cup DOMAIN new.device
             /\ DOMAIN db'.location = (DOMAIN db.location \ import.gone.location) \cup DOMAIN new.location
             /\ \A x \in DOMAIN new.device : db'.device[x] = new.device[x]
             /\ \A x \in DOMAIN new.location : db'.location[x] = new.location[x]
             /\ db'.link = (db.link \ import.gone.link) \cup new.link
             /\ LinksKept(db')
<1> DEFINE new == import.rows
           dev == Without(db.device, import.gone.device)
           loc == Without(db.location, import.gone.location)
           f == Merged(dev, new.device)
           g == Merged(loc, new.location)
           k == (db.link \ import.gone.link) \cup new.link
<1>0. TransferTypeOK /\ LinksKept(db) /\ ClearedInv
  BY DEF TransferInv
<1>a. /\ db \in [device : RowMaps(DeviceKeys, DeviceRow),
                 location : RowMaps(LocationKeys, LocationRow), link : SUBSET Pairs]
      /\ new \in [device : RowMaps(DeviceKeys, DeviceRow),
                  location : RowMaps(LocationKeys, LocationRow), link : SUBSET Pairs]
  BY <1>0, TransferTypes, TablesAre
<1>1. /\ import.pc = "insert" /\ import' = NoImport
      /\ db' = [device |-> Merged(Survivors.device, new.device),
                location |-> Merged(Survivors.location, new.location),
                link |-> Survivors.link \cup new.link]
      /\ ~\E e \in new.link : ~(e \subseteq DOMAIN new.device \cup DOMAIN Survivors.device)
  BY DEF InsertSnapshotRows, Rollback
<1>2. Survivors.device = dev /\ Survivors.location = loc /\ Survivors.link = db.link \ import.gone.link
  BY DEF Survivors, Kept
<1>3. dev \in RowMaps(DeviceKeys, DeviceRow) /\ loc \in RowMaps(LocationKeys, LocationRow)
  BY <1>a, RowsDropped
<1>3a. /\ DOMAIN dev = DOMAIN db.device \ import.gone.device
       /\ DOMAIN loc = DOMAIN db.location \ import.gone.location
  BY DEF Without
<1>4. /\ f \in RowMaps(DeviceKeys, DeviceRow) /\ DOMAIN f = DOMAIN dev \cup DOMAIN new.device
      /\ \A x \in DOMAIN new.device : f[x] = new.device[x]
  <2> HIDE DEF dev, loc
  <2>1. new.device \in RowMaps(DeviceKeys, DeviceRow)
    BY <1>a
  <2> HIDE DEF new
  <2>2. f \in RowMaps(DeviceKeys, DeviceRow)
    BY <2>1, <1>3, RowsMerged
  <2>3. DOMAIN f = DOMAIN dev \cup DOMAIN new.device /\ \A x \in DOMAIN new.device : f[x] = new.device[x]
    BY DEF Merged
  <2> QED BY <2>2, <2>3
<1>5. /\ g \in RowMaps(LocationKeys, LocationRow) /\ DOMAIN g = DOMAIN loc \cup DOMAIN new.location
      /\ \A x \in DOMAIN new.location : g[x] = new.location[x]
  <2> HIDE DEF dev, loc
  <2>1. new.location \in RowMaps(LocationKeys, LocationRow)
    BY <1>a
  <2> HIDE DEF new
  <2>2. g \in RowMaps(LocationKeys, LocationRow)
    BY <2>1, <1>3, RowsMerged
  <2>3. DOMAIN g = DOMAIN loc \cup DOMAIN new.location
        /\ \A x \in DOMAIN new.location : g[x] = new.location[x]
    BY DEF Merged
  <2> QED BY <2>2, <2>3
<1>6. k \in SUBSET Pairs
  BY <1>a
<1>7. db' = [device |-> f, location |-> g, link |-> k]
  BY <1>1, <1>2
<1>8. \A e \in new.link : e \subseteq DOMAIN new.device \cup DOMAIN dev
  BY <1>1, <1>2
<1> HIDE DEF f, g, k, dev, loc
<1>9. db'.device = f /\ db'.location = g /\ db'.link = k /\ db' \in Tables
  BY <1>4, <1>5, <1>6, <1>7, TablesAre
<1>10. LinksKept(db')
  <2>1. \A e \in db.link \ import.gone.link : e \subseteq DOMAIN dev
    BY <1>0, <1>1, <1>3a DEF ClearedInv, LinksKept
  <2>2. \A e \in k : e \subseteq DOMAIN dev \cup DOMAIN new.device
    BY <1>8, <2>1 DEF k
  <2> QED BY <1>4, <1>9, <2>2 DEF LinksKept
<1> QED BY <1>1, <1>3a, <1>4, <1>5, <1>9, <1>10 DEF k

\* Each statement of an export or an import (export_service.py, import_service.py).
LEMMA StatementsKeep ==
  ASSUME TransferInv,
         BuildFullExport \/ ExportConnections \/ ExportLocations \/ ImportFullSnapshot
           \/ ClearConnections \/ ClearDevices \/ ClearLocations \/ InsertSnapshotRows
           \/ TransferCrash
  PROVE  TransferInv'
<1>0. TransferTypeOK /\ LinksKept(db) /\ ClearedInv
  BY DEF TransferInv
<1>a. /\ db \in [device : RowMaps(DeviceKeys, DeviceRow),
                 location : RowMaps(LocationKeys, LocationRow), link : SUBSET Pairs]
      /\ import.rows \in Tables /\ import.gone \in Ids /\ import.since \in Ids
      /\ DOMAIN db.device \subseteq DeviceKeys /\ DOMAIN db.location \subseteq LocationKeys
      /\ \A rows : rows \in Tables <=>
           rows \in [device : RowMaps(DeviceKeys, DeviceRow),
                     location : RowMaps(LocationKeys, LocationRow), link : SUBSET Pairs]
  BY <1>0, TransferTypes, TablesAre
<1>m. moves' \subseteq Move
  BY <1>0 DEF TransferTypeOK, BuildFullExport, ExportConnections, ExportLocations,
     ImportFullSnapshot, ClearConnections, ClearDevices, ClearLocations, InsertSnapshotRows,
     Rollback, TransferCrash
<1>1. CASE BuildFullExport \/ ExportConnections \/ ExportLocations
  <2>1. db' = db /\ import' = import /\ usedKeys' = usedKeys /\ writes' = writes
    BY <1>1 DEF BuildFullExport, ExportConnections, ExportLocations
  <2>2. /\ export' \in [pc : {"idle", "connections", "locations"}, rows : Tables, clean : BOOLEAN]
        /\ file' \in [rows : Tables, clean : BOOLEAN]
    <3>1. /\ export.rows \in [device : RowMaps(DeviceKeys, DeviceRow),
                             location : RowMaps(LocationKeys, LocationRow), link : SUBSET Pairs]
          /\ NoRows \in [device : RowMaps(DeviceKeys, DeviceRow),
                        location : RowMaps(LocationKeys, LocationRow), link : SUBSET Pairs]
      BY <1>0, <1>a, TransferTypes, NoImportTyped
    <3>2. /\ [NoRows EXCEPT !.device = db.device] \in Tables
          /\ [export.rows EXCEPT !.link = db.link] \in Tables
          /\ [export.rows EXCEPT !.location = db.location] \in Tables
      BY <1>a, <3>1
    <3>3. CASE BuildFullExport
      BY <1>0, <3>2, <3>3 DEF BuildFullExport, TransferTypeOK
    <3>4. CASE ExportConnections
      BY <1>0, <3>2, <3>4 DEF ExportConnections, TransferTypeOK
    <3>5. CASE ExportLocations
      BY <1>0, <3>2, <3>5, NoImportTyped DEF ExportLocations, TransferTypeOK
    <3> QED BY <1>1, <3>3, <3>4, <3>5
  <2> QED BY <1>0, <1>m, <2>1, <2>2 DEF TransferInv, TransferTypeOK, LinksKept, ClearedInv
<1>b. ASSUME db' = db, import' = NoImport, usedKeys' = usedKeys, writes' = writes,
             export' \in {export, NoExport}, file' = file
      PROVE  TransferInv'
  <2>1. TransferTypeOK'
    BY <1>0, <1>b, <1>m, NoImportTyped DEF TransferTypeOK
  <2>2. ClearedInv'
    BY <1>b DEF ClearedInv, NoImport
  <2> QED BY <1>0, <1>b, <2>1, <2>2 DEF TransferInv, LinksKept
<1>2. CASE ImportFullSnapshot
  <2>1. import' = [NoImport EXCEPT !.pc = "connections", !.rows = file.rows]
        /\ UNCHANGED <<db, usedKeys, export, file, writes>>
    BY <1>2 DEF ImportFullSnapshot
  <2>2. file.rows \in Tables
    BY <1>0, TransferTypes
  <2>3. import' \in [pc : {"idle", "connections", "devices", "locations", "insert"},
                     rows : Tables, gone : Ids, since : Ids] /\ import'.pc = "connections"
    BY <2>1, <2>2, NoImportTyped
  <2> QED BY <1>0, <1>m, <2>1, <2>3 DEF TransferInv, TransferTypeOK, LinksKept, ClearedInv
<1>c. ASSUME NEW pc \in {"devices", "locations", "insert"}, NEW gone \in Ids,
             import' = [import EXCEPT !.pc = pc, !.gone = gone],
             UNCHANGED <<db, usedKeys, export, file, writes>>
      PROVE  /\ TransferTypeOK' /\ LinksKept(db)'
             /\ import'.pc = pc /\ import'.gone = gone /\ import'.since = import.since
  <2>1. /\ import' \in [pc : {"idle", "connections", "devices", "locations", "insert"},
                        rows : Tables, gone : Ids, since : Ids]
        /\ import'.pc = pc /\ import'.gone = gone /\ import'.since = import.since
    BY <1>0, <1>c DEF TransferTypeOK
  <2> QED BY <1>0, <1>c, <1>m, <2>1 DEF TransferTypeOK, LinksKept
<1>3. CASE ClearConnections
  <2> DEFINE gone == [import.gone EXCEPT !.link = db.link]
  <2>1. gone \in Ids /\ gone.link = db.link
    BY <1>a DEF Ids
  <2>2. import' = [import EXCEPT !.pc = "devices", !.gone = gone]
        /\ UNCHANGED <<db, usedKeys, export, file, writes>>
    BY <1>0, <1>3 DEF ClearConnections, TransferTypeOK
  <2> HIDE DEF gone
  <2>3. TransferTypeOK' /\ LinksKept(db)' /\ import'.pc = "devices" /\ import'.gone = gone
    BY <1>c, <2>1, <2>2
  <2>4. ClearedInv'
    BY <2>1, <2>2, <2>3 DEF ClearedInv
  <2> QED BY <2>3, <2>4 DEF TransferInv
<1>4. CASE ClearDevices
  <2> DEFINE gone == [import.gone EXCEPT !.device = DOMAIN db.device,
                                         !.link = import.gone.link \cup LinksOf(DOMAIN db.device)]
  <2>1. gone \in Ids /\ gone.link = import.gone.link \cup LinksOf(DOMAIN db.device)
        /\ gone.device = DOMAIN db.device
    BY <1>a DEF Ids, LinksOf
  <2>2. import' = [import EXCEPT !.pc = "locations", !.gone = gone]
        /\ UNCHANGED <<db, usedKeys, export, file, writes>> /\ import.pc = "devices"
    BY <1>0, <1>4 DEF ClearDevices, TransferTypeOK
  <2> HIDE DEF gone
  <2>3. TransferTypeOK' /\ LinksKept(db)' /\ import'.pc = "locations" /\ import'.gone = gone
        /\ import'.since = import.since
    BY <1>c, <2>1, <2>2
  <2>4. \A e \in db.link \ gone.link : e \cap gone.device = {}
    BY <2>1 DEF LinksOf
  <2>5. ClearedInv'
    BY <1>0, <2>1, <2>2, <2>3, <2>4 DEF ClearedInv
  <2> QED BY <2>3, <2>5 DEF TransferInv
<1>5. CASE ClearLocations
  <2>1. CASE \E d \in DOMAIN db.device \ import.gone.device : db.device[d].place # NoKey
    BY <1>5, <1>b, <2>1 DEF ClearLocations, Rollback
  <2>2. CASE ~\E d \in DOMAIN db.device \ import.gone.device : db.device[d].place # NoKey
    <3> DEFINE gone == [import.gone EXCEPT !.location = DOMAIN db.location]
    <3>1. gone \in Ids /\ gone.link = import.gone.link /\ gone.device = import.gone.device
          /\ gone.location = DOMAIN db.location
      BY <1>a DEF Ids
    <3>2. import' = [import EXCEPT !.pc = "insert", !.gone = gone]
          /\ UNCHANGED <<db, usedKeys, export, file, writes>> /\ import.pc = "locations"
      BY <1>0, <1>5, <2>2 DEF ClearLocations, TransferTypeOK
    <3> HIDE DEF gone
    <3>3. TransferTypeOK' /\ LinksKept(db)' /\ import'.pc = "insert" /\ import'.gone = gone
          /\ import'.since = import.since
      BY <1>c, <3>1, <3>2
    <3>4. ClearedInv'
      BY <1>0, <3>1, <3>2, <3>3 DEF ClearedInv
    <3> QED BY <3>3, <3>4 DEF TransferInv
  <2> QED BY <2>1, <2>2
<1>6. CASE InsertSnapshotRows
  <2>1. CASE db' # db
    <3>1. db' \in Tables /\ import' = NoImport /\ LinksKept(db')
      BY <1>6, <2>1, InsertKeeps
    <3>2. export' = [export EXCEPT !.clean = FALSE] /\ UNCHANGED <<usedKeys, file, writes>>
      BY <1>6, <2>1 DEF InsertSnapshotRows, Rollback
    <3>3. TransferTypeOK'
      BY <1>0, <1>m, <3>1, <3>2, NoImportTyped DEF TransferTypeOK
    <3>4. ClearedInv'
      BY <3>1 DEF ClearedInv, NoImport
    <3> QED BY <3>1, <3>3, <3>4 DEF TransferInv, LinksKept
  <2>2. CASE db' = db
    <3>1. import' = NoImport /\ UNCHANGED <<usedKeys, file, writes>>
          /\ export' \in {export, [export EXCEPT !.clean = FALSE]}
      BY <1>6 DEF InsertSnapshotRows, Rollback
    <3>3. TransferTypeOK'
      BY <1>0, <1>m, <2>2, <3>1, NoImportTyped DEF TransferTypeOK
    <3>4. ClearedInv'
      BY <3>1 DEF ClearedInv, NoImport
    <3> QED BY <1>0, <2>2, <3>3, <3>4 DEF TransferInv, LinksKept
  <2> QED BY <2>1, <2>2
<1>7. CASE TransferCrash
  BY <1>7, <1>b DEF TransferCrash
<1> QED BY <1>1, <1>2, <1>3, <1>4, <1>5, <1>6, <1>7

LEMMA TransferInvInit ==
  ASSUME TransferInit
  PROVE  TransferInv
<1>1. db \in Tables /\ LinksKept(db)
  BY TransferAssumption DEF TransferInit
<1>2. usedKeys \subseteq DeviceKeys \cup LocationKeys
  BY <1>1, TablesAre, RowMapsAre DEF TransferInit
<1>3. 0 \in 0..MaxWrites
  BY TransferAssumption
<1>4. TransferTypeOK
  BY <1>1, <1>2, <1>3, NoImportTyped DEF TransferInit, TransferTypeOK
<1> QED BY <1>1, <1>4 DEF TransferInit, TransferInv, ClearedInv, NoImport

LEMMA TransferInvStep ==
  ASSUME TransferInv, [TransferNext]_transferVars
  PROVE  TransferInv'
<1>1. CASE TransferNext
  BY <1>1, OthersKeep, StatementsKeep DEF TransferNext
<1>2. CASE UNCHANGED transferVars
  BY <1>2 DEF transferVars, TransferInv, TransferTypeOK, LinksKept, ClearedInv
<1> QED BY <1>1, <1>2

\* What an import has cleared is empty but for what others have committed since.
THEOREM TransferInductive == TransferSpec => []TransferInv
<1>1. TransferInit => TransferInv
  BY TransferInvInit
<1>2. TransferInv /\ [TransferNext]_transferVars => TransferInv'
  BY TransferInvStep
<1> QED BY <1>1, <1>2, PTL DEF TransferSpec

LEMMA ImportReplacesHolds ==
  ASSUME TransferInv, [TransferNext]_transferVars
  PROVE  ImportReplacesStep
<1> SUFFICES ASSUME import.pc = "insert", import'.pc = "idle", db' # db
    PROVE /\ \A kind \in {"device", "location"} :
               /\ DOMAIN db'[kind] \subseteq DOMAIN import.rows[kind] \cup import.since[kind]
               /\ \A x \in DOMAIN import.rows[kind] :
                    x \in DOMAIN db'[kind] /\ db'[kind][x] = import.rows[kind][x]
          /\ import.rows.link \subseteq db'.link
          /\ db'.link \subseteq import.rows.link \cup import.since.link
          /\ \A e \in db'.link : e \subseteq DOMAIN db'.device
  BY DEF ImportReplacesStep
<1>0. TransferTypeOK /\ ClearedInv
  BY DEF TransferInv
<1>1. InsertSnapshotRows
  <2>1. TransferNext
    BY DEF transferVars
  <2>2. ASSUME NEW rows, NEW kind, NEW x, Write(rows, kind, x) PROVE import'.pc = "insert"
    <3>1. import' = [import EXCEPT !.since[kind] = @ \cup {x}]
      BY <2>2 DEF Write
    <3> QED BY <1>0, <3>1 DEF TransferTypeOK
  <2>3. ~(CreateDevice \/ MoveDevice \/ DropDevice \/ CreateLocation \/ DeleteLocation
            \/ CheckLocationMove \/ MoveLocation \/ Connect \/ Disconnect)
    BY <2>2 DEF CreateDevice, MoveDevice, DropDevice, CreateLocation, DeleteLocation,
                CheckLocationMove, MoveLocation, Connect, Disconnect
  <2>4. ~(BuildFullExport \/ ExportConnections \/ ExportLocations \/ ImportFullSnapshot
            \/ ClearConnections \/ ClearDevices \/ ClearLocations \/ TransferCrash)
    BY DEF BuildFullExport, ExportConnections, ExportLocations, ImportFullSnapshot,
           ClearConnections, ClearDevices, ClearLocations, TransferCrash
  <2> QED BY <2>1, <2>3, <2>4 DEF TransferNext
<1>2. /\ DOMAIN db'.device = (DOMAIN db.device \ import.gone.device) \cup DOMAIN import.rows.device
      /\ DOMAIN db'.location =
           (DOMAIN db.location \ import.gone.location) \cup DOMAIN import.rows.location
      /\ \A x \in DOMAIN import.rows.device : db'.device[x] = import.rows.device[x]
      /\ \A x \in DOMAIN import.rows.location : db'.location[x] = import.rows.location[x]
      /\ db'.link = (db.link \ import.gone.link) \cup import.rows.link
      /\ LinksKept(db')
  BY <1>1, InsertKeeps
<1>3. /\ DOMAIN db.device \ import.gone.device \subseteq import.since.device
      /\ DOMAIN db.location \ import.gone.location \subseteq import.since.location
      /\ db.link \ import.gone.link \subseteq import.since.link
  BY <1>0 DEF ClearedInv
<1>4. /\ DOMAIN db'["device"] \subseteq DOMAIN import.rows["device"] \cup import.since["device"]
      /\ \A x \in DOMAIN import.rows["device"] :
           x \in DOMAIN db'["device"] /\ db'["device"][x] = import.rows["device"][x]
  BY <1>2, <1>3
<1>5. /\ DOMAIN db'["location"] \subseteq DOMAIN import.rows["location"] \cup import.since["location"]
      /\ \A x \in DOMAIN import.rows["location"] :
           x \in DOMAIN db'["location"] /\ db'["location"][x] = import.rows["location"][x]
  BY <1>2, <1>3
<1> QED BY <1>2, <1>3, <1>4, <1>5 DEF LinksKept

\* An import leaves the rows of its file as they are there, and besides them only
\* what other requests have committed while it ran; no connection hangs (import_service.py).
THEOREM ImportCorrect == TransferSpec => ImportReplaces
<1>1. TransferInv /\ [TransferNext]_transferVars => [ImportReplacesStep]_transferVars
  BY ImportReplacesHolds
<1> QED BY <1>1, TransferInductive, PTL DEF TransferSpec, ImportReplaces

=============================================================================
