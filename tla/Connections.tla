------------------------------ MODULE Connections ------------------------------
(***************************************************************************)
(* Connections between devices, and the panel that edits one.              *)
(*                                                                         *)
(* A request of connection_service reads and checks without a lock and     *)
(* commits in a step of its own: what no check can see, the constraints of *)
(* the table refuse.  A patch carries no version.  The panel works on the  *)
(* edge of the canvas, and its Save button is never locked.                *)
(***************************************************************************)
EXTENDS Naturals, FiniteSets

CONSTANTS Devices, Conns,   \* ids
          Infos,            \* type and label of a connection
          Clients,          \* requests that may be under way
          MaxCalls,         \* bound on requests
          None

VARIABLES devices,   \* devices that exist
          conn,      \* conn[c]: the row of c, or None
          spent,     \* ids that were given
          call,      \* the requests
          edge,      \* edge[c]: what the canvas shows of c, or None
          calls,     \* how many requests there were
          asked,     \* asked[c]: the info that was committed for c last
          foreign    \* connections that the canvas cannot be right about

vars == <<devices, conn, spent, call, edge, calls, asked, foreign>>
tables == <<devices, conn, spent>>

Row == [source : Devices, target : Devices, info : Infos]

ASSUME ConnectionsAssumption == None \notin Row \cup Infos \cup Conns

Call == [op : {"none", "create", "update", "delete"}, c : Conns \cup {None},
         was : Row \cup {None}, to : Row \cup {None}, ui : BOOLEAN,
         at : {"none", "read", "done", "refused"}]
NoCall == [op |-> "none", c |-> None, was |-> None, to |-> None, ui |-> FALSE, at |-> "none"]

TypeOK ==
  /\ devices \subseteq Devices /\ spent \subseteq Conns /\ foreign \subseteq Conns
  /\ conn \in [Conns -> Row \cup {None}] /\ edge \in [Conns -> Infos \cup {None}]
  /\ asked \in [Conns -> Infos \cup {None}]
  /\ call \in [Clients -> Call]

\* One connection, shown on the canvas.
Init ==
  \E c \in Conns, d, e \in Devices, i \in Infos :
    /\ d # e
    /\ devices = Devices /\ spent = {c}
    /\ conn = [x \in Conns |-> IF x = c THEN [source |-> d, target |-> e, info |-> i] ELSE None]
    /\ call = [k \in Clients |-> NoCall]
    /\ edge = [x \in Conns |-> IF x = c THEN i ELSE None]
    /\ calls = 0
    /\ asked = edge /\ foreign = {}

Stored == {c \in Conns : conn[c] # None}
Ends(row) == {row.source, row.target}

\* exists_between: either direction.
ExistsBetween(row) == \E c \in Stored : Ends(conn[c]) = Ends(row)

-----------------------------------------------------------------------------
(* The constraints of the table.                                            *)

\* Variant: the index knows one direction only.
UniquePairDirected(c, row) ==
  \A x \in Stored \ {c} : <<conn[x].source, conn[x].target>> # <<row.source, row.target>>
UniquePair(c, row) == \A x \in Stored \ {c} : Ends(conn[x]) # Ends(row)

NoSelfLoop(row) == row.source # row.target
EndsExist(row) == Ends(row) \subseteq devices

Allowed(c, row) == UniquePair(c, row) /\ NoSelfLoop(row) /\ EndsExist(row)

-----------------------------------------------------------------------------
(* Requests: the reading half.                                              *)

Start(k, r) ==
  /\ call[k] = NoCall /\ calls < MaxCalls
  /\ call' = [call EXCEPT ![k] = [r EXCEPT !.at = "read"]]
  /\ calls' = calls + 1
  /\ UNCHANGED <<tables, edge, asked, foreign>>

Create(k) ==
  \E c \in Conns \ spent, row \in Row :
    /\ NoSelfLoop(row) /\ EndsExist(row) /\ ~ExistsBetween(row)
    /\ \A x \in Clients : call[x].c # c
    /\ Start(k, [NoCall EXCEPT !.op = "create", !.c = c, !.to = row])

\* A patch may name one end, both, the info, or all; only named ends are looked up.
ValidateUpdatedDevices(was, to) ==
  /\ to.source # was.source => to.source \in devices
  /\ to.target # was.target => to.target \in devices
ValidateUpdatedPair(was, to) ==
  /\ NoSelfLoop(to)
  /\ Ends(to) # Ends(was) => ~ExistsBetween(to)

Update(k) ==
  \E c \in Stored, to \in Row :
    /\ ValidateUpdatedDevices(conn[c], to) /\ ValidateUpdatedPair(conn[c], to)
    /\ to # conn[c]
    /\ Start(k, [NoCall EXCEPT !.op = "update", !.c = c, !.was = conn[c], !.to = to])

Delete(k) ==
  \E c \in Stored :
    Start(k, [NoCall EXCEPT !.op = "delete", !.c = c, !.was = conn[c]])

\* The panel patches type and label, and deletes.
PanelSave(k) ==
  \E c \in Stored, i \in Infos :
    /\ edge[c] # None
    /\ Start(k, [NoCall EXCEPT !.op = "update", !.c = c, !.was = conn[c], !.ui = TRUE,
                               !.to = [conn[c] EXCEPT !.info = i]])

PanelDelete(k) ==
  \E c \in Stored :
    /\ edge[c] # None
    /\ Start(k, [NoCall EXCEPT !.op = "delete", !.c = c, !.was = conn[c], !.ui = TRUE])

-----------------------------------------------------------------------------
(* Requests: the commit, and the answer.                                    *)

\* A request of the panel waits for its answer; the canvas knows no other.
Answer(k, at) ==
  call' = [call EXCEPT ![k] = IF @.ui THEN [@ EXCEPT !.at = at] ELSE NoCall]

\* Two requests of the panel at a time may be answered in another order.
Alone(k) == \A x \in Clients \ {k} : call[x] = NoCall \/ ~call[x].ui \/ call[x].c # call[k].c
Touched(k) == IF call[k].ui /\ Alone(k) THEN foreign ELSE foreign \cup {call[k].c}

CommitCreate(k) ==
  LET r == call[k]
  IN /\ r.op = "create" /\ r.at = "read" /\ Allowed(r.c, r.to)
     /\ conn' = [conn EXCEPT ![r.c] = r.to] /\ spent' = spent \cup {r.c}
     /\ asked' = [asked EXCEPT ![r.c] = r.to.info]
     /\ Answer(k, "done")
     /\ UNCHANGED <<devices, edge, calls, foreign>>

\* Variant: the row is written as it was read, with the changes.
MergeWhole(stored, was, to) == to
\* The session writes the columns that differ from what it had read.
Merge(stored, was, to) ==
  [f \in DOMAIN stored |-> IF to[f] = was[f] THEN stored[f] ELSE to[f]]

CommitUpdate(k) ==
  LET r == call[k]
      row == Merge(conn[r.c], r.was, r.to)
  IN /\ r.op = "update" /\ r.at = "read" /\ conn[r.c] # None
     /\ Allowed(r.c, row)
     /\ conn' = [conn EXCEPT ![r.c] = row]
     /\ IF r.to.info # r.was.info
        THEN asked' = [asked EXCEPT ![r.c] = r.to.info]
        ELSE UNCHANGED asked
     /\ foreign' = IF r.to.info = r.was.info /\ ~r.ui THEN foreign ELSE Touched(k)
     /\ Answer(k, "done")
     /\ UNCHANGED <<devices, spent, edge, calls>>

\* Deleting a row that is gone meanwhile succeeds as well.
CommitDelete(k) ==
  LET r == call[k]
  IN /\ r.op = "delete" /\ r.at = "read"
     /\ conn' = [conn EXCEPT ![r.c] = None]
     /\ foreign' = Touched(k)
     /\ Answer(k, "done")
     /\ UNCHANGED <<devices, spent, edge, calls, asked>>

\* A constraint refuses the commit, or the row to update is gone.
RefuseCommit(k) ==
  LET r == call[k]
  IN /\ r.at = "read"
     /\ \/ r.op = "create" /\ ~Allowed(r.c, r.to)
        \/ r.op = "update" /\ conn[r.c] = None
        \/ r.op = "update" /\ conn[r.c] # None /\ ~Allowed(r.c, Merge(conn[r.c], r.was, r.to))
     /\ Answer(k, "refused")
     /\ UNCHANGED <<tables, edge, calls, asked, foreign>>

\* The panel gives up after five seconds.
AnswerIsLost(k) ==
  /\ call[k].ui /\ call[k].at = "done"
  /\ call' = [call EXCEPT ![k].at = "refused"]
  /\ foreign' = foreign \cup {call[k].c}
  /\ UNCHANGED <<tables, edge, calls, asked>>

\* Variant: the label on the canvas stays.
EdgeUpdateNot(i, r) == i
EdgeUpdate(i, r) == IF i = None THEN None ELSE r.to.info

Answered(k) ==
  LET r == call[k]
  IN /\ r.ui /\ r.at \in {"done", "refused"}
     /\ edge' = IF r.at = "refused" THEN edge
                ELSE [edge EXCEPT ![r.c] = IF r.op = "update" THEN EdgeUpdate(@, r) ELSE None]
     /\ call' = [call EXCEPT ![k] = NoCall]
     /\ UNCHANGED <<tables, calls, asked, foreign>>

-----------------------------------------------------------------------------
(* Around them.                                                             *)

\* The rows of a device go with it.
DeleteDevice(d) ==
  LET hit == {c \in Stored : d \in Ends(conn[c])}
  IN /\ d \in devices /\ calls < MaxCalls
     /\ devices' = devices \ {d}
     /\ conn' = [c \in Conns |-> IF c \in hit THEN None ELSE conn[c]]
     /\ foreign' = foreign \cup hit
     /\ calls' = calls + 1
     /\ UNCHANGED <<spent, call, edge, asked>>

\* Opening the view draws an edge for every connection.
LoadEdges ==
  /\ \A k \in Clients : call[k] = NoCall
  /\ edge' = [c \in Conns |-> IF conn[c] = None THEN None ELSE conn[c].info]
  /\ foreign' = {}
  /\ <<edge, foreign>>' # <<edge, foreign>>
  /\ UNCHANGED <<tables, call, calls, asked>>

Next ==
  \/ \E k \in Clients :
       \/ Create(k) \/ Update(k) \/ Delete(k) \/ PanelSave(k) \/ PanelDelete(k)
       \/ CommitCreate(k) \/ CommitUpdate(k) \/ CommitDelete(k) \/ RefuseCommit(k)
       \/ AnswerIsLost(k) \/ Answered(k)
  \/ \E d \in Devices : DeleteDevice(d)
  \/ LoadEdges

Spec == Init /\ [][Next]_vars

-----------------------------------------------------------------------------
\* Two devices are joined once, a device never to itself, and both exist,
\* though no check of a request sees what another is about to commit: two
\* patches of one connection may make a loop of it between them.
JoinedOnce ==
  /\ \A c \in Stored : Cardinality(Ends(conn[c])) = 2 /\ Ends(conn[c]) \subseteq devices
  /\ \A c, x \in Stored : Ends(conn[c]) = Ends(conn[x]) => c = x

\* Patches of different columns do not undo each other: a connection has the
\* type and label that the last patch to change them asked for.
InfoStands ==
  \A c \in Stored : conn[c].info = asked[c]

\* When the panel waits for nothing, the canvas shows what the table has, of a
\* connection that only the panel changed, one request at a time, answers heard.
EdgeShowsConnection ==
  \A c \in Conns \ foreign :
    edge[c] # None /\ (\A k \in Clients : call[k].ui => call[k].c # c) =>
      conn[c] # None /\ edge[c] = conn[c].info

\* Connections join two devices once, and the canvas shows what they are
\* (connection_service.py, connection_detail_panel.py).
ConnectionsHold == TypeOK /\ JoinedOnce /\ InfoStands /\ EdgeShowsConnection

-----------------------------------------------------------------------------
(* What is known of the requests, and why the canvas is right.  An id that  *)
(* is drawn for a row to come is of one request.  Of a connection that is   *)
(* not foreign, a request of the panel has read the info that the row still *)
(* has; once it is committed, the row is what its answer will draw.         *)

Fits(r) ==
  /\ r.op # "none" => r.c \in Conns
  /\ r.op \in {"create", "update"} => r.to \in Row
  /\ r.op = "update" => r.was \in Row
  /\ r.op \in {"none", "create"} => ~r.ui
  /\ r.at \in {"done", "refused"} => r.ui

CallsInv ==
  \A k \in Clients :
    /\ Fits(call[k])
    /\ call[k].op = "create" =>
         call[k].c \notin spent /\ \A x \in Clients : call[x].c = call[k].c => x = k

SpentInv == \A c \in Conns : conn[c] # None \/ edge[c] # None => c \in spent

OfPanel(c) == {k \in Clients : call[k].ui /\ call[k].c = c}

Shown(c) ==
  /\ (\A k \in OfPanel(c) : call[k].at # "done") => conn[c] # None /\ edge[c] = conn[c].info
  /\ \A k \in OfPanel(c) : call[k].op = "update" =>
       /\ call[k].at = "read" => conn[c] # None /\ conn[c].info = call[k].was.info
       /\ call[k].at = "done" => conn[c] # None /\ conn[c].info = call[k].to.info

EdgeInv == \A c \in Conns \ foreign : edge[c] # None => Shown(c)

CInv == TypeOK /\ JoinedOnce /\ InfoStands /\ CallsInv /\ SpentInv /\ EdgeInv
===============================================================================
