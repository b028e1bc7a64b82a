---------------------------- MODULE SnapshotLog -----------------------------
(***************************************************************************)
(* What the history of a topology promises, whatever requests overlap: a   *)
(* log of snapshots to which entries are added and in which nothing is     *)
(* ever changed or removed.  A restore adds a copy of an older snapshot.   *)
(* The head is the snapshot added last.                                    *)
(***************************************************************************)
EXTENDS Naturals

CONSTANTS MaxId, Devices

VARIABLES
  log,     \* snapshots by id; kept says whether the entry exists
  head     \* the current snapshot; 0 while history does not have it

Ids == 1..MaxId

Snapshot == [kept : BOOLEAN, from : 0..MaxId, json : SUBSET Devices]

NoSnapshot == [kept |-> FALSE, from |-> 0, json |-> {}]

Init == log = [i \in Ids |-> NoSnapshot] /\ head = 0

Append(i, from, json) ==
  /\ ~log[i].kept
  /\ log' = [log EXCEPT ![i] = [kept |-> TRUE, from |-> from, json |-> json]]
  /\ head' = i

Checkpoint == \E i \in Ids, json \in SUBSET Devices : Append(i, 0, json)

Restore == \E i, j \in Ids : log[j].kept /\ j < i /\ Append(i, j, log[j].json)

Next == Checkpoint \/ Restore

Spec == Init /\ [][Next]_<<log, head>>
=============================================================================
