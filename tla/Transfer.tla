------------------------------- MODULE Transfer -------------------------------
(***************************************************************************)
(* Export and import of the whole database.  An export reads table after   *)
(* table, each in a statement of its own; an import deletes table after    *)
(* table and inserts the rows of the file, in one transaction.  Other      *)
(* requests commit between the statements of both.  Devices, locations     *)
(* and connections stand for the eighteen tables that an import clears,    *)
(* fourteen of which are in a file: rows with a parent of their own kind,  *)
(* rows that refer to another table, rows that go with what they refer to. *)
(***************************************************************************)
EXTENDS Naturals, FiniteSets

CONSTANTS DeviceKeys, LocationKeys, NoKey,
          MaxWrites,      \* bound on the writes of other requests
          FirstTables     \* what the tables hold at first

VARIABLES db,       \* the committed rows
          usedKeys, \* ids that a row has had
          export,   \* the export under way: next table, rows so far
          file,     \* the last file that an export has made
          import,   \* the import under way: next table, file, rows deleted
          moves,    \* locations to be put elsewhere: checked, not committed
          writes

transferVars == <<db, usedKeys, export, file, import, moves, writes>>

DeviceRow   == [place : LocationKeys \cup {NoKey}, parent : DeviceKeys \cup {NoKey}]
LocationRow == [parent : LocationKeys \cup {NoKey}]
Move        == [of : LocationKeys, to : LocationKeys \cup {NoKey}]
Pairs  == {{d, e} : d, e \in DeviceKeys} \ {{d} : d \in DeviceKeys}
\* The rows of each table, by id.
Tables ==
  [device : UNION {[S -> DeviceRow] : S \in SUBSET DeviceKeys},
   location : UNION {[S -> LocationRow] : S \in SUBSET LocationKeys},
   link : SUBSET Pairs]
Ids    == [device : SUBSET DeviceKeys, location : SUBSET LocationKeys, link : SUBSET Pairs]

NoRow    == [x \in {} |-> NoKey]
NoRows   == [device |-> NoRow, location |-> NoRow, link |-> {}]
NoIds    == [device |-> {}, location |-> {}, link |-> {}]
NoExport == [pc |-> "idle", rows |-> NoRows, clean |-> FALSE]
NoFile   == [rows |-> NoRows, clean |-> FALSE]
\* gone: rows the transaction has deleted, and locked.  since: rows that
\* others have committed meanwhile (for the properties only).
NoImport == [pc |-> "idle", rows |-> NoRows, gone |-> NoIds, since |-> NoIds]

\* The foreign keys of connections (ON DELETE CASCADE).
LinksKept(t) == \A e \in t.link : e \subseteq DOMAIN t.device

ASSUME TransferAssumption ==
  /\ MaxWrites \in Nat /\ NoKey \notin DeviceKeys \cup LocationKeys
  /\ \A t \in FirstTables : t \in Tables /\ LinksKept(t)

TransferTypeOK ==
  /\ db \in Tables
  /\ usedKeys \subseteq DeviceKeys \cup LocationKeys
  /\ export \in [pc : {"idle", "connections", "locations"}, rows : Tables, clean : BOOLEAN]
  /\ file \in [rows : Tables, clean : BOOLEAN]
  /\ import \in [pc : {"idle", "connections", "devices", "locations", "insert"},
                 rows : Tables, gone : Ids, since : Ids]
  /\ moves \subseteq Move /\ writes \in 0..MaxWrites

TransferInit ==
  /\ db \in FirstTables
  /\ usedKeys = DOMAIN db.device \cup DOMAIN db.location
  /\ export = NoExport /\ file = NoFile /\ import = NoImport
  /\ moves = {} /\ writes = 0

Without(f, X) == [x \in DOMAIN f \ X |-> f[x]]
With(f, x, v) == [y \in DOMAIN f \cup {x} |-> IF y = x THEN v ELSE f[y]]

-----------------------------------------------------------------------------
(* What other requests commit, a request at a time.  A row that the import *)
(* has deleted is locked: whoever writes it or refers to it waits, and is  *)
(* refused once the import has committed.                                  *)

Free(kind, x) == x = NoKey \/ (x \in DOMAIN db[kind] /\ x \notin import.gone[kind])

Write(rows, kind, x) ==
  /\ writes < MaxWrites
  /\ db' = rows /\ writes' = writes + 1
  /\ export' = [export EXCEPT !.clean = FALSE]
  /\ import' = IF import.pc = "idle" THEN import
               ELSE [import EXCEPT !.since[kind] = @ \cup {x}]
  /\ UNCHANGED file

CreateDevice ==
  \E d \in DeviceKeys \ usedKeys, row \in DeviceRow :
    /\ Free("location", row.place) /\ Free("device", row.parent)
    /\ Write([db EXCEPT !.device = With(@, d, row)], "device", d)
    /\ usedKeys' = usedKeys \cup {d} /\ UNCHANGED moves

\* Placed elsewhere, or taken from its parent.  How devices come to be each other's
\* parents is shown by Inventory; here they are in FirstTables.
MoveDevice ==
  \E d \in DOMAIN db.device, l \in LocationKeys \cup {NoKey} :
    /\ Free("device", d) /\ Free("location", l)
    /\ \E p \in {NoKey, db.device[d].parent} :
         Write([db EXCEPT !.device[d] = [place |-> l, parent |-> p]], "device", d)
    /\ UNCHANGED <<usedKeys, moves>>

\* Connections go with their device (ON DELETE CASCADE).
LinksOf(X) == {e \in db.link : e \cap X # {}}

DropDevice ==
  \E d \in DOMAIN db.device :
    /\ Free("device", d) /\ \A x \in DOMAIN db.device : db.device[x].parent # d
    /\ Write([db EXCEPT !.device = Without(@, {d}), !.link = @ \ LinksOf({d})], "device", d)
    /\ UNCHANGED <<usedKeys, moves>>

CreateLocation ==
  \E l \in LocationKeys \ usedKeys, p \in LocationKeys \cup {NoKey} :
    /\ Free("location", p)
    /\ Write([db EXCEPT !.location = With(@, l, [parent |-> p])], "location", l)
    /\ usedKeys' = usedKeys \cup {l} /\ UNCHANGED moves

\* Up from p, by the parents that are committed: l is met, or there is no end.
DetectCycle(l, p) ==
  LET n == Cardinality(DOMAIN db.location)
      chain[k \in 0..n] ==
        IF k = 0 THEN p
        ELSE IF chain[k - 1] \in DOMAIN db.location THEN db.location[chain[k - 1]].parent
        ELSE NoKey
  IN  chain[n] # NoKey \/ l \in {chain[k] : k \in 0..n}

\* A location is put below another one in two steps: the check, by what it reads,
CheckLocationMove ==
  \E l \in DOMAIN db.location, p \in DOMAIN db.location \cup {NoKey} :
    /\ p # db.location[l].parent /\ ~DetectCycle(l, p)
    /\ Cardinality(moves) + writes < MaxWrites    \* a bound: each of them may be a write
    /\ moves' = moves \cup {[of |-> l, to |-> p]}
    /\ UNCHANGED <<db, usedKeys, export, file, import, writes>>

\* and the commit, which is refused if one of the two has gone meanwhile.
MoveLocation ==
  \E m \in moves :
    /\ moves' = moves \ {m} /\ UNCHANGED usedKeys
    /\ IF {m.of, m.to} \subseteq DOMAIN db.location \cup {NoKey}
       THEN /\ Free("location", m.of) /\ Free("location", m.to)
            /\ Write([db EXCEPT !.location[m.of] = [parent |-> m.to]], "location", m.of)
       ELSE UNCHANGED <<db, export, file, import, writes>>

DeleteLocation ==
  \E l \in DOMAIN db.location :
    /\ Free("location", l)
    /\ \A x \in DOMAIN db.location : db.location[x].parent # l
    /\ \A d \in DOMAIN db.device : db.device[d].place # l
    /\ Write([db EXCEPT !.location = Without(@, {l})], "location", l)
    /\ UNCHANGED <<usedKeys, moves>>

ExistsBetween(e) == e \in db.link

Connect ==
  \E e \in Pairs :
    /\ \A d \in e : d \in DOMAIN db.device /\ Free("device", d)
    /\ ~ExistsBetween(e)
    /\ Write([db EXCEPT !.link = @ \cup {e}], "link", e)
    /\ UNCHANGED <<usedKeys, moves>>

Disconnect ==
  \E e \in db.link \ import.gone.link :
    /\ Write([db EXCEPT !.link = @ \ {e}], "link", e)
    /\ UNCHANGED <<usedKeys, moves>>

-----------------------------------------------------------------------------
(* Export.                                                                  *)

BuildFullExport ==
  /\ export.pc = "idle"
  /\ export' = [pc |-> "connections", rows |-> [NoRows EXCEPT !.device = db.device],
                clean |-> TRUE]
  /\ UNCHANGED <<db, usedKeys, file, import, moves, writes>>

ExportConnections ==
  /\ export.pc = "connections"
  /\ export' = [export EXCEPT !.pc = "locations", !.rows.link = db.link]
  /\ UNCHANGED <<db, usedKeys, file, import, moves, writes>>

ExportLocations ==
  /\ export.pc = "locations"
  /\ file' = [rows |-> [export.rows EXCEPT !.location = db.location], clean |-> export.clean]
  /\ export' = NoExport
  /\ UNCHANGED <<db, usedKeys, import, moves, writes>>

-----------------------------------------------------------------------------
(* Import.                                                                  *)

\* What is checked before the tables are touched.
ValidateDeviceLocationRefs(rows) ==
  \A d \in DOMAIN rows.device : rows.device[d].place \in DOMAIN rows.location \cup {NoKey}
ValidateDeviceParentRefs(rows) ==
  \A d \in DOMAIN rows.device : rows.device[d].parent \in DOMAIN rows.device \cup {NoKey}

\* Kahn's algorithm: rows without a parent in the file, then their children,
\* and so on; what lies on a circle or below one is never reached.
Layers(rows) ==
  LET n == Cardinality(DOMAIN rows)
      layer[k \in 0..n] ==
        IF k = 0 THEN {x \in DOMAIN rows : rows[x].parent \notin DOMAIN rows}
        ELSE {x \in DOMAIN rows : rows[x].parent \in layer[k - 1]}
  IN  layer
TopologicalSort(rows) == Layers(rows)
Circular(rows) == UNION {Layers(rows)[k] : k \in DOMAIN Layers(rows)} # DOMAIN rows

\* A row is inserted when its parent is there already.
InsertsInOrder(rows, there) ==
  LET layer == TopologicalSort(rows)
      Before(k) == UNION {layer[j] : j \in {i \in DOMAIN layer : i < k}}
  IN  \A k \in DOMAIN layer : \A x \in layer[k] :
        rows[x].parent \in Before(k) \cup there \cup {NoKey}

Accepted(rows) ==
  /\ ValidateDeviceLocationRefs(rows) /\ ValidateDeviceParentRefs(rows)
  /\ ~Circular(rows.device) /\ ~Circular(rows.location)
  /\ \A e \in rows.link : e \subseteq DOMAIN rows.device

\* POST /import
ImportFullSnapshot ==
  /\ import.pc = "idle" /\ file # NoFile
  /\ ValidateDeviceLocationRefs(file.rows) /\ ValidateDeviceParentRefs(file.rows)
  /\ import' = [NoImport EXCEPT !.pc = "connections", !.rows = file.rows]
  /\ UNCHANGED <<db, usedKeys, export, file, moves, writes>>

ClearConnections ==
  /\ import.pc = "connections"
  /\ import' = [import EXCEPT !.pc = "devices", !.gone.link = db.link]
  /\ UNCHANGED <<db, usedKeys, export, file, moves, writes>>

ClearDevices ==
  /\ import.pc = "devices"
  /\ import' = [import EXCEPT !.pc = "locations", !.gone.device = DOMAIN db.device,
                              !.gone.link = @ \cup LinksOf(DOMAIN db.device)]
  /\ UNCHANGED <<db, usedKeys, export, file, moves, writes>>

\* Any error rolls the transaction back.
Rollback ==
  /\ import' = NoImport
  /\ UNCHANGED <<db, usedKeys, export, file, moves, writes>>

\* Devices that came after theirs were deleted hold their location.
ClearLocations ==
  /\ import.pc = "locations"
  /\ IF \E d \in DOMAIN db.device \ import.gone.device : db.device[d].place # NoKey
     THEN Rollback
     ELSE /\ import' = [import EXCEPT !.pc = "insert", !.gone.location = DOMAIN db.location]
          /\ UNCHANGED <<db, usedKeys, export, file, moves, writes>>

KeptNot(f, gone) == f
Kept(f, gone) == Without(f, gone)
Merged(old, new) == [x \in DOMAIN old \cup DOMAIN new |->
                       IF x \in DOMAIN new THEN new[x] ELSE old[x]]

Survivors == [device   |-> Kept(db.device, import.gone.device),
              location |-> Kept(db.location, import.gone.location),
              link     |-> db.link \ import.gone.link]

\* The rows of the file go in: locations, devices, connections.
InsertSnapshotRows ==
  LET new == import.rows
      old == Survivors
  IN /\ import.pc = "insert"
     /\ IF Circular(new.location) \/ Circular(new.device)
           \/ ~InsertsInOrder(new.location, DOMAIN old.location)
           \/ ~InsertsInOrder(new.device, DOMAIN old.device)
           \/ \E e \in new.link : ~(e \subseteq DOMAIN new.device \cup DOMAIN old.device)
        THEN Rollback
        ELSE /\ db' = [device   |-> Merged(old.device, new.device),
                       location |-> Merged(old.location, new.location),
                       link     |-> old.link \cup new.link]
             /\ import' = NoImport
             /\ export' = [export EXCEPT !.clean = FALSE]
             /\ UNCHANGED <<usedKeys, file, moves, writes>>

\* The process stops: requests under way are gone, and their transactions.
TransferCrash ==
  /\ import' = NoImport /\ export' = NoExport /\ moves' = {}
  /\ UNCHANGED <<db, usedKeys, file, writes>>

TransferNext ==
  \/ CreateDevice \/ MoveDevice \/ DropDevice \/ CreateLocation \/ DeleteLocation
  \/ CheckLocationMove \/ MoveLocation
  \/ Connect \/ Disconnect
  \/ BuildFullExport \/ ExportConnections \/ ExportLocations
  \/ ImportFullSnapshot \/ ClearConnections \/ ClearDevices \/ ClearLocations
  \/ InsertSnapshotRows \/ TransferCrash

TransferSpec == TransferInit /\ [][TransferNext]_transferVars

-----------------------------------------------------------------------------
\* Rows of which each has its parent among the others.
HasCircle(rows) == \E S \in SUBSET DOMAIN rows : S # {} /\ \A x \in S : rows[x].parent \in S

\* A file whose export no write overlapped can be imported into an empty database,
\* rows in an order in which each finds its parent, unless devices or locations are
\* each other's parents; then it is refused (domain/export.py:74-75).
CleanFilesRestore ==
  /\ TransferTypeOK
  /\ file.clean =>
       /\ Accepted(file.rows) <=> ~HasCircle(file.rows.device) /\ ~HasCircle(file.rows.location)
       /\ Accepted(file.rows) =>
            /\ InsertsInOrder(file.rows.location, {})
            /\ InsertsInOrder(file.rows.device, {})

\* What an import leaves behind is the file, and rows that other requests have
\* committed while it ran; without those it is the file exactly.
ImportReplacesStep ==
  import.pc = "insert" /\ import'.pc = "idle" /\ db' # db =>
    /\ \A kind \in {"device", "location"} :
         /\ DOMAIN db'[kind] \subseteq DOMAIN import.rows[kind] \cup import.since[kind]
         /\ \A x \in DOMAIN import.rows[kind] :
              x \in DOMAIN db'[kind] /\ db'[kind][x] = import.rows[kind][x]
    /\ import.rows.link \subseteq db'.link
    /\ db'.link \subseteq import.rows.link \cup import.since.link
    /\ \A e \in db'.link : e \subseteq DOMAIN db'.device
ImportReplaces == [][ImportReplacesStep]_transferVars

-----------------------------------------------------------------------------
(* The inductive invariant of the import: what it has not deleted of a      *)
(* table that it has cleared, others have committed since; and no           *)
(* connection that is left hangs on a device it has deleted.                *)
ClearedInv ==
  LET past(pcs) == import.pc \in pcs
      left(kind) == DOMAIN db[kind] \ import.gone[kind]
  IN /\ past({"devices", "locations", "insert"}) => db.link \ import.gone.link \subseteq import.since.link
     /\ past({"locations", "insert"}) =>
          /\ left("device") \subseteq import.since.device
          /\ \A e \in db.link \ import.gone.link : e \cap import.gone.device = {}
     /\ past({"insert"}) => left("location") \subseteq import.since.location
TransferInv == TransferTypeOK /\ LinksKept(db) /\ ClearedInv
===============================================================================
