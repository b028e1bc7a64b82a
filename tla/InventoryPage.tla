---------------------------- MODULE InventoryPage ----------------------------
(***************************************************************************)
(* The inventory table of the page /inventory and its bulk actions.        *)
(*                                                                         *)
(* A bulk action sends one request per chosen device, one after the other; *)
(* each answer changes the table at once.  Meanwhile the user selects and  *)
(* filters, deletes a single device, which loads the table again in two    *)
(* requests, and others edit the inventory.  An answer that is lost ends   *)
(* the action, whether or not the request was served.                      *)
(***************************************************************************)
EXTENDS Naturals, FiniteSets

CONSTANTS Listed, Labels, Places,  \* ids
          Loads,                  \* loads of the table that may overlap
          MaxBulks, MaxChanges,     \* bounds on bulk actions and on other changes
          Nil

VARIABLES dev,       \* dev[d]: the tags of device d in the inventory, Nil when deleted
          parent,    \* parent[d]: the device that d is inside, or Nil
          linked,    \* devices that have a connection
          placed,    \* devices that some diagram shows
          all,       \* all[d]: the copy of the page, or Nil
          orphans,   \* devices the page takes for unplaced
          filter,    \* the tag chips and the orphan box
          listing,     \* rows of the table
          selected,  \* selected_ids
          locations, \* what the page knows of the locations, Nil before it asked
          bulk,      \* the bulk action that is running
          load,      \* the loads that are under way
          spent,     \* <<bulk actions, other changes>> so far
          finished,      \* the action that finished, until the user or a load changes the table
          off        \* devices whose row may be wrong, and nobody told the page

server == <<dev, parent, linked, placed>>
table == <<all, orphans, filter, listing, selected>>
tableVars == <<server, table, locations, bulk, load, spent, finished, off>>

Copies == [Listed -> (SUBSET Labels) \cup {Nil}]
Present(c) == {d \in Listed : c[d] # Nil}

\* late: the device of the request under way was changed since by someone else.
NoBulk == [op |-> "none", arg |-> Nil, asked |-> {}, chosen |-> {}, todo |-> {}, now |-> Nil,
           at |-> "idle", ok |-> {}, failed |-> {}, skipped |-> {}, late |-> FALSE]
NoLoad == [at |-> "none", copy |-> [d \in Listed |-> Nil], stale |-> {}]
NoFilter == [tags |-> {}, orphan |-> FALSE]

Bulk == [op : {"none", "add", "remove", "delete"}, arg : Labels \cup {Nil},
         asked : SUBSET Listed, chosen : SUBSET Listed, todo : SUBSET Listed,
         now : Listed \cup {Nil}, at : {"idle", "ready", "checked", "done", "refused"},
         ok : SUBSET Listed, failed : SUBSET Listed, skipped : SUBSET Listed, late : BOOLEAN]
Load == [at : {"none", "asked", "served", "devices"}, copy : Copies, stale : SUBSET Listed]

TableTypeOK ==
  /\ dev \in Copies /\ all \in Copies
  /\ parent \in [Listed -> Listed \cup {Nil}]
  /\ linked \subseteq Listed /\ placed \subseteq Listed /\ orphans \subseteq Listed
  /\ listing \subseteq Listed /\ selected \subseteq Listed /\ off \subseteq Listed
  /\ filter \in [tags : SUBSET Labels, orphan : BOOLEAN]
  /\ locations \in {Nil} \cup SUBSET Places
  /\ bulk \in Bulk /\ (bulk.op \in {"add", "remove"} => bulk.arg \in Labels)
  /\ load \in [Loads -> Load]

\* A table that was loaded; at most one device is inside another.
TableInit ==
  /\ dev \in [Listed -> SUBSET Labels] /\ all = dev
  /\ \/ parent = [d \in Listed |-> Nil]
     \/ \E d, e \in Listed : d # e /\ parent = [x \in Listed |-> IF x = d THEN e ELSE Nil]
  /\ linked \in {s \in SUBSET Listed : Cardinality(s) \in {0, 2}}
  /\ placed \in SUBSET Listed /\ orphans = Listed \ placed
  /\ filter = NoFilter /\ listing = Listed /\ selected = {} /\ locations = Nil
  /\ bulk = NoBulk /\ load = [l \in Loads |-> NoLoad]
  /\ spent = <<0, 0>> /\ finished = Nil /\ off = {}

-----------------------------------------------------------------------------
(* Filters and the selection.                                               *)

\* filter_devices, then the orphans; the tag chips are alternatives.  Search, type and status
\* look at fields that nothing here changes, and are left out.
Filtered(c, f, o) ==
  {d \in Present(c) : /\ f.tags # {} => c[d] \cap f.tags # {}
                      /\ f.orphan => d \in o}

\* Variant: rows that left the table stay selected.
SyncSelectionKeep(s, rows, clear) == IF clear THEN {} ELSE s
SyncSelection(s, rows, clear) == IF clear THEN {} ELSE s \cap rows

\* apply_filters, after c, f, o and the selection s were set.
ApplyFilters(c, f, o, s, clear) ==
  LET rows == Filtered(c, f, o)
  IN /\ all' = c /\ filter' = f /\ orphans' = o /\ listing' = rows
     /\ selected' = SyncSelection(s, rows, clear)

\* A chip, the orphan box, and the button that clears them.
SetFilter ==
  \E f \in [tags : SUBSET Labels, orphan : BOOLEAN] :
    /\ f # filter
    /\ f = NoFilter \/ f.tags = filter.tags \/ f.orphan = filter.orphan
    /\ ApplyFilters(all, f, orphans, selected, TRUE)
    /\ finished' = Nil
    /\ UNCHANGED <<server, locations, bulk, load, spent, off>>

\* on_table_select.  The table stays usable while an action runs.
OnTableSelect ==
  \E s \in SUBSET listing :
    /\ s # selected
    /\ selected' = s /\ finished' = Nil
    /\ UNCHANGED <<server, all, orphans, filter, listing, locations, bulk, load, spent, off>>

-----------------------------------------------------------------------------
(* Loading the table.                                                       *)

\* Nobody tells the page that d changes, nor the answer for d that is on its way.
Overtakes(d) ==
  /\ off' = off \cup {d}
  /\ bulk' = [bulk EXCEPT !.late = @ \/ (d = bulk.now /\ bulk.at = "done")]

\* The dialog of one row: deletes, then loads.
DeleteOne ==
  \E d \in listing \cap Present(dev), l \in Loads :
    /\ spent[2] < MaxChanges
    /\ \A e \in Present(dev) : parent[e] # d
    /\ dev' = [dev EXCEPT ![d] = Nil]
    /\ linked' = linked \ {d} /\ placed' = placed \ {d}
    /\ Overtakes(d)
    /\ load[l] = NoLoad
    /\ load' = [k \in Loads |-> IF k = l THEN [NoLoad EXCEPT !.at = "asked"]
                                ELSE [load[k] EXCEPT !.stale = @ \cup {d}]]
    /\ spent' = [spent EXCEPT ![2] = @ + 1]
    /\ UNCHANGED <<parent, table, locations, finished>>

ServeLoad(l) ==
  /\ load[l].at = "asked"
  /\ load' = [load EXCEPT ![l] = [at |-> "served", copy |-> dev, stale |-> {}]]
  /\ UNCHANGED <<server, table, locations, bulk, spent, finished, off>>

\* all_devices is replaced at once, the rows follow when the second request is answered.
Devices1(l) ==
  /\ load[l].at = "served"
  /\ all' = load[l].copy /\ off' = load[l].stale
  /\ load' = [load EXCEPT ![l] = [NoLoad EXCEPT !.at = "devices"]]
  /\ UNCHANGED <<server, orphans, filter, listing, selected, locations, bulk, spent, finished>>

LoadFails(l) ==
  /\ load[l].at \in {"asked", "served"}
  /\ all' = [d \in Listed |-> Nil] /\ off' = Listed
  /\ load' = [load EXCEPT ![l] = [NoLoad EXCEPT !.at = "devices"]]
  /\ UNCHANGED <<server, orphans, filter, listing, selected, locations, bulk, spent, finished>>

\* The orphans, or none when the request fails; every load clears the selection.
Placement(l) ==
  \E o \in {Present(all) \ placed, {}} :
    /\ load[l].at = "devices"
    /\ ApplyFilters(all, filter, o, selected, TRUE)
    /\ load' = [load EXCEPT ![l] = NoLoad] /\ finished' = Nil
    /\ UNCHANGED <<server, locations, bulk, spent, off>>

-----------------------------------------------------------------------------
(* Bulk actions: _run_bulk and the loops of inventory_bulk_actions.         *)

\* _selected_devices: the objects, of all_devices and not of the rows.
SelectedDevices == Present(all) \cap selected

RunBulk(op, arg) ==
  /\ bulk = NoBulk /\ SelectedDevices # {} /\ spent[1] < MaxBulks
  /\ bulk' = [NoBulk EXCEPT !.op = op, !.arg = arg, !.at = "ready",
                            !.asked = selected, !.chosen = SelectedDevices,
                            !.todo = SelectedDevices]
  /\ spent' = [spent EXCEPT ![1] = @ + 1] /\ finished' = Nil
  /\ UNCHANGED <<server, table, locations, load, off>>

AddTag == \E t \in Labels : RunBulk("add", t)

\* get_common_tags: the choice is what every selected device has.
CommonTags == {t \in Labels : \A d \in SelectedDevices : t \in all[d]}
RemoveTag == \E t \in CommonTags : RunBulk("remove", t)

DeleteSelected == RunBulk("delete", Nil)

\* The locations that the toolbar offers are those an earlier choice has loaded.
LocationOptions == IF locations = Nil THEN {} ELSE locations
SetLocation ==
  \E p \in LocationOptions :
    /\ locations' = IF locations = Nil THEN Places ELSE locations
    /\ UNCHANGED <<server, table, bulk, load, spent, finished, off>>

\* The server changed d, and the copies that loads are bringing did not see it.
Changed(d) == load' = [l \in Loads |-> [load[l] EXCEPT !.stale = @ \cup {d}]]

Aim(at) == /\ bulk.op # "none" /\ bulk.at = "ready"
           /\ \E d \in bulk.todo : bulk' = [bulk EXCEPT !.now = d, !.at = at]

ServeTag ==
  /\ bulk.op \in {"add", "remove"} /\ Aim("done")
  /\ LET d == bulk'.now
     IN /\ dev[d] # Nil
        /\ dev' = [dev EXCEPT ![d] = IF bulk.op = "add" THEN @ \cup {bulk.arg} ELSE @ \ {bulk.arg}]
        /\ Changed(d)
  /\ UNCHANGED <<parent, linked, placed, table, locations, spent, finished, off>>

\* Any error answer: the device is gone, or the server refuses for another reason.
ServeRefusal ==
  /\ Aim("refused")
  /\ UNCHANGED <<server, table, locations, load, spent, finished, off>>

\* The connections are looked up first; a device that has none is deleted by a second request.
Preflight ==
  /\ bulk.op = "delete" /\ Aim("checked") /\ bulk'.now \notin linked
  /\ UNCHANGED <<server, table, locations, load, spent, finished, off>>

Skipped == /\ bulk.op = "delete" /\ bulk.at = "ready"
           /\ \E d \in bulk.todo \cap linked :
                bulk' = [bulk EXCEPT !.todo = @ \ {d}, !.skipped = @ \cup {d}]
           /\ ApplyFilters(all, filter, orphans, selected, FALSE)
           /\ UNCHANGED <<server, locations, load, spent, finished, off>>

ServeDelete ==
  LET d == bulk.now
      free == dev[d] # Nil /\ \A e \in Present(dev) : parent[e] # d
  IN /\ bulk.at = "checked"
     /\ bulk' = [bulk EXCEPT !.at = IF free THEN "done" ELSE "refused"]
     /\ IF free
        THEN /\ dev' = [dev EXCEPT ![d] = Nil]
             /\ linked' = linked \ {d} /\ placed' = placed \ {d} /\ Changed(d)
        ELSE UNCHANGED <<dev, linked, placed, load>>
     /\ UNCHANGED <<parent, table, locations, spent, finished, off>>

\* Variant: the rows that were chosen change, whatever the server said.
OnSuccessAll(c, b, ok) ==
  [d \in Listed |-> IF d \notin b.asked \/ c[d] = Nil THEN c[d]
                     ELSE CASE b.op = "add" -> c[d] \cup {b.arg}
                            [] b.op = "remove" -> c[d] \ {b.arg}
                            [] OTHER -> Nil]
\* on_success: the rows of the devices in ok.
OnSuccess(c, b, ok) ==
  [d \in Listed |-> IF d \notin ok \/ c[d] = Nil THEN c[d]
                     ELSE CASE b.op = "add" -> c[d] \cup {b.arg}
                            [] b.op = "remove" -> c[d] \ {b.arg}
                            [] OTHER -> Nil]

\* on_settled: one answer, at once in the table.
Settle ==
  LET d == bulk.now
      ok == IF bulk.at = "done" THEN {d} ELSE {}
  IN /\ bulk.at \in {"done", "refused"}
     /\ bulk' = [bulk EXCEPT !.at = "ready", !.now = Nil, !.todo = @ \ {d}, !.late = FALSE,
                             !.ok = @ \cup ok, !.failed = @ \cup ({d} \ ok)]
     /\ off' = IF bulk.late /\ ok # {} THEN off \cup ok ELSE off
     /\ ApplyFilters(OnSuccess(all, bulk, ok), filter,
                     IF bulk.op = "delete" THEN orphans \ ok ELSE orphans, selected, FALSE)
     /\ UNCHANGED <<server, locations, load, spent, finished>>

\* Variant: devices that were skipped are taken for done.
ResolveSelectionNoSkips(b, aborted) ==
  IF aborted THEN b.asked \ b.ok ELSE b.failed
ResolveSelection(b, aborted) ==
  IF aborted THEN b.asked \ b.ok ELSE b.failed \cup b.skipped

\* The end of _run_bulk.
Finish(aborted) ==
  /\ bulk' = NoBulk
  /\ ApplyFilters(all, filter, orphans, ResolveSelection(bulk, aborted), FALSE)
  /\ finished' = [asked |-> bulk.asked, chosen |-> bulk.chosen, ok |-> bulk.ok]
  /\ UNCHANGED <<server, locations, load, spent>>

BulkEnds == bulk.at = "ready" /\ bulk.todo = {} /\ Finish(FALSE) /\ UNCHANGED off

\* The connection fails: nobody tells the page whether the request was served.
BulkAborts ==
  /\ bulk.at \in {"ready", "checked", "done"} /\ bulk.todo # {}
  /\ Finish(TRUE)
  /\ off' = IF bulk.at = "done" THEN off \cup {bulk.now} ELSE off

-----------------------------------------------------------------------------
\* Another user tags, connects, places or deletes a device.
OthersChange ==
  \E d \in Present(dev) :
    /\ spent[2] < MaxChanges
    /\ \/ \E t \in Labels : dev' = [dev EXCEPT ![d] = IF t \in @ THEN @ \ {t} ELSE @ \cup {t}]
                          /\ UNCHANGED <<linked, placed>>
       \/ /\ \A e \in Present(dev) : parent[e] # d
          /\ dev' = [dev EXCEPT ![d] = Nil] /\ linked' = linked \ {d} /\ placed' = placed \ {d}
       \/ \E e \in Present(dev) \ {d} : linked' = linked \cup {d, e} /\ UNCHANGED <<dev, placed>>
       \/ d \notin placed /\ placed' = placed \cup {d} /\ UNCHANGED <<dev, linked>>
    /\ Changed(d) /\ Overtakes(d)
    /\ spent' = [spent EXCEPT ![2] = @ + 1]
    /\ UNCHANGED <<parent, table, locations, finished>>

LoadStep == \E l \in Loads : ServeLoad(l) \/ Devices1(l) \/ LoadFails(l) \/ Placement(l)

TableNext ==
  \/ SetFilter \/ OnTableSelect \/ DeleteOne \/ LoadStep
  \/ AddTag \/ RemoveTag \/ DeleteSelected
  \/ ServeTag \/ ServeRefusal \/ Preflight \/ Skipped \/ ServeDelete
  \/ Settle \/ BulkEnds \/ BulkAborts
  \/ OthersChange

TableSpec == TableInit /\ [][TableNext]_tableVars
\* With the one choice that no user can make.
LocationSpec == TableInit /\ [][TableNext \/ SetLocation]_tableVars

-----------------------------------------------------------------------------
(* Properties.                                                              *)

\* A row tells what the inventory has of its device, with every action and load in any order,
\* unless someone else changed it, before a load or before a late answer, an answer was
\* lost, or a load brought an older copy.
RowsTellInventory ==
  \A d \in Listed \ off : d # bulk.now => all[d] = dev[d]

\* What is left selected after an action was asked for and is not done, and all is left that
\* the action was run on and did not do, as far as the table still shows it: a device that was
\* skipped, refused or never reached stays selected.
\* And no action ever reaches a device that the filters hide when it starts.
SelectionIsLeft ==
  /\ finished # Nil =>
       /\ (finished.chosen \ finished.ok) \cap listing \subseteq selected
       /\ selected \subseteq (finished.asked \ finished.ok) \cap listing
  /\ selected \subseteq listing

\* Does not hold.  HT-031: when devices are selected, the dropdown of the toolbar lists the locations.
LocationsOffered == selected # {} => LocationOptions = Places

\* The table shows what bulk actions and loads have left of the inventory, and
\* what stays selected is what an action did not do (inventory_bulk_actions.py).
TableTellsInventory == TableTypeOK /\ RowsTellInventory /\ SelectionIsLeft

-----------------------------------------------------------------------------
(* The inductive invariant.                                                 *)

\* Until it is told, the row of the device is what it was, or is already what it will be.
RowsInv ==
  LET now == bulk.now
  IN /\ \A l \in Loads : load[l].at = "served" =>
          \A d \in Listed \ load[l].stale : load[l].copy[d] = dev[d]
     /\ \A d \in Listed \ off : d # now \/ bulk.at # "done" => all[d] = dev[d]
     /\ bulk.at = "done" /\ ~bulk.late =>
          /\ bulk.op = "add" => bulk.arg \in dev[now]
          /\ bulk.op = "remove" => bulk.arg \notin dev[now]
          /\ bulk.op \notin {"add", "remove"} => dev[now] = Nil
          /\ now \notin off => OnSuccess(all, bulk, {now})[now] = dev[now]

\* A running action has each of its devices in one place, and no other has ended.
SelectionInv ==
  /\ SelectionIsLeft
  /\ bulk.chosen \subseteq bulk.asked
  /\ bulk.chosen = bulk.todo \cup bulk.ok \cup bulk.failed \cup bulk.skipped
  /\ bulk.ok \cap (bulk.todo \cup bulk.failed \cup bulk.skipped) = {}
  /\ bulk.todo \cap (bulk.failed \cup bulk.skipped) = {}
  /\ bulk.at \in {"checked", "done", "refused"} => bulk.now \in bulk.todo
  /\ bulk.at = "checked" => bulk.op = "delete"
  /\ bulk.at = "idle" <=> bulk.op = "none"
  /\ bulk.at # "idle" => finished = Nil

TableInv == TableTypeOK /\ RowsInv /\ SelectionInv
=============================================================================
