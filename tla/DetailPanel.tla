------------------------------ MODULE DetailPanel ------------------------------
(***************************************************************************)
(* The device panel beside the canvas.                                     *)
(*                                                                         *)
(* A selection, a saved edit and a duplicate each start a refresh: a       *)
(* coroutine that reads the selected device, awaits half a dozen further   *)
(* answers, and then draws the panel anew.  Refreshes are not ordered and  *)
(* none is cancelled.  What the panel draws is bound to the device that    *)
(* the refresh read; "last" is the device that Duplicate copies.           *)
(*                                                                         *)
(* A device has notes, edited in place under its version; a custom field,  *)
(* edited in place without one; and parts: tags, network memberships and   *)
(* attached files.                                                         *)
(***************************************************************************)
EXTENDS Naturals, FiniteSets

CONSTANTS Devices,     \* ids; all but one are in the inventory at first
          Values,      \* of notes and of the custom field
          Tags, Networks, Files,
          Refreshes,   \* refreshes that may be under way
          MaxActs,     \* bound on what the user and others do
          Missing

Parts == Tags \cup Networks \cup Files

VARIABLES inv,        \* inv[d]: the row of d with its parts and field, or Missing
          sel, last,  \* state["device_id"], state["last_device"]
          page,       \* what the panel shows and is bound to, or Missing
          open,       \* the panel is visible
          runs,       \* the refreshes
          req,        \* an edit under way
          copy,       \* a duplication under way
          entry,      \* what the undo stack was told last, with what really was
          typed,      \* typed[d]: notes that d had, or that were typed for it
          acts, hurried, failed, fresh

panelVars == <<inv, sel, last, page, open, runs, req, copy, entry, typed, acts,
          hurried, failed, fresh>>

DeviceRow == [notes : Values, field : Values, parts : SUBSET Parts, version : Nat]
Device == [id : Devices, row : DeviceRow]
NoRefresh == [at |-> "none", id |-> Missing, got |-> Missing]
NoEdit == [at |-> "none", kind |-> "none", id |-> Missing, to |-> Missing, version |-> 0,
           before |-> Missing, was |-> Missing, live |-> FALSE]
NoCopy == [at |-> "none", of |-> Missing, new |-> Missing, tags |-> {}, field |-> FALSE, missed |-> FALSE]

Refresh == [at : {"none", "queued", "asking", "answered", "rest"},
            id : Devices \cup {Missing}, got : Device \cup {Missing}]
Edits == [at : {"none", "sent", "ok", "refused"},
         kind : {"none", "notes", "field", "attach", "detach"}, id : Devices \cup {Missing},
         to : Values \cup Parts \cup {Missing}, version : Nat,
         before : Values \cup {Missing}, was : Values \cup {Missing}, live : BOOLEAN]
Duplication == [at : {"none", "posting", "parts"}, of : Device \cup {Missing},
                new : Devices \cup {Missing}, tags : SUBSET Tags, field : BOOLEAN, missed : BOOLEAN]
Drawn == [id : Devices, notes : Values, before : Values, field : Values,
          parts : SUBSET Parts, version : Nat]

ASSUME PanelAssumption ==
  /\ MaxActs \in Nat
  /\ Missing \notin DeviceRow \cup Devices

PanelTypeOK ==
  /\ inv \in [Devices -> DeviceRow \cup {Missing}]
  /\ sel \in Devices \cup {Missing} /\ last \in Device \cup {Missing}
  /\ page \in Drawn \cup {Missing} /\ open \in BOOLEAN
  /\ runs \in [Refreshes -> Refresh]
  /\ \A r \in Refreshes : /\ runs[r].at = "asking" => runs[r].id \in Devices
                          /\ runs[r].at \in {"answered", "rest"} => runs[r].got \in Device
  /\ req \in Edits
  /\ req.at # "none" =>
       /\ req.id \in Devices /\ req.before \in Values
       /\ \/ req.kind \in {"notes", "field"} /\ req.to \in Values
          \/ req.kind \in {"attach", "detach"} /\ req.to \in Parts
  /\ copy \in Duplication
  /\ copy.at # "none" => copy.of \in Device
  /\ copy.at = "parts" => copy.new \in Devices
  /\ typed \in [Devices -> SUBSET Values]
  /\ hurried \in BOOLEAN /\ failed \in BOOLEAN /\ fresh \in BOOLEAN

\* All but one are in the inventory, or it is empty.
PanelInit ==
  \E here \in {Devices \ {d} : d \in Devices} \cup {{}}, v \in Values :
    /\ inv = [x \in Devices |-> IF x \notin here THEN Missing ELSE
                [notes |-> v, field |-> v, parts |-> {}, version |-> 0]]
    /\ sel = Missing /\ last = Missing /\ page = Missing /\ open = FALSE
    /\ runs = [r \in Refreshes |-> NoRefresh]
    /\ req = NoEdit /\ copy = NoCopy /\ entry = Missing
    /\ typed = [x \in Devices |-> IF x \in here THEN {v} ELSE {}]
    /\ acts = 0 /\ hurried = FALSE /\ failed = FALSE /\ fresh = FALSE

quiet ==
  /\ \A r \in Refreshes : runs[r].at = "none"
  /\ req.at = "none" /\ copy.at = "none"

Count == acts < MaxActs /\ acts' = acts + 1
\* The user acts; hurried: before everything that was under way had ended.
Act == Count /\ hurried' = (hurried \/ ~quiet)

Free(r) == runs[r].at = "none"
\* A refresh is started by its caller, or left to the event loop.
StartRefresh(r, d) == Free(r) /\ runs' = [runs EXCEPT ![r] = [NoRefresh EXCEPT !.at = "asking", !.id = d]]
QueueRefresh(r) == Free(r) /\ runs' = [runs EXCEPT ![r] = [NoRefresh EXCEPT !.at = "queued"]]

-----------------------------------------------------------------------------
(* Selecting.                                                               *)

\* A click on a node; the breadcrumb and the children lead to the same.
Select(d) ==
  /\ inv[d] # Missing /\ Act
  /\ sel' = d
  /\ \E r \in Refreshes : StartRefresh(r, d)
  /\ UNCHANGED <<inv, last, page, open, req, copy, entry, typed, failed, fresh>>

SelectDraft ==
  /\ sel # Missing /\ Act
  /\ sel' = Missing /\ last' = Missing /\ page' = Missing /\ open' = TRUE
  /\ req' = [req EXCEPT !.live = FALSE]
  /\ UNCHANGED <<inv, runs, copy, entry, typed, failed, fresh>>

\* Selecting an edge or the background hides the panel and forgets nothing.
HidePanel ==
  /\ open /\ Act
  /\ open' = FALSE
  /\ UNCHANGED <<inv, sel, last, page, runs, req, copy, entry, typed, failed, fresh>>

Close ==
  /\ open /\ Act
  /\ open' = FALSE /\ sel' = Missing /\ last' = Missing
  /\ UNCHANGED <<inv, page, runs, req, copy, entry, typed, failed, fresh>>

-----------------------------------------------------------------------------
(* Refreshing.                                                              *)

BeginRefresh(r) ==
  /\ runs[r].at = "queued"
  /\ runs' = [runs EXCEPT ![r] = IF sel = Missing THEN NoRefresh
                                 ELSE [NoRefresh EXCEPT !.at = "asking", !.id = sel]]
  /\ UNCHANGED <<inv, sel, last, page, open, req, copy, entry, typed, acts,
                 hurried, failed, fresh>>

\* The attachments come by a GET of their own, after the device's; they are read
\* here with the device, and a failure of that GET alone leaves the list empty.
GetDevice(r) ==
  /\ runs[r].at = "asking" /\ inv[runs[r].id] # Missing
  /\ LET d == runs[r].id
     IN runs' = [runs EXCEPT ![r] = [@ EXCEPT !.at = "answered",
                                              !.got = [id |-> d, row |-> inv[d]]]]
  /\ fresh' = TRUE
  /\ UNCHANGED <<inv, sel, last, page, open, req, copy, entry, typed, acts,
                 hurried, failed>>

\* No device, no answer: the refresh ends and the panel stays as it was.
FetchFails(r) ==
  /\ runs[r].at = "asking"
  /\ runs' = [runs EXCEPT ![r] = NoRefresh]
  /\ failed' = TRUE
  /\ UNCHANGED <<inv, sel, last, page, open, req, copy, entry, typed, acts,
                 hurried, fresh>>

Loaded(r) ==
  /\ runs[r].at = "answered"
  /\ last' = runs[r].got
  /\ runs' = [runs EXCEPT ![r].at = "rest"]
  /\ UNCHANGED <<inv, sel, page, open, req, copy, entry, typed, acts,
                 hurried, failed, fresh>>

\* The rest has been awaited: the rows are drawn, and bound, anew.
Render(r) ==
  LET d == runs[r].got
  IN /\ runs[r].at = "rest"
     /\ page' = [id |-> d.id, notes |-> d.row.notes, before |-> d.row.notes,
                 field |-> d.row.field, parts |-> d.row.parts, version |-> d.row.version]
     /\ open' = TRUE
     /\ req' = [req EXCEPT !.live = FALSE]
     /\ runs' = [runs EXCEPT ![r] = NoRefresh]
     /\ UNCHANGED <<inv, sel, last, copy, entry, typed, acts, hurried, failed, fresh>>

-----------------------------------------------------------------------------
(* Editing.                                                                 *)

\* Variant: an edit goes to the device selected last.
TargetSelected(p) == IF sel = Missing THEN p.id ELSE sel
Target(p) == p.id

Send(kind, v) ==
  req' = [NoEdit EXCEPT !.at = "sent", !.kind = kind, !.id = Target(page), !.to = v,
                        !.version = page.version, !.before = page.before, !.live = TRUE]

\* Saving what the row was drawn with asks for nothing and counts as saved.
SaveNotes(v) ==
  /\ open /\ page # Missing /\ req.at = "none" /\ Act
  /\ typed' = [typed EXCEPT ![page.id] = @ \cup {v}]
  /\ \/ /\ v # page.before /\ Send("notes", v)
        /\ UNCHANGED <<page, runs>>
     \/ /\ v = page.before /\ page' = [page EXCEPT !.notes = v]
        /\ \E r \in Refreshes : QueueRefresh(r)
        /\ UNCHANGED req
  /\ UNCHANGED <<inv, sel, last, open, copy, entry, failed, fresh>>

SaveField(v) ==
  /\ open /\ page # Missing /\ req.at = "none" /\ Act
  /\ Send("field", v)
  /\ UNCHANGED <<inv, sel, last, page, open, runs, copy, entry, typed, failed, fresh>>

Toggle(x) ==
  /\ open /\ page # Missing /\ req.at = "none" /\ Act
  /\ Send(IF x \in page.parts THEN "detach" ELSE "attach", x)
  /\ UNCHANGED <<inv, sel, last, page, open, runs, copy, entry, typed, failed, fresh>>

ChangeTag(t) == Toggle(t)
ChangeNetwork(n) == Toggle(n)
ChangeFile(f) == Toggle(f)

\* Variant: the version is not compared.
VersionAgreesNot(q, row) == TRUE
VersionAgrees(q, row) == q.version = row.version

\* PATCH of a device quotes its version; fields and parts are written blindly.
Edited(q, row) ==
  CASE q.kind = "notes"  -> [row EXCEPT !.notes = q.to, !.version = @ + 1]
    [] q.kind = "field"  -> [row EXCEPT !.field = q.to]
    [] q.kind = "attach" -> [row EXCEPT !.parts = @ \cup {q.to}]
    [] q.kind = "detach" -> [row EXCEPT !.parts = @ \ {q.to}]

Serve ==
  LET row == inv[req.id]
  IN /\ req.at = "sent" /\ row # Missing
     /\ req.kind = "notes" => VersionAgrees(req, row)
     /\ inv' = [inv EXCEPT ![req.id] = Edited(req, row)]
     /\ req' = [req EXCEPT !.at = "ok", !.was = row.notes]
     /\ UNCHANGED <<sel, last, page, open, runs, copy, entry, typed, acts,
                    hurried, failed, fresh>>

\* EditRefused, or the answer is lost after the server obeyed.
EditFails ==
  /\ req.at \in {"sent", "ok"}
  /\ req' = [req EXCEPT !.at = "refused"]
  /\ failed' = TRUE
  /\ UNCHANGED <<inv, sel, last, page, open, runs, copy, entry, typed, acts,
                 hurried, fresh>>

EditRefused ==
  /\ req.at = "refused"
  /\ req' = NoEdit
  /\ UNCHANGED <<inv, sel, last, page, open, runs, copy, entry, typed, acts,
                 hurried, failed, fresh>>

\* Variant: only the notes ask for a refresh.
RefreshesNot(kind) == kind = "notes"
\* The custom field changes its own label and nothing else.
RefreshesAfter(kind) == kind # "field"

\* The row shows what it saved, if it is still there; for the notes, an entry
\* that undoes the save goes on the stack.
Saved ==
  /\ req.at = "ok"
  /\ req' = NoEdit
  /\ page' = IF ~req.live \/ page = Missing THEN page
             ELSE CASE req.kind = "notes" ->
                         [page EXCEPT !.notes = req.to, !.version = req.version + 1]
                    [] req.kind = "field" -> [page EXCEPT !.field = req.to]
                    [] OTHER -> page
  /\ entry' = IF req.kind = "notes" /\ ~hurried /\ ~failed
              THEN [before |-> req.before, was |-> req.was] ELSE Missing
  /\ IF RefreshesAfter(req.kind) THEN \E r \in Refreshes : QueueRefresh(r) ELSE UNCHANGED runs
  /\ UNCHANGED <<inv, sel, last, open, copy, typed, acts, hurried, failed, fresh>>

-----------------------------------------------------------------------------
(* Duplicating: the device, then its tags and fields one call each.         *)

Duplicate ==
  /\ open /\ last # Missing /\ copy.at = "none" /\ Act
  /\ copy' = [NoCopy EXCEPT !.at = "posting", !.of = last, !.tags = last.row.parts \cap Tags, !.field = TRUE]
  /\ UNCHANGED <<inv, sel, last, page, open, runs, req, entry, typed, failed, fresh>>

\* The field of a device without one is worth nothing: some other value.
PostCopy ==
  /\ copy.at = "posting"
  /\ \E d \in Devices, none \in Values :
       /\ inv[d] = Missing /\ typed[d] = {}
       /\ inv' = [inv EXCEPT ![d] = [notes |-> copy.of.row.notes, field |-> none,
                                     parts |-> {}, version |-> 0]]
       /\ typed' = [typed EXCEPT ![d] = {copy.of.row.notes}]
       /\ copy' = [copy EXCEPT !.at = "parts", !.new = d]
  /\ UNCHANGED <<sel, last, page, open, runs, req, entry, acts, hurried, failed, fresh>>

PostRefused ==
  /\ copy.at = "posting"
  /\ copy' = NoCopy /\ failed' = TRUE
  /\ UNCHANGED <<inv, sel, last, page, open, runs, req, entry, typed, acts, hurried, fresh>>

CopyTag(t) ==
  /\ copy.at = "parts" /\ t \in copy.tags /\ inv[copy.new] # Missing
  /\ inv' = [inv EXCEPT ![copy.new].parts = @ \cup {t}]
  /\ copy' = [copy EXCEPT !.tags = @ \ {t}]
  /\ UNCHANGED <<sel, last, page, open, runs, req, entry, typed, acts, hurried, failed, fresh>>

CopyField ==
  /\ copy.at = "parts" /\ copy.tags = {} /\ copy.field /\ inv[copy.new] # Missing
  /\ inv' = [inv EXCEPT ![copy.new].field = copy.of.row.field]
  /\ copy' = [copy EXCEPT !.field = FALSE]
  /\ UNCHANGED <<sel, last, page, open, runs, req, entry, typed, acts, hurried, failed, fresh>>

\* A part that fails is logged and passed over.
PartFails ==
  /\ copy.at = "parts"
  /\ \/ \E t \in copy.tags : copy' = [copy EXCEPT !.tags = @ \ {t}, !.missed = TRUE]
     \/ copy.tags = {} /\ copy.field /\ copy' = [copy EXCEPT !.field = FALSE, !.missed = TRUE]
  /\ UNCHANGED <<inv, sel, last, page, open, runs, req, entry, typed, acts, hurried, failed, fresh>>

\* The copy becomes the selection, whatever was selected meanwhile.
ShowCopy ==
  /\ copy.at = "parts" /\ copy.tags = {} /\ ~copy.field
  /\ copy' = NoCopy
  /\ sel' = copy.new
  /\ \E r \in Refreshes : StartRefresh(r, copy.new)
  /\ UNCHANGED <<inv, last, page, open, req, entry, typed, acts, hurried, failed, fresh>>

-----------------------------------------------------------------------------
(* Other users.                                                             *)

OthersEdit(d) ==
  /\ inv[d] # Missing /\ Count
  /\ \/ \E v \in Values : /\ inv' = [inv EXCEPT ![d] = [inv[d] EXCEPT !.notes = v, !.version = @ + 1]]
                          /\ typed' = [typed EXCEPT ![d] = @ \cup {v}]
     \/ inv' = [inv EXCEPT ![d] = Missing] /\ UNCHANGED typed
  /\ fresh' = FALSE
  /\ UNCHANGED <<sel, last, page, open, runs, req, copy, entry, hurried, failed>>

PanelNext ==
  \/ \E d \in Devices : Select(d) \/ OthersEdit(d)
  \/ SelectDraft \/ HidePanel \/ Close
  \/ \E r \in Refreshes :
       BeginRefresh(r) \/ GetDevice(r) \/ FetchFails(r) \/ Loaded(r) \/ Render(r)
  \/ \E v \in Values : SaveNotes(v) \/ SaveField(v)
  \/ \E t \in Tags : ChangeTag(t) \/ CopyTag(t)
  \/ \E n \in Networks : ChangeNetwork(n)
  \/ \E f \in Files : ChangeFile(f)
  \/ Serve \/ EditFails \/ EditRefused \/ Saved
  \/ Duplicate \/ PostCopy \/ PostRefused \/ CopyField \/ PartFails \/ ShowCopy

PanelSpec == PanelInit /\ [][PanelNext]_panelVars

-----------------------------------------------------------------------------
\* However refreshes and saves overtake each other, a device's notes are ones
\* that it was given by others or that were typed while the panel showed it.
EditsLandWhereShown ==
  \A d \in Devices : inv[d] # Missing => inv[d].notes \in typed[d]

\* An undo entry remembers the notes as they were in the inventory just before
\* the save, for a user who lets the panel settle between two actions, and for
\* as long as no call failed: of a save whose refresh fails the panel keeps the
\* new version and the old notes.
EntriesTellWhatWas ==
  entry # Missing => entry.before = entry.was

\* Such a user, when no call failed and nobody else wrote since the last read,
\* sees the selected device as the inventory has it.
PanelSettles ==
  quiet /\ ~hurried /\ ~failed /\ fresh /\ page # Missing =>
    LET row == inv[page.id]
    IN /\ row # Missing
       /\ page.notes = row.notes /\ page.field = row.field /\ page.parts = row.parts
       /\ sel # Missing => page.id = sel /\ last.id = sel

\* Does not hold.  HT-041: "all custom field key-value pairs are copied to the new device".
DuplicateCopiesFields ==
  /\ copy.at = "parts" /\ copy.tags = {} /\ ~copy.field /\ ~copy.missed
  /\ ~hurried /\ ~failed /\ fresh
  => inv[copy.new].field = inv[copy.of.id].field

\* An edit goes to the device that the panel shows, its undo entry remembers what
\* was there before, and the panel ends up showing the device that is selected
\* (device_detail_panel.py and the sections of the panel).
PanelHolds == PanelTypeOK /\ EditsLandWhereShown /\ EntriesTellWhatWas /\ PanelSettles

-----------------------------------------------------------------------------
(* The inductive invariant.                                                 *)

\* Notes are told apart by the version: of two readings the later has the higher one.
Seen(d, v, n) ==
  /\ typed[d] # {}
  /\ inv[d] # Missing => v <= inv[d].version /\ (v = inv[d].version => n = inv[d].notes)

NotesInv ==
  /\ EditsLandWhereShown /\ EntriesTellWhatWas
  /\ \A d \in Devices : inv[d] # Missing => typed[d] # {}
  /\ req.at = "sent" /\ req.kind = "notes" => req.to \in typed[req.id]
  /\ \A r \in Refreshes : runs[r].at \in {"answered", "rest"} =>
       Seen(runs[r].got.id, runs[r].got.row.version, runs[r].got.row.notes)

\* Nothing is left behind by a user who lets the panel settle.
OneAtATime ==
  ~hurried =>
    /\ \A r, s \in Refreshes : ~Free(r) /\ ~Free(s) => r = s
    /\ req.at # "none" \/ copy.at # "none" => \A r \in Refreshes : Free(r)
    /\ req.at = "none" \/ copy.at = "none"

\* The panel has what the inventory has of the parts it drew; notes and field apart.
Same(row, notes, field) ==
  row # Missing /\ row.notes = notes /\ row.field = field /\ row.parts = page.parts

\* Then a refresh is of what is selected, and between refreshes the panel is that device's.
RefreshInv ==
  ~hurried /\ ~failed => \A r \in Refreshes :
    /\ ~Free(r) => sel # Missing
    /\ runs[r].at = "asking" => runs[r].id = sel
    /\ runs[r].at \in {"answered", "rest"} =>
         runs[r].got.id = sel /\ (fresh => inv[sel] = runs[r].got.row)
    /\ runs[r].at = "rest" => last = runs[r].got

DrawnInv ==
  ~hurried /\ ~failed /\ copy.at = "none" /\ (\A r \in Refreshes : Free(r)) /\ page # Missing =>
    /\ sel # Missing => page.id = sel /\ last.id = sel
    /\ open => sel # Missing
    /\ req.at # "none" => open /\ req.live /\ req.id = page.id /\ req.at # "refused"
    /\ req.at = "sent" => req.before = page.before /\ req.version = page.version
    /\ req.at = "ok" /\ req.kind = "notes" => req.was = req.before
    /\ req.at # "ok" \/ req.kind = "field" => Seen(page.id, page.version, page.before)
    /\ fresh =>
         /\ req.at # "ok" => Same(inv[page.id], page.notes, page.field)
         /\ req.at = "ok" /\ req.kind = "field" => Same(inv[page.id], page.notes, req.to)

\* An edit is of a panel that is shown.
EditInv ==
  ~hurried /\ ~failed /\ req.at # "none" => page # Missing

PanelInv ==
  PanelTypeOK /\ NotesInv /\ OneAtATime /\ RefreshInv /\ DrawnInv /\ EditInv
===============================================================================
