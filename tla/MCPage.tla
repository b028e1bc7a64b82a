-------------------------------- MODULE MCPage --------------------------------
(***************************************************************************)
(* The pages for TLC, in one run: the panel of a device, the table of the  *)
(* inventory with its bulk actions, the toolbar of the topology editor,    *)
(* its switch between viewing and editing, and the accounts and sessions   *)
(* that let a user in.  As in MCInventory a behaviour is one of one part;  *)
(* the rest rests.                                                         *)
(***************************************************************************)
EXTENDS Accounts, EditToggle, EditorPage, InventoryPage, DetailPanel, TLC

CONSTANTS x1, x2, y1, y2,   \* the x and the y are symmetric
          x3, p1, p2, t1

VARIABLE part

-----------------------------------------------------------------------------
MCUsers     == {p1, p2}
MCEmails    == {1, 2}
MCPasswords == {1, 2}
MCTokens    == {1, 2}
MCClients   == {y1, y2}

\* Accounts: the first administrator, two of them, one that changes its own, and
\* one that is deleted meanwhile.
Form(email, role, active) ==
  [stage |-> "stored", email |-> email, role |-> role, active |-> active,
   password |-> 1, version |-> 1]
Idle == [ops |-> {}, rows |-> <<>>, forms |-> {}]
MCWorkloads ==
  {Idle,
   [ops |-> {"create", "update"}, rows |-> <<>>,
    forms |-> {Form(1, "Admin", TRUE), Form(2, "Reader", TRUE)}],
   [ops |-> {"delete", "update"},
    rows |-> p1 :> Form(1, "Admin", TRUE) @@ p2 :> Form(2, "Admin", TRUE),
    forms |-> {Form(2, "Reader", TRUE), Form(2, "Admin", TRUE)}],
   [ops |-> {"password", "logout", "update"}, rows |-> p1 :> Form(1, "Admin", TRUE),
    forms |-> {Form(1, "Admin", FALSE)}],
   [ops |-> {"delete", "password", "logout"},
    rows |-> p1 :> Form(1, "Admin", TRUE) @@ p2 :> Form(2, "Admin", TRUE), forms |-> {}]}

allvars == <<part, panelVars, tableVars, editorVars, toggleVars, vars>>

POff == PanelInit /\ \A d \in Devices : inv[d] = Missing
TOff == /\ TableInit /\ dev = [d \in Listed |-> {}] /\ parent = [d \in Listed |-> Nil]
        /\ linked = {} /\ placed = {}
EOff == EditorInit /\ draft = Nothing
BOff == ToggleInit /\ drafts = FALSE
AOff == Init /\ offered = Idle

MCInit ==
  \/ part = "panel"  /\ PanelInit /\ TOff /\ EOff /\ BOff /\ AOff
  \/ part = "table"  /\ TableInit /\ POff /\ EOff /\ BOff /\ AOff
  \/ part = "editor" /\ EditorInit /\ POff /\ TOff /\ BOff /\ AOff
  \/ part = "toggle" /\ ToggleInit /\ POff /\ TOff /\ EOff /\ AOff
  \/ part = "accounts" /\ Init /\ offered # Idle /\ POff /\ TOff /\ EOff /\ BOff

InPanel  == part = "panel"  /\ PanelNext /\ UNCHANGED <<part, tableVars, editorVars, toggleVars, vars>>
InTable  == part = "table"  /\ TableNext /\ UNCHANGED <<part, panelVars, editorVars, toggleVars, vars>>
InEditor == part = "editor" /\ EditorNext /\ UNCHANGED <<part, panelVars, tableVars, toggleVars, vars>>
OnToggle == part = "toggle" /\ ToggleNext /\ UNCHANGED <<part, panelVars, tableVars, editorVars, vars>>
OnAccounts ==
  part = "accounts" /\ Next /\ UNCHANGED <<part, panelVars, tableVars, editorVars, toggleVars>>

MCNext == InPanel \/ InTable \/ InEditor \/ OnToggle \/ OnAccounts

MCSpec == MCInit /\ [][MCNext]_allvars

MCSymmetry == Permutations({x1, x2}) \cup Permutations({y1, y2})
===============================================================================
