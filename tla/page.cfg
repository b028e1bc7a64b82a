SPECIFICATION MCSpec
CONSTANTS
  x1 = x1
  x2 = x2
  x3 = x3
  y1 = y1
  y2 = y2
  p1 = p1
  p2 = p2
  t1 = t1
  None = None
  Nil = Nil
  Missing = Missing
  Devices = {x1, x2, x3}
  Values = {y1, y2}
  Tags = {t1}
  Networks = {p1}
  Files = {p2}
  Refreshes = {p1, p2}
  Listed = {y1, y2}
  Labels = {t1}
  Places = {p1}
  Loads = {p1}
  Nothing = Nothing
  Tasks = {y1, y2}
  Users <- MCUsers
  Emails <- MCEmails
  Passwords <- MCPasswords
  Tokens <- MCTokens
  Clients <- MCClients
  Workloads <- MCWorkloads
  MaxVersion = 3
  MaxActs = 4
  MaxBulks = 1
  MaxEdits = 1
  MaxChanges = 1
  MaxVersions = 4
  MaxClicks = 5
  MaxToolbarClicks = 4
SYMMETRY MCSymmetry
INVARIANTS
  PanelHolds
  TableTellsInventory
  EditorPageHolds
  ButtonHolds
  SessionsHold
PROPERTIES
  DeleteLeavesAdmin
CHECK_DEADLOCK FALSE
