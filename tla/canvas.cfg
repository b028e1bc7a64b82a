SPECIFICATION MCSpec
CONSTANTS
  x1 = x1
  x2 = x2
  x3 = x3
  y1 = y1
  y2 = y2
  z1 = z1
  z2 = z2
  p1 = p1
  p2 = p2
  n1 = n1
  n2 = n2
  None = None
  Off = Off
  Devices = {x1, x2, x3}
  Conns = {y1, y2}
  Infos = {n1, n2}
  Clients = {z1, z2}
  MaxCalls = 3
  DeviceIds = {x1, x2, x3}
  NoDraft = None
  Senders = {z1, z2}
  Absent = None
  Drafts = {y1, y2}
  Requests = {z1, z2}
  Files = {y1, y2}
  Tokens = {p1}
  Layouts = {n1, n2}
  Immutable = {n2}
  DeviceNodes = {y1, y2}
  DraftNodes = {z1, z2}
  NoNode = None
  CanvasDevices = {y1, y2}
  Links = {x1, x2, x3}
  Places = {p1, p2}
  Names = {n1, n2}
  NoId = None
  MaxEntries = 2
  MaxActions = 3
  MaxMoves = 3
  MaxWrites = 2
  MaxSteps = 3
  MaxEdits = 4
  MaxDrags = 2
  MaxAttachments = 1
  MaxVersion = 3
SYMMETRY Symmetry
INVARIANTS
  StacksHold
  GesturesHold
  NestingHolds
  DraftsPublished
  AttachmentsHold
  ConnectionsHold
PROPERTIES
  UndoGivesBack
  ReloadMatchesUndisturbed
CHECK_DEADLOCK FALSE
