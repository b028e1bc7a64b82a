SPECIFICATION Spec
CONSTANTS
  a = a
  b = b
  d1 = d1
  d2 = d2
  Tabs = {a, b}
  Devices <- MCDevices
  InitialDevices <- MCInitialDevices
  Canvases <- MCOneCanvas
  NoDevice = NoDevice
  Offered = {"load", "save_draft", "discard", "save_version", "restore", "delete_device", "ghost_recreate", "ghost_map"}
  MaxInFlight = 1
  MaxId = 3
  MaxDraftId = 1
  MaxDraftVersion = 2
SYMMETRY MCSymmetry
INVARIANTS
  SerialHistoryHolds
PROPERTIES
  SerialDraftsHold
  SerialCheckpointsHold
