SPECIFICATION ApiSpec
CONSTANTS
  a = a
  b = b
  d1 = d1
  Tabs = {a, b}
  Scripts = {s}
  Devices <- MCDevices
  InitialDevices <- MCDevices
  Canvases <- MCCanvases
  NoDevice = NoDevice
  Offered = {"save_version", "restore", "delete_device", "ghost_map"}
  MaxInFlight = 2
  MaxId = 2
  MaxDraftId = 0
  MaxDraftVersion = 0
  MaxLayoutVersion = 2
SYMMETRY MCSymmetry
INVARIANTS
  ReferencesHold
