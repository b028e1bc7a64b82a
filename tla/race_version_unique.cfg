SPECIFICATION Spec
CONSTANTS
  a = a
  b = b
  d1 = d1
  d2 = d2
  Tabs = {a, b}
  Devices <- MCDevices
  InitialDevices <- MCInitialDevices
  Canvases <- MCCanvases
  NoDevice = NoDevice
  Offered = {"load", "save_version", "restore"}
  MaxInFlight = 2
  MaxId = 3
  MaxDraftId = 0
  MaxDraftVersion = 0
SYMMETRY MCSymmetry
INVARIANTS
  VersionUnique
