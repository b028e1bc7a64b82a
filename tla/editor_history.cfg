SPECIFICATION Spec
CONSTANTS
  a = a
  b = b
  d1 = d1
  d2 = d2
  Tabs = {a, b}
  Devices <- MCInitialDevices
  InitialDevices <- MCInitialDevices
  Canvases <- MCOneCanvas
  NoDevice = NoDevice
  Offered = {"load", "save_version", "restore", "delete_device"}
  MaxInFlight = 2
  MaxId = 3
  MaxDraftId = 0
  MaxDraftVersion = 0
SYMMETRY MCSymmetry
INVARIANTS
  CurrentIsKept
  VersionChain
  RestoreFaithful
PROPERTIES
  HistoryAppendOnly
  ImplementsLog
