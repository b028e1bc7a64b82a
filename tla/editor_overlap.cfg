SPECIFICATION Spec
CONSTANTS
  a = a
  b = b
  d1 = d1
  d2 = d2
  Tabs = {a, b}
  Devices <- MCDevices
  InitialDevices <- MCInitialDevices
  Canvases <- MCOneCanvas
  NoDevice = NoDevice
  Offered = {"save_draft", "save_version", "delete_device", "ghost_recreate"}
  MaxInFlight = 2
  MaxId = 2
  MaxDraftId = 2
  MaxDraftVersion = 2
SYMMETRY MCSymmetry
PROPERTIES
  DeletedStaysDeleted
  DraftRowNotReplaced
