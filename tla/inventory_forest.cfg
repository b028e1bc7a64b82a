SPECIFICATION Spec
CONSTANTS
  Devices = {d1, d2}
  Locations = {l1}
  Clients = {a, b}
  Spare = {}
  None = None
  Workloads = {{"move_device"}}
  MaxVersion = 3
INVARIANTS
  NoContainmentCycle
CHECK_DEADLOCK FALSE
