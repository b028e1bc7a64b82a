SPECIFICATION MCSpec
CONSTANTS
  a = a
  b = b
  x1 = x1
  x2 = x2
  x3 = x3
  y1 = y1
  y2 = y2
  t1 = t1
  t2 = t2
  v1 = v1
  m1 = m1
  m2 = m2
  l1 = l1
  l2 = l2
  None = None
  Owners = {a, b}
  Homes = {y1, y2}
  Topologies = {t1, t2}
  Views = {v1}
  Names = {"default", "other"}
  Default = "default"
  Unset = None
  Nets = {y1, y2}
  NetworkNames = {m1, m2}
  Ranges <- MCRanges
  Addresses = {0, 2, 9}
  Devices = {t1, t2}
  Askers = {a, b}
  Workloads <- NetLoads
  Clients = {x1, x2, x3}
  BlockSize = 8
  BlocksMost = 4
  DeviceKeys = {x1, x2, x3}
  LocationKeys = {l1, l2}
  NoKey = None
  FirstTables <- MCTables
  MaxWrites = 2
SYMMETRY MCSymmetry
INVARIANTS
  AddressesHold
  
  WorkspacesHold
PROPERTIES
  DeleteTakesNothing
  ImportReplaces
CHECK_DEADLOCK FALSE
