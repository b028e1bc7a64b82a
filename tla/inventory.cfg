SPECIFICATION MCSpec
CONSTANTS
  d1 = d1
  d2 = d2
  d3 = d3
  l1 = l1
  l2 = l2
  a = a
  b = b
  s1 = s1
  s2 = s2
  s3 = s3
  n1 = n1
  n2 = n2
  Nowhere = Nowhere
  Off = Off
  None = None
  Devices <- MCDevices
  Locations <- MCLocations
  Hosts = {d1, d2}
  ServiceIds = {s1, s2, s3}
  ServiceNames = {n1, n2}
  Callers = {a, b}
  Loads <- ServiceLoads
  Clients <- MCClients
  Workloads <- MCWorkloads
  Spare <- MCSpare
  MaxVersion = 3
  PageLimit = 1
  MaxChanges = 2
SYMMETRY MCSymmetry
INVARIANTS
  InventoryHolds
  ServicesHold
  LoadShowsTheView
PROPERTIES
  CircleNeedsOverlap
  FreshCommitsHold
CHECK_DEADLOCK FALSE
