SPECIFICATION DeviceSpec
CONSTANTS
  Scenarios = {"fork"}
  Primaries = {p1, p2}
  First = p1
  Bindable = {p1, p2}
  Threads = {t1}
  Challenges = {c1}
  Bodies = {x, y}
  Capacity = 2
  MaxClaims = 1
  MaxLog = 2
  MaxGeneration = 1
  MaxFaults = 1
  Sets <- AllSets
  Registries <- SharedKeys
  Bundles <- AllBundles
  Scopes = {"act", "other"}
  Claims = {c1, c2, c3}
  MaxTime = 3
  p1 = p1  p2 = p2  c1 = c1  c2 = c2  c3 = c3  x = x  y = y
INVARIANT AnchorCoversRecords
CHECK_DEADLOCK FALSE
