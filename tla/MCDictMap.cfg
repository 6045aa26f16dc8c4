SPECIFICATION Spec
CONSTANTS
  k1 = k1
  k2 = k2
  k3 = k3
  v1 = v1
  v2 = v2
  NULL = NULL
  Keys = {k1, k2, k3}
  Values = {v1, v2}
  Hash <- MCHash
  SizeModulus = 8
  DEFAULT_START_CAPACITY = 2
  Requests = {0, 1, 3}
  FailingAllocs = {"dict", "resize", "json"}
INVARIANTS
  TypeOK
  RoomForNewKey
  FilledEntriesComplete
PROPERTIES
  CapacityNeverShrinks
  ImplementsMap
