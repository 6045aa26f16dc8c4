SPECIFICATION LoopFairSpec
CONSTANTS
  k1 = k1
  k2 = k2
  k3 = k3
  v1 = v1
  NULL = NULL
  Keys = {k1, k2, k3}
  Values = {v1}
  Hash <- MCHash
  SizeModulus = 16
  DEFAULT_START_CAPACITY = 2
  Requests = {1, 3}
  FailingAllocs = {"dict", "resize", "entry", "json"}
CHECK_DEADLOCK FALSE
INVARIANTS
  KeysUnique
  ProbeReachable
  SizeIsEntryCount
  NoNestedResize
PROPERTIES
  LoopsImplementCalls
  CallsEnd
