SPECIFICATION Spec
CONSTANTS
  w1 = w1
  w2 = w2
  w3 = w3
  b1 = b1
  b2 = b2
  b3 = b3
  Workers = {w1, w2, w3}
  Blocks = {b1, b2, b3}
  NULL = NULL
  SizeModulus = 3
CHECK_DEADLOCK FALSE
INVARIANTS
  FoundValueValid
