SPECIFICATION Spec
CONSTANTS
  root = root
  db = db
  none = none
  Paths = {root, db}
  Root = root
  NoPath = none
  Methods = {"GET", "PUT"}
  MAX_ROUTES_AMOUNT = 2
CHECK_DEADLOCK FALSE
INVARIANTS
  StoredInArray
