SPECIFICATION Spec
CONSTANTS
  MAX_ENV_FILE_LINE_LEN = 10
  Inputs <- MCInputs
  Unsettable <- MCUnsettable
CHECK_DEADLOCK FALSE
INVARIANTS
  LineByLine
  FailureReported
PROPERTIES
  ExistingKept
