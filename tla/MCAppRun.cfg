SPECIFICATION FairSpec
CONSTANTS
  unset = unset
  Unset = unset
  HOST_DEFAULT = "127.0.0.1"
  PORT_DEFAULT = 8000
  MAXINPUT_LEN = 3
  Inputs <- MCInputs
  LevelNames <- MCLevelNames
  BadHosts = {"bad"}
  FailingCalls = {"dict_new", "cache", "routes", "socket", "bind", "listen", "create", "detach"}
CHECK_DEADLOCK FALSE
INVARIANTS
  LaterSourcesWin
  ReadyBeforeServing
  OnlyStopStops
PROPERTIES
  SettingsFrozen
  StopStops
