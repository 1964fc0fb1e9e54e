CONSTANTS
  Configs <- MCConfigs
SPECIFICATION Spec
PROPERTY SignalLeadsToExit
CHECK_DEADLOCK FALSE
