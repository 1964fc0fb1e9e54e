CONSTANTS
  Configs <- MCConfigs
SPECIFICATION Spec
INVARIANT SourcesPoolBounded
CHECK_DEADLOCK FALSE
