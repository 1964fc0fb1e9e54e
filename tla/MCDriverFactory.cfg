CONSTANTS
  Registered <- MCRegistered
  CtorFails <- MCCtorFails
  StrNames <- PassStrNames
SPECIFICATION Spec
INVARIANT CreateMatchesSpec
