CONSTANTS
  Registered <- MCRegistered
  CtorFails <- MCCtorFails
  StrNames <- AllStrNames
SPECIFICATION Spec
INVARIANT CreateMatchesSpec
