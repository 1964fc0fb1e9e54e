CONSTANTS
  n1 = n1
  n2 = n2
  c1 = c1
  c2 = c2
  Malformed = Malformed
  NoUnit = NoUnit
  NoOwner = NoOwner
  Nodes = {n1}
  Callers = {c1, c2}
  NodeOf <- OneNodeOf
  SourceNames <- MCSourceNames
  Collections <- MCCollections
  Registered <- MCRegistered
  CtorFails <- MCCtorFails
  Payloads <- ReloadPayloads
  InitialPayload <- PayloadNone
  PoolSize = 2
SPECIFICATION Spec
INVARIANT RegistryMatchesConfig
