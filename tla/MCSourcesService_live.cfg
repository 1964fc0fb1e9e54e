CONSTANTS
  n1 = n1
  n2 = n2
  c1 = c1
  c2 = c2
  Malformed = Malformed
  NoUnit = NoUnit
  NoOwner = NoOwner
  Nodes <- MCNodes
  Callers <- MCCallers
  NodeOf <- MCNodeOf
  SourceNames <- MCSourceNames
  Collections <- MCCollections
  Registered <- MCRegistered
  CtorFails <- MCCtorFails
  Payloads <- SyncPayloads
  InitialPayload <- PayloadAB
  PoolSize = 1
SPECIFICATION Spec
INVARIANT TypeOK
INVARIANT SyncErrorsPerCollection
PROPERTY SyncReturns
PROPERTY ImplementsCollectionLock
