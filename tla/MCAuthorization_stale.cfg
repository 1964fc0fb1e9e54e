CONSTANTS
  t1 = t1
  t2 = t2
  Malformed = Malformed
  DefaultId = DefaultId
  NoHolder = NoHolder
  NoPayload = NoPayload
  TokenSets <- MCTokenSets
  Payloads <- MCPayloads
SPECIFICATION Spec
INVARIANT WatchedTokensCurrent
