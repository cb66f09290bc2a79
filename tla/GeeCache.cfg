SPECIFICATION FairSpec
CONSTANTS
  n1 = n1
  n2 = n2
  k1 = k1
  k2 = k2
  c1 = c1
  c2 = c2
  Nobody = Nobody
  Pending = Pending
  Error = Error
  Nodes <- MCNodes
  Keys <- MCKeys
  Callers <- MCCallers
  Changing <- MCChanging
  Failing <- MCFailing
  MaxVersion = 1
  SizeOf <- MCSizeOf
  MaxBytes = 5
  Replicas = 2
  Hash <- MCHash
  InitLists <- MCInitLists
  NextLists <- MCNextLists
  MaxSets = 1
INVARIANTS ByteCount RightValue DeadlockNeedsSplit
PROPERTIES EveryGetReturns
CHECK_DEADLOCK FALSE
