SPECIFICATION FairSpec
CONSTANTS
  a = a
  b = b
  NoCall = NoCall
  Calls <- MCPair
  SyncCalls <- MCPair
  Deadlined <- MCOnlyA
  BadArgs <- MCNone
  OddReply <- MCNone
  Chans <- MCPair
  DoneOf <- MCOwnChannel
  Cap <- MCCapOne
  Faults <- MCNone
  Unknown <- MCNone
  Mistyped <- MCNone
  Failing <- MCNone
  BadResult <- MCNone
  HandleTimeout = TRUE
  OverRead = 2
  MayDrop = FALSE
PROPERTY EveryCallReturns
CHECK_DEADLOCK FALSE
