SPECIFICATION FairSpec
CONSTANTS
  a = a
  b = b
  NoCall = NoCall
  Calls <- MCPair
  SyncCalls <- MCPair
  Deadlined <- MCOnlyA
  BadArgs <- MCNone
  OddReply <- MCNone
  Chans <- MCPair
  DoneOf <- MCOwnChannel
  Cap <- MCCapOne
  Faults <- MCNone
  Unknown <- MCNone
  Mistyped <- MCNone
  Failing <- MCOnlyB
  BadResult <- MCNone
  HandleTimeout = TRUE
  OverRead = 0
  MayDrop = TRUE
INVARIANT SeqAgreement
PROPERTIES CallsPromise EveryCallReturns
CHECK_DEADLOCK FALSE
