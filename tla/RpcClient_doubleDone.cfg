SPECIFICATION Spec
CONSTANTS
  a = a
  b = b
  g = g
  NoCall = NoCall
  Calls <- MCPair
  SyncCalls <- MCPair
  Deadlined <- MCOnlyA
  BadArgs <- MCOnlyA
  OddReply <- MCNone
  Chans <- MCPair
  DoneOf <- MCOwnChannel
  Cap <- MCCapOne
  Faults <- MCNone
  Twice <- MCNone
INVARIANT DoneOnce
CHECK_DEADLOCK FALSE
