SPECIFICATION FairSpec
CONSTANTS
  a = a
  b = b
  g = g
  NoCall = NoCall
  Calls <- MCMixed
  SyncCalls <- MCOnlyA
  Deadlined <- MCOnlyA
  BadArgs <- MCOnlyG
  OddReply <- MCNone
  Chans <- MCChans
  DoneOf <- MCShared
  Cap <- MCCapOne
  Faults <- MCAllFaults
  Twice <- MCOnlyA
INVARIANTS TypeOK NoOrphan MatchedReply RequestFrames StreamInSync NoLeak
PROPERTIES OkIsFinal WaitersReleased
CHECK_DEADLOCK FALSE
