SPECIFICATION FairSpec
CONSTANTS
  a = a
  b = b
  g = g
  NoCall = NoCall
  Calls <- MCThree
  Unknown <- MCNone
  Mistyped <- MCOnlyB
  Failing <- MCOnlyA
  BadResult <- MCOnlyG
  HandleTimeout = TRUE
  OverRead = 2
  ServerFaults <- MCAllFaults
INVARIANTS ResponseFrames HonestResponse OneResponse AnsweredBeforeClose
PROPERTIES EveryRequestEnds ClosesInTheEnd
CHECK_DEADLOCK FALSE
