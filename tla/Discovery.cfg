SPECIFICATION Spec
CONSTANTS
  g1 = g1
  g2 = g2
  Nobody = Nobody
  N = 2
  Getters <- MCGetters
  RegTimeout = 2
  Period = 1
  DiscTimeout = 1
  MaxDelay = 1
  MaxTime = 5
  Crashing <- MCCrashing
  HandLists <- MCHandLists
SYMMETRY MCSymmetry
INVARIANTS StaysListed ChosenIsRecent TakesTurns
CHECK_DEADLOCK FALSE
