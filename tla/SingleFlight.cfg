SPECIFICATION FairFlightSpec
CONSTANTS
  p1 = p1
  p2 = p2
  p3 = p3
  k1 = k1
  NoCaller = NoCaller
  Goroutines <- MCGoroutines
  FlightKeys <- MCFlightKeys
  Asked <- MCAsked
  MaxChanges = 2
  MayPanic = TRUE
INVARIANTS FlightTypeOK OneFlight NoStaleFlight NotOlderThanFlight WaitersHaveLeader
PROPERTY EveryoneReturns
CHECK_DEADLOCK FALSE
