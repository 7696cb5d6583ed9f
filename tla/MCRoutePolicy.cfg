CONSTANTS
  Operation = {o1}
  Route = {r1, r2, r3}
  MaxRace = 2
  MaxAttempts = 2
  Threshold = 2
  NoRoute = NoRoute
  o1 = o1
  r1 = r1
  r2 = r2
  r3 = r3
SPECIFICATION FairSpec
CHECK_DEADLOCK FALSE
INVARIANTS AuthIsTerminal FailureLeavesNothing
PROPERTIES LostSessionsAreClosed EveryOperationSettles
