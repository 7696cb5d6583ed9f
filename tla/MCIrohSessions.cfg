CONSTANTS
  Session = {s1, s2}
  Dial = {d1}
  MaxSessions = 1
  s1 = s1
  s2 = s2
  d1 = d1
SPECIFICATION FairNodeSpec
CHECK_DEADLOCK FALSE
INVARIANTS SlotBound CountedWhileOpen
PROPERTIES CloseLeavesNothing EveryoneGetsATurn
