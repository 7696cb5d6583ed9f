CONSTANTS
  Peer = {p1, p2}
  NoPeer = NoPeer
  Capability = {read}
  AccessTtl = 1
  RefreshTtl = 2
  Ttl = 2
  MaxAttempts = 5
  MaxConcurrent = 2
  MaxTime = 3
  MaxDraws = 2
  MaxRefs = 2
  p1 = p1
  p2 = p2
  read = read
SPECIFICATION Spec
INVARIANTS RedeemedOnce TablesAgree
PROPERTY ImplementsInvitation
