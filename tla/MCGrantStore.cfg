CONSTANTS
  Peer = {p1}
  Capability = {read}
  AccessTtl = 2
  RefreshTtl = 4
  MaxTime = 7
  MaxDraws = 4
  p1 = p1
  read = read
SPECIFICATION Spec
INVARIANTS SpentNeverHonoured BoundedLifetime
PROPERTY RevocationIsFinal
