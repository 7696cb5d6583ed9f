CONSTANTS
  Noise = "noise"
  Garbage = Garbage
  Transfer = {t1, t2}
  Payload <- MCPayload
  ChunkBytes = 2
  MaxPayload = 4
  MaxFragments = 3
  MaxNotifications = 4
  Handoff = {h1, h2, h3}
  Ref = {"r1", "r2"}
  Content <- MCContent
  MaxBytes = 2
  MaxEntries = 1
  MaxTime = 3
  Putter = {p1, p2}
  Getter = {g1}
  Writer = {w1, w2}
  Reader = {q1}
  Identity = {i1}
  Session = {s1}
  Record <- MCRecord
  MaxTtl = 3
  MaxSkew = 1
  MaxCandidates = 1
  MaxRecordBytes <- MCRecordBytes
  Limit <- MCLimit
  Window = 2
  SessionCap = 1
  StoreCap = 3
  MaxDeletes = 1
  MaxClock = 3
  LanCall = {c1, c2}
  Node = {d1}
  MaxListeners = 9
  MaxFailedStops = 2
  Launch = {n1, n2}
  Key = {k1, k2, k3}
  NoKey = NoKey
  c1 = c1
  c2 = c2
  d1 = d1
  n1 = n1
  n2 = n2
  k1 = k1
  k2 = k2
  k3 = k3
  t1 = t1
  t2 = t2
  h1 = h1
  h2 = h2
  h3 = h3
  p1 = p1
  p2 = p2
  g1 = g1
  w1 = w1
  w2 = w2
  q1 = q1
  i1 = i1
  s1 = s1
SPECIFICATION MCSpec
INVARIANTS ReceivedWasSent AcceptedOnce NewestStands SignalingBounded RateKept StoppedIsSilent NeverCorrupt
PROPERTY CleanTransferArrives
CHECK_DEADLOCK FALSE
