CONSTANTS
  HeaderBytes = 2
  Radix = 2
  Payload <- MCPayload
  SendLimit = 3
  ReceiveLimit = 2
  MaxWrites = 3
  Opener = opener
  Accepter = accepter
  Alpn = {app1, app2}
  HelloParts = 3
  MaxData = 2
  Starter = {s1, s2}
  Stopper = {t1, t2}
  Forwarder = {f1, f2}
  OnlyStart = s1
  OnlyStop = t1
  MaxReads = 4
  MaxFrames = 4
  NoDial = NoDial
  Lists <- MCLists
  NoId = ""
  NoRelay = NoRelay
  opener = opener
  accepter = accepter
  app1 = app1
  app2 = app2
  s1 = s1
  s2 = s2
  t1 = t1
  t2 = t2
  f1 = f1
  f2 = f2
SPECIFICATION MCSpec
INVARIANTS NoByteLost CleanEndIsWhole OpenOnlyOnAgreement NothingSwallowed OneTargetForAll FramesAccounted StopReachesForwarders StateTellsBridge
PROPERTIES ImplementsChannel NoMutualWait CloseWakesReaders
CHECK_DEADLOCK FALSE
