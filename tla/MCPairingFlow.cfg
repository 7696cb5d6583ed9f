CONSTANTS
  Mobile = {m1}
  Desktop = {d1, d2, d3}
  Dialable = {d1, d2}
  NoMobile = NoMobile
  NoDesktop = NoDesktop
  MaxAttempts = 2
  m1 = m1
  d1 = d1
  d2 = d2
  d3 = d3
SPECIFICATION FairSpec
INVARIANTS PairedIsHolder ForwardsOnlyToHolder PairedHubWasVerified
PROPERTIES PairedRecordIsStable AttemptsSettle
