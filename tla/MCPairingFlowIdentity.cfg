CONSTANTS
  Mobile = {m1, m2}
  Desktop = {d1, d2}
  Dialable = {d1, d2}
  NoMobile = NoMobile
  NoDesktop = NoDesktop
  MaxAttempts = 2
  m1 = m1
  m2 = m2
  d1 = d1
  d2 = d2
SPECIFICATION Spec
INVARIANT PairedIdentityIsIssuer
