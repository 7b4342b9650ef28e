\* Two callers, two failures, a clock that sees tokens expire.
SPECIFICATION FairSpec
CONSTANTS
  c1 = c1
  c2 = c2
  Callers = {c1, c2}
  Nobody = Nobody
  TimeToLive = 5
  Skew = 2
  AuthLag = 1
  ApiLag = 1
  Attempts = 2
  MaxTime = 8
  MaxFaults = 2
INVARIANTS TokensLive NoNeedlessLogin
PROPERTIES CallsReturn
