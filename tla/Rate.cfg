\* Three windows fit; two clients on two routes make four
CONSTANTS
  Client = {c1, c2}
  token = token
  webhook = webhook
  Limit <- Limits
  WindowMs = 2
  MaxWindows = 3
  MaxTime = 5
SPECIFICATION RateSpec
SYMMETRY AnyClient
\* the clock is bounded
CHECK_DEADLOCK FALSE
INVARIANTS
  RateTypeOK
  WindowsAreBounded
  TwiceTheLimit
  NobodyIsRefusedEarly
