\* The React Native component over a Sumsub or a mock page
CONSTANTS
  Host = {"backend"}
  Subdomain <- NoSubdomains
  Served <- ServedPage
  Native = TRUE
  Launches = FALSE
  Refreshes = TRUE
  Headless = FALSE
  Settings = FALSE
  MaxRuns = 1
  MaxTimers = 1
  MaxRefreshes = 1
  MaxReloads = 1
  MaxPosts = 2
  Seen <- EveryKind
SPECIFICATION PageSpec
\* the runs may be spent and the hook unmounted
CHECK_DEADLOCK FALSE
INVARIANTS
  PageTypeOK
  OutcomeIsTheVerdict
PROPERTIES
  TokenArrives
  VerdictReachesHost
