\* The React Native component over an SDK, beside a second component that
\* shares its source and its tokens
CONSTANTS
  Native = TRUE
  Launches = TRUE
  Refreshes = FALSE
  Headless = FALSE
  Settings = TRUE
  MaxRuns = 2
  MaxTimers = 2
  MaxRefreshes = 0
SPECIFICATION FlowSpec
\* the runs may be spent and the hook unmounted
CHECK_DEADLOCK FALSE
INVARIANTS
  FlowTypeOK
  OneSessionPerAttempt
  OneSdkOnScreen
PROPERTIES
  ApprovalReachesHost
  AdvisorySettlement
  NoDeadScreen
