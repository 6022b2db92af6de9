\* The browser component: its buttons, and a page that completes more than once
\* and lets its token expire twice
CONSTANTS
  Native = FALSE
  Launches = FALSE
  Refreshes = TRUE
  Headless = FALSE
  Settings = FALSE
  MaxRuns = 2
  MaxTimers = 2
  MaxRefreshes = 2
SPECIFICATION HookSpec
\* the runs may be spent and the hook unmounted
CHECK_DEADLOCK FALSE
INVARIANTS
  NothingAfterUnmount
PROPERTIES
  NewestSessionWins
  TokensInOrder
