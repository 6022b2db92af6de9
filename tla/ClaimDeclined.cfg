\* The component over a page whose review is a rejection the applicant may answer
CONSTANTS
  Host = {"backend"}
  Subdomain <- NoSubdomains
  Served <- ServedPage
  Native = TRUE
  Launches = FALSE
  Refreshes = TRUE
  Headless = FALSE
  Settings = FALSE
  MaxRuns = 1
  MaxTimers = 1
  MaxRefreshes = 0
  MaxReloads = 0
  MaxPosts = 2
  Seen <- Retryable
SPECIFICATION PageSpec
\* the runs may be spent and the hook unmounted
CHECK_DEADLOCK FALSE
PROPERTIES
  DeclinedIsHeard
