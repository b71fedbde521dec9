SPECIFICATION FairSpec
CONSTANTS
  Periods <- TwoPeriods
  MaxDelay = 2
  MaxTime = 2
INVARIANTS RenewedInTime
PROPERTIES NeverWithdrawn RedirectJustified ServicesComeUp
\* The service may be shut down.
CHECK_DEADLOCK FALSE
