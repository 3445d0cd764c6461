SPECIFICATION FairSpec
CONSTANTS
  Task = {t1, t2, t3}
  MaxInFlight = 2
  MaxWaiters = 1
  Limits = {0}
  MaxRounds = 1
  MaxLimitChanges = 1
INVARIANTS GateCounts NoStrandedWaiter
PROPERTIES CheckoutAnswered ImplementsAdmission
