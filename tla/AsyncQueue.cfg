\* Four tasks, a queue of one item, two cancellations.
CONSTANTS
  Tasks = {t1, t2, t3, t4}
  Nobody = Nobody
  MaxCancels = 2
  Roles <- MCRoles
  MaxSize = 1
  Nothing = Nothing
SPECIFICATION Spec
INVARIANTS NobodyWaitsInVain JoinedMeansProcessed
PROPERTIES ImplementsChannel ReleasedCallsReturn
CHECK_DEADLOCK FALSE
