\* Three tasks, two cancellations; the semaphore has one unit.
CONSTANTS
  Tasks = {t1, t2, t3}
  Nobody = Nobody
  MaxCancels = 2
  Uses <- MCUses
  Units = 1
SPECIFICATION Spec
INVARIANTS ScheduledOnce LocksInv
PROPERTIES GrantedInOrder AcquireReturns
CHECK_DEADLOCK FALSE
