\* Two calls of call_soon(), stop() or run_until_complete(), two moments.
CONSTANTS
  k1 = k1
  k2 = k2
  work = work
  Timers = {k1, k2}
  Works = {work}
  None = None
  Scenarios <- MCScenarios
  MaxCalls = 2
  MaxTime = 1
SPECIFICATION Spec
INVARIANTS StopIsExact SameOutcome
PROPERTIES TimersInOrder NothingOverslept
CHECK_DEADLOCK FALSE
