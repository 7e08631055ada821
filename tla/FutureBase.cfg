\* One future, two executors, four registrations; and three futures, two errors.
CONSTANTS
  f1 = f1
  f2 = f2
  e1 = e1
  e2 = e2
  Futures = {f1, f2, f3}
  Values = {v}
  Errors = {e1, e2}
  Functions = {a, b}
  Executors = {loop, pool}
  Default = loop
  Nothing = None
  MaxRegs = 4
SPECIFICATION MCSpec
INVARIANTS FutureInv
PROPERTIES RunsInOrder ImplementsPromise UnreadErrorsReported
CHECK_DEADLOCK FALSE
