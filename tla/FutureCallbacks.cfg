CONSTANTS
  t1 = t1
  t2 = t2
  t3 = t3
  f1 = f1
  f2 = f2
  late = late
  forward = forward
  fail = fail
  late2 = late2
  soon = soon
  Threads = {t1, t2, t3}
  Futures = {f1, f2}
  Calls <- MCCalls
  Effect <- MCEffect
  Nothing = None
  Nobody = Nobody
SPECIFICATION Spec
PROPERTIES UntimedWaitsForDone CallsReturn ImplementsPromise
