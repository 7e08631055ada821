CONSTANTS
  t1 = t1
  t2 = t2
  t3 = t3
  a = a
  b = b
  c = c
  d = d
  n = n
  k1 = k1
  k2 = k2
  soon = soon
  Threads = {t1, t2, t3}
  Futures = {a, b, c, d, n}
  Programs <- MCPrograms
  Nothing = None
  Nobody = Nobody
SPECIFICATION NetSpec
INVARIANTS OutcomeAsPromised NobodyIsStuck
