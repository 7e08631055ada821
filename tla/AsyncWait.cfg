\* Two tasks, two futures, one cancellation.
CONSTANTS
  t1 = t1
  t2 = t2
  f1 = f1
  f2 = f2
  Tasks = {t1, t2}
  Nobody = Nobody
  MaxCancels = 1
  Futs = {f1, f2}
  Ends <- MCEnds
  Programs <- MCPrograms
SPECIFICATION WaitSpec
INVARIANTS AnswersAreTruthful EachDeliveredOnce NothingLeftBehind
PROPERTIES CallsReturn
CHECK_DEADLOCK FALSE
