\* A reader with a limit of two bytes and five bytes to read; one cancellation.
CONSTANTS
  Reader = r
  Writer = w
  Tasks = {r, w}
  Nobody = Nobody
  MaxCancels = 1
  Limit = 2
  Total = 5
  Chunks = {1, 3}
  Texts <- MCTexts
  Amounts = {2}
  MaxCalls = 2
  MaxWrites = 1
SPECIFICATION StreamSpec
INVARIANTS ReadsAreRight FlowIsControlled
PROPERTIES CallsReturn
CHECK_DEADLOCK FALSE
