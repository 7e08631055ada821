\* A child is started in another thread than the handler's.
CONSTANTS
  Children = {c1, c2}
  Kinds = {"fast"}
  Threads = TRUE
SPECIFICATION WatcherSpec
PROPERTIES EndsAreReported
CHECK_DEADLOCK FALSE
