\* One child, both watchers; the handler and the starter share the loop.
CONSTANTS
  Children = {c1}
  Kinds = {"safe", "fast"}
  Threads = FALSE
  Pipes <- MCPipes
SPECIFICATION SubprocessSpec
INVARIANTS HeardInOrder StatusIsRight
PROPERTIES EndIsHeard
CHECK_DEADLOCK FALSE
