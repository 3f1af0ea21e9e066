CONSTANTS
  Threads = {main}
  Main = main
  Fds = {3, 4}
  MaxFiles = 2
  MaxObjects = 2
  MaxRuns = 1
SPECIFICATION Spec
INVARIANT TunNotTwice
CHECK_DEADLOCK FALSE
