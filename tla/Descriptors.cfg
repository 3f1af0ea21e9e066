CONSTANTS
  Threads = {main, t2}
  Main = main
  Fds = {3, 4}
  MaxFiles = 2
  MaxObjects = 3
  MaxRuns = 1
SPECIFICATION Spec
INVARIANTS StillOpen StreamsOpen  EpollNotTwice TunNamesTun
CHECK_DEADLOCK FALSE
