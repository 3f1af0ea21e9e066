CONSTANTS
  NSlots = 2
  Threads = {t1, t2}
  NoThread = NoThread
  Files = {f1, f2}
  NoFile = NoFile
  MaxOpens = 3
  SockBuf = 1
  MaxAddrs = 0
SYMMETRY Symmetry
SPECIFICATION Spec
INVARIANT UnitsDistinct
CHECK_DEADLOCK FALSE
