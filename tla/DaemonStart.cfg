CONSTANTS
  Pids = {p1, p2}
  NoPid = NoPid
  Empty = Empty
  Unset = Unset
SPECIFICATION FairSpec
INVARIANTS Findable NoStranger FreshDaemon
PROPERTIES StartEnds DaemonServes
