CONSTANTS
  Threads = {main, t2}
  Main = main
  Addrs = {a1, a2, a3, a4}
  NULL = NULL
  HEAD = HEAD
  MaxObjects = 5
SPECIFICATION Spec
SYMMETRY Symmetry
INVARIANTS ListExact BackLinks NoDanglingPointer
PROPERTY ImplementsPromise
CHECK_DEADLOCK FALSE
