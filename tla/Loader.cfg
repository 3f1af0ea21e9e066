CONSTANTS
  Host <- MCHost
  Cpp <- MCCpp
  CppRelocs <- MCCppRelocs
  Exes <- MCExes
  Opts = {"optarg", "optind"}
  Rep = "rep"
  RepCell = "x4"
  Values = {"0", "1", "2"}
SPECIFICATION LdrSpec
INVARIANTS AuxTable Linked GetoptReaches RepsKept
CHECK_DEADLOCK FALSE
