-------------------------------- MODULE MCLoader --------------------------------
(* Model-checking instance of the ELF loader: executables that import some of  *)
(* getopt's variables, the empty string, and functions of each table and none. *)
EXTENDS Loader
R(at, n, k, p) == [at |-> at, name |-> n, kind |-> k, plt |-> p]
MCHost == [n \in {"write", "optarg", "optind"} |-> IF n = "write" THEN "fn" ELSE "data"]
MCCpp == [n \in {"new", "rep"} |-> IF n = "new" THEN "fn" ELSE "data"]
MCCppRelocs == <<R("c1", "write", 7, TRUE), R("c2", "gone", 6, FALSE)>>
Common == <<R("x1", "new", 7, TRUE), R("x2", "write", 6, FALSE), R("x3", "gone", 6, TRUE)>>
MCExes == {
  Common \o <<R("x4", "rep", 5, FALSE), R("x5", "optind", 5, FALSE), R("x6", "optarg", 5, FALSE)>>,
  <<R("x5", "optind", 5, FALSE), R("x7", "rep", 5, TRUE)>> \o Common,
  <<R("x4", "nodata", 5, FALSE), R("x5", "new", 5, FALSE), R("x6", "rep", 7, TRUE)>>}
===============================================================================
