------------------------------- MODULE MCLookup -------------------------------
(* Every pair of sorted tables of up to MaxSyms names of up to MaxLen letters. *)
EXTENDS Lookup

CONSTANT MaxSyms

AllTables ==
  UNION {{T \in [n : {n}, name : [0 .. n - 1 -> Strings]] : Sorted(T)} : n \in 0 .. MaxSyms}
SortedPairs == AllTables \X AllTables
AllNames == Strings

-----------------------------------------------------------------------------
(* The entries of symbols[] around "getpeername", without their common prefix    *)
(* "get", which leaves all of them candidates.  Letters by rank in ASCII order:   *)
(* d = 1, e = 2, i = 3, o = 4, p = 5, s = 6; what follows the first difference is *)
(* left out.                                                                     *)

Str(a, b) == [k \in 0 .. MaxLen |-> IF k = 0 THEN a ELSE IF k = 1 THEN b ELSE 0]
getopt == Str(4, 0)
getpid == Str(5, 3)
getpeername == Str(5, 2)
getsockname == Str(6, 0)
getTable ==
  [n |-> 4, name |-> [i \in 0 .. 3 |-> CASE i = 0 -> getopt [] i = 1 -> getpid
                                         [] i = 2 -> getpeername [] OTHER -> getsockname]]
RepoTables == {<<getTable, [n |-> 0, name |-> [i \in 0 .. -1 |-> getopt]]>>}
RepoNames == {getTable.name[i] : i \in 0 .. 3}
=============================================================================
