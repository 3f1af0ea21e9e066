------------------------------ MODULE MCHandles ------------------------------
(* Model-checking instance of the resource registry. *)
EXTENDS Handles, TLC
\* Addresses are interchangeable, and so are the threads other than Main.
Symmetry == Permutations(Addrs) \cup Permutations(Threads \ {Main})
=============================================================================
