----------------------------- MODULE MCTunDriver -----------------------------
(* Model-checking instance of the kernel tun driver. *)
EXTENDS TunDriver, TLC

\* Threads and files are interchangeable; only safety is checked under symmetry.
Symmetry == Permutations(Threads) \cup Permutations(Files)
=============================================================================
