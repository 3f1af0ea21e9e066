------------------------------ MODULE MCSession ------------------------------
(* Model-checking instance of the session: networks are interchangeable. *)
EXTENDS Session, TLC

Symmetry == Permutations(Networks)
=============================================================================
