----------------------------- MODULE MCDescriptors -----------------------------
(* Model-checking instance of the descriptor emulation. *)
EXTENDS Descriptors, TLC
=============================================================================
