----------------------------- MODULE MCTuiPairing -----------------------------
(* Instances of TuiPairing for TLC. *)
EXTENDS TuiPairing, TLC

Symmetry == Permutations(Workers)
====
