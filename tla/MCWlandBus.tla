----------------------------- MODULE MCWlandBus -----------------------------
(* A small instance of WlandBus for TLC: the callers are alike. *)
EXTENDS WlandBus, TLC

Symmetry == Permutations(Callers)
=============================================================================
