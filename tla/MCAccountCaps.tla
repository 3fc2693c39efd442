----------------------------- MODULE MCAccountCaps -----------------------------
(* Small instances of AccountCaps for TLC. *)
EXTENDS AccountCaps, TLC

Symmetry == Permutations(Workers) \cup Permutations(Objects)
================================================================================
