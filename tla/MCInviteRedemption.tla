--------------------------- MODULE MCInviteRedemption ---------------------------
(* A single-use and a two-use invite, for TLC. *)
EXTENDS InviteRedemption, TLC

CONSTANTS one, two

Uses == one :> 1 @@ two :> 2

Symmetry == Permutations(Workers) \cup Permutations(Devices)
================================================================================
