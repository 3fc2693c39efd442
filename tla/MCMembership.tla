----------------------------- MODULE MCMembership -----------------------------
(***************************************************************************)
(* Small instances of Membership for TLC.                                  *)
(***************************************************************************)
EXTENDS Membership, TLC

CONSTANTS owner, first, second, e1

FileOrder == (owner :> 2) @@ (first :> 1) @@ (second :> 3)
One == {{e1}}

(* Nothing tells one invite from another. *)
InviteSymmetry == Permutations(Invites)
===============================================================================
