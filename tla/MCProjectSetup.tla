--------------------------- MODULE MCProjectSetup ---------------------------
(* A small instance of ProjectSetup for TLC. *)
EXTENDS ProjectSetup, TLC

CONSTANTS owner, clone, c1, c2

\* one command at a time on each machine
OnePerMachine == (c1 :> owner) @@ (c2 :> clone)

Symmetry ==
    {l @@ p @@ e : l \in Permutations(Labels), p \in Permutations(Projects),
                   e \in Permutations(Environments)}
=============================================================================
