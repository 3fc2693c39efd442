------------------------------ MODULE MCPushPull ------------------------------
(* Small instances of PushPull for TLC. *)
EXTENDS PushPull, TLC

CONSTANTS d1, d2, c1, c2

(* One command at a time on each of two devices. *)
OnePerDevice == (c1 :> d1) @@ (c2 :> d2)

(* Revision ids, values and layouts are interchangeable. *)
Symmetry == Permutations(Revisions) \cup Permutations(Values) \cup Permutations(Layouts)

(* So are two devices when each runs one command and neither is the creator. *)
WithSwap ==
  Symmetry \cup {(d1 :> d2) @@ (d2 :> d1) @@ (c1 :> c2) @@ (c2 :> c1)}
===============================================================================
