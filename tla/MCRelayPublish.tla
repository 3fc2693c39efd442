---------------------------- MODULE MCRelayPublish ----------------------------
(* Small instances of RelayPublish for TLC. *)
EXTENDS RelayPublish, TLC

(* Publishers, revisions, cleaners and readers are interchangeable. *)
Symmetry ==
  Permutations(Publishers) \cup Permutations(Revisions)
    \cup Permutations(Cleaners) \cup Permutations(Readers)
===============================================================================
