--------------------------- MODULE MCContentStore ---------------------------
(* Two items and two bundles, for TLC. *)
EXTENDS ContentStore, TLC

Interchangeable ==
    Permutations(Workers) \cup Permutations(Items) \cup Permutations(Bundles)
=============================================================================
