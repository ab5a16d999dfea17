------------------------------- MODULE MCApiKeys -------------------------------
(* Two users, one of them staff, two keys and two handles, for TLC. *)
EXTENDS ApiKeys, TLC

Interchangeable ==
    Permutations(Workers) \cup Permutations(Keys) \cup Permutations(Handles)
=============================================================================
