-------------------------------- MODULE MCImages -------------------------------
(* Two users with two images and two workers, for TLC. *)
EXTENDS Images, TLC

Interchangeable ==
    Permutations(Workers) \cup Permutations(Users) \cup Permutations(Images)
=============================================================================
