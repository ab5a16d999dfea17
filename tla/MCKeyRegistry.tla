--------------------------- MODULE MCKeyRegistry ---------------------------
(* Two workers and two specs, one of them seeded, for TLC. *)
EXTENDS KeyRegistry, TLC

CONSTANTS s1, s2

Interchangeable == Permutations(Workers) \cup Permutations(Authors)
=============================================================================
