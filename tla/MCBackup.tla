------------------------------ MODULE MCBackup ------------------------------
(* One item, three bundles in two directories, for TLC. *)
EXTENDS Backup, TLC

CONSTANTS b1, b2, b3

MCDir == [b \in Bundles |-> IF b = b3 THEN "cd" ELSE "ab"]
Interchangeable == Permutations({b1, b2})
=============================================================================
