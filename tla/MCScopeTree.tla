------------------------------ MODULE MCScopeTree ------------------------------
(* A beamline with one branch, both configured, and a beamline that is not, for *)
(* TLC.                                                                         *)
EXTENDS ScopeTree, TLC

CONSTANTS bl, other, branch

FromConfig == (bl :> Top) @@ (branch :> bl)
Interchangeable == Permutations(Workers)
=============================================================================
