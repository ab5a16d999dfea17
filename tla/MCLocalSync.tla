------------------------------ MODULE MCLocalSync ------------------------------
(* Two rows made offline, for TLC. *)
EXTENDS LocalSync
=============================================================================
