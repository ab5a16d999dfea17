-------------------------- MODULE MCScopedSettings --------------------------
(* A facility with one beamline and two users, for TLC. *)
EXTENDS ScopedSettings, TLC

CONSTANTS facility, beamline, user, guest, mia, ada

MCUserScopes == {user, guest} \cap Scopes
MCChain == [s \in Scopes |-> {facility, s}]
MCDepth == [s \in Scopes |-> IF s = facility THEN 0 ELSE 1]

\* mia maintains the beamline, ada administers it and the facility; the user
\* scopes are mia's.
MCAdmins == {ada} \X (Scopes \ MCUserScopes)
MCWriters == MCAdmins \cup {mia} \X (Scopes \ {facility})

Interchangeable == Permutations(Workers) \cup Permutations(Values)
=============================================================================
