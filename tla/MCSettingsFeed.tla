--------------------------- MODULE MCSettingsFeed ---------------------------
(* One client that follows the facility and its own user scope, for TLC. *)
EXTENDS SettingsFeed

CONSTANTS facility, user, ada

MCChain == [s \in Scopes |-> {facility, s}]
MCDepth == [s \in Scopes |-> IF s = facility THEN 0 ELSE 1]
MCRoles == {ada} \X Scopes
=============================================================================
