-------------------------------- MODULE KeyLife --------------------------------
(***************************************************************************)
(* What an api key promises: it is issued once, opens doors while it is    *)
(* live, and once dead, by revocation or by age, never opens one again.    *)
(***************************************************************************)
CONSTANTS Keys, Doors, NoKey

VARIABLES
    life,     \* key -> "none", "live" or "dead"
    opened    \* door -> the key that opened it, or NoKey

Init ==
    /\ life \in [Keys -> {"none", "live"}]
    /\ opened = [d \in Doors |-> NoKey]

\* A life goes one way.
Forward == {<<"none", "live">>, <<"live", "dead">>}

\* Keys are issued and die, and doors close.
Age ==
    /\ life' \in [Keys -> {"none", "live", "dead"}]
    /\ \A k \in Keys : life'[k] = life[k] \/ <<life[k], life'[k]>> \in Forward
    /\ opened' \in [Doors -> Keys \cup {NoKey}]
    /\ \A d \in Doors : opened'[d] \in {opened[d], NoKey}

\* Only a live key opens a door.
Open(d, k) ==
    /\ opened[d] = NoKey /\ life[k] = "live"
    /\ opened' = [opened EXCEPT ![d] = k]
    /\ UNCHANGED life

Next == Age \/ \E d \in Doors, k \in Keys : Open(d, k)

Spec == Init /\ [][Next]_<<life, opened>>
=============================================================================
