----------------------------- MODULE SpecRegister -----------------------------
(***************************************************************************)
(* What the registry promises to those who write settings under a key      *)
(* (scoped_store.py, spec_for): at every instant there is at most one spec *)
(* in force, one that an admin or the configuration endorsed; a write asks *)
(* for it once and stores under the spec that was in force when it asked.  *)
(***************************************************************************)
CONSTANTS Writers, Specs, None

VARIABLES
    force,      \* the spec in force, or None
    asked,      \* writer -> the spec it asked for and goes on with, or None
    endorsed,   \* specs that an admin or the configuration endorsed so far
    used        \* specs under which values were stored so far

Init ==
    /\ force = None /\ asked = [w \in Writers |-> None]
    /\ endorsed = {} /\ used = {}

\* A review endorses a spec; when reviews race, that of another one may prevail.
Review(s) ==
    /\ endorsed' = endorsed \cup {s}
    /\ force' \in endorsed' \cup {None}
    /\ UNCHANGED <<asked, used>>

Withdraw ==
    /\ force' = None
    /\ UNCHANGED <<asked, endorsed, used>>

Ask(w) ==
    /\ asked[w] = None /\ force # None
    /\ asked' = [asked EXCEPT ![w] = force]
    /\ UNCHANGED <<force, endorsed, used>>

Store(w) ==
    /\ asked[w] # None
    /\ used' = used \cup {asked[w]}
    /\ asked' = [asked EXCEPT ![w] = None]
    /\ UNCHANGED <<force, endorsed>>

GiveUp(w) ==
    /\ asked' = [asked EXCEPT ![w] = None]
    /\ UNCHANGED <<force, endorsed, used>>

Next ==
    \/ \E s \in Specs : Review(s)
    \/ Withdraw
    \/ \E w \in Writers : Ask(w) \/ Store(w) \/ GiveUp(w)

Spec == Init /\ [][Next]_<<force, asked, endorsed, used>>
=============================================================================
