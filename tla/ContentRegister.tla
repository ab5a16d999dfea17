--------------------------- MODULE ContentRegister ---------------------------
(***************************************************************************)
(* What the shared-content service promises (scoped_models.py, "one        *)
(* immutable published bundle, never deleted; retract only moves the       *)
(* item's pointer"): every item points at one of its own revisions or at   *)
(* none, revisions are only ever added, and each request takes effect at   *)
(* one instant or not at all.                                              *)
(***************************************************************************)
EXTENDS Naturals, Sequences

CONSTANTS Items, Bundles, NoItem

VARIABLES
    current,     \* item -> its current revision, 0 when retracted, or NoItem
    revisions    \* the published revisions, in the order of their ids

Published == DOMAIN revisions
Shows(i, bundle) ==
    current[i] \in Published /\ revisions[current[i]].bundle = bundle

Init ==
    /\ current = [i \in Items |-> NoItem]
    /\ revisions = <<>>

\* Publishing what an item shows already adds no revision.
Publish(i, bundle) ==
    /\ ~Shows(i, bundle)
    /\ revisions' = Append(revisions, [item |-> i, bundle |-> bundle])
    /\ current' = [current EXCEPT ![i] = Len(revisions) + 1]

Retract(i) ==
    /\ current[i] \in Published
    /\ current' = [current EXCEPT ![i] = 0]
    /\ UNCHANGED revisions

\* Only an earlier revision of the same item can come back.
Restore(i, r) ==
    /\ current[i] # NoItem
    /\ r \in Published /\ revisions[r].item = i
    /\ current' = [current EXCEPT ![i] = r]
    /\ UNCHANGED revisions

Next ==
    \E i \in Items :
        \/ \E bundle \in Bundles : Publish(i, bundle)
        \/ Retract(i)
        \/ \E r \in Published : Restore(i, r)

Spec == Init /\ [][Next]_<<current, revisions>>
=============================================================================
