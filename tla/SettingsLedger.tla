---------------------------- MODULE SettingsLedger ----------------------------
(***************************************************************************)
(* What the settings service promises to a reader of its audit trail       *)
(* (scoped_models.py, SettingAuditRow): each change of a value or a lock   *)
(* takes effect at one scope and one instant, together with its records;   *)
(* records are only added, name the value that is stored from then on, and *)
(* tell the value before it truly as long as the scope was never reset.    *)
(***************************************************************************)
EXTENDS Naturals, Sequences

CONSTANTS Scopes, Values, Absent

VARIABLES
    value,      \* scope -> the value stored there, or Absent
    locked,     \* scopes with a lock
    trail       \* scope -> its records, oldest first

Record(action, old, new) == [action |-> action, old |-> old, new |-> new]
Enter(s, records) == trail' = [trail EXCEPT ![s] = @ \o records]
Store(s, v) == value' = [value EXCEPT ![s] = v]

\* A scope that was reset may have been written and reset again unnoticed.
Truthful(s, old) ==
    (\A i \in DOMAIN trail[s] : trail[s][i].action # "delete") => old = value[s]

Init ==
    /\ value \in [Scopes -> Values \cup {Absent}]
    /\ trail = [s \in Scopes |-> IF value[s] = Absent THEN <<>>
                                 ELSE <<Record("set", Absent, value[s])>>]
    /\ locked = {}

Set(s, old, v) ==
    /\ old # v /\ Truthful(s, old)
    /\ Store(s, v)
    /\ Enter(s, <<Record("set", old, v)>>)
    /\ UNCHANGED locked

\* A write that changes nothing, in the eyes of who made it, is recorded as such.
Repeat(s, v) ==
    /\ Enter(s, <<Record("set", v, v)>>)
    /\ UNCHANGED <<value, locked>>

Reset(s, old) ==
    /\ value[s] # Absent /\ Truthful(s, old)
    /\ Store(s, Absent)
    /\ Enter(s, <<Record("delete", old, Absent)>>)
    /\ UNCHANGED locked

\* A legacy value comes only to a scope that has none.
Migrate(s, v) ==
    /\ value[s] = Absent
    /\ Store(s, v)
    /\ Enter(s, <<Record("migrate", Absent, v)>>)
    /\ UNCHANGED locked

Lock(s) ==
    /\ locked' = locked \cup {s}
    /\ Enter(s, <<Record("lock", Absent, Absent)>>)
    /\ UNCHANGED value

\* A lock on a scope without a value freezes the one it inherits.
Freeze(s, v) ==
    /\ value[s] = Absent
    /\ Store(s, v)
    /\ locked' = locked \cup {s}
    /\ Enter(s, <<Record("set", Absent, v), Record("lock", Absent, Absent)>>)

Unlock(s) ==
    /\ locked' = locked \ {s}
    /\ Enter(s, <<Record("unlock", Absent, Absent)>>)
    /\ UNCHANGED value

Next ==
    \E s \in Scopes :
        \/ Lock(s) \/ Unlock(s)
        \/ \E v \in Values :
              \/ Repeat(s, v) \/ Migrate(s, v) \/ Freeze(s, v)
              \/ \E old \in Values \cup {Absent} : Set(s, old, v)
              \/ Reset(s, v)

Spec == Init /\ [][Next]_<<value, locked, trail>>
=============================================================================
