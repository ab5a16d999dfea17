--------------------------- MODULE ScopedSettings ---------------------------
(***************************************************************************)
(* The write side of the scoped settings API (scoped_api.py): set, reset,  *)
(* lock and unlock one setting key at the scopes of the tree.  A request   *)
(* touches a single key, so one key is modelled; the scopes stay apart     *)
(* because a lock reaches every scope below it.                            *)
(*                                                                         *)
(* The service runs several uvicorn workers over one database.  A handler  *)
(* is a series of autocommitted reads into private copies, then one        *)
(* transaction that commits or rolls back, then a best-effort event.  Each *)
(* read, the transaction and the event are steps of their own, so the      *)
(* workers interleave between them.                                        *)
(***************************************************************************)
EXTENDS Integers, Sequences, FiniteSets

CONSTANTS
    Workers,      \* server tasks, each handling one request at a time
    Actors,       \* authenticated identities
    Scopes,       \* scope ids of the tree and of the users
    UserScopes,   \* the scopes of kind "user"
    Allowed,      \* scopes whose kind the key's spec allows
    Chain,        \* scope -> the scopes it inherits from, itself included
    Depth,        \* scope -> its position in a chain, the facility at 0
    Writers,      \* <<actor, scope>>: the actor may set or reset there
    Admins,       \* <<actor, scope>>: the actor may lock and unlock there
    Values,       \* values the spec accepts, or that an older service stored
    Absent,       \* "no value": JSON null in the audit, None in the code
    Default,      \* the default of the spec, or Absent
    NoRow,        \* no scoped_settings row at a scope
    NoRequest,    \* what an idle worker handles
    Ops,          \* operations the clients send
    MaxRequests   \* bound on the requests sent in one behaviour

AllOps == {"put", "delete", "lock", "unlock", "migrate"}

ASSUME ScopesAssumption ==
    /\ UserScopes \subseteq Scopes
    /\ Allowed \subseteq Scopes
    /\ Chain \in [Scopes -> SUBSET Scopes]
    /\ \A s \in Scopes : s \in Chain[s]
    /\ Depth \in [Scopes -> Nat]

ASSUME RolesAssumption ==
    /\ Writers \subseteq Actors \X Scopes
    /\ Admins \subseteq Writers

ASSUME DataAssumption ==
    /\ Absent \notin Values
    /\ Default \in Values \cup {Absent}
    /\ Ops \subseteq AllOps
    /\ MaxRequests \in Nat

\* Who writes rows: the start-up of the service does too.
Identities == Actors \cup {"migration"}
Row == [value : Values, version : Nat \ {0}, by : Identities]

ASSUME NoRowAssumption == NoRow \notin Row

VARIABLES
    settings,   \* scope -> its scoped_settings row, or NoRow
    locks,      \* scopes that have a setting_locks row
    audit,      \* scope -> its setting_audit rows, oldest first
    req,        \* worker -> the request it is handling, or NoRequest
    sent        \* requests sent so far

vars == <<settings, locks, audit, req, sent>>

MaybeRow == Row \cup {NoRow}
MaybeValue == Values \cup {Absent}

\* The reason of a lock is abstracted: its records carry no value.
AuditRecord ==
    [action : {"set", "delete", "lock", "unlock", "migrate"},
     old : MaybeValue, new : MaybeValue]

Phases == {"values", "check", "load", "loadlock", "commit", "publish"}

\* seen is what the client read before it sent the request: only the history
\* of the request, which no handler looks at.
Request ==
    [pc : Phases, op : AllOps, actor : Identities, scope : Scopes,
     value : MaybeValue, ifMatch : Nat, seen : MaybeRow,
     values : [Scopes -> MaybeValue], effective : MaybeValue,
     row : MaybeRow, held : BOOLEAN]

ASSUME NoRequestAssumption == NoRequest \notin Request

-----------------------------------------------------------------------------
ValueOf(r) == IF r = NoRow THEN Absent ELSE r.value
VersionOf(r) == IF r = NoRow THEN 0 ELSE r.version

Record(action, old, new) == [action |-> action, old |-> old, new |-> new]

\* resolve: the value a scope inherits.  A locked ancestor wins over what is
\* below it, the outermost first; without one the innermost value wins.
Outermost(t, S) == t \in S /\ \A u \in S : Depth[t] <= Depth[u]
Innermost(t, S) == t \in S /\ \A u \in S : Depth[u] <= Depth[t]
Resolve(s, values, locked) ==
    LET present == {t \in Chain[s] : values[t] # Absent}
        frozen  == present \cap locked
    IN  IF \E t \in Scopes : Outermost(t, frozen)
          THEN values[CHOOSE t \in Scopes : Outermost(t, frozen)]
          ELSE IF \E t \in Scopes : Innermost(t, present)
            THEN values[CHOOSE t \in Scopes : Innermost(t, present)]
            ELSE Default

\* check_write: may this request go on, given the locks of the scope's chain?
\* A stray row, at a scope the spec forbids, may be removed whatever is locked.
CheckWrite(r, locked) ==
    CASE r.op = "put"    -> /\ <<r.actor, r.scope>> \in Writers
                            /\ r.scope \in Allowed
                            /\ locked = {}
      [] r.op = "delete" -> /\ <<r.actor, r.scope>> \in Writers
                            /\ r.scope \in Allowed => locked = {}
      [] r.op = "lock"   -> /\ <<r.actor, r.scope>> \in Admins
                            /\ r.scope \in Allowed
                            /\ r.scope \notin UserScopes
      [] r.op = "unlock" -> /\ <<r.actor, r.scope>> \in Admins
                            /\ r.scope \in locked

\* Fault: the If-Match header is only looked at for a missing row.
IfMatchIgnored(r, row) == row = NoRow => r.ifMatch = 0
IfMatchHolds(r, row) == r.ifMatch = VersionOf(row)

\* The UPDATE that SQLAlchemy emits writes only the columns that differ from
\* the loaded row; when none differs it emits no UPDATE, hence no version check.
Dirty(r) == r.row.value # r.value \/ r.row.by # r.actor
\* Fault: the version does not move, so that a later writer wins unnoticed.
UpdatedInPlace(r, current) ==
    [value   |-> IF r.row.value # r.value THEN r.value ELSE current.value,
     version |-> r.row.version,
     by      |-> IF r.row.by # r.actor THEN r.actor ELSE current.by]
Updated(r, current) ==
    [value   |-> IF r.row.value # r.value THEN r.value ELSE current.value,
     version |-> r.row.version + 1,
     by      |-> IF r.row.by # r.actor THEN r.actor ELSE current.by]

-----------------------------------------------------------------------------
At(w, pc) == req[w] # NoRequest /\ req[w].pc = pc
AtOp(w, pc, op) == At(w, pc) /\ req[w].op = op
Answer(w) == req' = [req EXCEPT ![w] = NoRequest]

\* A client reads the row and sends a request that names the version it saw,
\* or no version at all (which the code treats as version 0).
Send(w) ==
    /\ req[w] = NoRequest
    /\ sent < MaxRequests
    /\ \E op \in Ops \ {"migrate"}, a \in Actors, s \in Scopes :
       \E v \in IF op = "put" THEN Values ELSE {Absent} :
       \E m \in IF op = "put" THEN {0, VersionOf(settings[s])} ELSE {0} :
          req' = [req EXCEPT ![w] =
                    [pc |-> IF op = "lock" THEN "values" ELSE "check",
                     op |-> op, actor |-> a, scope |-> s, value |-> v, ifMatch |-> m,
                     seen |-> IF op = "put" THEN settings[s] ELSE NoRow,
                     values |-> [t \in Scopes |-> Absent], effective |-> Absent,
                     row |-> NoRow, held |-> FALSE]]
    /\ sent' = sent + 1
    /\ UNCHANGED <<settings, locks, audit>>

\* migrate_user_settings, as every worker runs it when it starts: it has read the
\* legacy value of a user, whatever that is, and found the spec to allow users.
StartMigration(w) ==
    /\ req[w] = NoRequest
    /\ sent < MaxRequests
    /\ "migrate" \in Ops
    /\ \E s \in UserScopes \cap Allowed, v \in Values :
          req' = [req EXCEPT ![w] =
                    [pc |-> "load", op |-> "migrate", actor |-> "migration", scope |-> s,
                     value |-> v, ifMatch |-> 0, seen |-> NoRow,
                     values |-> [t \in Scopes |-> Absent], effective |-> Absent,
                     row |-> NoRow, held |-> FALSE]]
    /\ sent' = sent + 1
    /\ UNCHANGED <<settings, locks, audit>>

\* load_snapshots, first query.  Only put_lock uses the values it returns.
ReadValues(w) ==
    /\ At(w, "values")
    /\ req' = [req EXCEPT
         ![w].pc = "check",
         ![w].values = [t \in Scopes |-> IF t \in Chain[req[w].scope]
                                           THEN ValueOf(settings[t]) ELSE Absent]]
    /\ UNCHANGED <<settings, locks, audit, sent>>

\* load_snapshots, second query, and the decision taken on what it returned.
Check(w) ==
    /\ At(w, "check")
    /\ LET locked == locks \cap Chain[req[w].scope]
       IN  IF ~CheckWrite(req[w], locked)
             THEN Answer(w)
             ELSE req' = [req EXCEPT
                    ![w].pc = IF req[w].op = "unlock" THEN "loadlock" ELSE "load",
                    ![w].values = [t \in Scopes |-> Absent],
                    ![w].effective = IF req[w].op = "lock"
                                       THEN Resolve(req[w].scope, req[w].values, locked)
                                       ELSE Absent]
    /\ UNCHANGED <<settings, locks, audit, sent>>

\* session.get(ScopedSettingRow), with the 412 of put and the 404 of delete.  The
\* migration leaves a value alone that is there already.
LoadRow(w) ==
    /\ At(w, "load")
    /\ LET row == settings[req[w].scope]
       IN  IF \/ req[w].op = "put" /\ ~IfMatchHolds(req[w], row)
              \/ req[w].op = "delete" /\ row = NoRow
              \/ req[w].op = "migrate" /\ row # NoRow
             THEN Answer(w)
             ELSE req' = [req EXCEPT
                    ![w].pc = IF req[w].op = "lock" THEN "loadlock" ELSE "commit",
                    ![w].row = row]
    /\ UNCHANGED <<settings, locks, audit, sent>>

\* session.get(SettingLockRow).  delete_lock fails when an unlock came first.
LoadLock(w) ==
    /\ At(w, "loadlock")
    /\ IF req[w].op = "unlock" /\ req[w].scope \notin locks
         THEN Answer(w)
         ELSE req' = [req EXCEPT ![w].pc = "commit",
                                 ![w].held = (req[w].scope \in locks)]
    /\ UNCHANGED <<settings, locks, audit, sent>>

\* A transaction that fails leaves no trace: 412 for put, 409 for lock, 500
\* for delete.
Rollback(w) == Answer(w) /\ UNCHANGED <<settings, locks, audit>>

\* Fault: the handler answers without the event.
CommittedQuietly(w, records) ==
    /\ audit' = [audit EXCEPT ![req[w].scope] = @ \o records]
    /\ Answer(w)
Committed(w, records) ==
    /\ audit' = [audit EXCEPT ![req[w].scope] = @ \o records]
    /\ req' = [req EXCEPT ![w].pc = "publish"]

\* Fault: versions counted from 0, the number that stands for "no row".
InsertsAtZero(s, v, a) ==
    settings' = [settings EXCEPT ![s] = [value |-> v, version |-> 0, by |-> a]]
\* INSERT of a first row: the primary key refuses a second one.
Inserts(s, v, a) ==
    settings' = [settings EXCEPT ![s] = [value |-> v, version |-> 1, by |-> a]]

\* Fault: the old value is taken after the new one was assigned.
SetRecordLate(r) == Record("set", r.value, r.value)
SetRecord(r) == Record("set", ValueOf(r.row), r.value)

CommitPut(w) ==
    LET r == req[w]
        current == settings[r.scope]
    IN  /\ AtOp(w, "commit", "put")
        /\ CASE r.row = NoRow /\ current = NoRow ->
                  /\ Inserts(r.scope, r.value, r.actor)
                  /\ Committed(w, <<SetRecord(r)>>) /\ UNCHANGED locks
             [] r.row # NoRow /\ ~Dirty(r) ->
                  Committed(w, <<SetRecord(r)>>) /\ UNCHANGED <<settings, locks>>
             [] r.row # NoRow /\ Dirty(r) /\ VersionOf(current) = r.row.version ->
                  /\ settings' = [settings EXCEPT ![r.scope] = Updated(r, current)]
                  /\ Committed(w, <<SetRecord(r)>>) /\ UNCHANGED locks
             [] OTHER -> Rollback(w)
        /\ UNCHANGED sent

CommitDelete(w) ==
    LET r == req[w]
    IN  /\ AtOp(w, "commit", "delete")
        /\ IF VersionOf(settings[r.scope]) = r.row.version
             THEN /\ settings' = [settings EXCEPT ![r.scope] = NoRow]
                  /\ Committed(w, <<Record("delete", r.row.value, Absent)>>)
                  /\ UNCHANGED locks
             ELSE Rollback(w)
        /\ UNCHANGED sent

\* put_lock stores the inherited value with the lock when the scope has none.
Freezes(r) == r.row = NoRow /\ r.effective # Absent
\* Fault: the row is merged instead of inserted, so no key conflict is raised.
FreezeMerged(r) == FALSE
FreezeRefused(r) == Freezes(r) /\ settings[r.scope] # NoRow

CommitLock(w) ==
    LET r == req[w]
        record == Record("lock", Absent, Absent)
    IN  /\ AtOp(w, "commit", "lock")
        /\ CASE r.held # (r.scope \in locks) -> Rollback(w)
             [] FreezeRefused(r) -> Rollback(w)
             [] OTHER ->
                  /\ locks' = locks \cup {r.scope}
                  /\ IF Freezes(r)
                       THEN /\ Inserts(r.scope, r.effective, r.actor)
                            /\ Committed(w, <<Record("set", Absent, r.effective), record>>)
                       ELSE Committed(w, <<record>>) /\ UNCHANGED settings
        /\ UNCHANGED sent

\* Fault: the lock row is deleted in the session but the trail is written alone.
CommitUnlockTrailOnly(w) ==
    /\ AtOp(w, "commit", "unlock")
    /\ Committed(w, <<Record("unlock", Absent, Absent)>>)
    /\ UNCHANGED <<settings, locks, sent>>

\* The lock row has no version: deleting it twice is only a warning.
CommitUnlock(w) ==
    /\ AtOp(w, "commit", "unlock")
    /\ locks' = locks \ {req[w].scope}
    /\ Committed(w, <<Record("unlock", Absent, Absent)>>)
    /\ UNCHANGED <<settings, sent>>

CommitMigrate(w) ==
    LET r == req[w]
    IN  /\ AtOp(w, "commit", "migrate")
        /\ IF settings[r.scope] = NoRow
             THEN /\ Inserts(r.scope, r.value, "migration")
                  /\ Committed(w, <<Record("migrate", Absent, r.value)>>)
                  /\ UNCHANGED locks
             ELSE Rollback(w)
        /\ UNCHANGED sent

\* The settings.changed event, which a migration does not send, then the answer.
\* delete_lock reads the row once more before it, only to name its version.
Publish(w) ==
    /\ At(w, "publish")
    /\ Answer(w)
    /\ UNCHANGED <<settings, locks, audit, sent>>

\* The process is killed or the client goes away: an open transaction rolls back.
Crash(w) ==
    /\ req[w] # NoRequest
    /\ Answer(w)
    /\ UNCHANGED <<settings, locks, audit, sent>>

Commit(w) ==
    \/ CommitPut(w) \/ CommitDelete(w) \/ CommitLock(w) \/ CommitUnlock(w)
    \/ CommitMigrate(w)
Begin(w) == Send(w) \/ StartMigration(w)
Handle(w) == ReadValues(w) \/ Check(w) \/ LoadRow(w) \/ LoadLock(w) \/ Commit(w)

\* Rows written before the spec forbade their scope are there from the start,
\* with the record of the write that made them.
Init ==
    /\ \E strays \in SUBSET (Scopes \ Allowed), v \in Values, a \in Actors :
         /\ settings = [s \in Scopes |-> IF s \in strays
                          THEN [value |-> v, version |-> 1, by |-> a] ELSE NoRow]
         /\ audit = [s \in Scopes |-> IF s \in strays
                       THEN <<Record("set", Absent, v)>> ELSE <<>>]
    /\ locks = {}
    /\ req = [w \in Workers |-> NoRequest]
    /\ sent = 0

Next == \E w \in Workers : Begin(w) \/ Handle(w) \/ Publish(w) \/ Crash(w)

Spec == Init /\ [][Next]_vars

-----------------------------------------------------------------------------
(* Properties *)

\* A PUT carries a value the spec accepts and a DELETE commits only with the row
\* it loaded.
Consistent(r) ==
    /\ r.op \in {"put", "migrate"} => r.value \in Values
    /\ r.op = "delete" /\ r.pc = "commit" => r.row # NoRow
    /\ r.pc = "loadlock" => r.op \in {"lock", "unlock"}

\* Every variable keeps its shape: a stored version is at least 1, so that 0 can
\* stand for "no row" in If-Match and in the events.
TypeOK ==
    /\ settings \in [Scopes -> MaybeRow]
    /\ locks \subseteq Scopes
    /\ audit \in [Scopes -> Seq(AuditRecord)]
    /\ req \in [Workers -> Request \cup {NoRequest}]
    /\ \A w \in Workers : req[w] # NoRequest => Consistent(req[w])
    /\ sent \in Nat

\* A record that says the value changed.  A PUT that repeats the loaded value
\* leaves a "set" record too, but one with old = new.
Changing(rec) == rec.old # rec.new

\* The trail explains what is stored: the last record of a change names the
\* value the scope has now, and a scope nobody changed has none.  It must hold
\* although a handler computes its record from a row that may be outdated when
\* it commits (scoped_api.py, add_audit before commit in put_setting,
\* delete_setting and put_lock).
LastChange(trail, i) ==
    /\ Changing(trail[i])
    /\ \A j \in DOMAIN trail : j > i => ~Changing(trail[j])
Explains(trail, value) ==
    \/ value = Absent /\ \A j \in DOMAIN trail : ~Changing(trail[j])
    \/ \E i \in DOMAIN trail : LastChange(trail, i) /\ trail[i].new = value
AuditExplainsValue ==
    \A s \in Scopes : Explains(audit[s], ValueOf(settings[s]))

\* The trail explains the locks: a scope is locked exactly when its last lock
\* or unlock record is a "lock", although two admins may lock and unlock at once
\* and the second DELETE of a lock row only warns.
LockRecord(rec) == rec.action \in {"lock", "unlock"}
LockedLast(trail) ==
    \E i \in DOMAIN trail :
        /\ trail[i].action = "lock"
        /\ \A j \in DOMAIN trail : j > i => ~LockRecord(trail[j])
LockTrail == \A s \in Scopes : s \in locks <=> LockedLast(audit[s])

\* The transaction of w commits in this step.
Commits(w, op) == AtOp(w, "commit", op) /\ AtOp(w, "publish", op)'

\* put_lock freezes an inherited value, and migrate_user_settings brings in a
\* legacy one, only where no value is stored: one that was written after they
\* looked is never replaced.
InsertNeverOverwrites ==
    [][\A w \in Workers, op \in {"lock", "migrate"} :
         Commits(w, op) /\ settings[req[w].scope] # NoRow =>
             settings'[req[w].scope] = settings[req[w].scope]]_vars

\* A PUT that changes a row replaces the very row its client read, through every
\* interleaving of the read, the If-Match test and the commit (scoped_models.py
\* version_id_col, put_setting's If-Match), as long as nobody has reset the scope:
\* a row that is deleted and made again starts over at version 1.
NeverReset(trail) == \A i \in DOMAIN trail : trail[i].action # "delete"
AcceptedReplacesSeen ==
    [][\A w \in Workers :
         /\ Commits(w, "put") /\ NeverReset(audit[req[w].scope])
         /\ settings'[req[w].scope] # settings[req[w].scope]
         => settings[req[w].scope] = req[w].seen]_vars

\* The handlers keep the promise of SettingsLedger, whose value of a scope is that of
\* its row: every commit changes one scope and records it at once, and the old value
\* of a record, taken from a row that was loaded some steps before the commit
\* (scoped_api.py, add_audit), is the one that the commit replaces.
Ledger ==
    INSTANCE SettingsLedger
    WITH value <- [s \in Scopes |-> ValueOf(settings[s])], locked <- locks, trail <- audit
ImplementsLedger == Ledger!Spec

\* scoped_models.py:29: a concurrent writer makes the loser of a race on a row
\* fail, so a PUT is accepted only if the row is still at the version it loaded.
LoserIsRefused ==
    [][\A w \in Workers :
         Commits(w, "put") =>
             VersionOf(settings[req[w].scope]) = VersionOf(req[w].row)]_vars

\* test_scoped_locks_api.py:15: a lock freezes the value of its scope and of the
\* scopes below it; a write to them is refused until the lock is gone.
LockFreezes ==
    [][\A w \in Workers :
         /\ Commits(w, "put") \/ Commits(w, "delete")
         /\ req[w].scope \in Allowed
         => locks \cap Chain[req[w].scope] = {}]_vars
=============================================================================
