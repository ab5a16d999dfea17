------------------------ MODULE ScopedSettingsProofs ------------------------
(***************************************************************************)
(* What ScopedSettings guarantees for every number of workers, scopes,     *)
(* actors, values and requests.                                            *)
(***************************************************************************)
EXTENDS ScopedSettings, SequenceTheorems, TLAPS

(* Helpers *)

\* The value of a row, or of no row, is a value or Absent.
LEMMA ValueOfType == \A r \in MaybeRow : ValueOf(r) \in MaybeValue
BY DEF ValueOf, MaybeRow, MaybeValue, Row

\* Version 0 is the version of no row and of no row only.
LEMMA VersionOfType ==
    \A r \in MaybeRow : VersionOf(r) \in Nat /\ (VersionOf(r) = 0 <=> r = NoRow)
BY NoRowAssumption DEF VersionOf, MaybeRow, Row

\* resolve returns a value of the snapshots, the default or nothing.
LEMMA ResolveType ==
    ASSUME NEW s \in Scopes, NEW values \in [Scopes -> MaybeValue], NEW locked
    PROVE  Resolve(s, values, locked) \in MaybeValue
BY DataAssumption DEF Resolve, MaybeValue

\* Records of the shape that the handlers write.
LEMMA RecordType ==
    ASSUME NEW action \in {"set", "delete", "lock", "unlock", "migrate"},
           NEW old \in MaybeValue, NEW new \in MaybeValue
    PROVE  Record(action, old, new) \in AuditRecord
BY DEF Record, AuditRecord

\* An idle worker and a request cannot be confused.
LEMMA AtRequest ==
    ASSUME TypeOK, NEW w \in Workers, req[w] # NoRequest
    PROVE  req[w] \in Request /\ Consistent(req[w])
BY DEF TypeOK

-----------------------------------------------------------------------------
(* Types *)

LEMMA InitTypeOK == Init => TypeOK
<1> SUFFICES ASSUME Init PROVE TypeOK
  OBVIOUS
<1>1. PICK strays \in SUBSET (Scopes \ Allowed), v \in Values, a \in Actors :
        /\ settings = [s \in Scopes |-> IF s \in strays
                          THEN [value |-> v, version |-> 1, by |-> a] ELSE NoRow]
        /\ audit = [s \in Scopes |-> IF s \in strays
                       THEN <<Record("set", Absent, v)>> ELSE <<>>]
  BY DEF Init
<1>2. settings \in [Scopes -> MaybeRow]
  BY <1>1 DEF MaybeRow, Row, Identities
<1>3. Record("set", Absent, v) \in AuditRecord
  BY RecordType DEF MaybeValue
<1>4. audit \in [Scopes -> Seq(AuditRecord)]
  BY <1>1, <1>3
<1>5. QED
  BY <1>2, <1>4 DEF Init, TypeOK

\* One lemma per action: it preserves the types.
LEMMA SendTypeOK == ASSUME TypeOK, NEW w \in Workers, Send(w) PROVE TypeOK'
<1>1. PICK op \in Ops \ {"migrate"}, a \in Actors, s \in Scopes :
        \E v \in IF op = "put" THEN Values ELSE {Absent} :
        \E m \in IF op = "put" THEN {0, VersionOf(settings[s])} ELSE {0} :
          req' = [req EXCEPT ![w] =
                    [pc |-> IF op = "lock" THEN "values" ELSE "check",
                     op |-> op, actor |-> a, scope |-> s, value |-> v, ifMatch |-> m,
                     seen |-> IF op = "put" THEN settings[s] ELSE NoRow,
                     values |-> [t \in Scopes |-> Absent], effective |-> Absent,
                     row |-> NoRow, held |-> FALSE]]
  BY DEF Send
<1>2. PICK v \in IF op = "put" THEN Values ELSE {Absent},
           m \in IF op = "put" THEN {0, VersionOf(settings[s])} ELSE {0} :
          req' = [req EXCEPT ![w] =
                    [pc |-> IF op = "lock" THEN "values" ELSE "check",
                     op |-> op, actor |-> a, scope |-> s, value |-> v, ifMatch |-> m,
                     seen |-> IF op = "put" THEN settings[s] ELSE NoRow,
                     values |-> [t \in Scopes |-> Absent], effective |-> Absent,
                     row |-> NoRow, held |-> FALSE]]
  BY <1>1
<1>3. settings[s] \in MaybeRow /\ VersionOf(settings[s]) \in Nat
  BY VersionOfType DEF TypeOK
<1>4. v \in MaybeValue /\ (op = "put" => v \in Values) /\ m \in Nat
      /\ op \in AllOps /\ op # "migrate" /\ a \in Identities
  BY <1>2, <1>3, DataAssumption DEF MaybeValue, Identities
<1> DEFINE r == [pc |-> IF op = "lock" THEN "values" ELSE "check",
                 op |-> op, actor |-> a, scope |-> s, value |-> v, ifMatch |-> m,
                 seen |-> IF op = "put" THEN settings[s] ELSE NoRow,
                 values |-> [t \in Scopes |-> Absent], effective |-> Absent,
                 row |-> NoRow, held |-> FALSE]
<1>5. r \in Request
  BY <1>3, <1>4 DEF Request, Phases, MaybeRow, MaybeValue
<1>6. Consistent(r)
  BY <1>4 DEF Consistent
<1>7. req' = [req EXCEPT ![w] = r]
  BY <1>2
<1> HIDE DEF r
<1>8. UNCHANGED <<settings, locks, audit>> /\ sent' \in Nat
  BY DEF Send, TypeOK
<1>9. QED
  BY <1>5, <1>6, <1>7, <1>8 DEF TypeOK

LEMMA StartMigrationTypeOK ==
    ASSUME TypeOK, NEW w \in Workers, StartMigration(w) PROVE TypeOK'
<1> DEFINE r(s, v) ==
             [pc |-> "load", op |-> "migrate", actor |-> "migration", scope |-> s,
              value |-> v, ifMatch |-> 0, seen |-> NoRow,
              values |-> [t \in Scopes |-> Absent], effective |-> Absent,
              row |-> NoRow, held |-> FALSE]
<1>1. PICK s \in UserScopes \cap Allowed, v \in Values : req' = [req EXCEPT ![w] = r(s, v)]
  BY DEF StartMigration
<1>2. s \in Scopes
  BY ScopesAssumption
<1>3. r(s, v) \in Request
  BY <1>2 DEF Request, Phases, AllOps, Identities, MaybeRow, MaybeValue
<1>4. Consistent(r(s, v))
  BY DEF Consistent
<1> HIDE DEF r
<1>5. UNCHANGED <<settings, locks, audit>> /\ sent' \in Nat
  BY DEF StartMigration, TypeOK
<1>6. QED
  BY <1>1, <1>3, <1>4, <1>5 DEF TypeOK

\* Replacing the request of one worker keeps the types when nothing else moves.
LEMMA RequestStep ==
    ASSUME TypeOK, NEW w \in Workers, NEW r \in Request \cup {NoRequest},
           r # NoRequest => Consistent(r),
           req' = [req EXCEPT ![w] = r],
           UNCHANGED <<settings, locks, audit, sent>>
    PROVE  TypeOK'
BY DEF TypeOK

LEMMA AnswerTypeOK ==
    ASSUME TypeOK, NEW w \in Workers, Answer(w),
           UNCHANGED <<settings, locks, audit, sent>>
    PROVE  TypeOK'
BY RequestStep DEF Answer

LEMMA ReadValuesTypeOK == ASSUME TypeOK, NEW w \in Workers, ReadValues(w) PROVE TypeOK'
<1> DEFINE values == [t \in Scopes |-> IF t \in Chain[req[w].scope]
                                          THEN ValueOf(settings[t]) ELSE Absent]
           r == [req[w] EXCEPT !.pc = "check", !.values = values]
<1>1. req[w] \in Request /\ Consistent(req[w])
  BY AtRequest DEF ReadValues, At
<1>2. values \in [Scopes -> MaybeValue]
  BY ValueOfType DEF TypeOK, MaybeValue
<1>3. req' = [req EXCEPT ![w] = r]
  BY DEF ReadValues
<1> HIDE DEF values
<1>4. r \in Request /\ Consistent(r)
  BY <1>1, <1>2 DEF Request, Phases, Consistent
<1>5. QED
  BY <1>3, <1>4, RequestStep DEF ReadValues

LEMMA CheckTypeOK == ASSUME TypeOK, NEW w \in Workers, Check(w) PROVE TypeOK'
<1> DEFINE locked == locks \cap Chain[req[w].scope]
           effective == IF req[w].op = "lock"
                          THEN Resolve(req[w].scope, req[w].values, locked) ELSE Absent
           r == [req[w] EXCEPT !.pc = IF req[w].op = "unlock" THEN "loadlock" ELSE "load",
                               !.values = [t \in Scopes |-> Absent],
                               !.effective = effective]
<1>1. req[w] \in Request /\ Consistent(req[w])
  BY AtRequest DEF Check, At
<1>2. effective \in MaybeValue
  BY <1>1, ResolveType DEF Request, MaybeValue
<1>3. Answer(w) \/ req' = [req EXCEPT ![w] = r]
  BY DEF Check
<1> HIDE DEF effective
<1>4. r \in Request /\ Consistent(r)
  BY <1>1, <1>2 DEF Request, Phases, Consistent, MaybeValue
<1>5. QED
  BY <1>3, <1>4, RequestStep, AnswerTypeOK DEF Check

LEMMA LoadRowTypeOK == ASSUME TypeOK, NEW w \in Workers, LoadRow(w) PROVE TypeOK'
<1> DEFINE row == settings[req[w].scope]
           r == [req[w] EXCEPT !.pc = IF req[w].op = "lock" THEN "loadlock" ELSE "commit",
                               !.row = row]
<1>1. req[w] \in Request /\ Consistent(req[w])
  BY AtRequest DEF LoadRow, At
<1>2. row \in MaybeRow
  BY <1>1 DEF TypeOK, Request
<1>3. \/ Answer(w)
      \/ req' = [req EXCEPT ![w] = r] /\ ~(req[w].op = "delete" /\ row = NoRow)
  BY DEF LoadRow
<1> HIDE DEF row
<1>4. r \in Request
  BY <1>1, <1>2 DEF Request, Phases
<1>5. ~(req[w].op = "delete" /\ row = NoRow) => Consistent(r)
  BY <1>1 DEF Request, Consistent
<1>6. QED
  BY <1>3, <1>4, <1>5, RequestStep, AnswerTypeOK DEF LoadRow

LEMMA LoadLockTypeOK == ASSUME TypeOK, NEW w \in Workers, LoadLock(w) PROVE TypeOK'
<1> DEFINE held == req[w].scope \in locks
           r == [req[w] EXCEPT !.pc = "commit", !.held = held]
<1>1. req[w] \in Request /\ Consistent(req[w])
  BY AtRequest DEF LoadLock, At
<1>2. Answer(w) \/ req' = [req EXCEPT ![w] = r]
  BY DEF LoadLock
<1>3. req[w].op \in {"lock", "unlock"}
  BY <1>1 DEF LoadLock, At, Consistent
<1> held \in BOOLEAN
  OBVIOUS
<1> HIDE DEF held
<1>4. r \in Request
  BY <1>1 DEF Request, Phases
<1>5. Consistent(r)
  BY <1>1, <1>3 DEF Request, Consistent
<1>6. QED
  BY <1>2, <1>4, <1>5, RequestStep, AnswerTypeOK DEF LoadLock
\* A transaction that commits: the request moves on to its event.
LEMMA CommittedTypeOK ==
    ASSUME TypeOK, NEW w \in Workers, req[w] # NoRequest,
           NEW records \in Seq(AuditRecord), Committed(w, records),
           settings' \in [Scopes -> MaybeRow], locks' \subseteq Scopes, UNCHANGED sent
    PROVE  TypeOK'
<1> DEFINE r == [req[w] EXCEPT !.pc = "publish"]
<1>1. req[w] \in Request /\ Consistent(req[w])
  BY AtRequest
<1>2. r \in Request /\ Consistent(r)
  BY <1>1 DEF Request, Phases, Consistent
<1>3. req' = [req EXCEPT ![w] = r]
  BY DEF Committed
<1>4. audit[req[w].scope] \o records \in Seq(AuditRecord)
  BY <1>1, ConcatProperties DEF TypeOK, Request
<1>5. audit' \in [Scopes -> Seq(AuditRecord)]
  BY <1>4 DEF TypeOK, Committed
<1> HIDE DEF r
<1>6. QED
  BY <1>2, <1>3, <1>5 DEF TypeOK

LEMMA RollbackTypeOK ==
    ASSUME TypeOK, NEW w \in Workers, Rollback(w), UNCHANGED sent
    PROVE  TypeOK'
BY AnswerTypeOK DEF Rollback

\* What SetRecord and the two ways of writing a row produce.
LEMMA PutType ==
    ASSUME TypeOK, NEW w \in Workers, AtOp(w, "commit", "put")
    PROVE  /\ SetRecord(req[w]) \in AuditRecord
           /\ \A v \in Values, s \in Scopes, a \in Identities :
                Inserts(s, v, a) => settings' \in [Scopes -> MaybeRow]
           /\ req[w].value \in Values /\ req[w].actor \in Identities /\ req[w].scope \in Scopes
           /\ req[w].row \in MaybeRow
<1>1. req[w] \in Request /\ Consistent(req[w]) /\ req[w].op = "put"
  BY AtRequest DEF AtOp, At
<1>2. /\ req[w].value \in Values /\ req[w].actor \in Identities
      /\ req[w].scope \in Scopes /\ req[w].row \in MaybeRow
  BY <1>1 DEF Request, Consistent
<1>3. SetRecord(req[w]) \in AuditRecord
  BY <1>2, ValueOfType, RecordType DEF SetRecord, MaybeValue
<1>4. ASSUME NEW v \in Values, NEW s \in Scopes, NEW a \in Identities, Inserts(s, v, a)
      PROVE  settings' \in [Scopes -> MaybeRow]
  BY <1>4 DEF Inserts, TypeOK, MaybeRow, Row
<1>5. QED
  BY <1>2, <1>3, <1>4

LEMMA CommitPutTypeOK == ASSUME TypeOK, NEW w \in Workers, CommitPut(w) PROVE TypeOK'
<1> DEFINE r == req[w]
           current == settings[r.scope]
<1>1. AtOp(w, "commit", "put") /\ req[w] # NoRequest /\ UNCHANGED sent
  BY DEF CommitPut, AtOp, At
<1>2. /\ r.value \in Values /\ r.actor \in Identities /\ r.scope \in Scopes
      /\ r.row \in MaybeRow /\ <<SetRecord(r)>> \in Seq(AuditRecord)
  BY <1>1, PutType
<1>3. settings \in [Scopes -> MaybeRow] /\ locks \subseteq Scopes /\ current \in MaybeRow
  BY <1>2 DEF TypeOK
<1>4. CASE Rollback(w)
  BY <1>1, <1>4, RollbackTypeOK
<1>5. CASE Committed(w, <<SetRecord(r)>>) /\ UNCHANGED <<settings, locks>>
  BY <1>1, <1>2, <1>3, <1>5, CommittedTypeOK
<1>6. CASE /\ Inserts(r.scope, r.value, r.actor)
           /\ Committed(w, <<SetRecord(r)>>) /\ UNCHANGED locks
  <2>1. settings' \in [Scopes -> MaybeRow]
    BY <1>1, <1>2, <1>6, PutType
  <2>2. QED
    BY <1>1, <1>2, <1>3, <1>6, <2>1, CommittedTypeOK
<1>7. CASE /\ r.row # NoRow /\ VersionOf(current) = r.row.version
           /\ settings' = [settings EXCEPT ![r.scope] = Updated(r, current)]
           /\ Committed(w, <<SetRecord(r)>>) /\ UNCHANGED locks
  <2>1. r.row \in Row
    BY <1>2, <1>7 DEF MaybeRow
  <2>2. current \in Row
    BY <1>3, <1>7, <2>1, VersionOfType DEF MaybeRow, Row
  <2>3. Updated(r, current) \in Row
    BY <1>2, <2>1, <2>2 DEF Updated, Row
  <2>4. settings' \in [Scopes -> MaybeRow]
    BY <1>3, <1>7, <2>3 DEF MaybeRow
  <2>5. QED
    BY <1>1, <1>2, <1>3, <1>7, <2>4, CommittedTypeOK
<1>8. QED
  BY <1>4, <1>5, <1>6, <1>7 DEF CommitPut

LEMMA CommitDeleteTypeOK == ASSUME TypeOK, NEW w \in Workers, CommitDelete(w) PROVE TypeOK'
<1>1. req[w] \in Request /\ Consistent(req[w]) /\ req[w] # NoRequest /\ UNCHANGED sent
  BY AtRequest DEF CommitDelete, AtOp, At
<1>2. req[w].row \in Row
  BY <1>1 DEF CommitDelete, AtOp, At, Consistent, Request, MaybeRow
<1>3. <<Record("delete", req[w].row.value, Absent)>> \in Seq(AuditRecord)
  BY <1>2, RecordType DEF Row, MaybeValue
<1>4. CASE Rollback(w)
  BY <1>1, <1>4, RollbackTypeOK
<1>5. CASE /\ settings' = [settings EXCEPT ![req[w].scope] = NoRow]
           /\ Committed(w, <<Record("delete", req[w].row.value, Absent)>>)
           /\ UNCHANGED locks
  <2>1. settings' \in [Scopes -> MaybeRow] /\ locks' \subseteq Scopes
    BY <1>5 DEF TypeOK, MaybeRow
  <2>2. QED
    BY <1>1, <1>3, <1>5, <2>1, CommittedTypeOK
<1>6. QED
  BY <1>4, <1>5 DEF CommitDelete

LEMMA CommitLockTypeOK == ASSUME TypeOK, NEW w \in Workers, CommitLock(w) PROVE TypeOK'
<1> DEFINE r == req[w]
           record == Record("lock", Absent, Absent)
           setRecord == Record("set", Absent, r.effective)
<1>1. r \in Request /\ r # NoRequest /\ UNCHANGED sent
  BY AtRequest DEF CommitLock, AtOp, At
<1>2. record \in AuditRecord /\ setRecord \in AuditRecord
  BY <1>1, RecordType DEF Request, MaybeValue
<1>3. <<record>> \in Seq(AuditRecord) /\ <<setRecord, record>> \in Seq(AuditRecord)
  BY <1>2
<1>4. settings \in [Scopes -> MaybeRow] /\ locks \cup {r.scope} \subseteq Scopes
  BY <1>1 DEF TypeOK, Request
<1>5. CASE Rollback(w)
  BY <1>1, <1>5, RollbackTypeOK
<1>6. CASE /\ locks' = locks \cup {r.scope}
           /\ Committed(w, <<record>>) /\ UNCHANGED settings
  BY <1>1, <1>3, <1>4, <1>6, CommittedTypeOK
<1>7. CASE /\ locks' = locks \cup {r.scope} /\ Freezes(r)
           /\ Inserts(r.scope, r.effective, r.actor)
           /\ Committed(w, <<setRecord, record>>)
  <2>1. settings' \in [Scopes -> MaybeRow]
    BY <1>1, <1>7 DEF Inserts, Freezes, TypeOK, Request, MaybeRow, MaybeValue, Row
  <2>2. QED
    BY <1>1, <1>3, <1>4, <1>7, <2>1, CommittedTypeOK
<1>8. QED
  BY <1>5, <1>6, <1>7 DEF CommitLock

LEMMA CommitUnlockTypeOK == ASSUME TypeOK, NEW w \in Workers, CommitUnlock(w) PROVE TypeOK'
<1>1. req[w] # NoRequest /\ Record("unlock", Absent, Absent) \in AuditRecord
  BY RecordType DEF CommitUnlock, AtOp, At, MaybeValue
<1>2. settings' \in [Scopes -> MaybeRow] /\ locks' \subseteq Scopes
  BY DEF CommitUnlock, TypeOK
<1>3. <<Record("unlock", Absent, Absent)>> \in Seq(AuditRecord)
  BY <1>1
<1>4. Committed(w, <<Record("unlock", Absent, Absent)>>) /\ UNCHANGED sent
  BY DEF CommitUnlock
<1>5. QED
  BY <1>1, <1>2, <1>3, <1>4, CommittedTypeOK

\* What the transaction of a migration does, when it commits.
LEMMA MigrateType ==
    ASSUME TypeOK, NEW w \in Workers, CommitMigrate(w)
    PROVE  /\ req[w] # NoRequest /\ req[w].scope \in Scopes /\ req[w].value \in Values
           /\ Record("migrate", Absent, req[w].value) \in AuditRecord
           /\ \/ Rollback(w)
              \/ /\ settings[req[w].scope] = NoRow
                 /\ settings' = [settings EXCEPT ![req[w].scope] =
                                   [value |-> req[w].value, version |-> 1, by |-> "migration"]]
                 /\ settings' \in [Scopes -> MaybeRow]
                 /\ Committed(w, <<Record("migrate", Absent, req[w].value)>>)
                 /\ UNCHANGED locks
<1>1. req[w] # NoRequest /\ req[w] \in Request /\ Consistent(req[w])
  BY AtRequest DEF CommitMigrate, AtOp, At
<1>2. req[w].scope \in Scopes /\ req[w].value \in Values
  BY <1>1 DEF Request, Consistent, CommitMigrate, AtOp
<1>3. Record("migrate", Absent, req[w].value) \in AuditRecord
  BY <1>2, RecordType DEF MaybeValue
<1>4. [value |-> req[w].value, version |-> 1, by |-> "migration"] \in MaybeRow
  BY <1>2 DEF MaybeRow, Row, Identities
<1>5. QED
  BY <1>1, <1>2, <1>3, <1>4 DEF CommitMigrate, Inserts, TypeOK

LEMMA CommitMigrateTypeOK ==
    ASSUME TypeOK, NEW w \in Workers, CommitMigrate(w) PROVE TypeOK'
<1> DEFINE rec == Record("migrate", Absent, req[w].value)
<1>1. req[w] # NoRequest /\ rec \in AuditRecord /\ UNCHANGED sent
  BY MigrateType DEF CommitMigrate
<1>2. <<rec>> \in Seq(AuditRecord)
  BY <1>1
<1>3. CASE Rollback(w)
  BY <1>1, <1>3, RollbackTypeOK
<1>4. CASE /\ settings' \in [Scopes -> MaybeRow] /\ Committed(w, <<rec>>)
           /\ UNCHANGED locks
  <2>1. locks' \subseteq Scopes
    BY <1>4 DEF TypeOK
  <2>2. QED
    BY <1>1, <1>2, <1>4, <2>1, CommittedTypeOK
<1>5. QED
  BY <1>3, <1>4, MigrateType

LEMMA StepTypeOK == TypeOK /\ [Next]_vars => TypeOK'
<1> SUFFICES ASSUME TypeOK, [Next]_vars PROVE TypeOK'
  OBVIOUS
<1>1. CASE UNCHANGED vars
  BY <1>1 DEF vars, TypeOK
<1>2. ASSUME NEW w \in Workers, Begin(w) \/ Handle(w) \/ Publish(w) \/ Crash(w)
      PROVE  TypeOK'
  <2>1. CASE Publish(w) \/ Crash(w)
    BY <2>1, AnswerTypeOK DEF Publish, Crash
  <2>2. CASE Begin(w)
    BY <2>2, SendTypeOK, StartMigrationTypeOK DEF Begin
  <2>3. CASE Handle(w)
    BY <2>3, ReadValuesTypeOK, CheckTypeOK, LoadRowTypeOK, LoadLockTypeOK,
       CommitPutTypeOK, CommitDeleteTypeOK, CommitLockTypeOK, CommitUnlockTypeOK,
       CommitMigrateTypeOK DEF Handle, Commit
  <2>4. QED
    BY <1>2, <2>1, <2>2, <2>3
<1>3. QED
  BY <1>1, <1>2 DEF Next

\* The handlers keep every table and every request well formed, whatever the
\* interleaving of the workers.
THEOREM TypeCorrect == Spec => []TypeOK
<1>1. QED
  BY InitTypeOK, StepTypeOK, PTL DEF Spec

-----------------------------------------------------------------------------
(* The audit trail *)

\* Appending one record keeps the others where they are.
LEMMA OneMore ==
    ASSUME NEW trail \in Seq(AuditRecord), NEW rec \in AuditRecord
    PROVE  /\ DOMAIN trail = 1 .. Len(trail) /\ Len(trail) \in Nat
           /\ DOMAIN (trail \o <<rec>>) = 1 .. Len(trail) + 1
           /\ \A i \in 1 .. Len(trail) : (trail \o <<rec>>)[i] = trail[i]
           /\ (trail \o <<rec>>)[Len(trail) + 1] = rec
           /\ trail \o <<rec>> \in Seq(AuditRecord)
<1>1. <<rec>> \in Seq(AuditRecord) /\ Len(<<rec>>) = 1 /\ <<rec>>[1] = rec
  OBVIOUS
<1>2. QED
  BY <1>1, ConcatProperties

\* Appending two records is appending the one, then the other.
LEMMA TwoRecords ==
    ASSUME NEW trail \in Seq(AuditRecord), NEW a \in AuditRecord, NEW b \in AuditRecord
    PROVE  trail \o <<a, b>> = (trail \o <<a>>) \o <<b>>
<1> DEFINE left == trail \o <<a, b>>
           right == (trail \o <<a>>) \o <<b>>
<1>1. /\ <<a, b>> \in Seq(AuditRecord) /\ Len(<<a, b>>) = 2
      /\ <<a, b>>[1] = a /\ <<a, b>>[2] = b
  OBVIOUS
<1>2. /\ left \in Seq(AuditRecord) /\ Len(trail) \in Nat
      /\ Len(left) = Len(trail) + 2
      /\ \A i \in 1 .. Len(trail) + 2 :
           left[i] = IF i <= Len(trail) THEN trail[i] ELSE <<a, b>>[i - Len(trail)]
  BY <1>1, ConcatProperties
<1>3. /\ trail \o <<a>> \in Seq(AuditRecord)
      /\ Len(trail \o <<a>>) = Len(trail) + 1
      /\ \A i \in 1 .. Len(trail) : (trail \o <<a>>)[i] = trail[i]
      /\ (trail \o <<a>>)[Len(trail) + 1] = a
  BY OneMore
<1>4. /\ right \in Seq(AuditRecord) /\ Len(right) = Len(trail) + 2
      /\ \A i \in 1 .. Len(trail) + 1 : right[i] = (trail \o <<a>>)[i]
      /\ right[Len(trail) + 2] = b
  BY <1>2, <1>3, OneMore
<1> HIDE DEF left, right
<1>5. \A i \in 1 .. Len(left) : left[i] = right[i]
  <2>1. TAKE i \in 1 .. Len(left)
  <2>2. CASE i <= Len(trail)
    BY <1>2, <1>3, <1>4, <2>2
  <2>3. CASE i = Len(trail) + 1
    BY <1>1, <1>2, <1>3, <1>4, <2>3
  <2>4. CASE i = Len(trail) + 2
    BY <1>1, <1>2, <1>4, <2>4
  <2>5. QED
    BY <1>2, <2>2, <2>3, <2>4
<1>6. left = right
  BY <1>2, <1>4, <1>5, SeqEqual
<1>7. QED
  BY <1>6 DEF left, right

\* A record that changes nothing leaves the explanation as it was.
LEMMA ExplainsKept ==
    ASSUME NEW trail \in Seq(AuditRecord), NEW rec \in AuditRecord, NEW value,
           Explains(trail, value), ~Changing(rec)
    PROVE  Explains(trail \o <<rec>>, value)
<1> DEFINE longer == trail \o <<rec>>
<1>1. /\ DOMAIN trail = 1 .. Len(trail) /\ Len(trail) \in Nat
      /\ DOMAIN longer = 1 .. Len(trail) + 1
      /\ \A i \in 1 .. Len(trail) : longer[i] = trail[i]
      /\ longer[Len(trail) + 1] = rec
  BY OneMore
<1> HIDE DEF longer
<1>2. \A j \in DOMAIN longer : j \in DOMAIN trail \/ j = Len(trail) + 1
  BY <1>1
<1>3. CASE value = Absent /\ \A j \in DOMAIN trail : ~Changing(trail[j])
  <2>1. \A j \in DOMAIN longer : ~Changing(longer[j])
    BY <1>1, <1>2, <1>3
  <2>2. QED
    BY <1>3, <2>1 DEF Explains, longer
<1>4. CASE \E i \in DOMAIN trail : LastChange(trail, i) /\ trail[i].new = value
  <2>1. PICK i \in DOMAIN trail : LastChange(trail, i) /\ trail[i].new = value
    BY <1>4
  <2>2. i \in DOMAIN longer /\ longer[i] = trail[i]
    BY <1>1
  <2>3. \A j \in DOMAIN longer : j > i => ~Changing(longer[j])
    BY <1>1, <1>2, <2>1 DEF LastChange
  <2>4. LastChange(longer, i)
    BY <2>1, <2>2, <2>3 DEF LastChange
  <2>5. QED
    BY <2>1, <2>2, <2>4 DEF Explains, longer
<1>5. QED
  BY <1>3, <1>4 DEF Explains

\* A record of a change explains the value it names.
LEMMA ExplainsNew ==
    ASSUME NEW trail \in Seq(AuditRecord), NEW rec \in AuditRecord, Changing(rec)
    PROVE  Explains(trail \o <<rec>>, rec.new)
<1> DEFINE longer == trail \o <<rec>>
           last == Len(trail) + 1
<1>1. /\ Len(trail) \in Nat /\ DOMAIN longer = 1 .. last /\ longer[last] = rec
  BY OneMore
<1> HIDE DEF longer
<1>2. last \in DOMAIN longer /\ \A j \in DOMAIN longer : ~(j > last)
  BY <1>1
<1>3. LastChange(longer, last)
  BY <1>1, <1>2 DEF LastChange
<1>4. QED
  BY <1>1, <1>2, <1>3 DEF Explains, longer

\* What a commit adds to the trail of its own scope, and to no other.
LEMMA CommittedTrail ==
    ASSUME TypeOK, NEW w \in Workers, req[w] # NoRequest,
           NEW records \in Seq(AuditRecord), Committed(w, records)
    PROVE  /\ req[w].scope \in Scopes
           /\ audit[req[w].scope] \in Seq(AuditRecord)
           /\ audit'[req[w].scope] = audit[req[w].scope] \o records
           /\ \A s \in Scopes \ {req[w].scope} : audit'[s] = audit[s]
BY AtRequest DEF Committed, TypeOK, Request

\* A commit of one record that either explains the new value or changes none.
LEMMA OneRecordExplains ==
    ASSUME TypeOK, AuditExplainsValue, NEW w \in Workers, req[w] # NoRequest,
           NEW rec \in AuditRecord, Committed(w, <<rec>>),
           \A s \in Scopes \ {req[w].scope} : settings'[s] = settings[s],
           \/ Changing(rec) /\ ValueOf(settings'[req[w].scope]) = rec.new
           \/ /\ ~Changing(rec)
              /\ ValueOf(settings'[req[w].scope]) = ValueOf(settings[req[w].scope])
    PROVE  AuditExplainsValue'
<1> DEFINE own == req[w].scope
<1>1. <<rec>> \in Seq(AuditRecord)
  OBVIOUS
<1>2. /\ own \in Scopes
      /\ audit[own] \in Seq(AuditRecord)
      /\ audit'[own] = audit[own] \o <<rec>>
      /\ \A s \in Scopes \ {own} : audit'[s] = audit[s]
  BY <1>1, CommittedTrail
<1>3. Explains(audit[own], ValueOf(settings[own]))
  BY <1>2 DEF AuditExplainsValue
<1>4. Explains(audit'[own], ValueOf(settings'[own]))
  BY <1>2, <1>3, ExplainsKept, ExplainsNew
<1>5. \A s \in Scopes \ {own} : Explains(audit'[s], ValueOf(settings'[s]))
  BY <1>2 DEF AuditExplainsValue, ValueOf
<1>6. QED
  BY <1>4, <1>5 DEF AuditExplainsValue, ValueOf

LEMMA PutExplains ==
    ASSUME TypeOK, AuditExplainsValue, NEW w \in Workers, CommitPut(w)
    PROVE  AuditExplainsValue'
<1> DEFINE r == req[w]
           current == settings[r.scope]
           rec == SetRecord(r)
<1>1. AtOp(w, "commit", "put") /\ r # NoRequest
  BY DEF CommitPut, AtOp, At
<1>2. /\ r.value \in Values /\ r.actor \in Identities /\ r.scope \in Scopes
      /\ r.row \in MaybeRow /\ rec \in AuditRecord
  BY <1>1, PutType
<1>3. settings \in [Scopes -> MaybeRow] /\ current \in MaybeRow
  BY <1>2 DEF TypeOK
<1>4. rec.old = ValueOf(r.row) /\ rec.new = r.value
  BY DEF SetRecord, Record
<1>5. CASE Rollback(w)
  BY <1>5 DEF Rollback, AuditExplainsValue, ValueOf
<1>6. CASE /\ r.row # NoRow /\ ~Dirty(r)
           /\ Committed(w, <<rec>>) /\ UNCHANGED <<settings, locks>>
  <2>1. ~Changing(rec)
    BY <1>4, <1>6 DEF Changing, Dirty, ValueOf
  <2>2. QED
    BY <1>1, <1>2, <1>6, <2>1, OneRecordExplains DEF ValueOf
<1>7. CASE /\ r.row = NoRow /\ Inserts(r.scope, r.value, r.actor)
           /\ Committed(w, <<rec>>)
  <2>1. Changing(rec)
    BY <1>2, <1>4, <1>7, DataAssumption DEF Changing, ValueOf
  <2>2. /\ settings'[r.scope] = [value |-> r.value, version |-> 1, by |-> r.actor]
        /\ \A s \in Scopes \ {r.scope} : settings'[s] = settings[s]
    BY <1>2, <1>3, <1>7 DEF Inserts
  <2>3. settings'[r.scope] \in Row
    BY <1>2, <2>2 DEF Row
  <2>4. ValueOf(settings'[r.scope]) = rec.new
    BY <1>4, <2>2, <2>3, NoRowAssumption DEF ValueOf
  <2>5. QED
    BY <1>1, <1>2, <1>7, <2>1, <2>2, <2>4, OneRecordExplains
<1>8. CASE /\ r.row # NoRow /\ VersionOf(current) = r.row.version
           /\ settings' = [settings EXCEPT ![r.scope] = Updated(r, current)]
           /\ Committed(w, <<rec>>)
  <2>1. r.row \in Row /\ current \in Row
    BY <1>2, <1>3, <1>8, VersionOfType DEF MaybeRow, Row
  <2>2. Updated(r, current) \in Row
    BY <1>2, <2>1 DEF Updated, Row
  <2>3. /\ settings'[r.scope] = Updated(r, current)
        /\ \A s \in Scopes \ {r.scope} : settings'[s] = settings[s]
    BY <1>2, <1>3, <1>8
  <2>4. ValueOf(settings'[r.scope]) = Updated(r, current).value
    BY <2>2, <2>3, NoRowAssumption DEF ValueOf
  <2>5. \/ Changing(rec) /\ Updated(r, current).value = rec.new
        \/ ~Changing(rec) /\ Updated(r, current).value = ValueOf(current)
    BY <1>4, <1>8, <2>1, NoRowAssumption DEF Changing, Updated, ValueOf
  <2>6. QED
    BY <1>1, <1>2, <1>8, <2>3, <2>4, <2>5, OneRecordExplains
<1>9. QED
  BY <1>5, <1>6, <1>7, <1>8 DEF CommitPut

LEMMA DeleteExplains ==
    ASSUME TypeOK, AuditExplainsValue, NEW w \in Workers, CommitDelete(w)
    PROVE  AuditExplainsValue'
<1> DEFINE r == req[w]
           rec == Record("delete", r.row.value, Absent)
<1>1. r \in Request /\ Consistent(r) /\ r # NoRequest
  BY AtRequest DEF CommitDelete, AtOp, At
<1>2. r.row \in Row
  BY <1>1 DEF CommitDelete, AtOp, At, Consistent, Request, MaybeRow
<1>3. r.row.value \in Values /\ rec \in AuditRecord
  BY <1>2, RecordType DEF Row, MaybeValue
<1>4. Changing(rec) /\ rec.new = Absent
  BY <1>3, DataAssumption DEF Changing, Record
<1>5. CASE Rollback(w)
  BY <1>5 DEF Rollback, AuditExplainsValue, ValueOf
<1>6. CASE /\ settings' = [settings EXCEPT ![r.scope] = NoRow]
           /\ Committed(w, <<rec>>)
  <2>1. ValueOf(settings'[r.scope]) = Absent
    BY <1>1, <1>6 DEF TypeOK, Request, ValueOf
  <2>2. \A s \in Scopes \ {r.scope} : settings'[s] = settings[s]
    BY <1>6 DEF TypeOK
  <2>3. QED
    BY <1>1, <1>3, <1>4, <1>6, <2>1, <2>2, OneRecordExplains
<1>7. QED
  BY <1>5, <1>6 DEF CommitDelete

LEMMA LockExplains ==
    ASSUME TypeOK, AuditExplainsValue, NEW w \in Workers, CommitLock(w)
    PROVE  AuditExplainsValue'
<1> DEFINE r == req[w]
           rec == Record("lock", Absent, Absent)
           setRec == Record("set", Absent, r.effective)
<1>1. r \in Request /\ r # NoRequest
  BY AtRequest DEF CommitLock, AtOp, At
<1>2. /\ rec \in AuditRecord /\ setRec \in AuditRecord
      /\ ~Changing(rec) /\ setRec.old = Absent /\ setRec.new = r.effective
  BY <1>1, RecordType DEF Request, MaybeValue, Changing, Record
<1>3. CASE Rollback(w)
  BY <1>3 DEF Rollback, AuditExplainsValue, ValueOf
<1>4. CASE Committed(w, <<rec>>) /\ UNCHANGED settings
  BY <1>1, <1>2, <1>4, OneRecordExplains DEF ValueOf
<1>5. CASE /\ Freezes(r) /\ Inserts(r.scope, r.effective, r.actor)
           /\ Committed(w, <<setRec, rec>>)
  <2> DEFINE own == r.scope
  <2>1. <<setRec, rec>> \in Seq(AuditRecord)
    BY <1>2
  <2>2. /\ own \in Scopes /\ audit[own] \in Seq(AuditRecord)
        /\ audit'[own] = audit[own] \o <<setRec, rec>>
        /\ \A s \in Scopes \ {own} : audit'[s] = audit[s]
    BY <1>1, <1>5, <2>1, CommittedTrail
  <2>3. audit[own] \o <<setRec, rec>> = (audit[own] \o <<setRec>>) \o <<rec>>
    BY <1>2, <2>2, TwoRecords
  <2>4. Changing(setRec)
    BY <1>2, <1>5 DEF Freezes, Changing
  <2>5. audit[own] \o <<setRec>> \in Seq(AuditRecord)
    BY <1>2, <2>2, OneMore
  <2>6. Explains(audit'[own], r.effective)
    BY <1>2, <2>2, <2>3, <2>4, <2>5, ExplainsNew, ExplainsKept
  <2>7. settings'[own] = [value |-> r.effective, version |-> 1, by |-> r.actor]
    BY <1>5, <2>2 DEF Inserts, TypeOK
  <2>8. settings'[own] \in Row
    BY <1>1, <1>5, <2>7 DEF Freezes, Request, MaybeValue, Row
  <2>9. ValueOf(settings'[own]) = r.effective
    BY <2>7, <2>8, NoRowAssumption DEF ValueOf
  <2>10. \A s \in Scopes \ {own} : settings'[s] = settings[s]
    BY <1>5 DEF Inserts, TypeOK
  <2>11. \A s \in Scopes \ {own} : Explains(audit'[s], ValueOf(settings'[s]))
    BY <2>2, <2>10 DEF AuditExplainsValue, ValueOf
  <2>12. QED
    BY <2>6, <2>9, <2>11 DEF AuditExplainsValue, ValueOf
<1>6. QED
  BY <1>3, <1>4, <1>5 DEF CommitLock

LEMMA UnlockExplains ==
    ASSUME TypeOK, AuditExplainsValue, NEW w \in Workers, CommitUnlock(w)
    PROVE  AuditExplainsValue'
<1> DEFINE rec == Record("unlock", Absent, Absent)
<1>1. req[w] # NoRequest /\ rec \in AuditRecord /\ ~Changing(rec)
  BY RecordType DEF CommitUnlock, AtOp, At, MaybeValue, Changing, Record
<1>2. Committed(w, <<rec>>) /\ UNCHANGED settings
  BY DEF CommitUnlock
<1>3. QED
  BY <1>1, <1>2, OneRecordExplains DEF ValueOf

LEMMA MigrateExplains ==
    ASSUME TypeOK, AuditExplainsValue, NEW w \in Workers, CommitMigrate(w)
    PROVE  AuditExplainsValue'
<1> DEFINE own == req[w].scope
           row == [value |-> req[w].value, version |-> 1, by |-> "migration"]
           rec == Record("migrate", Absent, req[w].value)
<1>1. /\ req[w] # NoRequest /\ own \in Scopes /\ req[w].value \in Values
      /\ rec \in AuditRecord
  BY MigrateType
<1>2. CASE Rollback(w)
  BY <1>2 DEF Rollback, AuditExplainsValue, ValueOf
<1>3. CASE settings' = [settings EXCEPT ![own] = row] /\ Committed(w, <<rec>>)
  <2>1. /\ settings'[own] = row
        /\ \A s \in Scopes \ {own} : settings'[s] = settings[s]
    BY <1>1, <1>3 DEF TypeOK
  <2>2. row \in Row
    BY <1>1 DEF Row, Identities
  <2>3. ValueOf(settings'[own]) = rec.new /\ Changing(rec)
    BY <1>1, <2>1, <2>2, NoRowAssumption, DataAssumption DEF ValueOf, Record, Changing
  <2>4. QED
    BY <1>1, <1>3, <2>1, <2>3, OneRecordExplains
<1>4. QED
  BY <1>2, <1>3, MigrateType

LEMMA InitExplains == Init => AuditExplainsValue
<1> SUFFICES ASSUME Init, NEW s \in Scopes PROVE Explains(audit[s], ValueOf(settings[s]))
  BY DEF AuditExplainsValue
<1>1. PICK strays \in SUBSET (Scopes \ Allowed), v \in Values, a \in Actors :
        /\ settings = [t \in Scopes |-> IF t \in strays
                          THEN [value |-> v, version |-> 1, by |-> a] ELSE NoRow]
        /\ audit = [t \in Scopes |-> IF t \in strays
                       THEN <<Record("set", Absent, v)>> ELSE <<>>]
  BY DEF Init
<1>2. CASE s \in strays
  <2> DEFINE rec == Record("set", Absent, v)
             trail == <<rec>>
  <2>1. audit[s] = trail /\ settings[s] = [value |-> v, version |-> 1, by |-> a]
    BY <1>1, <1>2
  <2>2. settings[s] \in Row
    BY <2>1 DEF Row, Identities
  <2>3. ValueOf(settings[s]) = v
    BY <2>1, <2>2, NoRowAssumption DEF ValueOf
  <2>4. Changing(rec) /\ rec.new = v
    BY DataAssumption DEF Changing, Record
  <2> HIDE DEF rec
  <2>5. DOMAIN trail = {1} /\ trail[1] = rec
    OBVIOUS
  <2> HIDE DEF trail
  <2>6. LastChange(trail, 1)
    BY <2>4, <2>5 DEF LastChange
  <2>7. QED
    BY <2>1, <2>3, <2>4, <2>5, <2>6 DEF Explains
<1>3. CASE s \notin strays
  <2>1. audit[s] = <<>> /\ settings[s] = NoRow
    BY <1>1, <1>3
  <2>2. ValueOf(settings[s]) = Absent /\ DOMAIN audit[s] = {}
    BY <2>1 DEF ValueOf
  <2>3. QED
    BY <2>2 DEF Explains
<1>4. QED
  BY <1>2, <1>3

LEMMA StepExplains ==
    TypeOK /\ AuditExplainsValue /\ [Next]_vars => AuditExplainsValue'
<1> SUFFICES ASSUME TypeOK, AuditExplainsValue, [Next]_vars PROVE AuditExplainsValue'
  OBVIOUS
<1>1. CASE UNCHANGED <<settings, audit>>
  BY <1>1 DEF AuditExplainsValue, ValueOf
<1>2. ASSUME NEW w \in Workers, Commit(w)
      PROVE  AuditExplainsValue'
  BY <1>2, PutExplains, DeleteExplains, LockExplains, UnlockExplains, MigrateExplains
     DEF Commit
<1>3. QED
  BY <1>1, <1>2 DEF Next, Handle, Begin, Send, StartMigration, ReadValues, Check,
     LoadRow, LoadLock, Publish, Crash, vars

\* The audit trail explains every stored value although handlers write their
\* records from rows that may be outdated.
THEOREM TrailExplains == Spec => []AuditExplainsValue
<1>1. TypeOK /\ AuditExplainsValue /\ [Next]_vars => (TypeOK /\ AuditExplainsValue)'
  BY StepTypeOK, StepExplains
<1>2. QED
  BY InitTypeOK, InitExplains, <1>1, PTL DEF Spec

-----------------------------------------------------------------------------
(* Locks *)

\* Records of settings do not matter to the locks.
LEMMA LockedKept ==
    ASSUME NEW trail \in Seq(AuditRecord), NEW rec \in AuditRecord, ~LockRecord(rec)
    PROVE  LockedLast(trail \o <<rec>>) <=> LockedLast(trail)
<1> DEFINE longer == trail \o <<rec>>
<1>1. /\ DOMAIN trail = 1 .. Len(trail) /\ Len(trail) \in Nat
      /\ DOMAIN longer = 1 .. Len(trail) + 1
      /\ \A i \in 1 .. Len(trail) : longer[i] = trail[i]
      /\ longer[Len(trail) + 1] = rec
  BY OneMore
<1> HIDE DEF longer
<1>2. DOMAIN longer = DOMAIN trail \cup {Len(trail) + 1}
  BY <1>1
<1>3. rec.action # "lock"
  BY DEF LockRecord
<1>4. ASSUME LockedLast(trail) PROVE LockedLast(longer)
  BY <1>1, <1>2, <1>4 DEF LockedLast
<1>5. ASSUME LockedLast(longer) PROVE LockedLast(trail)
  BY <1>1, <1>2, <1>3, <1>5 DEF LockedLast
<1>6. QED
  BY <1>4, <1>5 DEF longer

\* A lock or unlock record decides alone.
LEMMA LockedNew ==
    ASSUME NEW trail \in Seq(AuditRecord), NEW rec \in AuditRecord, LockRecord(rec)
    PROVE  LockedLast(trail \o <<rec>>) <=> rec.action = "lock"
<1> DEFINE longer == trail \o <<rec>>
           last == Len(trail) + 1
<1>1. Len(trail) \in Nat /\ DOMAIN longer = 1 .. last /\ longer[last] = rec
  BY OneMore
<1> HIDE DEF longer
<1>2. last \in DOMAIN longer /\ \A j \in DOMAIN longer : j = last \/ last > j
  BY <1>1
<1>3. \A j \in DOMAIN longer : ~(j > last)
  BY <1>1
<1>4. ASSUME rec.action = "lock" PROVE LockedLast(longer)
  BY <1>1, <1>2, <1>3, <1>4 DEF LockedLast
<1>5. ASSUME LockedLast(longer) PROVE rec.action = "lock"
  BY <1>1, <1>2, <1>5 DEF LockedLast
<1>6. QED
  BY <1>4, <1>5 DEF longer

\* A commit of one record that agrees with what it does to the lock of its scope.
LEMMA OneRecordLocks ==
    ASSUME TypeOK, LockTrail, NEW w \in Workers, req[w] # NoRequest,
           NEW rec \in AuditRecord, Committed(w, <<rec>>),
           \A s \in Scopes \ {req[w].scope} : s \in locks' <=> s \in locks,
           \/ LockRecord(rec) /\ (req[w].scope \in locks' <=> rec.action = "lock")
           \/ ~LockRecord(rec) /\ (req[w].scope \in locks' <=> req[w].scope \in locks)
    PROVE  LockTrail'
<1> DEFINE own == req[w].scope
<1>1. <<rec>> \in Seq(AuditRecord)
  OBVIOUS
<1>2. /\ own \in Scopes
      /\ audit[own] \in Seq(AuditRecord)
      /\ audit'[own] = audit[own] \o <<rec>>
      /\ \A s \in Scopes \ {own} : audit'[s] = audit[s]
  BY <1>1, CommittedTrail
<1>3. own \in locks' <=> LockedLast(audit'[own])
  BY <1>2, LockedKept, LockedNew DEF LockTrail
<1>4. \A s \in Scopes \ {own} : s \in locks' <=> LockedLast(audit'[s])
  BY <1>2 DEF LockTrail
<1>5. QED
  BY <1>3, <1>4 DEF LockTrail

LEMMA StepLockTrail == TypeOK /\ LockTrail /\ [Next]_vars => LockTrail'
<1> SUFFICES ASSUME TypeOK, LockTrail, [Next]_vars PROVE LockTrail'
  OBVIOUS
<1>1. CASE UNCHANGED <<locks, audit>>
  BY <1>1 DEF LockTrail
<1>2. ASSUME NEW w \in Workers, CommitPut(w) PROVE LockTrail'
  <2>1. req[w] # NoRequest /\ SetRecord(req[w]) \in AuditRecord
    BY <1>2, PutType DEF CommitPut, AtOp, At
  <2>2. ~LockRecord(SetRecord(req[w]))
    BY DEF LockRecord, SetRecord, Record
  <2>3. CASE Committed(w, <<SetRecord(req[w])>>) /\ UNCHANGED locks
    BY <2>1, <2>2, <2>3, OneRecordLocks
  <2>4. QED
    BY <1>1, <1>2, <2>3 DEF CommitPut, Rollback
<1>3. ASSUME NEW w \in Workers, CommitDelete(w) PROVE LockTrail'
  <2> DEFINE rec == Record("delete", req[w].row.value, Absent)
  <2>1. req[w] \in Request /\ Consistent(req[w]) /\ req[w] # NoRequest
    BY <1>3, AtRequest DEF CommitDelete, AtOp, At
  <2>2. req[w].row \in Row
    BY <1>3, <2>1 DEF CommitDelete, AtOp, At, Consistent, Request, MaybeRow
  <2>3. rec \in AuditRecord
    BY <2>2, RecordType DEF Row, MaybeValue
  <2>4. ~LockRecord(rec)
    BY DEF LockRecord, Record
  <2>5. CASE Committed(w, <<rec>>) /\ UNCHANGED locks
    BY <2>1, <2>3, <2>4, <2>5, OneRecordLocks
  <2>6. QED
    BY <1>1, <1>3, <2>5 DEF CommitDelete, Rollback
<1>4. ASSUME NEW w \in Workers, CommitLock(w) PROVE LockTrail'
  <2> DEFINE own == req[w].scope
             rec == Record("lock", Absent, Absent)
             setRec == Record("set", Absent, req[w].effective)
  <2>1. req[w] \in Request /\ req[w] # NoRequest
    BY <1>4, AtRequest DEF CommitLock, AtOp, At
  <2>2. /\ rec \in AuditRecord /\ setRec \in AuditRecord
        /\ LockRecord(rec) /\ ~LockRecord(setRec) /\ rec.action = "lock"
    BY <2>1, RecordType DEF Request, MaybeValue, LockRecord, Record
  <2>3. CASE Committed(w, <<rec>>) /\ locks' = locks \cup {own}
    BY <2>1, <2>2, <2>3, OneRecordLocks
  <2>4. CASE Committed(w, <<setRec, rec>>) /\ locks' = locks \cup {own}
    <3>1. <<setRec, rec>> \in Seq(AuditRecord)
      BY <2>2
    <3>2. /\ own \in Scopes /\ audit[own] \in Seq(AuditRecord)
          /\ audit'[own] = audit[own] \o <<setRec, rec>>
          /\ \A s \in Scopes \ {own} : audit'[s] = audit[s]
      BY <2>1, <2>4, <3>1, CommittedTrail
    <3>3. audit'[own] = (audit[own] \o <<setRec>>) \o <<rec>>
      BY <2>2, <3>2, TwoRecords
    <3>4. audit[own] \o <<setRec>> \in Seq(AuditRecord)
      BY <2>2, <3>2, OneMore
    <3>5. LockedLast(audit'[own])
      BY <2>2, <3>3, <3>4, LockedNew
    <3>6. \A s \in Scopes \ {own} : s \in locks' <=> LockedLast(audit'[s])
      BY <2>4, <3>2 DEF LockTrail
    <3>7. QED
      BY <2>4, <3>5, <3>6 DEF LockTrail
  <2>5. QED
    BY <1>1, <1>4, <2>3, <2>4 DEF CommitLock, Rollback
<1>5. ASSUME NEW w \in Workers, CommitUnlock(w) PROVE LockTrail'
  <2> DEFINE rec == Record("unlock", Absent, Absent)
  <2>1. req[w] # NoRequest /\ rec \in AuditRecord
    BY <1>5, RecordType DEF CommitUnlock, AtOp, At, MaybeValue
  <2>2. LockRecord(rec) /\ rec.action # "lock"
    BY DEF LockRecord, Record
  <2>3. Committed(w, <<rec>>) /\ locks' = locks \ {req[w].scope}
    BY <1>5 DEF CommitUnlock
  <2>4. QED
    BY <2>1, <2>2, <2>3, OneRecordLocks
<1>6. ASSUME NEW w \in Workers, CommitMigrate(w) PROVE LockTrail'
  <2> DEFINE rec == Record("migrate", Absent, req[w].value)
  <2>1. req[w] # NoRequest /\ rec \in AuditRecord
    BY <1>6, MigrateType
  <2>2. ~LockRecord(rec)
    BY DEF LockRecord, Record
  <2>3. CASE Committed(w, <<rec>>) /\ UNCHANGED locks
    BY <2>1, <2>2, <2>3, OneRecordLocks
  <2>4. QED
    BY <1>1, <1>6, <2>3, MigrateType DEF Rollback
<1>7. QED
  BY <1>1, <1>2, <1>3, <1>4, <1>5, <1>6 DEF Next, Handle, Commit, Begin, Send,
     StartMigration, ReadValues, Check,
     LoadRow, LoadLock, Publish, Crash, vars

LEMMA InitLockTrail == Init => LockTrail
<1> SUFFICES ASSUME Init, NEW s \in Scopes PROVE ~LockedLast(audit[s])
  BY DEF LockTrail, Init
<1>1. PICK v \in Values : audit[s] = <<Record("set", Absent, v)>> \/ audit[s] = <<>>
  BY DEF Init
<1>2. \A i \in DOMAIN audit[s] : audit[s][i] = Record("set", Absent, v)
  BY <1>1
<1>3. QED
  BY <1>2 DEF LockedLast, Record

\* A scope is locked exactly when its trail says so.
THEOREM LocksExplained == Spec => []LockTrail
<1>1. TypeOK /\ LockTrail /\ [Next]_vars => (TypeOK /\ LockTrail)'
  BY StepTypeOK, StepLockTrail
<1>2. QED
  BY InitTypeOK, InitLockTrail, <1>1, PTL DEF Spec

-----------------------------------------------------------------------------
(* What a commit replaces *)

\* A reset of a scope is never forgotten.
LEMMA CommittedKeepsResets ==
    ASSUME TypeOK, NEW w \in Workers, req[w] # NoRequest,
           NEW records \in Seq(AuditRecord), Committed(w, records)
    PROVE  \A s \in Scopes : NeverReset(audit'[s]) => NeverReset(audit[s])
<1> DEFINE own == req[w].scope
<1>1. /\ own \in Scopes /\ audit[own] \in Seq(AuditRecord)
      /\ audit'[own] = audit[own] \o records
      /\ \A s \in Scopes \ {own} : audit'[s] = audit[s]
  BY CommittedTrail
<1>2. \A i \in DOMAIN audit[own] : i \in DOMAIN audit'[own] /\ audit'[own][i] = audit[own][i]
  BY <1>1, ConcatProperties
<1>3. NeverReset(audit'[own]) => NeverReset(audit[own])
  BY <1>2 DEF NeverReset
<1>4. QED
  BY <1>1, <1>3

LEMMA ResetsStay ==
    ASSUME TypeOK, [Next]_vars
    PROVE  \A s \in Scopes : NeverReset(audit'[s]) => NeverReset(audit[s])
<1> USE DEF AtOp, At
<1>1. CASE UNCHANGED audit
  BY <1>1
<1>2. ASSUME NEW w \in Workers, CommitPut(w), ~UNCHANGED audit
      PROVE  Committed(w, <<SetRecord(req[w])>>) /\ <<SetRecord(req[w])>> \in Seq(AuditRecord)
  BY <1>2, PutType DEF CommitPut, Rollback
<1>3. ASSUME NEW w \in Workers, CommitDelete(w), ~UNCHANGED audit
      PROVE  /\ Committed(w, <<Record("delete", req[w].row.value, Absent)>>)
             /\ <<Record("delete", req[w].row.value, Absent)>> \in Seq(AuditRecord)
  <2>1. req[w] \in Request /\ Consistent(req[w])
    BY <1>3, AtRequest DEF CommitDelete
  <2>2. req[w].row.value \in Values
    BY <1>3, <2>1 DEF CommitDelete, Consistent, Request, MaybeRow, Row
  <2>3. QED
    BY <1>3, <2>2, RecordType DEF CommitDelete, Rollback, MaybeValue
<1>4. ASSUME NEW w \in Workers, CommitLock(w), ~UNCHANGED audit
      PROVE  \E records \in Seq(AuditRecord) : Committed(w, records)
  <2>1. req[w] \in Request
    BY <1>4, AtRequest DEF CommitLock
  <2>2. Record("lock", Absent, Absent) \in AuditRecord
    BY RecordType DEF MaybeValue
  <2>3. Record("set", Absent, req[w].effective) \in AuditRecord
    BY <2>1, RecordType DEF Request, MaybeValue
  <2>4. /\ <<Record("lock", Absent, Absent)>> \in Seq(AuditRecord)
        /\ <<Record("set", Absent, req[w].effective), Record("lock", Absent, Absent)>>
             \in Seq(AuditRecord)
    BY <2>2, <2>3
  <2>5. \/ Rollback(w)
        \/ Committed(w, <<Record("lock", Absent, Absent)>>)
        \/ Committed(w, <<Record("set", Absent, req[w].effective),
                          Record("lock", Absent, Absent)>>)
    BY <1>4 DEF CommitLock
  <2>6. QED
    BY <1>4, <2>4, <2>5 DEF Rollback
<1>5. ASSUME NEW w \in Workers, CommitUnlock(w)
      PROVE  /\ Committed(w, <<Record("unlock", Absent, Absent)>>)
             /\ <<Record("unlock", Absent, Absent)>> \in Seq(AuditRecord)
  BY <1>5, RecordType DEF CommitUnlock, MaybeValue
<1>6. ASSUME NEW w \in Workers, CommitMigrate(w), ~UNCHANGED audit
      PROVE  /\ Committed(w, <<Record("migrate", Absent, req[w].value)>>)
             /\ <<Record("migrate", Absent, req[w].value)>> \in Seq(AuditRecord)
  <2>1. Committed(w, <<Record("migrate", Absent, req[w].value)>>)
    BY <1>6, MigrateType DEF Rollback
  <2>2. Record("migrate", Absent, req[w].value) \in AuditRecord
    BY <1>6, MigrateType
  <2>3. QED
    BY <2>1, <2>2
<1>7. ASSUME NEW w \in Workers, Commit(w), ~UNCHANGED audit
      PROVE  \A s \in Scopes : NeverReset(audit'[s]) => NeverReset(audit[s])
  <2>1. req[w] # NoRequest
    BY <1>7 DEF Commit, CommitPut, CommitDelete, CommitLock, CommitUnlock, CommitMigrate
  <2>2. \E records \in Seq(AuditRecord) : Committed(w, records)
    BY <1>2, <1>3, <1>4, <1>5, <1>6, <1>7 DEF Commit
  <2>3. QED
    BY <2>1, <2>2, CommittedKeepsResets
<1>8. QED
  BY <1>1, <1>7 DEF Next, Handle, Begin, Send, StartMigration, ReadValues, Check,
     LoadRow, LoadLock, Publish, Crash, vars

\* The commit of a DELETE resets its scope.
LEMMA DeleteResets ==
    ASSUME TypeOK, NEW w \in Workers, CommitDelete(w), ~UNCHANGED audit
    PROVE  ~NeverReset(audit'[req[w].scope])
<1> DEFINE rec == Record("delete", req[w].row.value, Absent)
           own == req[w].scope
<1>1. req[w] \in Request /\ Consistent(req[w]) /\ req[w] # NoRequest
  BY AtRequest DEF CommitDelete, AtOp, At
<1>2. req[w].row.value \in Values
  BY <1>1 DEF CommitDelete, AtOp, At, Consistent, Request, MaybeRow, Row
<1>3. rec \in AuditRecord /\ Committed(w, <<rec>>)
  <2>1. rec \in AuditRecord
    BY <1>2, RecordType DEF MaybeValue
  <2>2. Rollback(w) \/ Committed(w, <<rec>>)
    BY DEF CommitDelete
  <2>3. QED
    BY <2>1, <2>2 DEF Rollback
<1>4. audit[own] \in Seq(AuditRecord) /\ audit'[own] = audit[own] \o <<rec>>
  <2>1. <<rec>> \in Seq(AuditRecord)
    BY <1>3
  <2>2. QED
    BY <1>1, <1>3, <2>1, CommittedTrail
<1>5. /\ Len(audit[own]) + 1 \in DOMAIN audit'[own]
      /\ audit'[own][Len(audit[own]) + 1] = rec
  BY <1>3, <1>4, OneMore
<1>6. rec.action = "delete"
  BY DEF Record
<1>7. QED
  BY <1>5, <1>6 DEF NeverReset

\* Only the transaction of w commits its request.
LEMMA WhoCommits ==
    ASSUME TypeOK, [Next]_vars, NEW w \in Workers, NEW op \in {"put", "lock", "migrate"},
           Commits(w, op)
    PROVE  /\ op = "put" => CommitPut(w)
           /\ op = "lock" => CommitLock(w)
           /\ op = "migrate" => CommitMigrate(w)
           /\ ~Rollback(w)
<1>1. /\ req[w] # NoRequest /\ req[w].pc = "commit" /\ req[w].op = op
      /\ req'[w] # NoRequest /\ req'[w].pc = "publish"
  BY DEF Commits, AtOp, At
<1>2. req'[w] # req[w] /\ ~Answer(w)
  BY <1>1 DEF TypeOK, Answer
<1>3. PICK v \in Workers : Begin(v) \/ Handle(v) \/ Publish(v) \/ Crash(v)
  BY <1>2 DEF Next, vars
<1>4. \A u \in Workers : u # v => req'[u] = req[u]
  BY <1>3 DEF TypeOK, Begin, Send, StartMigration, Handle, Publish, Crash, ReadValues,
     Check, LoadRow, LoadLock,
     Commit, CommitPut, CommitDelete, CommitLock, CommitUnlock, CommitMigrate,
     Committed, Rollback, Answer
<1>5. v = w
  BY <1>2, <1>4
<1>6. Commit(w)
  BY <1>1, <1>2, <1>3, <1>5 DEF Begin, Send, StartMigration, Handle, Publish,
     Crash, ReadValues, Check, LoadRow,
     LoadLock, At
<1>7. QED
  BY <1>1, <1>2, <1>6 DEF Commit, CommitPut, CommitDelete, CommitLock, CommitUnlock,
     CommitMigrate, AtOp, Rollback

\* Neither put_lock nor the migration replaces a stored value, even one stored
\* after they looked.
THEOREM NeverOverwrites == Spec => InsertNeverOverwrites
<1>1. ASSUME TypeOK, [Next]_vars, NEW w \in Workers, NEW op \in {"lock", "migrate"},
             Commits(w, op), settings[req[w].scope] # NoRow
      PROVE  settings'[req[w].scope] = settings[req[w].scope]
  <2>1. CASE op = "lock"
    <3>1. CommitLock(w) /\ ~Rollback(w)
      BY <1>1, <2>1, WhoCommits
    <3>2. ~FreezeRefused(req[w])
      BY <3>1 DEF CommitLock
    <3>3. ~Freezes(req[w])
      BY <1>1, <3>2 DEF FreezeRefused
    <3>4. QED
      BY <3>1, <3>3 DEF CommitLock
  <2>2. CASE op = "migrate"
    <3>1. CommitMigrate(w) /\ ~Rollback(w)
      BY <1>1, <2>2, WhoCommits
    <3>2. QED
      BY <1>1, <3>1 DEF CommitMigrate
  <2>3. QED
    BY <2>1, <2>2
<1>2. TypeOK /\ [Next]_vars =>
        [\A w \in Workers, op \in {"lock", "migrate"} :
           Commits(w, op) /\ settings[req[w].scope] # NoRow =>
             settings'[req[w].scope] = settings[req[w].scope]]_vars
  BY <1>1
<1>3. QED
  BY TypeCorrect, <1>2, PTL DEF Spec, InsertNeverOverwrites

\* a is what b was earlier, or b itself: versions order the rows of a scope, as
\* long as the scope is never reset.
Older(a, b) ==
    a # NoRow => /\ b # NoRow
                 /\ a.version <= b.version
                 /\ a.version = b.version => a = b

\* What a PUT knows: the row its client saw is an earlier one or the current one;
\* once past If-Match, the row it loaded is the one its client saw.
PutKnows(r, current) ==
    r.op = "put" =>
      /\ r.ifMatch \in {0, VersionOf(r.seen)}
      /\ Older(r.seen, current)
      /\ r.pc = "commit" => r.row = r.seen
SeenIsKnown ==
    \A w \in Workers :
        req[w] # NoRequest /\ NeverReset(audit[req[w].scope]) =>
            PutKnows(req[w], settings[req[w].scope])

Grows(old, new) ==
    \/ new = old
    \/ old = NoRow
    \/ old # NoRow /\ new # NoRow /\ new.version > old.version

LEMMA OlderGrows ==
    ASSUME NEW a \in MaybeRow, NEW old \in MaybeRow, NEW new \in MaybeRow,
           Older(a, old), Grows(old, new)
    PROVE  Older(a, new)
BY DEF Older, Grows, MaybeRow, Row

\* Without a reset, a step only adds a row or raises its version.
LEMMA RowsGrow ==
    ASSUME TypeOK, TypeOK', [Next]_vars
    PROVE  \A s \in Scopes : NeverReset(audit'[s]) => Grows(settings[s], settings'[s])
<1> SUFFICES ASSUME NEW s \in Scopes, NeverReset(audit'[s])
             PROVE  Grows(settings[s], settings'[s])
  OBVIOUS
<1>1. CASE UNCHANGED settings
  BY <1>1 DEF Grows
<1>2. ASSUME NEW w \in Workers, CommitPut(w)
      PROVE  Grows(settings[s], settings'[s])
  <2> DEFINE r == req[w]
             current == settings[r.scope]
  <2>1. r.scope \in Scopes /\ r.row \in MaybeRow
    BY <1>2, PutType DEF CommitPut
  <2>2. settings \in [Scopes -> MaybeRow] /\ current \in MaybeRow
    BY <2>1 DEF TypeOK
  <2>3. CASE /\ r.row = NoRow /\ current = NoRow
             /\ Inserts(r.scope, r.value, r.actor)
    BY <2>1, <2>2, <2>3 DEF Grows, Inserts
  <2>4. CASE /\ r.row # NoRow /\ VersionOf(current) = r.row.version
             /\ settings' = [settings EXCEPT ![r.scope] = Updated(r, current)]
    <3>1. r.row \in Row /\ current \in Row /\ current # NoRow
      BY <2>1, <2>2, <2>4, VersionOfType DEF MaybeRow, Row
    <3>2. current.version = r.row.version /\ r.row.version \in Nat
      BY <2>4, <3>1 DEF VersionOf, Row
    <3>3. settings'[r.scope] = Updated(r, current) /\ settings'[r.scope] \in MaybeRow
      BY <2>1, <2>2, <2>4 DEF TypeOK
    <3>4. Updated(r, current).version = current.version + 1
      BY <3>2 DEF Updated
    <3>5. Updated(r, current) # NoRow
      BY <2>1, <3>1, <3>2, <1>2, PutType, NoRowAssumption DEF Updated, Row, CommitPut
    <3>6. Grows(settings[r.scope], settings'[r.scope])
      BY <3>1, <3>2, <3>3, <3>4, <3>5 DEF Grows
    <3>7. s # r.scope => settings'[s] = settings[s]
      BY <2>2, <2>4
    <3>8. QED
      BY <3>6, <3>7 DEF Grows
  <2>5. QED
    <3>1. \/ UNCHANGED settings
          \/ r.row = NoRow /\ current = NoRow /\ Inserts(r.scope, r.value, r.actor)
          \/ /\ r.row # NoRow /\ VersionOf(current) = r.row.version
             /\ settings' = [settings EXCEPT ![r.scope] = Updated(r, current)]
      BY <1>2 DEF CommitPut, Rollback
    <3>2. QED
      BY <1>1, <2>3, <2>4, <3>1
<1>3. ASSUME NEW w \in Workers, CommitDelete(w)
      PROVE  Grows(settings[s], settings'[s])
  <2>1. CASE UNCHANGED audit
    <3>1. req[w] # NoRequest /\ req[w] \in Request /\ Consistent(req[w])
      BY <1>3, AtRequest DEF CommitDelete, AtOp, At
    <3>2. Rollback(w) \/ Committed(w, <<Record("delete", req[w].row.value, Absent)>>)
      BY <1>3 DEF CommitDelete
    <3>3. CASE Rollback(w)
      BY <1>1, <3>3 DEF Rollback
    <3>4. CASE Committed(w, <<Record("delete", req[w].row.value, Absent)>>)
      <4>1. req[w].row.value \in Values
        BY <1>3, <3>1 DEF CommitDelete, AtOp, At, Consistent, Request, MaybeRow, Row
      <4>2. Record("delete", req[w].row.value, Absent) \in AuditRecord
        BY <4>1, RecordType DEF MaybeValue
      <4> DEFINE records == <<Record("delete", req[w].row.value, Absent)>>
      <4>3. records \in Seq(AuditRecord)
        BY <4>2
      <4>4. /\ req[w].scope \in Scopes /\ audit[req[w].scope] \in Seq(AuditRecord)
            /\ audit'[req[w].scope] = audit[req[w].scope] \o records
        BY <3>1, <3>4, <4>3, CommittedTrail
      <4>5. DOMAIN audit'[req[w].scope] # DOMAIN audit[req[w].scope]
        BY <4>2, <4>4, OneMore
      <4>6. QED
        BY <2>1, <4>5
    <3>5. QED
      BY <3>2, <3>3, <3>4
  <2>2. CASE ~UNCHANGED audit
    <3>1. ~NeverReset(audit'[req[w].scope])
      BY <1>3, <2>2, DeleteResets
    <3>2. s # req[w].scope => settings'[s] = settings[s]
      BY <1>3 DEF CommitDelete, Rollback, TypeOK
    <3>3. QED
      BY <3>1, <3>2 DEF Grows
  <2>3. QED
    BY <2>1, <2>2
<1>4. ASSUME NEW w \in Workers, CommitLock(w)
      PROVE  Grows(settings[s], settings'[s])
  <2>1. req[w].scope \in Scopes
    BY <1>4, AtRequest DEF CommitLock, AtOp, At, Request
  <2>2. CASE /\ Freezes(req[w]) /\ ~FreezeRefused(req[w])
             /\ Inserts(req[w].scope, req[w].effective, req[w].actor)
    BY <2>1, <2>2 DEF Grows, Inserts, FreezeRefused, TypeOK
  <2>3. \/ UNCHANGED settings
        \/ /\ Freezes(req[w]) /\ ~FreezeRefused(req[w])
           /\ Inserts(req[w].scope, req[w].effective, req[w].actor)
    BY <1>4 DEF CommitLock, Rollback
  <2>4. QED
    BY <1>1, <2>2, <2>3
<1>5. ASSUME NEW w \in Workers, CommitMigrate(w)
      PROVE  Grows(settings[s], settings'[s])
  BY <1>1, <1>5, MigrateType DEF Grows, Rollback, TypeOK
<1>6. QED
  BY <1>1, <1>2, <1>3, <1>4, <1>5 DEF Next, Handle, Commit, Begin, Send,
     StartMigration, ReadValues, Check,
     LoadRow, LoadLock, CommitUnlock, Publish, Crash, vars

\* The knowledge of a request that a step leaves alone, or only moves on without
\* loading a row, is kept.
LEMMA KnowledgeKept ==
    ASSUME NEW r \in Request, NEW q \in Request, NEW old \in MaybeRow, NEW new \in MaybeRow,
           PutKnows(r, old), Grows(old, new),
           q.op = r.op, q.seen = r.seen, q.ifMatch = r.ifMatch,
           q.op = "put" /\ q.pc = "commit" => q.row = q.seen
    PROVE  PutKnows(q, new)
<1>1. r.op = "put" => Older(r.seen, new)
  BY OlderGrows DEF PutKnows, Request
<1>2. QED
  BY <1>1 DEF PutKnows

LEMMA LoadRowKnows ==
    ASSUME TypeOK, NEW w \in Workers, LoadRow(w), PutKnows(req[w], settings[req[w].scope]),
           req[w].op = "put", req'[w] # NoRequest
    PROVE  settings[req[w].scope] = req[w].seen
<1> DEFINE r == req[w]
           row == settings[r.scope]
<1>1. r \in Request /\ r.scope \in Scopes /\ r.seen \in MaybeRow
  BY AtRequest DEF LoadRow, At, Request
<1>2. row \in MaybeRow
  BY <1>1 DEF TypeOK
<1>3. VersionOf(row) = r.ifMatch
  BY <1>1 DEF LoadRow, Answer, IfMatchHolds, TypeOK
<1>4. Older(r.seen, row) /\ r.ifMatch \in {0, VersionOf(r.seen)}
  BY DEF PutKnows
<1>5. CASE row = NoRow
  BY <1>4, <1>5 DEF Older
<1>6. CASE row # NoRow
  <2>1. VersionOf(row) # 0 /\ VersionOf(row) = VersionOf(r.seen)
    BY <1>2, <1>3, <1>4, <1>6, VersionOfType
  <2>2. r.seen # NoRow /\ r.seen.version = row.version
    BY <1>1, <1>6, <2>1 DEF VersionOf
  <2>3. QED
    BY <1>4, <2>2 DEF Older
<1>7. QED
  BY <1>5, <1>6

LEMMA StepSeen ==
    ASSUME TypeOK, TypeOK', SeenIsKnown, [Next]_vars
    PROVE  SeenIsKnown'
<1>1. SUFFICES ASSUME NEW w \in Workers, req'[w] # NoRequest,
                      NeverReset(audit'[req'[w].scope])
               PROVE  PutKnows(req'[w], settings'[req'[w].scope])
  BY DEF SeenIsKnown
<1>2. req'[w] \in Request /\ req'[w].scope \in Scopes
  BY <1>1 DEF TypeOK, Request
<1> DEFINE own == req'[w].scope
<1>3. Grows(settings[own], settings'[own]) /\ NeverReset(audit[own])
  BY <1>1, <1>2, RowsGrow, ResetsStay
<1> settings[own] \in MaybeRow /\ settings'[own] \in MaybeRow
  BY <1>2 DEF TypeOK
<1>4. CASE req'[w] = req[w]
  <2>1. req[w] \in Request /\ PutKnows(req[w], settings[own])
    BY <1>3, <1>1, <1>4 DEF TypeOK, SeenIsKnown
  <2>2. QED
    BY <1>3, <1>2, <1>4, <2>1, KnowledgeKept DEF PutKnows
<1>5. CASE req'[w] # req[w]
  <2>1. PICK v \in Workers : Begin(v) \/ Handle(v) \/ Publish(v) \/ Crash(v)
    BY <1>5 DEF Next, vars
  <2>2. \A u \in Workers : u # v => req'[u] = req[u]
    BY <2>1 DEF TypeOK, Begin, Send, StartMigration, Handle, Publish, Crash, ReadValues,
     Check, LoadRow, LoadLock,
       Commit, CommitPut, CommitDelete, CommitLock, CommitUnlock, CommitMigrate,
     Committed, Rollback, Answer
  <2>3. v = w
    BY <1>5, <2>2
  <2>4. ~Publish(w) /\ ~Crash(w) /\ ~Answer(w)
    BY <1>1 DEF Publish, Crash, Answer, TypeOK
  <2>5. CASE Send(w)
    <3>1. PICK op \in Ops \ {"migrate"}, a \in Actors, s \in Scopes :
            \E value \in IF op = "put" THEN Values ELSE {Absent} :
            \E m \in IF op = "put" THEN {0, VersionOf(settings[s])} ELSE {0} :
              req' = [req EXCEPT ![w] =
                    [pc |-> IF op = "lock" THEN "values" ELSE "check",
                     op |-> op, actor |-> a, scope |-> s, value |-> value, ifMatch |-> m,
                     seen |-> IF op = "put" THEN settings[s] ELSE NoRow,
                     values |-> [t \in Scopes |-> Absent], effective |-> Absent,
                     row |-> NoRow, held |-> FALSE]]
      BY <2>5 DEF Send
    <3>2. /\ req'[w].op = op /\ req'[w].scope = s /\ req'[w].pc # "commit"
          /\ op = "put" => req'[w].seen = settings[s]
          /\ op = "put" => req'[w].ifMatch \in {0, VersionOf(settings[s])}
      BY <3>1 DEF TypeOK
    <3>3. settings' = settings /\ settings[s] \in MaybeRow
      BY <2>5 DEF Send, TypeOK
    <3>4. Older(settings[s], settings[s])
      BY <3>3 DEF Older, MaybeRow, Row
    <3>5. QED
      BY <3>2, <3>3, <3>4 DEF PutKnows
  <2>6. CASE StartMigration(w)
    <3>1. PICK s \in UserScopes \cap Allowed, value \in Values :
             req' = [req EXCEPT ![w] =
                    [pc |-> "load", op |-> "migrate", actor |-> "migration", scope |-> s,
                     value |-> value, ifMatch |-> 0, seen |-> NoRow,
                     values |-> [t \in Scopes |-> Absent], effective |-> Absent,
                     row |-> NoRow, held |-> FALSE]]
      BY <2>6 DEF StartMigration
    <3>2. req'[w].op = "migrate"
      BY <3>1 DEF TypeOK
    <3>3. QED
      BY <3>2 DEF PutKnows
  <2>7. CASE Handle(w)
    <3>1. req[w] # NoRequest
      BY <2>7 DEF Handle, ReadValues, Check, LoadRow, LoadLock, Commit, CommitPut,
         CommitDelete, CommitLock, CommitUnlock, CommitMigrate, AtOp, At
    <3>2. req[w] \in Request /\ Consistent(req[w])
      BY <3>1, AtRequest
    <3>3. /\ req'[w].op = req[w].op /\ req'[w].scope = req[w].scope
          /\ req'[w].seen = req[w].seen /\ req'[w].ifMatch = req[w].ifMatch
          /\ req[w].op = "put" /\ req'[w].pc = "commit" => LoadRow(w)
      <4>1. CASE ReadValues(w)
        BY <3>2, <4>1 DEF ReadValues, TypeOK, Request
      <4>2. CASE Check(w)
        BY <2>4, <3>2, <4>2 DEF Check, TypeOK, Request
      <4>3. CASE LoadRow(w)
        BY <2>4, <3>2, <4>3 DEF LoadRow, TypeOK, Request
      <4>4. CASE LoadLock(w)
        BY <2>4, <3>2, <4>4 DEF LoadLock, TypeOK, Request, Consistent, At
      <4>5. CASE Commit(w)
        <5>1. req' = [req EXCEPT ![w].pc = "publish"]
          BY <2>4, <4>5 DEF Commit, CommitPut, CommitDelete, CommitLock, CommitUnlock,
             CommitMigrate, Committed, Rollback
        <5>2. QED
          BY <3>2, <5>1 DEF TypeOK, Request
      <4>6. QED
        BY <2>7, <4>1, <4>2, <4>3, <4>4, <4>5 DEF Handle
    <3>4. PutKnows(req[w], settings[own])
      BY <1>3, <3>1, <3>3 DEF SeenIsKnown
    <3>5. ASSUME req'[w].op = "put", req'[w].pc = "commit"
          PROVE  req'[w].row = req'[w].seen
      <4>1. LoadRow(w)
        BY <3>3, <3>5
      <4>2. req'[w].row = settings[req[w].scope]
        BY <2>4, <3>2, <4>1 DEF LoadRow, TypeOK, Request
      <4>3. QED
        BY <1>1, <3>2, <3>3, <3>5, <3>4, <4>1, <4>2, LoadRowKnows
    <3>6. QED
      BY <1>3, <1>2, <3>2, <3>3, <3>5, <3>4, KnowledgeKept DEF PutKnows
  <2>8. QED
    BY <2>1, <2>3, <2>4, <2>5, <2>6, <2>7 DEF Begin
<1>6. QED
  BY <1>4, <1>5

\* At a scope that was never reset, an accepted PUT replaces the row its client
\* saw.  Resets have to be excluded: a row made again starts over at version 1,
\* and a client that saw the earlier version 1 passes every test.
THEOREM ReplacesSeen == Spec => AcceptedReplacesSeen
<1>1. Init => SeenIsKnown
  BY DEF Init, SeenIsKnown
<1>2. TypeOK /\ SeenIsKnown /\ [Next]_vars => (TypeOK /\ SeenIsKnown)'
  BY StepTypeOK, StepSeen
<1>3. ASSUME TypeOK, SeenIsKnown, [Next]_vars, NEW w \in Workers, Commits(w, "put"),
             NeverReset(audit[req[w].scope]), settings'[req[w].scope] # settings[req[w].scope]
      PROVE  settings[req[w].scope] = req[w].seen
  <2> DEFINE r == req[w]
             current == settings[r.scope]
  <2>1. CommitPut(w) /\ ~Rollback(w)
    BY <1>3, WhoCommits
  <2>2. /\ r # NoRequest /\ r.pc = "commit" /\ r.op = "put"
        /\ PutKnows(r, current)
    BY <1>3 DEF Commits, AtOp, At, SeenIsKnown
  <2>3. r.row = r.seen /\ Older(r.seen, current)
    BY <2>2 DEF PutKnows
  <2>4. CASE r.row = NoRow /\ current = NoRow
    BY <2>3, <2>4
  <2>5. CASE r.row # NoRow /\ VersionOf(current) = r.row.version
    BY <2>3, <2>5 DEF Older, VersionOf
  <2>6. QED
    BY <1>3, <2>1, <2>4, <2>5 DEF CommitPut
<1>4. TypeOK /\ SeenIsKnown /\ [Next]_vars =>
        [\A w \in Workers :
           /\ Commits(w, "put") /\ NeverReset(audit[req[w].scope])
           /\ settings'[req[w].scope] # settings[req[w].scope]
           => settings[req[w].scope] = req[w].seen]_vars
  BY <1>3
<1>5. QED
  BY InitTypeOK, <1>1, <1>2, <1>4, PTL DEF Spec, AcceptedReplacesSeen

-----------------------------------------------------------------------------
(* The handlers implement the ledger *)

\* What a request loaded is a row that its scope had, as long as nobody reset it.
LoadedIsOlder ==
    \A w \in Workers :
        req[w] # NoRequest /\ NeverReset(audit[req[w].scope]) =>
            Older(req[w].row, settings[req[w].scope])

\* A step takes the loaded row along, drops it, or loads the stored one.
LEMMA RowMoves ==
    ASSUME TypeOK, [Next]_vars, NEW w \in Workers, req'[w] # NoRequest
    PROVE  \/ req'[w].row = NoRow
           \/ /\ req[w] # NoRequest /\ req'[w].scope = req[w].scope
              /\ \/ req'[w].row = req[w].row
                 \/ req'[w].row = settings[req[w].scope] /\ UNCHANGED settings
<1>1. CASE req'[w] = req[w]
  BY <1>1
<1>2. CASE req'[w] # req[w]
  <2>1. PICK v \in Workers : Begin(v) \/ Handle(v) \/ Publish(v) \/ Crash(v)
    BY <1>2 DEF Next, vars
  <2>2. \A u \in Workers : u # v => req'[u] = req[u]
    BY <2>1 DEF TypeOK, Begin, Send, StartMigration, Handle, Publish, Crash, ReadValues,
       Check, LoadRow, LoadLock, Commit, CommitPut, CommitDelete, CommitLock, CommitUnlock,
       CommitMigrate, Committed, Rollback, Answer
  <2>3. v = w
    BY <1>2, <2>2
  <2>4. ~Publish(w) /\ ~Crash(w) /\ ~Answer(w)
    BY DEF Publish, Crash, Answer, TypeOK
  <2>5. CASE Send(w)
    BY <2>5 DEF Send, TypeOK
  <2>6. CASE StartMigration(w)
    BY <2>6 DEF StartMigration, TypeOK
  <2>7. CASE Handle(w)
    <3>1. req[w] # NoRequest
      BY <2>7 DEF Handle, ReadValues, Check, LoadRow, LoadLock, Commit, CommitPut,
         CommitDelete, CommitLock, CommitUnlock, CommitMigrate, AtOp, At
    <3>2. req[w] \in Request
      BY <3>1, AtRequest
    <3>3. CASE ReadValues(w)
      BY <3>1, <3>2, <3>3 DEF ReadValues, TypeOK, Request
    <3>4. CASE Check(w)
      BY <2>4, <3>1, <3>2, <3>4 DEF Check, TypeOK, Request
    <3>5. CASE LoadRow(w)
      BY <2>4, <3>1, <3>2, <3>5 DEF LoadRow, TypeOK, Request
    <3>6. CASE LoadLock(w)
      BY <2>4, <3>1, <3>2, <3>6 DEF LoadLock, TypeOK, Request
    <3>7. CASE Commit(w)
      <4>1. req' = [req EXCEPT ![w].pc = "publish"]
        BY <2>4, <3>7 DEF Commit, CommitPut, CommitDelete, CommitLock, CommitUnlock,
           CommitMigrate, Committed, Rollback
      <4>2. QED
        BY <3>1, <3>2, <4>1 DEF TypeOK, Request
    <3>8. QED
      BY <2>7, <3>3, <3>4, <3>5, <3>6, <3>7 DEF Handle
  <2>8. QED
    BY <2>1, <2>3, <2>4, <2>5, <2>6, <2>7 DEF Begin
<1>3. QED
  BY <1>1, <1>2

LEMMA StepLoaded ==
    ASSUME TypeOK, TypeOK', LoadedIsOlder, [Next]_vars
    PROVE  LoadedIsOlder'
<1>1. SUFFICES ASSUME NEW w \in Workers, req'[w] # NoRequest,
                      NeverReset(audit'[req'[w].scope])
               PROVE  Older(req'[w].row, settings'[req'[w].scope])
  BY DEF LoadedIsOlder
<1> DEFINE own == req'[w].scope
<1>2. req'[w] \in Request /\ own \in Scopes
  BY <1>1 DEF TypeOK, Request
<1>3. /\ Grows(settings[own], settings'[own]) /\ NeverReset(audit[own])
      /\ settings[own] \in MaybeRow /\ settings'[own] \in MaybeRow
  BY <1>1, <1>2, RowsGrow, ResetsStay DEF TypeOK
<1>4. CASE req'[w].row = NoRow
  BY <1>4 DEF Older
<1>5. CASE /\ req[w] # NoRequest /\ own = req[w].scope
           /\ req'[w].row = req[w].row
  <2>1. Older(req[w].row, settings[own]) /\ req[w].row \in MaybeRow
    BY <1>3, <1>5, AtRequest DEF LoadedIsOlder, Request
  <2>2. QED
    BY <1>3, <1>5, <2>1, OlderGrows
<1>6. CASE req'[w].row = settings[own] /\ UNCHANGED settings
  BY <1>3, <1>6 DEF Older, MaybeRow, Row
<1>7. QED
  BY <1>1, <1>4, <1>5, <1>6, RowMoves

\* One row changes, and with it one value of the ledger.
LEMMA StoresOne ==
    ASSUME TypeOK, NEW s \in Scopes, NEW row, settings' = [settings EXCEPT ![s] = row]
    PROVE  Ledger!Store(s, ValueOf(row))
BY DEF TypeOK, Ledger!Store, ValueOf

LEMMA StoresNothing ==
    ASSUME TypeOK, NEW s \in Scopes, NEW row, settings' = [settings EXCEPT ![s] = row],
           ValueOf(row) = ValueOf(settings[s])
    PROVE  UNCHANGED [t \in Scopes |-> ValueOf(settings[t])]
BY DEF TypeOK, ValueOf

LEMMA EntersRecords ==
    ASSUME NEW w, NEW records, Committed(w, records)
    PROVE  Ledger!Enter(req[w].scope, records)
BY DEF Committed, Ledger!Enter

\* A row with the version of the stored one is the stored one, unless it was reset.
LEMMA LoadedIsStored ==
    ASSUME TypeOK, LoadedIsOlder, NEW w \in Workers, req[w] # NoRequest, req[w].row # NoRow,
           VersionOf(settings[req[w].scope]) = req[w].row.version
    PROVE  Ledger!Truthful(req[w].scope, req[w].row.value)
<1>1. req[w] \in Request /\ req[w].scope \in Scopes /\ req[w].row \in Row
  BY AtRequest DEF Request, MaybeRow
<1>2. SUFFICES ASSUME NeverReset(audit[req[w].scope])
               PROVE  ValueOf(settings[req[w].scope]) = req[w].row.value
  BY <1>1 DEF Ledger!Truthful, NeverReset
<1>3. Older(req[w].row, settings[req[w].scope])
  BY <1>2 DEF LoadedIsOlder
<1>4. settings[req[w].scope] = req[w].row
  BY <1>3 DEF Older, VersionOf
<1>5. QED
  BY <1>4 DEF ValueOf

LEMMA PutLedger ==
    ASSUME TypeOK, LoadedIsOlder, NEW w \in Workers, CommitPut(w)
    PROVE  \/ UNCHANGED <<settings, locks, audit>>
           \/ \E old \in MaybeValue, v \in Values : Ledger!Set(req[w].scope, old, v)
           \/ \E v \in Values : Ledger!Repeat(req[w].scope, v)
<1> DEFINE r == req[w]
           current == settings[r.scope]
<1>1. AtOp(w, "commit", "put") /\ r # NoRequest
  BY DEF CommitPut, AtOp, At
<1>2. /\ r.value \in Values /\ r.actor \in Identities /\ r.scope \in Scopes
      /\ r.row \in MaybeRow
  BY <1>1, PutType
<1>3. current \in MaybeRow /\ Absent \notin Values
  BY <1>2, DataAssumption DEF TypeOK
<1>4. CASE Rollback(w)
  BY <1>4 DEF Rollback
<1>5. CASE /\ r.row = NoRow /\ current = NoRow /\ Inserts(r.scope, r.value, r.actor)
           /\ Committed(w, <<SetRecord(r)>>) /\ UNCHANGED locks
  <2> DEFINE row == [value |-> r.value, version |-> 1, by |-> r.actor]
  <2>1. row \in Row /\ ValueOf(row) = r.value
    BY <1>2, NoRowAssumption DEF Row, ValueOf
  <2>2. Ledger!Store(r.scope, r.value)
    BY <1>2, <1>5, <2>1, StoresOne DEF Inserts
  <2>3. Ledger!Enter(r.scope, <<Ledger!Record("set", Absent, r.value)>>)
    BY <1>5, EntersRecords DEF SetRecord, Record, Ledger!Record, ValueOf
  <2>4. Ledger!Truthful(r.scope, Absent)
    BY <1>2, <1>5 DEF Ledger!Truthful, ValueOf
  <2>5. Ledger!Set(r.scope, Absent, r.value)
    BY <1>2, <1>3, <1>5, <2>2, <2>3, <2>4 DEF Ledger!Set
  <2>6. QED
    BY <1>2, <2>5 DEF MaybeValue
<1>6. CASE /\ r.row # NoRow /\ ~Dirty(r)
           /\ Committed(w, <<SetRecord(r)>>) /\ UNCHANGED <<settings, locks>>
  <2>1. Ledger!Enter(r.scope, <<Ledger!Record("set", r.value, r.value)>>)
    BY <1>6, EntersRecords DEF SetRecord, Record, Ledger!Record, ValueOf, Dirty
  <2>2. Ledger!Repeat(r.scope, r.value)
    BY <1>6, <2>1 DEF Ledger!Repeat
  <2>3. QED
    BY <1>2, <2>2
<1>7. CASE /\ r.row # NoRow /\ VersionOf(current) = r.row.version
           /\ settings' = [settings EXCEPT ![r.scope] = Updated(r, current)]
           /\ Committed(w, <<SetRecord(r)>>) /\ UNCHANGED locks
  <2>1. r.row \in Row /\ current \in Row /\ current # NoRow
    BY <1>2, <1>3, <1>7, VersionOfType DEF MaybeRow, Row
  <2>2. Updated(r, current) \in Row
    BY <1>2, <2>1 DEF Updated, Row
  <2>3. ValueOf(Updated(r, current)) = IF r.row.value # r.value THEN r.value
                                       ELSE ValueOf(current)
    BY <2>1, <2>2, NoRowAssumption DEF Updated, ValueOf
  <2>4. Ledger!Enter(r.scope, <<Ledger!Record("set", r.row.value, r.value)>>)
    BY <1>7, EntersRecords DEF SetRecord, Record, Ledger!Record, ValueOf
  <2>5. CASE r.row.value # r.value
    <3>1. Ledger!Store(r.scope, r.value)
      BY <1>2, <1>7, <2>3, <2>5, StoresOne
    <3>2. Ledger!Truthful(r.scope, r.row.value)
      BY <1>1, <1>7, LoadedIsStored
    <3>3. Ledger!Set(r.scope, r.row.value, r.value)
      BY <1>7, <2>4, <2>5, <3>1, <3>2 DEF Ledger!Set
    <3>4. QED
      BY <1>2, <2>1, <3>3 DEF MaybeValue, Row
  <2>6. CASE r.row.value = r.value
    <3>1. UNCHANGED [t \in Scopes |-> ValueOf(settings[t])]
      BY <1>2, <1>7, <2>3, <2>6, StoresNothing
    <3>2. Ledger!Repeat(r.scope, r.value)
      BY <1>7, <2>4, <2>6, <3>1 DEF Ledger!Repeat
    <3>3. QED
      BY <1>2, <3>2
  <2>7. QED
    BY <2>5, <2>6
<1>8. QED
  BY <1>4, <1>5, <1>6, <1>7 DEF CommitPut

LEMMA DeleteLedger ==
    ASSUME TypeOK, LoadedIsOlder, NEW w \in Workers, CommitDelete(w)
    PROVE  \/ UNCHANGED <<settings, locks, audit>>
           \/ \E old \in Values : Ledger!Reset(req[w].scope, old)
<1> DEFINE r == req[w]
<1>1. r \in Request /\ Consistent(r) /\ r # NoRequest
  BY AtRequest DEF CommitDelete, AtOp, At
<1>2. r.row \in Row /\ r.row # NoRow /\ r.scope \in Scopes /\ settings[r.scope] \in MaybeRow
  BY <1>1 DEF CommitDelete, AtOp, At, Consistent, Request, MaybeRow, TypeOK
<1>3. CASE Rollback(w)
  BY <1>3 DEF Rollback
<1>4. CASE /\ VersionOf(settings[r.scope]) = r.row.version
           /\ settings' = [settings EXCEPT ![r.scope] = NoRow]
           /\ Committed(w, <<Record("delete", r.row.value, Absent)>>) /\ UNCHANGED locks
  <2>1. settings[r.scope] \in Row /\ settings[r.scope] # NoRow
    BY <1>2, <1>4, VersionOfType DEF MaybeRow, Row
  <2>2. ValueOf(settings[r.scope]) # Absent
    BY <2>1, DataAssumption DEF ValueOf, Row
  <2>3. Ledger!Store(r.scope, Absent)
    BY <1>2, <1>4, StoresOne DEF ValueOf
  <2>4. Ledger!Enter(r.scope, <<Ledger!Record("delete", r.row.value, Absent)>>)
    BY <1>4, EntersRecords DEF Record, Ledger!Record
  <2>5. Ledger!Truthful(r.scope, r.row.value)
    BY <1>1, <1>2, <1>4, LoadedIsStored
  <2>6. Ledger!Reset(r.scope, r.row.value)
    BY <1>2, <1>4, <2>2, <2>3, <2>4, <2>5 DEF Ledger!Reset
  <2>7. QED
    BY <1>2, <2>6 DEF Row
<1>5. QED
  BY <1>3, <1>4 DEF CommitDelete

LEMMA LockLedger ==
    ASSUME TypeOK, NEW w \in Workers, CommitLock(w)
    PROVE  \/ UNCHANGED <<settings, locks, audit>>
           \/ Ledger!Lock(req[w].scope)
           \/ \E v \in Values : Ledger!Freeze(req[w].scope, v)
<1> DEFINE r == req[w]
           record == Record("lock", Absent, Absent)
<1>1. r \in Request /\ r.scope \in Scopes
  BY AtRequest DEF CommitLock, AtOp, At, Request
<1>2. CASE Rollback(w)
  BY <1>2 DEF Rollback
<1>3. CASE /\ locks' = locks \cup {r.scope}
           /\ Committed(w, <<record>>) /\ UNCHANGED settings
  <2>1. Ledger!Enter(r.scope, <<Ledger!Record("lock", Absent, Absent)>>)
    BY <1>3, EntersRecords DEF Record, Ledger!Record
  <2>2. QED
    BY <1>3, <2>1 DEF Ledger!Lock
<1>4. CASE /\ Freezes(r) /\ ~FreezeRefused(r) /\ locks' = locks \cup {r.scope}
           /\ Inserts(r.scope, r.effective, r.actor)
           /\ Committed(w, <<Record("set", Absent, r.effective), record>>)
  <2> DEFINE row == [value |-> r.effective, version |-> 1, by |-> r.actor]
  <2>1. r.effective \in Values /\ settings[r.scope] = NoRow
    BY <1>1, <1>4 DEF Freezes, FreezeRefused, Request, MaybeValue
  <2>2. row \in Row /\ ValueOf(row) = r.effective
    BY <1>1, <2>1, NoRowAssumption DEF Row, ValueOf, Request
  <2>3. Ledger!Store(r.scope, r.effective)
    BY <1>1, <1>4, <2>2, StoresOne DEF Inserts
  <2>4. Ledger!Enter(r.scope, <<Ledger!Record("set", Absent, r.effective),
                                Ledger!Record("lock", Absent, Absent)>>)
    BY <1>4, EntersRecords DEF Record, Ledger!Record
  <2>5. Ledger!Freeze(r.scope, r.effective)
    BY <1>1, <1>4, <2>1, <2>3, <2>4 DEF Ledger!Freeze, ValueOf
  <2>6. QED
    BY <2>1, <2>5
<1>5. QED
  BY <1>2, <1>3, <1>4 DEF CommitLock

LEMMA UnlockLedger ==
    ASSUME NEW w \in Workers, CommitUnlock(w)
    PROVE  Ledger!Unlock(req[w].scope)
<1>1. Ledger!Enter(req[w].scope, <<Ledger!Record("unlock", Absent, Absent)>>)
  BY EntersRecords DEF CommitUnlock, Record, Ledger!Record
<1>2. QED
  BY <1>1 DEF CommitUnlock, Ledger!Unlock

LEMMA MigrateLedger ==
    ASSUME TypeOK, NEW w \in Workers, CommitMigrate(w)
    PROVE  \/ UNCHANGED <<settings, locks, audit>>
           \/ \E v \in Values : Ledger!Migrate(req[w].scope, v)
<1> DEFINE r == req[w]
           row == [value |-> r.value, version |-> 1, by |-> "migration"]
<1>1. r.scope \in Scopes /\ r.value \in Values
  BY MigrateType
<1>2. CASE Rollback(w)
  BY <1>2 DEF Rollback
<1>3. CASE /\ settings[r.scope] = NoRow /\ Inserts(r.scope, r.value, "migration")
           /\ Committed(w, <<Record("migrate", Absent, r.value)>>) /\ UNCHANGED locks
  <2>1. row \in Row /\ ValueOf(row) = r.value
    BY <1>1, NoRowAssumption DEF Row, ValueOf, Identities
  <2>2. Ledger!Store(r.scope, r.value)
    BY <1>1, <1>3, <2>1, StoresOne DEF Inserts
  <2>3. Ledger!Enter(r.scope, <<Ledger!Record("migrate", Absent, r.value)>>)
    BY <1>3, EntersRecords DEF Record, Ledger!Record
  <2>4. Ledger!Migrate(r.scope, r.value)
    BY <1>1, <1>3, <2>2, <2>3 DEF Ledger!Migrate, ValueOf
  <2>5. QED
    BY <1>1, <2>4
<1>4. QED
  BY <1>2, <1>3 DEF CommitMigrate

LEMMA InitLedger == Init => Ledger!Init
<1> SUFFICES ASSUME Init PROVE Ledger!Init
  OBVIOUS
<1>1. PICK strays \in SUBSET (Scopes \ Allowed), v \in Values, a \in Actors :
        /\ settings = [t \in Scopes |-> IF t \in strays
                          THEN [value |-> v, version |-> 1, by |-> a] ELSE NoRow]
        /\ audit = [t \in Scopes |-> IF t \in strays
                       THEN <<Record("set", Absent, v)>> ELSE <<>>]
  BY DEF Init
<1> DEFINE row == [value |-> v, version |-> 1, by |-> a]
<1>2. row \in Row /\ ValueOf(row) = v /\ ValueOf(NoRow) = Absent /\ v # Absent
  BY NoRowAssumption, DataAssumption DEF Row, ValueOf, Identities
<1>3. \A t \in Scopes : ValueOf(settings[t]) = IF t \in strays THEN v ELSE Absent
  BY <1>1, <1>2
<1>4. audit = [t \in Scopes |-> IF ValueOf(settings[t]) = Absent THEN <<>>
                                ELSE <<Ledger!Record("set", Absent, ValueOf(settings[t]))>>]
  BY <1>1, <1>2, <1>3 DEF Record, Ledger!Record
<1>5. [t \in Scopes |-> ValueOf(settings[t])] \in [Scopes -> Values \cup {Absent}]
  BY <1>3
<1>6. QED
  BY <1>4, <1>5 DEF Init, Ledger!Init

\* Every step of a handler is one of the ledger or leaves the ledger alone.
LEMMA StepLedger ==
    ASSUME TypeOK, LoadedIsOlder, [Next]_vars
    PROVE  [Ledger!Next]_<<[s \in Scopes |-> ValueOf(settings[s])], locks, audit>>
<1>1. CASE UNCHANGED <<settings, locks, audit>>
  BY <1>1 DEF ValueOf
<1>2. ASSUME NEW w \in Workers, Commit(w)
      PROVE  UNCHANGED <<settings, locks, audit>> \/ Ledger!Next
  <2>1. req[w].scope \in Scopes
    BY <1>2, AtRequest DEF Commit, CommitPut, CommitDelete, CommitLock, CommitUnlock,
       CommitMigrate, AtOp, At, Request
  <2>2. QED
    BY <1>2, <2>1, PutLedger, DeleteLedger, LockLedger, UnlockLedger, MigrateLedger
    DEF Commit, Ledger!Next, MaybeValue
<1>3. QED
  BY <1>1, <1>2 DEF Next, Handle, Begin, Send, StartMigration, ReadValues, Check, LoadRow,
     LoadLock, Publish, Crash, vars

\* The handlers keep the promise to who reads the trail: one scope at a time changes,
\* together with its records, and a record tells the old value truly wherever no reset
\* made versions start over.
THEOREM KeepsLedger == Spec => ImplementsLedger
<1>1. Init => LoadedIsOlder
  BY DEF Init, LoadedIsOlder
<1>2. TypeOK /\ LoadedIsOlder /\ [Next]_vars => (TypeOK /\ LoadedIsOlder)'
  BY StepTypeOK, StepLoaded
<1>3. TypeOK /\ LoadedIsOlder /\ [Next]_vars =>
        [Ledger!Next]_<<[s \in Scopes |-> ValueOf(settings[s])], locks, audit>>
  BY StepLedger
<1>4. QED
  BY InitTypeOK, InitLedger, <1>1, <1>2, <1>3, PTL DEF Spec, ImplementsLedger, Ledger!Spec
=============================================================================
