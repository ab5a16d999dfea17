-------------------------- MODULE SettingsFeedProofs --------------------------
(***************************************************************************)
(* A client that refetches on events never stays out of date in silence,   *)
(* for any number of workers, scopes and requests.                         *)
(***************************************************************************)
EXTENDS SettingsFeed, ScopedSettingsProofs

\* Either a scope has news, or what will be the client's copy of it is right.  A
\* fetch under way takes the place of the copy it will overwrite.
Fetching(s) == fetch # NoFetch /\ fetch.scope = s
Informed(s) ==
    \/ s \in lost
    \/ NewsOnTheWay(s)
    \/ Fetching(s) /\ fetch.row = Visible(s)
    \/ ~Fetching(s) /\ view[s] = Current(s)

Copies == [row : MaybeRow, locked : BOOLEAN]

FeedInv ==
    /\ TypeOK
    /\ view \in [Scopes -> Copies] /\ due \subseteq Scopes
    /\ fetch # NoFetch => fetch.scope \in Scopes /\ fetch.row \in MaybeRow
    /\ \A s \in Scopes : Informed(s)

-----------------------------------------------------------------------------
(* What the steps of the service change *)

\* A worker has news of its own scope only while it publishes; the database
\* changes at the scope of the worker that commits, which publishes next.
Calm(w) ==
    /\ settings' = settings /\ locks' = locks
    /\ \A v \in Workers \ {w} : req'[v] = req[v]

CommitsAt(w) ==
    /\ At(w, "commit") /\ req[w].scope \in Scopes
    /\ At(w, "publish")' /\ req'[w].scope = req[w].scope /\ req'[w].op = req[w].op
    /\ \A s \in Scopes \ {req[w].scope} :
         settings'[s] = settings[s] /\ (s \in locks' <=> s \in locks)
    /\ \A v \in Workers \ {w} : req'[v] = req[v]

LEMMA CommittedPublishes ==
    ASSUME TypeOK, NEW w \in Workers, req[w] # NoRequest, NEW records, Committed(w, records)
    PROVE  /\ At(w, "publish")' /\ req'[w].scope = req[w].scope /\ req'[w].op = req[w].op
           /\ \A v \in Workers \ {w} : req'[v] = req[v]
<1>1. req[w] \in Request
  BY AtRequest
<1>2. [req[w] EXCEPT !.pc = "publish"] \in Request
  BY <1>1 DEF Request, Phases
<1>3. req' = [req EXCEPT ![w] = [req[w] EXCEPT !.pc = "publish"]]
  BY DEF Committed
<1>4. QED
  BY <1>1, <1>2, <1>3, NoRequestAssumption DEF TypeOK, Request, At

LEMMA RollbackCalm ==
    ASSUME TypeOK, NEW w \in Workers, Rollback(w) PROVE Calm(w)
BY DEF Rollback, Answer, Calm, TypeOK

LEMMA CommitPutNews ==
    ASSUME TypeOK, NEW w \in Workers, CommitPut(w) PROVE Calm(w) \/ CommitsAt(w)
<1> DEFINE r == req[w]
<1>1. r # NoRequest /\ r.scope \in Scopes /\ At(w, "commit")
  BY AtRequest DEF CommitPut, AtOp, At, Request
<1>2. CASE Rollback(w)
  BY <1>2, RollbackCalm
<1>3. CASE Committed(w, <<SetRecord(r)>>) /\ UNCHANGED locks /\
           (\E row : settings' = [settings EXCEPT ![r.scope] = row])
  BY <1>1, <1>3, CommittedPublishes DEF CommitsAt, TypeOK
<1>4. CASE Committed(w, <<SetRecord(r)>>) /\ UNCHANGED <<settings, locks>>
  BY <1>1, <1>4, CommittedPublishes DEF CommitsAt
<1>5. QED
  BY <1>2, <1>3, <1>4 DEF CommitPut, Inserts

LEMMA CommitDeleteNews ==
    ASSUME TypeOK, NEW w \in Workers, CommitDelete(w) PROVE Calm(w) \/ CommitsAt(w)
<1> DEFINE r == req[w]
<1>1. r # NoRequest /\ r.scope \in Scopes /\ At(w, "commit")
  BY AtRequest DEF CommitDelete, AtOp, At, Request
<1>2. CASE Rollback(w)
  BY <1>2, RollbackCalm
<1>3. CASE /\ settings' = [settings EXCEPT ![r.scope] = NoRow]
           /\ Committed(w, <<Record("delete", r.row.value, Absent)>>)
           /\ UNCHANGED locks
  BY <1>1, <1>3, CommittedPublishes DEF CommitsAt, TypeOK
<1>4. QED
  BY <1>2, <1>3 DEF CommitDelete

LEMMA CommitLockNews ==
    ASSUME TypeOK, NEW w \in Workers, CommitLock(w) PROVE Calm(w) \/ CommitsAt(w)
<1> DEFINE r == req[w]
           record == Record("lock", Absent, Absent)
<1>1. r # NoRequest /\ r.scope \in Scopes /\ At(w, "commit")
  BY AtRequest DEF CommitLock, AtOp, At, Request
<1>2. CASE Rollback(w)
  BY <1>2, RollbackCalm
<1>3. CASE /\ locks' = locks \cup {r.scope}
           /\ Inserts(r.scope, r.effective, r.actor)
           /\ Committed(w, <<Record("set", Absent, r.effective), record>>)
  BY <1>1, <1>3, CommittedPublishes DEF CommitsAt, TypeOK, Inserts
<1>4. CASE /\ locks' = locks \cup {r.scope}
           /\ Committed(w, <<record>>) /\ UNCHANGED settings
  BY <1>1, <1>4, CommittedPublishes DEF CommitsAt
<1>5. QED
  BY <1>2, <1>3, <1>4 DEF CommitLock

LEMMA CommitUnlockNews ==
    ASSUME TypeOK, NEW w \in Workers, CommitUnlock(w) PROVE Calm(w) \/ CommitsAt(w)
<1>1. req[w] # NoRequest /\ req[w].scope \in Scopes /\ At(w, "commit")
  BY AtRequest DEF CommitUnlock, AtOp, At, Request
<1>2. QED
  BY <1>1, CommittedPublishes DEF CommitUnlock, CommitsAt

LEMMA CommitMigrateNews ==
    ASSUME TypeOK, NEW w \in Workers, CommitMigrate(w) PROVE Calm(w) \/ CommitsAt(w)
<1> DEFINE r == req[w]
           row == [value |-> r.value, version |-> 1, by |-> "migration"]
<1>1. r # NoRequest /\ r.scope \in Scopes /\ At(w, "commit")
  BY MigrateType DEF CommitMigrate, AtOp
<1>2. CASE Rollback(w)
  BY <1>2, RollbackCalm
<1>3. CASE /\ settings' = [settings EXCEPT ![r.scope] = row] /\ UNCHANGED locks
           /\ Committed(w, <<Record("migrate", Absent, r.value)>>)
  BY <1>1, <1>3, CommittedPublishes DEF CommitsAt, TypeOK
<1>4. QED
  BY <1>2, <1>3, MigrateType

\* A worker that is not publishing reads, or commits and publishes next.
LEMMA ServeNews ==
    ASSUME TypeOK, NEW w \in Workers, Begin(w) \/ Handle(w)
    PROVE  ~At(w, "publish") /\ (Calm(w) \/ CommitsAt(w))
<1>1. ~At(w, "publish")
  <2>1. CASE Begin(w)
    BY <2>1 DEF Begin, Send, StartMigration, At
  <2>2. CASE ReadValues(w) \/ Check(w) \/ LoadRow(w) \/ LoadLock(w)
    BY <2>2 DEF ReadValues, Check, LoadRow, LoadLock, At
  <2>3. CASE Commit(w)
    BY <2>3 DEF Commit, CommitPut, CommitDelete, CommitLock, CommitUnlock,
       CommitMigrate, AtOp, At
  <2>4. QED
    BY <2>1, <2>2, <2>3 DEF Handle
<1>2. CASE Begin(w) \/ ReadValues(w) \/ Check(w) \/ LoadRow(w) \/ LoadLock(w)
  <2>1. settings' = settings /\ locks' = locks
    BY <1>2 DEF Begin, Send, StartMigration, ReadValues, Check, LoadRow, LoadLock
  <2>2. \E r : req' = [req EXCEPT ![w] = r]
    <3>1. CASE Begin(w)
      BY <3>1 DEF Begin, Send, StartMigration
    <3>2. CASE ReadValues(w)
      BY <3>2 DEF ReadValues
    <3>3. CASE Check(w)
      BY <3>3 DEF Check, Answer
    <3>4. CASE LoadRow(w)
      BY <3>4 DEF LoadRow, Answer
    <3>5. CASE LoadLock(w)
      BY <3>5 DEF LoadLock, Answer
    <3>6. QED
      BY <1>2, <3>1, <3>2, <3>3, <3>4, <3>5
  <2>3. QED
    BY <1>1, <2>1, <2>2 DEF Calm, TypeOK
<1>3. CASE Commit(w)
  BY <1>1, <1>3, CommitPutNews, CommitDeleteNews, CommitLockNews, CommitUnlockNews,
     CommitMigrateNews DEF Commit
<1>4. QED
  BY <1>1, <1>2, <1>3 DEF Handle

-----------------------------------------------------------------------------
(* The steps keep the invariant *)

\* Other workers keep their news.
LEMMA NewsKept ==
    ASSUME NEW w \in Workers, NEW s \in Scopes, NewsOnTheWay(s),
           ~At(w, "publish"), \A v \in Workers \ {w} : req'[v] = req[v],
           UNCHANGED due
    PROVE  NewsOnTheWay(s)'
BY DEF NewsOnTheWay, Announces, At

LEMMA ServeKeeps == ASSUME FeedInv, NEW w \in Workers, Serve(w) PROVE FeedInv'
<1>1. TypeOK'
  BY StepTypeOK DEF FeedInv, Serve, Next
<1>2. ~At(w, "publish") /\ (Calm(w) \/ CommitsAt(w)) /\ UNCHANGED <<view, due, fetch>>
  BY ServeNews DEF FeedInv, Serve
<1>3. \A s \in lost : s \in lost'
  BY DEF Serve, Untold
<1>4. ASSUME NEW s \in Scopes PROVE Informed(s)'
  <2>1. CASE CommitsAt(w) /\ req[w].scope = s
    <3>1. CASE req[w].op = "migrate"
      BY <2>1, <3>1 DEF Serve, Untold, CommitsAt, AtOp, Informed
    <3>2. CASE req[w].op # "migrate"
      BY <2>1, <3>2 DEF CommitsAt, Informed, NewsOnTheWay, Announces
    <3>3. QED
      BY <3>1, <3>2
  <2>2. CASE ~(CommitsAt(w) /\ req[w].scope = s)
    <3>1. settings'[s] = settings[s] /\ (s \in locks' <=> s \in locks)
      BY <1>2, <2>2 DEF Calm, CommitsAt
    <3>2. Visible(s)' = Visible(s) /\ Current(s)' = Current(s)
      BY <3>1 DEF Visible, Current, Snapshot
    <3>3. NewsOnTheWay(s) => NewsOnTheWay(s)'
      BY <1>2, NewsKept DEF Calm, CommitsAt
    <3>4. Informed(s)
      BY DEF FeedInv
    <3>5. QED
      BY <1>2, <1>3, <3>2, <3>3, <3>4 DEF Informed, Fetching
  <2>3. QED
    BY <2>1, <2>2
<1>5. QED
  BY <1>1, <1>2, <1>4 DEF FeedInv

\* The end of a request, published or not, leaves the database alone; news of its
\* scope is on its way or noted as lost.
LEMMA EndKeeps ==
    ASSUME FeedInv, NEW w \in Workers, Answer(w),
           UNCHANGED <<settings, locks, audit, sent, view, fetch>>, due' \subseteq Scopes,
           \A s \in Scopes : s \in due \cup lost => s \in due' \cup lost',
           Announces(w) => req[w].scope \in due' \cup lost'
    PROVE  FeedInv'
<1>1. TypeOK'
  BY AnswerTypeOK DEF FeedInv
<1>2. ASSUME NEW s \in Scopes PROVE Informed(s)'
  <2>1. \A v \in Workers \ {w} : req'[v] = req[v]
    BY DEF Answer, FeedInv, TypeOK
  <2>2. NewsOnTheWay(s) => NewsOnTheWay(s)' \/ s \in lost'
    BY <2>1 DEF NewsOnTheWay, Announces, At
  <2>3. s \in lost => NewsOnTheWay(s)' \/ s \in lost'
    BY DEF NewsOnTheWay
  <2>4. Visible(s)' = Visible(s) /\ Current(s)' = Current(s)
    BY DEF Visible, Current, Snapshot
  <2>5. Informed(s)
    BY DEF FeedInv
  <2>6. QED
    BY <2>2, <2>3, <2>4, <2>5 DEF Informed, Fetching
<1>3. QED
  BY <1>1, <1>2 DEF FeedInv

LEMMA AnnounceKeeps == ASSUME FeedInv, NEW w \in Workers, Announce(w) PROVE FeedInv'
<1>1. req[w].scope \in Scopes
  BY AtRequest DEF FeedInv, Announce, Announces, At, Request
<1>2. due' \subseteq Scopes
  BY <1>1 DEF FeedInv, Announce
<1>3. QED
  BY <1>2, EndKeeps DEF Announce, Publish

LEMMA DropEventKeeps == ASSUME FeedInv, NEW w \in Workers, DropEvent(w) PROVE FeedInv'
BY EndKeeps DEF FeedInv, DropEvent, Publish

LEMMA EndMigrationKeeps ==
    ASSUME FeedInv, NEW w \in Workers, EndMigration(w) PROVE FeedInv'
BY EndKeeps DEF FeedInv, EndMigration, Publish, AtOp, Announces

LEMMA DieKeeps == ASSUME FeedInv, NEW w \in Workers, Die(w) PROVE FeedInv'
BY EndKeeps DEF FeedInv, Die, Crash

\* From its first query on, the fetch stands for the copy.
LEMMA FetchRowsKeeps == ASSUME FeedInv, FetchRows PROVE FeedInv'
<1>1. PICK s \in due : due' = due \ {s} /\ fetch' = [scope |-> s, row |-> Visible(s)]
  BY DEF FetchRows
<1>2. fetch = NoFetch /\ UNCHANGED <<vars, view, lost>>
  BY DEF FetchRows
<1>3. TypeOK'
  BY <1>2, StepTypeOK DEF FeedInv
<1>4. \A t : Visible(t)' = Visible(t) /\ Current(t)' = Current(t)
  BY <1>2 DEF vars, Visible, Current, Snapshot
<1>5. fetch' # NoFetch /\ s \in Scopes /\ Visible(s) \in MaybeRow
  <2>1. s \in Scopes /\ Visible(s) \in MaybeRow
    BY DEF FeedInv, TypeOK, Visible, MaybeRow
  <2>2. QED
    BY <1>1, <2>1, NoFetchAssumption
<1>6. ASSUME NEW t \in Scopes PROVE Informed(t)'
  <2>1. CASE t = s
    BY <1>1, <1>4, <1>5, <2>1 DEF Informed, Fetching
  <2>2. CASE t # s
    <3>1. NewsOnTheWay(t) => NewsOnTheWay(t)'
      BY <1>1, <1>2, <2>2 DEF NewsOnTheWay, Announces, At, vars
    <3>2. ~Fetching(t)' /\ ~Fetching(t)
      BY <1>1, <1>2, <2>2 DEF Fetching
    <3>3. QED
      BY <1>2, <1>4, <3>1, <3>2 DEF FeedInv, Informed
  <2>3. QED
    BY <2>1, <2>2
<1>7. QED
  BY <1>1, <1>2, <1>3, <1>5, <1>6 DEF FeedInv

\* 304 leaves what 200 would have brought: the tag names the copy itself.
LEMMA TagNamesCopy ==
    ASSUME NEW a \in Copies, NEW b \in Copies, Etag(a) = Etag(b) PROVE a = b
BY DEF Etag, Copies

\* The fetch ends with a copy of the rows of its first query and the locks of now.
LEMMA FetchLocksKeeps == ASSUME FeedInv, FetchLocks PROVE FeedInv'
<1> DEFINE s == fetch.scope
           snap == Snapshot(fetch.row, s \in locks)
<1>1. /\ fetch # NoFetch /\ fetch' = NoFetch /\ UNCHANGED <<vars, due, lost>>
      /\ view' = IF Etag(snap) = Etag(view[s]) THEN view ELSE [view EXCEPT ![s] = snap]
  BY DEF FetchLocks
<1>2. s \in Scopes /\ snap \in Copies /\ view \in [Scopes -> Copies]
  BY <1>1 DEF FeedInv, Snapshot, Copies
<1> HIDE DEF snap
<1>3. view' = [view EXCEPT ![s] = snap]
  <2>1. CASE Etag(snap) = Etag(view[s])
    <3>1. view[s] = snap
      BY <1>2, <2>1, TagNamesCopy
    <3>2. QED
      BY <1>1, <1>2, <2>1, <3>1
  <2>2. QED
    BY <1>1, <2>1
<1>4. TypeOK'
  BY <1>1, StepTypeOK DEF FeedInv
<1>5. \A t : Visible(t)' = Visible(t) /\ Current(t)' = Current(t)
  BY <1>1 DEF vars, Visible, Current, Snapshot
<1>6. ASSUME NEW t \in Scopes PROVE Informed(t)'
  <2>1. NewsOnTheWay(t)' <=> NewsOnTheWay(t)
    BY <1>1 DEF NewsOnTheWay, Announces, At, vars
  <2>2. Informed(t) /\ ~Fetching(t)'
    BY <1>1 DEF FeedInv, Fetching
  <2>3. CASE t = s
    <3>1. fetch.row = Visible(t) => view'[t] = Current(t)
      BY <1>2, <1>3, <2>3 DEF snap, Current
    <3>2. QED
      BY <1>1, <1>5, <2>1, <2>2, <2>3, <3>1 DEF Informed, Fetching
  <2>4. CASE t # s
    BY <1>1, <1>2, <1>3, <1>5, <2>1, <2>2, <2>4 DEF Informed, Fetching
  <2>5. QED
    BY <2>3, <2>4
<1>7. view' \in [Scopes -> Copies]
  BY <1>2, <1>3
<1>8. QED
  BY <1>1, <1>4, <1>6, <1>7 DEF FeedInv

-----------------------------------------------------------------------------
(* The theorem *)

LEMMA FeedInitInv == FeedInit => FeedInv
<1> SUFFICES ASSUME FeedInit PROVE FeedInv
  OBVIOUS
<1>1. TypeOK
  BY InitTypeOK DEF FeedInit
<1>2. \A s \in Scopes : Current(s) \in Copies
  BY <1>1 DEF TypeOK, Current, Snapshot, Visible, Copies, MaybeRow
<1>3. view \in [Scopes -> Copies]
  BY <1>2 DEF FeedInit
<1>4. QED
  BY <1>1, <1>3 DEF FeedInit, FeedInv, Informed, Fetching

LEMMA FeedStepInv == FeedInv /\ [FeedNext]_feedVars => FeedInv'
<1> SUFFICES ASSUME FeedInv, [FeedNext]_feedVars PROVE FeedInv'
  OBVIOUS
<1>1. CASE UNCHANGED feedVars
  <2>1. TypeOK'
    BY <1>1, StepTypeOK DEF FeedInv, feedVars, vars
  <2>2. \A s \in Scopes : Informed(s)'
    BY <1>1 DEF FeedInv, feedVars, Informed, NewsOnTheWay, Fetching, Visible, Current,
       Snapshot, Announces, At
  <2>3. QED
    BY <1>1, <2>1, <2>2 DEF FeedInv, feedVars
<1>2. QED
  BY <1>1, ServeKeeps, AnnounceKeeps, DropEventKeeps, EndMigrationKeeps, DieKeeps,
     FetchRowsKeeps, FetchLocksKeeps DEF FeedNext

\* A copy that differs from the database has an event on its way or a worker about
\* to send it, unless its latest change was not announced or the copy is being
\* fetched.
THEOREM NoSilentStaleness == FeedSpec => []NeverStaleInSilence
<1>1. FeedInv => NeverStaleInSilence
  BY DEF FeedInv, Informed, Fetching, NeverStaleInSilence
<1>2. QED
  BY FeedInitInv, FeedStepInv, <1>1, PTL DEF FeedSpec

\* The feed adds nothing to what the handlers may do: with events, drops and fetches
\* between its steps the service is still the one of ScopedSettings.
THEOREM FeedServesSettings == FeedSpec => Spec
<1>1. FeedInit => Init
  BY DEF FeedInit
<1>2. [FeedNext]_feedVars => [Next]_vars
  BY DEF FeedNext, feedVars, vars, Next, Serve, Announce, DropEvent, EndMigration, Die,
     FetchRows, FetchLocks
<1>3. QED
  BY <1>1, <1>2, PTL DEF FeedSpec, Spec

\* Neither a lock nor a migration, started while clients write and follow the events,
\* replaces a value that came after it looked.
THEOREM FeedNeverOverwrites == FeedSpec => InsertNeverOverwrites
BY FeedServesSettings, NeverOverwrites, PTL
=============================================================================
