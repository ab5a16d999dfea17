------------------------- MODULE ContentStoreProofs -------------------------
(***************************************************************************)
(* What ContentStore guarantees for every number of workers, items,        *)
(* bundles and requests, and that it implements ContentRegister; then that *)
(* reported snapshots of it can be restored, for any service, any mirror   *)
(* layout and any number of runs, kills and restores.                      *)
(***************************************************************************)
EXTENDS Backup, TLAPS

Revision == [item : Items, bundle : Bundles]

\* Everything that is proved by induction at once.
Inv == TypeOK /\ ShowsOwnRevision /\ Backed /\ AuditChain

-----------------------------------------------------------------------------
(* Helpers *)

LEMMA PublishedIds ==
    ASSUME TypeOK
    PROVE  /\ Published = 1 .. Len(revisions) /\ Len(revisions) \in Nat
           /\ NoItem \notin Published
           /\ \A k \in Published : revisions[k] \in Revision
<1>1. revisions \in Seq(Revision)
  BY DEF TypeOK, Revision
<1>2. Published = 1 .. Len(revisions) /\ Len(revisions) \in Nat
  BY <1>1 DEF Published
<1>3. \A k \in Published : revisions[k] \in Revision
  BY <1>1, <1>2
<1>4. NoItem \notin Published
  BY <1>2, NoItemAssumption
<1>5. QED
  BY <1>2, <1>3, <1>4

\* A published revision stays what it is when one more is added.
LEMMA OneMoreRevision ==
    ASSUME TypeOK, NEW rev \in Revision, revisions' = Append(revisions, rev)
    PROVE  /\ revisions' \in Seq(Revision)
           /\ Len(revisions') = Len(revisions) + 1
           /\ Published' = 1 .. Len(revisions) + 1
           /\ \A k \in Published : k \in Published' /\ revisions'[k] = revisions[k]
           /\ revisions'[Len(revisions) + 1] = rev
BY DEF TypeOK, Published, Revision

\* A step that adds at most one revision and loses track of no file keeps what a
\* request knows.
Kept ==
    /\ \/ revisions' = revisions
       \/ \E rev \in Revision : revisions' = Append(revisions, rev)
    /\ store \cup lost \subseteq store' \cup lost'

LEMMA KnowsKept ==
    ASSUME TypeOK, Kept, NEW w \in Workers, req[w] # NoRequest, req'[w] = req[w]
    PROVE  Knows(req[w])'
<1> DEFINE r == req[w]
<1>1. r \in Request /\ Knows(r)
  BY DEF TypeOK
<1>2. /\ Len(revisions') \in Nat /\ Len(revisions) <= Len(revisions')
      /\ Published \subseteq Published'
      /\ \A k \in Published : revisions'[k] = revisions[k]
  BY PublishedIds, OneMoreRevision DEF Kept, Published
<1>3. r.base \in 0 .. Len(revisions') \cup {NoItem}
  BY <1>1, <1>2, PublishedIds DEF Knows
<1>4. ~AlreadyShown(r, r.base) => ~AlreadyShown(r, r.base)'
  <2>1. r.base \in Published' => r.base \in Published
    BY <1>1, <1>2, PublishedIds, NoItemAssumption DEF Knows, Published, Kept
  <2>2. QED
    BY <1>2, <2>1 DEF AlreadyShown
<1>5. QED
  BY <1>1, <1>2, <1>3, <1>4 DEF Knows, Kept

-----------------------------------------------------------------------------
(* Steps that move no pointer *)

\* A step of w that moves no pointer and adds no revision, and after which the
\* request of w is over or moved on with what it knows.
Quiet(w) ==
    /\ UNCHANGED <<current, revisions, audit>>
    /\ store \cup lost \subseteq store' \cup lost'
    /\ store' \subseteq Bundles /\ lost' \subseteq Bundles /\ sent' \in Nat
    /\ \E r \in Request \cup {NoRequest} :
         /\ req' = [req EXCEPT ![w] = r]
         /\ r # NoRequest => Knows(r)'

LEMMA QuietKeeps == ASSUME Inv, NEW w \in Workers, Quiet(w) PROVE Inv'
<1>1. Kept /\ Published' = Published
  BY DEF Quiet, Kept, Published
<1>2. PICK r \in Request \cup {NoRequest} :
        req' = [req EXCEPT ![w] = r] /\ (r # NoRequest => Knows(r)')
  BY DEF Quiet
<1>3. req' \in [Workers -> Request \cup {NoRequest}]
  BY <1>2 DEF Inv, TypeOK
<1>4. ASSUME NEW v \in Workers, req'[v] # NoRequest
      PROVE  Knows(req[v])'
  <2>1. CASE v = w
    <3>1. req'[w] = r
      BY <1>2 DEF Inv, TypeOK
    <3>2. QED
      BY <1>2, <1>4, <2>1, <3>1
  <2>2. CASE v # w
    <3>1. req'[v] = req[v]
      BY <1>2, <2>2 DEF Inv, TypeOK
    <3>2. QED
      BY <1>1, <1>4, <3>1, KnowsKept DEF Inv
  <2>3. QED
    BY <2>1, <2>2
<1>5. TypeOK'
  BY <1>3, <1>4 DEF Inv, TypeOK, Quiet
<1>6. ShowsOwnRevision' /\ AuditChain'
  BY <1>1 DEF Inv, ShowsOwnRevision, AuditChain, Quiet
<1>7. Backed'
  BY <1>1 DEF Inv, Backed, Quiet
<1>8. QED
  BY <1>5, <1>6, <1>7 DEF Inv

LEMMA AnswerQuiet ==
    ASSUME Inv, NEW w \in Workers, Answer(w),
           UNCHANGED <<current, revisions, audit, sent>>,
           store \cup lost \subseteq store' \cup lost',
           store' \subseteq Bundles, lost' \subseteq Bundles
    PROVE  Quiet(w)
BY DEF Answer, Quiet, Inv, TypeOK

\* The request of a busy worker and the pointer it looks at.
LEMMA Busy ==
    ASSUME Inv, NEW w \in Workers, req[w] # NoRequest
    PROVE  /\ req[w] \in Request /\ Knows(req[w]) /\ req[w].item \in Items
           /\ req[w].bundle \in Bundles
           /\ current[req[w].item] \in 0 .. Len(revisions) \cup {NoItem}
           /\ store \subseteq Bundles /\ lost \subseteq Bundles /\ sent \in Nat
BY DEF Inv, TypeOK, Request

LEMMA StorePutTypes ==
    ASSUME NEW b \in Bundles, store \subseteq Bundles, lost \subseteq Bundles, StorePut(b)
    PROVE  /\ store' \subseteq Bundles /\ lost' \subseteq Bundles
           /\ store \cup lost \subseteq store' \cup lost' /\ b \in store' \cup lost'
BY DEF StorePut

\* A request that moves on, knowing what it needs before or after the step.
LEMMA MoveOnQuiet ==
    ASSUME Inv, NEW w \in Workers, NEW r \in Request, req' = [req EXCEPT ![w] = r],
           UNCHANGED <<current, revisions, audit>>, sent' \in Nat,
           UNCHANGED <<store, lost>>, Knows(r)
    PROVE  Quiet(w)
<1>1. Knows(r)'
  BY DEF Knows, AlreadyShown, Published
<1>2. QED
  BY <1>1 DEF Quiet, Inv, TypeOK

LEMMA SendQuiet == ASSUME Inv, NEW w \in Workers, Send(w) PROVE Quiet(w)
<1>1. Len(revisions) \in Nat
  BY PublishedIds DEF Inv
<1>2. PICK op \in Ops, i \in Items, b \in Bundles :
        \E t \in IF op = "restore" THEN 1 .. Len(revisions) + 1 ELSE {0} :
          req' = [req EXCEPT ![w] =
                    [pc |-> "load", op |-> op, item |-> i, bundle |-> b, target |-> t,
                     base |-> NoItem]]
  BY DEF Send
<1>3. PICK t \in IF op = "restore" THEN 1 .. Len(revisions) + 1 ELSE {0} :
          req' = [req EXCEPT ![w] =
                    [pc |-> "load", op |-> op, item |-> i, bundle |-> b, target |-> t,
                     base |-> NoItem]]
  BY <1>2
<1>4. t \in Nat
  BY <1>1
<1> DEFINE r == [pc |-> "load", op |-> op, item |-> i, bundle |-> b, target |-> t,
                 base |-> NoItem]
<1>5. r \in Request /\ Knows(r) /\ req' = [req EXCEPT ![w] = r]
  BY <1>3, <1>4 DEF Request, Phases, Knows
<1>6. UNCHANGED <<current, revisions, audit, store, lost>> /\ sent' \in Nat
  BY DEF Send, Inv, TypeOK
<1> HIDE DEF r
<1>7. QED
  BY <1>5, <1>6, MoveOnQuiet

LEMMA LoadForPublishQuiet ==
    ASSUME Inv, NEW w \in Workers, LoadForPublish(w) PROVE Quiet(w)
<1> DEFINE pointer == current[req[w].item]
           pc == IF AlreadyShown(req[w], pointer) THEN "repair" ELSE "put"
           r == [req[w] EXCEPT !.pc = pc, !.base = pointer]
<1>1. /\ req[w] # NoRequest /\ req[w].op = "publish" /\ req' = [req EXCEPT ![w] = r]
      /\ UNCHANGED <<current, revisions, audit, store, lost>> /\ sent' \in Nat
  BY DEF LoadForPublish, At, Inv, TypeOK
<1>2. /\ req[w] \in Request /\ Knows(req[w])
      /\ pointer \in 0 .. Len(revisions) \cup {NoItem}
  BY <1>1, Busy
<1>3. pc \in {"repair", "put"} /\ (pc = "put" => ~AlreadyShown(req[w], pointer))
  OBVIOUS
<1>4. pointer \in Nat \cup {NoItem}
  BY <1>2, PublishedIds DEF Inv
<1> HIDE DEF pc, pointer
<1>5. r \in Request /\ r.op = "publish" /\ r.pc = pc /\ r.base = pointer
  BY <1>1, <1>2, <1>3, <1>4 DEF Request, Phases
<1>6. r.bundle = req[w].bundle
  BY <1>2 DEF Request
<1> HIDE DEF r
<1>7. Knows(r)
  BY <1>2, <1>3, <1>5, <1>6 DEF Knows, AlreadyShown
<1>8. QED
  BY <1>1, <1>5, <1>7, MoveOnQuiet

LEMMA RepairQuiet == ASSUME Inv, NEW w \in Workers, Repair(w) PROVE Quiet(w)
<1>1. req[w] # NoRequest
  BY DEF Repair, At
<1>2. QED
  BY <1>1, Busy, StorePutTypes, AnswerQuiet DEF Repair

LEMMA PutQuiet == ASSUME Inv, NEW w \in Workers, Put(w) PROVE Quiet(w)
<1>1. /\ req[w] # NoRequest /\ req[w].pc = "put" /\ StorePut(req[w].bundle)
      /\ UNCHANGED <<current, revisions, audit, sent>>
  BY DEF Put, At
<1>2. /\ req[w] \in Request /\ Knows(req[w]) /\ req[w].bundle \in Bundles
      /\ store \subseteq Bundles /\ lost \subseteq Bundles /\ sent \in Nat
  BY <1>1, Busy
<1>3. PICK r : r = [req[w] EXCEPT !.pc = "commit"] /\ req' = [req EXCEPT ![w] = r]
  BY DEF Put, GoTo
<1>4. r \in Request /\ r.op = "publish" /\ r.base = req[w].base /\ r.bundle = req[w].bundle
  BY <1>1, <1>2, <1>3 DEF Request, Phases, Knows
<1>5. /\ store' \subseteq Bundles /\ lost' \subseteq Bundles
      /\ store \cup lost \subseteq store' \cup lost' /\ r.bundle \in store' \cup lost'
  BY <1>1, <1>2, <1>4, StorePutTypes
<1>6. ~AlreadyShown(r, r.base)'
  BY <1>1, <1>2, <1>4 DEF Knows, AlreadyShown, Published
<1>7. Knows(r)'
  BY <1>1, <1>2, <1>3, <1>4, <1>5, <1>6 DEF Knows
<1>8. QED
  BY <1>1, <1>2, <1>3, <1>4, <1>5, <1>7 DEF Quiet

LEMMA LoadForRetractQuiet ==
    ASSUME Inv, NEW w \in Workers, LoadForRetract(w) PROVE Quiet(w)
<1> DEFINE pointer == current[req[w].item]
           r == [req[w] EXCEPT !.pc = "commit", !.base = pointer]
<1>1. /\ req[w] # NoRequest /\ req[w].op = "retract"
      /\ UNCHANGED <<current, revisions, audit, store, lost, sent>>
      /\ \/ Answer(w)
         \/ pointer \notin {NoItem, 0} /\ req' = [req EXCEPT ![w] = r]
  BY DEF LoadForRetract, NothingToRetract, At
<1>2. /\ req[w] \in Request /\ Knows(req[w]) /\ sent \in Nat
      /\ pointer \in 0 .. Len(revisions) \cup {NoItem}
      /\ store \subseteq Bundles /\ lost \subseteq Bundles
  BY <1>1, Busy
<1>3. pointer \notin {NoItem, 0} => pointer \in Published /\ pointer \in Nat
  BY <1>2, PublishedIds DEF Inv
<1>4. CASE Answer(w)
  BY <1>1, <1>2, <1>4, AnswerQuiet
<1>5. CASE pointer \notin {NoItem, 0} /\ req' = [req EXCEPT ![w] = r]
  <2>1. pointer \in Published /\ pointer \in Nat
    BY <1>3, <1>5
  <2>2. pointer \in 0 .. Len(revisions) \cup {NoItem}
    BY <1>2
  <2> HIDE DEF pointer
  <2>3. r \in Request /\ r.op = "retract" /\ r.base = pointer /\ r.pc = "commit"
    BY <1>1, <1>2, <2>1 DEF Request, Phases
  <2> HIDE DEF r
  <2>4. Knows(r)
    BY <2>1, <2>2, <2>3 DEF Knows
  <2>5. QED
    BY <1>1, <1>2, <1>5, <2>3, <2>4, MoveOnQuiet
<1>6. QED
  BY <1>1, <1>4, <1>5

LEMMA LoadForRestoreQuiet ==
    ASSUME Inv, NEW w \in Workers, LoadForRestore(w) PROVE Quiet(w)
<1> DEFINE pointer == current[req[w].item]
           r == [req[w] EXCEPT !.pc = "file", !.base = pointer]
<1>1. /\ req[w] # NoRequest /\ req[w].op = "restore"
      /\ UNCHANGED <<current, revisions, audit, store, lost, sent>>
      /\ \/ Answer(w)
         \/ pointer # NoItem /\ req' = [req EXCEPT ![w] = r]
  BY DEF LoadForRestore, At
<1>2. /\ req[w] \in Request /\ Knows(req[w]) /\ sent \in Nat
      /\ pointer \in 0 .. Len(revisions) \cup {NoItem}
      /\ store \subseteq Bundles /\ lost \subseteq Bundles
  BY <1>1, Busy
<1>3. pointer \in Nat \cup {NoItem}
  BY <1>2, PublishedIds DEF Inv
<1>4. CASE Answer(w)
  BY <1>1, <1>2, <1>4, AnswerQuiet
<1>5. CASE pointer # NoItem /\ req' = [req EXCEPT ![w] = r]
  <2>1. pointer # NoItem /\ pointer \in 0 .. Len(revisions) \cup {NoItem}
    BY <1>2, <1>5
  <2> HIDE DEF pointer
  <2>2. r \in Request /\ r.op = "restore" /\ r.base = pointer /\ r.pc = "file"
    BY <1>1, <1>2, <1>3 DEF Request, Phases
  <2> HIDE DEF r
  <2>3. Knows(r)
    BY <2>1, <2>2 DEF Knows
  <2>4. QED
    BY <1>1, <1>2, <1>5, <2>2, <2>3, MoveOnQuiet
<1>6. QED
  BY <1>1, <1>4, <1>5

LEMMA CheckFileQuiet == ASSUME Inv, NEW w \in Workers, CheckFile(w) PROVE Quiet(w)
<1> DEFINE r == [req[w] EXCEPT !.pc = "commit"]
<1>1. /\ req[w] # NoRequest /\ req[w].pc = "file"
      /\ UNCHANGED <<current, revisions, audit, store, lost, sent>>
      /\ \/ Answer(w)
         \/ Restorable(req[w]) /\ req' = [req EXCEPT ![w] = r]
  BY DEF CheckFile, At, GoTo
<1>2. /\ req[w] \in Request /\ Knows(req[w]) /\ sent \in Nat
      /\ store \subseteq Bundles /\ lost \subseteq Bundles
  BY <1>1, Busy
<1>3. CASE Answer(w)
  BY <1>1, <1>2, <1>3, AnswerQuiet
<1>4. CASE Restorable(req[w]) /\ req' = [req EXCEPT ![w] = r]
  <2>1. /\ r \in Request /\ r.op = req[w].op /\ r.base = req[w].base /\ r.pc = "commit"
        /\ r.target = req[w].target /\ r.item = req[w].item
    BY <1>2 DEF Request, Phases
  <2> HIDE DEF r
  <2>2. req[w].op = "restore" /\ req[w].base # NoItem
    BY <1>1, <1>2 DEF Knows
  <2>3. Knows(r)
    BY <1>2, <1>4, <2>1, <2>2 DEF Knows, Restorable
  <2>4. QED
    BY <1>1, <1>2, <1>4, <2>1, <2>3, MoveOnQuiet
<1>5. QED
  BY <1>1, <1>3, <1>4

LEMMA LoseFileKeeps == ASSUME Inv, LoseFile PROVE Inv'
<1>1. /\ UNCHANGED <<current, revisions, audit, req, sent>>
      /\ store \cup lost \subseteq store' \cup lost'
      /\ store' \subseteq Bundles /\ lost' \subseteq Bundles
  BY DEF LoseFile, Inv, TypeOK
<1>2. Kept /\ Published' = Published
  BY <1>1 DEF Kept, Published
<1>3. \A w \in Workers : req'[w] # NoRequest => Knows(req[w])'
  BY <1>1, <1>2, KnowsKept DEF Inv
<1>4. TypeOK'
  BY <1>1, <1>3 DEF Inv, TypeOK
<1>5. ShowsOwnRevision' /\ AuditChain' /\ Backed'
  BY <1>1, <1>2 DEF Inv, ShowsOwnRevision, AuditChain, Backed
<1>6. QED
  BY <1>4, <1>5 DEF Inv

-----------------------------------------------------------------------------
(* Transactions *)

\* A record that starts where the trail ends keeps it without a gap.
LEMMA ChainedAppend ==
    ASSUME NEW trail \in Seq(AuditRecord), Chained(trail), NEW rec \in AuditRecord,
           rec.old = IF trail = <<>> THEN 0 ELSE trail[Len(trail)].new
    PROVE  /\ Append(trail, rec) \in Seq(AuditRecord)
           /\ Chained(Append(trail, rec))
           /\ Append(trail, rec) # <<>>
           /\ Append(trail, rec)[Len(Append(trail, rec))] = rec
<1> DEFINE longer == Append(trail, rec)
           n == Len(trail)
<1>1. /\ n \in Nat /\ DOMAIN trail = 1 .. n /\ Len(longer) = n + 1
      /\ DOMAIN longer = 1 .. n + 1
      /\ \A k \in 1 .. n : longer[k] = trail[k]
      /\ longer[n + 1] = rec /\ longer \in Seq(AuditRecord) /\ longer # <<>>
      /\ trail = <<>> <=> n = 0
  OBVIOUS
<1> HIDE DEF longer, n
<1>2. ASSUME NEW k \in DOMAIN longer
      PROVE  longer[k].old = IF k = 1 THEN 0 ELSE longer[k - 1].new
  <2>1. CASE k = n + 1
    <3>1. rec.old = IF n = 0 THEN 0 ELSE trail[n].new
      BY <1>1 DEF n
    <3>2. QED
      BY <1>1, <2>1, <3>1
  <2>2. CASE k \in 1 .. n
    <3>1. trail[k].old = IF k = 1 THEN 0 ELSE trail[k - 1].new
      BY <1>1, <2>2 DEF Chained
    <3>2. QED
      BY <1>1, <2>2, <3>1
  <2>3. QED
    BY <1>1, <1>2, <2>1, <2>2
<1>3. Chained(longer)
  BY <1>2 DEF Chained
<1>4. QED
  BY <1>1, <1>3 DEF longer

\* The compare-and-set: as the pointer is where the handler read it, its record
\* starts where the trail ends.
LEMMA MovesKeep ==
    ASSUME Inv, NEW w \in Workers, req[w] # NoRequest, PointerUnmoved(req[w]),
           NEW action \in Ops, NEW to \in Nat, Moves(w, action, to),
           Kept, UNCHANGED <<store, lost, sent>>, revisions' \in Seq(Revision),
           Len(revisions) <= Len(revisions'), to \in 0 .. Len(revisions'),
           \A k \in Published : k \in Published' /\ revisions'[k] = revisions[k],
           \A i \in Items : current[i] \in Published' => current[i] \in Published,
           to \in Published' => revisions'[to].item = req[w].item,
           Backed'
    PROVE  Inv'
<1> DEFINE i == req[w].item
           base == req[w].base
           rec == [action |-> action, old |-> NoneIfAbsent(base), new |-> to]
<1>1. /\ req[w] \in Request /\ Knows(req[w]) /\ i \in Items
      /\ current[i] = base
  BY Busy DEF PointerUnmoved
<1>2. /\ current' = [current EXCEPT ![i] = to]
      /\ audit' = [audit EXCEPT ![i] = Append(@, rec)]
      /\ req' = [req EXCEPT ![w] = NoRequest]
  BY DEF Moves, Answer
<1>3. Len(revisions) \in Nat /\ Len(revisions') \in Nat
  BY PublishedIds DEF Inv
<1>4. rec \in AuditRecord
  BY <1>1, <1>3 DEF AuditRecord, NoneIfAbsent, Knows
<1>5. audit[i] \in Seq(AuditRecord) /\ Chained(audit[i])
  BY <1>1 DEF Inv, TypeOK, AuditChain
<1>6. NoneIfAbsent(base) = IF audit[i] = <<>> THEN 0 ELSE audit[i][Len(audit[i])].new
  <2>1. CASE audit[i] = <<>>
    BY <1>1, <2>1 DEF Inv, AuditChain, NoneIfAbsent
  <2>2. CASE audit[i] # <<>>
    <3>1. audit[i][Len(audit[i])] \in AuditRecord
      BY <1>5, <2>2
    <3>2. base = audit[i][Len(audit[i])].new /\ base \in Nat
      BY <1>1, <2>2, <3>1 DEF Inv, AuditChain, AuditRecord
    <3>3. QED
      BY <2>2, <3>2, NoItemAssumption DEF NoneIfAbsent
  <2>3. QED
    BY <2>1, <2>2
<1>7. rec.old = NoneIfAbsent(base) /\ rec.new = to
  OBVIOUS
<1> HIDE DEF rec
<1>8. /\ Append(audit[i], rec) \in Seq(AuditRecord) /\ Chained(Append(audit[i], rec))
      /\ Append(audit[i], rec) # <<>>
      /\ Append(audit[i], rec)[Len(Append(audit[i], rec))] = rec
  BY <1>4, <1>5, <1>6, <1>7, ChainedAppend
<1>9. /\ audit'[i] = Append(audit[i], rec) /\ current'[i] = to
      /\ \A j \in Items \ {i} : audit'[j] = audit[j] /\ current'[j] = current[j]
  BY <1>1, <1>2 DEF Inv, TypeOK
<1>10. AuditChain'
  <2>1. ASSUME NEW j \in Items
        PROVE  /\ Chained(audit'[j])
               /\ IF audit'[j] = <<>> THEN current'[j] = NoItem
                                      ELSE current'[j] = audit'[j][Len(audit'[j])].new
    <3>1. CASE j = i
      BY <1>7, <1>8, <1>9, <3>1
    <3>2. CASE j # i
      <4>1. audit'[j] = audit[j] /\ current'[j] = current[j]
        BY <1>9, <2>1, <3>2
      <4>2. QED
        BY <2>1, <4>1 DEF Inv, AuditChain
    <3>3. QED
      BY <3>1, <3>2
  <2>2. QED
    BY <2>1 DEF AuditChain, Chained
<1>11. ShowsOwnRevision'
  BY <1>1, <1>9 DEF Inv, ShowsOwnRevision
<1>12. ASSUME NEW v \in Workers, req'[v] # NoRequest
       PROVE  Knows(req[v])'
  <2>1. req'[v] = req[v]
    BY <1>2, <1>12 DEF Inv, TypeOK
  <2>2. QED
    BY <1>12, <2>1, KnowsKept DEF Inv
<1>13. TypeOK'
  <2>1. current' \in [Items -> 0 .. Len(revisions') \cup {NoItem}]
    <3>1. 0 .. Len(revisions) \cup {NoItem} \subseteq 0 .. Len(revisions') \cup {NoItem}
      BY <1>3
    <3>2. current \in [Items -> 0 .. Len(revisions') \cup {NoItem}]
      BY <3>1 DEF Inv, TypeOK
    <3>3. QED
      BY <1>2, <3>2
  <2>2. audit' \in [Items -> Seq(AuditRecord)]
    BY <1>2, <1>8 DEF Inv, TypeOK
  <2>3. req' \in [Workers -> Request \cup {NoRequest}]
    BY <1>2 DEF Inv, TypeOK
  <2>4. QED
    BY <1>12, <2>1, <2>2, <2>3 DEF Inv, TypeOK, Revision
<1>14. QED
  BY <1>10, <1>11, <1>13 DEF Inv

LEMMA ConflictQuiet ==
    ASSUME Inv, NEW w \in Workers, Conflict(w), UNCHANGED <<store, lost, sent>>
    PROVE  Quiet(w)
BY AnswerQuiet DEF Conflict, Inv, TypeOK

LEMMA CommitPublishKeeps == ASSUME Inv, NEW w \in Workers, CommitPublish(w) PROVE Inv'
<1> DEFINE n == Len(revisions) + 1
           rev == [item |-> req[w].item, bundle |-> req[w].bundle]
<1>1. /\ req[w] # NoRequest /\ req[w].pc = "commit" /\ req[w].op = "publish"
      /\ UNCHANGED <<store, lost, sent>>
  BY DEF CommitPublish, At
<1>2. Knows(req[w]) /\ req[w].item \in Items /\ req[w].bundle \in Bundles
  BY <1>1, Busy
<1>3. CASE Conflict(w)
  BY <1>1, <1>3, ConflictQuiet, QuietKeeps
<1>4. CASE /\ PointerUnmoved(req[w]) /\ Moves(w, "publish", n)
           /\ revisions' = Append(revisions, rev)
  <2>1. rev \in Revision /\ rev.item = req[w].item /\ rev.bundle = req[w].bundle
    BY <1>2 DEF Revision
  <2> HIDE DEF rev
  <2>2. /\ Published = 1 .. Len(revisions) /\ Len(revisions) \in Nat
    BY PublishedIds DEF Inv
  <2>3. /\ revisions' \in Seq(Revision) /\ Len(revisions') = n /\ Published' = 1 .. n
        /\ \A k \in Published : k \in Published' /\ revisions'[k] = revisions[k]
        /\ revisions'[n] = rev
    BY <1>4, <2>1, OneMoreRevision DEF Inv
  <2>4. Kept
    BY <1>1, <1>4, <2>1 DEF Kept
  <2>5. \A i \in Items : current[i] \in Published' => current[i] \in Published
    BY <2>2, <2>3, NoItemAssumption DEF Inv, TypeOK
  <2>6. req[w].bundle \in store \cup lost
    BY <1>1, <1>2 DEF Knows
  <2>7. \A k \in Published' : k \in Published \/ k = n
    BY <2>2, <2>3
  <2>8. Backed'
    BY <1>1, <2>1, <2>3, <2>6, <2>7 DEF Inv, Backed
  <2>9. n \in Nat /\ n \in 0 .. Len(revisions') /\ Len(revisions) <= Len(revisions')
    BY <2>2, <2>3
  <2>10. "publish" \in Ops
    BY DEF Ops
  <2> HIDE DEF n
  <2>11. QED
    BY <1>1, <1>4, <2>1, <2>3, <2>4, <2>5, <2>8, <2>9, <2>10, MovesKeep
<1>5. QED
  BY <1>3, <1>4 DEF CommitPublish

\* A move that adds no revision.
LEMMA PlainMoveKeeps ==
    ASSUME Inv, NEW w \in Workers, req[w] # NoRequest, PointerUnmoved(req[w]),
           NEW action \in Ops, NEW to \in Nat, Moves(w, action, to),
           UNCHANGED <<revisions, store, lost, sent>>,
           to = 0 \/ (to \in Published /\ revisions[to].item = req[w].item)
    PROVE  Inv'
<1>1. /\ Published = 1 .. Len(revisions) /\ Len(revisions) \in Nat
      /\ revisions \in Seq(Revision)
  BY PublishedIds DEF Inv, TypeOK, Revision
<1>2. Kept /\ Published' = Published /\ Backed'
  BY DEF Kept, Published, Inv, Backed
<1>3. to \in 0 .. Len(revisions') /\ Len(revisions) <= Len(revisions')
  BY <1>1
<1>4. to \in Published => revisions[to].item = req[w].item
  BY <1>1
<1>5. QED
  BY <1>1, <1>2, <1>3, <1>4, MovesKeep

LEMMA CommitRetractKeeps == ASSUME Inv, NEW w \in Workers, CommitRetract(w) PROVE Inv'
<1>1. req[w] # NoRequest /\ UNCHANGED <<store, lost, sent>> /\ "retract" \in Ops
  BY DEF CommitRetract, At, Ops
<1>2. CASE Conflict(w)
  BY <1>1, <1>2, ConflictQuiet, QuietKeeps
<1>3. CASE PointerUnmoved(req[w]) /\ Moves(w, "retract", 0) /\ UNCHANGED revisions
  <2> DEFINE to == 0
  <2>1. Moves(w, "retract", to) /\ to = 0 /\ to \in Nat
    BY <1>3
  <2>2. /\ UNCHANGED <<revisions, store, lost, sent>>
        /\ to = 0 \/ (to \in Published /\ revisions[to].item = req[w].item)
    BY <1>1, <1>3, <2>1
  <2> HIDE DEF to
  <2>3. PointerUnmoved(req[w])
    BY <1>3
  <2>4. QED
    BY <1>1, <2>1, <2>2, <2>3, PlainMoveKeeps
<1>4. QED
  BY <1>2, <1>3 DEF CommitRetract

LEMMA CommitRestoreKeeps == ASSUME Inv, NEW w \in Workers, CommitRestore(w) PROVE Inv'
<1>1. /\ req[w] # NoRequest /\ UNCHANGED <<store, lost, sent>> /\ "restore" \in Ops
      /\ req[w].pc = "commit" /\ req[w].op = "restore"
  BY DEF CommitRestore, At, Ops
<1>2. /\ req[w].target \in Nat /\ req[w].target \in Published
      /\ revisions[req[w].target].item = req[w].item
  BY <1>1, Busy DEF Knows, Request
<1>3. CASE Conflict(w)
  BY <1>1, <1>3, ConflictQuiet, QuietKeeps
<1>4. CASE /\ PointerUnmoved(req[w]) /\ Moves(w, "restore", req[w].target)
           /\ UNCHANGED revisions
  BY <1>1, <1>2, <1>4, PlainMoveKeeps
<1>5. QED
  BY <1>3, <1>4 DEF CommitRestore

LEMMA CrashQuiet == ASSUME Inv, NEW w \in Workers, Crash(w) PROVE Quiet(w)
BY AnswerQuiet DEF Crash, Inv, TypeOK

\* A worker either moves no pointer or runs one of the transactions.
LEMMA WorkerStep ==
    ASSUME Inv, NEW w \in Workers, Send(w) \/ Handle(w) \/ Crash(w)
    PROVE  Quiet(w) \/ CommitPublish(w) \/ CommitRetract(w) \/ CommitRestore(w)
BY SendQuiet, LoadForPublishQuiet, RepairQuiet, PutQuiet, LoadForRetractQuiet,
   LoadForRestoreQuiet, CheckFileQuiet, CrashQuiet DEF Handle

LEMMA InitInv == Init => Inv
<1> SUFFICES ASSUME Init PROVE Inv
  OBVIOUS
<1>1. revisions = <<>> /\ Published = {} /\ Len(revisions) = 0
  BY DEF Init, Published
<1>2. TypeOK
  BY <1>1 DEF Init, TypeOK
<1>3. ShowsOwnRevision /\ Backed /\ AuditChain
  BY <1>1 DEF Init, ShowsOwnRevision, Backed, AuditChain, Chained
<1>4. QED
  BY <1>2, <1>3 DEF Inv

LEMMA StepInv == Inv /\ [Next]_vars => Inv'
<1> SUFFICES ASSUME Inv, [Next]_vars PROVE Inv'
  OBVIOUS
<1>1. CASE UNCHANGED vars
  <2>1. \A w \in Workers : req'[w] # NoRequest => Knows(req[w])'
    BY <1>1, KnowsKept DEF Inv, vars, Kept
  <2>2. QED
    BY <1>1, <2>1 DEF vars, Inv, TypeOK, ShowsOwnRevision, Backed, AuditChain, Published
<1>2. CASE LoseFile
  BY <1>2, LoseFileKeeps
<1>3. ASSUME NEW w \in Workers, Send(w) \/ Handle(w) \/ Crash(w) PROVE Inv'
  BY <1>3, WorkerStep, QuietKeeps, CommitPublishKeeps, CommitRetractKeeps, CommitRestoreKeeps
<1>4. QED
  BY <1>1, <1>2, <1>3 DEF Next

\* Inv holds throughout.
LEMMA Invariance == Spec => []Inv
BY InitInv, StepInv, PTL DEF Spec

\* The tables stay well formed and every request knows what its phase needs.
THEOREM TypeCorrect == Spec => []TypeOK
<1>1. Inv => TypeOK
  BY DEF Inv
<1>2. QED
  BY Invariance, <1>1, PTL

\* An item never shows another item's revision.
THEOREM OwnRevisions == Spec => []ShowsOwnRevision
<1>1. Inv => ShowsOwnRevision
  BY DEF Inv
<1>2. QED
  BY Invariance, <1>1, PTL

\* No revision is ever visible before its bundle was stored.
THEOREM RevisionsBacked == Spec => []Backed
<1>1. Inv => Backed
  BY DEF Inv
<1>2. QED
  BY Invariance, <1>1, PTL

\* The audit of an item is its history, without a gap or a fork.
THEOREM TrailChained == Spec => []AuditChain
<1>1. Inv => AuditChain
  BY DEF Inv
<1>2. QED
  BY Invariance, <1>1, PTL

-----------------------------------------------------------------------------
(* Refinement *)

LEMMA RegisterStep ==
    ASSUME Inv, [Next]_vars
    PROVE  [Register!Next]_<<current, revisions>>
<1>1. CASE UNCHANGED <<current, revisions>>
  BY <1>1
<1>2. ASSUME NEW w \in Workers, CommitPublish(w), ~UNCHANGED <<current, revisions>>
      PROVE  Register!Next
  <2>1. /\ req[w] # NoRequest /\ req[w].pc = "commit" /\ req[w].op = "publish"
        /\ PointerUnmoved(req[w]) /\ Moves(w, "publish", Len(revisions) + 1)
        /\ revisions' = Append(revisions, [item |-> req[w].item, bundle |-> req[w].bundle])
    BY <1>2 DEF CommitPublish, At, Conflict
  <2>2. Knows(req[w]) /\ req[w].item \in Items /\ req[w].bundle \in Bundles
    BY <2>1, Busy
  <2>3. ~Register!Shows(req[w].item, req[w].bundle)
    BY <2>1, <2>2 DEF Knows, AlreadyShown, PointerUnmoved, Published, Register!Shows,
       Register!Published
  <2>4. Register!Publish(req[w].item, req[w].bundle)
    BY <2>1, <2>3 DEF Moves, Register!Publish
  <2>5. QED
    BY <2>2, <2>4 DEF Register!Next
<1>3. ASSUME NEW w \in Workers, CommitRetract(w), ~UNCHANGED <<current, revisions>>
      PROVE  Register!Next
  <2>1. /\ req[w] # NoRequest /\ req[w].pc = "commit" /\ req[w].op = "retract"
        /\ PointerUnmoved(req[w]) /\ Moves(w, "retract", 0) /\ UNCHANGED revisions
    BY <1>3 DEF CommitRetract, At, Conflict
  <2>2. Knows(req[w]) /\ req[w].item \in Items
    BY <2>1, Busy
  <2>3. Register!Retract(req[w].item)
    BY <2>1, <2>2 DEF Knows, PointerUnmoved, Moves, Published, Register!Retract,
       Register!Published
  <2>4. QED
    BY <2>2, <2>3 DEF Register!Next
<1>4. ASSUME NEW w \in Workers, CommitRestore(w), ~UNCHANGED <<current, revisions>>
      PROVE  Register!Next
  <2>1. /\ req[w] # NoRequest /\ req[w].pc = "commit" /\ req[w].op = "restore"
        /\ PointerUnmoved(req[w]) /\ Moves(w, "restore", req[w].target)
        /\ UNCHANGED revisions
    BY <1>4 DEF CommitRestore, At, Conflict
  <2>2. Knows(req[w]) /\ req[w].item \in Items
    BY <2>1, Busy
  <2>3. Register!Restore(req[w].item, req[w].target) /\ req[w].target \in Register!Published
    BY <2>1, <2>2 DEF Knows, PointerUnmoved, Moves, Published, Register!Restore,
       Register!Published
  <2>4. QED
    BY <2>2, <2>3 DEF Register!Next
<1>5. ASSUME NEW w \in Workers, Quiet(w)
      PROVE  UNCHANGED <<current, revisions>>
  BY <1>5 DEF Quiet
<1>6. QED
  BY <1>1, <1>2, <1>3, <1>4, <1>5, WorkerStep DEF Next, LoseFile, vars

\* The handlers implement the register, with its variables as they are.
THEOREM Implements == Spec => ImplementsRegister
<1>1. Init => Register!Init
  BY DEF Init, Register!Init
<1>2. Inv /\ [Next]_vars => [Register!Next]_<<current, revisions>>
  BY RegisterStep
<1>3. QED
  BY Invariance, <1>1, <1>2, PTL DEF Spec, ImplementsRegister, Register!Spec

-----------------------------------------------------------------------------
(* The backup beside the service *)

\* What a copy of the database has of a sound service; its files may be elsewhere.
Copy ==
    [current : [Items -> Nat \cup {NoItem}], revisions : Seq(Revision),
     audit : [Items -> Seq(AuditRecord)]]
Sound(db) ==
    /\ \A i \in Items : db.current[i] \in 0 .. Len(db.revisions) \cup {NoItem}
    /\ \A i \in Items : db.current[i] \in DOMAIN db.revisions =>
                           db.revisions[db.current[i]].item = i
    /\ \A i \in Items :
          /\ Chained(db.audit[i])
          /\ IF db.audit[i] = <<>> THEN db.current[i] = NoItem
                                   ELSE db.current[i] = db.audit[i][Len(db.audit[i])].new

SoundCopies == {db \in Copy : Sound(db)}
Snapshot == [db : SoundCopies, reported : BOOLEAN]

Shape ==
    /\ snapshots \in Seq(Snapshot)
    /\ mirror \subseteq Bundles /\ gone \subseteq Bundles /\ lost \subseteq gone
    /\ run.pc \in {"idle", "copied", "mirror"}
    /\ run = [pc |-> run.pc, copy |-> run.copy, dirs |-> run.dirs, files |-> run.files]
    /\ run.files \subseteq store \cup gone
    /\ run.pc = "copied" => run.copy \in SoundCopies
    /\ run.pc = "mirror" => snapshots # <<>>

\* Files that a run has still to look at.
Ahead == run.files \cup {b \in store : Dir[b] \in run.dirs}

\* The copy of a run lacks nothing that is not stored, mirrored, ahead or gone.
Followed ==
    /\ run.pc = "copied" => BundlesOf(run.copy) \subseteq store \cup gone
    /\ run.pc = "mirror" =>
         BundlesOf(snapshots[Len(snapshots)].db) \subseteq mirror \cup gone \cup Ahead

BackupInv == Inv /\ Shape /\ Followed /\ ReportedRestorable /\ AlwaysRestorable

-----------------------------------------------------------------------------
(* Helpers *)

\* A file of the service is still there, or known to be lost.
LEMMA FilesAccounted ==
    ASSUME Inv, Next
    PROVE  store \cup lost \subseteq store' \cup lost'
<1>1. CASE LoseFile
  BY <1>1 DEF LoseFile
<1>2. ASSUME NEW w \in Workers, Send(w) \/ Handle(w) \/ Crash(w)
      PROVE  store \cup lost \subseteq store' \cup lost'
  BY <1>2 DEF Send, Handle, Crash, LoadForPublish, Repair, Put, LoadForRetract,
     LoadForRestore, CheckFile, CommitPublish, CommitRetract, CommitRestore, StorePut
<1>3. QED
  BY <1>1, <1>2 DEF Next

\* Pruning keeps the newest snapshot and brings in no other.
LEMMA NewestKeepsLast ==
    ASSUME NEW S, NEW dbs \in Seq(S), dbs # <<>>
    PROVE  /\ Newest(dbs) \in Seq(S) /\ Newest(dbs) # <<>>
           /\ \A k \in DOMAIN Newest(dbs) : \E j \in DOMAIN dbs : Newest(dbs)[k] = dbs[j]
           /\ \E k \in DOMAIN Newest(dbs) : Newest(dbs)[k] = dbs[Len(dbs)]
<1> DEFINE first == IF Len(dbs) > Keep THEN Len(dbs) - Keep + 1 ELSE 1
           kept == SubSeq(dbs, first, Len(dbs))
<1>1. Len(dbs) \in Nat \ {0} /\ first \in 1 .. Len(dbs)
  BY BackupAssumption
<1> HIDE DEF first
<1>2. /\ kept \in Seq(S) /\ Len(kept) = Len(dbs) - first + 1
      /\ \A k \in 1 .. Len(kept) : kept[k] = dbs[first + k - 1]
  BY <1>1
<1>3. \A k \in DOMAIN kept : first + k - 1 \in DOMAIN dbs
  BY <1>1, <1>2
<1>4. Len(kept) \in DOMAIN kept /\ kept[Len(kept)] = dbs[Len(dbs)]
  BY <1>1, <1>2
<1>5. kept = Newest(dbs)
  BY DEF Newest, first
<1>6. QED
  BY <1>2, <1>3, <1>4, <1>5

\* The database of a sound service is a sound copy, which its files cover.
LEMMA DatabaseSound ==
    ASSUME Inv, Shape
    PROVE  Database \in SoundCopies /\ BundlesOf(Database) \subseteq store \cup gone
<1>1. Database \in Copy
  BY DEF Inv, TypeOK, Database, Copy, Revision
<1>2. Sound(Database)
  BY DEF Inv, TypeOK, ShowsOwnRevision, AuditChain, Published, Sound, Database
<1>3. BundlesOf(Database) \subseteq store \cup gone
  BY DEF Inv, Backed, Published, BundlesOf, Database, Shape
<1>4. QED
  BY <1>1, <1>2, <1>3 DEF SoundCopies

-----------------------------------------------------------------------------
(* The steps *)

\* The service may lose what a run has still to look at, but not without a trace.
LEMMA ServiceKeeps == ASSUME BackupInv, Service PROVE BackupInv'
<1>1. Inv'
  BY StepInv DEF BackupInv, Service
<1>2. store \cup lost \subseteq store' \cup lost' /\ lost' \subseteq Bundles
  BY <1>1, FilesAccounted DEF BackupInv, Service, Inv, TypeOK
<1>3. store \cup gone \subseteq store' \cup gone' /\ gone \subseteq gone' /\ gone' \subseteq Bundles
  BY <1>2 DEF BackupInv, Service, Shape
<1>4. Shape'
  BY <1>3 DEF BackupInv, Service, Shape
<1>5. Ahead \subseteq Ahead' \cup gone'
  BY <1>3 DEF Ahead, Service
<1>6. Followed'
  BY <1>3, <1>5 DEF BackupInv, Service, Followed
<1>7. ReportedRestorable' /\ AlwaysRestorable'
  BY <1>3 DEF BackupInv, Service, ReportedRestorable, AlwaysRestorable, Covers
<1>8. QED
  BY <1>1, <1>4, <1>6, <1>7 DEF BackupInv

\* A step of the script leaves the service alone.
LEMMA ServiceUntouched ==
    ASSUME Inv, UNCHANGED vars PROVE Inv'
BY StepInv

LEMMA CopyDatabaseKeeps == ASSUME BackupInv, CopyDatabase PROVE BackupInv'
<1>1. Inv'
  BY ServiceUntouched DEF BackupInv, CopyDatabase
<1>2. /\ run'.pc = "copied" /\ run'.copy = Database /\ run'.files = {} /\ run'.dirs = {}
      /\ run' = [pc |-> "copied", copy |-> Database, dirs |-> {}, files |-> {}]
  BY DEF CopyDatabase, Idle
<1>3. Database \in SoundCopies /\ BundlesOf(Database) \subseteq store \cup gone
  BY DatabaseSound DEF BackupInv
<1>4. Shape'
  BY <1>2, <1>3 DEF BackupInv, CopyDatabase, Shape, vars
<1>5. Followed'
  BY <1>2, <1>3 DEF CopyDatabase, Followed, vars
<1>6. ReportedRestorable' /\ AlwaysRestorable'
  BY DEF BackupInv, CopyDatabase, ReportedRestorable, AlwaysRestorable, Covers
<1>7. QED
  BY <1>1, <1>4, <1>5, <1>6 DEF BackupInv

LEMMA FinishSnapshotKeeps == ASSUME BackupInv, FinishSnapshot PROVE BackupInv'
<1> DEFINE new == [db |-> run.copy, reported |-> FALSE]
<1>1. Inv'
  BY ServiceUntouched DEF BackupInv, FinishSnapshot
<1>2. /\ run'.pc = "mirror" /\ run'.files = {} /\ run'.dirs = DirsToVisit
      /\ run' = [pc |-> "mirror", copy |-> run'.copy, dirs |-> run'.dirs, files |-> run'.files]
  BY DEF FinishSnapshot, Idle
<1>3. new \in Snapshot /\ snapshots \in Seq(Snapshot) /\ snapshots' = Append(snapshots, new)
  BY DEF BackupInv, FinishSnapshot, Shape, Snapshot, Named
<1>4. /\ snapshots' \in Seq(Snapshot) /\ snapshots' # <<>>
      /\ snapshots'[Len(snapshots')] = new
      /\ \A k \in DOMAIN snapshots : k \in DOMAIN snapshots' /\ snapshots'[k] = snapshots[k]
      /\ \A k \in DOMAIN snapshots' : k \in DOMAIN snapshots \/ snapshots'[k] = new
  BY <1>3
<1>5. Shape'
  BY <1>2, <1>4 DEF BackupInv, FinishSnapshot, Shape, vars
<1>6. store \subseteq Ahead'
  BY <1>2 DEF Ahead, DirsToVisit, FinishSnapshot, vars
<1>7. Followed'
  BY <1>2, <1>4, <1>6 DEF BackupInv, Followed, FinishSnapshot, vars
<1>8. ReportedRestorable' /\ AlwaysRestorable'
  BY <1>4 DEF BackupInv, FinishSnapshot, ReportedRestorable, AlwaysRestorable, Covers
<1>9. QED
  BY <1>1, <1>5, <1>7, <1>8 DEF BackupInv

LEMMA MirrorDirKeeps == ASSUME BackupInv, MirrorDir PROVE BackupInv'
<1>1. Inv'
  BY ServiceUntouched DEF BackupInv, MirrorDir
<1>2. PICK d \in run.dirs :
        run' = [run EXCEPT !.dirs = @ \ {d}, !.files = {b \in store : Dir[b] = d}]
  BY DEF MirrorDir
<1>3. /\ run'.pc = "mirror" /\ run'.dirs = run.dirs \ {d}
      /\ run'.files = {b \in store : Dir[b] = d} /\ run'.copy = run.copy
      /\ run' = [pc |-> run'.pc, copy |-> run'.copy, dirs |-> run'.dirs, files |-> run'.files]
  BY <1>2 DEF BackupInv, Shape, MirrorDir
<1>4. Shape'
  BY <1>3 DEF BackupInv, MirrorDir, Shape, vars
<1>5. Ahead \subseteq Ahead'
  BY <1>3 DEF Ahead, MirrorDir, vars
<1>6. Followed'
  BY <1>3, <1>5 DEF BackupInv, Followed, MirrorDir, vars
<1>7. ReportedRestorable' /\ AlwaysRestorable'
  BY DEF BackupInv, MirrorDir, ReportedRestorable, AlwaysRestorable, Covers
<1>8. QED
  BY <1>1, <1>4, <1>6, <1>7 DEF BackupInv

LEMMA MirrorFileKeeps == ASSUME BackupInv, MirrorFile PROVE BackupInv'
<1>1. Inv'
  BY ServiceUntouched DEF BackupInv, MirrorFile
<1>2. PICK b \in run.files :
        /\ run' = [run EXCEPT !.files = @ \ {b}]
        /\ mirror' = mirror \cup ({b} \cap store)
  BY DEF MirrorFile
<1>3. /\ run'.pc = "mirror" /\ run'.dirs = run.dirs
      /\ run'.files = run.files \ {b} /\ run'.copy = run.copy
      /\ run' = [pc |-> run'.pc, copy |-> run'.copy, dirs |-> run'.dirs, files |-> run'.files]
  BY <1>2 DEF BackupInv, Shape, MirrorFile
<1>4. mirror \subseteq mirror' /\ mirror' \subseteq Bundles /\ b \in mirror' \cup gone
  BY <1>2 DEF BackupInv, Shape, Inv, TypeOK
<1>5. Shape'
  BY <1>3, <1>4 DEF BackupInv, MirrorFile, Shape, vars
<1>6. Ahead \subseteq Ahead' \cup {b}
  BY <1>3 DEF Ahead, MirrorFile, vars
<1>7. Followed'
  BY <1>3, <1>4, <1>6 DEF BackupInv, Followed, MirrorFile, vars
<1>8. ReportedRestorable' /\ AlwaysRestorable'
  BY <1>4 DEF BackupInv, MirrorFile, ReportedRestorable, AlwaysRestorable, Covers
<1>9. QED
  BY <1>1, <1>5, <1>7, <1>8 DEF BackupInv

\* A run that ends has nothing ahead of it: its snapshot is covered.
LEMMA PruneKeeps == ASSUME BackupInv, Prune PROVE BackupInv'
<1> DEFINE last == Len(snapshots)
           done == [snapshots EXCEPT ![last].reported = TRUE]
<1>1. Inv'
  BY ServiceUntouched DEF BackupInv, Prune
<1>2. run' = Idle /\ snapshots' = Newest(done) /\ covered'
  BY DEF Prune
<1>3. /\ snapshots \in Seq(Snapshot) /\ snapshots # <<>>
      /\ BundlesOf(snapshots[last].db) \subseteq mirror \cup gone
  BY DEF BackupInv, Prune, Shape, Followed, Ahead
<1>4. last \in DOMAIN snapshots /\ snapshots[last] \in Snapshot
  BY <1>3
<1>5. /\ done \in Seq(Snapshot) /\ Len(done) = last /\ done # <<>>
      /\ DOMAIN done = DOMAIN snapshots
  <2>1. [snapshots[last] EXCEPT !.reported = TRUE] \in Snapshot
    BY <1>4 DEF Snapshot
  <2>2. QED
    BY <2>1, <1>3, <1>4
<1>6. /\ done[last].reported /\ done[last].db = snapshots[last].db
      /\ \A k \in DOMAIN done \ {last} : done[k] = snapshots[k]
  BY <1>3, <1>4 DEF Snapshot
<1>7. \A k \in DOMAIN done : done[k].reported => Covers(done[k])
  BY <1>3, <1>5, <1>6 DEF BackupInv, ReportedRestorable, Covers
<1> HIDE DEF done
<1>8. /\ Newest(done) \in Seq(Snapshot)
      /\ \A k \in DOMAIN Newest(done) : \E j \in DOMAIN done : Newest(done)[k] = done[j]
      /\ \E k \in DOMAIN Newest(done) : Newest(done)[k] = done[last]
  BY <1>5, NewestKeepsLast
<1>9. Shape'
  BY <1>2, <1>8 DEF BackupInv, Prune, Shape, Idle, vars
<1>10. Followed'
  BY <1>2 DEF Followed, Idle
<1>11. ReportedRestorable'
  <2>1. \A s : Covers(s)' <=> Covers(s)
    BY DEF Prune, Covers
  <2>2. QED
    BY <1>2, <1>7, <1>8 DEF ReportedRestorable, Prune, Covers
<1>12. AlwaysRestorable'
  BY <1>2, <1>6, <1>8 DEF AlwaysRestorable
<1>13. QED
  BY <1>1, <1>9, <1>10, <1>11, <1>12 DEF BackupInv

LEMMA InterruptKeeps == ASSUME BackupInv, Interrupt PROVE BackupInv'
<1>1. Inv'
  BY ServiceUntouched DEF BackupInv, Interrupt
<1>2. Shape' /\ Followed'
  BY DEF BackupInv, Interrupt, Shape, Followed, Idle, vars
<1>3. ReportedRestorable' /\ AlwaysRestorable'
  BY DEF BackupInv, Interrupt, ReportedRestorable, AlwaysRestorable, Covers
<1>4. QED
  BY <1>1, <1>2, <1>3 DEF BackupInv

\* A restored service is sound: its database was, and what its revisions name is
\* in the mirror or had disappeared.
LEMMA RestoreSnapshotKeeps == ASSUME BackupInv, RestoreSnapshot PROVE BackupInv'
<1>1. PICK k \in DOMAIN snapshots, kept \in {store, {}} :
        /\ snapshots[k].reported
        /\ current' = snapshots[k].db.current
        /\ revisions' = snapshots[k].db.revisions
        /\ audit' = snapshots[k].db.audit
        /\ store' = kept \cup mirror
  BY DEF RestoreSnapshot
<1> DEFINE db == snapshots[k].db
<1>2. /\ db \in Copy /\ Sound(db) /\ BundlesOf(db) \subseteq mirror \cup gone
  <2>1. snapshots[k] \in Snapshot
    BY DEF BackupInv, Shape
  <2>2. db \in SoundCopies
    BY <2>1 DEF Snapshot
  <2>3. BundlesOf(db) \subseteq mirror \cup gone
    BY <1>1 DEF BackupInv, ReportedRestorable, Covers
  <2>4. QED
    BY <2>2, <2>3 DEF SoundCopies
<1>3. lost' = gone \ store' /\ req' = [w \in Workers |-> NoRequest] /\ sent' = sent
  BY DEF RestoreSnapshot
<1>4. store' \subseteq Bundles /\ lost' \subseteq Bundles /\ mirror \cup gone \subseteq store' \cup lost'
  BY <1>1, <1>3 DEF BackupInv, Shape, Inv, TypeOK
<1>5. TypeOK'
  <2>1. revisions' \in Seq([item : Items, bundle : Bundles])
    BY <1>1, <1>2 DEF Copy, Revision
  <2>2. current' \in [Items -> 0 .. Len(revisions') \cup {NoItem}]
    BY <1>1, <1>2 DEF Copy, Sound
  <2>3. audit' \in [Items -> Seq(AuditRecord)]
    BY <1>1, <1>2 DEF Copy
  <2>4. sent' \in Nat
    BY <1>3 DEF BackupInv, Inv, TypeOK
  <2>5. QED
    BY <1>3, <1>4, <2>1, <2>2, <2>3, <2>4 DEF TypeOK
<1>6. ShowsOwnRevision' /\ AuditChain'
  BY <1>1, <1>2 DEF Sound, ShowsOwnRevision, AuditChain, Published
<1>7. Backed'
  BY <1>1, <1>2, <1>4 DEF Backed, Published, BundlesOf
<1>8. Shape' /\ Followed'
  BY <1>3 DEF BackupInv, RestoreSnapshot, Shape, Followed, Idle
<1>9. ReportedRestorable' /\ AlwaysRestorable'
  BY DEF BackupInv, RestoreSnapshot, ReportedRestorable, AlwaysRestorable, Covers
<1>10. QED
  BY <1>5, <1>6, <1>7, <1>8, <1>9 DEF BackupInv, Inv

-----------------------------------------------------------------------------
(* The theorems *)

LEMMA BackupInitInv == BackupInit => BackupInv
<1> SUFFICES ASSUME BackupInit PROVE BackupInv
  OBVIOUS
<1>1. Inv
  BY InitInv DEF BackupInit
<1>2. Shape /\ Followed
  BY DEF BackupInit, Init, Shape, Followed, Idle
<1>3. ReportedRestorable /\ AlwaysRestorable
  BY DEF BackupInit, ReportedRestorable, AlwaysRestorable
<1>4. QED
  BY <1>1, <1>2, <1>3 DEF BackupInv

LEMMA BackupStepInv == BackupInv /\ [BackupNext]_backupVars => BackupInv'
<1> SUFFICES ASSUME BackupInv, [BackupNext]_backupVars PROVE BackupInv'
  OBVIOUS
<1>1. CASE UNCHANGED backupVars
  <2>1. Inv'
    BY <1>1, ServiceUntouched DEF BackupInv, backupVars
  <2>2. Shape' /\ Followed'
    BY <1>1 DEF BackupInv, backupVars, vars, Shape, Followed, Ahead
  <2>3. ReportedRestorable' /\ AlwaysRestorable'
    BY <1>1 DEF BackupInv, backupVars, ReportedRestorable, AlwaysRestorable, Covers
  <2>4. QED
    BY <2>1, <2>2, <2>3 DEF BackupInv
<1>2. QED
  BY <1>1, ServiceKeeps, CopyDatabaseKeeps, FinishSnapshotKeeps, MirrorDirKeeps,
     MirrorFileKeeps, PruneKeeps, InterruptKeeps, RestoreSnapshotKeeps DEF BackupNext

LEMMA BackupInvariance == BackupSpec => []BackupInv
BY BackupInitInv, BackupStepInv, PTL DEF BackupSpec

\* backup_logbook.py:9-11: a snapshot whose run reported success can be restored
\* in full from the mirror, whatever the service did meanwhile.
THEOREM SnapshotsRestorable == BackupSpec => []ReportedRestorable
<1>1. BackupInv => ReportedRestorable
  BY DEF BackupInv
<1>2. QED
  BY BackupInvariance, <1>1, PTL

\* Killed runs never cost the last snapshot that can be restored.
THEOREM OneIsLeft == BackupSpec => []AlwaysRestorable
<1>1. BackupInv => AlwaysRestorable
  BY DEF BackupInv
<1>2. QED
  BY BackupInvariance, <1>1, PTL

\* The service stays sound through restores, from the mirror alone too.
THEOREM RestoredIsSound == BackupSpec => []ServiceStaysSound
<1>1. BackupInv => ServiceStaysSound
  BY DEF BackupInv, Inv, ServiceStaysSound
<1>2. QED
  BY BackupInvariance, <1>1, PTL
=============================================================================
