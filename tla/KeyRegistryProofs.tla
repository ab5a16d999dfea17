------------------------- MODULE KeyRegistryProofs -------------------------
(***************************************************************************)
(* Proofs about the key registry for any number of workers, authors, specs *)
(* and requests.  The invariant behind the theorems: a spec column, in the *)
(* record or in a row that a handler loaded, holds an endorsed spec or     *)
(* nothing.                                                                *)
(***************************************************************************)
EXTENDS KeyRegistry, TLAPS

Granted(r) == r # NoRow => r.spec \in endorsed \cup {None}

RequestGranted(r) ==
    /\ Granted(r.row)
    /\ r.pc = "store" => r.spec \in endorsed

Inv ==
    /\ TypeOK
    /\ endorsed \subseteq Specs
    /\ Granted(row)
    /\ \A w \in Workers : req[w] # NoRequest => RequestGranted(req[w])
    /\ used \subseteq endorsed

USE SpecAssumption, AuthorAssumption, BoundAssumption, NoRowAssumption,
    NoRequestAssumption

-----------------------------------------------------------------------------
\* The spec in force is a spec or nothing.
LEMMA EffectiveType == \A r \in MaybeRow : Effective(r) \in MaybeSpec
BY DEF Effective, MaybeRow, MaybeSpec, Row

\* The request of a busy worker.
LEMMA AtRequest ==
    ASSUME TypeOK, NEW w \in Workers, NEW pc, At(w, pc)
    PROVE  req[w] \in Request /\ req[w] # NoRequest /\ req[w].pc = pc
BY DEF TypeOK, At

\* An approval that was not declined is of a spec.
LEMMA ApprovalType ==
    ASSUME NEW r \in Request, NEW current \in Row, Approval(r, current) # None
    PROVE  Approval(r, current) \in Specs
<1> DEFINE base == IF current.status = "approved" THEN current.spec ELSE current.proposed
<1>1. r.spec \in MaybeSpec /\ base \in MaybeSpec /\ Bare \in MaybeSpec
  BY DEF Request, Row
<1>2. Approval(r, current) = IF r.spec # None THEN r.spec
                             ELSE IF base = None THEN Bare ELSE base
  BY DEF Approval
<1> HIDE DEF base
<1> QED BY <1>1, <1>2 DEF MaybeSpec

\* An UPDATE leaves a record whose columns are each an old one or a new one.
LEMMA MergedType ==
    ASSUME NEW current \in Row, NEW loaded \in Row, NEW new \in Row
    PROVE  /\ Merged(current, loaded, new) \in Row
           /\ Merged(current, loaded, new).spec \in {new.spec, current.spec}
           /\ Merged(current, loaded, new).status \in {new.status, current.status}
           /\ Merged(current, loaded, new).spec = new.spec \/ new.spec = loaded.spec
<1>1. DOMAIN new = {"status", "spec", "proposed", "by"}
  BY DEF Row
<1>2. Merged(current, loaded, new) =
        [status   |-> IF new.status # loaded.status THEN new.status ELSE current.status,
         spec     |-> IF new.spec # loaded.spec THEN new.spec ELSE current.spec,
         proposed |-> IF new.proposed # loaded.proposed THEN new.proposed
                                                        ELSE current.proposed,
         by       |-> IF new.by # loaded.by THEN new.by ELSE current.by]
  BY <1>1 DEF Merged
<1> QED BY <1>2 DEF Row

-----------------------------------------------------------------------------
LEMMA InitInv == Init => Inv
<1> SUFFICES ASSUME Init PROVE Inv
  OBVIOUS
<1>1. PICK a \in Authors : req = [w \in Workers |-> SeedRequest(a)]
  BY DEF Init
<1>2. SeedRequest(a) \in Request /\ SeedRequest(a).pc = "load" /\ SeedRequest(a).row = NoRow
  BY DEF SeedRequest, Request, Ops, MaybeSpec, MaybeRow
<1> QED BY <1>1, <1>2 DEF Init, Inv, TypeOK, At, Granted, RequestGranted, MaybeRow

\* Answering, or any step that leaves the record and the histories alone, is
\* harmless as long as the new request is well formed.
LEMMA RequestStep ==
    ASSUME Inv, NEW w \in Workers, NEW r \in Request \cup {NoRequest},
           req' = [req EXCEPT ![w] = r],
           r # NoRequest => /\ RequestGranted(r)
                            /\ r.pc = "commit" => ~Declined(r, r.row)
                            /\ r.pc = "store" => r.spec # None,
           UNCHANGED <<row, endorsed, used>>, sent' \in Nat, restarts' \in Nat
    PROVE  Inv'
<1>1. \A v \in Workers : req'[v] = IF v = w THEN r ELSE req[v]
  BY DEF Inv, TypeOK
<1>2. req' \in [Workers -> Request \cup {NoRequest}]
  BY DEF Inv, TypeOK
<1>3. TypeOK'
  BY <1>1, <1>2 DEF Inv, TypeOK, At
<1>4. \A v \in Workers : req'[v] # NoRequest => RequestGranted(req[v])'
  BY <1>1 DEF Inv, RequestGranted, Granted
<1> QED BY <1>3, <1>4 DEF Inv, Granted

\* A commit answers; what matters is the record it leaves and that endorsements
\* are only added.
LEMMA CommitStep ==
    ASSUME Inv, NEW w \in Workers, Answer(w), row' \in MaybeRow, Granted(row)',
           endorsed \subseteq endorsed', endorsed' \subseteq Specs,
           used' \subseteq endorsed',
           UNCHANGED <<sent, restarts>>
    PROVE  Inv'
<1>1. \A v \in Workers : req'[v] = IF v = w THEN NoRequest ELSE req[v]
  BY DEF Inv, TypeOK, Answer
<1>2. req' \in [Workers -> Request \cup {NoRequest}]
  BY DEF Inv, TypeOK, Answer
<1>3. TypeOK'
  BY <1>1, <1>2 DEF Inv, TypeOK, At
<1>4. \A v \in Workers : req'[v] # NoRequest => RequestGranted(req[v])'
  BY <1>1 DEF Inv, RequestGranted, Granted
<1> QED BY <1>3, <1>4 DEF Inv

LEMMA SendInv == ASSUME Inv, NEW w \in Workers, Send(w) PROVE Inv'
<1> DEFINE r(op, a, s) == [pc |-> IF op = "write" THEN "check" ELSE "load", op |-> op,
                           author |-> a, spec |-> s, row |-> NoRow]
<1>0. PICK op \in Ops \ {"seed"}, a \in Authors, s \in MaybeSpec :
         req' = [req EXCEPT ![w] = r(op, a, s)]
  <2>1. PICK op \in Ops \ {"seed"}, a \in Authors :
          \E s \in CASE op = "propose" -> Specs
                     [] op \in {"write", "approve"} -> MaybeSpec
                     [] OTHER -> {None} :
             req' = [req EXCEPT ![w] = r(op, a, s)]
    BY DEF Send
  <2>2. PICK s \in MaybeSpec : req' = [req EXCEPT ![w] = r(op, a, s)]
    BY <2>1 DEF MaybeSpec
  <2> QED BY <2>1, <2>2
<1> DEFINE new == r(op, a, s)
<1>1. /\ new \in Request /\ new.pc \in {"check", "load"} /\ new.row = NoRow
      /\ req' = [req EXCEPT ![w] = new]
  BY <1>0 DEF Request, MaybeRow
<1> HIDE DEF new
<1>2. RequestGranted(new) BY <1>1 DEF RequestGranted, Granted
<1>3. sent' \in Nat /\ restarts' \in Nat /\ UNCHANGED <<row, endorsed, used>>
  BY DEF Send, Inv, TypeOK
<1> QED BY <1>1, <1>2, <1>3, RequestStep

LEMMA CheckKnownInv == ASSUME Inv, NEW w \in Workers, CheckKnown(w) PROVE Inv'
<1> DEFINE spec == Effective(row)
           r == [req[w] EXCEPT !.pc = IF spec = None THEN "pending" ELSE "store",
                               !.spec = IF spec = None THEN @ ELSE spec]
<1>1. req[w] \in Request /\ req[w] # NoRequest /\ req[w].pc = "check"
  BY AtRequest DEF Inv, CheckKnown
<1>2. spec \in MaybeSpec BY EffectiveType DEF Inv, TypeOK
<1>3. spec # None => spec \in endorsed
  BY DEF Effective, Inv, Granted
<1>4. req' = [req EXCEPT ![w] = r] BY <1>1 DEF CheckKnown, Inv, TypeOK
<1>5. r \in Request BY <1>1, <1>2 DEF Request
<1>6. /\ r.pc = (IF spec = None THEN "pending" ELSE "store")
      /\ r.spec = (IF spec = None THEN req[w].spec ELSE spec)
      /\ r.row = req[w].row
  BY <1>1 DEF Request
<1> HIDE DEF spec, r
<1>7. RequestGranted(r) BY <1>1, <1>3, <1>6 DEF RequestGranted, Inv
<1>8. sent' \in Nat /\ restarts' \in Nat /\ UNCHANGED <<row, endorsed, used>>
  BY DEF CheckKnown, Inv, TypeOK
<1> QED BY <1>4, <1>5, <1>6, <1>7, <1>8, RequestStep

LEMMA StoreValueInv == ASSUME Inv, NEW w \in Workers, StoreValue(w) PROVE Inv'
<1>1. req[w] \in Request /\ req[w] # NoRequest /\ req[w].pc = "store"
  BY AtRequest DEF Inv, StoreValue
<1>2. req[w].spec \in endorsed BY <1>1 DEF Inv, RequestGranted
<1>3. used' \subseteq endorsed BY <1>2 DEF StoreValue, Inv
<1> QED BY <1>3, CommitStep DEF StoreValue, Inv, TypeOK, Granted

LEMMA KeyPendingInv == ASSUME Inv, NEW w \in Workers, KeyPending(w) PROVE Inv'
<1> DEFINE r == [req[w] EXCEPT !.pc = "load"]
<1>1. req[w] \in Request /\ req[w] # NoRequest /\ req[w].pc = "pending"
  BY AtRequest DEF Inv, KeyPending
<1>2. sent' \in Nat /\ restarts' \in Nat /\ UNCHANGED <<row, endorsed, used>>
  BY DEF KeyPending, Inv, TypeOK
<1>3. CASE Answer(w)
  BY <1>2, <1>3, RequestStep DEF Answer
<1>4. CASE req' = [req EXCEPT ![w].pc = "load"]
  <2>1. req' = [req EXCEPT ![w] = r] BY <1>1, <1>4 DEF Inv, TypeOK
  <2>2. r \in Request /\ r.pc = "load" /\ r.row = req[w].row BY <1>1 DEF Request
  <2> HIDE DEF r
  <2>3. RequestGranted(r) BY <1>1, <2>2 DEF RequestGranted, Inv
  <2> QED BY <1>2, <2>1, <2>2, <2>3, RequestStep
<1> QED BY <1>3, <1>4 DEF KeyPending

LEMMA LoadInv == ASSUME Inv, NEW w \in Workers, Load(w) PROVE Inv'
<1> DEFINE r == [req[w] EXCEPT !.pc = "commit", !.row = row]
<1>1. req[w] \in Request /\ req[w] # NoRequest /\ req[w].pc = "load"
  BY AtRequest DEF Inv, Load
<1>2. sent' \in Nat /\ restarts' \in Nat /\ UNCHANGED <<row, endorsed, used>>
  BY DEF Load, Inv, TypeOK
<1>3. CASE Declined(req[w], row)
  BY <1>2, <1>3, RequestStep DEF Load, Answer
<1>4. CASE ~Declined(req[w], row)
  <2>1. req' = [req EXCEPT ![w] = r] BY <1>1, <1>4 DEF Load, Inv, TypeOK
  <2>2. r \in Request BY <1>1 DEF Request, Inv, TypeOK
  <2>3. r.pc = "commit" /\ r.row = row /\ r.op = req[w].op /\ r.spec = req[w].spec
    BY <1>1 DEF Request
  <2>4. ~Declined(r, r.row)
    BY <1>4, <2>3 DEF Declined, Approval
  <2> HIDE DEF r
  <2>5. RequestGranted(r) BY <2>3 DEF RequestGranted, Inv
  <2> QED BY <1>2, <2>1, <2>2, <2>3, <2>4, <2>5, RequestStep
<1> QED BY <1>3, <1>4

-----------------------------------------------------------------------------
\* What every transaction starts from.
LEMMA CommitRequest ==
    ASSUME Inv, NEW w \in Workers, At(w, "commit")
    PROVE  /\ req[w] \in Request /\ req[w] # NoRequest
           /\ req[w].row \in MaybeRow /\ Granted(req[w].row)
           /\ ~Declined(req[w], req[w].row)
<1>1. req[w] \in Request /\ req[w] # NoRequest BY AtRequest DEF Inv
<1> QED BY <1>1 DEF Inv, TypeOK, RequestGranted, Request

\* A proposal writes a pending record; it carries the spec column along.
LEMMA ProposedType ==
    ASSUME NEW r \in Request
    PROVE  /\ Proposed(r) \in Row
           /\ Proposed(r).status = "pending"
           /\ r.row = NoRow => Proposed(r).spec = None
           /\ r.row # NoRow => Proposed(r).spec = r.row.spec
BY DEF Proposed, Request, Row, MaybeRow, MaybeSpec

\* A proposal leaves a record with an endorsed spec or none.
LEMMA ProposalRow ==
    ASSUME Inv, NEW w \in Workers, CommitProposal(w)
    PROVE  row' \in MaybeRow /\ Granted(row')
<1> DEFINE r == req[w]
<1>1. r \in Request /\ r.row \in MaybeRow /\ Granted(r.row) /\ row \in MaybeRow /\ Granted(row)
  BY CommitRequest DEF CommitProposal, Inv, TypeOK
<1>2. CASE r.row = NoRow
  <2>1. Proposed(r) \in Row /\ Granted(Proposed(r)) BY <1>1, <1>2, ProposedType DEF Granted
  <2>2. row' \in {row, Proposed(r)}
    BY <1>2 DEF CommitProposal, InsertUnlessPresent
  <2> QED BY <1>1, <2>1, <2>2 DEF MaybeRow
<1>3. CASE r.row # NoRow
  <2>1. r.row \in Row /\ Proposed(r) \in Row /\ Proposed(r).spec = r.row.spec
    BY <1>1, <1>3, ProposedType DEF MaybeRow
  <2>2. row' = IF row = NoRow THEN NoRow ELSE Merged(row, r.row, Proposed(r))
    BY <1>3 DEF CommitProposal, Update, Reopened
  <2>3. CASE row # NoRow
    <3>1. row \in Row BY <1>1, <2>3 DEF MaybeRow
    <3> QED BY <1>1, <1>3, <2>1, <2>2, <2>3, <3>1, MergedType DEF Granted, MaybeRow
  <2> QED BY <2>2, <2>3 DEF Granted, MaybeRow
<1> QED BY <1>2, <1>3

LEMMA CommitProposalInv == ASSUME Inv, NEW w \in Workers, CommitProposal(w) PROVE Inv'
<1>1. row' \in MaybeRow /\ Granted(row') BY ProposalRow
<1>2. Granted(row)' BY <1>1 DEF Granted, CommitProposal
<1> QED BY <1>1, <1>2, CommitStep DEF CommitProposal, Inv

LEMMA CommitSeedInv == ASSUME Inv, NEW w \in Workers, CommitSeed(w) PROVE Inv'
<1> DEFINE spec == req[w].spec
           new == [status |-> "approved", spec |-> spec, proposed |-> None, by |-> None]
<1>1. req[w] \in Request /\ ~Declined(req[w], req[w].row) /\ req[w].op = "seed"
  BY CommitRequest DEF CommitSeed, AtOp
<1>2. spec \in Specs BY <1>1 DEF Declined, Request, MaybeSpec
<1>3. new \in Row /\ new.spec = spec BY <1>2 DEF Row, MaybeSpec
<1>4. CASE row = NoRow
  <2>1. row' = new /\ endorsed' = endorsed \cup {spec}
    BY <1>4 DEF CommitSeed, InsertUnlessPresent
  <2> HIDE DEF spec, new
  <2>2. row' \in MaybeRow /\ Granted(row)'
    BY <1>3, <2>1 DEF Granted, MaybeRow
  <2> QED BY <1>2, <2>1, <2>2, CommitStep DEF CommitSeed, Inv
<1>5. CASE row # NoRow
  BY <1>5, CommitStep DEF CommitSeed, InsertUnlessPresent, Inv, Granted, TypeOK
<1> QED BY <1>4, <1>5

LEMMA CommitApproveInv == ASSUME Inv, NEW w \in Workers, CommitApprove(w) PROVE Inv'
<1> DEFINE r == req[w]
           spec == Approval(r, r.row)
           new == [r.row EXCEPT !.status = "approved", !.spec = spec]
<1>1. /\ r \in Request /\ r.row \in MaybeRow /\ ~Declined(r, r.row) /\ r.op = "approve"
      /\ row \in MaybeRow /\ Granted(row) /\ Granted(r.row)
  BY CommitRequest DEF CommitApprove, AtOp, Inv, TypeOK
<1>2. r.row \in Row /\ spec # None BY <1>1 DEF Declined, MaybeRow
<1>3. spec \in Specs BY <1>1, <1>2, ApprovalType
<1>4. new \in Row /\ new.spec = spec BY <1>2, <1>3 DEF Row, MaybeSpec
<1>5. /\ row' = IF row = NoRow THEN NoRow ELSE Merged(row, r.row, new)
      /\ endorsed' = IF row = NoRow THEN endorsed ELSE endorsed \cup {spec}
  BY DEF CommitApprove, Update
<1> HIDE DEF r, spec, new
<1>6. CASE row = NoRow
  BY <1>5, <1>6, CommitStep DEF CommitApprove, Inv, Granted, MaybeRow
<1>7. CASE row # NoRow
  <2>1. row \in Row BY <1>1, <1>7 DEF MaybeRow
  <2>2. row' \in Row /\ row'.spec \in {spec, row.spec}
    BY <1>2, <1>4, <1>5, <1>7, <2>1, MergedType
  <2>3. Granted(row)' BY <1>1, <1>5, <1>7, <2>2 DEF Granted
  <2> QED BY <1>3, <1>5, <1>7, <2>2, <2>3, CommitStep DEF CommitApprove, Inv, MaybeRow
<1> QED BY <1>6, <1>7

LEMMA CommitRejectInv == ASSUME Inv, NEW w \in Workers, CommitReject(w) PROVE Inv'
<1> DEFINE r == req[w]
           new == [r.row EXCEPT !.status = "rejected", !.spec = None]
<1>1. /\ r \in Request /\ r.row \in MaybeRow /\ ~Declined(r, r.row) /\ r.op = "reject"
      /\ row \in MaybeRow /\ Granted(row)
  BY CommitRequest DEF CommitReject, AtOp, Inv, TypeOK
<1>2. r.row \in Row BY <1>1 DEF Declined, MaybeRow
<1>3. new \in Row /\ new.spec = None BY <1>2 DEF Row, MaybeSpec
<1>4. row' = IF row = NoRow THEN NoRow ELSE Merged(row, r.row, new)
  BY DEF CommitReject, Update
<1> HIDE DEF r, new
<1>5. row' \in MaybeRow /\ Granted(row')
  <2>1. CASE row = NoRow BY <1>4, <2>1 DEF MaybeRow, Granted
  <2>2. CASE row # NoRow
    <3>1. row \in Row BY <1>1, <2>2 DEF MaybeRow
    <3> QED BY <1>1, <1>2, <1>3, <1>4, <2>2, <3>1, MergedType DEF MaybeRow, Granted
  <2> QED BY <2>1, <2>2
<1>6. Granted(row)' BY <1>5 DEF CommitReject, Granted
<1> QED BY <1>5, <1>6, CommitStep DEF CommitReject, Inv

LEMMA CommitRevokeInv == ASSUME Inv, NEW w \in Workers, CommitRevoke(w) PROVE Inv'
BY CommitStep DEF CommitRevoke, Inv, Granted, MaybeRow

LEMMA CancelInv == ASSUME Inv, NEW w \in Workers, Cancel(w) PROVE Inv'
BY RequestStep DEF Cancel, Answer, Inv, TypeOK

LEMMA RestartInv == ASSUME Inv, NEW w \in Workers, Restart(w) PROVE Inv'
<1>1. PICK a \in Authors : req' = [req EXCEPT ![w] = SeedRequest(a)]
  BY DEF Restart
<1>2. /\ SeedRequest(a) \in Request /\ SeedRequest(a).pc = "load"
      /\ SeedRequest(a).row = NoRow
  BY DEF SeedRequest, Request, Ops, MaybeSpec, MaybeRow
<1>3. RequestGranted(SeedRequest(a)) BY <1>2 DEF RequestGranted, Granted
<1>4. sent' \in Nat /\ restarts' \in Nat /\ UNCHANGED <<row, endorsed, used>>
  BY DEF Restart, Inv, TypeOK
<1> QED BY <1>1, <1>2, <1>3, <1>4, RequestStep

LEMMA StepInv == Inv /\ [Next]_vars => Inv'
<1> SUFFICES ASSUME Inv, [Next]_vars PROVE Inv'
  OBVIOUS
<1>1. CASE UNCHANGED vars
  BY <1>1 DEF vars, Inv, TypeOK, At, Granted, RequestGranted
<1>2. ASSUME NEW w \in Workers,
             \/ Send(w) \/ CheckKnown(w) \/ StoreValue(w) \/ KeyPending(w)
             \/ Load(w) \/ Commit(w) \/ Cancel(w) \/ Restart(w)
      PROVE  Inv'
  BY <1>2, SendInv, CheckKnownInv, StoreValueInv, KeyPendingInv, LoadInv, CommitProposalInv,
     CommitSeedInv, CommitApproveInv, CommitRejectInv, CommitRevokeInv, CancelInv,
     RestartInv DEF Commit
<1> QED BY <1>1, <1>2 DEF Next

LEMMA AlwaysInv == Spec => []Inv
BY InitInv, StepInv, PTL DEF Spec

-----------------------------------------------------------------------------
\* The record and the requests keep their shape, and no handler commits what it
\* should have declined.
THEOREM TypeCorrect == Spec => []TypeOK
<1>1. Inv => TypeOK BY DEF Inv
<1> QED BY <1>1, AlwaysInv, PTL

\* No value above user scope is stored under a spec that nobody in charge put in
\* force, however reviews, proposals, restarts and writes interleave.
THEOREM OnlyEndorsedUsed == Spec => []UsedWasEndorsed
<1>1. Inv => UsedWasEndorsed BY DEF Inv, UsedWasEndorsed
<1> QED BY <1>1, AlwaysInv, PTL

-----------------------------------------------------------------------------
\* Neither a proposal nor a rejection can leave a spec in force that was not.
LEMMA ProposalGrantsNothing ==
    ASSUME Inv, NEW w \in Workers, CommitProposal(w)
    PROVE  Effective(row') \in {None, Effective(row)}
<1> DEFINE r == req[w]
<1>1. /\ r \in Request /\ r.row \in MaybeRow /\ ~Declined(r, r.row)
      /\ row \in MaybeRow /\ r.op \in {"propose", "write"}
  BY CommitRequest DEF CommitProposal, Inv, TypeOK
<1>2. Proposed(r) \in Row /\ Proposed(r).status = "pending" BY <1>1, ProposedType
<1>3. CASE r.row = NoRow
  BY <1>2, <1>3 DEF CommitProposal, InsertUnlessPresent, Effective
<1>4. CASE r.row # NoRow
  <2>1. r.row \in Row /\ r.row.status = "rejected"
    BY <1>1, <1>4 DEF Declined, MaybeRow
  <2>2. row' = IF row = NoRow THEN NoRow ELSE Merged(row, r.row, Proposed(r))
    BY <1>4 DEF CommitProposal, Update, Reopened
  <2>3. CASE row # NoRow
    <3>1. Merged(row, r.row, Proposed(r)).status = "pending"
      BY <1>2, <2>1 DEF Merged, Row
    <3> QED BY <2>2, <2>3, <3>1 DEF Effective
  <2> QED BY <2>2, <2>3 DEF Effective
<1> QED BY <1>3, <1>4

LEMMA RejectGrantsNothing ==
    ASSUME Inv, NEW w \in Workers, CommitReject(w)
    PROVE  Effective(row') \in {None, Effective(row)}
<1> DEFINE r == req[w]
           new == [r.row EXCEPT !.status = "rejected", !.spec = None]
<1>1. /\ r \in Request /\ r.row \in MaybeRow /\ ~Declined(r, r.row) /\ r.op = "reject"
      /\ row \in MaybeRow
  BY CommitRequest DEF CommitReject, AtOp, Inv, TypeOK
<1>2. r.row \in Row BY <1>1 DEF Declined, MaybeRow
<1>3. new \in Row /\ new.spec = None /\ new.status = "rejected" BY <1>2 DEF Row, MaybeSpec
<1>4. row' = IF row = NoRow THEN NoRow ELSE Merged(row, r.row, new)
  BY DEF CommitReject, Update
<1> HIDE DEF r, new
<1>5. CASE row # NoRow
  <2>1. row \in Row BY <1>1, <1>5 DEF MaybeRow
  <2> QED BY <1>2, <1>3, <1>4, <1>5, <2>1, MergedType DEF Effective
<1> QED BY <1>4, <1>5 DEF Effective

\* A spec comes into force only by the commit of an approval or of a seed: a
\* proposal or a rejection that races a review grants nothing.
THEOREM GrantsByReview == Spec => OnlyReviewGrants
<1>1. ASSUME Inv, [Next]_vars
      PROVE  [Effective(row') \notin {None, Effective(row)} =>
                \E w \in Workers :
                  AtOp(w, "commit", "approve") \/ AtOp(w, "commit", "seed")]_vars
  <2> DEFINE Kept == Effective(row') \in {None, Effective(row)}
             Review == \E w \in Workers :
                         AtOp(w, "commit", "approve") \/ AtOp(w, "commit", "seed")
  <2>1. ASSUME row' = row PROVE Kept
    BY <2>1
  <2>2. ASSUME NEW w \in Workers, Commit(w)
        PROVE  Kept \/ Review
    <3>1. CASE CommitProposal(w) BY <1>1, <3>1, ProposalGrantsNothing
    <3>2. CASE CommitReject(w) BY <1>1, <3>2, RejectGrantsNothing
    <3>3. CASE CommitRevoke(w) BY <3>3 DEF CommitRevoke, Effective
    <3>4. CASE CommitSeed(w) \/ CommitApprove(w) BY <3>4 DEF CommitSeed, CommitApprove
    <3> QED BY <2>2, <3>1, <3>2, <3>3, <3>4 DEF Commit
  <2>3. UNCHANGED row \/ \E w \in Workers : Commit(w)
    BY <1>1 DEF Next, vars, Send, CheckKnown, StoreValue, KeyPending, Load, Cancel, Restart
  <2>4. Kept \/ Review
    <3> HIDE DEF Kept, Review
    <3> QED BY <2>1, <2>2, <2>3
  <2> QED BY <2>4
<1> QED BY <1>1, AlwaysInv, PTL DEF Spec, OnlyReviewGrants

-----------------------------------------------------------------------------
\* A step of one worker leaves the requests of the others alone.
LEMMA OthersWait ==
    ASSUME TypeOK, NEW v \in Workers,
           \/ Send(v) \/ CheckKnown(v) \/ StoreValue(v) \/ KeyPending(v)
           \/ Load(v) \/ Commit(v) \/ Cancel(v) \/ Restart(v),
           NEW w \in Workers, w # v
    PROVE  req'[w] = req[w]
<1>1. CASE Commit(v)
  BY <1>1 DEF TypeOK, Commit, CommitProposal, CommitSeed, CommitApprove, CommitReject,
     CommitRevoke, Answer
<1>2. CASE ~Commit(v)
  BY <1>2 DEF TypeOK, Send, CheckKnown, StoreValue, KeyPending, Load, Cancel, Restart, Answer
<1> QED BY <1>1, <1>2

\* A commit that expects no record changes none: its INSERT is refused.
LEMMA SecondInsertRefused ==
    ASSUME NEW w \in Workers, Commit(w), req[w].op \in {"propose", "write", "seed"},
           req[w].row = NoRow, row # NoRow
    PROVE  row' = row
BY DEF Commit, CommitProposal, CommitSeed, CommitApprove, CommitReject, CommitRevoke,
   AtOp, InsertUnlessPresent

\* Of two first proposals of a key, or a proposal and a seed, the one that lands
\* first stands, whatever the other workers are at.
THEOREM FirstStands == Spec => FirstProposalStands
<1>1. ASSUME Inv, [Next]_vars
      PROVE  [\A w \in Workers :
                 /\ At(w, "commit") /\ req[w].op \in {"propose", "write", "seed"}
                 /\ req[w].row = NoRow /\ req'[w] = NoRequest
                 /\ row # NoRow
                 => row' = row]_vars
  <2> SUFFICES ASSUME Next, NEW w \in Workers,
                      At(w, "commit"), req[w].op \in {"propose", "write", "seed"},
                      req[w].row = NoRow, req'[w] = NoRequest, row # NoRow
               PROVE  row' = row
    BY <1>1
  <2>1. PICK v \in Workers :
          \/ Send(v) \/ CheckKnown(v) \/ StoreValue(v) \/ KeyPending(v)
          \/ Load(v) \/ Commit(v) \/ Cancel(v) \/ Restart(v)
    BY DEF Next
  <2>2. v = w
    BY <1>1, <2>1, OthersWait DEF Inv, At
  <2>3. CASE Commit(v)
    BY <2>2, <2>3, SecondInsertRefused
  <2>4. CASE ~Commit(v)
    BY <2>1, <2>4 DEF Send, CheckKnown, StoreValue, KeyPending, Load, Cancel, Restart
  <2> QED BY <2>3, <2>4
<1> QED BY <1>1, AlwaysInv, PTL DEF Spec, FirstProposalStands

-----------------------------------------------------------------------------
(* The register *)

Asked == [w \in Workers |-> AskedSpec(w)]

\* What is in force was endorsed.
LEMMA ForceEndorsed == ASSUME Inv PROVE Effective(row) \in endorsed \cup {None}
BY DEF Inv, Granted, Effective

\* A step that gives one worker another request changes what this worker asked for.
LEMMA AskedStep ==
    ASSUME Inv, NEW w \in Workers, NEW r, req' = [req EXCEPT ![w] = r]
    PROVE  Asked' = [Asked EXCEPT ![w] = IF r # NoRequest /\ r.pc = "store"
                                          THEN r.spec ELSE None]
<1>1. \A v \in Workers : req'[v] = IF v = w THEN r ELSE req[v]
  BY DEF Inv, TypeOK
<1>2. \A v \in Workers :
         AskedSpec(v)' = IF v = w THEN IF r # NoRequest /\ r.pc = "store"
                                       THEN r.spec ELSE None
                         ELSE AskedSpec(v)
  BY <1>1 DEF AskedSpec, At
<1> QED BY <1>2 DEF Asked

\* A worker that is not about to store has asked for nothing.
LEMMA NothingAsked ==
    ASSUME NEW w \in Workers, ~At(w, "store") PROVE Asked[w] = None
BY DEF Asked, AskedSpec

\* A request that goes on short of storing, or ends, gives up what it asked for.
LEMMA StepGivesUp ==
    ASSUME Inv, NEW w \in Workers, NEW r, req' = [req EXCEPT ![w] = r],
           r = NoRequest \/ r.pc # "store",
           UNCHANGED <<row, endorsed, used>>
    PROVE  Register!Next
<1>1. Asked' = [Asked EXCEPT ![w] = None] BY AskedStep
<1>2. Effective(row)' = Effective(row) BY DEF Effective
<1>3. Register!GiveUp(w) BY <1>1, <1>2 DEF Register!GiveUp, Asked
<1> QED BY <1>3 DEF Register!Next

\* A check finds the spec in force, or goes the way of a proposal.
LEMMA CheckAsks == ASSUME Inv, NEW w \in Workers, CheckKnown(w) PROVE Register!Next
<1> DEFINE spec == Effective(row)
           r == [req[w] EXCEPT !.pc = IF spec = None THEN "pending" ELSE "store",
                               !.spec = IF spec = None THEN @ ELSE spec]
<1>1. req[w] \in Request /\ req[w] # NoRequest /\ req[w].pc = "check"
  BY AtRequest DEF Inv, CheckKnown
<1>2. spec \in MaybeSpec BY EffectiveType DEF Inv, TypeOK
<1>3. req' = [req EXCEPT ![w] = r] BY <1>1 DEF CheckKnown, Inv, TypeOK
<1>4. /\ r.pc = (IF spec = None THEN "pending" ELSE "store")
      /\ r.spec = (IF spec = None THEN req[w].spec ELSE spec)
      /\ r # NoRequest
  BY <1>1, <1>2 DEF Request
<1>5. UNCHANGED <<row, endorsed, used>> /\ spec' = spec BY DEF CheckKnown, Effective
<1> HIDE DEF r
<1>6. CASE spec = None BY <1>3, <1>4, <1>5, <1>6, StepGivesUp
<1>7. CASE spec # None
  <2>1. Asked' = [Asked EXCEPT ![w] = spec] BY <1>3, <1>4, <1>7, AskedStep
  <2>2. Asked[w] = None BY <1>1, NothingAsked DEF At
  <2>3. Register!Ask(w) BY <1>5, <1>7, <2>1, <2>2 DEF Register!Ask, Asked
  <2> QED BY <2>3 DEF Register!Next
<1> QED BY <1>6, <1>7

\* A write stores under the spec it asked for.
LEMMA StoreStores == ASSUME Inv, NEW w \in Workers, StoreValue(w) PROVE Register!Next
<1>1. At(w, "store") /\ Asked[w] = req[w].spec BY DEF StoreValue, Asked, AskedSpec
<1>2. Asked[w] # None BY <1>1 DEF Inv, TypeOK
<1>3. Asked' = [Asked EXCEPT ![w] = None] BY AskedStep DEF StoreValue, Answer
<1>4. Effective(row)' = Effective(row) /\ used' = used \cup {Asked[w]} /\ endorsed' = endorsed
  BY <1>1 DEF StoreValue, Effective
<1>5. Register!Store(w) BY <1>2, <1>3, <1>4 DEF Register!Store, Asked
<1> QED BY <1>5 DEF Register!Next

\* A commit is of a request that asked for nothing.
LEMMA CommitAsksNothing ==
    ASSUME Inv, NEW w \in Workers, At(w, "commit"), Answer(w)
    PROVE  Asked' = Asked
<1>1. Asked' = [Asked EXCEPT ![w] = None] BY AskedStep DEF Answer
<1>2. Asked[w] = None BY NothingAsked DEF At
<1> QED BY <1>1, <1>2 DEF Asked

\* A commit that endorses nothing leaves what is in force, or nothing in force.
LEMMA KeepsOrWithdraws ==
    ASSUME Inv, NEW w \in Workers, At(w, "commit"), Answer(w),
           Effective(row') \in {None, Effective(row)}, UNCHANGED <<endorsed, used>>
    PROVE  \/ Register!Next
           \/ UNCHANGED <<Effective(row), Asked, endorsed, used>>
<1>1. Asked' = Asked BY CommitAsksNothing
<1>2. CASE Effective(row') = None
  <2>1. Register!Withdraw BY <1>1, <1>2 DEF Register!Withdraw, Asked, Effective
  <2> QED BY <2>1 DEF Register!Next
<1>3. CASE Effective(row') = Effective(row)
  BY <1>1, <1>3 DEF Effective
<1> QED BY <1>2, <1>3

\* A commit that endorses a spec is a review.
LEMMA Endorses ==
    ASSUME Inv, Inv', NEW w \in Workers, At(w, "commit"), Answer(w),
           NEW s \in Specs, endorsed' = endorsed \cup {s}, used' = used
    PROVE  Register!Next
<1>1. Asked' = Asked BY CommitAsksNothing
<1>2. Effective(row)' \in endorsed' \cup {None} BY ForceEndorsed DEF Inv, Granted, Effective
<1>3. Register!Review(s) BY <1>1, <1>2 DEF Register!Review, Asked
<1> QED BY <1>3 DEF Register!Next

LEMMA CommitRegister ==
    ASSUME Inv, Inv', NEW w \in Workers, Commit(w)
    PROVE  \/ Register!Next
           \/ UNCHANGED <<Effective(row), Asked, endorsed, used>>
<1>1. CASE CommitProposal(w)
  BY <1>1, ProposalGrantsNothing, KeepsOrWithdraws DEF CommitProposal
<1>2. CASE CommitReject(w)
  BY <1>2, RejectGrantsNothing, KeepsOrWithdraws DEF CommitReject, AtOp
<1>3. CASE CommitRevoke(w)
  <2>1. Effective(row') = None BY <1>3 DEF CommitRevoke, Effective
  <2> QED BY <1>3, <2>1, KeepsOrWithdraws DEF CommitRevoke, AtOp
<1>4. CASE CommitSeed(w)
  <2>1. req[w] \in Request /\ ~Declined(req[w], req[w].row) /\ req[w].op = "seed"
    BY <1>4, CommitRequest DEF CommitSeed, AtOp
  <2>2. req[w].spec \in Specs BY <2>1 DEF Declined, Request, MaybeSpec
  <2>3. CASE row = NoRow
    BY <1>4, <2>2, <2>3, Endorses DEF CommitSeed, AtOp
  <2>4. CASE row # NoRow
    <3>1. row' = row /\ UNCHANGED <<endorsed, used>>
      BY <1>4, <2>4 DEF CommitSeed, InsertUnlessPresent
    <3> QED BY <1>4, <3>1, KeepsOrWithdraws DEF CommitSeed, AtOp
  <2> QED BY <2>3, <2>4
<1>5. CASE CommitApprove(w)
  <2> DEFINE spec == Approval(req[w], req[w].row)
  <2>1. /\ req[w] \in Request /\ req[w].row \in MaybeRow
        /\ ~Declined(req[w], req[w].row) /\ req[w].op = "approve"
    BY <1>5, CommitRequest DEF CommitApprove, AtOp
  <2>2. req[w].row \in Row /\ spec # None BY <2>1 DEF Declined, MaybeRow
  <2>3. spec \in Specs BY <2>1, <2>2, ApprovalType
  <2>4. endorsed' = (IF row = NoRow THEN endorsed ELSE endorsed \cup {spec}) /\ used' = used
    BY <1>5 DEF CommitApprove
  <2> HIDE DEF spec
  <2>5. CASE row = NoRow
    <3>1. row' = row BY <1>5, <2>5 DEF CommitApprove, Update
    <3> QED BY <1>5, <2>4, <2>5, <3>1, KeepsOrWithdraws DEF CommitApprove, AtOp
  <2>6. CASE row # NoRow
    BY <1>5, <2>3, <2>4, <2>6, Endorses DEF CommitApprove, AtOp
  <2> QED BY <2>5, <2>6
<1> QED BY <1>1, <1>2, <1>3, <1>4, <1>5 DEF Commit

\* Every step is one of the register, or none.
LEMMA RegisterStep ==
    ASSUME Inv, Inv', [Next]_vars
    PROVE  \/ Register!Next
           \/ UNCHANGED <<Effective(row), Asked, endorsed, used>>
<1>1. CASE UNCHANGED vars
  BY <1>1 DEF vars, Effective, Asked, AskedSpec, At
<1>2. ASSUME NEW w \in Workers, Send(w) PROVE Register!Next
  <2> DEFINE r(op, a, s) == [pc |-> IF op = "write" THEN "check" ELSE "load", op |-> op,
                             author |-> a, spec |-> s, row |-> NoRow]
  <2>1. PICK op \in Ops \ {"seed"}, a \in Authors :
          \E s \in CASE op = "propose" -> Specs
                     [] op \in {"write", "approve"} -> MaybeSpec
                     [] OTHER -> {None} :
             req' = [req EXCEPT ![w] = r(op, a, s)]
    BY <1>2 DEF Send
  <2>2. PICK s \in MaybeSpec : req' = [req EXCEPT ![w] = r(op, a, s)]
    BY <2>1 DEF MaybeSpec
  <2>3. r(op, a, s).pc # "store" BY DEF r
  <2> HIDE DEF r
  <2> QED BY <1>2, <2>2, <2>3, StepGivesUp DEF Send
<1>3. ASSUME NEW w \in Workers, Restart(w) PROVE Register!Next
  <2>1. PICK a \in Authors : req' = [req EXCEPT ![w] = SeedRequest(a)]
    BY <1>3 DEF Restart
  <2> QED BY <1>3, <2>1, StepGivesUp DEF Restart, SeedRequest
<1>4. ASSUME NEW w \in Workers, Answer(w), UNCHANGED <<row, endorsed, used>>
      PROVE  Register!Next
  BY <1>4, StepGivesUp DEF Answer
<1>5. ASSUME NEW w \in Workers, KeyPending(w) PROVE Register!Next
  <2>1. req[w] \in Request BY <1>5, AtRequest DEF Inv, KeyPending
  <2>2. CASE req' = [req EXCEPT ![w].pc = "load"]
    <3>1. req' = [req EXCEPT ![w] = [req[w] EXCEPT !.pc = "load"]]
      BY <2>2 DEF Inv, TypeOK
    <3>2. [req[w] EXCEPT !.pc = "load"].pc = "load" BY <2>1 DEF Request
    <3> QED BY <1>5, <3>1, <3>2, StepGivesUp DEF KeyPending
  <2> QED BY <1>4, <1>5, <2>2 DEF KeyPending
<1>6. ASSUME NEW w \in Workers, Load(w) PROVE Register!Next
  <2>1. req[w] \in Request BY <1>6, AtRequest DEF Inv, Load
  <2>2. CASE req' = [req EXCEPT ![w].pc = "commit", ![w].row = row]
    <3>1. req' = [req EXCEPT ![w] = [req[w] EXCEPT !.pc = "commit", !.row = row]]
      BY <2>2 DEF Inv, TypeOK
    <3>2. [req[w] EXCEPT !.pc = "commit", !.row = row].pc = "commit" BY <2>1 DEF Request
    <3> QED BY <1>6, <3>1, <3>2, StepGivesUp DEF Load
  <2> QED BY <1>4, <1>6, <2>2 DEF Load
<1>7. ASSUME NEW w \in Workers, Cancel(w) PROVE Register!Next
  BY <1>4, <1>7 DEF Cancel
<1> QED BY <1>1, <1>2, <1>3, <1>5, <1>6, <1>7, CheckAsks, StoreStores, CommitRegister DEF Next

\* To those who write under a key the registry is one register: what is in force was
\* endorsed, and a value is stored under the spec that was in force when the write was
\* checked, although a record mixes the columns of several reviews and proposals.
THEOREM ServesRegister == Spec => ImplementsRegister
<1>1. Init => Register!Init
  <2> SUFFICES ASSUME Init PROVE Register!Init
    OBVIOUS
  <2>1. PICK a \in Authors : req = [w \in Workers |-> SeedRequest(a)]
    BY DEF Init
  <2>2. \A w \in Workers : AskedSpec(w) = None
    BY <2>1 DEF AskedSpec, At, SeedRequest
  <2> QED BY <2>2 DEF Init, Register!Init, Effective
<1>2. ASSUME Inv, Inv', [Next]_vars
      PROVE  [Register!Next]_<<Effective(row), Asked, endorsed, used>>
  BY <1>2, RegisterStep
<1> QED BY <1>1, <1>2, AlwaysInv, PTL DEF Spec, ImplementsRegister, Register!Spec, Asked
=============================================================================
