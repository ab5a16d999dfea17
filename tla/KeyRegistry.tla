---------------------------- MODULE KeyRegistry ----------------------------
(***************************************************************************)
(* The registry of setting keys (scoped_api.py, SettingKeysController and  *)
(* _key_pending; scoped_store.py, spec_for and seed_keys), for one key     *)
(* that is not a core key.  Maintainers propose a spec for it, facility    *)
(* admins approve, reject or revoke it, workers seed it when they start,   *)
(* and a write above user scope needs it approved.  Role checks and the    *)
(* validation of a spec come before any row is read, so a request is       *)
(* modelled from there on.                                                 *)
(***************************************************************************)
EXTENDS Naturals

CONSTANTS
    Workers,      \* server processes
    Authors,      \* maintainers who propose
    Specs,        \* specs that parse, for this key
    Seed,         \* the spec that the configuration seeds, or None
    Bare,         \* what a record without a proposed spec parses to, or None
    None,         \* SQL NULL
    NoRow,        \* no setting_keys row
    NoRequest,    \* what an idle worker handles
    MaxRequests,  \* bound on the requests sent in one behaviour
    MaxRestarts   \* bound on the restarts of workers

MaybeSpec == Specs \cup {None}

ASSUME SpecAssumption == None \notin Specs /\ Seed \in MaybeSpec /\ Bare \in MaybeSpec
ASSUME AuthorAssumption == None \notin Authors
ASSUME BoundAssumption == MaxRequests \in Nat /\ MaxRestarts \in Nat

Row ==
    [status : {"pending", "approved", "rejected"}, spec : MaybeSpec,
     proposed : MaybeSpec, by : Authors \cup {None}]
ASSUME NoRowAssumption == NoRow \notin Row
MaybeRow == Row \cup {NoRow}

\* spec is the proposed spec, the edit of an approval or the header of a write;
\* row is the record the handler loaded.
Ops == {"propose", "write", "approve", "reject", "revoke", "seed"}
Request ==
    [pc : {"check", "pending", "load", "commit", "store"}, op : Ops, author : Authors,
     spec : MaybeSpec, row : MaybeRow]
ASSUME NoRequestAssumption == NoRequest \notin Request

VARIABLES
    row,        \* the setting_keys row of the key, or NoRow
    req,        \* worker -> the request it is handling, or NoRequest
    sent,       \* requests sent so far
    restarts,   \* restarts so far
    endorsed,   \* history: specs that an admin or the configuration put in force
    used        \* history: specs under which a value above user scope was stored

vars == <<row, req, sent, restarts, endorsed, used>>

-----------------------------------------------------------------------------
At(w, pc) == req[w] # NoRequest /\ req[w].pc = pc
AtOp(w, pc, op) == At(w, pc) /\ req[w].op = op
Answer(w) == req' = [req EXCEPT ![w] = NoRequest]

\* spec_for: the spec that counts above user scope, or None.
Effective(r) ==
    IF r = NoRow THEN None ELSE IF r.status = "approved" THEN r.spec ELSE None

\* The UPDATE that SQLAlchemy emits writes the columns that differ from the
\* loaded row; the other columns keep what they have by now.
Merged(current, loaded, new) ==
    [c \in DOMAIN new |-> IF new[c] # loaded[c] THEN new[c] ELSE current[c]]

SeedRequest(a) ==
    [pc |-> "load", op |-> "seed", author |-> a, spec |-> Seed, row |-> NoRow]

Send(w) ==
    /\ req[w] = NoRequest
    /\ sent < MaxRequests
    /\ \E op \in Ops \ {"seed"}, a \in Authors :
       \E s \in CASE op = "propose" -> Specs
                  [] op \in {"write", "approve"} -> MaybeSpec
                  [] OTHER -> {None} :
          req' = [req EXCEPT ![w] = [pc |-> IF op = "write" THEN "check" ELSE "load",
                                     op |-> op, author |-> a, spec |-> s, row |-> NoRow]]
    /\ sent' = sent + 1
    /\ UNCHANGED <<row, restarts, endorsed, used>>

\* Fault: any record of the key will do.
CheckPresent(w) ==
    /\ At(w, "check")
    /\ req' = [req EXCEPT ![w].pc = IF row = NoRow THEN "pending" ELSE "store",
                           ![w].spec = IF row = NoRow THEN @ ELSE Effective(row)]
    /\ UNCHANGED <<row, sent, restarts, endorsed, used>>

\* put_setting asks for the spec first; with one in force the write goes on and
\* is validated against that spec, however the registry changes meanwhile.
CheckKnown(w) ==
    /\ At(w, "check")
    /\ LET spec == Effective(row)
       IN  req' = [req EXCEPT ![w].pc = IF spec = None THEN "pending" ELSE "store",
                              ![w].spec = IF spec = None THEN @ ELSE spec]
    /\ UNCHANGED <<row, sent, restarts, endorsed, used>>

StoreValue(w) ==
    /\ At(w, "store")
    /\ used' = used \cup {req[w].spec}
    /\ Answer(w)
    /\ UNCHANGED <<row, sent, restarts, endorsed>>

\* A refused write may carry a proposal, which is for a key without a record.
KeyPending(w) ==
    /\ At(w, "pending")
    /\ IF row # NoRow \/ req[w].spec = None
         THEN Answer(w)
         ELSE req' = [req EXCEPT ![w].pc = "load"]
    /\ UNCHANGED <<row, sent, restarts, endorsed, used>>

\* What the handlers decide from the record they load to change: 404 for a review
\* of a key that has none, 422 for an approval of nothing that parses.  A proposal
\* changes nothing of a key that is pending or approved.
Approval(r, current) ==
    IF r.spec # None THEN r.spec
    ELSE LET base == IF current.status = "approved" THEN current.spec ELSE current.proposed
         IN  IF base = None THEN Bare ELSE base
Declined(r, current) ==
    CASE r.op \in {"propose", "write"} -> current # NoRow /\ current.status # "rejected"
      [] r.op = "seed"    -> current # NoRow \/ r.spec = None
      [] r.op = "approve" -> current = NoRow \/ Approval(r, current) = None
      [] OTHER            -> current = NoRow

Load(w) ==
    /\ At(w, "load")
    /\ IF Declined(req[w], row)
         THEN Answer(w)
         ELSE req' = [req EXCEPT ![w].pc = "commit", ![w].row = row]
    /\ UNCHANGED <<row, sent, restarts, endorsed, used>>

\* The record as the handler leaves it in its session.
Proposed(r) ==
    [status |-> "pending", spec |-> IF r.row = NoRow THEN None ELSE r.row.spec,
     proposed |-> r.spec, by |-> r.author]
\* Fault: the proposal goes where the approved spec goes.
ReopenedInForce(r) == [Proposed(r) EXCEPT !.status = "approved", !.spec = r.spec]
Reopened(r) == Proposed(r)

\* INSERT of a new record: refused when the key has one by now.
\* Fault: the record is merged into the one that is there.
InsertUpserts(new) == row' = new
InsertUnlessPresent(new) == row' = IF row = NoRow THEN new ELSE row

\* UPDATE: fails when the record is gone, since one row was expected.
Update(loaded, new) == row' = IF row = NoRow THEN NoRow ELSE Merged(row, loaded, new)

CommitProposal(w) ==
    LET r == req[w]
    IN  /\ At(w, "commit") /\ r.op \in {"propose", "write"}
        /\ IF r.row = NoRow THEN InsertUnlessPresent(Proposed(r))
                            ELSE Update(r.row, Reopened(r))
        /\ Answer(w)
        /\ UNCHANGED <<sent, restarts, endorsed, used>>

CommitSeed(w) ==
    /\ AtOp(w, "commit", "seed")
    /\ InsertUnlessPresent([status |-> "approved", spec |-> req[w].spec,
                            proposed |-> None, by |-> None])
    /\ endorsed' = IF row = NoRow THEN endorsed \cup {req[w].spec} ELSE endorsed
    /\ Answer(w)
    /\ UNCHANGED <<sent, restarts, used>>

CommitApprove(w) ==
    LET r == req[w]
        spec == Approval(r, r.row)
    IN  /\ AtOp(w, "commit", "approve")
        /\ Update(r.row, [r.row EXCEPT !.status = "approved", !.spec = spec])
        /\ endorsed' = IF row = NoRow THEN endorsed ELSE endorsed \cup {spec}
        /\ Answer(w)
        /\ UNCHANGED <<sent, restarts, used>>

CommitReject(w) ==
    LET r == req[w]
    IN  /\ AtOp(w, "commit", "reject")
        /\ Update(r.row, [r.row EXCEPT !.status = "rejected", !.spec = None])
        /\ Answer(w)
        /\ UNCHANGED <<sent, restarts, endorsed, used>>

\* Deleting a record that is gone is only a warning.
CommitRevoke(w) ==
    /\ AtOp(w, "commit", "revoke")
    /\ row' = NoRow
    /\ Answer(w)
    /\ UNCHANGED <<sent, restarts, endorsed, used>>

\* The client goes away; a worker that dies starts again and seeds.
Cancel(w) ==
    /\ req[w] # NoRequest
    /\ req[w].op # "seed"
    /\ Answer(w)
    /\ UNCHANGED <<row, sent, restarts, endorsed, used>>

Restart(w) ==
    /\ restarts < MaxRestarts
    /\ \E a \in Authors : req' = [req EXCEPT ![w] = SeedRequest(a)]
    /\ restarts' = restarts + 1
    /\ UNCHANGED <<row, sent, endorsed, used>>

Commit(w) ==
    \/ CommitProposal(w) \/ CommitSeed(w)
    \/ CommitApprove(w) \/ CommitReject(w) \/ CommitRevoke(w)

Init ==
    /\ row = NoRow
    /\ \E a \in Authors : req = [w \in Workers |-> SeedRequest(a)]
    /\ sent = 0 /\ restarts = 0
    /\ endorsed = {} /\ used = {}

Next ==
    \E w \in Workers :
        \/ Send(w) \/ CheckKnown(w) \/ StoreValue(w) \/ KeyPending(w)
        \/ Load(w) \/ Commit(w) \/ Cancel(w) \/ Restart(w)

Spec == Init /\ [][Next]_vars

-----------------------------------------------------------------------------
(* Properties *)

\* Every variable keeps its shape, and a request on its way to commit is one the
\* handler did not decline.
TypeOK ==
    /\ row \in MaybeRow
    /\ req \in [Workers -> Request \cup {NoRequest}]
    /\ \A w \in Workers :
         /\ At(w, "commit") => ~Declined(req[w], req[w].row)
         /\ At(w, "store") => req[w].spec # None
    /\ sent \in Nat /\ restarts \in Nat
    /\ endorsed \subseteq Specs /\ used \subseteq Specs

\* No value above user scope is ever stored under a spec that only a maintainer
\* proposed: whatever mixture of columns racing reviews and proposals leave in
\* the record, the spec column is one an admin or the configuration put there.
UsedWasEndorsed == used \subseteq endorsed

\* A spec comes into force, or gives way to another one, only by the commit of an
\* approval or of a seed; a proposal can at most take one out of force.
OnlyReviewGrants ==
    [][Effective(row') \notin {None, Effective(row)} =>
         \E w \in Workers : AtOp(w, "commit", "approve") \/ AtOp(w, "commit", "seed")]_vars

\* test_scoped_review_fixes.py:111: of two first proposals of a key the one that
\* lands first stands, and the other one, or a seed, changes nothing of it.
FirstProposalStands ==
    [][\A w \in Workers :
         /\ At(w, "commit") /\ req[w].op \in {"propose", "write", "seed"}
         /\ req[w].row = NoRow /\ req'[w] = NoRequest
         /\ row # NoRow
         => row' = row]_vars

\* The registry is the one of SpecRegister to those who write under the key: the spec
\* in force is what spec_for finds in the record, whatever mixture of columns racing
\* updates leave there, and a write goes on with the spec it was checked against.
AskedSpec(w) == IF At(w, "store") THEN req[w].spec ELSE None
Register ==
    INSTANCE SpecRegister
    WITH Writers <- Workers, force <- Effective(row), asked <- [w \in Workers |-> AskedSpec(w)]
ImplementsRegister == Register!Spec
=============================================================================
