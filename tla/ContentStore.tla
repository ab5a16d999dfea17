---------------------------- MODULE ContentStore ----------------------------
(***************************************************************************)
(* Shared content (content_api.py, bundle_store.py): publish, retract and  *)
(* restore of items whose bundles are files named by their hash.  Several  *)
(* workers read the item, check and store files, and move the item's       *)
(* pointer with a compare-and-set inside one transaction.  A request is    *)
(* modelled from the point where its caller, manifest and size passed the  *)
(* checks, which read no stored state.                                     *)
(***************************************************************************)
EXTENDS Naturals, Sequences

CONSTANTS
    Workers,      \* server tasks
    Items,        \* <<scope, type, name>> of the shared items
    Bundles,      \* contents, one per sha256
    NoItem,       \* no content_items row
    NoRequest,    \* what an idle worker handles
    MaxRequests   \* bound on the requests sent in one behaviour

ASSUME BoundAssumption == MaxRequests \in Nat
ASSUME NoItemAssumption == NoItem \notin Nat

VARIABLES
    current,     \* item -> its current revision, 0 when retracted, or NoItem
    revisions,   \* content_revisions rows: a row's id is its place
    audit,       \* item -> its setting_audit rows, oldest first
    store,       \* bundles whose file is in CONTENT_STORAGE_DIR
    req,         \* worker -> the request it is handling, or NoRequest
    sent,        \* requests sent so far
    lost         \* bundles whose file disappeared since it was last stored

vars == <<current, revisions, audit, store, req, sent, lost>>

Ops == {"publish", "retract", "restore"}
Phases == {"load", "repair", "put", "file", "commit"}

\* bundle is what a publish uploads, target the revision a restore names, base
\* the pointer that the handler read, NoItem when there was no row.
Request ==
    [pc : Phases, op : Ops, item : Items, bundle : Bundles, target : Nat,
     base : Nat \cup {NoItem}]

ASSUME NoRequestAssumption == NoRequest \notin Request

-----------------------------------------------------------------------------
Published == DOMAIN revisions
At(w, pc) == req[w] # NoRequest /\ req[w].pc = pc
GoTo(w, pc) == req' = [req EXCEPT ![w].pc = pc]
Answer(w) == req' = [req EXCEPT ![w] = NoRequest]

\* The audit and the UPDATE know an absent item and a retracted one as None.
NoneIfAbsent(pointer) == IF pointer = NoItem THEN 0 ELSE pointer

\* bundle_store.put: the whole file or none; a file that is there is kept.
\* Fault: the write is left to a task that runs after the answer.
StorePutLater(bundle) == UNCHANGED <<store, lost>>
StorePut(bundle) == store' = store \cup {bundle} /\ lost' = lost \ {bundle}

Send(w) ==
    /\ req[w] = NoRequest
    /\ sent < MaxRequests
    /\ \E op \in Ops, i \in Items, b \in Bundles :
       \E t \in IF op = "restore" THEN 1 .. Len(revisions) + 1 ELSE {0} :
          req' = [req EXCEPT ![w] =
                    [pc |-> "load", op |-> op, item |-> i, bundle |-> b, target |-> t,
                     base |-> NoItem]]
    /\ sent' = sent + 1
    /\ UNCHANGED <<current, revisions, audit, store, lost>>

\* publish reads the item and, as revisions never change, its current revision:
\* the same bundle again is a retry that only repairs the file.
\* Fault: a retry publishes again.
NeverShown(r, pointer) == FALSE
AlreadyShown(r, pointer) ==
    pointer \in Published /\ revisions[pointer].bundle = r.bundle

LoadForPublish(w) ==
    LET pointer == current[req[w].item]
    IN  /\ At(w, "load") /\ req[w].op = "publish"
        /\ req' = [req EXCEPT
             ![w].pc = IF AlreadyShown(req[w], pointer) THEN "repair" ELSE "put",
             ![w].base = pointer]
        /\ UNCHANGED <<current, revisions, audit, store, sent, lost>>

Repair(w) ==
    /\ At(w, "repair")
    /\ StorePut(req[w].bundle)
    /\ Answer(w)
    /\ UNCHANGED <<current, revisions, audit, sent>>

Put(w) ==
    /\ At(w, "put")
    /\ StorePut(req[w].bundle)
    /\ GoTo(w, "commit")
    /\ UNCHANGED <<current, revisions, audit, sent>>

\* retract: 404 for a missing item, nothing to do for a retracted one.
\* Fault: only a missing item is answered for.
NoSuchItem(pointer) == pointer = NoItem
NothingToRetract(pointer) == pointer \in {NoItem, 0}

LoadForRetract(w) ==
    LET pointer == current[req[w].item]
    IN  /\ At(w, "load") /\ req[w].op = "retract"
        /\ IF NothingToRetract(pointer)
             THEN Answer(w)
             ELSE req' = [req EXCEPT ![w].pc = "commit", ![w].base = pointer]
        /\ UNCHANGED <<current, revisions, audit, store, sent, lost>>

LoadForRestore(w) ==
    LET pointer == current[req[w].item]
    IN  /\ At(w, "load") /\ req[w].op = "restore"
        /\ IF pointer = NoItem
             THEN Answer(w)
             ELSE req' = [req EXCEPT ![w].pc = "file", ![w].base = pointer]
        /\ UNCHANGED <<current, revisions, audit, store, sent, lost>>

\* 422 unless the revision is one of this item's and its file is there.
\* Fault: any item's revision will do.
RestorableByAnyItem(r) ==
    r.target \in Published /\ revisions[r.target].bundle \in store
Restorable(r) ==
    /\ r.target \in Published
    /\ revisions[r.target].item = r.item
    /\ revisions[r.target].bundle \in store

CheckFile(w) ==
    /\ At(w, "file")
    /\ IF Restorable(req[w]) /\ req[w].target # req[w].base
         THEN GoTo(w, "commit")
         ELSE Answer(w)
    /\ UNCHANGED <<current, revisions, audit, store, sent, lost>>

\* _move_pointer: UPDATE ... WHERE current_revision is what the handler read.  An
\* item that was absent is inserted instead, which the primary key refuses when
\* another worker inserted it.
\* Fault: only the item's existence is compared.
PointerExists(r) == (current[r.item] = NoItem) = (r.base = NoItem)
PointerUnmoved(r) == current[r.item] = r.base

\* One transaction: the pointer, the audit record, and for publish the revision.
Moves(w, action, to) ==
    LET r == req[w]
    IN  /\ current' = [current EXCEPT ![r.item] = to]
        /\ audit' = [audit EXCEPT ![r.item] = Append(@,
                       [action |-> action, old |-> NoneIfAbsent(r.base), new |-> to])]
        /\ Answer(w)

Conflict(w) == Answer(w) /\ UNCHANGED <<current, audit, revisions>>

CommitPublish(w) ==
    /\ At(w, "commit") /\ req[w].op = "publish"
    /\ IF PointerUnmoved(req[w])
         THEN /\ Moves(w, "publish", Len(revisions) + 1)
              /\ revisions' = Append(revisions,
                                [item |-> req[w].item, bundle |-> req[w].bundle])
         ELSE Conflict(w)
    /\ UNCHANGED <<store, sent, lost>>

CommitRetract(w) ==
    /\ At(w, "commit") /\ req[w].op = "retract"
    /\ IF PointerUnmoved(req[w])
         THEN Moves(w, "retract", 0) /\ UNCHANGED revisions
         ELSE Conflict(w)
    /\ UNCHANGED <<store, sent, lost>>

CommitRestore(w) ==
    /\ At(w, "commit") /\ req[w].op = "restore"
    /\ IF PointerUnmoved(req[w])
         THEN Moves(w, "restore", req[w].target) /\ UNCHANGED revisions
         ELSE Conflict(w)
    /\ UNCHANGED <<store, sent, lost>>

\* The process dies or the client goes away: an open transaction rolls back, a
\* file already stored stays.
Crash(w) ==
    /\ req[w] # NoRequest
    /\ Answer(w)
    /\ UNCHANGED <<current, revisions, audit, store, sent, lost>>

\* A file disappears from the store (the case download and restore answer for).
LoseFile ==
    /\ \E b \in store : store' = store \ {b} /\ lost' = lost \cup {b}
    /\ UNCHANGED <<current, revisions, audit, req, sent>>

Init ==
    /\ current = [i \in Items |-> NoItem]
    /\ revisions = <<>>
    /\ audit = [i \in Items |-> <<>>]
    /\ store = {}
    /\ req = [w \in Workers |-> NoRequest]
    /\ sent = 0
    /\ lost = {}

Handle(w) ==
    \/ LoadForPublish(w) \/ Repair(w) \/ Put(w)
    \/ LoadForRetract(w) \/ LoadForRestore(w) \/ CheckFile(w)
    \/ CommitPublish(w) \/ CommitRetract(w) \/ CommitRestore(w)

Next == LoseFile \/ \E w \in Workers : Send(w) \/ Handle(w) \/ Crash(w)

Spec == Init /\ [][Next]_vars

-----------------------------------------------------------------------------
(* Properties *)

AuditRecord == [action : Ops, old : Nat, new : Nat]

\* What a handler knows when it reaches a phase, and what no other worker can
\* take from it: revisions and stored files are only added to.
Knows(r) ==
    /\ r.base \in 0 .. Len(revisions) \cup {NoItem}
    /\ r.pc \in {"repair", "put"} => r.op = "publish"
    /\ r.pc = "file" => r.op = "restore" /\ r.base # NoItem
    /\ r.op = "publish" /\ r.pc \in {"put", "commit"} => ~AlreadyShown(r, r.base)
    /\ r.op = "publish" /\ r.pc = "commit" => r.bundle \in store \cup lost
    /\ r.op = "retract" /\ r.pc = "commit" => r.base \in Published
    /\ r.op = "restore" /\ r.pc = "commit" =>
         /\ r.base # NoItem
         /\ r.target \in Published
         /\ revisions[r.target].item = r.item

\* Every variable keeps its shape, pointers stay within the revisions there are,
\* and requests carry what they know.
TypeOK ==
    /\ revisions \in Seq([item : Items, bundle : Bundles])
    /\ current \in [Items -> 0 .. Len(revisions) \cup {NoItem}]
    /\ audit \in [Items -> Seq(AuditRecord)]
    /\ store \subseteq Bundles
    /\ lost \subseteq Bundles
    /\ req \in [Workers -> Request \cup {NoRequest}]
    /\ \A w \in Workers : req[w] # NoRequest => Knows(req[w])
    /\ sent \in Nat

\* An item never shows another item's revision, although a restore names its
\* revision by an id that is shared by all items (download and restore test
\* (rev.scope, rev.type, rev.name)).
ShowsOwnRevision ==
    \A i \in Items : current[i] \in Published => revisions[current[i]].item = i

\* Every revision's file was stored before the revision became visible: it is
\* there unless it disappeared since (publish puts the file before it commits,
\* and a crash may come between).
Backed == \A r \in Published : revisions[r].bundle \in store \cup lost

\* The trail is the item's history without a gap: each record starts where the
\* one before it ended, and the last one ends at the current pointer, although
\* two workers may read the pointer before either moves it.
Chained(trail) ==
    \A k \in DOMAIN trail : trail[k].old = IF k = 1 THEN 0 ELSE trail[k - 1].new
AuditChain ==
    \A i \in Items :
        /\ Chained(audit[i])
        /\ IF audit[i] = <<>> THEN current[i] = NoItem
                              ELSE current[i] = audit[i][Len(audit[i])].new

\* The handlers implement the register: each request moves the pointer at one
\* instant or not at all, and a publish never repeats what the item shows.
Register == INSTANCE ContentRegister
ImplementsRegister == Register!Spec
=============================================================================
