------------------------------- MODULE ScopeTree -------------------------------
(***************************************************************************)
(* The stored scope tree: adding and removing beamlines and branches       *)
(* (scoped_api.py, /tree), what the workers seed from the configuration    *)
(* when they start (scoped_store.py), and the settings and locks that are  *)
(* written at a scope meanwhile, of which only the presence matters here.  *)
(* Requests are those of facility admins, past the checks of their form.   *)
(***************************************************************************)
EXTENDS Naturals, FiniteSets

CONSTANTS Workers, Beamlines, Branches,
    Configured,   \* scopes named by SCOPES_CONFIG
    ConfigParent, \* configured scope -> its parent there
    Top,          \* the parent of a beamline
    Gone,         \* no row
    NoRequest,    \* what an idle worker handles
    MaxRequests, MaxRestarts   \* bounds on requests and restarts

ASSUME BoundAssumption == MaxRequests \in Nat /\ MaxRestarts \in Nat

Scopes == Beamlines \cup Branches
ParentsOf(s) == IF s \in Branches THEN Beamlines ELSE {Top}

ASSUME ConfigAssumption ==
    /\ Configured \subseteq Scopes
    /\ \A s \in Configured : ConfigParent[s] \in ParentsOf(s)
ASSUME KindAssumption == Beamlines \cap Branches = {}

VARIABLES
    nodes,      \* scope_nodes: scope -> its row, or Gone
    content,    \* what is stored at scopes: <<"settings", s>>, <<"locks", s>>
    trail,      \* scope -> its last scope_add or scope_remove record, or Gone
    seeding,    \* worker -> configured scopes it has yet to seed; it serves when none
    req,        \* worker -> the request or the insert it is at, or NoRequest
    standing,   \* worker -> what was there when it began and has been ever since
    sent, restarts

vars == <<nodes, content, trail, seeding, req, standing, sent, restarts>>

Node == [parent : Beamlines \cup {Top}, by : {"admin", "config"}]
Record == [action : {"scope_add", "scope_remove"}, parent : Beamlines \cup {Top}]
Contents == {"settings", "locks"} \X Scopes
Request ==
    [op : {"seed", "add", "remove", "store", "clear"}, scope : Scopes,
     parent : Beamlines \cup {Top}, kind : {"settings", "locks"},
     pc : {"parent", "load", "children", "settings", "locks", "commit"}]

ASSUME SentinelAssumption ==
    Gone \notin Node \cup Record /\ NoRequest \notin Request /\ Top \notin Scopes

-----------------------------------------------------------------------------
Stored == {s \in Scopes : nodes[s] # Gone}
Children(s) == {c \in Stored : nodes[c].parent = s}

\* load_tree and ScopeTree.contains: a branch without its beamline is not there.
Contains(s) == s \in Stored /\ (s \in Branches => nodes[s].parent \in Stored)

At(w, op, pc) == req[w] # NoRequest /\ req[w].op = op /\ req[w].pc = pc
GoTo(w, pc) == req' = [req EXCEPT ![w].pc = pc]
Answer(w) == req' = [req EXCEPT ![w] = NoRequest]

\* What stands under a scope: its settings, its locks and its branches.
Things(db, stored) ==
    stored \cup {<<"node", c, db[c].parent>> : c \in {s \in Scopes : db[s] # Gone}}
Under(s) == {<<"settings", s>>, <<"locks", s>>} \cup {<<"node", c, s>> : c \in Scopes}

Send(w) ==
    /\ req[w] = NoRequest /\ seeding[w] = {}
    /\ sent < MaxRequests /\ sent' = sent + 1
    /\ \E op \in {"add", "remove", "store", "clear"}, s \in Scopes :
       \E p \in IF op = "add" THEN ParentsOf(s) ELSE {Top},
          k \in IF op \in {"store", "clear"} THEN {"settings", "locks"} ELSE {"settings"} :
          req' = [req EXCEPT ![w] =
             [op |-> op, scope |-> s, parent |-> p, kind |-> k,
              pc |-> IF op = "add" /\ s \in Branches THEN "parent" ELSE "load"]]
    /\ UNCHANGED <<nodes, content, trail, seeding, restarts>>

-----------------------------------------------------------------------------
(* add_scope *)

CheckParent(w) ==
    /\ At(w, "add", "parent")
    /\ IF req[w].parent \in Stored THEN GoTo(w, "load") ELSE Answer(w)
    /\ UNCHANGED <<nodes, content, trail, seeding, sent, restarts>>

CheckAbsent(w) ==
    /\ At(w, "add", "load")
    /\ IF req[w].scope \in Stored THEN Answer(w) ELSE GoTo(w, "commit")
    /\ UNCHANGED <<nodes, content, trail, seeding, sent, restarts>>

\* The row and its record, unless another worker inserted the row.
\* Fault: the row is merged.
MergeAllowed(s) == TRUE
InsertAllowed(s) == s \notin Stored

\* Fault: the parent is left out.
InsertLoose(s, parent, by) == nodes' = [nodes EXCEPT ![s] = [parent |-> Top, by |-> by]]
Insert(s, parent, by) == nodes' = [nodes EXCEPT ![s] = [parent |-> parent, by |-> by]]

CommitAdd(w) ==
    LET r == req[w]
    IN  /\ At(w, "add", "commit")
        /\ IF InsertAllowed(r.scope)
             THEN /\ Insert(r.scope, r.parent, "admin")
                  /\ trail' = [trail EXCEPT ![r.scope] =
                                 [action |-> "scope_add", parent |-> r.parent]]
             ELSE UNCHANGED <<nodes, trail>>
        /\ Answer(w)
        /\ UNCHANGED <<content, seeding, sent, restarts>>

-----------------------------------------------------------------------------
(* remove_scope: four reads, and 409 when one of them finds something *)

LoadNode(w) ==
    LET s == req[w].scope
    IN  /\ At(w, "remove", "load")
        /\ IF s \in Stored
             THEN req' = [req EXCEPT ![w].pc = "children", ![w].parent = nodes[s].parent]
             ELSE Answer(w)
        /\ UNCHANGED <<nodes, content, trail, seeding, sent, restarts>>

\* Both queries run before the answer; the one for locks is skipped when there
\* are settings.
CheckChildren(w) ==
    /\ At(w, "remove", "children")
    /\ IF Children(req[w].scope) = {} THEN GoTo(w, "settings") ELSE Answer(w)
    /\ UNCHANGED <<nodes, content, trail, seeding, sent, restarts>>

\* Fault: locks are not looked for.
NextQueryNone == "commit"
NextQuery == "locks"

CheckSettings(w) ==
    /\ At(w, "remove", "settings")
    /\ IF <<"settings", req[w].scope>> \in content THEN Answer(w) ELSE GoTo(w, NextQuery)
    /\ UNCHANGED <<nodes, content, trail, seeding, sent, restarts>>

CheckLocks(w) ==
    /\ At(w, "remove", "locks")
    /\ IF <<"locks", req[w].scope>> \in content THEN Answer(w) ELSE GoTo(w, "commit")
    /\ UNCHANGED <<nodes, content, trail, seeding, sent, restarts>>

\* A DELETE that finds no row any more is only warned about, and recorded.
\* Fault: it is not recorded.
TrailOfOthers(r) == trail
TrailOfRemoval(r) ==
    [trail EXCEPT ![r.scope] = [action |-> "scope_remove", parent |-> r.parent]]

CommitRemove(w) ==
    LET r == req[w]
    IN  /\ At(w, "remove", "commit")
        /\ nodes' = [nodes EXCEPT ![r.scope] = Gone]
        /\ trail' = TrailOfRemoval(r)
        /\ Answer(w)
        /\ UNCHANGED <<content, seeding, sent, restarts>>

-----------------------------------------------------------------------------
(* Writes at a scope: the tree is loaded first, the row committed later *)

LoadTree(w) ==
    /\ req[w] # NoRequest /\ req[w].op \in {"store", "clear"} /\ req[w].pc = "load"
    /\ IF Contains(req[w].scope) THEN GoTo(w, "commit") ELSE Answer(w)
    /\ UNCHANGED <<nodes, content, trail, seeding, sent, restarts>>

CommitContent(w) ==
    LET it == <<req[w].kind, req[w].scope>>
    IN  /\ req[w] # NoRequest /\ req[w].op \in {"store", "clear"} /\ req[w].pc = "commit"
        /\ content' = IF req[w].op = "store" THEN content \cup {it} ELSE content \ {it}
        /\ Answer(w)
        /\ UNCHANGED <<nodes, trail, seeding, sent, restarts>>

-----------------------------------------------------------------------------
(* seed_tree, run by every worker before it serves *)

\* Beamlines first.
SeedLook(w) ==
    /\ req[w] = NoRequest
    /\ \E s \in seeding[w] :
          /\ s \in Branches => seeding[w] \cap Beamlines = {}
          /\ IF s \in Stored
               THEN seeding' = [seeding EXCEPT ![w] = @ \ {s}] /\ UNCHANGED req
               ELSE /\ req' = [req EXCEPT ![w] =
                         [op |-> "seed", scope |-> s, parent |-> ConfigParent[s],
                          kind |-> "settings", pc |-> "commit"]]
                    /\ UNCHANGED seeding
    /\ UNCHANGED <<nodes, content, trail, sent, restarts>>

\* IntegrityError: another worker seeded it first.
\* Fault: the error ends the seeding.
NoneLeft(w) == IF req[w].scope \in Stored THEN {} ELSE seeding[w] \ {req[w].scope}
OthersLeft(w) == seeding[w] \ {req[w].scope}

CommitSeed(w) ==
    LET r == req[w]
    IN  /\ At(w, "seed", "commit")
        /\ IF InsertAllowed(r.scope) THEN Insert(r.scope, r.parent, "config")
                                     ELSE UNCHANGED nodes
        /\ seeding' = [seeding EXCEPT ![w] = OthersLeft(w)]
        /\ Answer(w)
        /\ UNCHANGED <<content, trail, sent, restarts>>

\* A worker dies and starts again.
Restart(w) ==
    /\ restarts < MaxRestarts /\ restarts' = restarts + 1
    /\ seeding' = [seeding EXCEPT ![w] = Configured]
    /\ Answer(w)
    /\ UNCHANGED <<nodes, content, trail, sent>>

\* The client goes away.
Cancel(w) ==
    /\ req[w] # NoRequest /\ req[w].op # "seed"
    /\ Answer(w)
    /\ UNCHANGED <<nodes, content, trail, seeding, sent, restarts>>

Init ==
    /\ nodes = [s \in Scopes |-> Gone]
    /\ content = {}
    /\ trail = [s \in Scopes |-> Gone]
    /\ seeding = [w \in Workers |-> Configured]
    /\ req = [w \in Workers |-> NoRequest]
    /\ standing = [w \in Workers |-> {}]
    /\ sent = 0 /\ restarts = 0

Handle(w) ==
    \/ CheckParent(w) \/ CheckAbsent(w) \/ CommitAdd(w)
    \/ LoadNode(w) \/ CheckChildren(w) \/ CheckSettings(w) \/ CheckLocks(w) \/ CommitRemove(w)
    \/ LoadTree(w) \/ CommitContent(w)
    \/ SeedLook(w) \/ CommitSeed(w)

\* What a removal finds when it begins, less what has been away since.
Watch ==
    standing' = [w \in Workers |->
        IF req'[w] = NoRequest \/ req'[w].op # "remove" THEN {}
        ELSE IF req[w] = NoRequest THEN Things(nodes, content) \cap Under(req'[w].scope)
        ELSE standing[w] \cap Things(nodes', content')]

Next == (\E w \in Workers : Send(w) \/ Handle(w) \/ Restart(w) \/ Cancel(w)) /\ Watch

Spec == Init /\ [][Next]_vars

-----------------------------------------------------------------------------
(* Properties *)

\* Every variable keeps its shape, and a handler is only where its operation goes.
TypeOK ==
    /\ nodes \in [Scopes -> Node \cup {Gone}]
    /\ \A s \in Stored : nodes[s].parent \in ParentsOf(s)
    /\ content \subseteq Contents
    /\ trail \in [Scopes -> Record \cup {Gone}]
    /\ seeding \in [Workers -> SUBSET Configured]
    /\ req \in [Workers -> Request \cup {NoRequest}]
    /\ \A w \in Workers : seeding[w] # {} =>
          req[w] = NoRequest \/ (req[w].op = "seed" /\ req[w].scope \in seeding[w])
    /\ sent \in Nat /\ restarts \in Nat

\* The trail tells admins' scopes from configured ones: a scope that an admin
\* added has a scope_add record, naming its parent, as its last record, and such a
\* record is never left behind by a removal or a seed, whoever raced whom.
TrailExplainsTree ==
    \A s \in Scopes :
        IF s \in Stored /\ nodes[s].by = "admin"
          THEN trail[s] = [action |-> "scope_add", parent |-> nodes[s].parent]
          ELSE trail[s] # Gone => trail[s].action = "scope_remove"

\* A removal never takes a scope from under a branch, a setting or a lock that was
\* there when the admin asked and stayed: what remains under a removed scope came
\* while the removal was looking.
RemovalSeesWhatStands ==
    \A w \in Workers : At(w, "remove", "commit") => standing[w] = {}

\* A worker that serves finds every configured scope in the tree, except those
\* that an admin removed, although other workers seed, add and remove while it
\* seeds.
ServingMeansSeeded ==
    \A w \in Workers : seeding[w] = {} =>
        \A s \in Configured : s \in Stored \/ trail[s] # Gone
=============================================================================
