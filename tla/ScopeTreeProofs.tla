---------------------------- MODULE ScopeTreeProofs ----------------------------
(***************************************************************************)
(* Proofs about the scope tree for any beamlines, branches, configuration  *)
(* and workers.  TrailExplainsTree is inductive given the shapes; what a   *)
(* serving worker finds needs the configured scopes each worker has yet to *)
(* seed, and what a removal saw needs what it can still see at each query. *)
(***************************************************************************)
EXTENDS ScopeTree, Sequences, TLAPS

\* The parent a handler is about to insert fits the scope.
RequestFits(r) ==
    /\ r.op = "add" => r.parent \in ParentsOf(r.scope)
    /\ r.op = "seed" => r.scope \in Configured /\ r.parent = ConfigParent[r.scope]

Shapes ==
    /\ TypeOK
    /\ \A w \in Workers : req[w] # NoRequest => RequestFits(req[w])

USE BoundAssumption, ConfigAssumption, KindAssumption, SentinelAssumption

-----------------------------------------------------------------------------
\* The request of a busy worker.
LEMMA BusyRequest ==
    ASSUME Shapes, NEW w \in Workers, req[w] # NoRequest
    PROVE  req[w] \in Request /\ RequestFits(req[w]) /\ req[w].scope \in Scopes
BY DEF Shapes, TypeOK, Request

\* A step of one worker that leaves it with a request that fits, or with none.
LEMMA WorkerStep ==
    ASSUME Shapes, NEW w \in Workers, NEW r, NEW S \in SUBSET Configured,
           r = NoRequest \/ (r \in Request /\ RequestFits(r)),
           req' = [req EXCEPT ![w] = r], seeding' = [seeding EXCEPT ![w] = S],
           S # {} => r = NoRequest \/ (r.op = "seed" /\ r.scope \in S),
           nodes' \in [Scopes -> Node \cup {Gone}],
           \A s \in Scopes : nodes'[s] # Gone => nodes'[s].parent \in ParentsOf(s),
           content' \subseteq Contents, trail' \in [Scopes -> Record \cup {Gone}],
           sent' \in Nat, restarts' \in Nat
    PROVE  Shapes'
<1>1. req' \in [Workers -> Request \cup {NoRequest}] BY DEF Shapes, TypeOK
<1>2. seeding' \in [Workers -> SUBSET Configured] BY DEF Shapes, TypeOK
<1>3. ASSUME NEW v \in Workers
      PROVE  /\ req'[v] # NoRequest => RequestFits(req'[v])
             /\ seeding'[v] # {} =>
                  req'[v] = NoRequest \/ (req'[v].op = "seed" /\ req'[v].scope \in seeding'[v])
  <2>1. CASE v = w BY <2>1 DEF Shapes, TypeOK
  <2>2. CASE v # w BY <2>2 DEF Shapes, TypeOK
  <2> QED BY <2>1, <2>2
<1>4. \A s \in Stored' : nodes'[s].parent \in ParentsOf(s) BY DEF Stored
<1> QED BY <1>1, <1>2, <1>3, <1>4 DEF Shapes, TypeOK, RequestFits

\* A step of a serving worker that changes its request only.
LEMMA RequestStep ==
    ASSUME Shapes, NEW w \in Workers, NEW r,
           r = NoRequest \/ (r \in Request /\ RequestFits(r) /\ seeding[w] = {}),
           req' = [req EXCEPT ![w] = r], sent' \in Nat,
           UNCHANGED <<nodes, content, trail, seeding, restarts>>
    PROVE  Shapes'
<1>1. seeding[w] \in SUBSET Configured /\ seeding' = [seeding EXCEPT ![w] = seeding[w]]
  BY DEF Shapes, TypeOK
<1>2. /\ nodes' \in [Scopes -> Node \cup {Gone}]
      /\ \A s \in Scopes : nodes'[s] # Gone => nodes'[s].parent \in ParentsOf(s)
      /\ content' \subseteq Contents /\ trail' \in [Scopes -> Record \cup {Gone}]
      /\ restarts' \in Nat
  BY DEF Shapes, TypeOK, Stored
<1> QED BY <1>1, <1>2, WorkerStep

\* A worker that handles a request serves.
LEMMA Serving ==
    ASSUME Shapes, NEW w \in Workers, req[w] # NoRequest, req[w].op # "seed"
    PROVE  seeding[w] = {}
BY DEF Shapes, TypeOK

\* Moving to the next query keeps a request in shape.
LEMMA GoToShapes ==
    ASSUME Shapes, NEW w \in Workers, req[w] # NoRequest, req[w].op # "seed",
           NEW pc \in {"load", "settings", "locks", "commit"}, GoTo(w, pc) \/ Answer(w),
           UNCHANGED <<nodes, content, trail, seeding, sent, restarts>>
    PROVE  Shapes'
<1>1. req[w] \in Request /\ RequestFits(req[w]) /\ seeding[w] = {} BY BusyRequest, Serving
<1>2. sent' \in Nat BY DEF Shapes, TypeOK
<1>3. CASE GoTo(w, pc)
  <2> DEFINE r == [req[w] EXCEPT !.pc = pc]
  <2>1. req' = [req EXCEPT ![w] = r] BY <1>3 DEF GoTo, Shapes, TypeOK
  <2>2. r \in Request /\ r.op = req[w].op /\ r.scope = req[w].scope /\ r.parent = req[w].parent
    BY <1>1 DEF Request
  <2> HIDE DEF r
  <2>3. RequestFits(r) BY <1>1, <2>2 DEF RequestFits
  <2> QED BY <1>1, <1>2, <2>1, <2>2, <2>3, RequestStep
<1>4. CASE Answer(w) BY <1>2, <1>4, RequestStep DEF Answer
<1> QED BY <1>3, <1>4

LEMMA SendShapes == ASSUME Shapes, NEW w \in Workers, Send(w) PROVE Shapes'
<1>1. PICK op \in {"add", "remove", "store", "clear"}, s \in Scopes :
         \E p \in IF op = "add" THEN ParentsOf(s) ELSE {Top},
            k \in IF op \in {"store", "clear"} THEN {"settings", "locks"} ELSE {"settings"} :
            req' = [req EXCEPT ![w] =
               [op |-> op, scope |-> s, parent |-> p, kind |-> k,
                pc |-> IF op = "add" /\ s \in Branches THEN "parent" ELSE "load"]]
  BY DEF Send
<1>2. PICK p \in IF op = "add" THEN ParentsOf(s) ELSE {Top}, k \in {"settings", "locks"} :
         req' = [req EXCEPT ![w] =
            [op |-> op, scope |-> s, parent |-> p, kind |-> k,
             pc |-> IF op = "add" /\ s \in Branches THEN "parent" ELSE "load"]]
  BY <1>1
<1> DEFINE r == [op |-> op, scope |-> s, parent |-> p, kind |-> k,
                 pc |-> IF op = "add" /\ s \in Branches THEN "parent" ELSE "load"]
<1>3. p \in Beamlines \cup {Top} BY DEF ParentsOf
<1>4. r \in Request BY <1>3 DEF Request
<1>5. RequestFits(r) BY DEF RequestFits
<1>6. seeding[w] = {} /\ sent' \in Nat BY DEF Send, Shapes, TypeOK
<1> QED BY <1>2, <1>4, <1>5, <1>6, RequestStep DEF Send

LEMMA LoadNodeShapes == ASSUME Shapes, NEW w \in Workers, LoadNode(w) PROVE Shapes'
<1>1. req[w] # NoRequest /\ req[w].op = "remove" BY DEF LoadNode, At
<1>2. req[w] \in Request /\ seeding[w] = {} /\ req[w].scope \in Scopes /\ sent' \in Nat
  BY <1>1, BusyRequest, Serving DEF LoadNode, Shapes, TypeOK
<1>3. CASE req[w].scope \in Stored
  <2> DEFINE p == nodes[req[w].scope].parent
             r == [req[w] EXCEPT !.pc = "children", !.parent = p]
  <2>1. p \in Beamlines \cup {Top} BY <1>2, <1>3 DEF Stored, Shapes, TypeOK, Node
  <2>2. req' = [req EXCEPT ![w] = r] BY <1>3 DEF LoadNode, Shapes, TypeOK
  <2> HIDE DEF p
  <2>3. r \in Request /\ r.op = "remove" BY <1>1, <1>2, <2>1 DEF Request
  <2> HIDE DEF r
  <2>4. RequestFits(r) BY <2>3 DEF RequestFits
  <2> QED BY <1>2, <2>2, <2>3, <2>4, RequestStep DEF LoadNode
<1>4. CASE Answer(w) BY <1>2, <1>4, RequestStep DEF LoadNode, Answer
<1> QED BY <1>3, <1>4 DEF LoadNode

\* An inserted row fits its scope.
LEMMA InsertFits ==
    ASSUME Shapes, NEW s \in Scopes, NEW p \in ParentsOf(s), NEW by \in {"admin", "config"},
           Insert(s, p, by)
    PROVE  /\ nodes' \in [Scopes -> Node \cup {Gone}]
           /\ \A t \in Scopes : nodes'[t] # Gone => nodes'[t].parent \in ParentsOf(t)
<1> DEFINE n == [parent |-> p, by |-> by]
<1>1. n \in Node /\ n.parent = p BY DEF Node, ParentsOf
<1>2. nodes' = [nodes EXCEPT ![s] = n] BY DEF Insert
<1> HIDE DEF n
<1> QED BY <1>1, <1>2 DEF Shapes, TypeOK, Stored

LEMMA CommitAddShapes == ASSUME Shapes, NEW w \in Workers, CommitAdd(w) PROVE Shapes'
<1> DEFINE r == req[w]
<1>1. r # NoRequest /\ r.op = "add" BY DEF CommitAdd, At
<1>2. r \in Request /\ r.scope \in Scopes /\ r.parent \in ParentsOf(r.scope) /\ seeding[w] = {}
  BY <1>1, BusyRequest, Serving DEF RequestFits
<1>3. /\ nodes' \in [Scopes -> Node \cup {Gone}]
      /\ \A s \in Scopes : nodes'[s] # Gone => nodes'[s].parent \in ParentsOf(s)
      /\ trail' \in [Scopes -> Record \cup {Gone}]
  <2>1. CASE InsertAllowed(r.scope)
    <3>1. Insert(r.scope, r.parent, "admin") BY <2>1 DEF CommitAdd
    <3>2. [action |-> "scope_add", parent |-> r.parent] \in Record
      BY <1>2 DEF Record, ParentsOf
    <3>3. trail' \in [Scopes -> Record \cup {Gone}]
      BY <2>1, <3>2 DEF CommitAdd, Shapes, TypeOK
    <3> QED BY <1>2, <3>1, <3>3, InsertFits
  <2>2. CASE UNCHANGED <<nodes, trail>> BY <2>2 DEF Shapes, TypeOK, Stored
  <2> QED BY <2>1, <2>2 DEF CommitAdd
<1>4. /\ req' = [req EXCEPT ![w] = NoRequest] /\ seeding' = [seeding EXCEPT ![w] = {}]
      /\ content' \subseteq Contents /\ sent' \in Nat /\ restarts' \in Nat
  BY <1>2 DEF CommitAdd, Answer, Shapes, TypeOK
<1> QED BY <1>3, <1>4, WorkerStep

LEMMA CommitRemoveShapes == ASSUME Shapes, NEW w \in Workers, CommitRemove(w) PROVE Shapes'
<1> DEFINE r == req[w]
<1>1. r # NoRequest /\ r.op = "remove" BY DEF CommitRemove, At
<1>2. r \in Request /\ r.scope \in Scopes /\ seeding[w] = {}
  BY <1>1, BusyRequest, Serving
<1>3. /\ nodes' \in [Scopes -> Node \cup {Gone}]
      /\ \A s \in Scopes : nodes'[s] # Gone => nodes'[s].parent \in ParentsOf(s)
  BY <1>2 DEF CommitRemove, Shapes, TypeOK, Stored
<1>4. [action |-> "scope_remove", parent |-> r.parent] \in Record BY <1>2 DEF Record, Request
<1>5. trail' \in [Scopes -> Record \cup {Gone}]
  BY <1>4 DEF CommitRemove, TrailOfRemoval, Shapes, TypeOK
<1>6. /\ req' = [req EXCEPT ![w] = NoRequest] /\ seeding' = [seeding EXCEPT ![w] = {}]
      /\ content' \subseteq Contents /\ sent' \in Nat /\ restarts' \in Nat
  BY <1>2 DEF CommitRemove, Answer, Shapes, TypeOK
<1> QED BY <1>3, <1>5, <1>6, WorkerStep

LEMMA CommitContentShapes == ASSUME Shapes, NEW w \in Workers, CommitContent(w) PROVE Shapes'
<1> DEFINE r == req[w]
<1>1. r # NoRequest /\ r.op # "seed" BY DEF CommitContent
<1>2. r \in Request /\ r.scope \in Scopes /\ seeding[w] = {}
  BY <1>1, BusyRequest, Serving
<1>3. <<r.kind, r.scope>> \in Contents BY <1>2 DEF Contents, Request
<1>4. content' \subseteq Contents BY <1>3 DEF CommitContent, Shapes, TypeOK
<1>5. /\ nodes' \in [Scopes -> Node \cup {Gone}]
      /\ \A s \in Scopes : nodes'[s] # Gone => nodes'[s].parent \in ParentsOf(s)
      /\ trail' \in [Scopes -> Record \cup {Gone}]
  BY DEF CommitContent, Shapes, TypeOK, Stored
<1>6. /\ req' = [req EXCEPT ![w] = NoRequest] /\ seeding' = [seeding EXCEPT ![w] = {}]
      /\ sent' \in Nat /\ restarts' \in Nat
  BY <1>2 DEF CommitContent, Answer, Shapes, TypeOK
<1> QED BY <1>4, <1>5, <1>6, WorkerStep

LEMMA SeedLookShapes == ASSUME Shapes, NEW w \in Workers, SeedLook(w) PROVE Shapes'
<1>1. PICK s \in seeding[w] :
         IF s \in Stored
           THEN seeding' = [seeding EXCEPT ![w] = @ \ {s}] /\ UNCHANGED req
           ELSE /\ req' = [req EXCEPT ![w] =
                     [op |-> "seed", scope |-> s, parent |-> ConfigParent[s],
                      kind |-> "settings", pc |-> "commit"]]
                /\ UNCHANGED seeding
  BY DEF SeedLook
<1>2. seeding[w] \in SUBSET Configured /\ s \in Configured /\ req[w] = NoRequest
  BY DEF SeedLook, Shapes, TypeOK
<1>3. /\ nodes' \in [Scopes -> Node \cup {Gone}]
      /\ \A t \in Scopes : nodes'[t] # Gone => nodes'[t].parent \in ParentsOf(t)
      /\ trail' \in [Scopes -> Record \cup {Gone}]
      /\ content' \subseteq Contents /\ sent' \in Nat /\ restarts' \in Nat
  BY DEF SeedLook, Shapes, TypeOK, Stored
<1>4. CASE s \in Stored
  <2>1. req' = [req EXCEPT ![w] = NoRequest] BY <1>1, <1>2, <1>4 DEF Shapes, TypeOK
  <2>2. seeding' = [seeding EXCEPT ![w] = seeding[w] \ {s}] BY <1>1, <1>4
  <2>3. seeding[w] \ {s} \in SUBSET Configured BY <1>2
  <2> QED BY <1>3, <2>1, <2>2, <2>3, WorkerStep
<1>5. CASE s \notin Stored
  <2> DEFINE r == [op |-> "seed", scope |-> s, parent |-> ConfigParent[s],
                   kind |-> "settings", pc |-> "commit"]
  <2>1. r \in Request BY <1>2 DEF Request, ParentsOf
  <2>2. RequestFits(r) BY <1>2 DEF RequestFits
  <2>3. req' = [req EXCEPT ![w] = r] BY <1>1, <1>5
  <2>4. seeding' = [seeding EXCEPT ![w] = seeding[w]] BY <1>1, <1>5 DEF Shapes, TypeOK
  <2>5. r.op = "seed" /\ r.scope = s OBVIOUS
  <2> HIDE DEF r
  <2> QED BY <1>2, <1>3, <2>1, <2>2, <2>3, <2>4, <2>5, WorkerStep
<1> QED BY <1>4, <1>5

LEMMA CommitSeedShapes == ASSUME Shapes, NEW w \in Workers, CommitSeed(w) PROVE Shapes'
<1> DEFINE r == req[w]
<1>1. r # NoRequest /\ r.op = "seed" BY DEF CommitSeed, At
<1>2. /\ r \in Request /\ r.scope \in Configured /\ r.scope \in Scopes
      /\ r.parent \in ParentsOf(r.scope)
  BY <1>1, BusyRequest DEF RequestFits
<1>3. /\ nodes' \in [Scopes -> Node \cup {Gone}]
      /\ \A s \in Scopes : nodes'[s] # Gone => nodes'[s].parent \in ParentsOf(s)
  <2>1. CASE Insert(r.scope, r.parent, "config") BY <1>2, <2>1, InsertFits
  <2>2. CASE UNCHANGED nodes BY <2>2 DEF Shapes, TypeOK, Stored
  <2> QED BY <2>1, <2>2 DEF CommitSeed
<1>4. seeding[w] \ {r.scope} \in SUBSET Configured BY DEF Shapes, TypeOK
<1>5. /\ req' = [req EXCEPT ![w] = NoRequest]
      /\ seeding' = [seeding EXCEPT ![w] = seeding[w] \ {r.scope}]
      /\ content' \subseteq Contents /\ trail' \in [Scopes -> Record \cup {Gone}]
      /\ sent' \in Nat /\ restarts' \in Nat
  BY DEF CommitSeed, OthersLeft, Answer, Shapes, TypeOK
<1> QED BY <1>3, <1>4, <1>5, WorkerStep

LEMMA RestartShapes == ASSUME Shapes, NEW w \in Workers, Restart(w) PROVE Shapes'
<1>1. /\ nodes' \in [Scopes -> Node \cup {Gone}]
      /\ \A t \in Scopes : nodes'[t] # Gone => nodes'[t].parent \in ParentsOf(t)
      /\ trail' \in [Scopes -> Record \cup {Gone}]
      /\ content' \subseteq Contents /\ sent' \in Nat /\ restarts' \in Nat
  BY DEF Restart, Shapes, TypeOK, Stored
<1> QED BY <1>1, WorkerStep DEF Restart, Answer

LEMMA QueryShapes ==
    ASSUME Shapes, NEW w \in Workers,
           \/ CheckParent(w) \/ CheckAbsent(w) \/ CheckChildren(w)
           \/ CheckSettings(w) \/ CheckLocks(w) \/ LoadTree(w) \/ Cancel(w)
    PROVE  Shapes'
<1>1. req[w] # NoRequest /\ req[w].op # "seed"
  BY DEF CheckParent, CheckAbsent, CheckChildren, CheckSettings, CheckLocks, LoadTree,
         Cancel, At
<1>2. UNCHANGED <<nodes, content, trail, seeding, sent, restarts>>
  BY DEF CheckParent, CheckAbsent, CheckChildren, CheckSettings, CheckLocks, LoadTree, Cancel
<1>3. \E pc \in {"load", "settings", "locks", "commit"} : GoTo(w, pc) \/ Answer(w)
  BY DEF CheckParent, CheckAbsent, CheckChildren, CheckSettings, CheckLocks, LoadTree,
         Cancel, NextQuery
<1> QED BY <1>1, <1>2, <1>3, GoToShapes

LEMMA InitShapes == Init => Shapes
BY DEF Init, Shapes, TypeOK, Stored

LEMMA StepShapes == Shapes /\ [Next]_vars => Shapes'
<1> SUFFICES ASSUME Shapes, [Next]_vars PROVE Shapes'
  OBVIOUS
<1>1. CASE UNCHANGED vars
  BY <1>1 DEF vars, Shapes, TypeOK, Stored, RequestFits
<1>2. ASSUME NEW w \in Workers, Send(w) \/ Handle(w) \/ Restart(w) \/ Cancel(w)
      PROVE  Shapes'
  BY <1>2, SendShapes, QueryShapes, CommitAddShapes, LoadNodeShapes, CommitRemoveShapes,
     CommitContentShapes, SeedLookShapes, CommitSeedShapes, RestartShapes DEF Handle
<1> QED BY <1>1, <1>2 DEF Next

LEMMA AlwaysShapes == Spec => []Shapes
BY InitShapes, StepShapes, PTL DEF Spec

\* Rows have a parent of the right kind whoever inserts them, and a handler is
\* only where its operation goes.
THEOREM TypeCorrect == Spec => []TypeOK
<1>1. Shapes => TypeOK BY DEF Shapes
<1> QED BY <1>1, AlwaysShapes, PTL

-----------------------------------------------------------------------------
(* The trail explains the tree *)

LEMMA ExplainedStep ==
    Shapes /\ TrailExplainsTree /\ [Next]_vars => TrailExplainsTree'
<1> SUFFICES ASSUME Shapes, TrailExplainsTree, [Next]_vars PROVE TrailExplainsTree'
  OBVIOUS
<1>1. CASE UNCHANGED <<nodes, trail>>
  BY <1>1 DEF TrailExplainsTree, Stored
<1>2. ASSUME NEW w \in Workers, CommitAdd(w) PROVE TrailExplainsTree'
  <2>1. CASE UNCHANGED <<nodes, trail>> BY <1>1, <2>1
  <2>2. CASE InsertAllowed(req[w].scope)
    <3> DEFINE s == req[w].scope
               n == [parent |-> req[w].parent, by |-> "admin"]
               e == [action |-> "scope_add", parent |-> req[w].parent]
    <3>1. nodes' = [nodes EXCEPT ![s] = n] /\ trail' = [trail EXCEPT ![s] = e]
      BY <1>2, <2>2 DEF CommitAdd, Insert
    <3>2. n.by = "admin" /\ e = [action |-> "scope_add", parent |-> n.parent] OBVIOUS
    <3>3. req[w] \in Request BY <1>2, BusyRequest DEF CommitAdd, At
    <3>4. n # Gone
      <4>1. req[w].parent \in Beamlines \cup {Top} BY <3>3 DEF Request
      <4> QED BY <4>1 DEF Node
    <3> HIDE DEF n, e
    <3> QED BY <3>1, <3>2, <3>4 DEF TrailExplainsTree, Stored, Shapes, TypeOK
  <2> QED BY <1>2, <2>1, <2>2 DEF CommitAdd
<1>3. ASSUME NEW w \in Workers, CommitRemove(w) PROVE TrailExplainsTree'
  <2> DEFINE s == req[w].scope
             e == [action |-> "scope_remove", parent |-> req[w].parent]
  <2>1. nodes' = [nodes EXCEPT ![s] = Gone] /\ trail' = [trail EXCEPT ![s] = e]
    BY <1>3 DEF CommitRemove, TrailOfRemoval
  <2>2. e.action = "scope_remove" OBVIOUS
  <2> HIDE DEF e
  <2> QED BY <2>1, <2>2 DEF TrailExplainsTree, Stored, Shapes, TypeOK
<1>4. ASSUME NEW w \in Workers, CommitSeed(w) PROVE TrailExplainsTree'
  <2>1. CASE UNCHANGED nodes BY <1>1, <1>4, <2>1 DEF CommitSeed
  <2>2. CASE InsertAllowed(req[w].scope)
    <3> DEFINE s == req[w].scope
               n == [parent |-> req[w].parent, by |-> "config"]
    <3>1. nodes' = [nodes EXCEPT ![s] = n] /\ trail' = trail /\ s \notin Stored
      BY <1>4, <2>2 DEF CommitSeed, Insert, InsertAllowed
    <3>2. n.by = "config" OBVIOUS
    <3> HIDE DEF n
    <3> QED BY <3>1, <3>2 DEF TrailExplainsTree, Stored, Shapes, TypeOK
  <2> QED BY <1>4, <2>1, <2>2 DEF CommitSeed
<1> QED
  BY <1>1, <1>2, <1>3, <1>4
  DEF Next, vars, Handle, Send, CheckParent, CheckAbsent, LoadNode, CheckChildren,
      CheckSettings, CheckLocks, LoadTree, CommitContent, SeedLook, Restart, Cancel

\* Whatever adds, removals, seeds and restarts race each other, the last record of
\* a scope tells whether an admin or the configuration put it where it stands.
THEOREM TrailSound == Spec => []TrailExplainsTree
<1>1. Init => TrailExplainsTree BY DEF Init, TrailExplainsTree, Stored
<1> QED BY <1>1, ExplainedStep, AlwaysShapes, PTL DEF Spec

-----------------------------------------------------------------------------
(* A serving worker finds the configured scopes *)

\* A configured scope is still to be seeded, in the tree, or has a record.
Seeded ==
    \A w \in Workers, s \in Configured : s \in seeding[w] \/ s \in Stored \/ trail[s] # Gone

LEMMA SeededStep == Shapes /\ Seeded /\ [Next]_vars => Seeded'
<1> SUFFICES ASSUME Shapes, Seeded, [Next]_vars PROVE Seeded'
  OBVIOUS
<1>1. CASE UNCHANGED <<nodes, trail, seeding>>
  BY <1>1 DEF Seeded, Stored
<1>2. ASSUME NEW w \in Workers, CommitAdd(w) PROVE Seeded'
  <2>1. CASE UNCHANGED <<nodes, trail>> BY <1>1, <1>2, <2>1 DEF CommitAdd
  <2>2. CASE InsertAllowed(req[w].scope)
    <3> DEFINE s == req[w].scope
               n == [parent |-> req[w].parent, by |-> "admin"]
               e == [action |-> "scope_add", parent |-> req[w].parent]
    <3>1. nodes' = [nodes EXCEPT ![s] = n] /\ trail' = [trail EXCEPT ![s] = e]
          /\ UNCHANGED seeding
      BY <1>2, <2>2 DEF CommitAdd, Insert
    <3>2. s \in Scopes /\ req[w] \in Request BY <1>2, BusyRequest DEF CommitAdd, At
    <3>3. n # Gone /\ e # Gone
      <4>1. req[w].parent \in Beamlines \cup {Top} BY <3>2 DEF Request
      <4> QED BY <4>1 DEF Node, Record
    <3> HIDE DEF n, e
    <3> QED BY <3>1, <3>2, <3>3 DEF Seeded, Stored, Shapes, TypeOK
  <2> QED BY <1>2, <2>1, <2>2 DEF CommitAdd
<1>3. ASSUME NEW w \in Workers, CommitRemove(w) PROVE Seeded'
  <2> DEFINE s == req[w].scope
             e == [action |-> "scope_remove", parent |-> req[w].parent]
  <2>1. nodes' = [nodes EXCEPT ![s] = Gone] /\ trail' = [trail EXCEPT ![s] = e]
        /\ UNCHANGED seeding
    BY <1>3 DEF CommitRemove, TrailOfRemoval
  <2>2. s \in Scopes /\ req[w] \in Request BY <1>3, BusyRequest DEF CommitRemove, At
  <2>3. e # Gone
    <3>1. req[w].parent \in Beamlines \cup {Top} BY <2>2 DEF Request
    <3> QED BY <3>1 DEF Record
  <2> HIDE DEF e
  <2> QED BY <2>1, <2>2, <2>3 DEF Seeded, Stored, Shapes, TypeOK
<1>4. ASSUME NEW w \in Workers, CommitSeed(w) PROVE Seeded'
  <2> DEFINE s == req[w].scope
  <2>1. s \in Scopes /\ req[w] \in Request /\ req[w].parent \in Beamlines \cup {Top}
    BY <1>4, BusyRequest DEF CommitSeed, At, Request
  <2>2. s \in Stored' /\ Stored \subseteq Stored'
    <3>1. CASE InsertAllowed(s)
      <4> DEFINE n == [parent |-> req[w].parent, by |-> "config"]
      <4>1. nodes' = [nodes EXCEPT ![s] = n] BY <1>4, <3>1 DEF CommitSeed, Insert
      <4>2. n # Gone BY <2>1 DEF Node
      <4> HIDE DEF n
      <4> QED BY <2>1, <4>1, <4>2 DEF Stored, Shapes, TypeOK
    <3>2. CASE ~InsertAllowed(s)
      BY <1>4, <2>1, <3>2 DEF CommitSeed, InsertAllowed, Stored
    <3> QED BY <3>1, <3>2
  <2>3. seeding' = [seeding EXCEPT ![w] = seeding[w] \ {s}] /\ trail' = trail
    BY <1>4 DEF CommitSeed, OthersLeft
  <2> HIDE DEF s
  <2>4. ASSUME NEW v \in Workers, NEW t \in Configured
        PROVE  t \in seeding'[v] \/ t \in Stored' \/ trail'[t] # Gone
    <3>1. t \in seeding[v] \/ t \in Stored \/ trail[t] # Gone BY DEF Seeded
    <3> QED BY <2>2, <2>3, <3>1 DEF Shapes, TypeOK
  <2> QED BY <2>4 DEF Seeded
<1>5. ASSUME NEW w \in Workers, SeedLook(w) PROVE Seeded'
  <2>1. UNCHANGED <<nodes, trail>> BY <1>5 DEF SeedLook
  <2>2. PICK s \in seeding[w] :
           \/ s \in Stored /\ seeding' = [seeding EXCEPT ![w] = seeding[w] \ {s}]
           \/ UNCHANGED seeding
    BY <1>5 DEF SeedLook
  <2> QED BY <2>1, <2>2 DEF Seeded, Stored, Shapes, TypeOK
<1>6. ASSUME NEW w \in Workers, Restart(w) PROVE Seeded'
  BY <1>6 DEF Restart, Seeded, Stored, Shapes, TypeOK
<1> QED
  BY <1>1, <1>2, <1>3, <1>4, <1>5, <1>6
  DEF Next, vars, Handle, Send, CheckParent, CheckAbsent, LoadNode, CheckChildren,
      CheckSettings, CheckLocks, LoadTree, CommitContent, Cancel

\* A worker that serves finds every configured scope that no admin removed, for any
\* number of workers that seed, restart and serve at the same time.
THEOREM ServingIsSeeded == Spec => []ServingMeansSeeded
<1>1. Init => Seeded BY DEF Init, Seeded
<1>2. Seeded => ServingMeansSeeded BY DEF Seeded, ServingMeansSeeded
<1> QED BY <1>1, <1>2, SeededStep, AlwaysShapes, PTL DEF Spec

-----------------------------------------------------------------------------
(* What a removal can still see *)

\* What was there when the removal began stands under its scope to this day, and
\* each query that passed ruled one kind out.
WatchedOne(r, held, db, stored) ==
    IF r = NoRequest \/ r.op # "remove" THEN held = {}
    ELSE /\ held \subseteq Things(db, stored) \cap Under(r.scope)
         /\ r.pc \in {"settings", "locks", "commit"} =>
              \A c \in Scopes : <<"node", c, r.scope>> \notin held
         /\ r.pc \in {"locks", "commit"} => <<"settings", r.scope>> \notin held
         /\ r.pc = "commit" => <<"locks", r.scope>> \notin held

Watched == \A w \in Workers : WatchedOne(req[w], standing[w], nodes, content)

\* A thing that is there is a branch in the tree, or content.
LEMMA NodeThing ==
    ASSUME Shapes, NEW c \in Scopes, NEW s, <<"node", c, s>> \in Things(nodes, content)
    PROVE  c \in Children(s)
<1>1. <<"node", c, s>> \notin content
  <2>1. \A x \in Contents : Len(x) = 2 BY DEF Contents
  <2> QED BY <2>1 DEF Shapes, TypeOK
<1>2. PICK d \in Scopes : nodes[d] # Gone /\ <<"node", c, s>> = <<"node", d, nodes[d].parent>>
  BY <1>1 DEF Things
<1> QED BY <1>2 DEF Children, Stored

LEMMA ContentThing ==
    ASSUME NEW kind, NEW s, NEW db, NEW stored, <<kind, s>> \in Things(db, stored)
    PROVE  <<kind, s>> \in stored
BY DEF Things

\* A removal that goes on keeps what the earlier queries ruled out, and rules out
\* what its query looked for.
LEMMA MoveWatched ==
    ASSUME Shapes, NEW w \in Workers, WatchedOne(req[w], standing[w], nodes, content), Watch,
           req[w] # NoRequest, req[w].op = "remove", req'[w] # NoRequest,
           req'[w].op = "remove", req'[w].scope = req[w].scope,
           req[w].pc \in {"settings", "locks", "commit"} \/
             (req'[w].pc \in {"settings", "locks", "commit"} => Children(req[w].scope) = {}),
           req[w].pc \in {"locks", "commit"} \/
             (req'[w].pc \in {"locks", "commit"} => <<"settings", req[w].scope>> \notin content),
           req[w].pc = "commit" \/
             (req'[w].pc = "commit" => <<"locks", req[w].scope>> \notin content)
    PROVE  WatchedOne(req'[w], standing'[w], nodes', content')
<1> DEFINE s == req[w].scope
<1>1. standing'[w] = standing[w] \cap Things(nodes', content') BY DEF Watch
<1>2. standing[w] \subseteq Things(nodes, content) \cap Under(s) BY DEF WatchedOne
<1>3. ASSUME req'[w].pc \in {"settings", "locks", "commit"}
      PROVE  \A c \in Scopes : <<"node", c, s>> \notin standing[w]
  BY <1>2, <1>3, NodeThing DEF WatchedOne
<1>4. ASSUME req'[w].pc \in {"locks", "commit"} PROVE <<"settings", s>> \notin standing[w]
  BY <1>2, <1>4, ContentThing DEF WatchedOne
<1>5. ASSUME req'[w].pc = "commit" PROVE <<"locks", s>> \notin standing[w]
  BY <1>2, <1>5, ContentThing DEF WatchedOne
<1> QED BY <1>1, <1>2, <1>3, <1>4, <1>5 DEF WatchedOne

\* A step of another worker takes things away from under a removal, no more.
LEMMA OthersWatched ==
    ASSUME NEW w \in Workers, WatchedOne(req[w], standing[w], nodes, content), Watch,
           req'[w] = req[w]
    PROVE  WatchedOne(req'[w], standing'[w], nodes', content')
<1>1. CASE req[w] = NoRequest \/ req[w].op # "remove" BY <1>1 DEF Watch, WatchedOne
<1>2. CASE req[w] # NoRequest /\ req[w].op = "remove"
  <2>1. standing'[w] = standing[w] \cap Things(nodes', content') BY <1>2 DEF Watch
  <2> QED BY <1>2, <2>1 DEF WatchedOne
<1> QED BY <1>1, <1>2

\* A worker that does not remove watches nothing.
LEMMA IdleWatched ==
    ASSUME NEW w \in Workers, Watch, req'[w] = NoRequest \/ req'[w].op # "remove"
    PROVE  WatchedOne(req'[w], standing'[w], nodes', content')
BY DEF Watch, WatchedOne

\* A removal begins with all that stands under its scope.
LEMMA SendWatched ==
    ASSUME Shapes, NEW w \in Workers, Send(w), Watch
    PROVE  WatchedOne(req'[w], standing'[w], nodes', content')
<1>1. CASE req'[w] = NoRequest \/ req'[w].op # "remove" BY <1>1, IdleWatched
<1>2. CASE req'[w] # NoRequest /\ req'[w].op = "remove"
  <2>1. req'[w].pc = "load" BY <1>2 DEF Send, Shapes, TypeOK
  <2>2. standing'[w] = Things(nodes', content') \cap Under(req'[w].scope)
    BY <1>2 DEF Send, Watch
  <2> QED BY <1>2, <2>1, <2>2 DEF WatchedOne
<1> QED BY <1>1, <1>2

\* The steps of a removal: each goes on with what its query found, or is the last.
LEMMA RemovalWatched ==
    ASSUME Shapes, NEW w \in Workers, WatchedOne(req[w], standing[w], nodes, content), Watch,
           LoadNode(w) \/ CheckChildren(w) \/ CheckSettings(w) \/ CheckLocks(w)
    PROVE  WatchedOne(req'[w], standing'[w], nodes', content')
<1>1. req[w] # NoRequest /\ req[w].op = "remove" /\ req[w] \in Request
  BY BusyRequest DEF LoadNode, CheckChildren, CheckSettings, CheckLocks, At
<1>2. CASE req'[w] = NoRequest BY <1>2, IdleWatched
<1>3. ASSUME NEW pc, GoTo(w, pc)
      PROVE  req'[w].op = "remove" /\ req'[w].scope = req[w].scope /\ req'[w].pc = pc
  BY <1>1, <1>3 DEF GoTo, Shapes, TypeOK, Request
<1>4. CASE req'[w] # NoRequest /\ LoadNode(w)
  <2>1. req'[w].op = "remove" /\ req'[w].scope = req[w].scope /\ req'[w].pc = "children"
    BY <1>1, <1>4 DEF LoadNode, Answer, Shapes, TypeOK, Request
  <2> QED BY <1>1, <1>4, <2>1, MoveWatched
<1>5. CASE req'[w] # NoRequest /\ CheckChildren(w)
  <2>1. GoTo(w, "settings") /\ Children(req[w].scope) = {}
    BY <1>5 DEF CheckChildren, Answer, Shapes, TypeOK
  <2>2. req'[w].op = "remove" /\ req'[w].scope = req[w].scope /\ req'[w].pc = "settings"
    BY <1>3, <2>1
  <2> QED BY <1>1, <1>5, <2>1, <2>2, MoveWatched
<1>6. CASE req'[w] # NoRequest /\ CheckSettings(w)
  <2>1. GoTo(w, "locks") /\ <<"settings", req[w].scope>> \notin content /\ req[w].pc = "settings"
    BY <1>6 DEF CheckSettings, NextQuery, At, Answer, Shapes, TypeOK
  <2>2. req'[w].op = "remove" /\ req'[w].scope = req[w].scope /\ req'[w].pc = "locks"
    BY <1>3, <2>1
  <2> QED BY <1>1, <1>6, <2>1, <2>2, MoveWatched
<1>7. CASE req'[w] # NoRequest /\ CheckLocks(w)
  <2>1. GoTo(w, "commit") /\ <<"locks", req[w].scope>> \notin content /\ req[w].pc = "locks"
    BY <1>7 DEF CheckLocks, At, Answer, Shapes, TypeOK
  <2> QED BY <1>1, <1>3, <1>7, <2>1, MoveWatched
<1> QED BY <1>2, <1>4, <1>5, <1>6, <1>7

\* What remains of the steps leaves the worker without a removal.
LEMMA EndWatched ==
    ASSUME Shapes, NEW w \in Workers, Watch,
           \/ CheckParent(w) \/ CheckAbsent(w) \/ CommitAdd(w) \/ CommitRemove(w)
           \/ LoadTree(w) \/ CommitContent(w) \/ SeedLook(w) \/ CommitSeed(w)
           \/ Restart(w) \/ Cancel(w)
    PROVE  WatchedOne(req'[w], standing'[w], nodes', content')
<1>1. ASSUME Answer(w) PROVE req'[w] = NoRequest BY <1>1 DEF Answer, Shapes, TypeOK
<1>2. ASSUME NEW pc, GoTo(w, pc), req[w] # NoRequest PROVE req'[w].op = req[w].op
  BY <1>2, BusyRequest DEF GoTo, Shapes, TypeOK, Request
<1>3. CASE \/ CommitAdd(w) \/ CommitRemove(w) \/ CommitContent(w) \/ CommitSeed(w)
           \/ Restart(w) \/ Cancel(w)
  BY <1>1, <1>3, IdleWatched
  DEF CommitAdd, CommitRemove, CommitContent, CommitSeed, Restart, Cancel
<1>4. CASE CheckParent(w) \/ CheckAbsent(w) \/ LoadTree(w)
  <2>1. req[w] # NoRequest /\ req[w].op # "remove"
    BY <1>4 DEF CheckParent, CheckAbsent, LoadTree, At
  <2>2. Answer(w) \/ \E pc \in {"load", "commit"} : GoTo(w, pc)
    BY <1>4 DEF CheckParent, CheckAbsent, LoadTree
  <2> QED BY <1>1, <1>2, <2>1, <2>2, IdleWatched
<1>5. CASE SeedLook(w)
  <2>1. req'[w] = NoRequest \/ req'[w].op = "seed" BY <1>5 DEF SeedLook, Shapes, TypeOK
  <2> QED BY <2>1, IdleWatched
<1> QED BY <1>3, <1>4, <1>5

LEMMA WatchedStep == Shapes /\ Watched /\ [Next]_vars => Watched'
<1> SUFFICES ASSUME Shapes, Watched, [Next]_vars PROVE Watched'
  OBVIOUS
<1>1. CASE UNCHANGED vars BY <1>1 DEF vars, Watched, WatchedOne, Things
<1>2. ASSUME NEW v \in Workers, Send(v) \/ Handle(v) \/ Restart(v) \/ Cancel(v), Watch
      PROVE  Watched'
  <2>1. WatchedOne(req'[v], standing'[v], nodes', content')
    BY <1>2, SendWatched, RemovalWatched, EndWatched DEF Watched, Handle
  <2>2. ASSUME NEW w \in Workers, w # v PROVE req'[w] = req[w]
    BY <1>2, <2>2
    DEF Shapes, TypeOK, Handle, Send, CheckParent, CheckAbsent, CommitAdd, LoadNode,
        CheckChildren, CheckSettings, CheckLocks, CommitRemove, LoadTree, CommitContent,
        SeedLook, CommitSeed, Restart, Cancel, GoTo, Answer
  <2>3. ASSUME NEW w \in Workers PROVE WatchedOne(req'[w], standing'[w], nodes', content')
    BY <1>2, <2>1, <2>2, OthersWatched DEF Watched
  <2> QED BY <2>3 DEF Watched
<1> QED BY <1>1, <1>2 DEF Next

\* A removal that comes to its commit has seen everything that stood under its
\* scope all the while: whatever remains there came while it was looking.
THEOREM RemovalSound == Spec => []RemovalSeesWhatStands
<1>1. Init => Watched BY DEF Init, Watched, WatchedOne
<1>2. Watched => RemovalSeesWhatStands
  <2> SUFFICES ASSUME Watched, NEW w \in Workers, At(w, "remove", "commit")
               PROVE  standing[w] = {}
    BY DEF RemovalSeesWhatStands
  <2>1. /\ standing[w] \subseteq Under(req[w].scope)
        /\ \A c \in Scopes : <<"node", c, req[w].scope>> \notin standing[w]
        /\ <<"settings", req[w].scope>> \notin standing[w]
        /\ <<"locks", req[w].scope>> \notin standing[w]
    BY DEF Watched, WatchedOne, At
  <2> QED BY <2>1 DEF Under
<1> QED BY <1>1, <1>2, WatchedStep, AlwaysShapes, PTL DEF Spec
=============================================================================
