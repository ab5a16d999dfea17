------------------------------- MODULE LocalSync -------------------------------
(***************************************************************************)
(* The offline copy of a logbook (local_store.py) and the server's entries *)
(* and fragments (api.py, LogbookController), of one user.  The user edits *)
(* the copy while a push or a pull is waiting for an answer; another       *)
(* device edits the server.  A handler of the server is one step: that     *)
(* writes of one row commit in the order of their updated_at is assumed.   *)
(* Texts are the times they were written at, and a row that the server     *)
(* adds takes the time as its id.                                          *)
(***************************************************************************)
EXTENDS Naturals, FiniteSets

CONSTANTS
    LocalIds,     \* uuids of the rows the user makes in the copy
    Absent,       \* no row
    Top,          \* what an entry is under; a fragment is under its entry
    NoUndo,       \* the session of the sync has written nothing yet
    MaxTime,      \* bound on the edits and the rows added, on both sides
    MaxFaults     \* bound on lost requests, lost answers and crashes

ServerIds == 1 .. MaxTime
Ids == LocalIds \cup ServerIds

ASSUME BoundAssumption == MaxTime \in Nat /\ MaxFaults \in Nat

\* Uuids made on either side never meet.
ASSUME IdAssumption == LocalIds \cap ServerIds = {} /\ Top \notin Ids

VARIABLES
    clock,       \* time of the last edit
    local,       \* the copy: id -> row with its sync_status
    server,      \* the server: id -> row
    pc,          \* where the sync stands
    todo,        \* ids it still has to send or to look at
    cur,         \* the entry whose fragments it fetches
    loaded,      \* rows its session holds as it first read them
    remote,      \* rows the server answered with
    queue,       \* changes it has not flushed: id -> the changed columns
    undo,        \* the copy that a rollback restores, NoUndo when it is unlocked
    edits,       \* id -> how often the user wrote it
    copies,      \* id -> the rows the server made from it, with their texts
    dirty,       \* ids that were unsynced when the pull began
    overlapped,  \* ids whose last edit came while a push was under way
    faults

sync == <<pc, todo, cur, loaded, remote, queue>>
history == <<edits, copies, dirty, overlapped>>
vars == <<clock, local, server, sync, undo, history, faults>>

Nothing == [i \in {} |-> Absent]

-----------------------------------------------------------------------------
Rows(db) == {i \in DOMAIN db : db[i] # Absent}
Entries(db) == {i \in Rows(db) : db[i].entry = Top}
Under(db, e) == {i \in Rows(db) : db[i].entry = e}
WithStatus(status) == {i \in Rows(local) : local[i].status = status}

\* The columns of a change replace those of the row, and onupdate sets updated_at
\* when the change leaves it out.
Changed(row, change) ==
    [c \in DOMAIN row |-> IF c \in DOMAIN change THEN change[c]
                          ELSE IF c = "at" THEN clock ELSE row[c]]

\* A new row is complete.
Flushed ==
    [i \in Ids |->
        IF i \notin DOMAIN queue THEN local[i]
        ELSE IF local[i] = Absent \/ queue[i] = Absent THEN queue[i]
        ELSE Changed(local[i], queue[i])]

Only(i, change) == [j \in {i} |-> change]
Queued(i, change) == [j \in DOMAIN queue \cup {i} |-> IF j = i THEN change ELSE queue[j]]

\* Autoflush before a SELECT.  From its first write to its commit the session
\* holds SQLite's write lock.
Flush ==
    /\ local' = Flushed
    /\ undo' = IF DOMAIN queue # {} /\ undo = NoUndo THEN local ELSE undo

\* The session ends, with its writes or without.
\* Fault: the session is left open.
CloseLater == UNCHANGED undo
Close == undo' = NoUndo
Finish(rows) ==
    /\ local' = rows
    /\ Close
    /\ pc' = "idle" /\ todo' = {} /\ cur' = Top
    /\ loaded' = Nothing /\ remote' = Nothing /\ queue' = Nothing
    /\ dirty' = {}

Tick == clock < MaxTime /\ clock' = clock + 1
Now == clock + 1

-----------------------------------------------------------------------------
(* The user, with sessions of their own *)

Writes(i, row) ==
    /\ undo = NoUndo
    /\ Tick
    /\ local' = [local EXCEPT ![i] = row]
    /\ edits' = [edits EXCEPT ![i] = @ + 1]
    /\ overlapped' = IF pc \in {"entries", "frags", "deletes"} THEN overlapped \cup {i}
                     ELSE overlapped \ {i}
    /\ UNCHANGED <<server, sync, undo, copies, dirty, faults>>

Create(i) ==
    /\ local[i] = Absent
    /\ \E e \in {Top} \cup Entries(local) :
          Writes(i, [entry |-> e, text |-> Now, at |-> Now, status |-> "pending"])

\* Fault: the row is left with its status.
UpdateQuietly(i) ==
    /\ i \in Rows(local)
    /\ Writes(i, [local[i] EXCEPT !.text = Now, !.at = Now])
Update(i) ==
    /\ i \in Rows(local)
    /\ Writes(i, [local[i] EXCEPT !.text = Now, !.at = Now, !.status = "pending"])

DeleteFragment(i) ==
    /\ i \in Rows(local) \ Entries(local)
    /\ Writes(i, [local[i] EXCEPT !.at = Now, !.status = "deleted"])

User == (\E i \in LocalIds : Create(i)) \/ \E i \in Ids : Update(i) \/ DeleteFragment(i)

-----------------------------------------------------------------------------
(* The server's handlers *)

Added(row) ==
    /\ Tick
    /\ server' = [server EXCEPT ![Now] = [entry |-> row.entry, text |-> row.text, at |-> Now]]

\* An entry takes its fragments with it; a fragment has none.
Removed(i) ==
    server' = [j \in ServerIds |-> IF j = i \/ j \in Under(server, i) THEN Absent
                                   ELSE server[j]]

\* create_entry takes any, create_fragment asks for the caller's entry.
Takes(row) == row.entry = Top \/ row.entry \in Entries(server)

OtherDevice ==
    /\ \/ \E e \in {Top} \cup Entries(server) : Added([entry |-> e, text |-> Now])
       \/ \E i \in Rows(server) :
             \/ /\ Tick
                /\ server' = [server EXCEPT ![i].text = Now, ![i].at = Now]
             \/ Tick /\ Removed(i)
    /\ UNCHANGED <<local, sync, undo, history, faults>>

-----------------------------------------------------------------------------
(* sync_to_server *)

Fault == faults < MaxFaults /\ faults' = faults + 1
Done(i) == todo' = todo \ {i}

\* Entries are loaded with their fragments.
StartPush ==
    LET pending == WithStatus("pending") \cap Entries(local)
    IN  /\ pc = "idle"
        /\ pc' = "entries"
        /\ todo' = pending
        /\ loaded' = [i \in {j \in Rows(local) : {j, local[j].entry} \cap pending # {}}
                        |-> local[i]]
        /\ UNCHANGED <<clock, local, server, cur, remote, queue, undo, history, faults>>

\* What a POST was answered for is synced, which is no change when the session
\* holds the row as synced.
\* Fault: the status of a pushed row is not written.
MarksNothing(i) == queue
Marks(i) ==
    IF loaded[i].status = "synced" THEN queue ELSE Queued(i, [status |-> "synced"])

\* raise_for_status: only success counts.
\* Fault: any answer counts.
AnyAnswer(i) == TRUE
Success(i) == Takes(loaded[i])

Copied(i) ==
    copies' = [copies EXCEPT ![i] = @ \cup {[id |-> Now, text |-> loaded[i].text]}]

Posting(i) == pc \in {"entries", "frags"} /\ i \in todo /\ Done(i)

PostAnswered(i) ==
    /\ Posting(i)
    /\ IF Takes(loaded[i])
         THEN Added(loaded[i]) /\ Copied(i)
         ELSE UNCHANGED <<clock, server, copies>>
    /\ queue' = IF Success(i) THEN Marks(i) ELSE queue
    /\ UNCHANGED <<local, pc, cur, loaded, remote, undo, edits, dirty, overlapped, faults>>

PostLost(i) ==
    /\ Posting(i)
    /\ Takes(loaded[i]) /\ Added(loaded[i])
    /\ Copied(i)
    /\ Fault
    /\ UNCHANGED <<local, pc, cur, loaded, remote, queue, undo, edits, dirty, overlapped>>

\* The request does not get there; at the bound on time, none does.
PostFails(i) ==
    /\ Posting(i)
    /\ IF Takes(loaded[i]) /\ clock = MaxTime THEN UNCHANGED faults ELSE Fault
    /\ UNCHANGED <<clock, local, server, pc, cur, loaded, remote, queue, undo, history>>

\* The second SELECT.  A fragment that came with its entry may still be the
\* session's own object, and is then sent as it was read the first time.
LoadFragments ==
    LET pending == WithStatus("pending") \ Entries(local)
    IN  /\ pc = "entries" /\ todo = {}
        /\ Flush
        /\ pc' = "frags"
        /\ todo' = pending
        /\ \E kept \in SUBSET (pending \cap DOMAIN loaded) :
              loaded' = [i \in pending |-> IF i \in kept THEN loaded[i] ELSE local[i]]
        /\ queue' = Nothing
        /\ UNCHANGED <<clock, server, cur, remote, history, faults>>

LoadDeleted ==
    /\ pc = "frags" /\ todo = {}
    /\ Flush
    /\ pc' = "deletes"
    /\ todo' = {i \in Rows(Flushed) : Flushed[i].status = "deleted"}
    /\ queue' = Nothing
    /\ UNCHANGED <<clock, server, cur, loaded, remote, history, faults>>

\* DELETE under the id of the copy; 404 leaves the row as it is.
SendDelete(i) ==
    /\ pc = "deletes" /\ i \in todo /\ Done(i)
    /\ \/ i \in Rows(server) /\ Removed(i) /\ queue' = Queued(i, Absent) /\ UNCHANGED faults
       \/ i \in Rows(server) /\ Removed(i) /\ Fault /\ UNCHANGED queue
       \/ i \notin Rows(server) /\ UNCHANGED <<server, queue, faults>>
       \/ Fault /\ UNCHANGED <<server, queue>>
    /\ UNCHANGED <<clock, local, pc, cur, loaded, remote, undo, history>>

FinishPush ==
    /\ pc = "deletes" /\ todo = {}
    /\ Finish(Flushed)
    /\ UNCHANGED <<clock, server, edits, copies, overlapped, faults>>

-----------------------------------------------------------------------------
(* sync_from_server *)

StartPull ==
    /\ pc = "idle"
    /\ pc' = "pull"
    /\ remote' = [e \in Entries(server) |-> server[e]]
    /\ todo' = Entries(server)
    /\ dirty' = Rows(local) \ WithStatus("synced")
    /\ UNCHANGED <<clock, local, server, cur, loaded, queue, undo, edits, copies, overlapped,
                   faults>>

\* A row the copy lacks comes with the server's times.
\* Fault: it takes the time of the pull.
InsertedNow(row) ==
    [entry |-> row.entry, text |-> row.text, at |-> clock, status |-> "synced"]
Inserted(row) ==
    [entry |-> row.entry, text |-> row.text, at |-> row.at, status |-> "synced"]

\* Fault: deleted rows are not spared.
NotPending(row, mine) == mine.status # "pending" /\ row.at > mine.at
Replaces(row, mine) == mine.status = "synced" /\ row.at > mine.at

Change(i, mine) ==
    IF mine = Absent THEN Only(i, Inserted(remote[i]))
    ELSE IF Replaces(remote[i], mine)
      THEN Only(i, [text |-> remote[i].text, at |-> remote[i].at])
      ELSE Nothing

PullEntry(e) ==
    /\ pc = "pull" /\ e \in todo /\ Done(e)
    /\ todo \subseteq Entries(remote)
    /\ Flush
    /\ queue' = Change(e, Flushed[e])
    /\ loaded' = [i \in Under(Flushed, e) |-> Flushed[i]]
    /\ cur' = e
    /\ pc' = "get"
    /\ UNCHANGED <<clock, server, remote, history, faults>>

\* GET of the entry: its fragments, or 404 or no answer, and the loop goes on.
GetFragments ==
    /\ pc = "get"
    /\ \/ /\ remote' = [i \in DOMAIN remote \cup Under(server, cur) |->
                           IF i \in Under(server, cur) THEN server[i] ELSE remote[i]]
          /\ todo' = todo \cup Under(server, cur)
          /\ UNCHANGED faults
       \/ Fault /\ UNCHANGED <<remote, todo>>
    /\ pc' = "pull"
    /\ UNCHANGED <<clock, local, server, cur, loaded, queue, undo, history>>

\* The session holds the fragments as it read them with their entry.
PullFragment(f) ==
    /\ pc = "pull" /\ f \in todo /\ Done(f)
    /\ remote[f].entry # Top
    /\ Flush
    /\ queue' = Change(f, IF f \in DOMAIN loaded THEN loaded[f] ELSE Flushed[f])
    /\ UNCHANGED <<clock, server, pc, cur, loaded, remote, history, faults>>

FinishPull ==
    /\ pc = "pull" /\ todo = {}
    /\ Finish(Flushed)
    /\ UNCHANGED <<clock, server, edits, copies, overlapped, faults>>

\* The client dies during a sync: its session rolls back.
Crash ==
    /\ pc # "idle" /\ Fault
    /\ Finish(IF undo = NoUndo THEN local ELSE undo)
    /\ UNCHANGED <<clock, server, edits, copies, overlapped>>

-----------------------------------------------------------------------------
Init ==
    /\ clock = 0
    /\ local = [i \in Ids |-> Absent] /\ server = [i \in ServerIds |-> Absent]
    /\ pc = "idle" /\ todo = {} /\ cur = Top
    /\ loaded = Nothing /\ remote = Nothing /\ queue = Nothing
    /\ undo = NoUndo
    /\ edits = [i \in Ids |-> 0] /\ copies = [i \in Ids |-> {}]
    /\ dirty = {} /\ overlapped = {}
    /\ faults = 0

Push ==
    \/ \E i \in Ids : PostAnswered(i) \/ PostLost(i) \/ PostFails(i) \/ SendDelete(i)
    \/ LoadFragments \/ LoadDeleted \/ FinishPush

Pull ==
    \/ \E i \in ServerIds : PullEntry(i) \/ PullFragment(i)
    \/ GetFragments \/ FinishPull

Next == User \/ OtherDevice \/ StartPush \/ Push \/ StartPull \/ Pull \/ Crash

\* A sync that has begun goes on, and a client that runs pulls again and again.
Fairness == WF_vars(Push) /\ WF_vars(Pull) /\ SF_vars(StartPull)

Spec == Init /\ [][Next]_vars /\ Fairness

-----------------------------------------------------------------------------
(* Properties *)

Row == [entry : Ids \cup {Top}, text : 1 .. MaxTime, at : 1 .. MaxTime]
CopyRow ==
    [entry : Ids \cup {Top}, text : 1 .. MaxTime, at : 1 .. MaxTime,
     status : {"synced", "pending", "deleted"}]

\* What an UPDATE of the sync can change.
Columns == [status : {"synced"}] \cup [text : 1 .. MaxTime, at : 1 .. MaxTime]

\* The sentinels are no data.
ASSUME SentinelAssumption ==
    /\ Absent \notin Row \cup CopyRow \cup Columns
    /\ NoUndo \notin [Ids -> CopyRow \cup {Absent}]

\* Every variable keeps its shape, what the sync queues has a row to change, and
\* an idle client holds no lock on its copy.
TypeOK ==
    /\ clock \in 0 .. MaxTime
    /\ local \in [Ids -> CopyRow \cup {Absent}]
    /\ server \in [ServerIds -> Row \cup {Absent}]
    /\ pc \in {"idle", "entries", "frags", "deletes", "pull", "get"}
    /\ todo \subseteq Ids
    /\ DOMAIN loaded \subseteq Ids /\ loaded \in [DOMAIN loaded -> CopyRow]
    /\ DOMAIN remote \subseteq ServerIds /\ remote \in [DOMAIN remote -> Row]
    /\ DOMAIN queue \subseteq Ids
    /\ undo \in [Ids -> CopyRow \cup {Absent}] \cup {NoUndo}
    /\ edits \in [Ids -> Nat]
    /\ copies \in [Ids -> SUBSET [id : ServerIds, text : 1 .. MaxTime]]
    /\ faults \in 0 .. MaxFaults
    /\ pc = "idle" => undo = NoUndo /\ queue = Nothing /\ loaded = Nothing /\ todo = {}

\* What the user made and the copy calls synced, the server has taken at least
\* once, through lost answers, refusals, crashes and rollbacks in the middle of a
\* push (sync_to_server sets sync_status after raise_for_status).
SyncedWasTaken == \A i \in LocalIds \cap WithStatus("synced") : copies[i] # {}

\* An edit can be lost only by overlapping with a push: where the user's last write
\* of a row came at another time, "synced" means that the server took this text,
\* also when the row was loaded long before its request was sent.
OnlyOverlapLosesEdits ==
    \A i \in (LocalIds \cap WithStatus("synced")) \ overlapped :
        \E c \in copies[i] : c.text = local[i].text

\* The server never has more rows made from an entry than the user wrote it and
\* faults happened: a push that runs to its end does not send again what it sent.
DuplicatesExplained ==
    \A e \in Entries(local) : Cardinality(copies[e]) <= edits[e] + faults

\* A row that was unsynced, edited or deleted, when a pull began is not touched by
\* it, even if the server's is later: only rows that are synced give way
\* (local_store.py:312 and 341).  Lines 6 and 277 of that file speak of
\* last-write-wins, which holds for synced rows only.
PullKeepsUnsynced ==
    [][clock' = clock /\ pc \in {"pull", "get"} =>
         (\A i \in dirty : local'[i] = local[i])]_vars

\* A row that its user left alone is a past version of the server's: it never claims
\* a later time, and has the same text at the same time, so that the strict
\* comparison of a pull (local_store.py:312 and 341) misses nothing; although
\* answers grow old while they are worked through and crashes roll the copy back.
\* (Rests on updated_at growing with each write of a row: see the head.)
UntouchedIsPast ==
    \A i \in Rows(local) \cap Rows(server) :
        edits[i] = 0 => /\ local[i].at <= server[i].at
                        /\ local[i].at = server[i].at => local[i].text = server[i].text

\* When editing and faults are over, the copy shows every row of the server that
\* its user left alone as the server has it, although answers of a pull grow old
\* while it works through them.
CopyCatchesUp ==
    <>[](\A i \in Rows(server) :
            edits[i] = 0 => i \in Rows(local) /\ local[i].text = server[i].text)

\* "Tracks unsynced changes via a sync_status column" (local_store.py:4): in the
\* committed copy, a row that the user made is synced only with a text that the
\* server has taken.
SyncedWasSent ==
    undo = NoUndo =>
      \A i \in LocalIds \cap WithStatus("synced") :
          \E c \in copies[i] : c.text = local[i].text
=============================================================================
