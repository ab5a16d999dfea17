--------------------------- MODULE LocalSyncProofs ---------------------------
(***************************************************************************)
(* Theorems about the offline copy: its type invariant, what "synced"      *)
(* promises the user, how often a row is sent, and what a pull leaves      *)
(* alone.                                                                  *)
(***************************************************************************)
EXTENDS LocalSync, FiniteSetTheorems, TLAPS

(* What every phase of a sync has established *)

\* Before the first edit there are no rows; ids of the server are times that passed.
Begun ==
    /\ clock = 0 => (\A i \in Ids : local[i] = Absent) /\ undo = NoUndo
    /\ \A i \in Rows(server) : i <= clock
    /\ \A i \in DOMAIN remote : i <= clock

\* A push has still to send rows that it loaded and has not marked.
PushShape ==
    pc \in {"entries", "frags"} =>
      /\ todo \subseteq DOMAIN loaded \cap Rows(local)
      /\ todo \cap DOMAIN queue = {}
      /\ \A i \in DOMAIN queue : i \in Rows(local) /\ queue[i] = [status |-> "synced"]

\* What it takes out of the copy is gone from the server for good.
DeleteShape ==
    pc = "deletes" =>
      /\ todo \subseteq Rows(local)
      /\ \A i \in DOMAIN queue : /\ i \in Rows(local) /\ queue[i] = Absent
                               /\ i \in 1 .. clock /\ server[i] = Absent

\* A pull adds a complete row or changes the text and the time of one.
Pulled(i) ==
    IF local[i] = Absent
      THEN queue[i] \in CopyRow /\ queue[i].status = "synced"
      ELSE queue[i] \in [text : 1 .. MaxTime, at : 1 .. MaxTime]

PullShape ==
    IF pc \in {"pull", "get"}
      THEN /\ todo \subseteq DOMAIN remote
           /\ DOMAIN loaded \subseteq Rows(local)
           /\ \A i \in DOMAIN queue : i \in DOMAIN remote /\ Pulled(i)
      ELSE remote = Nothing

Shape == TypeOK /\ Begun /\ PushShape /\ DeleteShape /\ PullShape

-----------------------------------------------------------------------------
(* What the server took *)

SentText(i, row) == \E c \in copies[i] : c.text = row.text

TakenIn(db) ==
    \A i \in LocalIds :
       db[i] # Absent /\ db[i].status = "synced" =>
         copies[i] # {} /\ (i \notin overlapped => SentText(i, db[i]))

\* What is marked was taken, and what the push loaded is what the user wrote.
TakenInv ==
    /\ TakenIn(local)
    /\ undo # NoUndo => TakenIn(undo)
    /\ pc \in {"entries", "frags"} =>
         /\ \A i \in DOMAIN queue :
               copies[i] # {} /\ (i \notin overlapped => SentText(i, local[i]))
         /\ \A i \in DOMAIN loaded \ overlapped :
               i \in Rows(local) /\ loaded[i].text = local[i].text

-----------------------------------------------------------------------------
(* What a pull leaves alone *)

KeptInv ==
    pc \in {"pull", "get"} =>
      \A i \in dirty :
         /\ i \in Rows(local) /\ local[i].status # "synced"
         /\ i \notin DOMAIN queue
         /\ i \in DOMAIN loaded => loaded[i].status # "synced"
         /\ undo # NoUndo => undo[i] = local[i]

-----------------------------------------------------------------------------
(* How often a row was sent *)

Explained(i) == Cardinality(copies[i]) <= edits[i] + faults
MaySend(i) == Cardinality(copies[i]) + 1 <= edits[i] + faults

\* A fragment stays one; a row that left the copy left the server before.
Gone(i) ==
    /\ i \in 1 .. clock /\ i \in ServerIds /\ server[i] = Absent /\ i \notin DOMAIN remote
    /\ local[i] = Absent
    /\ undo # NoUndo => undo[i] = Absent
IsFragment(i) ==
    /\ local[i] # Absent /\ local[i].entry # Top
    /\ undo # NoUndo => undo[i] # Absent /\ undo[i].entry # Top

Marked(i) == pc \in {"entries", "frags"} /\ i \in DOMAIN queue

Accounted == \A i \in Ids : Explained(i) \/ IsFragment(i) \/ Gone(i)

\* What the next push would send may be sent: it was edited, or a fault undid a mark.
Sendable ==
    \A i \in Entries(local) : local[i].status = "pending" /\ ~Marked(i) => MaySend(i)

\* Entries are sent first, each as the pending row it still is; then fragments.
TodoKinds ==
    /\ pc = "entries" =>
         \A i \in todo : /\ local[i].entry = Top /\ local[i].status = "pending"
                         /\ loaded[i].entry = Top /\ loaded[i].status = "pending"
    /\ pc = "frags" => \A i \in todo : local[i].entry # Top

\* What a push would roll back to has the same rows.
UndoKinds ==
    pc \in {"entries", "frags"} /\ undo # NoUndo =>
      \A i \in Rows(local) : undo[i] # Absent /\ undo[i].entry = local[i].entry

CountInv ==
    /\ \A i \in Ids : IsFiniteSet(copies[i])
    /\ Accounted /\ Sendable /\ TodoKinds /\ UndoKinds

-----------------------------------------------------------------------------
(* How old the copy is *)

PastOf(i, row) ==
    server[i] # Absent =>
      /\ row.at <= server[i].at
      /\ row.at = server[i].at => row.text = server[i].text

PastCopy(db) ==
    \A i \in Ids :
       db[i] # Absent =>
         /\ db[i].at <= clock
         /\ db[i].status # "synced" => edits[i] # 0
         /\ i \in ServerIds /\ edits[i] = 0 => PastOf(i, db[i])

\* What a pull was answered and what it queued are past versions too, and a push
\* touches only what the user wrote.
PastInv ==
    /\ PastCopy(local)
    /\ undo # NoUndo => PastCopy(undo)
    /\ \A i \in ServerIds : server[i] # Absent => server[i].at <= clock
    /\ \A i \in DOMAIN remote : remote[i].at <= clock /\ PastOf(i, remote[i])
    /\ pc \in {"entries", "frags"} => \A i \in DOMAIN queue \cup todo : edits[i] # 0
    /\ pc \in {"pull", "get"} =>
         \A i \in DOMAIN queue : queue[i].at <= clock /\ PastOf(i, queue[i])

-----------------------------------------------------------------------------
(* Lemmas about a flush *)

\* A flush of a mark sets the status and the time, and nothing else.
LEMMA MarkRow ==
    ASSUME NEW row \in CopyRow, clock \in 1 .. MaxTime
    PROVE  LET new == Changed(row, [status |-> "synced"])
           IN  /\ new \in CopyRow
               /\ new.entry = row.entry /\ new.text = row.text
               /\ new.status = "synced" /\ new.at = clock
  BY DEF Changed, CopyRow

\* A flush of a pulled change keeps the entry and the status.
LEMMA PullRow ==
    ASSUME NEW row \in CopyRow, NEW change \in [text : 1 .. MaxTime, at : 1 .. MaxTime]
    PROVE  LET new == Changed(row, change)
           IN  /\ new \in CopyRow
               /\ new.entry = row.entry /\ new.status = row.status
               /\ new.text = change.text /\ new.at = change.at
  BY DEF Changed, CopyRow

LEMMA RowsThere ==
    ASSUME TypeOK, Begun, NEW i \in Rows(local)
    PROVE  clock \in 1 .. MaxTime /\ i \in Ids /\ local[i] \in CopyRow
  BY BoundAssumption DEF TypeOK, Begun, Rows

\* What a flush does to each row, in every phase that flushes.
LEMMA FlushRow ==
    ASSUME Shape, NEW i \in Ids
    PROVE  /\ Flushed[i] \in CopyRow \cup {Absent}
           /\ i \notin DOMAIN queue => Flushed[i] = local[i]
           /\ pc \in {"entries", "frags"} /\ i \in DOMAIN queue =>
                /\ local[i] \in CopyRow /\ Flushed[i] \in CopyRow
                /\ Flushed[i].entry = local[i].entry
                /\ Flushed[i].text = local[i].text /\ Flushed[i].status = "synced"
                /\ Flushed[i].at = clock
           /\ pc = "deletes" /\ i \in DOMAIN queue => Flushed[i] = Absent
           /\ pc \in {"pull", "get"} /\ i \in DOMAIN queue =>
                /\ Flushed[i] \in CopyRow
                /\ local[i] = Absent => Flushed[i] = queue[i] /\ queue[i].status = "synced"
                /\ local[i] # Absent =>
                     /\ local[i] \in CopyRow
                     /\ Flushed[i].entry = local[i].entry
                     /\ Flushed[i].status = local[i].status
                     /\ Flushed[i].text = queue[i].text /\ Flushed[i].at = queue[i].at
  <1>1. local[i] \in CopyRow \cup {Absent}
    BY DEF Shape, TypeOK
  <1>2. CASE i \notin DOMAIN queue
    BY <1>1, <1>2 DEF Flushed
  <1>3. CASE pc \in {"entries", "frags"} /\ i \in DOMAIN queue
    <2>1. local[i] # Absent /\ queue[i] = [status |-> "synced"] /\ clock \in 1 .. MaxTime
      BY <1>3, RowsThere DEF Shape, PushShape, Rows
    <2>2. queue[i] # Absent => Flushed[i] = Changed(local[i], [status |-> "synced"])
      BY <1>3, <2>1 DEF Flushed
    <2>3. queue[i] # Absent
      BY <2>1, SentinelAssumption DEF Columns
    <2> QED
      BY <1>1, <1>3, <2>1, <2>2, <2>3, MarkRow
  <1>4. CASE pc = "deletes" /\ i \in DOMAIN queue
    BY <1>4 DEF Flushed, Shape, DeleteShape
  <1>5. CASE pc \in {"pull", "get"} /\ i \in DOMAIN queue
    <2>1. CASE local[i] = Absent
      BY <1>5, <2>1 DEF Flushed, Shape, PullShape, Pulled
    <2>2. CASE local[i] # Absent
      <3>1. queue[i] \in [text : 1 .. MaxTime, at : 1 .. MaxTime]
        BY <1>5, <2>2 DEF Shape, PullShape, Pulled
      <3>2. queue[i] # Absent => Flushed[i] = Changed(local[i], queue[i])
        BY <1>5, <2>2 DEF Flushed
      <3>3. queue[i] # Absent
        BY <3>1, SentinelAssumption DEF Columns
      <3> QED
        BY <1>1, <1>5, <2>2, <3>1, <3>2, <3>3, PullRow
    <2> QED
      BY <2>1, <2>2
  <1>6. CASE pc = "idle"
    BY <1>2, <1>6 DEF Shape, TypeOK, Nothing
  <1> QED
    BY <1>2, <1>3, <1>4, <1>5, <1>6 DEF Shape, TypeOK

LEMMA FlushedType ==
    ASSUME Shape
    PROVE  Flushed \in [Ids -> CopyRow \cup {Absent}]
  <1>1. Flushed = [i \in Ids |-> Flushed[i]]
    BY DEF Flushed
  <1> QED
    BY <1>1, FlushRow

LEMMA FlushType ==
    ASSUME Shape, Flush
    PROVE  /\ local' \in [Ids -> CopyRow \cup {Absent}]
           /\ undo' \in [Ids -> CopyRow \cup {Absent}] \cup {NoUndo}
  BY FlushedType DEF Flush, Shape, TypeOK

\* Before the first edit there is nothing to flush.
LEMMA FlushedBegun ==
    ASSUME Shape, clock = 0
    PROVE  DOMAIN queue = {} /\ \A i \in Ids : Flushed[i] = Absent
  <1>1. DOMAIN queue = {}
    <2>1. \A i \in Ids : i \notin Rows(local)
      BY DEF Shape, Begun, TypeOK, Rows
    <2>2. DOMAIN remote = {}
      <3>1. ASSUME NEW i \in DOMAIN remote PROVE FALSE
        BY BoundAssumption DEF Shape, Begun, TypeOK, ServerIds
      <3> QED
        BY <3>1
    <2>3. ASSUME NEW i \in DOMAIN queue PROVE FALSE
      BY <2>1, <2>2 DEF Shape, TypeOK, PushShape, DeleteShape, PullShape, Nothing, Rows
    <2> QED
      BY <2>3
  <1> QED
    BY <1>1, FlushRow DEF Shape, Begun

LEMMA FlushBegun ==
    ASSUME Shape, Flush, clock = 0
    PROVE  (\A i \in Ids : local'[i] = Absent) /\ undo' = NoUndo
  BY FlushedBegun DEF Flush, Shape, Begun

-----------------------------------------------------------------------------
(* The shape of the state *)

LEMMA InitShape == Init => Shape
  BY BoundAssumption
  DEF Init, Shape, TypeOK, Begun, PushShape, DeleteShape, PullShape, Nothing, Rows, CopyRow

LEMMA WritesShape ==
    ASSUME Shape, NEW i \in Ids, NEW row \in CopyRow, Writes(i, row),
           local[i] = Absent => i \in LocalIds
    PROVE  Shape'
  <1> USE DEF Writes, Tick, sync
  <1>1. row # Absent
    BY SentinelAssumption
  <1>2. TypeOK'
    BY BoundAssumption DEF Shape, TypeOK
  <1>3. Rows(local) \subseteq Rows(local)'
    BY <1>1 DEF Shape, TypeOK, Rows
  <1>4. Begun'
    BY DEF Shape, TypeOK, Begun, Rows, ServerIds
  <1>5. PushShape'
    BY <1>3 DEF Shape, PushShape
  <1>6. DeleteShape'
    <2>1. clock \in Nat /\ clock' = clock + 1
      BY BoundAssumption DEF Shape, TypeOK
    <2>2. \A j : j \in 1 .. clock => j \in 1 .. clock'
      BY <2>1
    <2>3. UNCHANGED <<pc, queue, server>>
      OBVIOUS
    <2> QED
      BY <1>3, <2>2, <2>3 DEF Shape, DeleteShape
  <1>7. ASSUME pc \in {"pull", "get"}, NEW j \in DOMAIN queue PROVE Pulled(j)'
    <2>1. j \in ServerIds /\ Pulled(j)
      BY <1>7 DEF Shape, TypeOK, PullShape
    <2>2. CASE j = i
      <3>1. local[i] # Absent /\ local'[j] # Absent
        BY <1>1, <2>1, <2>2, IdAssumption DEF Shape, TypeOK
      <3> QED
        BY <2>1, <2>2, <3>1 DEF Pulled
    <2>3. CASE j # i
      BY <2>1, <2>3 DEF Shape, TypeOK, Pulled, Ids
    <2> QED
      BY <2>2, <2>3
  <1>8. PullShape'
    BY <1>3, <1>7 DEF Shape, PullShape
  <1> QED
    BY <1>2, <1>4, <1>5, <1>6, <1>8 DEF Shape

\* What the user writes is a row of the copy, and only a new one may be absent.
LEMMA UserWrites ==
    ASSUME Shape, User
    PROVE  \E i \in Ids, row \in CopyRow :
             /\ Writes(i, row)
             /\ row.status # "synced" /\ row.at = Now
             /\ local[i] = Absent => i \in LocalIds
             /\ local[i] # Absent => row.entry = local[i].entry
             /\ row.status = "deleted" => local[i] # Absent /\ row.entry # Top
  <1>1. clock < MaxTime /\ Now \in 1 .. MaxTime
    <2>1. Tick
      BY DEF User, Create, Update, DeleteFragment, Writes
    <2> QED
      BY <2>1, BoundAssumption DEF Tick, Now, Shape, TypeOK
  <1>2. CASE \E i \in LocalIds : Create(i)
    <2>1. PICK i \in LocalIds : Create(i)
      BY <1>2
    <2>2. PICK e \in {Top} \cup Entries(local) :
             Writes(i, [entry |-> e, text |-> Now, at |-> Now, status |-> "pending"])
      BY <2>1 DEF Create
    <2>3. e \in Ids \cup {Top}
      BY DEF Shape, TypeOK, Entries, Rows
    <2>4. [entry |-> e, text |-> Now, at |-> Now, status |-> "pending"] \in CopyRow
      BY <1>1, <2>3 DEF CopyRow
    <2> QED
      BY <2>1, <2>2, <2>4 DEF Create, Ids
  <1>3. CASE \E i \in Ids : Update(i)
    <2>1. PICK i \in Ids : Update(i)
      BY <1>3
    <2>2. local[i] # Absent /\ local[i] \in CopyRow
      BY <2>1 DEF Update, Rows, Shape, TypeOK
    <2>3. [local[i] EXCEPT !.text = Now, !.at = Now, !.status = "pending"] \in CopyRow
      BY <1>1, <2>2 DEF CopyRow
    <2> QED
      BY <2>1, <2>2, <2>3 DEF Update, CopyRow
  <1>4. CASE \E i \in Ids : DeleteFragment(i)
    <2>1. PICK i \in Ids : DeleteFragment(i)
      BY <1>4
    <2>2. local[i] # Absent /\ local[i] \in CopyRow /\ local[i].entry # Top
      BY <2>1 DEF DeleteFragment, Rows, Entries, Shape, TypeOK
    <2>3. [local[i] EXCEPT !.at = Now, !.status = "deleted"] \in CopyRow
      BY <1>1, <2>2 DEF CopyRow
    <2> QED
      BY <2>1, <2>2, <2>3 DEF DeleteFragment, CopyRow
  <1> QED
    BY <1>2, <1>3, <1>4 DEF User

\* What any step does to the server: time may pass, ids are not used twice.
ServerMoves ==
    /\ clock' \in {clock, clock + 1} /\ clock' \in 0 .. MaxTime
    /\ server' \in [ServerIds -> Row \cup {Absent}]
    /\ \A i \in Rows(server)' : i <= clock'
    /\ \A i \in ServerIds : i <= clock /\ server[i] = Absent => server'[i] = Absent

LEMMA StillMoves ==
    ASSUME Shape, UNCHANGED <<clock, server>>
    PROVE  ServerMoves
  BY DEF ServerMoves, Shape, TypeOK, Begun, Rows

LEMMA AddedMoves ==
    ASSUME Shape, NEW row, Added(row),
           row.entry \in Ids \cup {Top}, row.text \in 1 .. MaxTime
    PROVE  ServerMoves /\ Now \in ServerIds
  <1>1. clock \in Nat /\ clock' = clock + 1 /\ Now = clock' /\ clock' \in 1 .. MaxTime
    BY BoundAssumption DEF Added, Tick, Now, Shape, TypeOK
  <1>2. [entry |-> row.entry, text |-> row.text, at |-> Now] \in Row
    BY <1>1 DEF Row
  <1>3. server' = [server EXCEPT ![Now] = [entry |-> row.entry, text |-> row.text, at |-> Now]]
    BY DEF Added
  <1>4. server' \in [ServerIds -> Row \cup {Absent}]
    BY <1>2, <1>3 DEF Shape, TypeOK
  <1>5. ASSUME NEW i \in ServerIds, i # Now PROVE server'[i] = server[i]
    BY <1>3, <1>5 DEF Shape, TypeOK
  <1>6. ASSUME NEW i \in Rows(server)' PROVE i <= clock'
    <2>1. i \in ServerIds /\ server'[i] # Absent
      BY <1>4, <1>6 DEF Rows
    <2>2. CASE i = Now
      BY <1>1, <2>2
    <2>3. CASE i # Now
      <3>1. i \in Rows(server)
        BY <1>5, <2>1, <2>3 DEF Rows, Shape, TypeOK
      <3> QED
        BY <1>1, <2>1, <3>1 DEF Shape, Begun, ServerIds
    <2> QED
      BY <2>2, <2>3
  <1>7. ASSUME NEW i \in ServerIds, i <= clock, server[i] = Absent PROVE server'[i] = Absent
    <2>1. i # Now
      BY <1>1, <1>7 DEF ServerIds
    <2> QED
      BY <1>5, <1>7, <2>1
  <1> QED
    BY <1>1, <1>4, <1>6, <1>7 DEF ServerMoves, ServerIds

LEMMA RemovedMoves ==
    ASSUME Shape, NEW k, Removed(k), clock' = clock \/ Tick
    PROVE  ServerMoves
  <1>1. clock \in Nat /\ clock' \in {clock, clock + 1} /\ clock' \in 0 .. MaxTime
    BY BoundAssumption DEF Tick, Shape, TypeOK
  <1>2. \A i \in ServerIds : server'[i] \in {Absent, server[i]}
    BY DEF Removed
  <1>3. server' \in [ServerIds -> Row \cup {Absent}]
    BY DEF Removed, Shape, TypeOK
  <1>4. ASSUME NEW i \in Rows(server)' PROVE i <= clock'
    <2>1. i \in ServerIds /\ i \in Rows(server)
      BY <1>2, <1>3, <1>4 DEF Rows, Shape, TypeOK
    <2> QED
      BY <1>1, <2>1 DEF Shape, Begun, ServerIds
  <1> QED
    BY <1>1, <1>2, <1>3, <1>4 DEF ServerMoves

LEMMA OtherDeviceMoves ==
    ASSUME Shape, OtherDevice
    PROVE  ServerMoves
  <1>1. CASE \E e \in {Top} \cup Entries(server) : Added([entry |-> e, text |-> Now])
    <2>1. PICK e \in {Top} \cup Entries(server) : Added([entry |-> e, text |-> Now])
      BY <1>1
    <2>2. e \in Ids \cup {Top} /\ Now \in 1 .. MaxTime
      BY <2>1, BoundAssumption DEF Added, Tick, Now, Entries, Rows, Shape, TypeOK, Ids
    <2> QED
      BY <2>1, <2>2, AddedMoves
  <1>2. CASE \E i \in Rows(server) :
               Tick /\ server' = [server EXCEPT ![i].text = Now, ![i].at = Now]
    <2>1. PICK k \in Rows(server) :
             Tick /\ server' = [server EXCEPT ![k].text = Now, ![k].at = Now]
      BY <1>2
    <2>2. clock \in Nat /\ clock' = clock + 1 /\ Now = clock' /\ clock' \in 1 .. MaxTime
      BY <2>1, BoundAssumption DEF Tick, Now, Shape, TypeOK
    <2>3. k \in ServerIds /\ server[k] \in Row
      BY DEF Rows, Shape, TypeOK
    <2>4. /\ server'[k] = [server[k] EXCEPT !.text = Now, !.at = Now]
          /\ server' = [server EXCEPT ![k] = server'[k]]
      BY <2>1, <2>3 DEF Shape, TypeOK
    <2>5. server'[k] \in Row
      BY <2>2, <2>3, <2>4 DEF Row
    <2>6. server' \in [ServerIds -> Row \cup {Absent}]
      BY <2>4, <2>5 DEF Shape, TypeOK
    <2>7. Rows(server)' = Rows(server)
      BY <2>1, <2>4, <2>5, <2>6, SentinelAssumption DEF Rows, Shape, TypeOK
    <2>8. \A i \in Rows(server)' : i <= clock'
      BY <2>2, <2>7 DEF Shape, TypeOK, Begun, Rows, ServerIds
    <2>9. \A i \in ServerIds : server[i] = Absent => server'[i] = Absent
      BY <2>1, <2>4 DEF Rows, Shape, TypeOK
    <2> QED
      BY <2>2, <2>6, <2>8, <2>9 DEF ServerMoves
  <1>3. CASE \E i \in Rows(server) : Tick /\ Removed(i)
    BY <1>3, RemovedMoves
  <1> QED
    BY <1>1, <1>2, <1>3 DEF OtherDevice

\* A step that leaves the copy and its session alone.
LEMMA MovesShape ==
    ASSUME Shape, ServerMoves, UNCHANGED <<local, sync, undo, edits>>,
           copies' \in [Ids -> SUBSET [id : ServerIds, text : 1 .. MaxTime]],
           faults' \in 0 .. MaxFaults
    PROVE  Shape'
  <1> USE DEF sync, ServerMoves
  <1>1. clock \in Nat /\ clock' \in Nat /\ clock' >= clock
    BY BoundAssumption DEF Shape, TypeOK
  <1>2. TypeOK'
    BY DEF Shape, TypeOK
  <1>3. Begun'
    BY <1>1 DEF Shape, TypeOK, Begun, ServerIds
  <1>4. PushShape' /\ PullShape'
    BY DEF Shape, PushShape, PullShape, Pulled, Rows
  <1>5. DeleteShape'
    <2>1. ASSUME pc = "deletes", NEW i \in DOMAIN queue
          PROVE  i \in 1 .. clock' /\ server'[i] = Absent
      <3>1. i \in 1 .. clock /\ server[i] = Absent
        BY <2>1 DEF Shape, DeleteShape
      <3>2. i \in ServerIds /\ i <= clock
        BY <3>1, BoundAssumption DEF Shape, TypeOK, ServerIds
      <3> QED
        BY <1>1, <3>1, <3>2
    <2> QED
      BY <2>1 DEF Shape, DeleteShape, Rows
  <1> QED
    BY <1>2, <1>3, <1>4, <1>5 DEF Shape

LEMMA FaultType ==
    ASSUME Shape, Fault
    PROVE  faults \in Nat /\ faults' = faults + 1 /\ faults' \in 0 .. MaxFaults
  BY BoundAssumption DEF Fault, Shape, TypeOK

LEMMA FinishShape ==
    ASSUME Shape, NEW rows \in [Ids -> CopyRow \cup {Absent}], Finish(rows),
           clock = 0 => \A i \in Ids : rows[i] = Absent,
           UNCHANGED <<clock, server, edits, copies>>, faults' \in 0 .. MaxFaults
    PROVE  Shape'
  <1> USE DEF Finish, Close
  <1>1. TypeOK'
    BY DEF Shape, TypeOK, Nothing
  <1>2. Begun'
    BY DEF Shape, Begun, Nothing, Rows
  <1>3. PushShape' /\ DeleteShape' /\ PullShape'
    BY DEF PushShape, DeleteShape, PullShape
  <1> QED
    BY <1>1, <1>2, <1>3 DEF Shape

LEMMA StartPushShape == ASSUME Shape, StartPush PROVE Shape'
  <1>1. DOMAIN queue = {} /\ pc' = "entries" /\ remote = Nothing
    BY DEF StartPush, Shape, TypeOK, PullShape, Nothing
  <1>2. /\ todo' \subseteq Rows(local) /\ todo' \subseteq DOMAIN loaded'
        /\ DOMAIN loaded' \subseteq Rows(local)
        /\ \A i \in DOMAIN loaded' : loaded'[i] = local[i]
        /\ loaded' = [i \in DOMAIN loaded' |-> loaded'[i]]
    BY DEF StartPush, WithStatus, Entries
  <1>3. \A i \in Rows(local) : i \in Ids /\ local[i] \in CopyRow
    BY DEF Rows, Shape, TypeOK
  <1>4. TypeOK'
    BY <1>2, <1>3 DEF StartPush, Shape, TypeOK, history
  <1> QED
    BY <1>1, <1>2, <1>4
    DEF StartPush, Shape, Begun, PushShape, DeleteShape, PullShape, Rows, history

\* What the server makes of a row is recorded under the id of the copy.
LEMMA CopiedType ==
    ASSUME Shape, NEW i \in DOMAIN loaded, i \in Ids, Copied(i), Now \in ServerIds
    PROVE  copies' \in [Ids -> SUBSET [id : ServerIds, text : 1 .. MaxTime]]
  <1>1. loaded[i].text \in 1 .. MaxTime
    BY DEF Shape, TypeOK, CopyRow
  <1> QED
    BY <1>1 DEF Copied, Shape, TypeOK

LEMMA PostingFacts ==
    ASSUME Shape, NEW i, Posting(i)
    PROVE  /\ pc \in {"entries", "frags"} /\ i \in todo /\ todo' = todo \ {i}
           /\ i \in Ids /\ i \in DOMAIN loaded /\ i \in Rows(local) /\ i \notin DOMAIN queue
           /\ loaded[i] \in CopyRow
           /\ loaded[i].entry \in Ids \cup {Top} /\ loaded[i].text \in 1 .. MaxTime
  BY DEF Posting, Done, Shape, TypeOK, PushShape, CopyRow

\* The requests of a push, which differ in what reaches the server and what comes back.
LEMMA PostShape ==
    ASSUME Shape, NEW i, Posting(i), ServerMoves,
           UNCHANGED <<local, pc, cur, loaded, remote, undo, edits>>,
           copies' \in [Ids -> SUBSET [id : ServerIds, text : 1 .. MaxTime]],
           faults' \in 0 .. MaxFaults,
           queue' \in {queue, Queued(i, [status |-> "synced"])}
    PROVE  Shape'
  <1>1. clock \in Nat /\ clock' \in Nat /\ clock' >= clock
    BY BoundAssumption DEF ServerMoves, Shape, TypeOK
  <1>2. /\ DOMAIN queue' \subseteq DOMAIN queue \cup {i}
        /\ \A j \in DOMAIN queue' \ {i} : queue'[j] = queue[j]
        /\ i \in DOMAIN queue' => queue'[i] = [status |-> "synced"]
    BY PostingFacts DEF Queued
  <1>3. TypeOK'
    BY <1>2, PostingFacts DEF ServerMoves, Shape, TypeOK
  <1>4. Begun'
    BY <1>1 DEF ServerMoves, Shape, TypeOK, Begun, ServerIds
  <1>5. PushShape'
    BY <1>2, PostingFacts DEF Shape, PushShape, Rows
  <1>6. DeleteShape' /\ PullShape'
    BY PostingFacts DEF Shape, DeleteShape, PullShape
  <1> QED
    BY <1>3, <1>4, <1>5, <1>6 DEF Shape

LEMMA PostAnsweredShape == ASSUME Shape, NEW i, PostAnswered(i) PROVE Shape'
  <1>1. Posting(i)
    BY DEF PostAnswered
  <1>2. queue' \in {queue, Queued(i, [status |-> "synced"])}
    BY DEF PostAnswered, Marks
  <1>3. CASE Takes(loaded[i])
    BY <1>1, <1>2, <1>3, AddedMoves, CopiedType, PostingFacts, PostShape
    DEF PostAnswered, Shape, TypeOK
  <1>4. CASE ~Takes(loaded[i])
    BY <1>1, <1>2, <1>4, StillMoves, PostShape DEF PostAnswered, Shape, TypeOK
  <1> QED
    BY <1>3, <1>4

LEMMA PostLostShape == ASSUME Shape, NEW i, PostLost(i) PROVE Shape'
  BY AddedMoves, CopiedType, PostingFacts, PostShape, FaultType DEF PostLost, Shape, TypeOK

LEMMA PostFailsShape == ASSUME Shape, NEW i, PostFails(i) PROVE Shape'
  <1>1. Posting(i) /\ faults' \in 0 .. MaxFaults
    BY FaultType DEF PostFails, Shape, TypeOK
  <1> QED
    BY <1>1, StillMoves, PostShape DEF PostFails, history, Shape, TypeOK

\* A flush in a push takes no row away before the end.
LEMMA FlushKeepsRows ==
    ASSUME Shape, pc # "deletes"
    PROVE  \A i \in Ids : local[i] # Absent => Flushed[i] # Absent
  <1>1. ASSUME NEW i \in Ids, local[i] # Absent PROVE Flushed[i] # Absent
    <2>1. CASE i \in DOMAIN queue
      BY <2>1, FlushRow, SentinelAssumption DEF Shape, TypeOK, Nothing
    <2>2. CASE i \notin DOMAIN queue
      BY <1>1, <2>2, FlushRow
    <2> QED
      BY <2>1, <2>2
  <1> QED
    BY <1>1

LEMMA LoadFragmentsShape == ASSUME Shape, LoadFragments PROVE Shape'
  <1>1. /\ pc = "entries" /\ pc' = "frags" /\ queue' = Nothing /\ DOMAIN queue' = {}
        /\ Flush /\ remote = Nothing /\ UNCHANGED <<clock, server, remote, edits, copies, faults>>
    BY DEF LoadFragments, Shape, PullShape, history, Nothing
  <1>2. /\ todo' \subseteq Rows(local) /\ todo' = DOMAIN loaded'
        /\ \A i \in todo' : loaded'[i] \in {local[i]} \cup {loaded[j] : j \in {i} \cap DOMAIN loaded}
        /\ loaded' = [i \in DOMAIN loaded' |-> loaded'[i]]
    BY DEF LoadFragments, WithStatus
  <1>3. \A i \in Rows(local) : i \in Ids /\ local[i] \in CopyRow
    BY DEF Rows, Shape, TypeOK
  <1>4. loaded' \in [DOMAIN loaded' -> CopyRow] /\ DOMAIN loaded' \subseteq Ids
    BY <1>2, <1>3 DEF Shape, TypeOK
  <1>5. TypeOK'
    BY <1>1, <1>2, <1>4, FlushType DEF Shape, TypeOK
  <1>6. Begun'
    BY <1>1, FlushBegun DEF Shape, Begun, Rows
  <1>7. todo' \subseteq Rows(local)'
    <2>1. local' = Flushed /\ DOMAIN local' = Ids
      BY <1>1, <1>5 DEF Flush, TypeOK
    <2> QED
      BY <1>1, <1>2, <1>3, <2>1, FlushKeepsRows DEF Rows
  <1>8. PushShape' /\ DeleteShape' /\ PullShape'
    BY <1>1, <1>2, <1>7 DEF PushShape, DeleteShape, PullShape
  <1> QED
    BY <1>5, <1>6, <1>8 DEF Shape

LEMMA LoadDeletedShape == ASSUME Shape, LoadDeleted PROVE Shape'
  <1>1. /\ pc = "frags" /\ pc' = "deletes" /\ queue' = Nothing /\ DOMAIN queue' = {} /\ Flush
        /\ remote = Nothing
        /\ UNCHANGED <<clock, server, cur, loaded, remote, edits, copies, faults>>
    BY DEF LoadDeleted, Shape, PullShape, history, Nothing
  <1>2. todo' \subseteq Ids
    BY FlushedType DEF LoadDeleted, Rows
  <1>3. TypeOK'
    BY <1>1, <1>2, FlushType DEF Shape, TypeOK
  <1>4. Begun'
    BY <1>1, FlushBegun DEF Shape, Begun, Rows
  <1>5. todo' \subseteq Rows(local)'
    BY <1>1 DEF LoadDeleted, Flush, Rows
  <1>6. PushShape' /\ DeleteShape' /\ PullShape'
    BY <1>1, <1>5 DEF PushShape, DeleteShape, PullShape
  <1> QED
    BY <1>3, <1>4, <1>6 DEF Shape

LEMMA SendDeleteShape ==
    ASSUME Shape, NEW i \in Ids, SendDelete(i)
    PROVE  Shape'
  <1>1. /\ pc = "deletes" /\ pc' = pc /\ i \in todo /\ todo' \subseteq todo /\ remote = Nothing
        /\ todo \subseteq Rows(local)
        /\ UNCHANGED <<clock, local, cur, loaded, remote, undo, edits, copies>>
    BY DEF SendDelete, Done, history, Shape, DeleteShape, PullShape
  <1>2. faults' \in 0 .. MaxFaults
    BY FaultType DEF SendDelete, Shape, TypeOK
  <1>3. ServerMoves
    BY <1>1, StillMoves, RemovedMoves DEF SendDelete
  <1>4. /\ DOMAIN queue' \subseteq DOMAIN queue \cup {i}
        /\ \A j \in DOMAIN queue' :
              \/ j \in DOMAIN queue /\ queue'[j] = queue[j]
              \/ j = i /\ queue'[j] = Absent /\ i \in Rows(server) /\ Removed(i)
    <2>1. CASE i \in Rows(server) /\ Removed(i) /\ queue' = Queued(i, Absent)
      BY <2>1 DEF Queued
    <2>2. CASE queue' = queue
      BY <2>2
    <2> QED
      BY <2>1, <2>2 DEF SendDelete
  <1>5. TypeOK'
    BY <1>1, <1>2, <1>3, <1>4 DEF ServerMoves, Shape, TypeOK
  <1>6. Begun'
    BY <1>1, <1>3 DEF ServerMoves, Shape, TypeOK, Begun
  <1>7. ASSUME NEW j \in DOMAIN queue'
        PROVE  /\ j \in Rows(local)' /\ queue'[j] = Absent
               /\ j \in 1 .. clock' /\ server'[j] = Absent
    <2>1. CASE j \in DOMAIN queue /\ queue'[j] = queue[j]
      <3>1. j \in Rows(local) /\ queue[j] = Absent /\ j \in 1 .. clock /\ server[j] = Absent
        BY <1>1, <2>1 DEF Shape, DeleteShape
      <3>2. j \in ServerIds /\ j <= clock
        BY <3>1, BoundAssumption DEF Shape, TypeOK, ServerIds
      <3> QED
        BY <1>1, <1>3, <2>1, <3>1, <3>2 DEF ServerMoves, Rows
    <2>2. CASE j = i /\ queue'[j] = Absent /\ i \in Rows(server) /\ Removed(i)
      <3>1. i \in ServerIds /\ i <= clock /\ server'[i] = Absent
        BY <2>2 DEF Removed, Rows, Shape, TypeOK, Begun
      <3>2. i \in 1 .. clock'
        BY <1>1, <3>1 DEF ServerIds, Shape, TypeOK
      <3> QED
        BY <1>1, <2>2, <3>1, <3>2 DEF Rows
    <2> QED
      BY <1>4, <2>1, <2>2
  <1>8. PushShape' /\ DeleteShape' /\ PullShape'
    BY <1>1, <1>7 DEF Rows, PushShape, DeleteShape, PullShape
  <1> QED
    BY <1>5, <1>6, <1>8 DEF Shape

LEMMA FinishPushShape == ASSUME Shape, FinishPush PROVE Shape'
  BY FlushedType, FlushedBegun, FinishShape DEF FinishPush, Shape, TypeOK

LEMMA StartPullShape == ASSUME Shape, StartPull PROVE Shape'
  <1>1. /\ pc = "idle" /\ pc' = "pull" /\ DOMAIN queue = {} /\ todo' = DOMAIN remote'
        /\ UNCHANGED <<clock, local, server, cur, loaded, queue, undo, edits, copies, faults>>
    BY DEF StartPull, Shape, TypeOK, Nothing
  <1>2. /\ DOMAIN remote' \subseteq Rows(server) /\ DOMAIN remote' \subseteq ServerIds
        /\ remote' \in [DOMAIN remote' -> Row]
    BY DEF StartPull, Entries, Rows, Shape, TypeOK
  <1>3. TypeOK'
    BY <1>1, <1>2 DEF Shape, TypeOK, Ids
  <1>4. Begun'
    BY <1>1, <1>2 DEF Shape, Begun, Rows
  <1>5. DOMAIN loaded' = {}
    BY <1>1 DEF Shape, TypeOK, Nothing
  <1>6. PushShape' /\ DeleteShape' /\ PullShape'
    BY <1>1, <1>5 DEF PushShape, DeleteShape, PullShape
  <1> QED
    BY <1>3, <1>4, <1>6 DEF Shape

\* What a pull queues for a row, from the row as it sees it.
LEMMA ChangeFacts ==
    ASSUME Shape, NEW i \in DOMAIN remote, NEW mine \in CopyRow \cup {Absent}
    PROVE  LET change == Change(i, mine)
           IN  /\ DOMAIN change \subseteq {i}
               /\ \A j \in DOMAIN change : /\ change[j].text = remote[i].text
                                         /\ change[j].at = remote[i].at
               /\ mine = Absent => \A j \in DOMAIN change :
                                     change[j] \in CopyRow /\ change[j].status = "synced"
               /\ mine # Absent => \A j \in DOMAIN change :
                                     /\ mine.status = "synced"
                                     /\ change[j] \in [text : 1 .. MaxTime, at : 1 .. MaxTime]
  <1>1. remote[i] \in Row
    BY DEF Shape, TypeOK
  <1>2. /\ Inserted(remote[i]) \in CopyRow /\ Inserted(remote[i]).status = "synced"
        /\ Inserted(remote[i]).text = remote[i].text /\ Inserted(remote[i]).at = remote[i].at
    BY <1>1 DEF Inserted, Row, CopyRow
  <1>3. [text |-> remote[i].text, at |-> remote[i].at] \in [text : 1 .. MaxTime, at : 1 .. MaxTime]
    BY <1>1 DEF Row
  <1>4. CASE mine = Absent
    BY <1>2, <1>4 DEF Change, Only
  <1>5. CASE mine # Absent /\ Replaces(remote[i], mine)
    <2>1. Change(i, mine) = [j \in {i} |-> [text |-> remote[i].text, at |-> remote[i].at]]
      BY <1>5 DEF Change, Only
    <2> QED
      BY <1>3, <1>5, <2>1 DEF Replaces
  <1>6. CASE mine # Absent /\ ~Replaces(remote[i], mine)
    BY <1>6 DEF Change, Nothing
  <1> QED
    BY <1>4, <1>5, <1>6

\* A step of a pull that flushes, then queues a change of one row.
LEMMA PullStepShape ==
    ASSUME Shape, pc = "pull", pc' \in {"pull", "get"}, Flush,
           NEW i \in todo, NEW mine \in CopyRow \cup {Absent}, queue' = Change(i, mine),
           mine = Absent <=> Flushed[i] = Absent,
           todo' \subseteq todo, DOMAIN loaded' \subseteq Rows(Flushed),
           loaded' \in [DOMAIN loaded' -> CopyRow],
           UNCHANGED <<clock, server, remote, edits, copies, faults>>
    PROVE  Shape'
  <1>1. i \in DOMAIN remote /\ i \in Ids /\ todo' \subseteq DOMAIN remote'
    BY DEF Shape, TypeOK, PullShape
  <1>2. local' = Flushed /\ DOMAIN Flushed = Ids /\ DOMAIN queue' \subseteq {i}
    BY <1>1, ChangeFacts DEF Flush, Flushed
  <1>3. TypeOK'
    BY <1>1, <1>2, FlushType DEF Shape, TypeOK, Rows
  <1>4. Begun'
    BY FlushBegun DEF Shape, Begun, Rows
  <1>5. \A j \in DOMAIN queue' : j \in DOMAIN remote' /\ Pulled(j)'
    BY <1>1, <1>2, ChangeFacts DEF Pulled
  <1>6. PullShape'
    BY <1>1, <1>2, <1>5 DEF PullShape, Rows
  <1> QED
    BY <1>3, <1>4, <1>6 DEF Shape, PushShape, DeleteShape

LEMMA PullEntryShape == ASSUME Shape, NEW e, PullEntry(e) PROVE Shape'
  <1>1. e \in Ids /\ Flushed[e] \in CopyRow \cup {Absent}
    BY FlushRow DEF PullEntry, Shape, TypeOK
  <1>2. /\ DOMAIN loaded' \subseteq Rows(Flushed)
        /\ loaded' \in [DOMAIN loaded' -> CopyRow]
    BY FlushedType DEF PullEntry, Under, Rows
  <1> QED
    BY <1>1, <1>2, PullStepShape DEF PullEntry, Done, history

LEMMA PullFragmentShape == ASSUME Shape, NEW f, PullFragment(f) PROVE Shape'
  <1> DEFINE mine == IF f \in DOMAIN loaded THEN loaded[f] ELSE Flushed[f]
  <1>1. f \in Ids /\ f \in todo /\ pc = "pull" /\ DOMAIN loaded \subseteq Rows(local)
    BY DEF PullFragment, Shape, TypeOK, PullShape
  <1>2. /\ DOMAIN loaded \subseteq Rows(Flushed)
        /\ loaded \in [DOMAIN loaded -> CopyRow]
    BY <1>1, FlushedType, FlushKeepsRows DEF Rows, Shape, TypeOK
  <1>3. mine \in CopyRow \cup {Absent}
    BY <1>1, <1>2, FlushRow
  <1>4. mine = Absent <=> Flushed[f] = Absent
    BY <1>2, SentinelAssumption DEF Rows
  <1>5. queue' = Change(f, mine)
    BY DEF PullFragment
  <1> HIDE DEF mine
  <1> QED
    BY <1>1, <1>2, <1>3, <1>4, <1>5, PullStepShape DEF PullFragment, Done, history

LEMMA GetFragmentsShape == ASSUME Shape, GetFragments PROVE Shape'
  <1>1. /\ pc = "get" /\ pc' = "pull" /\ faults' \in 0 .. MaxFaults
        /\ UNCHANGED <<clock, local, server, cur, loaded, queue, undo, edits, copies>>
    BY FaultType DEF GetFragments, history, Shape, TypeOK
  <1>2. Under(server, cur) \subseteq Rows(server) /\ Under(server, cur) \subseteq ServerIds
    BY DEF Under, Rows, Shape, TypeOK
  <1>3. /\ DOMAIN remote \subseteq DOMAIN remote'
        /\ DOMAIN remote' \subseteq DOMAIN remote \cup Under(server, cur)
        /\ todo' \subseteq DOMAIN remote'
        /\ remote' \in [DOMAIN remote' -> Row]
    <2>1. \A i \in Under(server, cur) : server[i] \in Row
      BY <1>2 DEF Rows, Shape, TypeOK
    <2>2. todo \subseteq DOMAIN remote /\ remote \in [DOMAIN remote -> Row]
      BY <1>1 DEF Shape, TypeOK, PullShape
    <2> QED
      BY <2>1, <2>2 DEF GetFragments
  <1>4. TypeOK'
    BY <1>1, <1>2, <1>3 DEF Shape, TypeOK, Ids
  <1>5. Begun'
    BY <1>1, <1>2, <1>3 DEF Shape, Begun, Rows
  <1>6. PullShape'
    BY <1>1, <1>3 DEF Shape, PullShape, Pulled, Rows
  <1> QED
    BY <1>1, <1>4, <1>5, <1>6 DEF Shape, PushShape, DeleteShape

LEMMA FinishPullShape == ASSUME Shape, FinishPull PROVE Shape'
  BY FlushedType, FlushedBegun, FinishShape DEF FinishPull, Shape, TypeOK

LEMMA CrashShape == ASSUME Shape, Crash PROVE Shape'
  <1>1. faults' \in 0 .. MaxFaults
    BY FaultType DEF Crash
  <1>2. (IF undo = NoUndo THEN local ELSE undo) \in [Ids -> CopyRow \cup {Absent}]
    BY DEF Shape, TypeOK
  <1>3. clock = 0 => \A i \in Ids : (IF undo = NoUndo THEN local ELSE undo)[i] = Absent
    BY DEF Shape, Begun
  <1> QED
    BY <1>1, <1>2, <1>3, FinishShape DEF Crash

LEMMA StepShape == ASSUME Shape, [Next]_vars PROVE Shape'
  <1>1. CASE User
    BY <1>1, UserWrites, WritesShape
  <1>2. CASE OtherDevice
    BY <1>2, OtherDeviceMoves, MovesShape DEF OtherDevice, history, Shape, TypeOK
  <1>3. CASE StartPush \/ StartPull
    BY <1>3, StartPushShape, StartPullShape
  <1>4. CASE Push
    BY <1>4, PostAnsweredShape, PostLostShape, PostFailsShape, SendDeleteShape,
       LoadFragmentsShape, LoadDeletedShape, FinishPushShape DEF Push
  <1>5. CASE Pull
    BY <1>5, PullEntryShape, PullFragmentShape, GetFragmentsShape, FinishPullShape DEF Pull
  <1>6. CASE Crash
    BY <1>6, CrashShape
  <1>7. CASE UNCHANGED vars
    BY <1>7, StillMoves, MovesShape DEF vars, history, Shape, TypeOK
  <1> QED
    BY <1>1, <1>2, <1>3, <1>4, <1>5, <1>6, <1>7 DEF Next

LEMMA ShapeHolds == Spec => []Shape
  BY InitShape, StepShape, PTL DEF Spec

\* The copy, the server and the session of a sync keep their shapes, and an idle
\* client holds neither a lock nor a queued change, after a crash included.
THEOREM TypeCorrect == Spec => []TypeOK
  <1>1. Shape => TypeOK
    BY DEF Shape
  <1> QED
    BY <1>1, ShapeHolds, PTL

-----------------------------------------------------------------------------
(* "synced" means that the server took it *)

LEMMA InitTaken == Init => TakenInv
  BY DEF Init, TakenInv, TakenIn, Nothing, Ids


\* A flush marks only what the server took.
LEMMA FlushTaken ==
    ASSUME Shape, TakenInv
    PROVE  TakenIn(Flushed)
  <1>1. ASSUME NEW i \in LocalIds, Flushed[i] # Absent, Flushed[i].status = "synced"
        PROVE  copies[i] # {} /\ (i \notin overlapped => SentText(i, Flushed[i]))
    <2>1. i \in Ids
      BY DEF Ids
    <2>2. CASE i \notin DOMAIN queue
      BY <1>1, <2>1, <2>2, FlushRow DEF TakenInv, TakenIn
    <2>3. CASE i \in DOMAIN queue /\ pc \in {"entries", "frags"}
      BY <1>1, <2>1, <2>3, FlushRow DEF TakenInv, SentText
    <2>4. CASE i \in DOMAIN queue /\ pc \in {"pull", "get"}
      <3>1. i \in ServerIds
        BY <2>4 DEF Shape, TypeOK, PullShape
      <3> QED
        BY <3>1, IdAssumption
    <2>5. CASE i \in DOMAIN queue /\ pc = "deletes"
      BY <1>1, <2>1, <2>5, FlushRow
    <2> QED
      BY <2>2, <2>3, <2>4, <2>5 DEF Shape, TypeOK, Nothing
  <1> QED
    BY <1>1 DEF TakenIn

LEMMA WritesTaken ==
    ASSUME Shape, TakenInv, NEW i \in Ids, NEW row \in CopyRow, Writes(i, row),
           row.status # "synced"
    PROVE  TakenInv'
  <1>1. /\ UNCHANGED <<copies, pc, queue, loaded, undo>> /\ undo = NoUndo
        /\ local' = [local EXCEPT ![i] = row]
        /\ overlapped' = IF pc \in {"entries", "frags", "deletes"} THEN overlapped \cup {i}
                         ELSE overlapped \ {i}
    BY DEF Writes, sync
  <1>2. local'[i] = row /\ \A j \in Ids : j # i => local'[j] = local[j]
    BY <1>1 DEF Shape, TypeOK
  <1>3. TakenIn(local)'
    BY <1>1, <1>2 DEF TakenInv, TakenIn, SentText, Ids
  <1>4. ASSUME pc \in {"entries", "frags"}
        PROVE  /\ \A j \in DOMAIN queue :
                     copies'[j] # {} /\ (j \notin overlapped' => SentText(j, local[j])')
               /\ \A j \in DOMAIN loaded \ overlapped' :
                     j \in Rows(local)' /\ loaded[j].text = local'[j].text
    <2>1. overlapped' = overlapped \cup {i}
      BY <1>1, <1>4
    <2>2. DOMAIN queue \subseteq Ids /\ DOMAIN loaded \subseteq Ids /\ DOMAIN local' = Ids
      BY <1>1 DEF Shape, TypeOK
    <2> QED
      BY <1>1, <1>2, <1>4, <2>1, <2>2 DEF TakenInv, SentText, Rows
  <1> QED
    BY <1>1, <1>3, <1>4 DEF TakenInv

\* Steps that leave the copy and the history of the rows alone.
LEMMA StillTaken ==
    ASSUME TakenInv, UNCHANGED <<local, undo, copies, overlapped>>,
           pc' \in {"entries", "frags"} =>
             UNCHANGED <<queue, loaded>> /\ pc \in {"entries", "frags"}
    PROVE  TakenInv'
  BY DEF TakenInv, TakenIn, SentText, Rows

LEMMA StartPushTaken == ASSUME Shape, TakenInv, StartPush PROVE TakenInv'
  <1>1. /\ UNCHANGED <<local, undo, copies, overlapped>> /\ DOMAIN queue' = {}
        /\ \A i \in DOMAIN loaded' : i \in Rows(local) /\ loaded'[i] = local[i]
    BY DEF StartPush, history, Shape, TypeOK, Nothing
  <1> QED
    BY <1>1 DEF TakenInv, TakenIn, SentText, Rows

LEMMA PostTaken ==
    ASSUME Shape, TakenInv, NEW i, Posting(i),
           UNCHANGED <<local, pc, loaded, undo, overlapped>>,
           \/ Copied(i) /\ queue' \in {queue, Queued(i, [status |-> "synced"])}
           \/ UNCHANGED <<copies, queue>>
    PROVE  TakenInv'
  <1>1. CASE UNCHANGED <<copies, queue>>
    BY <1>1, StillTaken DEF Posting
  <1>2. CASE Copied(i) /\ queue' \in {queue, Queued(i, [status |-> "synced"])}
    <2>1. i \in Ids /\ i \in DOMAIN loaded /\ pc \in {"entries", "frags"}
      BY PostingFacts
    <2>2. /\ [id |-> Now, text |-> loaded[i].text] \in copies'[i]
          /\ \A j \in Ids : copies[j] \subseteq copies'[j]
      BY <1>2, <2>1 DEF Copied, Shape, TypeOK
    <2>3. DOMAIN queue' \subseteq DOMAIN queue \cup {i} /\ DOMAIN queue \subseteq Ids
      BY <1>2 DEF Queued, Shape, TypeOK
    <2>4. TakenIn(local)'
      BY <2>2 DEF TakenInv, TakenIn, SentText, Ids
    <2>5. undo' # NoUndo => TakenIn(undo)'
      BY <2>2 DEF TakenInv, TakenIn, SentText, Ids
    <2>6. ASSUME NEW j \in DOMAIN queue'
          PROVE  copies'[j] # {} /\ (j \notin overlapped' => SentText(j, local[j])')
      <3>1. CASE j = i
        <4>1. i \notin overlapped => loaded[i].text = local[i].text
          BY <2>1 DEF TakenInv
        <4> QED
          BY <2>2, <3>1, <4>1 DEF SentText
      <3>2. CASE j \in DOMAIN queue
        <4>1. copies[j] # {} /\ (j \notin overlapped => SentText(j, local[j]))
          BY <2>1, <3>2 DEF TakenInv
        <4> QED
          BY <2>2, <2>3, <3>2, <4>1 DEF SentText
      <3> QED
        BY <2>3, <3>1, <3>2
    <2> QED
      BY <2>4, <2>5, <2>6 DEF TakenInv, Rows
  <1> QED
    BY <1>1, <1>2

LEMMA PostAnsweredTaken == ASSUME Shape, TakenInv, NEW i, PostAnswered(i) PROVE TakenInv'
  BY PostTaken DEF PostAnswered, Marks, Success

LEMMA PostLostTaken == ASSUME Shape, TakenInv, NEW i, PostLost(i) PROVE TakenInv'
  BY PostTaken DEF PostLost

LEMMA PostFailsTaken == ASSUME Shape, TakenInv, NEW i, PostFails(i) PROVE TakenInv'
  BY PostTaken DEF PostFails, history

\* The session commits, goes on after a flush, or rolls back.
LEMMA FlushStepTaken ==
    ASSUME Shape, TakenInv, Flush, UNCHANGED <<copies, overlapped>>,
           pc' \notin {"entries", "frags"}
    PROVE  TakenInv'
  <1>1. TakenIn(local)'
    BY FlushTaken DEF Flush, TakenIn, SentText
  <1>2. undo' # NoUndo => TakenIn(undo)'
    BY DEF Flush, TakenInv, TakenIn, SentText
  <1> QED
    BY <1>1, <1>2 DEF TakenInv

LEMMA LoadFragmentsTaken == ASSUME Shape, TakenInv, LoadFragments PROVE TakenInv'
  <1>1. /\ pc = "entries" /\ Flush /\ UNCHANGED <<copies, overlapped>> /\ DOMAIN queue' = {}
        /\ \A i \in DOMAIN loaded' :
              /\ i \in Rows(local)
              /\ loaded'[i] = local[i] \/ (i \in DOMAIN loaded /\ loaded'[i] = loaded[i])
    BY DEF LoadFragments, history, Nothing, WithStatus
  <1>2. TakenIn(local)'
    BY <1>1, FlushTaken DEF Flush, TakenIn, SentText
  <1>3. undo' # NoUndo => TakenIn(undo)'
    BY <1>1 DEF Flush, TakenInv, TakenIn, SentText
  <1>4. ASSUME NEW i \in DOMAIN loaded' \ overlapped'
        PROVE  i \in Rows(local)' /\ loaded'[i].text = local'[i].text
    <2>1. i \in Ids /\ local[i] # Absent /\ local' = Flushed /\ DOMAIN local' = Ids
      BY <1>1 DEF Flush, Flushed, Rows, Shape, TypeOK
    <2>2. loaded'[i].text = local[i].text
      BY <1>1, <1>4 DEF TakenInv
    <2>3. Flushed[i].text = local[i].text
      BY <1>1, <2>1, FlushRow
    <2> QED
      BY <1>1, <2>1, <2>2, <2>3, FlushKeepsRows DEF Rows
  <1> QED
    BY <1>1, <1>2, <1>3, <1>4 DEF TakenInv

LEMMA FinishTaken ==
    ASSUME TakenInv, NEW rows, TakenIn(rows), Finish(rows), UNCHANGED <<copies, overlapped>>
    PROVE  TakenInv'
  BY DEF Finish, Close, TakenInv, TakenIn, SentText

LEMMA StepTaken == ASSUME Shape, TakenInv, [Next]_vars PROVE TakenInv'
  <1>1. CASE User
    BY <1>1, UserWrites, WritesTaken
  <1>2. CASE OtherDevice
    BY <1>2, StillTaken DEF OtherDevice, history, sync
  <1>3. CASE StartPush \/ StartPull
    BY <1>3, StartPushTaken, StillTaken DEF StartPull
  <1>4. CASE \E i \in Ids : PostAnswered(i) \/ PostLost(i) \/ PostFails(i)
    BY <1>4, PostAnsweredTaken, PostLostTaken, PostFailsTaken
  <1>5. CASE \E i \in Ids : SendDelete(i)
    BY <1>5, StillTaken DEF SendDelete, history
  <1>6. CASE LoadFragments
    BY <1>6, LoadFragmentsTaken
  <1>7. CASE LoadDeleted
    BY <1>7, FlushStepTaken DEF LoadDeleted, history
  <1>8. CASE \E i \in ServerIds : PullEntry(i) \/ PullFragment(i)
    BY <1>8, FlushStepTaken DEF PullEntry, PullFragment, history
  <1>9. CASE GetFragments
    BY <1>9, StillTaken DEF GetFragments, history
  <1>10. CASE FinishPush \/ FinishPull
    BY <1>10, FlushTaken, FinishTaken DEF FinishPush, FinishPull
  <1>11. CASE Crash
    BY <1>11, FinishTaken DEF Crash, TakenInv
  <1>12. CASE UNCHANGED vars
    BY <1>12, StillTaken DEF vars, history, sync
  <1> QED
    BY <1>1, <1>2, <1>3, <1>4, <1>5, <1>6, <1>7, <1>8, <1>9, <1>10, <1>11, <1>12
    DEF Next, Push, Pull

LEMMA TakenHolds == Spec => []TakenInv
  BY InitTaken, StepTaken, ShapeHolds, PTL DEF Spec

\* What the user made and the copy calls synced, the server has taken at least
\* once, whatever answers were lost and wherever the client died.
THEOREM SyncedTaken == Spec => []SyncedWasTaken
  <1>1. TakenInv => SyncedWasTaken
    BY DEF TakenInv, TakenIn, SyncedWasTaken, WithStatus, Rows
  <1> QED
    BY <1>1, TakenHolds, PTL

\* Only an edit that overlaps with a push can be lost: otherwise the server took the
\* very text that the copy calls synced.
THEOREM OverlapOnly == Spec => []OnlyOverlapLosesEdits
  <1>1. TakenInv => OnlyOverlapLosesEdits
    BY DEF TakenInv, TakenIn, SentText, OnlyOverlapLosesEdits, WithStatus, Rows
  <1> QED
    BY <1>1, TakenHolds, PTL

-----------------------------------------------------------------------------
(* What a pull leaves alone *)

\* During a pull, a flush changes no row that is not queued.
LEMMA FlushSpares ==
    ASSUME Shape, KeptInv, pc \in {"pull", "get"}, NEW i \in dirty
    PROVE  i \in Ids /\ local[i] # Absent /\ Flushed[i] = local[i]
  BY FlushRow DEF KeptInv, Shape, TypeOK, Rows

LEMMA WritesKept ==
    ASSUME Shape, KeptInv, NEW i \in Ids, NEW row \in CopyRow, Writes(i, row),
           row.status # "synced"
    PROVE  KeptInv'
  <1>1. /\ UNCHANGED <<pc, queue, loaded, undo, dirty>> /\ undo = NoUndo
        /\ local' = [local EXCEPT ![i] = row] /\ row # Absent
    BY SentinelAssumption DEF Writes, sync
  <1>2. /\ DOMAIN local' = Ids /\ local'[i] = row
        /\ \A j \in Ids : j # i => local'[j] = local[j]
    BY <1>1 DEF Shape, TypeOK
  <1> QED
    BY <1>1, <1>2 DEF KeptInv, Rows

LEMMA StillKept ==
    ASSUME KeptInv, UNCHANGED <<local, undo, queue, loaded, dirty>>,
           pc' \in {"pull", "get"} => pc \in {"pull", "get"}
    PROVE  KeptInv'
  BY DEF KeptInv, Rows

LEMMA StartPullKept == ASSUME Shape, StartPull PROVE KeptInv'
  <1>1. /\ UNCHANGED <<local, undo, queue, loaded>> /\ undo = NoUndo
        /\ DOMAIN queue = {} /\ DOMAIN loaded = {}
    BY DEF StartPull, Shape, TypeOK, Nothing
  <1>2. \A i \in dirty' : i \in Rows(local) /\ local[i].status # "synced"
    BY DEF StartPull, WithStatus
  <1> QED
    BY <1>1, <1>2 DEF KeptInv, Rows

\* A pull queues a change only of a row that it sees as absent or synced.
LEMMA PullStepKept ==
    ASSUME Shape, KeptInv, pc = "pull", Flush,
           NEW i \in todo, NEW mine \in CopyRow \cup {Absent}, queue' = Change(i, mine),
           i \in dirty => mine # Absent /\ mine.status # "synced",
           \A j \in DOMAIN loaded' \cap dirty : loaded'[j].status # "synced",
           UNCHANGED dirty
    PROVE  KeptInv'
  <1>1. \A j \in DOMAIN queue' : j = i /\ (mine = Absent \/ mine.status = "synced")
    BY ChangeFacts DEF Shape, PullShape
  <1>2. \A j \in dirty : j \notin DOMAIN queue'
    BY <1>1
  <1>3. local' = Flushed /\ DOMAIN local' = Ids
    BY DEF Flush, Flushed
  <1>4. \A j \in dirty : local'[j] = local[j] /\ j \in Rows(local)' /\ local'[j].status # "synced"
    BY <1>3, FlushSpares DEF KeptInv, Rows
  <1>5. \A j \in dirty : undo' # NoUndo => undo'[j] = local'[j]
    BY <1>4 DEF Flush, KeptInv
  <1> QED
    BY <1>2, <1>4, <1>5 DEF KeptInv

LEMMA PullEntryKept == ASSUME Shape, KeptInv, NEW e, PullEntry(e) PROVE KeptInv'
  <1>1. e \in Ids /\ e \in todo /\ Flushed[e] \in CopyRow \cup {Absent} /\ pc = "pull"
    BY FlushRow DEF PullEntry, Shape, TypeOK
  <1>2. e \in dirty => Flushed[e] # Absent /\ Flushed[e].status # "synced"
    BY <1>1, FlushSpares DEF KeptInv
  <1>3. \A j \in DOMAIN loaded' \cap dirty : loaded'[j].status # "synced"
    BY <1>1, FlushSpares DEF PullEntry, KeptInv
  <1> QED
    BY <1>1, <1>2, <1>3, PullStepKept DEF PullEntry, history

LEMMA PullFragmentKept == ASSUME Shape, KeptInv, NEW f, PullFragment(f) PROVE KeptInv'
  <1> DEFINE mine == IF f \in DOMAIN loaded THEN loaded[f] ELSE Flushed[f]
  <1>1. f \in Ids /\ f \in todo /\ pc = "pull" /\ Flushed[f] \in CopyRow \cup {Absent}
    BY FlushRow DEF PullFragment, Shape, TypeOK
  <1>2. mine \in CopyRow \cup {Absent}
    BY <1>1 DEF Shape, TypeOK
  <1>3. f \in DOMAIN loaded => loaded[f] # Absent
    BY SentinelAssumption DEF Shape, TypeOK
  <1>4. f \in dirty => mine # Absent /\ mine.status # "synced"
    BY <1>1, <1>3, FlushSpares DEF KeptInv
  <1>5. \A j \in DOMAIN loaded \cap dirty : loaded[j].status # "synced"
    BY <1>1 DEF KeptInv
  <1>6. queue' = Change(f, mine)
    BY DEF PullFragment
  <1> HIDE DEF mine
  <1> QED
    BY <1>1, <1>2, <1>4, <1>5, <1>6, PullStepKept DEF PullFragment, history

LEMMA StepKept == ASSUME Shape, KeptInv, [Next]_vars PROVE KeptInv'
  <1>1. CASE User
    BY <1>1, UserWrites, WritesKept
  <1>2. CASE OtherDevice \/ UNCHANGED vars
    BY <1>2, StillKept DEF OtherDevice, vars, history, sync
  <1>3. CASE StartPush
    BY <1>3 DEF StartPush, KeptInv
  <1>4. CASE StartPull
    BY <1>4, StartPullKept
  <1>5. CASE Push
    BY <1>5 DEF Push, KeptInv, PostAnswered, PostLost, PostFails, SendDelete, LoadFragments,
                LoadDeleted, FinishPush, Finish, Posting
  <1>6. CASE Pull
    BY <1>6, PullEntryKept, PullFragmentKept, StillKept
    DEF Pull, GetFragments, FinishPull, Finish, history, KeptInv
  <1>7. CASE Crash
    BY <1>7 DEF Crash, Finish, KeptInv
  <1> QED
    BY <1>1, <1>2, <1>3, <1>4, <1>5, <1>6, <1>7 DEF Next

\* Inside one step: a flush, a commit and a rollback leave such rows as they are.
LEMMA StepSpares ==
    ASSUME Shape, KeptInv, [Next]_vars, clock' = clock, pc \in {"pull", "get"}, NEW i \in dirty
    PROVE  local'[i] = local[i]
  <1>1. CASE User
    BY <1>1, UserWrites, BoundAssumption DEF Writes, Tick, Shape, TypeOK
  <1>2. CASE OtherDevice \/ UNCHANGED vars
    BY <1>2 DEF OtherDevice, vars
  <1>3. CASE StartPush \/ StartPull \/ Push
    BY <1>3 DEF StartPush, StartPull, Push, PostAnswered, PostLost, PostFails, Posting, SendDelete,
                LoadFragments, LoadDeleted, FinishPush
  <1>4. CASE Pull
    BY <1>4, FlushSpares DEF Pull, PullEntry, PullFragment, GetFragments, FinishPull, Finish, Flush
  <1>5. CASE Crash
    BY <1>5 DEF Crash, Finish, KeptInv
  <1> QED
    BY <1>1, <1>2, <1>3, <1>4, <1>5 DEF Next

LEMMA KeptHolds == Spec => []KeptInv
  <1>1. Init => KeptInv
    BY DEF Init, KeptInv
  <1> QED
    BY <1>1, StepKept, ShapeHolds, PTL DEF Spec

\* A row that was unsynced when a pull began goes through it untouched: by its
\* flushes, its commit and the rollback of a client that dies.
THEOREM UnsyncedKept == Spec => PullKeepsUnsynced
  <1>1. Shape /\ KeptInv /\ [Next]_vars =>
          [clock' = clock /\ pc \in {"pull", "get"} => (\A i \in dirty : local'[i] = local[i])]_vars
    BY StepSpares
  <1> QED
    BY <1>1, ShapeHolds, KeptHolds, PTL DEF Spec, PullKeepsUnsynced

-----------------------------------------------------------------------------
(* How often a row is sent *)

LEMMA CountTypes ==
    ASSUME Shape, CountInv, NEW i \in Ids
    PROVE  Cardinality(copies[i]) \in Nat /\ edits[i] \in Nat /\ faults \in Nat
  BY BoundAssumption, FS_CardinalityType DEF CountInv, Shape, TypeOK

\* An entry is neither a fragment nor gone.
LEMMA EntryExplained ==
    ASSUME Shape, CountInv, NEW i \in Ids,
           \/ local[i] # Absent /\ local[i].entry = Top
           \/ undo # NoUndo /\ undo[i] # Absent /\ undo[i].entry = Top
           \/ local[i] = Absent /\ i \in LocalIds
    PROVE  Explained(i)
  BY IdAssumption DEF CountInv, Accounted, IsFragment, Gone

LEMMA InitCount == Init => CountInv
  BY BoundAssumption, FS_EmptySet
  DEF Init, CountInv, Accounted, Sendable, TodoKinds, UndoKinds, Explained, Entries, Rows

LEMMA WritesCount ==
    ASSUME Shape, CountInv, NEW i \in Ids, NEW row \in CopyRow, Writes(i, row),
           row.status # "synced",
           local[i] = Absent => i \in LocalIds,
           local[i] # Absent => row.entry = local[i].entry,
           row.status = "deleted" => local[i] # Absent /\ row.entry # Top
    PROVE  CountInv'
  <1>1. /\ UNCHANGED <<server, pc, todo, loaded, queue, remote, undo, copies, faults>>
        /\ undo = NoUndo /\ local' = [local EXCEPT ![i] = row] /\ row # Absent
        /\ edits' = [edits EXCEPT ![i] = @ + 1] /\ clock' = clock + 1 /\ clock \in Nat
    BY SentinelAssumption, BoundAssumption DEF Writes, Tick, sync, Shape, TypeOK
  <1>2. /\ DOMAIN local' = Ids /\ local'[i] = row /\ edits'[i] = edits[i] + 1
        /\ \A j \in Ids : j # i => local'[j] = local[j] /\ edits'[j] = edits[j]
    BY <1>1 DEF Shape, TypeOK
  <1>3. ASSUME NEW j \in Ids, Explained(j) PROVE Explained(j)'
    BY <1>1, <1>2, <1>3, CountTypes DEF Explained
  <1>4. ASSUME NEW j \in Ids, IsFragment(j) PROVE IsFragment(j)'
    BY <1>1, <1>2, <1>4 DEF IsFragment
  <1>5. ASSUME NEW j \in Ids, Gone(j) PROVE Gone(j)'
    <2>1. j # i
      BY <1>5, IdAssumption DEF Gone
    <2> QED
      BY <1>1, <1>2, <1>5, <2>1 DEF Gone
  <1>6. Accounted'
    BY <1>3, <1>4, <1>5 DEF CountInv, Accounted
  <1>7. ASSUME NEW j \in Entries(local)', local'[j].status = "pending", ~Marked(j)'
        PROVE  MaySend(j)'
    <2>1. j \in Ids /\ local'[j] # Absent /\ local'[j].entry = Top
      BY <1>2, <1>7 DEF Entries, Rows
    <2>2. CASE j = i
      <3>1. Explained(i)
        BY <1>2, <2>1, <2>2, EntryExplained
      <3> QED
        BY <1>1, <1>2, <2>2, <3>1, CountTypes DEF Explained, MaySend
    <2>3. CASE j # i
      <3>1. MaySend(j)
        BY <1>1, <1>2, <1>7, <2>1, <2>3
        DEF CountInv, Sendable, Marked, Entries, Rows, Shape, TypeOK
      <3> QED
        BY <1>1, <1>2, <2>1, <2>3, <3>1 DEF MaySend
    <2> QED
      BY <2>2, <2>3
  <1>8. TodoKinds'
    <2>1. row.status \in {"pending", "deleted"}
      BY DEF CopyRow
    <2>2. pc \in {"entries", "frags"} => \A j \in todo : j \in Ids /\ local[j] # Absent
      BY DEF Shape, TypeOK, PushShape, Rows
    <2> QED
      BY <1>1, <1>2, <2>1, <2>2 DEF CountInv, TodoKinds
  <1>9. UndoKinds'
    BY <1>1 DEF UndoKinds
  <1> QED
    BY <1>1, <1>6, <1>7, <1>8, <1>9 DEF CountInv, Sendable

\* Steps that leave the copy, its edits and what was made of them alone.
LEMMA StillCount ==
    ASSUME Shape, CountInv, ServerMoves, UNCHANGED <<local, undo, edits, copies>>,
           faults' \in {faults, faults + 1},
           DOMAIN remote' \subseteq DOMAIN remote \cup Rows(server),
           \A i : Marked(i) => Marked(i)',
           TodoKinds', pc' \in {"entries", "frags"} => pc = pc' \/ undo = NoUndo
    PROVE  CountInv'
  <1>1. clock \in Nat /\ clock' \in Nat /\ clock <= clock'
    BY BoundAssumption DEF ServerMoves, Shape, TypeOK
  <1>2. ASSUME NEW i \in Ids, Explained(i) PROVE Explained(i)'
    BY <1>2, CountTypes DEF Explained
  <1>3. ASSUME NEW i \in Ids, Gone(i) PROVE Gone(i)'
    <2>1. i \in ServerIds /\ i <= clock /\ server'[i] = Absent
      BY <1>1, <1>3 DEF Gone, ServerMoves
    <2>2. i \notin DOMAIN remote'
      BY <1>3 DEF Gone, Rows
    <2> QED
      BY <1>1, <1>3, <2>1, <2>2 DEF Gone
  <1>4. Accounted'
    BY <1>2, <1>3 DEF CountInv, Accounted, IsFragment
  <1>5. Sendable'
    <2>1. ASSUME NEW i \in Entries(local), MaySend(i) PROVE MaySend(i)'
      <3>1. i \in Ids
        BY DEF Entries, Rows, Shape, TypeOK
      <3> QED
        BY <2>1, <3>1, CountTypes DEF MaySend
    <2> QED
      BY <2>1 DEF CountInv, Sendable, Entries, Rows
  <1>6. UndoKinds'
    BY DEF CountInv, UndoKinds, Rows
  <1> QED
    BY <1>4, <1>5, <1>6 DEF CountInv

LEMMA CopiedCount ==
    ASSUME Shape, CountInv, NEW i \in Ids, Copied(i)
    PROVE  /\ \A j \in Ids : IsFiniteSet(copies'[j])
           /\ \A j \in Ids : j # i => copies'[j] = copies[j]
           /\ Cardinality(copies'[i]) \in Nat
           /\ Cardinality(copies'[i]) <= Cardinality(copies[i]) + 1
  <1>1. /\ copies'[i] = copies[i] \cup {[id |-> Now, text |-> loaded[i].text]}
        /\ \A j \in Ids : j # i => copies'[j] = copies[j]
    BY DEF Copied, Shape, TypeOK
  <1>2. IsFiniteSet(copies[i])
    BY DEF CountInv
  <1>3. /\ IsFiniteSet(copies'[i])
        /\ Cardinality(copies'[i]) \in {Cardinality(copies[i]), Cardinality(copies[i]) + 1}
    <2> DEFINE S == copies[i]
               x == [id |-> Now, text |-> loaded[i].text]
    <2>1. IsFiniteSet(S)
      BY <1>2
    <2> HIDE DEF S, x
    <2>2. /\ IsFiniteSet(S \cup {x})
          /\ Cardinality(S \cup {x}) \in {Cardinality(S), Cardinality(S) + 1}
      BY <2>1, FS_AddElement
    <2> QED
      BY <1>1, <2>2 DEF S, x
  <1> QED
    BY <1>1, <1>3, CountTypes DEF CountInv

\* A taken POST: an entry uses up what let it be sent, unless the answer was lost.
LEMMA PostCount ==
    ASSUME Shape, CountInv, NEW i, Posting(i), ServerMoves, Copied(i),
           UNCHANGED <<local, pc, loaded, remote, undo, edits>>,
           queue' \in {queue, Queued(i, [status |-> "synced"])},
           \/ faults' = faults + 1
           \/ faults' = faults /\ (pc = "entries" => i \in DOMAIN queue')
    PROVE  CountInv'
  <1>1. /\ i \in Ids /\ i \in todo /\ pc \in {"entries", "frags"} /\ i \in Rows(local)
        /\ i \notin DOMAIN queue /\ todo' \subseteq todo
    BY PostingFacts
  <1>2. pc = "entries" => i \in Entries(local) /\ MaySend(i)
    BY <1>1 DEF CountInv, TodoKinds, Sendable, Marked, Entries
  <1>3. \A j : Marked(j) => Marked(j)'
    BY DEF Marked, Queued
  <1>4. clock \in Nat /\ clock' \in Nat /\ clock <= clock'
    BY BoundAssumption DEF ServerMoves, Shape, TypeOK
  <1>5. \A j \in Ids : j # i => (Explained(j) => Explained(j)') /\ (MaySend(j) => MaySend(j)')
    BY CopiedCount, CountTypes, <1>1 DEF Explained, MaySend
  <1>6. ASSUME NEW j \in Ids, Gone(j) PROVE Gone(j)'
    BY <1>4, <1>6 DEF Gone, ServerMoves
  <1>7. ASSUME NEW j \in Ids PROVE (Explained(j) \/ IsFragment(j) \/ Gone(j))'
    <2>1. CASE j # i
      BY <1>5, <1>6, <2>1 DEF CountInv, Accounted, IsFragment
    <2>2. CASE j = i /\ pc = "entries"
      BY <1>1, <1>2, <2>2, CopiedCount, CountTypes DEF MaySend, Explained
    <2>3. CASE j = i /\ pc = "frags"
      <3>1. local[i] # Absent /\ local[i].entry # Top
        BY <1>1, <2>3 DEF CountInv, TodoKinds, Rows
      <3>2. undo # NoUndo => undo[i] # Absent /\ undo[i].entry # Top
        BY <1>1, <2>3, <3>1 DEF CountInv, UndoKinds
      <3> QED
        BY <2>3, <3>1, <3>2 DEF IsFragment
    <2> QED
      BY <1>1, <2>1, <2>2, <2>3
  <1>8. ASSUME NEW j \in Entries(local)', local'[j].status = "pending", ~Marked(j)'
        PROVE  MaySend(j)'
    <2>1. j \in Ids /\ j \in Entries(local) /\ ~Marked(j)
      BY <1>3, <1>8 DEF Entries, Rows, Shape, TypeOK
    <2>2. MaySend(j)
      BY <1>8, <2>1 DEF CountInv, Sendable
    <2>3. CASE j # i
      BY <1>5, <2>1, <2>2, <2>3
    <2>4. CASE j = i
      <3>1. pc = "entries"
        BY <1>1, <2>1, <2>4 DEF CountInv, TodoKinds, Entries
      <3>2. faults' = faults + 1
        BY <1>8, <2>4, <3>1 DEF Marked
      <3> QED
        BY <2>2, <2>4, <3>2, <1>1, CopiedCount, CountTypes DEF MaySend
    <2> QED
      BY <2>3, <2>4
  <1>9. TodoKinds' /\ UndoKinds'
    BY <1>1 DEF CountInv, TodoKinds, UndoKinds, Rows
  <1> QED
    BY <1>1, <1>7, <1>8, <1>9, CopiedCount DEF CountInv, Accounted, Sendable

LEMMA PostAnsweredCount == ASSUME Shape, CountInv, NEW i, PostAnswered(i) PROVE CountInv'
  <1>1. Posting(i) /\ i \in Ids /\ i \in todo /\ pc \in {"entries", "frags"}
    BY PostingFacts DEF PostAnswered
  <1>2. queue' \in {queue, Queued(i, [status |-> "synced"])}
    BY DEF PostAnswered, Marks
  <1>3. CASE Takes(loaded[i])
    <2>1. pc = "entries" => i \in DOMAIN queue'
      BY <1>1, <1>3 DEF PostAnswered, Success, Marks, Queued, CountInv, TodoKinds
    <2> QED
      BY <1>1, <1>2, <1>3, <2>1, PostCount, AddedMoves, PostingFacts DEF PostAnswered
  <1>4. CASE ~Takes(loaded[i])
    <2>1. ServerMoves
      BY <1>4, StillMoves DEF PostAnswered
    <2>2. TodoKinds'
      BY <1>1, <1>4 DEF PostAnswered, Posting, Done, CountInv, TodoKinds
    <2> QED
      BY <1>4, <2>1, <2>2, StillCount DEF PostAnswered, Success, Marked
  <1> QED
    BY <1>3, <1>4

LEMMA PostLostCount == ASSUME Shape, CountInv, NEW i, PostLost(i) PROVE CountInv'
  BY PostCount, AddedMoves, PostingFacts DEF PostLost, Fault

LEMMA PostFailsCount == ASSUME Shape, CountInv, NEW i, PostFails(i) PROVE CountInv'
  <1>1. ServerMoves /\ faults' \in {faults, faults + 1}
    BY StillMoves DEF PostFails, Fault
  <1>2. TodoKinds'
    BY DEF PostFails, Posting, Done, CountInv, TodoKinds
  <1> QED
    BY <1>1, <1>2, StillCount DEF PostFails, history, Marked

LEMMA StartPushCount == ASSUME Shape, CountInv, StartPush PROVE CountInv'
  <1>1. TodoKinds'
    BY DEF StartPush, TodoKinds, WithStatus, Entries, Rows
  <1> QED
    BY <1>1, StillMoves, StillCount DEF StartPush, history, Marked, Shape, TypeOK

\* What a flush does to kinds and to pending rows, in every phase.
LEMMA FlushKinds ==
    ASSUME Shape, CountInv, NEW i \in Ids
    PROVE  /\ Flushed[i] # Absent /\ local[i] # Absent => Flushed[i].entry = local[i].entry
           /\ Flushed[i] # Absent /\ local[i] = Absent => i \in DOMAIN remote
           /\ Flushed[i] # Absent /\ Flushed[i].entry = Top /\ Flushed[i].status = "pending" =>
                MaySend(i)
  <1>1. CASE i \notin DOMAIN queue
    BY <1>1, FlushRow DEF CountInv, Sendable, Marked, Entries, Rows, Shape, TypeOK
  <1>2. CASE i \in DOMAIN queue /\ pc \in {"entries", "frags"}
    BY <1>2, FlushRow, SentinelAssumption
  <1>3. CASE i \in DOMAIN queue /\ pc = "deletes"
    BY <1>3, FlushRow
  <1>4. CASE i \in DOMAIN queue /\ pc \in {"pull", "get"}
    <2>1. i \in DOMAIN remote
      BY <1>4 DEF Shape, PullShape
    <2>2. CASE local[i] = Absent
      BY <1>4, <2>1, <2>2, FlushRow
    <2>3. CASE local[i] # Absent
      BY <1>4, <2>3, FlushRow DEF CountInv, Sendable, Marked, Entries, Rows, Shape, TypeOK
    <2> QED
      BY <2>2, <2>3
  <1> QED
    BY <1>1, <1>2, <1>3, <1>4 DEF Shape, TypeOK, Nothing

LEMMA FlushStepCount ==
    ASSUME Shape, CountInv, pc # "deletes", Flush, pc' # "entries",
           UNCHANGED <<clock, server, remote, edits, copies, faults>>,
           pc' = "frags" => pc = "entries" /\ \A i \in todo' : local'[i].entry # Top
    PROVE  CountInv'
  <1>1. local' = Flushed /\ DOMAIN Flushed = Ids /\ (undo' = undo \/ undo' = local)
    BY DEF Flush, Flushed
  <1>2. ASSUME NEW i \in Ids, IsFragment(i) PROVE IsFragment(i)'
    BY <1>1, <1>2, FlushKinds, FlushKeepsRows DEF IsFragment
  <1>3. ASSUME NEW i \in Ids, Gone(i) PROVE Gone(i)'
    BY <1>1, <1>3, FlushKinds DEF Gone
  <1>4. Accounted'
    BY <1>2, <1>3 DEF CountInv, Accounted, Explained
  <1>5. Sendable'
    BY <1>1, FlushKinds DEF Sendable, Entries, Rows, MaySend
  <1>6. TodoKinds'
    BY DEF TodoKinds
  <1>7. UndoKinds'
    <2>1. ASSUME pc = "entries", NEW i \in Rows(Flushed)
          PROVE  i \in Rows(local) /\ Flushed[i].entry = local[i].entry
      <3>1. i \in Ids /\ Flushed[i] # Absent
        BY <1>1, <2>1 DEF Rows
      <3>2. local[i] # Absent
        BY <2>1, <3>1, FlushKinds DEF Shape, PullShape, Nothing
      <3> QED
        BY <3>1, <3>2, FlushKinds DEF Rows, Shape, TypeOK
    <2>2. CASE undo' = local
      BY <1>1, <2>1, <2>2 DEF UndoKinds, Rows
    <2>3. CASE undo' = undo
      <3>1. ASSUME pc = "entries", undo # NoUndo, NEW i \in Rows(Flushed)
            PROVE  undo[i] # Absent /\ undo[i].entry = Flushed[i].entry
        BY <2>1, <3>1 DEF CountInv, UndoKinds
      <3> QED
        BY <1>1, <2>3, <3>1 DEF UndoKinds
    <2> QED
      BY <1>1, <2>2, <2>3
  <1> QED
    BY <1>4, <1>5, <1>6, <1>7 DEF CountInv

\* A sync ends: with its commit, or by a fault with the rows it began with.
LEMMA FinishCount ==
    ASSUME Shape, CountInv, NEW rows, DOMAIN rows = Ids, Finish(rows),
           UNCHANGED <<clock, server, edits, copies>>, faults' \in {faults, faults + 1},
           \A i \in Ids : IsFragment(i) => \/ rows[i] # Absent /\ rows[i].entry # Top
                                           \/ /\ rows[i] = Absent /\ i \in 1 .. clock
                                              /\ i \in ServerIds /\ server[i] = Absent,
           \A i \in Ids : Gone(i) => rows[i] = Absent,
           \A i \in Ids : rows[i] # Absent /\ rows[i].entry = Top
                            /\ rows[i].status = "pending" => MaySend(i)'
    PROVE  CountInv'
  <1>1. local' = rows /\ undo' = NoUndo /\ DOMAIN remote' = {} /\ pc' = "idle"
    BY DEF Finish, Close, Nothing
  <1>2. ASSUME NEW i \in Ids, Explained(i) PROVE Explained(i)'
    BY <1>2, CountTypes DEF Explained
  <1>3. ASSUME NEW i \in Ids, IsFragment(i) PROVE IsFragment(i)' \/ Gone(i)'
    BY <1>1, <1>3 DEF IsFragment, Gone
  <1>4. ASSUME NEW i \in Ids, Gone(i) PROVE Gone(i)'
    BY <1>1, <1>4 DEF Gone
  <1>5. Accounted'
    BY <1>2, <1>3, <1>4 DEF CountInv, Accounted
  <1>6. Sendable'
    BY <1>1 DEF Sendable, Entries, Rows
  <1> QED
    BY <1>1, <1>5, <1>6 DEF CountInv, TodoKinds, UndoKinds

LEMMA CommitCount ==
    ASSUME Shape, CountInv, Finish(Flushed), pc \in {"deletes", "pull"},
           UNCHANGED <<clock, server, edits, copies, faults>>
    PROVE  CountInv'
  <1>1. DOMAIN Flushed = Ids
    BY DEF Flushed
  <1>2. ASSUME NEW i \in Ids, IsFragment(i)
        PROVE  \/ Flushed[i] # Absent /\ Flushed[i].entry # Top
               \/ /\ Flushed[i] = Absent /\ i \in 1 .. clock
                  /\ i \in ServerIds /\ server[i] = Absent
    <2>1. CASE Flushed[i] # Absent
      BY <1>2, <2>1, FlushKinds DEF IsFragment
    <2>2. CASE Flushed[i] = Absent
      <3>1. pc = "deletes" /\ i \in DOMAIN queue
        BY <1>2, <2>2, FlushRow, FlushKeepsRows DEF IsFragment
      <3> QED
        BY <2>2, <3>1, BoundAssumption DEF Shape, TypeOK, DeleteShape, ServerIds
    <2> QED
      BY <2>1, <2>2
  <1>3. ASSUME NEW i \in Ids, Gone(i) PROVE Flushed[i] = Absent
    BY <1>3, FlushKinds DEF Gone
  <1>4. ASSUME NEW i \in Ids, Flushed[i] # Absent, Flushed[i].entry = Top,
               Flushed[i].status = "pending"
        PROVE  MaySend(i)'
    BY <1>4, FlushKinds DEF MaySend
  <1> QED
    BY <1>1, <1>2, <1>3, <1>4, FinishCount

LEMMA CrashCount == ASSUME Shape, CountInv, Crash PROVE CountInv'
  <1> DEFINE rows == IF undo = NoUndo THEN local ELSE undo
  <1>1. DOMAIN rows = Ids
    BY DEF Shape, TypeOK
  <1>2. Finish(rows) /\ faults' = faults + 1 /\ UNCHANGED <<clock, server, edits, copies>>
    BY DEF Crash, Fault
  <1>3. \A i \in Ids : IsFragment(i) => rows[i] # Absent /\ rows[i].entry # Top
    BY DEF IsFragment
  <1>4. \A i \in Ids : Gone(i) => rows[i] = Absent
    BY DEF Gone
  <1>5. ASSUME NEW i \in Ids, rows[i] # Absent, rows[i].entry = Top
        PROVE  MaySend(i)'
    <2>1. Explained(i)
      BY <1>5, EntryExplained
    <2> QED
      BY <1>2, <2>1, CountTypes DEF Explained, MaySend
  <1> HIDE DEF rows
  <1> QED
    BY <1>1, <1>2, <1>3, <1>4, <1>5, FinishCount

LEMMA StepCount == ASSUME Shape, CountInv, [Next]_vars PROVE CountInv'
  <1>1. CASE User
    BY <1>1, UserWrites, WritesCount
  <1>2. CASE OtherDevice \/ UNCHANGED vars
    <2>1. ServerMoves
      BY <1>2, OtherDeviceMoves, StillMoves DEF vars
    <2>2. UNCHANGED <<local, sync, undo, history, faults>>
      BY <1>2 DEF OtherDevice, vars
    <2>3. TodoKinds'
      BY <2>2 DEF sync, CountInv, TodoKinds
    <2> QED
      BY <2>1, <2>2, <2>3, StillCount DEF sync, history, Marked
  <1>3. CASE StartPush
    BY <1>3, StartPushCount
  <1>4. CASE \E i \in Ids : PostAnswered(i) \/ PostLost(i) \/ PostFails(i)
    BY <1>4, PostAnsweredCount, PostLostCount, PostFailsCount
  <1>5. CASE \E i \in Ids : SendDelete(i)
    <2>1. PICK i \in Ids : SendDelete(i)
      BY <1>5
    <2>2. ServerMoves
      BY <2>1, StillMoves, RemovedMoves DEF SendDelete
    <2> QED
      BY <2>1, <2>2, StillCount DEF SendDelete, Fault, history, Marked, TodoKinds
  <1>6. CASE LoadFragments
    <2>1. ASSUME NEW i \in todo' PROVE local'[i].entry # Top
      <3>1. i \in Ids /\ local[i] # Absent /\ local[i].entry # Top
        BY <1>6, <2>1 DEF LoadFragments, WithStatus, Entries, Rows, Shape, TypeOK
      <3>2. Flushed[i] # Absent
        BY <1>6, <3>1, FlushKeepsRows DEF LoadFragments
      <3> QED
        BY <1>6, <3>1, <3>2, FlushKinds DEF LoadFragments, Flush
    <2> QED
      BY <1>6, <2>1, FlushStepCount DEF LoadFragments, history
  <1>7. CASE LoadDeleted
    BY <1>7, FlushStepCount DEF LoadDeleted, history
  <1>8. CASE StartPull
    <2>1. DOMAIN remote' \subseteq Rows(server)
      BY <1>8 DEF StartPull, Entries
    <2> QED
      BY <1>8, <2>1, StillMoves, StillCount DEF StartPull, Marked, TodoKinds
  <1>9. CASE \E i \in ServerIds : PullEntry(i) \/ PullFragment(i)
    BY <1>9, FlushStepCount DEF PullEntry, PullFragment, history
  <1>10. CASE GetFragments
    <2>1. DOMAIN remote' \subseteq DOMAIN remote \cup Rows(server)
      BY <1>10 DEF GetFragments, Under
    <2> QED
      BY <1>10, <2>1, StillMoves, StillCount DEF GetFragments, Fault, history, Marked, TodoKinds
  <1>11. CASE FinishPush \/ FinishPull
    BY <1>11, CommitCount DEF FinishPush, FinishPull
  <1>12. CASE Crash
    BY <1>12, CrashCount
  <1> QED
    BY <1>1, <1>2, <1>3, <1>4, <1>5, <1>6, <1>7, <1>8, <1>9, <1>10, <1>11, <1>12
    DEF Next, Push, Pull

LEMMA CountHolds == Spec => []CountInv
  BY InitCount, StepCount, ShapeHolds, PTL DEF Spec

\* An entry is on the server no more often than its user wrote it and faults happened:
\* every further copy has an edit, a lost answer or a crash that explains it.
THEOREM CopiesExplained == Spec => []DuplicatesExplained
  <1>1. Shape /\ CountInv => DuplicatesExplained
    BY EntryExplained DEF DuplicatesExplained, Explained, Entries, Rows, Shape, TypeOK
  <1> QED
    BY <1>1, ShapeHolds, CountHolds, PTL

-----------------------------------------------------------------------------
(* How old the copy is *)

\* What the server writes carries the time of the step.
ServerFresh ==
    \A i \in ServerIds :
       server'[i] # Absent => \/ server'[i] = server[i]
                              \/ clock' = clock + 1 /\ server'[i].at = clock'

LEMMA AddedFresh == ASSUME Shape, NEW row, Added(row) PROVE ServerFresh
  BY DEF Added, Tick, Now, ServerFresh, Shape, TypeOK

LEMMA RemovedFresh == ASSUME NEW k, Removed(k) PROVE ServerFresh
  BY DEF Removed, ServerFresh

LEMMA OtherDeviceFresh == ASSUME Shape, OtherDevice PROVE ServerFresh
  <1>1. CASE \E row : Added(row)
    BY <1>1, AddedFresh
  <1>2. CASE \E i \in Rows(server) :
               Tick /\ server' = [server EXCEPT ![i].text = Now, ![i].at = Now]
    <2>1. PICK k \in Rows(server) :
             Tick /\ server' = [server EXCEPT ![k].text = Now, ![k].at = Now]
      BY <1>2
    <2>2. k \in ServerIds /\ server[k] \in Row
      BY DEF Rows, Shape, TypeOK
    <2>3. server'[k].at = Now /\ \A i \in ServerIds : i # k => server'[i] = server[i]
      BY <2>1, <2>2 DEF Row, Shape, TypeOK
    <2> QED
      BY <2>1, <2>2, <2>3 DEF ServerFresh, Tick, Now
  <1>3. CASE \E i \in Rows(server) : Tick /\ Removed(i)
    BY <1>3, RemovedFresh
  <1> QED
    BY <1>1, <1>2, <1>3 DEF OtherDevice

\* A past version stays one.
LEMMA PastStays ==
    ASSUME Shape, ServerFresh, NEW i \in ServerIds, NEW row, row.at \in Nat, row.at <= clock,
           PastOf(i, row)
    PROVE  server'[i] # Absent =>
             /\ row.at <= server'[i].at
             /\ row.at = server'[i].at => row.text = server'[i].text
  <1>1. clock \in Nat
    BY BoundAssumption DEF Shape, TypeOK
  <1>2. CASE server'[i] = server[i]
    BY <1>2 DEF PastOf
  <1>3. CASE server'[i] # Absent /\ clock' = clock + 1 /\ server'[i].at = clock'
    BY <1>1, <1>3
  <1> QED
    BY <1>2, <1>3 DEF ServerFresh

LEMMA PastTypes ==
    ASSUME Shape
    PROVE  /\ clock \in Nat
           /\ \A i \in Ids : local[i] # Absent => local[i].at \in Nat
           /\ \A i \in Ids : undo # NoUndo /\ undo[i] # Absent => undo[i].at \in Nat
           /\ \A i \in DOMAIN remote : i \in ServerIds /\ i \in Ids /\ remote[i].at \in Nat
           /\ \A i \in ServerIds : server[i] # Absent => server[i] \in Row /\ server[i].at \in Nat
           /\ \A i \in Ids : edits[i] \in Nat
           /\ pc \in {"pull", "get"} => \A i \in DOMAIN queue : queue[i].at \in Nat
  <1>1. clock \in Nat /\ \A n \in 1 .. MaxTime : n \in Nat
    BY BoundAssumption DEF Shape, TypeOK
  <1>2. \A row \in CopyRow : row.at \in Nat
    BY <1>1 DEF CopyRow
  <1>3. \A row \in Row : row.at \in Nat
    BY <1>1 DEF Row
  <1>4. ASSUME pc \in {"pull", "get"}, NEW i \in DOMAIN queue PROVE queue[i].at \in Nat
    BY <1>1, <1>2, <1>4 DEF Shape, PullShape, Pulled
  <1> QED
    BY <1>1, <1>2, <1>3, <1>4 DEF Shape, TypeOK, Ids

LEMMA InitPast == Init => PastInv
  BY DEF Init, PastInv, PastCopy, Nothing

\* A copy that does not change in a step.
LEMMA CopyStays ==
    ASSUME Shape, ServerFresh, clock' \in {clock, clock + 1}, edits' = edits,
           NEW db, PastCopy(db), \A i \in Ids : db[i] # Absent => db[i].at \in Nat
    PROVE  \A i \in Ids :
             db[i] # Absent =>
               /\ db[i].at <= clock'
               /\ db[i].status # "synced" => edits'[i] # 0
               /\ i \in ServerIds /\ edits'[i] = 0 =>
                    (server'[i] # Absent =>
                       /\ db[i].at <= server'[i].at
                       /\ db[i].at = server'[i].at => db[i].text = server'[i].text)
  BY PastStays, PastTypes DEF PastCopy

LEMMA StillPast ==
    ASSUME Shape, PastInv, ServerFresh, clock' \in {clock, clock + 1},
           UNCHANGED <<local, undo, edits>>,
           \A i \in DOMAIN remote' : \/ i \in DOMAIN remote /\ remote'[i] = remote[i]
                                     \/ /\ i \in Rows(server) /\ remote'[i] = server[i]
                                        /\ UNCHANGED <<clock, server>>,
           pc' \in {"entries", "frags"} => \A i \in DOMAIN queue' \cup todo' : edits[i] # 0,
           pc' \in {"pull", "get"} => \/ DOMAIN queue' = {}
                                      \/ pc \in {"pull", "get"} /\ queue' = queue
    PROVE  PastInv'
  <1>1. PastCopy(local)'
    BY CopyStays, PastTypes DEF PastInv, PastCopy, PastOf
  <1>2. undo # NoUndo => PastCopy(undo)'
    BY CopyStays, PastTypes DEF PastInv, PastCopy, PastOf
  <1>3. ASSUME NEW i \in ServerIds, server'[i] # Absent PROVE server'[i].at <= clock'
    BY <1>3, PastTypes DEF PastInv, ServerFresh
  <1>4. ASSUME NEW i \in DOMAIN remote'
        PROVE  remote'[i].at <= clock' /\ PastOf(i, remote[i])'
    <2>1. CASE i \in DOMAIN remote /\ remote'[i] = remote[i]
      BY <2>1, PastStays, PastTypes DEF PastInv, PastOf
    <2>2. CASE /\ i \in Rows(server) /\ remote'[i] = server[i]
               /\ UNCHANGED <<clock, server>>
      BY <2>2, PastTypes DEF PastInv, PastOf, Rows, Shape, TypeOK
    <2> QED
      BY <2>1, <2>2
  <1>5. ASSUME pc \in {"pull", "get"}, NEW i \in DOMAIN queue
        PROVE  /\ queue[i].at <= clock'
               /\ server'[i] # Absent =>
                     /\ queue[i].at <= server'[i].at
                     /\ queue[i].at = server'[i].at => queue[i].text = server'[i].text
    <2>1. i \in ServerIds
      BY <1>5, PastTypes DEF Shape, PullShape
    <2>2. queue[i].at <= clock /\ PastOf(i, queue[i]) /\ queue[i].at \in Nat
      BY <1>5, PastTypes DEF PastInv
    <2> QED
      BY <2>1, <2>2, PastStays, PastTypes
  <1>6. pc' \in {"pull", "get"} =>
          \A i \in DOMAIN queue' : queue'[i].at <= clock' /\ PastOf(i, queue[i])'
    BY <1>5 DEF PastOf
  <1> QED
    BY <1>1, <1>2, <1>3, <1>4, <1>6 DEF PastInv

\* The user writes with the time of the step; every other row only grows older.
LEMMA WritesPast ==
    ASSUME Shape, PastInv, NEW i \in Ids, NEW row \in CopyRow, Writes(i, row), row.at = Now
    PROVE  PastInv'
  <1>1. /\ clock' = clock + 1 /\ undo' = NoUndo /\ edits' = [edits EXCEPT ![i] = @ + 1]
        /\ local' = [local EXCEPT ![i] = row]
        /\ UNCHANGED <<server, pc, todo, remote, queue>>
    BY DEF Writes, Tick, sync
  <1>2. /\ edits'[i] # 0 /\ \A j \in Ids \ {i} : edits'[j] = edits[j]
        /\ DOMAIN queue \subseteq Ids /\ todo \subseteq Ids
    BY <1>1, PastTypes DEF Shape, TypeOK
  <1>3. \A n \in Nat : n <= clock => n <= clock'
    BY <1>1, PastTypes
  <1>4. ASSUME NEW j \in Ids, local'[j] # Absent
        PROVE  /\ local'[j].at <= clock'
               /\ local'[j].status # "synced" => edits'[j] # 0
               /\ j \in ServerIds /\ edits'[j] = 0 => PastOf(j, local'[j])
    <2>1. CASE j = i
      <3>1. local'[j] = row /\ row.at <= clock'
        BY <1>1, <2>1, PastTypes DEF Now, Shape, TypeOK
      <3> QED
        BY <1>2, <2>1, <3>1
    <2>2. CASE j # i
      <3>1. local'[j] = local[j]
        BY <1>1, <2>2 DEF Shape, TypeOK
      <3> QED
        BY <1>2, <1>3, <1>4, <2>2, <3>1, PastTypes DEF PastInv, PastCopy
    <2> QED
      BY <2>1, <2>2
  <1>5. PastCopy(local)'
    BY <1>1, <1>4 DEF PastCopy, PastOf
  <1>6. \A j \in ServerIds : server'[j] # Absent => server'[j].at <= clock'
    BY <1>1, <1>3, PastTypes DEF PastInv
  <1>7. \A j \in DOMAIN remote' : remote'[j].at <= clock' /\ PastOf(j, remote[j])'
    BY <1>1, <1>3, PastTypes DEF PastInv, PastOf
  <1>8. pc' \in {"entries", "frags"} => \A j \in DOMAIN queue' \cup todo' : edits'[j] # 0
    BY <1>1, <1>2 DEF PastInv
  <1>9. pc' \in {"pull", "get"} =>
          \A j \in DOMAIN queue' : queue'[j].at <= clock' /\ PastOf(j, queue[j])'
    BY <1>1, <1>3, PastTypes DEF PastInv, PastOf
  <1> QED
    BY <1>1, <1>5, <1>6, <1>7, <1>8, <1>9 DEF PastInv

\* A push stamps only what the user wrote, and a pull writes what it was answered.
LEMMA FlushPast ==
    ASSUME Shape, PastInv
    PROVE  PastCopy(Flushed)
  <1>1. ASSUME NEW i \in Ids, Flushed[i] # Absent
        PROVE  /\ Flushed[i].at <= clock
               /\ Flushed[i].status # "synced" => edits[i] # 0
               /\ i \in ServerIds /\ edits[i] = 0 => PastOf(i, Flushed[i])
    <2>1. CASE i \notin DOMAIN queue
      BY <1>1, <2>1, FlushRow DEF PastInv, PastCopy
    <2>2. CASE pc \in {"entries", "frags"} /\ i \in DOMAIN queue
      BY <2>2, FlushRow, PastTypes DEF PastInv
    <2>3. CASE pc = "deletes" /\ i \in DOMAIN queue
      BY <1>1, <2>3, FlushRow
    <2>4. CASE pc \in {"pull", "get"} /\ i \in DOMAIN queue
      <3>1. queue[i].at <= clock /\ PastOf(i, queue[i])
        BY <2>4 DEF PastInv
      <3>2. Flushed[i].text = queue[i].text /\ Flushed[i].at = queue[i].at
        BY <2>4, FlushRow
      <3>3. Flushed[i].status # "synced" => edits[i] # 0
        BY <2>4, FlushRow DEF PastInv, PastCopy
      <3> QED
        BY <3>1, <3>2, <3>3 DEF PastOf
    <2>5. CASE pc = "idle"
      BY <2>1, <2>5 DEF Shape, TypeOK, Nothing
    <2> QED
      BY <2>1, <2>2, <2>3, <2>4, <2>5 DEF Shape, TypeOK
  <1> QED
    BY <1>1 DEF PastCopy

LEMMA FlushStepPast ==
    ASSUME Shape, PastInv, Flush, UNCHANGED <<clock, server, remote, edits>>,
           pc' \in {"entries", "frags"} => \A i \in DOMAIN queue' \cup todo' : edits[i] # 0,
           pc' \in {"pull", "get"} =>
             \A i \in DOMAIN queue' : queue'[i].at <= clock /\ PastOf(i, queue'[i])
    PROVE  PastInv'
  <1>1. PastCopy(local)'
    BY FlushPast DEF Flush, PastCopy, PastOf
  <1>2. undo' # NoUndo => PastCopy(undo)'
    BY DEF Flush, PastInv, PastCopy, PastOf
  <1> QED
    BY <1>1, <1>2 DEF PastInv, PastOf

LEMMA PullStepPast ==
    ASSUME Shape, PastInv, Flush, UNCHANGED <<clock, server, remote, edits>>, pc' \in {"pull", "get"},
           NEW i \in DOMAIN remote, NEW mine \in CopyRow \cup {Absent}, queue' = Change(i, mine)
    PROVE  PastInv'
  <1>1. \A j \in DOMAIN queue' : /\ j = i /\ queue'[j].text = remote[i].text
                               /\ queue'[j].at = remote[i].at
    BY ChangeFacts
  <1>2. remote[i].at <= clock /\ PastOf(i, remote[i])
    BY DEF PastInv
  <1>3. \A j \in DOMAIN queue' : queue'[j].at <= clock /\ PastOf(j, queue'[j])
    BY <1>1, <1>2 DEF PastOf
  <1> QED
    BY <1>3, FlushStepPast

LEMMA PullEntryPast == ASSUME Shape, PastInv, NEW e, PullEntry(e) PROVE PastInv'
  <1>1. e \in DOMAIN remote /\ Flushed[e] \in CopyRow \cup {Absent}
    BY FlushRow DEF PullEntry, Shape, TypeOK, PullShape
  <1> QED
    BY <1>1, PullStepPast DEF PullEntry, history

LEMMA PullFragmentPast == ASSUME Shape, PastInv, NEW f, PullFragment(f) PROVE PastInv'
  <1> DEFINE mine == IF f \in DOMAIN loaded THEN loaded[f] ELSE Flushed[f]
  <1>1. f \in DOMAIN remote /\ mine \in CopyRow \cup {Absent}
    BY FlushRow DEF PullFragment, Shape, TypeOK, PullShape
  <1>2. queue' = Change(f, mine)
    BY DEF PullFragment
  <1> HIDE DEF mine
  <1> QED
    BY <1>1, <1>2, PullStepPast DEF PullFragment, history

\* The requests of a push: only the caller's own rows are marked.
LEMMA PostPast ==
    ASSUME Shape, PastInv, NEW i, Posting(i), ServerFresh, clock' \in {clock, clock + 1},
           UNCHANGED <<local, pc, remote, undo, edits>>,
           queue' \in {queue, Queued(i, [status |-> "synced"])}
    PROVE  PastInv'
  <1>1. /\ pc \in {"entries", "frags"} /\ i \in todo /\ todo' \subseteq todo
        /\ DOMAIN queue' \subseteq DOMAIN queue \cup {i}
    BY PostingFacts DEF Queued
  <1>2. \A j \in DOMAIN queue' \cup todo' : edits[j] # 0
    BY <1>1 DEF PastInv
  <1> QED
    BY <1>1, <1>2, StillPast

LEMMA PostAnsweredPast == ASSUME Shape, PastInv, NEW i, PostAnswered(i) PROVE PastInv'
  <1>1. Posting(i) /\ UNCHANGED <<local, pc, remote, undo, edits>>
    BY DEF PostAnswered
  <1>2. queue' \in {queue, Queued(i, [status |-> "synced"])}
    BY DEF PostAnswered, Marks
  <1>3. ServerFresh /\ clock' \in {clock, clock + 1}
    <2>1. CASE Added(loaded[i])
      BY <2>1, AddedFresh DEF Added, Tick
    <2>2. CASE UNCHANGED <<clock, server>>
      BY <2>2 DEF ServerFresh
    <2> QED
      BY <2>1, <2>2 DEF PostAnswered
  <1> QED
    BY <1>1, <1>2, <1>3, PostPast

LEMMA PostLostPast == ASSUME Shape, PastInv, NEW i, PostLost(i) PROVE PastInv'
  <1>1. ServerFresh /\ clock' \in {clock, clock + 1}
    BY AddedFresh DEF PostLost, Added, Tick
  <1> QED
    BY <1>1, PostPast DEF PostLost

LEMMA PostFailsPast == ASSUME Shape, PastInv, NEW i, PostFails(i) PROVE PastInv'
  <1>1. ServerFresh /\ clock' = clock
    BY DEF PostFails, ServerFresh
  <1> QED
    BY <1>1, PostPast DEF PostFails, history

LEMMA FinishPast ==
    ASSUME Shape, PastInv, NEW rows, PastCopy(rows), Finish(rows),
           UNCHANGED <<clock, server, edits>>
    PROVE  PastInv'
  <1>1. /\ local' = rows /\ undo' = NoUndo /\ pc' = "idle" /\ DOMAIN remote' = {}
    BY DEF Finish, Close, Nothing
  <1> QED
    BY <1>1 DEF PastInv, PastCopy, PastOf

LEMMA StepPast == ASSUME Shape, PastInv, [Next]_vars PROVE PastInv'
  <1>1. CASE User
    BY <1>1, UserWrites, WritesPast
  <1>2. CASE OtherDevice \/ UNCHANGED vars
    <2>1. ServerFresh
      BY <1>2, OtherDeviceFresh DEF vars, ServerFresh
    <2>2. clock' \in {clock, clock + 1} /\ UNCHANGED <<local, sync, undo, history>>
      BY <1>2, OtherDeviceMoves DEF OtherDevice, vars, ServerMoves
    <2> QED
      BY <2>1, <2>2, StillPast DEF sync, history, PastInv
  <1>3. CASE StartPush
    <2>1. ASSUME NEW i \in todo' PROVE edits[i] # 0
      BY <1>3, <2>1 DEF StartPush, WithStatus, Entries, Rows, PastInv, PastCopy, Shape, TypeOK
    <2>2. DOMAIN queue = {}
      BY <1>3 DEF StartPush, Shape, TypeOK, Nothing
    <2>3. ServerFresh
      BY <1>3 DEF StartPush, ServerFresh
    <2> QED
      BY <1>3, <2>1, <2>2, <2>3, StillPast DEF StartPush, history
  <1>4. CASE \E i \in Ids : PostAnswered(i) \/ PostLost(i) \/ PostFails(i)
    BY <1>4, PostAnsweredPast, PostLostPast, PostFailsPast
  <1>5. CASE \E i \in Ids : SendDelete(i)
    <2>1. PICK i \in Ids : SendDelete(i)
      BY <1>5
    <2>2. ServerFresh
      BY <2>1, RemovedFresh DEF SendDelete, ServerFresh
    <2> QED
      BY <2>1, <2>2, StillPast DEF SendDelete, history
  <1>6. CASE LoadFragments
    <2>1. \A i \in todo' : edits[i] # 0
      BY <1>6 DEF LoadFragments, WithStatus, Rows, PastInv, PastCopy, Shape, TypeOK
    <2> QED
      BY <1>6, <2>1, FlushStepPast DEF LoadFragments, history, Nothing
  <1>7. CASE LoadDeleted
    BY <1>7, FlushStepPast DEF LoadDeleted, history
  <1>8. CASE StartPull
    <2>1. DOMAIN queue = {} /\ ServerFresh
      BY <1>8 DEF StartPull, Shape, TypeOK, Nothing, ServerFresh
    <2>2. \A i \in DOMAIN remote' : i \in Rows(server) /\ remote'[i] = server[i]
      BY <1>8 DEF StartPull, Entries
    <2> QED
      BY <1>8, <2>1, <2>2, StillPast DEF StartPull
  <1>9. CASE \E i \in ServerIds : PullEntry(i) \/ PullFragment(i)
    BY <1>9, PullEntryPast, PullFragmentPast
  <1>10. CASE GetFragments
    <2>1. \A i \in DOMAIN remote' : \/ i \in DOMAIN remote /\ remote'[i] = remote[i]
                                    \/ i \in Rows(server) /\ remote'[i] = server[i]
      BY <1>10 DEF GetFragments, Under
    <2>2. ServerFresh
      BY <1>10 DEF GetFragments, ServerFresh
    <2> QED
      BY <1>10, <2>1, <2>2, StillPast DEF GetFragments, history
  <1>11. CASE FinishPush \/ FinishPull
    BY <1>11, FlushPast, FinishPast DEF FinishPush, FinishPull
  <1>12. CASE Crash
    <2>1. PastCopy(IF undo = NoUndo THEN local ELSE undo)
      BY DEF PastInv
    <2> QED
      BY <1>12, <2>1, FinishPast DEF Crash
  <1> QED
    BY <1>1, <1>2, <1>3, <1>4, <1>5, <1>6, <1>7, <1>8, <1>9, <1>10, <1>11, <1>12
    DEF Next, Push, Pull

LEMMA PastHolds == Spec => []PastInv
  BY InitPast, StepPast, ShapeHolds, PTL DEF Spec

\* What the copy shows of a row its user never wrote is a version the server had: no
\* newer, and the same one at the same time.
THEOREM UntouchedPast == Spec => []UntouchedIsPast
  <1>1. Shape /\ PastInv => UntouchedIsPast
    BY DEF UntouchedIsPast, PastInv, PastCopy, PastOf, Rows, Shape, TypeOK
  <1> QED
    BY <1>1, ShapeHolds, PastHolds, PTL
=============================================================================
