------------------------------- MODULE Backup -------------------------------
(***************************************************************************)
(* The nightly backup (deploy/backup_logbook.py) beside the running        *)
(* content service: a snapshot of the database, then a mirror of the       *)
(* bundle files, directory by directory, then the removal of old           *)
(* snapshots.  It can be killed between any two steps, and a snapshot can  *)
(* be restored, onto the old disk or an empty one.                         *)
(***************************************************************************)
EXTENDS ContentStore

CONSTANTS
    Dir,          \* bundle -> the directory of its file, named by a hash prefix
    Keep,         \* snapshots that a run keeps
    MaxRuns       \* bound on the runs and restores in one behaviour

ASSUME BackupAssumption ==
    /\ Keep \in Nat \ {0}
    /\ MaxRuns \in Nat
    /\ DOMAIN Dir = Bundles

VARIABLES
    snapshots,   \* database copies under their final names, oldest first, and
                 \* whether their run ended and reported them
    mirror,      \* bundles in the mirror
    run,         \* the backup run: its phase and what it has still to visit
    runs,        \* runs and restores so far
    gone,        \* history: bundles whose file ever disappeared from the service
    covered      \* history: a run has completed

backupVars == <<vars, snapshots, mirror, run, runs, gone, covered>>

Idle == [pc |-> "idle", copy |-> <<>>, dirs |-> {}, files |-> {}]
Database == [current |-> current, revisions |-> revisions, audit |-> audit]

BundlesOf(db) == {db.revisions[k].bundle : k \in DOMAIN db.revisions}
Named(db) == Append(snapshots, [db |-> db, reported |-> FALSE])

-----------------------------------------------------------------------------
\* The service goes on; a file that disappears is remembered.
Service ==
    /\ Next
    /\ gone' = gone \cup lost'
    /\ UNCHANGED <<snapshots, mirror, run, runs, covered>>

\* The online backup reads one committed state of the database, into a partial
\* folder that gets its final name in a step of its own.
CopyDatabase ==
    /\ run.pc = "idle" /\ runs < MaxRuns
    /\ run' = [Idle EXCEPT !.pc = "copied", !.copy = Database]
    /\ runs' = runs + 1
    /\ UNCHANGED <<vars, snapshots, mirror, gone, covered>>

\* Fault: a directory that the mirror has already is not visited again.
NewDirs == {Dir[b] : b \in store} \ {Dir[b] : b \in mirror}
DirsToVisit == {Dir[b] : b \in store}

Newest(dbs) == SubSeq(dbs, IF Len(dbs) > Keep THEN Len(dbs) - Keep + 1 ELSE 1, Len(dbs))

\* Fault: the old snapshots are removed as soon as the new one is there.
FinishAndPrune ==
    /\ run.pc = "copied"
    /\ snapshots' = Newest(Named(run.copy))
    /\ run' = [Idle EXCEPT !.pc = "mirror", !.dirs = DirsToVisit]
    /\ UNCHANGED <<vars, mirror, runs, gone, covered>>

\* The snapshot gets its name and mirror_bundles lists the directories.
FinishSnapshot ==
    /\ run.pc = "copied"
    /\ snapshots' = Named(run.copy)
    /\ run' = [Idle EXCEPT !.pc = "mirror", !.dirs = DirsToVisit]
    /\ UNCHANGED <<vars, mirror, runs, gone, covered>>

MirrorDir ==
    /\ run.pc = "mirror" /\ run.files = {}
    /\ \E d \in run.dirs :
         run' = [run EXCEPT !.dirs = @ \ {d}, !.files = {b \in store : Dir[b] = d}]
    /\ UNCHANGED <<vars, snapshots, mirror, runs, gone, covered>>

\* A file that is gone by now is skipped; one that the mirror has is kept.
MirrorFile ==
    /\ run.pc = "mirror"
    /\ \E b \in run.files :
         /\ run' = [run EXCEPT !.files = @ \ {b}]
         /\ mirror' = mirror \cup ({b} \cap store)
    /\ UNCHANGED <<vars, snapshots, runs, gone, covered>>

Prune ==
    /\ run.pc = "mirror" /\ run.dirs = {} /\ run.files = {}
    /\ snapshots' = Newest([snapshots EXCEPT ![Len(snapshots)].reported = TRUE])
    /\ run' = Idle
    /\ covered' = TRUE
    /\ UNCHANGED <<vars, mirror, runs, gone>>

\* The run is killed or fails: a partial folder is as good as no snapshot.
Interrupt ==
    /\ run.pc # "idle"
    /\ run' = Idle
    /\ UNCHANGED <<vars, snapshots, mirror, runs, gone, covered>>

\* The restore procedure with the service stopped: the database of a snapshot
\* whose run reported success, and the mirror copied over what the disk still
\* has, all of its files or none.
RestoreSnapshot ==
    /\ runs < MaxRuns
    /\ \E k \in DOMAIN snapshots, kept \in {store, {}} :
         /\ snapshots[k].reported
         /\ current' = snapshots[k].db.current
         /\ revisions' = snapshots[k].db.revisions
         /\ audit' = snapshots[k].db.audit
         /\ store' = kept \cup mirror
    /\ lost' = gone \ store'
    /\ req' = [w \in Workers |-> NoRequest]
    /\ run' = Idle
    /\ runs' = runs + 1
    /\ UNCHANGED <<sent, snapshots, mirror, gone, covered>>

BackupInit ==
    /\ Init
    /\ snapshots = <<>> /\ mirror = {}
    /\ run = Idle /\ runs = 0
    /\ gone = {} /\ covered = FALSE

BackupNext ==
    \/ Service
    \/ CopyDatabase \/ FinishSnapshot \/ MirrorDir \/ MirrorFile \/ Prune
    \/ Interrupt \/ RestoreSnapshot

BackupSpec == BackupInit /\ [][BackupNext]_backupVars

-----------------------------------------------------------------------------
(* Properties *)

\* backup_logbook.py:9-11, "the mirror taken afterwards holds every bundle the
\* snapshot refers to": a snapshot whose run reported success can be restored in
\* full, whatever the service published while the mirror was taken, save for
\* files that disappeared from the service itself.
Covers(snapshot) == BundlesOf(snapshot.db) \subseteq mirror \cup gone
ReportedRestorable ==
    \A k \in DOMAIN snapshots : snapshots[k].reported => Covers(snapshots[k])

\* Once a run has completed there is always a reported snapshot, however many
\* later runs are killed half-way (old snapshots are removed only after the
\* mirror is complete).
AlwaysRestorable == covered => \E k \in DOMAIN snapshots : snapshots[k].reported

\* A service brought back from any reported snapshot, on an empty disk too, is as
\* sound as it was: every revision has its file unless that had disappeared from
\* the service (Backed), pointers and trail agree, and it goes on soundly from
\* there with revision ids that were used before.
ServiceStaysSound == Backed /\ ShowsOwnRevision /\ AuditChain
=============================================================================
