# A verification development for lightfall-logbook

TLA+ models of the logbook server and its offline client
(`src/src/lightfall_logbook`) and of the backup script
(`src/deploy/backup_logbook.py`), TLC runs over small instances, and TLAPS proofs for
every value of the constants.

## 1. Inventory

The server is a Litestar REST service. Several uvicorn workers (two in
`deploy/lucid-logbook.service`) share one SQL database (SQLite through aiosqlite,
Postgres possible), two directories of files, and a NATS bus for best-effort change
events. No lock is held across workers: everything that keeps them apart is a primary
key, a unique constraint, a version column or a compare-and-set. The client keeps an
offline copy of the logbook in a SQLite database of its own and synchronises it over
HTTP.

| Component | State | Operations | Hard behaviour | What makes it correct |
|---|---|---|---|---|
| Scoped settings (`scoped_api.py` 294-545, `scoped_store.py`, `scoped_models.py`) | `scoped_settings`, `setting_locks`, `setting_audit` | PUT / DELETE a value, lock, unlock, migrate a legacy value, read audit | a handler reads rows, locks and the row again, then commits; versions restart after a reset | no update is lost, the trail explains values and locks, nothing stored is overwritten by an insert |
| Settings feed (`_publish`, `events.py`, snapshot handler) | events, ETags, the clients' copies | publish, snapshot with 304 | events lost, late, out of order; two queries in one snapshot; a crash after the commit; a migration without event | a copy is never out of date without a reason to refetch |
| Shared content (`content_api.py`, `bundle_store.py`) | `content_items`, `content_revisions`, files by sha256 | publish, retract, restore, list, download | file stored before the transaction, pointer read before it is moved, retries | a register with history: own revisions only, file behind each, gapless trail |
| Setting keys (`scoped_api.py` 104-127, 384-413, 547-655) | `setting_keys` | propose, approve, reject, revoke, seed | updates write only changed columns, no version | only admins decide what is effective |
| Scope tree (`scoped_api.py` 223-292, `load_tree`, `seed_tree`) | `scope_nodes` | add, remove, seed | emptiness tested before the delete; every worker seeds at every start | the trail tells who put a scope there; what stands keeps a scope from removal |
| Backup (`deploy/backup_logbook.py`) | snapshots, mirror | copy, mirror, prune, restore | the service runs on; killed half-way | a reported snapshot restores in full |
| Local store (`local_store.py`) and the logbook handlers (`api.py` 122-350) | offline copy with `sync_status`; entries and fragments | edit, push, pull | edits during a sync, lost answers, retries, offline ids, autoflush and rollback | what is called synced was sent, a pull spares what was not, the copy catches up |
| Images (`api.py` 365-510, `image_store.py`) | image files, `image_owners`, avatars | upload, delete, drop a fragment, avatar hook | file and rows are not one transaction; files written in place; check, then merge | what an answer said holds, a retry repairs, an image keeps its owner |
| API keys and auth (`apikeys.py`, `auth.py`) | `api_keys`, the mode of the environment | mint, revoke, look up, admit | expiry boundary, modes that change at a restart, keys that mint keys | a dead key opens nothing; names and rights come from Keycloak |
| Start-up (`app.py`, seeding, migration) | all tables | seed, migrate, add columns | all workers do it at once, while others serve | each row inserted once |
| Configuration, discovery, NATS tokens, deployment scripts | none at run time | pure functions, operator scripts | - | - |

`PROJECT.json` has the same list with the status of each part, and the hazards: the
lines of the code where an interleaving, a crash or a stale read bites, with the
property that covers each, or why none does.

How the code maps to steps, in every module:

- A SELECT (`session.get`, `select`, `session.merge`) autocommits: it is a step of its
  own that copies what it reads into the request.
- The first INSERT, UPDATE or DELETE up to `commit` is one step: SQLite has one
  writer, and Postgres serialises the writers of a row. Whether it commits is decided
  against the database of that moment: a duplicate key, a version that moved, a
  compare-and-set that matches nothing roll all of it back. Isolation beyond that is
  not assumed, which is why the reads before it may be outdated. The long transaction
  of the offline client is the exception: `LocalSync` models its flushes, the write
  lock it then holds, and its rollback.
- SQLAlchemy writes only the columns that differ from the row it loaded.
- A file written or removed outside a transaction is a step of its own.
- An error answer, a crash and a cancelled request leave the database alone, and files
  as they are; an image file (`Images`) may be left cut off.

## 2. Modules

| Module | Models | Correspondence |
|---|---|---|
| `ScopedSettings` | `put_setting`, `delete_setting`, `put_lock`, `delete_lock`, `migrate_user_settings` | `settings`, `locks`, `audit` are the three tables for one key; `req[w]` holds the local variables of the handler that worker `w` runs. `ReadValues`, `Check`, `LoadRow`, `LoadLock` are its reads in order, `CommitPut/Delete/Lock/Unlock/Migrate` its transaction, `Publish` the event. `CheckWrite` and `Resolve` stand for the two functions of the external `lightfall_settings` package. |
| `SettingsLedger` | the promise of settings to a reader of the trail | one scope at a time changes its value or its lock, together with its records; the old value of a record is the one that was stored, as long as the scope was never reset. `ScopedSettings` implements it (`ImplementsLedger`): the value of a scope is that of its row, locks and trail are the tables. |
| `SettingsFeed` | event, snapshot, ETag, a client that refetches | extends `ScopedSettings`; `FetchRows` and `FetchLocks` are the two queries of the snapshot handler, `due` the events on the bus, `lost` the scopes whose latest change was not announced (event dropped, or a migration). |
| `ContentRegister` | the promise of shared content | one atomic pointer per item and a growing list of revisions. |
| `ContentStore` | `publish`, `retract`, `restore`, `BundleStore` | implements `ContentRegister` (`ImplementsRegister`, the identity mapping on `current` and `revisions`). `store` is the set of files, `lost` those that disappeared. The event after a commit changes no state here and is left out. |
| `Backup` | `backup_logbook.py` and the restore procedure | extends `ContentStore`; `run` is the state of the script, every step of it interleaves with the service. |
| `KeyRegistry` | `propose`, `approve`, `reject`, `revoke`, `_key_pending`, `seed_keys`, and the use of `spec_for` by `put_setting` | `row` is the `setting_keys` record of one key. A record loaded by a handler stays in `req[w].row`; `Merged` is the UPDATE of the columns that differ from it. A write asks for the spec (`CheckKnown`) and stores under it later (`StoreValue`), or is refused and may propose (`KeyPending`). `endorsed` and `used` are history. |
| `SpecRegister` | the promise of the registry to those who write under a key | one spec in force at most, endorsed by a review; a write asks once and stores under the spec it was told. `KeyRegistry` implements it (`ImplementsRegister`): in force is what `spec_for` finds in the record, asked for is what a write on its way to `StoreValue` holds. |
| `ScopeTree` | `add_scope`, `remove_scope`, `seed_tree`, `load_tree`, and what writers store at a scope | `nodes` is `scope_nodes`, `content` whether a scope has settings or locks, `trail` its last scope record. `CheckParent`, `CheckAbsent`, `CommitAdd`; `LoadNode`, `CheckChildren`, `CheckSettings`, `CheckLocks`, `CommitRemove`; `LoadTree`, `CommitContent`; `SeedLook`, `CommitSeed` for each configured scope, again after `Restart`. `standing` is history: what a removal found when it began, less what went away since. |
| `LocalSync` | `LocalStore` and the logbook handlers of one user | `local` is the copy, `server` the server's rows. The sync is a program with a counter `pc`: `StartPush`, `PostAnswered/Lost/Fails`, `LoadFragments`, `LoadDeleted`, `SendDelete`, `FinishPush`; `StartPull`, `PullEntry`, `GetFragments`, `PullFragment`, `FinishPull`. `queue` holds the changes of its session that are not flushed, `undo` what a rollback restores, `loaded` the objects its identity map keeps. `User` edits in sessions of its own between any two steps; `OtherDevice` edits the server. `copies`, `edits`, `dirty` and `overlapped` are history: what the server took of a row, how often its user wrote it, what was unsynced when a pull began, and the rows whose last edit came while a push was under way. |
| `Images` | `upload_image`, `delete_image`, `delete_fragment` of an image, `profile_image_id` with its hook | `files` is the storage directory, with the state of each file: open and still empty, whole, or torn (cut off when its writer died, or mixed by two writers); `linked` the workers whose open file is still the one in it. `SaveUpload` and `WriteFile` are the two halves of `path.write_bytes`. `owner` is the `image_owners` table. A profile image may be anybody's, as in `put_setting`. `promise` and `alone` are history: what the last answer said of an image, and which requests nothing overlapped. |
| `KeyLife` | the promise of an API key | issued once, opens doors while it lives, never again when dead. |
| `ApiKeys` | `mint_key`, `lookup_key_by_secret`, `revoke_key`, `AuthController`, `CombinedAuthMiddleware` | implements `KeyLife` (`ImplementsKeyLife`: a row maps to none, live or dead by its revocation and its expiry, an admitted request to an open door). `mode` is the environment: Keycloak, dev mode, or neither. Keycloak is external: who is staff, and tokens that claim it for a while after. |
| `*Proofs` (8 modules) | the theorems of the module they are named for; those of `Backup` are in `ContentStoreProofs` | |
| `MC*` | instances for TLC | |

`SettingsFeed` composes with `ScopedSettings`, and `Backup` with `ContentStore`, by
extending it: every step of the larger module is a step of the smaller one beside its
own. `KeyRegistry` and `ScopeTree` show what a write takes from a registry and a tree
that change under it; in `ScopedSettings` both are constants.

Operators marked `Fault:` are not part of any specification: each is a plausible bug
of the definition next to it, kept to show that the property named in `PROJECT.json`
fails with it.

## 3. Runs

| Run | Instance | Shows |
|---|---|---|
| `settings_all` | facility, beamline, a user scope, and a user scope with or without a stray row, maintainer and admin, 2 workers, 4 requests or migrations, 3.5 million states | `TypeOK`; `AuditExplainsValue` and `LockTrail`: the trail explains what is stored although records are computed from outdated rows; `InsertNeverOverwrites`; `AcceptedReplacesSeen`: no lost update at a scope that nobody reset |
| `settings_feed` | facility and a user scope, one actor, 2 workers that also migrate, one client, 125,000 states | `NeverStaleInSilence`; `ImplementsLedger`, here since comparing each step with the promise is slow in the instance above; `CatchesUp` under fairness |
| `content` | 2 workers, items and bundles, 5 requests, 196,000 states | `ShowsOwnRevision`, `Backed`, `AuditChain`, `ImplementsRegister` |
| `backup` | 1 worker, 1 item, 3 bundles in 2 directories, 3 requests, 3 runs or restores, `Keep = 1`, 1.7 million states | `ReportedRestorable`, `AlwaysRestorable`, `ServiceStaysSound` |
| `registry` | one key, 2 workers, 2 maintainers, 2 specs of which one is seeded, 5 requests, 1 restart, 198,000 states | `UsedWasEndorsed`: no value is stored under a spec that nobody in charge put in force; `OnlyReviewGrants`; `FirstProposalStands` |
| `tree` | 2 workers, a configured beamline and its branch, a beamline that is not configured, 5 requests, 1 restart, 446,000 states | `TrailExplainsTree`, `RemovalSeesWhatStands`, `ServingMeansSeeded` |
| `sync` | 2 rows made offline, 4 edits or rows added on either side, 1 fault, 495,000 states | `SyncedWasTaken`; `OnlyOverlapLosesEdits`: an edit is lost only if it overlaps with a push; `DuplicatesExplained`; `UntouchedIsPast`; `PullKeepsUnsynced`, which is not the documented rule (below); `CopyCatchesUp` under fairness |
| `images` | 2 workers, 2 users, 2 images, 4 requests, 1.0 million states | `PromiseKept`: what an answer said holds, and a 201 that wrote the file has it whole; `RetryNeverRefused`, `NoTakeover` |
| `apikeys` | 2 workers, 2 users of whom one may be staff, 2 keys, 2 handles, 3 requests, 3 instants, 2.9 million states | `IdentityVouched`: keys older than `mint_mode` aside, every name comes from Keycloak; `AuthorityBounded`, `RevokedStays`, `ImplementsKeyLife` |
| `settings_loser` | one row, 2 workers | **violated**: a PUT that repeats what it loaded is accepted although it lost the race |
| `settings_lockrace` | 2 workers | **violated**: a lock committed between the check and the commit of a PUT does not stop it |
| `sync_lostedit` | 1 row, 3 edits, no faults | **violated**: an edit made while its row is being pushed is marked synced and never sent |

Each passing run also checks a type invariant where its module has one of its own
(`settings_feed` and `backup` use those of the modules they extend).

Bounds. Two workers are enough for every race of a read with one commit. The bounds on
requests (`MaxRequests`), restarts, runs and faults are chosen so that a cycle can
close: write, reset, write again with a lock or a third party between (4 requests);
add, remove, add again around a removal that is still looking, with a worker seeding
meanwhile (5 requests, 1 restart); publish, back up, restore, publish again (3 and 3);
upload, delete killed half-way, upload killed in mid-write, upload again (4). In `sync`, `MaxTime` bounds
the edits on both sides together: two edits of one row, a push that duplicates it and
another device fit in 4. In `apikeys` a life of 2 ticks, a token of 1 and 3 instants
let a token outlive a membership and a key outlive the token. The proofs do without
any of these bounds. Symmetry is used on workers, values, items, bundles, users and
keys, only in runs without liveness. Deadlock is not checked: when the requests are
used up, the systems stop.

Fairness. In `SettingsFeed`, a worker that has a request goes on (the asyncio loop
runs ready tasks), an event after a commit is sent or dropped, and the client fetches
after an event. In `LocalSync`, the steps of a sync that has begun are weakly fair, and
starting a pull is strongly fair: the client (external; it calls `sync_from_server`
again and again) runs one sync at a time, and pushes may come in between for ever. No
fairness is assumed of users, other clients, crashes or losses.

### What the violated runs mean

- `LoserIsRefused`: the comment at `scoped_models.py:29` says a concurrent writer makes
  the loser fail. Worker 1 loads version 1 with value x; worker 2 changes it to y,
  version 2; worker 1, whose request sets x by the same author again, changes no
  column, so no UPDATE and no version test happens. It answers 200 with value x and
  version 1 and records "set x to x", while y is stored. `AuditExplainsValue` says
  what survives: records with old = new aside, the trail is right.
- `LockFreezes`: `tests/test_scoped_locks_api.py:15` shows that a lock refuses writes
  with 423. A PUT that passed the check before the lock committed still commits after
  it, since the version of the row is untouched by the lock.
- `SyncedWasSent`: `local_store.py:4` says that unsynced changes are tracked by
  `sync_status`. `sync_to_server` reads the pending entries, awaits the POST of each and
  sets the status of its own object to synced (line 231). An `update_entry` that runs
  during the await writes the new text and "pending"; the flush then writes the one
  column that the sync changed, and the new text is marked synced. No later push sends
  it. What survives: some text of the row reached the server (`SyncedWasTaken`), and the
  very text that is called synced did, unless the user's last write of the row came
  while a push was under way (`OnlyOverlapLosesEdits`).

### Disagreements that passing runs show

These are findings too; the property of the run states what the code does.

- `PullKeepsUnsynced` (run `sync`): `local_store.py:6` and `:277` speak of
  last-write-wins per fragment. A pull takes the server's version only of a row whose
  status is synced (lines 312 and 341): a row that is pending or deleted stands, although
  the server's version is later, and the next push sends the older text or the deletion.
- `PromiseKept` (run `images`): `api.py:382` calls the re-upload of an image the caller
  owns a no-op success. It tests for row and file (line 400), and `image_store.py:55`
  writes in place. When the row is there and the file was lost (a delete killed before
  its commit, the avatar hook), an upload that is killed in mid-write leaves a truncated
  file, over which the next retry answers 201 without writing. The same happens when two
  uploads of one id by one user overlap: the first commits the row, the second opens the
  file again and dies. What survives: the file of a 201 is there, and it is whole if that
  request wrote it and nothing overlapped.

### Other behaviour met on the way

- Settings: with resets an old `If-Match: 1` matches a row that was made again, which is
  why `AcceptedReplacesSeen` speaks of scopes that nobody reset; the loser of two
  resets answers 500; a lock may freeze an inherited value that was reset meanwhile. A
  user who resets a migrated value gets it back when a worker starts, and no event tells
  the clients. After a reset the old value in an audit record may be false: the row of
  version 1 that a PUT loaded is deleted and made again at version 1 with another value,
  the UPDATE matches it, and the record names the value that was loaded. That is why
  `SettingsLedger` asks old values to be true only where nobody has reset the scope.
- Keys of settings: a proposal made from a rejected record takes a key that was approved
  meanwhile out of force (`OnlyReviewGrants` speaks only of the other direction), and an
  approval that races a rejection may leave a record approved without a spec, which
  counts as not approved.
- Tree: what is stored while a removal is looking stays under a scope that is gone, and
  a branch may be added under a beamline that is just going. A restart brings a removed
  configured scope back, after the record of its removal.
- Sync: a pull may overwrite an edit made after it loaded the row; an edited row that
  came from the server is POSTed as a new one; a fragment of an entry made offline is
  refused each time, since the server knows the entry under another id; a fragment that
  was deleted before it was pushed, or whose DELETE lost its answer, is asked for
  and answered 404 at every push. While the session of a sync holds SQLite's write lock,
  edits wait.
- Images: two first uploads of one id by two users both pass the check, and the second
  merge takes the row over; outside such an overlap no owner changes (`NoTakeover`). The
  second of two first writes of one legacy setting answers 500. After two overlapping
  uploads of one id the bytes may be one user's and the row another's, or the bytes of
  both. `put_setting`
  stores any value as `profile_image_id` and the hook unlinks the file that the value
  named before: of an image of another user too, whose row stays. That counts as a request
  on the image, which ends what `PromiseKept` says of it.
- Keys of the API: a key from before the column `mint_mode` is admitted in every mode
  (`apikeys.py:192` refuses "dev" only), though it may have been minted in dev mode under
  any name. `IdentityVouched` excepts these keys and shows that nothing later carries
  such a name on: they mint nothing under Keycloak and dev keys elsewhere, and none is
  left `MAX_EXPIRES_IN_SECONDS` after the column was added. With Keycloak on, a
  request that came with a key cannot mint, and the test of `mint_mode` would refuse a
  key minted by one as well; either alone keeps `AuthorityBounded` in this instance.

## 4. Proofs

The eight proof modules are checked by TLAPS from the assumptions named in the
component modules (scopes form chains that contain themselves, admins are writers,
branches are not beamlines, sentinels lie outside the data). The sets of workers,
scopes, values, items, bundles, users, images and keys are arbitrary, and every bound
is any natural number. `PROJECT.json` lists the theorems; the argument of each:

Scoped settings (`ScopedSettingsProofs`). `TypeCorrect`, `TrailExplains`,
`LocksExplained`, `NeverOverwrites`, `ReplacesSeen` and `KeepsLedger`. The two about the
trail are invariants inductive relative to `TypeOK`. One would expect the trail to need
that a loaded row whose version is still the stored one has the stored value, which
resets make false (versions restart). `TrailExplains` does without: every commit either
appends a changing record that names the value it stores, or a record with old = new and
leaves the value alone; this is where it matters that an UPDATE writes only changed
columns. `ReplacesSeen` orders rows by version (`Older`): as long as the trail of a
scope has no reset, rows only grow, the row that a client saw is an earlier one or the
current one, and past If-Match the row that the handler loaded is the one its client
saw. That a reset is never forgotten by a trail (`ResetsStay`) carries this from step to
step. `KeepsLedger` maps every commit to one step of `SettingsLedger` and every other
step to a stutter. What it needs beyond the types is `LoadedIsOlder`: what a request
loaded is an earlier row of its scope or the current one, unless the scope was reset
since. A commit that gets past the version test then finds the row it loaded, so that
the old value of its record is the one it replaces.

Feed (`SettingsFeedProofs`). `NoSilentStaleness`, `FeedServesSettings` and
`FeedNeverOverwrites`. `FeedServesSettings` says that every behaviour of the feed is one of
`ScopedSettings`, whose theorems therefore hold of it; the last one is such a case. For
the first, the invariant `Informed` makes a fetch
under way stand for the copy it will overwrite: its rows are right or there is news,
whatever the copy is now. Every commit leaves its worker about to publish, or its scope
among the unannounced; the locks that a fetch combines with its earlier rows are those of
the moment it ends; and an equal tag means an equal copy.

Content (`ContentStoreProofs`). The inductive invariant is `TypeOK /\ ShowsOwnRevision /\
Backed /\ AuditChain`, where `TypeOK` includes what each request has established by its
phase (`Knows`): a publish on its way to commit has its file stored, a restore names a
revision of its own item. These facts are stable because revisions and files are only
added to (a lost file moves to `lost`). `Implements` shows that every commit maps to
one step of `ContentRegister` and every other step to a stutter; publish uses that the
pointer has not moved since `AlreadyShown` was found false.

Backup (in `ContentStoreProofs`). `SnapshotsRestorable`, `OneIsLeft`, `RestoredIsSound`.
A snapshot refers to bundles that have files when it is taken (`Backed`). From then on,
what the run has still to visit, the mirror and the files the service lost cover that
snapshot: the run leaves a file out only after it mirrored it or found it in the mirror,
and the service never takes files away by itself. When nothing is left to visit the
mirror covers the snapshot. Prune keeps the newest, which is the one just reported. A
restored database is one of the snapshots, and all of them satisfy the invariant of
`ContentStoreProofs`.

Key registry (`KeyRegistryProofs`). `TypeCorrect`, `OnlyEndorsedUsed`, `GrantsByReview`,
`FirstStands`, `ServesRegister`. An UPDATE mixes the columns of two records, so that
nothing can be said of a status and a spec together: a record may be approved with the
spec of an approval other than the last, or with none. The invariant is therefore about
the spec column alone: in the record, and in every record a handler still holds, it is
endorsed or empty, because a proposal never writes it and `Merged` takes it from one of
its two records. `GrantsByReview` adds that a proposal changes only what was rejected
when loaded, so that its UPDATE always writes the status, and that a rejection never
writes an approved one. `ServesRegister` follows: a commit of an approval or a seed is a
review (with a spec in force that may be another one's), any other commit leaves what is
in force or withdraws it. No run has `ImplementsRegister` of this module among its
properties; TLC confirms it on the instance of `registry` without symmetry (780,000
states) when it is added there.

Scope tree (`ScopeTreeProofs`). `TypeCorrect`, `TrailSound`, `ServingIsSeeded`,
`RemovalSound`. The first two are inductive with the shapes of the requests. For
`ServingIsSeeded` the invariant speaks of every worker: a configured scope is among those
it has yet to seed, or stored, or its trail has a record.
For `RemovalSound` it says what a removal has already excluded at each of its reads: past
the query for branches no branch stood all the time, and so on.

API keys (`ApiKeysProofs`). `TypeCorrect`, `NoInventedNames`, `RightsEnd`,
`RevocationHolds`, `KeepsPromise`. Three facts are carried together: about keys (a key
minted with a token has an owner Keycloak vouched for, and if it carries admin rights
its owner is staff or it expires within `TokenLife + MaxExpires` of the end of that),
about requests (what admitted them was valid at this instant, since time passes between
requests only), and about names. Dev-mode keys are the exception that `Valid` closes
outside dev mode; keys without a mode are one that it leaves open, and about those only
their last instant is known. `KeepsPromise` maps every step to one of `KeyLife` or a stutter; a
tick lets several keys die at once, which is why `KeyLife` allows it.

Images (`ImagesProofs`). `TypeCorrect`, `PromisesHold`, `RetriesSucceed`,
`TakeoverNeedsOverlap`. The invariant says what a request that nothing overlapped knows
of the row and the file at each of its phases, that nobody else works on the image of such
a request, that a file stands open and empty only while somebody writes it, and that a
promise is only standing while nobody works on its image. A lone upload that finds row
and file therefore never takes a file that another is just writing for a stored one.

Local store (`LocalSyncProofs`). `TypeCorrect`, `SyncedTaken`, `OverlapOnly`,
`CopiesExplained`, `UntouchedPast`, `UnsyncedKept`. A row is in up to four places at
once: in the copy, among the changes of the session that wait for a flush, in its identity
map, and in the state that a rollback brings back. A property of the copy alone is not
inductive, because each of the other three may become the copy. `Shape` says what each
place can hold at each point of the program; on top of it,
`TakenInv` says that what is queued as synced, and what a rollback restores as synced,
was taken by the server, and that outside overlaps the object that is sent has the text of
the row. `KeptInv` says that a pull neither queues nor has loaded as synced a row that was
unsynced when it began. `CountInv` keeps account of a row that may still be sent: its user
wrote it, or a fault happened, once more often than the server has copies; a row is
queued as synced only after that was used up, and a rollback, which gives it back, is a
fault. `PastInv` gives the order in time: a write on the server takes a later time than any
row has, so what a pull was answered, queued or had restored stays a past version of the
server's row.

Only model-checked. `CatchesUp` and `CopyCatchesUp`: liveness and fairness are beyond the
prover.

## 5. What is not modelled

- Authorisation detail: the roles of `ScopedSettings` are the constants `Writers` and
  `Admins`, and handlers of the other modules start past the check of their role. Where
  names and groups come from is `ApiKeys`. Signatures of tokens are a library's.
- Reviewers, times and notes of a key record; labels of scopes; the read-only handlers
  (lists, downloads, history), which return one state.
- JSON values, reasons, times, wording and status codes. A PUT is modelled with a
  value the spec accepts (an invalid one is refused by `check_write` before any row
  is read). A legacy value that is JSON null, legacy rows of a beamline and ids that
  cannot name a scope are skipped or left out of the migration.
- On Postgres, ids of rolled-back revisions leave gaps; the model numbers revisions
  as SQLite does. The handlers that `LocalSync` talks to are single steps. Two
  things are lost by that. Fragments added at once may get the same position. And
  `updated_at` is stamped before the UPDATE gets the write lock, on SQLite too: of two
  PUTs of one row at once the one with the earlier stamp may commit last, the row's time
  then goes back, and a copy that pulled the other one never sees the text that stands.
  `UntouchedIsPast` and `CopyCatchesUp` hold as long as writes of one row commit in the
  order of their stamps.
- Backup: damaged files, extra files and a clock that jumps back.
- Logbook: positions of fragments, search, and the logbook row made on first use, whose
  unique user id refuses a second one. Images: two file types under one id, and images
  whose id the server draws, which nothing can race.
- `remediate_scoped_settings.py` is run by hand on the SQLite file, with the service
  stopped (its header says so), in one transaction. Its delete, put and conversion write
  each row (version 1, else version + 1) together with an audit row, as the API does, but
  check no lock, send no event and clear no legacy row: a value it deletes comes back by
  `migrate_user_settings` at the next start, as its own report warns. Nothing interleaves
  with it, so a model would only repeat its statements.
- Configuration parsing, the content policy, discovery and NATS tokens are pure functions
  without state; deployment scripts are shell.

## 6. Plan

Done: `ScopedSettings`, `SettingsLedger`, `SettingsFeed`, `ContentRegister`,
`ContentStore`, `Backup`, `KeyRegistry`, `SpecRegister`, `ScopeTree`, `LocalSync`,
`Images`, `ApiKeys`, `KeyLife`, theorems that state every invariant and action property of
the runs, and four refinements as theorems: settings, content, key registry, API keys.

Next: what the offline copy promises as an abstract specification of its own (a row is the
text its user last wrote or a past version of the server's, and a push moves it over), and
the proof that `LocalSync` implements it.
