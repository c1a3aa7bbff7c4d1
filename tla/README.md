# A TLA+ verification of consolidate-memory

`consolidate-memory` keeps an agent's long-term memory as Markdown files that a
person may edit, next to a SQLite registry that says what belongs to whom and a
second SQLite database, the journal, that makes a change of several files and
registry rows survive a crash. Every session of every project is a separate
short-lived process; there is no server. What makes the program hard is
therefore not one loop but what the processes leave for each other on disk:
rows of the journal, sidecar files, locks held by a process that may die, a
cache, and files the user edits with no lock at all.

All paths below are relative to `src/plugins/consolidate-memory/scripts/`.

## 1. Inventory

| part | state | operations | works with |
|---|---|---|---|
| journal and transaction engine (`control_plane.py` 1622-3669) | journal rows (status, step, payload), sidecar temps, `.cm-trash-*`, `recovery/<op>` blobs, quarantine | `transact`, `recover_pending`, `journal_retry / rollback / abandon / cleanup`, `compact_journal`, `expire_recovery` | every writer below; registry; locks |
| mutation locks (`control_plane.py` 1400-1619) | `domains/<d>/domain.lock`, `global.lock`, `<project>.lock`, `schema.lock`, `ops.lock` | `acquire_mutation_locks` (blocking and try), `release_locks` | every command; store grants; manifest rebuild; retention |
| registry (`control_plane.py` 440-1400) | projects, groups, domains, canonicals, mirrors, conflicts, access rows | `apply_registry_ops`, migrations | written by `transact` only, at its COMMIT |
| group scopes (`cm_ops.py` 2276-2575, `sync_global.py` 753-833) | `groups`, `group_members`, recipients of a fact | create, delete, add, remove; admission by pull and gc | registry, mirrors |
| domain and project lifecycle (`cm_ops.py` 279-623, `control_plane.py` 1004-1379) | domain status, enrolment, purge fence files | enroll, unenroll, rebind, domain purge / resume / cancel, plugin-data purge / resume | locks, journal, registry, facts directories |
| usage windows and retention (`control_plane.py` 306-421, `retention.py`) | `usage_windows` with a sequence number, `ops.jsonl` | `record_usage_window`, `count_probative_after`, compaction | sessions of one project, concurrently |
| canonical ingress (`canonical_ingress.py`) | fact files with front matter, links, replacement chains, catalogs | upsert, forget, set status, resurrect, reconcile inactive mirrors | `transact`, mirrors, manifest |
| mirror sync and conflicts (`sync_global.py`, `mirror_conflict.py`, `domain_policy.py`) | mirror files, base hashes, conflict rows | pull, promote, gc, `classify_mirror`, `admit_cross_project` | canonicals, registry, `transact` |
| facts manifest (`facts_manifest.py`) | one derived cache per facts directory with per-row freshness stamps | read, rebuild under a try-lock, invalidate | reads canonicals; invalidated by `transact` |
| local ingress (`local_ingress.py`, `index_admission.py`) | native memory files and `MEMORY.md` with byte and line caps | upsert, forget, archive, rebuild index | project lock |
| operator commands (`cm_ops.py`) | none of its own | `cm journal`, `cm migrate`, `cm data`, `cm groups`, `cm resolve` | all of the above |
| stores and identity (`store_context.py`, `identity.py`, `identifiers.py`, `fact_schema.py`) | store grants | resolve paths and ids | names the constants of the models |
| dream cycle (`memory_status.py`, `render_dashboard.py`, `dream_procedure.py`) | the cycle file, the project's marker, the cycle log and archive, justifications | seed, stamp, terminal render with its gates, heal, justify | usage windows, native store |
| analysis and rendering (`extract_signals.py`, `distill_scan.py`, `render_html.py`, `render_log.py`, ...) | none | read-only | everything |
| `dream-beta-tester` | none | test harness | the plugin as a whole |

**Hard behaviours.** A process may die between any two system calls of a
transaction: the next session of that project finds the row and finishes it.
Registry and files cannot be committed together: the order is trash, publish,
registry COMMIT, journal status, cleanup, and each gap is a state somebody may
find. A row may be retried, rolled back or abandoned by an operator, after a
recovery that itself crashed. A session of another project may clean up, but
not recover. The user edits files at any moment, so that a plan made before a
crash may be stale when it is replayed. Locks are taken by name, some blocking,
some only if free. Caches are derived and must not outlive their source.

**What makes each part correct.**

* journal: a change is complete-old or complete-new; nothing of the user's is
  destroyed; a row is not reported complete before its COMMIT, nor replayed after
  it; what a rollback needs is on disk as long as a rollback is possible; nothing
  of a complete row's bodies stays behind; a pending row does not stay pending.
* locks: one writer per project, domain and registry; no cycle of waiting; a command that
  gives up or dies holds nothing.
* lifecycle: nothing is written into a domain that is being deleted; a purge that
  was interrupted can be resumed or cancelled from any point; no enrolled project
  is left pointing at a deleted domain.
* usage windows: sequence numbers of a project are unique and without loss.
* canonicals and mirrors: what a user wrote is never destroyed by a command that had read
  something else; a pull nobody disturbs settles every fact; the rows of the registry
  follow the files in any order of commands.
* index: nothing of the project's own is given up for nothing; a command leaves no pointer
  without its file and no fact without a place.
* manifest: a reader never gets a row that tells something else than the file.
* dream cycle: exit 0 means one line in the log; what was justified stays quiet until its
  clock says otherwise.
* migration: a rollback takes back exactly what an apply wrote.
* groups: what a project is entitled to at the moment of a withdrawal stays.

The hazards, with the line at which each bites and the properties that would
catch it, are listed in `PROJECT.json`.

## 2. Plan

One specification per component, an MC module that gives its constants the values
of the runs, and a proof module where the theorems are more than a few. In this
order, the behaviour that can lose or corrupt the user's files first:

| module | component |
|---|---|
| `JournalTx` | journal and transaction engine, `cm journal` |
| `AtomicTx` | abstract: what a caller of `transact` may rely on; implemented by `JournalTx` |
| `JournalTxProofs` | inductive invariant of the journal and the refinement of `AtomicTx` |
| `JournalTxDisk` | inductive invariant of the files, trash and user edits |
| `MutationLocks`, `MutationLocksProofs` | interprocess locks |
| `DomainLifecycle`, `DomainLifecycleProofs` | enrolment, move, domain status, purge / resume / cancel; the lifecycle preconditions of recovery |
| `FactPolicy` | pure: `classify_mirror`, `admit_cross_project`, `applies_decision`, links, classes |
| `MirrorSync`, `MirrorSyncProofs` | canonical writers, promote, pull, gc, resolve, unenroll |
| `EvictToReceive` | the plan of a pull under the ceiling of the index, `--evict` |
| `GroupScopes` | groups, recipients, admission across domains |
| `FactsManifest` | cache, freshness of rows, try-lock rebuild, invalidation |
| `NativeStore` | `cm local` upsert, forget, archive, rebuild-index |
| `DreamCycle` | cycle record, gates, cycle log, usage windows, justifications |
| `OpsLog` | operational logs and their compaction |
| `Sifting` | filters of a sequence, which `DreamCycle` and `OpsLog` read their logs through |
| `SessionProofs` | theorems of `NativeStore`, `DreamCycle`, `OpsLog`, `EvictToReceive` |
| `Migrate` | `cm migrate` plan, review, apply, rollback, finalize |
| `PurgeFence` | plugin-data purge and its fence |
| `RegistryFile` | creation and migration of control.sqlite, store grants |
| `OperatorProofs` | theorems of `PurgeFence`, `RegistryFile`, `GroupScopes`, `Migrate`, `FactsManifest` |
| `ServicesProofs` | the services together (`MCServices`): each behaves as its own specification, the types of all |

All of them are written; each has a run (section 4), and all that have a state are proved about (section 5). The layers meet at narrow places. `MutationLocks` is below `JournalTx`: its
`Exclusive` for `global.lock` is what lets `JournalTx` have a single lock holder (`act`).
`AtomicTx` is above it: every other module uses `transact` as the one atomic step that
`AtomicTx` promises, verified against the revisions its caller pinned, and needs no
file-by-file journal of its own; only `DomainLifecycle`, where a replay may meet another
membership, keeps the crash window before the step. `FactPolicy` is extended by
`MirrorSync`. The rest is beside one another: `MCServices` extends them all and lets one step in each behaviour. Their variables and
definitions have names of their own for that reason, so that what the run checks and what is
proved are one definition.

Still worth doing: the origin's domain in `JournalTx` and the status of a domain in `MirrorSync`
(two hazards without a property); the row caps and age limits of the journal.

## 3. Modules and code

### JournalTx

| TLA+ | code |
|---|---|
| `file`, `tmp[o]`, `trash[o][p]`, `recovery`, `quarantine` | destinations and delete targets; `.tmp` sidecars of `stage_bytes`; `.cm-trash-<op>-<n>`; `recovery/<op>/`; the quarantine directory |
| `reg` | what the COMMIT of control.sqlite made visible: one cell per described file and per further row |
| `row[o]` | the journal row: `status`, `step`, `expected_revisions` (`want`), preimage hashes (`pre`), whether the payload holds the plan (`stored`), which trash paths it holds (`moved`), `dests_mutated` |
| `act` | the process in the critical section: its place in the code (`pc`), its operation, the destinations it still has to publish or restore, the renames of this call, the ids `recover_pending` has looked at |
| `committed`, `operated`, `edited` | history, only read by properties |

`pc` names the place in the code where a crash can make a difference: `start`,
`prepare`, `persist`, `verify`, `scan`, `trash`, `publish`, `check`, `commit`,
`store`, `mark`, `clean`, `finish`, the same labels where `recover_pending` does the
same thing, and `unpublish`, `untrash`, `settle` for the three places that undo
(`_fail_after_persist`, the `except` of `recover_pending`, `journal_rollback`).
Everything between two labels is one action, with every state change the code
makes there. Each system call that can be the last one before a crash is a step:
one rename to trash (`TrashOne`), one publication (`PublishOne`, with
`CrashAfterLink` for the gap between `os.link` and `unlink`), one restored
destination (`UnpublishOne`), the COMMIT, each journal update.

The bytes written by an operation are the name of the operation: "the destination
already has the published hash" becomes `file[p] = o`. A hash collision and two
operations that write identical bytes are therefore not represented.

Choices a reader should know of:

* `PlanOp` is the caller of `transact`: it reads expected revisions before the locks.
* `RestoreTrash` puts all files of one `_restore_trash_records` call back in one step.
* `UnpublishRefused` (a preimage blob that is missing or does not match) exists for
  the operator's rollback; elsewhere `PreimagesHeld`, proved below, says the blob is there.
* preimages of deletes that the caller supplies are taken as the hash under the lock.
* the branch `replayable_upsert` of `recover_pending` is dead (the payload is stored
  without `text`) and a pending row without a plan goes to `RecoverAbandon`.
* `journal_cleanup` scavenges the sidecars of all stores at once.
* not modelled: the `skip_recover` parameter, the row cap `JOURNAL_MAX_ROWS`, the age
  limits of `expire_recovery` and of the quarantine, and a project that changes its
  domain while one of its rows is pending (listed as a hazard).

### AtomicTx

`store` is the registry, `outcome[o]` what a caller can know of an operation: `open`,
`applied` (its COMMIT happened), `closed` (and it will never be replayed), `refused`.
`JournalTx` implements it with `store <- reg` and `outcome <- Outcome`. `Apply` may
happen again before `Close`: a crash after COMMIT and before the journal update makes
recovery replay the registry operations, which the code admits by writing them
idempotently.

### MutationLocks

| TLA+ | code |
|---|---|
| `Domain`, `Global`, `Project`, `Schema`, `Ops` | the lock files of `plugin_data_dir/locks` |
| `inode[l]`, a file `<<l, n>>` | what is at the path now, and what an open descriptor refers to |
| `cmd[p]`, `todo[p]`, `held[p]`, `opened[p]` | the command, the acquisitions it still has to make, its open and locked descriptors |
| `NextLock` | the order of the acquisition sites: ops.lock (`data compact`), sorted domains, global, sorted projects, schema.lock (`connect_*`, inside the work) |
| `Flock`, `GiveUp` | `FileLock._take(wait=...)` |
| `Fail`, `ReleaseOne`, `End` | the `except` / `finally` clauses and `release_locks`, last taken first |
| `Crash` | the kernel closes the descriptors |
| `Unlink` | `_rmtree_target(pdata)` of the plugin-data purge, with no lock held |

A connection made before the mutation locks (`transact` connects to both databases
first) is the command `Connection` of the same process. `compact_journal` connects
after it took the locks and before its `try`; an exception there ends the process, so
it is a `Crash`. `CommandShape` says what commands can look like; the proofs hold for every set of
such commands, the runs use the ones that exist: pull, move-domain in both directions,
the marker of `cm status`, data compact, the manifest rebuild, a store grant, a connection.

### DomainLifecycle

| TLA+ | code |
|---|---|
| `lifecycle[d]`, `member[p]` | `domains.status` (no row is active); the `domain_id` of an enrolled row of `projects` |
| `plan[s]` | what a `cm` command has read and decided, and, for a purge, the two transactions it will run: its kind, the project and domain of its `StoreContext`, the rows it will set with their domain as read |
| `Plan*` | the checks of `cm project` and `cm data` before the confirmation, without a lock |
| `Lock`, `Commit`, `Refuse` | `transact`: `Prepared` is `enroll_project` / `_prep_move` under the lock, `Accepted` the precondition `expected_domain` and the postcondition `assert_domain_has_no_enrolled` |
| `Recover`, `CtxMatches` | `recover_pending`, which repeats `Accepted` but not `Prepared` |
| `pending` | journal rows that hold a plan and have not been acknowledged, conflicted ones included: `cm journal retry` makes them pending again |
| `Fail` | no confirmation, a file that is not as expected, a killed process |
| `CrashInTransact`, `CrashInRecovery` | death after the plan is stored, before or after COMMIT |

Files are not in the state, so a replay that a changed file would forbid is one the
model may leave out, and `--accept-partial` (needed to cancel once the canonicals are
gone) makes no difference. Rows are recovered in any order; the code takes them in
the order of the journal. Rebind, aliases and the lookup by `git_common_dir` are left out:
a session's project does not change.

### FactPolicy, MirrorSync

| TLA+ | code |
|---|---|
| `ClassifyMirror`, `AdmitCrossProject`, `AppliesDecision`, link and class operators | the pure functions of `mirror_conflict.py`, `domain_policy.py`, `fact_schema.py` and `canonical_ingress.py` that the sync commands share |
| `canon[s]`, `tomb`, `factStatus`, `holder[p][s]`, `open[p]` | the canonical file; rows of `tombstones`, `facts`, `holders` (the base revision), `conflicts` |
| `file[p][s]`, `ptr[p]`, `quar[p]` | the native store of a project, the pointers of its `MEMORY.md`, its `quarantine/` |
| `entitled[p]`, `Toggle` | what admission and relevance give the project, and whatever changes it |
| `Upsert`, `Forget`, `Resurrect`, `SetCanonicalStatus` | the canonical writers, with their replacement chains, one transact each |
| `PromoteBegin` / `PromoteCommit` | `promote`: the local text is read first, the upsert pins what it overwrites when it starts |
| `PullBegin`, `AckScan`, `AckCommit`, `PullPlan`, `PullCommit` | `--pull`: enumeration, `reconcile_inactive_mirrors`, plan, `_execute_pull_writes` with its re-classification under the lock |
| `GcBegin`, `GcApply` | `--gc --apply`, each name verified again under the lock |
| `KeepCanonical`, `ForkLocal`, `ResolvePromoteLocal`, `Unenroll` | `cm resolve`, `cm repair-mirror`, `cm project unenroll` |
| `WriteOwn`, `EditMirror`, `DeleteFile`, `HandEdit`, `HandDelete` | the user's editor and shell, in the store and among the canonicals |

A revision is what `semantic_hash` hashes: status, text, replacement. Two texts may share a
body and differ in front matter, which is what separates `refresh` from a local edit. A
mirror carries what it says now and the revision it was stamped at. One domain; the cap of
an index is a number of pointers.

### EvictToReceive

`PlanPull` is `_plan_pull`, a fold of `PlanJob` over the canonicals in the order of their enumeration
(written out as a recursive function, which a proof can follow);
`Approved` is the gate of `--evict` in `run`; `PullPin` the revisions `_execute_pull_writes`
takes before its transact, `PinsHold` the check of them under the lock, `Written` the loop of
its `mutate`, `WriteJob` one turn of it, `IndexAdmits` the two limits of `project_index`. The user may
have written it beyond them. A pointer line is its cost and costs add up: the code measures the whole index
once and the lines one by one, each rounded up, so that its sums may be off by a token a line.

### GroupScopes

`groups`, `members` are the rows; a fact (`shared`) carries its recipients and a time stamp, a mirror the
groups it was stamped with and, as history, those of them it was delivered through (`via`). `cm group`
reads, asks and commits in a transact of its own (`MemberBegin`, `AddMember`, `RemoveMember`), and after it
withdraws the mirrors, under no lock (`RevokeGroupMirrors`). Pull
and gc decide from memberships read before the locks, gc once more under them (`GcCommit`). Each of these
reads may fail and is then empty, as in the code (`MembershipsRead`, `CreatedRead`).
`removed` is history: who was taken out of which group by a remove that ran to its end.
Stamps have one second in the code, `Tick` here. The project is of another domain than the
fact, so that only a group entitles it.

### FactsManifest

A row holds the body that one read found, the stats of that file and the firewall that judged
it; a file has an mtime a user can restore and a ctime he cannot. `Fstat` comes before `Read`,
as in `build`. `Hit` and `Miss` are `ensure`, `Consider` is `_consider_fast`, which skips the
body when `RowIsFresh`. Sizes may collide and are left out; two readers may run different versions
of the program (`Predicate`).

### NativeStore

Every command of `cm local` reads (`Upserting`, `Removing`, `Rebuilding`), then writes in a transact that verifies what it
pinned. A line of the index is the stems it links and the cue it shows: derived from a
description, tightened by hand, or neither. A fact may be valid, refused, unreadable, a
mirror. The caps of lines and bytes are one number of lines.

### DreamCycle

`record` is the cycle file, one per project and shared by its sessions; `marker` the stamp of
`.consolidation-state.json` with the justification of one fact. `Seed`, `Fill`, `StampMarker`,
`Render` (the gates), `AppendRow`, `Count` / `Insert` (`record_usage_window`), `Heal` (the
archive) are the steps of a pass, a `DreamCrash` may come between any two. What may fail on the way is
there too: the log cannot be read, and the row is appended again (`RenderBlind`); it cannot be written, and
the render ends with a note and exit 0 (`AppendFails`); the registry cannot be, and the cycle is not
counted (`CountFails`); nor the cycle file, which may be left empty (`HealFails`). `disturbed`, `clean` and
`told` are history. `JustifyBegin` and
`Justify` are `record_demotion_justify`, before and under its lock. `Rows` is what a reader makes of
the log (`iter_store_cycle_log`): of the rows of one stamp the last, in the place of the first. A stamp stands for its commit
too; the duties are one that gates with an exit code and those that do not.

### Migrate

A command loads plan and rollback file without a lock and decides on them (`Loaded`); what a
review decides is saved without one (`Save`). `Apply` and `Rollback` are one transaction
each, with the resolutions of a collision and `--resurrect`. A collision carries the hash its source
had when the inventory was taken, and that is what a resolution takes (`Resolve`). Meanwhile sources change and
sessions write and forget canonicals.

### PurgeFence, RegistryFile, OpsLog

`PurgeFence` has the steps of `cm data purge --scope all-plugin-data` and the states of its
fence; a purge may stop at any of them, while sessions enrol, pull and write. `RegistryFile`
has the statements of `SCHEMA_SQL` and `_migrate_schema` in their order, each committed on its
own, the ingest of `store-grants.json` and its rename, the stamp of the version, and the
commands that grant, revoke and transfer. `OpsLog` has a log in three places with their
inodes, appends with no lock, and the compaction that relocates, unlinks, keeps the tail and
replaces, killed at any step.

## 4. What the runs check

Definitions marked "Defect" in the modules are plausible bugs of the code (a dropped
guard, a swapped order, a missing release). Each property of a passing run has one
that makes it fail under the run's own configuration, so none of them holds by the
shape of the model. `PROJECT.json` pairs them.

| run | configuration | shows |
|---|---|---|
| `journal_two` | two projects, an operation that moves a fact and refreshes a shared catalog, another one on that catalog; one crash; I/O errors; all operator commands | `TypeOK`, `CompleteMeansCommitted`, `PreimagesHeld`, `ImplementsAtomicTx` |
| `journal_edits` | two operations of one project on the same two files, the second with `expected_domain`; one user edit at any point; one crash | `DiskMatchesRegistry`, `IdleEditsSurvive`, `TrashKept` |
| `journal_live` | one operation, two projects, two crashes, `FairSpec` | `PendingResolves`, `CleanupCompletes` |
| `locks` | two casts: three processes that compete for the same locks (pull, two opposite moves, the manifest rebuild) and take their steps; two processes with every kind of command, that may hang anywhere, and one lock path unlinked | `TypeOK`, `Exclusive`, `NoCircularWait`, `NothingLeaks`, `CommandsEnd`, `TriesNeverWait` |
| `lifecycle` | a project that enrols, moves and leaves; an operator in another project who unregisters and purges; two failures | `TypeOK`, `OnlyReplaysJoinDeleted`, `JoinsActive`, `LeavesAsSeen`, `PurgeEnds` |
| `mirrors` | three casts: two projects that share a fact; one project with two facts and room for one pointer; one project with one fact and two texts of one body | `TypeOK`, `NoGhostTombstone`, `WorkKept`, `PullSettles`, `NoDanglingPointer` |
| `services` | ten parts, one of which steps in a behaviour: native store, manifest, two sessions that dream, two that justify beside one that dreams, migration, purge, log, registry file, groups, room of an index | `TypeOK` and a property or three of each |

What the less obvious ones say:

* `DiskMatchesRegistry`: at every moment a file that the operations of one project write
  agrees with its registry row, unless an operation on it is unfinished, in conflict, failed after
  its COMMIT or was in an operator's hands, or the user edited it. This is "complete-old or
  complete-new" across files and database. A file written by two projects is excepted because a
  recovery replays only the rows of its own project. One project may COMMIT to a shared catalog while
  another's operation on it is pending; that one's replay, which expects no revision of a
  catalog, moves the committed bytes to quarantine and, when it fails, restores the preimage of
  its first run over them (TLC finds this on the constants of `journal_two` when `OneOrigin` is
  dropped). Rows an operator reopened or rolled back are excepted because of the findings below.
* `IdleEditsSurvive`: bytes the user wrote while nobody was working are overwritten or
  removed only if the operation was planned on those bytes (a replayed delete: hashed them under
  the locks), or they went to quarantine.
* `PreimagesHeld` and `TrashKept`: no cleanup, compaction or recovery, of any project, takes
  away what a rollback or a replay still needs.
* `ImplementsAtomicTx`: no lost, partial or late effect in the registry.
* `NoCircularWait`: in any set of processes, one waits for none of the others.
* `OnlyReplaysJoinDeleted`: whatever was read before the lock, a purge leaves nobody behind
  and nobody enters after it, except by the replay of a crashed enrolment or move (see
  `deleted_members`). `JoinsActive` says the same of every domain that is joined.
* `LeavesAsSeen`: a registry-only unenrolment ends the membership that was listed to the
  operator, not the one the project has acquired since.
* `PurgeEnds`: from any point where a purge stopped, resume or cancel gets the domain out
  of `deleting`.
* `WorkKept`: what only a store holds (a file of the project's own, an edited mirror) stays,
  or its body is kept in quarantine or in a canonical, whatever was edited since the command
  read the store. Excepted are what a rename finds under its new name, a promote whose source
  or canonical changed since it read them, and a mirror an acknowledgement replaces
  (`ack_overwrites`).
* `PullSettles`: a pull nobody disturbs leaves nothing half done: each fact is at its canonical
  with the base recorded, or has no room, or is the project's own, or is on record for `cm resolve`.
* `NoDanglingPointer`: only the user who deletes a file by hand leaves an index that points at
  nothing.
* `NoGhostTombstone`: the rows that let an acknowledgement take mirrors away never outlive the
  return of their fact.
* `EvictPays`: a pull nobody disturbs lands exactly the facts that have room under the
  ceiling at their turn, but for those the limits of the index refuse by then, and gives up only a fact
  that no other links to; for strictly more facts than have room without, if the index without it is
  within its limits (it is not claimed of an index that is beyond them by hand, see below).
* `StaysReachable`, `EvictionSticks`, `CuesFresh`: no `cm local` command orphans a fact it read,
  brings an archived one back (but for a rebuild that could not read the archive), or
  leaves an old description beside a fact it placed.
* `ServedIsTrue`: a row that stands for a file tells what is in the file, as the reader's own
  version judges it, across edits, rebuilds, crashes and invalidations.
* `ExitZeroIsLogged`, `WindowCounted`, `QuietUntilClock`: a pass that ended with exit 0 has one row of
  the log to itself and shows once in the archive, with no gate open. Excepted are a pass that
  ended with the note that its append failed (exit 0 all the same, see below), and one that
  another session, a crash, an unreadable log or a failed write of the cycle file came in between. Windows are counted once with sequences that leave no gap; a justification holds until
  windows enough have been counted.
* `RollbackRestores`: a rollback, whenever its file was read, takes back what an apply wrote,
  and no text of a user with it.
* `NoMirrorOutlivesRegistry`: when a purge has removed the registry, no store keeps managed
  mirrors nobody knows of.
* `RowsStay`, `OpenedIsWhole`, `RevokedStaysRevoked`: a log row stays
  readable across killed compactions; a connection that is served finds the whole schema; a revoked grant
  does not come back from the old file, whatever crashes.
* `RemovedHoldsNone`: a project that a finished `cm group remove` took out of a group holds no mirror it got
  through that group, until it is added again; the fact may be repointed or deleted, the group
  recreated, the mirror refreshed in between. Excepted is a pull that read the membership before the remove and is
  under way at the withdrawal, which delivers again.

**Runs that find a disagreement** (`findings` in `PROJECT.json` quotes the text):

| run | property | what happens |
|---|---|---|
| `recovery_mixed` | `NeverMixed` (ADR 010) | a crash after some destinations were published; the next recovery sees drift, puts the trash back, leaves the published files, and reports `conflicted` |
| `rollback_loses` | `RollbackRestoresTrash` (`journal_rollback`, ADR 021) | a crash between the renames to trash and the stored trash paths; rollback restores nothing of them and marks the row abandoned |
| `cleanup_stuck` | `CleanupFinishes` (ADR 021) | a delete target that was absent has no trash path; its cleanup fails under every retry |
| `deleted_members` | `DeletedHasNoMembers` (ADR 022) | a session dies in enroll or move; another project purges the domain; the first project's next session replays the row into the deleted domain |
| `ack_overwrites` | `LocalEditSurvives` (ADR 005) | the acknowledgement of dead canonicals that opens a pull replaces a mirror by the replacement's without classifying it: a local edit is overwritten |

Further disagreements met while modelling, each stated by a definition of a module but
without a run of its own, or seen in reading and told with its hazard in `PROJECT.json`:

* `RollbackBeforeCommit` (`JournalTx`; ADR 021 line 34): a recovery that crashes between its
  COMMIT and the stored step leaves the step of the first run, and rollback accepts the row.
* `Exclusive` after an unlink (`MutationLocks`; ADR 006 line 63): the plugin-data purge unlinks
  lock files that a session holds, and the next session locks new ones (`cm_ops.py` 581).
* `EvictedAsApproved` (`EvictToReceive`; `sync_global.py` 1574): the evicted file is pinned
  under the lock only, so that a revision, a new inbound link or a file under the name of a
  fact that was to land, since the approval, is not noticed.
* `EvictPays` without its last condition (`sync_global.py` 2456): in an index that the user has
  let grow beyond its limits, two refreshes whose shorter lines are each refused leave no room for the
  fact that was to land (1604), and the evicted one is gone for nothing; the plan had counted both. Three
  canonicals show it; the proof needs the condition, the instance of the run, with two, does not.
* `CanBeOpened` (`RegistryFile`): after a death inside `SCHEMA_SQL` the tables that
  `_has_registry_tables` looks for exist and `conflicts` does not: no connection opens again.
* `NeverAResurrection` (`GroupScopes`; `docs/group-scopes.spec.md` 238): a recreated group of
  the same domain has the old id, and an add that read the deleted one joins the new one.
* `UneditedNeverLocal`, `BaseAtMirror` (`MirrorSync`; `sync_global.py` 1532, `canonical_ingress.py`
  478): an upsert between a pull's plan and its transact makes the recorded base run ahead of the mirror, which then
  looks locally edited.
* Purge: a fence in state `verified` refuses for ever once anything is recreated (ADR 022 lines
  35-39); a project that enrols after the list was read keeps orphan mirrors.
* Migration: a review saved after an apply resets `applied` (`_save_migrate_plan` takes no
  lock), and a second apply overwrites the rollback file; the rollback of a resurrected fact restores neither tombstone nor row.
* Dream cycle: two passes of a project share the cycle file and admit each other's stamps
  (`memory_status.py` 2440); a crash between the log line and the window loses the window.
* Dream cycle: "the firing record MUST be logged", and exit 0 is "clean" (`render_dashboard.py` 2170-2173);
  a render whose append fails says so on stderr and exits 0, without its gates (1724-1726, 2196-2198).
  `ExitZeroIsLogged` without its exception `told` fails on it.
* Groups: "could not tell is not a licence to DELETE" (`sync_global.py` 3133) holds where the admission
  raises. A read of the memberships that fails does not raise, it is "no memberships" (774-785), and gc, under the
  lock too (3355), withdraws a mirror its project is entitled to. The model has that step (`GcCommit`).
* Registry file: a `store-grants.json` that cannot be read is passed over in silence
  (`control_plane.py` 765-771), the migration goes on without its grants, and a later grant command that can
  read it takes them in, also one revoked meanwhile. The model has no such file.
* Logs: a row appended to the inode that a compaction replaces is lost; a relocation puts old
  rows behind newer ones, where the tail cap counts them as newer.
* Manifest: the session beacon reads rows without their stats (`session_beacon.py` 221).
* Groups: the revocation after a remove runs outside any transact, and a pull in flight
  delivers again after it.
* Native store: a forget leaves the pointer lines of archives; dropping or replacing a line
  that links two facts drops the other one's pointer; a placement written to an archive between the check and the transact is not seen.

**Bounds.** `MaxCrashes` bounds crashes: one with two operations reaches every label,
two with one operation also crash a recovery of a crash. Each operation is planned
once; each user content is written once. Two operations suffice to have one stale plan
meet another operation's result, three files to have a delete, an exclusive
creation and a shared overwrite in one plan. `Present` lists the sets of files that may
exist at first, so that the delete target and the creation target are both found there
and missing. Three processes and six locks make a cycle of any two lock
kinds possible, with a third process to interfere; `MaxUnlinks` is one: the hanging pair may
lose a lock path, the three rivals keep theirs, and `Exclusive` is claimed while none is lost. In `lifecycle` two
projects start anywhere, so that a purge finds none, one or two members; two domains
(`Purged` names the one that is purged) allow a move into and out of a purge;
`MaxFailures = 2` allows a crashed enrolment together with an interrupted purge, and a crash in the
recovery of a crash; `Commands` gives the sessions their roles. In `mirrors`, `MaxOps` counts
commands and edits, pulls and their steps excepted: three with two projects, four with one,
enough for write, deliver, edit and write again; a fact and its replacement need two stems, a
full index one pointer. In `services` each part has two concurrent actors; the bounds count
what may repeat: three commands or edits of a store, three writes beside a manifest, two
passes with two stamps, of two sessions of which the one of the first pass may be killed and have its
reads and writes fail, those of the log while the other is between two commands (and two justifiers, in another
part, so that a pass may be refused and a justification wait for its clock), two applies and one edit, three purges with two
enrolments, four rows and two compactions, two connections (a killed one is found by the
other), five commands of groups, two pulls and one disturbance of the room, whose index holds two lines, so that both the ceiling and the limits
of the index bind. `part` keeps these
instances apart: in the modules they share no state.

**Fairness.** `WF(Work)`: a process in the critical section runs unless it dies. Nothing
obliges a user to type an operator command, nothing obliges a crash. `SF(RecoverCommand(q))`:
sessions of a project keep coming (each pull begins with a recovery); the command
needs the locks, which are taken and freed over and over, so weak fairness would not
be enough. In `MCMutationLocks`, `CastFairness` takes `WF` of each process's steps and `SF` of
a blocked `flock`, which the kernel's queue of waiters gives; in `DomainLifecycle`
`SF(Lock)` is the same, and `SF` of the resume says that the operator resumes a purge
he can resume; in the hung cast of `locks` only
commands that never wait are known to take their steps.

`CHECK_DEADLOCK` is on in the journal, lock and lifecycle runs. `mirrors`, `ack_overwrites` and `services`
end when the bounds on commands are used up, and have it off.

## 5. Proofs

`tlapm` checks these for all values of the constants that satisfy the named
assumptions of the modules.

**JournalTxProofs.** The assumptions are `Shapes`, `Distinct` (model values differ:
contents, rows and files are not confused) and `Plans` (a created path is
published, no path is both published and deleted, no operation is empty: to
recovery an empty plan looks like no plan). The inductive invariant is

    IInv == TypeOK /\ HolderAgrees /\ NoPlanYet /\ CompleteMeansCommitted /\ PreimagesHeld

`CompleteMeansCommitted` is not inductive alone: that `MarkCleanup` runs only after
COMMIT is a fact about where the holder is, `HolderAgrees`. `PreimagesHeld` needs that
too, for the steps that store a plan (`persist` only with the blobs on disk) or drop the
blobs (`clean` only in rows that no longer hold), and `NoPlanYet` for the row that
starts. The proof has one step per action. From it: `TypeCorrect`,
`HolderCorrect`, `Committed`, `PreimagesSafe`.

Its last section proves `Implements`, `Spec => ImplementsAtomicTx`: initial states map to initial
states, and each action is classified as unseen (`Unseen`, `UnseenSetRow`), giving up
(`GivesUp`), the COMMIT (`CommitApplies`) or the journal's acknowledgement of it.

**JournalTxDisk** extends it to the files. What makes `DiskMatchesRegistry` hard is that it says
nothing of the time in between, so the invariant `DInv` (`DiskInductive`) must say it, for one file
p that neither user nor operator touched:

* `Between`: while an operation that touches p is pending with a stored plan, p is where it was
  before the operation or where the operation puts it, a deleted p is either there or in the
  operation's trash, and before the COMMIT the registry has the preimage.
* `FilesAgree`: with no such operation, p is as the registry has it. There is at most one, since a
  transact recovers what its project left pending before it starts (`Alone`, `ScopeKnown`).
* `Reached` (`Brought`): how far the lock holder has brought p at each place of the code, so that
  it may COMMIT only when p is after and give up only when p is before.
* `PlanKnown`, `TodoKnown`, `TrashKnown`, `OwnTrash`: the plan is stored before the first edit;
  what is still to do belongs to the operation; the lock holder knows all trash of its operation
  (found again by `scan` after a crash), and no complete row has any.
* `EditsExpected`: on a guarded path, a user's bytes the lock holder is about to take are the
  expected ones.

Each conjunct has its step lemma (`FilesStep`, `ReachedStep`, `TrashKnownStep`, ...) with a step per
action; `Fates`, `Kinds` and `TrashGrows` say once what an action may do to a row, a file and the
trash. `DiskAgrees` follows from `FilesAgree`, `TrashSafe` from `OwnTrash` and `TrashKnown`,
`UserBytesSafe` from `EditsExpected`.

**MutationLocksProofs.** Assumptions: `Places` (one injective order of the acquisition
sites, consistent with the kinds), `Kinds`, `Commands`, `Bounds`. The invariant adds to `TypeOK`:
`Ordered` (all a process holds comes before all it still takes), `Waiting` (it waits
for the least of these), `Covered` (until release each lock of the command is held or
still to take), `Once` (a file is granted to one process), `Unmoved` (no unlink, no second file).
`ExclusiveHolds` follows from `Covered`, `Once` and `Unmoved` and is stated for
the time before an unlink; the condition is needed (section 4).
`NoCircularWaitHolds` is the usual argument: along a chain of waiting processes the
place of the awaited lock grows (`ChainsGrow`), it is at most that of
schema.lock, so the process of the set that waits for the last one (`LeastOf`, over the distance to
schema.lock) waits for nobody in it. `NothingLeaksHolds` and `TypeCorrect` are conjuncts of the invariant.

**DomainLifecycleProofs.** Assumptions: `Owners`, `Sentinels`, `Bounds`. `TypeOK` is inductive
(it says that the lock holder has a transaction); `OnlyReplaysJoinDeleted` is inductive
with it. `StepWrites` reduces the fifteen actions to the two that write the registry, a
transaction (`Effect`) and a replay; `DeletesEmptied` is the postcondition of the purge,
`JoinedByTx` says how a project can have got where it is. `DeletedHolds` and
`JoinsActiveHolds` follow. `LeavesAsSeenHolds` needs of a step only that a membership changes by a
transaction somebody had planned and that was accepted under the lock (`MovedByOpen`).

**MirrorSyncProofs.** Assumptions: `SyncShapes`, `SyncDistinct` (facts are finitely many; the
sentinels are no facts, revisions or files). `TypeCorrect`; `NoGhosts`, from the
pairing of file and rows that every canonical writer keeps; `WorkIsKept` is `WorkKept` for any
number of projects, facts and texts: one step per action, with a lemma for each way a command
takes a file away. `RefreshOnlyUnedited` says of `ClassifyMirror` that, with a base recorded, it
lets a non-empty mirror be overwritten (`refresh`, `restamp`, `clean`) only if its meaning is the
base's or the canonical's. `IndexPoints` follows the pointers of one project through each action
(`StaysPointed`): what removes a file drops its pointer in the same transact, and what adds a pointer
installs its file, also where a command took only part of what it had planned. `PullsSettle`: with nobody in between, what the plan says
of each fact (`PlanHolds`) is still so at the COMMIT, and the status a fact ends with follows
(`StatusMeans`). That a fact held back has no room in the end (`HeldBackWhenFull`) is a count: the pointers
there were and the facts admitted in order are disjoint and fill the index.

**SessionProofs.** Assumptions: `Roles` (a process that renders does not justify: they are two
commands), `CapAssumption` (`CYCLE_CAP` is a number), `CycleAssumption`, `LocalAssumption`, `LogAssumption`
(the bounds are numbers and two rows may be in the log at first; no process is the sentinel), `Room` (finitely many facts, each canonical once in
the enumeration, lines that cost something, a ceiling within the limits of the index).

* Its first section is about `Sifted`, a filter by a recursive function. What such a function returns
  is proved by induction over the length, and induction is not to be had from the library; `Induction`
  gets it from the pigeonhole principle, for any set T of numbers that has 0 and all successors: a
  number outside T would bound its initial part, which the successor would map one to one into itself
  without 0. From that: `SiftExists`, `SiftedRange`, `SiftedLast`.
* Windows. `CountsEachCycleOnce` needs that the sequences have no gap (`Filled`): distinct numbers, as
  many as the highest of them, are all there, by pigeonhole once more; so a session whose number is
  no longer the next one finds it taken, and its INSERT is refused and repeated. `StaysQuiet` adds that the clock never runs
  backwards: under the lock the count is at least what was read before it.
* The cycle log. `LoggedWhenClean` follows one pass nobody came in between and that was not told that its
  append failed (`PassInv`): its session
  alone has the record, with the stamp the marker gives it (`Alone`); it is not logged and its stamp is
  newer than any (`Unlogged`), or it is, with the last row of the log to itself (`Logged`); and once
  clean it is closed (`Cleaned`). The attempt to prove an earlier form of `ExitZeroIsLogged` showed that
  it never said whose row it was: one row with a stamp of its own and no row of the pass satisfied it.
  The property of the run and of the theorem is the stronger one.
* The native store. `NothingIsLost`, `EvictedStaysOut` and `CuesAreCurrent` are properties of one
  step, so that the invariant (`StoreInv`) need only say of what shape files, lines and the commands
  under way are; the work is in the lemmas on how an upsert, a removal and a rebuild make an index.
* The room of an index. `PullPays` is about two folds and a sum. `Induction` gives what the library does
  not: `SubsetInduction` and from it that a sum over a set may be taken in any order (`AnyOrder`), so that one line
  changes it by its own difference (`TotalChanges`) and a smaller index costs less (`TotalGrows`); by
  `PlanExists` and `WritingExists` the two recursions are well founded. `PlanRuns` then says that the running total
  of the plan is the cost of the index as it would be at that turn, `Unique` that one set of facts at most has
  room in this sense, `WritingRuns` what each job leaves. For an eviction, `EvictedForAll` adds them up: a refresh
  that the index refused is longer than the line it leaves, so that the index at any turn costs no more than was
  planned, and the check of the whole index before the eviction is enough for every job. That takes an index
  which is within its limits once the fact is gone: a refused refresh may shorten the line of one that is not. The
  invariant (`EvictInv`) is that what a pull holds is the plan of one reading (`PlannedPull`). The
  proof needed the property stated for an index whose limits may refuse a planned fact, which an earlier instance of
  the run had no room to show.
* The operational log. `KeepsItsRows`: `LogInv` says of each place of the compaction where the rows of
  its file are: behind the native log's while that one stands, then in the list it will write, past
  the cap and the days of retention, or appended meanwhile (`raced`). A relocation that was killed after
  its append leaves rows twice, never nowhere.
* The types. `LocalTyped`, `RoomTyped` and `LogTyped` (`LogRanges`: a log, and what a compaction holds of
  one, has rows only that were written) follow from these invariants and the bounds. `DreamTyped` needs that no
  more windows are counted than stamps were given: a window has the stamp of its cycle, no two of them the same
  (`WindowsStamped`, an injection).

**OperatorProofs.** Assumptions: `RegistryAssumption` (no project is called `ungranted`; a bound is a number),
`MigrateAssumption` (a text is not the absence of one), `GroupAssumption`, `ManifestAssumption` (bounds).

* `NoMirrorLeft`: the invariant `Fenced` says that between the
  listing and the revocation every enrolled project is listed or late, that after it every
  mirror and every enrolled project is late, and that the fence is never ahead of the
  transaction. A purge that resumes at `planned` lists anew, which is why late projects may be
  forgotten there and only there.
* `WholeWhenOpened` rests on `MigratedIsWhole`: the statements of `_migrate_schema` fail where a
  table they need is missing, so a migration that ran to its end has left out nothing, whichever
  part of `SCHEMA_SQL` was there. `RevokedForGood` adds that a revocation waits until the grants
  file is consumed, and that a transfer, which does not, leaves an owner over whom the file does not
  prevail.
* `RemovalHolds`: the invariant `GroupsKept` says what the withdrawal relies on, that a mirror carries every
  group it was delivered through in its stamp; and what keeps a
  mirror from coming back, that a project that was removed is a member of the group under no id, and that no pull of it under
  way read otherwise.
* `RollbackIsExact`: the invariant `Told` says that the rollback file, and every copy of it in an
  operator's hands, tells for each fact what some apply wrote and what that apply had found (`Tells`).
  The copy carries the number of its apply, so that one that a later apply wrote does not pass for it,
  nor does a text of the user's.
* `RowsAreTrue`: the invariant `ManifestTells` says that every row,
  in the cache or in a reader's hands, is older than its file or has its body. It is inductive
  because a row's stats are taken before its bytes and every write makes a new ctime;
  `WriteTells` is that fact, `OneReader` reduces a step to the one reader that takes it.
  `ServedHolds` is `ServedIsTrue`.
* The types (`PurgeTyped`, `RegistryTyped`, `GroupsTyped`, `MigrateTyped`, `ManifestTyped`). That of the
  migration could not be proved at first: `Resolve` read the text of the chosen source when the review was made,
  where the code takes the hash the inventory has, and the source may be gone by then. The
  model was wrong and now does what the code does.

**ServicesProofs.** No assumptions of its own. In the run each behaviour steps in one part; `PartsStep` says
that such a step is one of its service and a stutter of the eight others, so that `ServicesCompose` has the
specification of `MCServices` imply the nine of the services. `ServicesTyped` and `ServicesKeep` then
give every property of the `services` run for the specification that run checks.

**Only model-checked:** the liveness properties (`PendingResolves`, `CleanupCompletes`, `CommandsEnd`,
`TriesNeverWait`, `PurgeEnds`: fairness and ENABLED are out of the
prover's reach). The runs that find a disagreement have nothing to prove.

## 6. Not modelled

`PROJECT.json` lists every part with its status. Left out for good: rendering, text analysis
of transcripts, the reports over the fleet, identity and path computation, the beta tester (no
protocol state, or a test harness). Left out so far: rebind and aliases, `local_migrate_schema`,
the row cap and age limits of the journal, a store grants file that cannot be read, a row of the cycle log
that is written in part, the shortening of hooks and the sizes in bytes of an
index, `cm doctor`. Not represented anywhere: a project that changes its domain between two of its
own operations on files, two plugin-data purges at once, a hash collision. SQLite is taken as
atomic per COMMIT and durable; `flock` as the kernel specifies it; a rename and a link as atomic.
