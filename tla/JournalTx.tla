------------------------------ MODULE JournalTx ------------------------------
(***************************************************************************)
(* The file + registry transaction engine of control_plane.py: transact,   *)
(* recover_pending, and the operator commands journal rollback / retry /   *)
(* abandon / cleanup.  One journal row describes one mutation: files to    *)
(* publish, files to delete, registry rows to write.  The holder of the    *)
(* mutation locks (see MutationLocks) is the only program process that     *)
(* takes steps, and it may crash between any two of them; the user edits   *)
(* the same files with no lock at all.                                     *)
(*                                                                         *)
(* Data abstraction: the bytes an operation writes are the operation's own *)
(* name, so "the file has the published hash" is file[p] = o.  A registry  *)
(* row holds the name of the last operation that wrote it.                 *)
(***************************************************************************)
EXTENDS Naturals, FiniteSets

CONSTANTS
    Path,        \* files: facts, mirrors, catalogs, indexes
    Key,         \* registry rows that describe no file (project, domain rows)
    Project,     \* projects whose sessions run commands
    Op,          \* journal rows, one per call of transact
    User,        \* the contents the user may write, each at most once
    Origin,      \* [Op -> Project]      origin_project_id of the row
    Publishes,   \* [Op -> SUBSET Path]  destinations
    Creates,     \* [Op -> SUBSET Path]  destinations with mode "create"
    Deletes,     \* [Op -> SUBSET Path]  delete targets
    Guarded,     \* [Op -> SUBSET Path]  paths with an expected revision
    Rows,        \* [Op -> SUBSET Key]   further registry rows written
    Strict,      \* operations whose registry op carries expected_domain
    Present,     \* the sets of files that may exist before any operation
    Absent,      \* no file / no row
    Initial,     \* the content before any operation
    Nobody,      \* no lock holder / no operation
    MaxCrashes   \* bound on process crashes

Val == {Absent, Initial} \cup Op \cup User
Cell == Path \cup Key

ASSUME Shapes ==
    /\ Origin \in [Op -> Project]
    /\ Publishes \in [Op -> SUBSET Path]
    /\ Creates \in [Op -> SUBSET Path]
    /\ Deletes \in [Op -> SUBSET Path]
    /\ Guarded \in [Op -> SUBSET Path]
    /\ Rows \in [Op -> SUBSET Key]
    /\ Strict \subseteq Op
    /\ Present \subseteq SUBSET Path
    /\ MaxCrashes \in Nat
ASSUME Distinct ==
    /\ Absent \notin {Initial} \cup Op \cup User
    /\ Initial \notin Op \cup User
    /\ Op \cap User = {}
    /\ Path \cap Key = {}
    /\ Nobody \notin Project \cup Op
ASSUME Plans ==
    \A o \in Op : /\ Creates[o] \subseteq Publishes[o]
                  /\ Publishes[o] \cap Deletes[o] = {}
                  /\ Publishes[o] \cup Deletes[o] \cup Rows[o] # {}

VARIABLES
    file,        \* the user-visible files
    tmp,         \* tmp[o]: destinations whose sidecar temp is on disk
    trash,       \* trash[o][p]: bytes renamed to .cm-trash-<o>-<n>
    recovery,    \* operations whose recovery/<op> preimage blobs are on disk
    quarantine,  \* bytes moved aside by a restore
    reg,         \* the committed registry
    row,         \* the journal
    act,         \* the process that holds the mutation locks
    committed,   \* history: operations whose registry COMMIT happened
    operated,    \* history: operations an operator rolled back, abandoned or reopened
    edited,      \* history: when the user last edited a path, if ever
    spent,       \* user contents already written
    crashes

disk == <<file, tmp, trash, recovery, quarantine>>
history == <<committed, operated, edited, spent, crashes>>
vars == <<file, tmp, trash, recovery, quarantine, reg, row, act,
          committed, operated, edited, spent, crashes>>

-----------------------------------------------------------------------------
(* The journal row and the lock holder's local state.                      *)

HoldFs == {"pending", "failed", "conflicted"}
Status == HoldFs \cup {"unborn", "planned", "cleanup_pending", "complete",
                       "abandoned"}
PublishedSteps == {"after_dests", "publish", "cleanup_pending",
                   "journal_complete"}
Step == PublishedSteps \cup {"none", "journal_start", "prepare_temps",
         "verify_unchanged", "after_trash", "failed", "conflicted",
         "abandoned"}

\* want: expected revisions; pre: preimages hashed under the lock (and copied
\* to the recovery blobs); stored: the plan is in the journal payload; moved:
\* deletes whose trash path is in the payload; mutated: dests_mutated.
Row == [status : Status, step : Step, want : [Cell -> Val],
        pre : [Path -> Val], stored : BOOLEAN, moved : SUBSET Path,
        mutated : BOOLEAN]

NewRow == [status |-> "unborn", step |-> "none",
           want |-> [x \in Cell |-> Absent], pre |-> [p \in Path |-> Absent],
           stored |-> FALSE, moved |-> {}, mutated |-> FALSE]

Label == {"idle", "recover", "start", "prepare", "persist", "verify", "scan",
          "trash", "publish", "check", "commit", "store", "mark", "clean", "finish",
          "unpublish", "untrash", "settle", "scavenge"}
Mode == {"none", "transact", "recover", "operator"}
Act == [by : Project \cup {Nobody}, pc : Label, mode : Mode,
        op : Op \cup {Nobody}, job : Op \cup {Nobody},
        then : {"stop", "start", "scavenge"},
        todo : SUBSET Path, live : SUBSET Path, renamed : SUBSET Path,
        bad : BOOLEAN, verdict : {"failed", "conflicted", "abandoned"},
        seen : SUBSET Op]

Idle == [by |-> Nobody, pc |-> "idle", mode |-> "none", op |-> Nobody,
         job |-> Nobody, then |-> "stop", todo |-> {}, live |-> {},
         renamed |-> {}, bad |-> FALSE, verdict |-> "failed", seen |-> {}]

\* The next state of the lock holder when it is through with its operation: a
\* recovery pass goes on, anything else releases the locks.
Through ==
    IF act.mode = "recover"
    THEN [Idle EXCEPT !.by = act.by, !.pc = "recover", !.job = act.job,
                      !.then = act.then, !.seen = act.seen \cup {act.op}]
    ELSE Idle

Init ==
    /\ \E S \in Present : file = [p \in Path |-> IF p \in S THEN Initial ELSE Absent]
    /\ tmp = [o \in Op |-> {}]
    /\ trash = [o \in Op |-> [p \in Path |-> Absent]]
    /\ recovery = {}
    /\ quarantine = {}
    /\ reg = [x \in Cell |-> IF x \in Path THEN file[x] ELSE Initial]
    /\ row = [o \in Op |-> NewRow]
    /\ act = Idle
    /\ committed = {}
    /\ operated = {}
    /\ edited = [p \in Path |-> "never"]
    /\ spent = {}
    /\ crashes = 0

-----------------------------------------------------------------------------
(* Predicates the handlers branch on.                                      *)

At(label) == act.pc = label

\* _dest_already_published
AlreadyPublished(o) == \A p \in Publishes[o] : file[p] = o

\* transact's re-check of the expected revisions before the first rename
Unchanged(o) == \A p \in Guarded[o] : file[p] = row[o].want[p]

\* _trashed_delete_matches
TrashedMatches(o, p) ==
    /\ p \in Deletes[o]
    /\ file[p] = Absent
    /\ trash[o][p] # Absent
    /\ trash[o][p] \in {row[o].want[p], row[o].pre[p]}

\* Defect: only a missing file counts as drift.
SourcesOkIgnoresDrift(o) ==
    AlreadyPublished(o) \/ \A p \in Guarded[o] : row[o].want[p] # Absent => file[p] # Absent

\* _journal_sources_ok
SourcesOk(o) ==
    \/ AlreadyPublished(o)
    \/ \A p \in Guarded[o] : TrashedMatches(o, p) \/ file[p] = row[o].want[p]

\* project_domain_change with expected_domain: the row moved on
RegistryRefuses(o) ==
    o \in Strict /\ \E k \in Rows[o] : reg[k] # row[o].want[k]

\* _failed_owned_dests
FailedOwned ==
    UNION {Publishes[o] : o \in {x \in Op : /\ row[x].status \in {"failed", "conflicted"}
                                            /\ row[x].mutated}}

\* _apply_deletes, first pass: some target no longer is the file that was hashed
Blocked(o) ==
    \E p \in Deletes[o] :
        IF file[p] = Absent
        THEN /\ trash[o][p] # Absent
             /\ row[o].pre[p] # Absent
             /\ trash[o][p] # row[o].pre[p]
        ELSE file[p] # row[o].pre[p]

\* Deletes that carry a trash path afterwards: an already absent target has none
LiveDeletes(o) ==
    {p \in Deletes[o] : \/ file[p] # Absent
                        \/ trash[o][p] # Absent
                        \/ p \in row[o].moved}

\* The registry after apply_registry_ops for o
Applied(o) ==
    [x \in Cell |-> IF x \in Publishes[o] \cup Rows[o] THEN o
                    ELSE IF x \in Deletes[o] THEN Absent ELSE reg[x]]

\* Defect: a compensation that forgets the trash.
RestorableNothing(o, S) == {}

\* _restore_trash_records: put the trash of o back on the paths in S; a file the
\* user recreated there is quarantined first.
Restorable(o, S) == {p \in S : trash[o][p] # Absent}
RestoreTrash(o, S) ==
    LET R == Restorable(o, S)
    IN  /\ file' = [p \in Path |-> IF p \in R THEN trash[o][p] ELSE file[p]]
        /\ trash' = [trash EXCEPT ![o] =
                        [p \in Path |-> IF p \in R THEN Absent ELSE @[p]]]
        /\ quarantine' = quarantine \cup
                {<<p, file[p]>> : p \in {x \in R : file[x] # Absent}}

\* Defect: the two columns swapped.
SetRowSwapped(o, status, step) ==
    row' = [row EXCEPT ![o].status = step, ![o].step = status]

\* journal_step
SetRow(o, status, step) ==
    row' = [row EXCEPT ![o].status = status, ![o].step = step]

-----------------------------------------------------------------------------
(* Commands: each takes the mutation locks.                                *)

\* The caller reads the files and the rows its plan depends on, before the lock.
PlanOp(o) ==
    /\ row[o].status = "unborn"
    /\ row' = [row EXCEPT ![o].status = "planned",
                          ![o].want = [x \in Cell |->
                              IF x \in Path THEN file[x] ELSE reg[x]]]
    /\ UNCHANGED <<disk, reg, act, history>>

Lock(q, then, job, seen) ==
    /\ act.by = Nobody
    /\ act' = [Idle EXCEPT !.by = q, !.pc = "recover", !.then = then,
                           !.job = job, !.seen = seen]

\* transact: acquire the locks, then recover this project's pending rows first
Transact(o) ==
    /\ row[o].status = "planned"
    /\ Lock(Origin[o], "start", o, {})
    /\ UNCHANGED <<disk, reg, row, history>>

\* a pull, or any other command that only runs recover_pending under the locks
RecoverCommand(q) ==
    /\ Lock(q, "stop", Nobody, {})
    /\ UNCHANGED <<disk, reg, row, history>>

\* journal_cleanup
CleanupCommand(q) ==
    /\ Lock(q, "scavenge", Nobody, {})
    /\ UNCHANGED <<disk, reg, row, history>>

InJournal(o) == row[o].status \notin {"unborn", "planned"}

RetryAllowed(o) == InJournal(o) /\ row[o].status \notin {"complete", "abandoned"}

\* Defect: every row becomes pending again, the ones past COMMIT too.
RetryReopens(q, o) ==
    /\ RetryAllowed(o)
    /\ Lock(q, "stop", Nobody, Op \ {o})
    /\ row' = [row EXCEPT ![o].status = "pending"]
    /\ UNCHANGED <<disk, reg, history>>

\* journal_retry: a failed or conflicted row is pending again, then recovered
Retry(q, o) ==
    /\ RetryAllowed(o)
    /\ Lock(q, "stop", Nobody, Op \ {o})
    /\ IF row[o].status \in {"failed", "conflicted"}
       THEN /\ row' = [row EXCEPT ![o].status = "pending"]
            /\ operated' = operated \cup {o}
       ELSE UNCHANGED <<row, operated>>
    /\ UNCHANGED <<disk, reg, committed, edited, spent, crashes>>

RollbackAllowed(o) ==
    /\ InJournal(o)
    /\ row[o].status \notin {"complete", "cleanup_pending"}
    /\ row[o].step \notin PublishedSteps

\* journal_rollback
Rollback(q, o) ==
    /\ RollbackAllowed(o)
    /\ act.by = Nobody
    /\ act' = [Idle EXCEPT !.by = q, !.pc = "unpublish", !.mode = "operator",
                           !.op = o, !.live = row[o].moved,
                           !.verdict = "abandoned",
                           !.todo = IF row[o].stored THEN Publishes[o] ELSE {}]
    /\ operated' = operated \cup {o}
    /\ UNCHANGED <<disk, reg, row, committed, edited, spent, crashes>>

AbandonAllowed(o, acceptFs) ==
    /\ InJournal(o)
    /\ row[o].status \notin {"complete", "cleanup_pending"}
    /\ \/ acceptFs
       \/ o \notin recovery /\ Restorable(o, row[o].moved) = {}

\* journal_abandon: no restore, the operator accepts the files as they are
Abandon(q, o, acceptFs) ==
    /\ AbandonAllowed(o, acceptFs)
    /\ act.by = Nobody
    /\ act' = [Idle EXCEPT !.by = q, !.pc = "clean", !.mode = "operator",
                           !.op = o]
    /\ SetRow(o, "abandoned", "abandoned")
    /\ operated' = operated \cup {o}
    /\ UNCHANGED <<disk, reg, committed, edited, spent, crashes>>

-----------------------------------------------------------------------------
(* recover_pending: one row at a time.                                     *)

\* Defect: a session finishes the operation it was started for, and no other.
OriginMatchesJob(o) == o = act.job

\* ctx_matches: only a session of the project that began the operation
OriginMatches(o) == Origin[o] = act.by

\* Defect: an unfinished cleanup is left to the operator.
RecoverablePendingOnly(o) ==
    o \notin act.seen /\ row[o].status = "pending" /\ OriginMatches(o)

\* Rows this pass still has to look at; a pending row of another origin is left
\* alone, an unfinished cleanup is retried by anybody.
Recoverable(o) ==
    /\ o \notin act.seen
    /\ \/ row[o].status = "cleanup_pending"
       \/ row[o].status = "pending" /\ OriginMatches(o)

Skip(o) == act' = [act EXCEPT !.seen = @ \cup {o}]

RecoverCleanup(o) ==
    /\ At("recover")
    /\ Recoverable(o)
    /\ row[o].status = "cleanup_pending"
    /\ act' = [act EXCEPT !.pc = "clean", !.mode = "recover", !.op = o]
    /\ UNCHANGED <<disk, reg, row, history>>

\* no plan reached the journal: nothing was edited
RecoverAbandon(o) ==
    /\ At("recover")
    /\ Recoverable(o)
    /\ row[o].status = "pending"
    /\ ~row[o].stored
    /\ SetRow(o, "abandoned", row[o].step)
    /\ Skip(o)
    /\ UNCHANGED <<disk, reg, history>>

\* source drift: only trash recorded in the payload is put back
RecoverConflict(o) ==
    /\ At("recover")
    /\ Recoverable(o)
    /\ row[o].status = "pending"
    /\ row[o].stored
    /\ ~SourcesOk(o)
    /\ RestoreTrash(o, row[o].moved)
    /\ SetRow(o, "conflicted", row[o].step)
    /\ Skip(o)
    /\ UNCHANGED <<tmp, recovery, reg, history>>

RecoverRefused(o) ==
    /\ At("recover")
    /\ Recoverable(o)
    /\ row[o].status = "pending"
    /\ row[o].stored
    /\ SourcesOk(o)
    /\ RegistryRefuses(o)
    /\ SetRow(o, "conflicted", "conflicted")
    /\ Skip(o)
    /\ UNCHANGED <<disk, reg, history>>

\* Defect: destinations that are all in place are taken for a committed operation.
ReplayTrustsDisk(o) ==
    /\ At("recover")
    /\ Recoverable(o)
    /\ row[o].status = "pending"
    /\ row[o].stored
    /\ SourcesOk(o)
    /\ ~RegistryRefuses(o)
    /\ act' = [act EXCEPT !.pc = IF AlreadyPublished(o) THEN "mark" ELSE "scan",
                          !.mode = "recover", !.op = o]
    /\ UNCHANGED <<disk, reg, row, history>>

RecoverReplay(o) ==
    /\ At("recover")
    /\ Recoverable(o)
    /\ row[o].status = "pending"
    /\ row[o].stored
    /\ SourcesOk(o)
    /\ ~RegistryRefuses(o)
    /\ act' = [act EXCEPT !.pc = "scan", !.mode = "recover", !.op = o]
    /\ UNCHANGED <<disk, reg, row, history>>

RecoverDone ==
    /\ At("recover")
    /\ \A o \in Op : ~Recoverable(o)
    /\ act' = CASE act.then = "start" -> [Idle EXCEPT !.by = act.by, !.pc = "start",
                                              !.mode = "transact", !.op = act.job]
                [] act.then = "scavenge" -> [Idle EXCEPT !.by = act.by, !.pc = "scavenge"]
                [] OTHER -> Idle
    /\ UNCHANGED <<disk, reg, row, history>>

-----------------------------------------------------------------------------
(* transact, up to the stored plan.                                        *)

JournalStart ==
    /\ At("start")
    /\ SetRow(act.op, "pending", "journal_start")
    /\ act' = [act EXCEPT !.pc = "prepare"]
    /\ UNCHANGED <<disk, reg, history>>

\* mutate raises: the row stays as it is, the locks are released
MutateRefuses ==
    /\ At("prepare")
    /\ act' = Idle
    /\ UNCHANGED <<disk, reg, row, history>>

\* sidecar temps, preimage hashes, recovery blobs
StageTemps ==
    /\ At("prepare")
    /\ tmp' = [tmp EXCEPT ![act.op] = Publishes[act.op]]
    /\ recovery' = recovery \cup {act.op}
    /\ row' = [row EXCEPT ![act.op].pre = file]
    /\ act' = [act EXCEPT !.pc = "persist"]
    /\ UNCHANGED <<file, trash, quarantine, reg, history>>

Unstage(o) == tmp' = [tmp EXCEPT ![o] = {}]

PlanRefused ==
    LET o == act.op IN
    /\ At("persist")
    /\ \/ RegistryRefuses(o) /\ SetRow(o, "conflicted", "conflicted")
       \/ /\ ~RegistryRefuses(o)
          /\ Publishes[o] \cap FailedOwned # {}
          /\ SetRow(o, "abandoned", "abandoned")
    /\ Unstage(o)
    /\ act' = Idle
    /\ UNCHANGED <<file, trash, recovery, quarantine, reg, history>>

PersistPlan ==
    LET o == act.op IN
    /\ At("persist")
    /\ ~RegistryRefuses(o)
    /\ Publishes[o] \cap FailedOwned = {}
    /\ row' = [row EXCEPT ![o].stored = TRUE, ![o].step = "prepare_temps"]
    /\ act' = [act EXCEPT !.pc = "verify"]
    /\ UNCHANGED <<disk, reg, history>>

VerifyUnchanged ==
    /\ At("verify")
    /\ Unchanged(act.op)
    /\ SetRow(act.op, "pending", "verify_unchanged")
    /\ act' = [act EXCEPT !.pc = "scan"]
    /\ UNCHANGED <<disk, reg, history>>

SourceChanged ==
    /\ At("verify")
    /\ ~Unchanged(act.op)
    /\ SetRow(act.op, "failed", "failed")
    /\ act' = Idle
    /\ UNCHANGED <<disk, reg, history>>

-----------------------------------------------------------------------------
(* Deletes and publishes, shared by transact and recover_pending.          *)

\* A delete that cannot be done: transact fails with nothing else edited,
\* recovery first compensates what an earlier run of this row published.
DeleteFailed(live) ==
    IF act.mode = "transact"
    THEN SetRow(act.op, "failed", "failed") /\ act' = Idle
    ELSE /\ act' = [act EXCEPT !.pc = "unpublish", !.todo = Publishes[act.op],
                               !.live = live, !.verdict = "failed"]
         /\ UNCHANGED row

ScanDeletes ==
    LET o == act.op IN
    /\ At("scan")
    /\ IF Blocked(o) THEN DeleteFailed(LiveDeletes(o))
       ELSE /\ act' = [act EXCEPT !.pc = "trash", !.live = LiveDeletes(o),
                                  !.todo = {p \in Deletes[o] : file[p] # Absent}]
            /\ UNCHANGED row
    /\ UNCHANGED <<disk, reg, history>>

\* os.rename(path, trash), after the trash.exists() check
TrashOne(p) ==
    /\ At("trash")
    /\ p \in act.todo
    /\ file[p] # Absent
    /\ trash[act.op][p] = Absent
    /\ trash' = [trash EXCEPT ![act.op][p] = file[p]]
    /\ file' = [file EXCEPT ![p] = Absent]
    /\ act' = [act EXCEPT !.todo = @ \ {p}, !.renamed = @ \cup {p}]
    /\ UNCHANGED <<tmp, recovery, quarantine, reg, row, history>>

\* an OSError: the renames of this call are undone
TrashFails ==
    /\ At("trash")
    /\ act.todo # {}
    /\ RestoreTrash(act.op, act.renamed)
    /\ DeleteFailed(act.live)
    /\ UNCHANGED <<tmp, recovery, reg, history>>

AfterTrash ==
    LET o == act.op IN
    /\ At("trash")
    /\ act.todo = {}
    /\ row' = IF act.mode = "transact"
              THEN [row EXCEPT ![o].moved = act.live, ![o].step = "after_trash"]
              ELSE row
    /\ act' = [act EXCEPT !.pc = "publish", !.todo = Publishes[o]]
    /\ UNCHANGED <<disk, reg, history>>

\* One item of _publish_destinations. "replace" lands whatever is there, "create"
\* only on a free path; without a temp the destination must already be right.
PublishOne(p) ==
    LET o == act.op
        lands == p \in tmp[o] /\ (p \in Creates[o] => file[p] \in {Absent, o})
    IN  /\ At("publish")
        /\ p \in act.todo
        /\ file' = IF lands THEN [file EXCEPT ![p] = o] ELSE file
        /\ tmp' = IF lands THEN [tmp EXCEPT ![o] = @ \ {p}] ELSE tmp
        /\ act' = [act EXCEPT !.todo = @ \ {p},
                              !.bad = @ \/ (~lands /\ file[p] # o)]
        /\ UNCHANGED <<trash, recovery, quarantine, reg, row, history>>

\* a crash between os.link and the unlink of the temp
CrashAfterLink(p) ==
    /\ At("publish")
    /\ p \in act.todo \cap Creates[act.op] \cap tmp[act.op]
    /\ file[p] = Absent
    /\ crashes < MaxCrashes
    /\ file' = [file EXCEPT ![p] = act.op]
    /\ act' = Idle
    /\ crashes' = crashes + 1
    /\ UNCHANGED <<tmp, trash, recovery, quarantine, reg, row,
                   committed, operated, edited, spent>>

Compensate(verdict) ==
    act' = [act EXCEPT !.verdict = verdict, !.todo = Publishes[act.op],
              !.pc = IF act.mode = "transact" THEN "untrash" ELSE "unpublish"]

AfterDests ==
    /\ At("publish")
    /\ act.todo = {}
    /\ IF act.mode = "transact"
       THEN /\ SetRow(act.op, "pending", "after_dests")
            /\ act' = [act EXCEPT !.pc = "check"]
       ELSE /\ IF act.bad THEN Compensate("failed")
               ELSE act' = [act EXCEPT !.pc = "commit"]
            /\ UNCHANGED row
    /\ UNCHANGED <<disk, reg, history>>

\* file postconditions: every destination has its hash, every delete is gone
FilesInPlace(o) ==
    /\ ~act.bad
    /\ AlreadyPublished(o)
    /\ \A p \in Deletes[o] : file[p] = Absent

CheckDests ==
    /\ At("check")
    /\ IF FilesInPlace(act.op)
       THEN /\ SetRow(act.op, "pending", "publish")
            /\ act' = [act EXCEPT !.pc = "commit"]
       ELSE Compensate("failed") /\ UNCHANGED row
    /\ UNCHANGED <<disk, reg, history>>

CommitRegistry ==
    /\ At("commit")
    /\ reg' = Applied(act.op)
    /\ committed' = committed \cup {act.op}
    /\ act' = [act EXCEPT !.pc = IF act.mode = "transact" THEN "mark" ELSE "store"]
    /\ UNCHANGED <<disk, row, operated, edited, spent, crashes>>

\* sqlite refuses the COMMIT
CommitFails ==
    /\ At("commit")
    /\ Compensate("conflicted")
    /\ UNCHANGED <<disk, reg, row, history>>

\* recovery first stores its delete records, and then the status
StoreDeletes ==
    /\ At("store")
    /\ row' = [row EXCEPT ![act.op].moved = act.live,
                          ![act.op].step = "cleanup_pending"]
    /\ act' = [act EXCEPT !.pc = "mark"]
    /\ UNCHANGED <<disk, reg, history>>

\* committed-cleanup-pending
MarkCleanup ==
    /\ At("mark")
    /\ SetRow(act.op, "cleanup_pending", "cleanup_pending")
    /\ act' = [act EXCEPT !.pc = "clean"]
    /\ UNCHANGED <<disk, reg, history>>

-----------------------------------------------------------------------------
(* Cleanup after COMMIT, and compensation.                                 *)

\* _finish_sensitive_cleanup: the recovery directory, and the trash and temps that
\* the stored payload names
Clean ==
    LET o == act.op IN
    /\ At("clean")
    /\ trash' = [trash EXCEPT ![o] =
                    [p \in Path |-> IF p \in row[o].moved THEN Absent ELSE @[p]]]
    /\ recovery' = recovery \ {o}
    /\ IF row[o].stored THEN Unstage(o) ELSE UNCHANGED tmp
    /\ act' = [act EXCEPT !.pc = "finish"]
    /\ UNCHANGED <<file, quarantine, reg, row, history>>

\* A delete without a trash path makes _commit_trash unlink Path("") = ".", which
\* is an error every time.
CleanupErrors(o) == ~(Deletes[o] \subseteq row[o].moved)

Finish ==
    /\ At("finish")
    /\ IF act.mode # "operator" /\ ~CleanupErrors(act.op)
       THEN SetRow(act.op, "complete", "journal_complete")
       ELSE UNCHANGED row
    /\ act' = Through
    /\ UNCHANGED <<disk, reg, history>>

\* One item of _restore_dest_preimages: only bytes this operation published (or
\* nothing) are replaced; anything newer is quarantined first.
NeedsBlob(o, p) == row[o].pre[p] # Absent /\ file[p] # row[o].pre[p]

UnpublishOne(p) ==
    LET o == act.op IN
    /\ At("unpublish")
    /\ p \in act.todo
    /\ NeedsBlob(o, p) => o \in recovery
    /\ file' = [file EXCEPT ![p] = row[o].pre[p]]
    /\ quarantine' = IF file[p] \in {Absent, o, row[o].pre[p]} THEN quarantine
                     ELSE quarantine \cup {<<p, file[p]>>}
    /\ act' = [act EXCEPT !.todo = @ \ {p}]
    /\ UNCHANGED <<tmp, trash, recovery, reg, row, history>>

\* the blob is gone: the operator's command is refused half way
UnpublishRefused(p) ==
    /\ At("unpublish")
    /\ act.mode = "operator"
    /\ p \in act.todo
    /\ NeedsBlob(act.op, p)
    /\ act.op \notin recovery
    /\ act' = Idle
    /\ UNCHANGED <<disk, reg, row, history>>

UnpublishDone ==
    /\ At("unpublish")
    /\ act.todo = {}
    /\ act' = [act EXCEPT !.pc = IF act.mode = "transact" THEN "settle"
                                                          ELSE "untrash"]
    /\ UNCHANGED <<disk, reg, row, history>>

\* transact records dests_mutated before it restores the destinations
Untrash ==
    LET o == act.op IN
    /\ At("untrash")
    /\ RestoreTrash(o, act.live)
    /\ IF act.mode = "transact"
       THEN /\ row' = [row EXCEPT ![o].mutated = TRUE]
            /\ act' = [act EXCEPT !.pc = "unpublish"]
       ELSE /\ act' = [act EXCEPT !.pc = "settle"]
            /\ UNCHANGED row
    /\ UNCHANGED <<tmp, recovery, reg, history>>

Settle ==
    /\ At("settle")
    /\ SetRow(act.op, act.verdict, act.verdict)
    /\ act' = IF act.mode = "operator" THEN [act EXCEPT !.pc = "clean"]
                                       ELSE Through
    /\ UNCHANGED <<disk, reg, history>>

\* Defect: only pending rows keep their sidecars.
HeldPendingOnly(o) == row[o].status = "pending"

\* journal_cleanup after its recovery pass: sidecars of rows that hold nothing
Held(o) == row[o].status \in HoldFs

Scavenge ==
    /\ At("scavenge")
    /\ trash' = [o \in Op |-> IF Held(o) THEN trash[o] ELSE [p \in Path |-> Absent]]
    /\ tmp' = [o \in Op |-> IF Held(o) THEN tmp[o] ELSE {}]
    /\ recovery' = {o \in recovery : Held(o) \/ row[o].status = "cleanup_pending"}
    /\ act' = Idle
    /\ UNCHANGED <<file, quarantine, reg, row, history>>

\* compact_journal: rows whose work is over lose their blobs, the old ones of them
\* (S) keep a receipt instead of the plan
Compact(S) ==
    /\ act.by = Nobody
    /\ \A o \in S : row[o].status \in {"complete", "abandoned"} /\ row[o].stored
    /\ recovery' = {o \in recovery : row[o].status \in HoldFs \cup {"cleanup_pending"}}
    /\ row' = [o \in Op |-> IF o \in S THEN [row[o] EXCEPT !.stored = FALSE, !.moved = {}]
                                       ELSE row[o]]
    /\ UNCHANGED <<file, tmp, trash, quarantine, reg, act, history>>

-----------------------------------------------------------------------------
(* The environment.                                                        *)

\* flock and the open sqlite transaction die with the process
Crash ==
    /\ act.by # Nobody
    /\ crashes < MaxCrashes
    /\ crashes' = crashes + 1
    /\ act' = Idle
    /\ UNCHANGED <<disk, reg, row, committed, operated, edited, spent>>

\* the user (or the agent's editor) writes or removes a file at any time
UserEdit(p, u) ==
    /\ u \notin spent
    /\ spent' = spent \cup {u}
    /\ edited' = [edited EXCEPT ![p] = IF act.by = Nobody THEN "idle" ELSE "racing"]
    /\ \E v \in {u, Absent} \ {file[p]} : file' = [file EXCEPT ![p] = v]
    /\ UNCHANGED <<tmp, trash, recovery, quarantine, reg, row, act,
                   committed, operated, crashes>>

Recovering == \/ \E o \in Op : \/ RecoverCleanup(o) \/ RecoverAbandon(o)
                               \/ RecoverConflict(o) \/ RecoverRefused(o)
                               \/ RecoverReplay(o)
              \/ RecoverDone

Transacting == \/ JournalStart \/ StageTemps \/ PlanRefused \/ PersistPlan
               \/ VerifyUnchanged \/ SourceChanged

Applying == \/ ScanDeletes \/ AfterTrash \/ AfterDests \/ CheckDests
            \/ CommitRegistry \/ StoreDeletes \/ MarkCleanup \/ Clean \/ Finish
            \/ \E p \in Path : TrashOne(p) \/ PublishOne(p)

Undoing == \/ UnpublishDone \/ Untrash \/ Settle \/ Scavenge
           \/ \E p \in Path : UnpublishOne(p) \/ UnpublishRefused(p)

\* the steps of the lock holder
Work == Recovering \/ Transacting \/ Applying \/ Undoing

Command == \/ \E o \in Op : PlanOp(o) \/ Transact(o)
           \/ \E q \in Project : RecoverCommand(q) \/ CleanupCommand(q)
           \/ \E q \in Project, o \in Op :
                \/ Retry(q, o) \/ Rollback(q, o)
                \/ \E acceptFs \in BOOLEAN : Abandon(q, o, acceptFs)
           \/ \E S \in SUBSET Op : Compact(S)

Fault == \/ MutateRefuses \/ TrashFails \/ CommitFails \/ Crash
         \/ \E p \in Path : CrashAfterLink(p)
         \/ \E p \in Path, u \in User : UserEdit(p, u)

Next == Work \/ Command \/ Fault

Spec == Init /\ [][Next]_vars

\* A process that holds the locks keeps running unless it crashes, and every
\* project keeps having sessions that run a recovering command; with the locks
\* contended, that command is enabled again and again.
FairSpec == /\ Spec
            /\ WF_vars(Work)
            /\ \A q \in Project : SF_vars(RecoverCommand(q))

-----------------------------------------------------------------------------
(* Properties.                                                             *)

TypeOK ==
    /\ file \in [Path -> Val]
    /\ tmp \in [Op -> SUBSET Path]
    /\ trash \in [Op -> [Path -> Val]]
    /\ recovery \subseteq Op
    /\ quarantine \subseteq Path \X Val
    /\ reg \in [Cell -> Val]
    /\ row \in [Op -> Row]
    /\ act \in Act
    /\ committed \subseteq Op
    /\ operated \subseteq Op
    /\ edited \in [Path -> {"never", "idle", "racing"}]
    /\ spent \subseteq User
    /\ crashes \in 0..MaxCrashes

\* A row says complete, or committed-cleanup-pending, only when the registry
\* COMMIT of that very operation happened, whatever crashes, retries, rollbacks
\* and recoveries by other projects came before (transact, recover_pending).
CompleteMeansCommitted ==
    \A o \in Op : row[o].status \in {"cleanup_pending", "complete"} => o \in committed

\* The row of the operation in hand is where its lock holder believes it is, at
\* every step of transact, of recovery and of an operator command; with no command
\* running nothing of an earlier holder's state is left.
HolderAgrees ==
    LET own == row[act.op] IN
    /\ act.by = Nobody => act = Idle
    /\ act.mode = "none" <=> act.pc \in {"idle", "recover", "scavenge"}
    /\ act.then = "start" => act.job \in Op /\ row[act.job].status = "planned"
    /\ act.mode # "none" => act.op \in Op
    /\ At("start") => own.status = "planned"
    /\ act.mode = "transact" => act.then = "stop"
    /\ act.pc \in {"start", "prepare", "persist", "verify", "check"} => act.mode = "transact"
    /\ act.mode \in {"transact", "recover"} =>
         /\ act.pc \in {"clean", "finish"} => own.status = "cleanup_pending"
         /\ act.pc \notin {"start", "clean", "finish"} => own.status = "pending"
    /\ act.mode # "operator" => act.verdict # "abandoned"
    /\ act.mode = "operator" =>
         /\ act.pc \in {"unpublish", "untrash", "settle", "clean", "finish"}
         /\ act.pc \in {"clean", "finish"} => own.status = "abandoned"
         /\ act.pc \in {"unpublish", "untrash", "settle"} =>
                /\ own.status \notin {"unborn", "planned", "cleanup_pending", "complete"}
                /\ act.verdict = "abandoned"
    /\ act.pc \in {"store", "mark"} => act.op \in committed
    /\ At("persist") => act.op \in recovery

\* The preimage blobs of a row that may still be rolled back or replayed are on
\* disk: no cleanup, scavenge or finished recovery of any project removed them
\* (JOURNAL_HOLD_FS, ADR 021).
PreimagesHeld ==
    \A o \in Op : row[o].status \in HoldFs /\ row[o].stored => o \in recovery

\* Bytes renamed to trash leave it only by going back to their path, or when the
\* row is past COMMIT or was given up by an operator (_commit_trash,
\* _restore_trash_records, journal_cleanup).
TrashKept ==
    [][\A o \in Op, p \in Path :
         trash[o][p] # Absent /\ trash'[o][p] = Absent =>
            \/ file'[p] = trash[o][p]
            \/ row[o].status \in {"cleanup_pending", "abandoned"}]_vars

Touches(o) == Publishes[o] \cup Deletes[o]

\* Rows that leave their files as the registry has them: not started, without a
\* stored plan, given up or failed before COMMIT, or committed
AtRest(o) ==
  \/ row[o].status \in {"unborn", "planned", "abandoned", "cleanup_pending", "complete"}
  \/ row[o].status = "pending" /\ ~row[o].stored
  \/ row[o].status = "failed" /\ o \notin committed

\* A file of one project that neither the user nor an operator interfered with
OneOrigin(p) ==
  \A o, x \in Op : p \in Touches(o) \cap Touches(x) => Origin[o] = Origin[x]
Calm(p) ==
  /\ edited[p] = "never"
  /\ OneOrigin(p)
  /\ \A o \in operated : p \notin Touches(o)

\* At every moment a file that only one project's operations write agrees with its
\* registry row, if the user and the operators kept off it and no operation on it
\* is unfinished, in conflict or failed after its COMMIT: trash, publish, COMMIT,
\* journal, interrupted by any crash and finished by any later session, end
\* complete-old or complete-new (ADR 010), whatever happens to the other files of
\* the same operations.
DiskMatchesRegistry ==
    \A p \in Path :
       Calm(p) /\ (\A o \in Op : p \in Touches(o) => AtRest(o)) => file[p] = reg[p]

AlwaysGuarded(p) == \A o \in Op : p \in Touches(o) => p \in Guarded[o]

\* The bytes the operation in hand may take from p: the ones it planned on, or, when
\* a delete is replayed, the ones it hashed under the locks
Expected(p) ==
    {row[act.op].want[p]} \cup
    IF act.mode = "recover" /\ p \in Deletes[act.op] THEN {row[act.op].pre[p]} ELSE {}

\* What the user wrote while no command was running is never destroyed on a path
\* with expected revisions, unless by the user: the operation expected these bytes,
\* or they are moved aside first (_journal_sources_ok, _apply_deletes,
\* _quarantine_dest).
IdleEditsSurvive ==
    [][\A p \in Path :
         /\ file[p] \in User
         /\ edited[p] = "idle" /\ spent' = spent
         /\ AlwaysGuarded(p)
         /\ file'[p] # file[p]
         => <<p, file[p]>> \in quarantine' \/ file[p] \in Expected(p)]_vars

\* What a caller of transact sees of a row: applied once its COMMIT happened.
Outcome ==
    [o \in Op |->
        CASE row[o].status \in {"cleanup_pending", "complete"} -> "closed"
          [] row[o].status = "abandoned" /\ o \notin committed -> "refused"
          [] row[o].status \notin {"cleanup_pending", "complete"}
                /\ o \in committed -> "applied"
          [] OTHER -> "open"]

Atomic == INSTANCE AtomicTx
            WITH store <- reg, outcome <- Outcome, Erases <- Deletes,
                 Writes <- [o \in Op |-> Publishes[o] \cup Rows[o]]

\* The registry changes only by whole operations, an abandoned operation never
\* takes effect later, and a complete one is never replayed over newer rows.
ImplementsAtomicTx == Atomic!Spec

\* A pending row does not stay pending: some later session of its project
\* finishes it, undoes it, or reports it as failed or conflicted.
PendingResolves == \A o \in Op : (row[o].status = "pending") ~> (row[o].status # "pending")

\* After COMMIT the cleanup is retried until the row is complete, unless one of
\* its delete targets was absent when it was to be renamed (see CleanupFinishes).
CleanupCompletes ==
    \A o \in Op : (row[o].status = "cleanup_pending" /\ ~CleanupErrors(o))
                    ~> (row[o].status = "complete")

-----------------------------------------------------------------------------
(* What the repository says of the journal, checked in the runs that expect *)
(* a violation.                                                            *)

\* docs/adr/021-journal-terminal-cleanup.md: after the logical mutation has
\* committed, journal retry / the next transact recovers a failed cleanup.
CleanupFinishes ==
    \A o \in Op : (row[o].status = "cleanup_pending") ~> (row[o].status = "complete")

CompleteOld(o) == \A p \in Touches(o) : file[p] = row[o].pre[p]
CompleteNew(o) == /\ \A p \in Publishes[o] : file[p] = o
                  /\ \A p \in Deletes[o] : file[p] = Absent

\* docs/adr/010-journal-v3.md: recovery yields complete-old or complete-new, never
\* mixed. Stated of rows that recovery is through with, where no operator and no
\* user touched anything.
NeverMixed ==
    \A o \in Op :
        /\ act.by = Nobody
        /\ row[o].stored
        /\ row[o].status \in {"failed", "conflicted", "abandoned", "complete"}
        /\ operated = {}
        /\ \A p \in Path : edited[p] = "never"
        => CompleteOld(o) \/ CompleteNew(o)

\* control_plane.py, journal_rollback: restores dests and trash before it marks the
\* row abandoned; a failed restore does not mark abandoned (ADR 021).
RollbackRestoresTrash ==
    act.mode = "operator" /\ At("settle") =>
        \A p \in Deletes[act.op] : trash[act.op][p] = Absent

\* docs/adr/021-journal-terminal-cleanup.md: rollback of a post-commit op is refused.
RollbackBeforeCommit ==
    act.mode = "operator" /\ At("unpublish") => act.op \notin committed

=============================================================================
