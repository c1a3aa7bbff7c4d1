---------------------------- MODULE JournalTxDisk ----------------------------
(***************************************************************************)
(* For every set of operations, projects and files, and any number of      *)
(* crashes, I/O errors and user edits: the files end as the registry has   *)
(* them, the trash is kept until it may go, and what the user wrote while  *)
(* nobody was at work is never destroyed.                                  *)
(*                                                                         *)
(* The argument follows one file p.  While an operation that touches p has *)
(* a stored plan and is pending, p is where it was before the operation or *)
(* where the operation puts it, and its preimage is what the registry has  *)
(* (Between).  No other operation of the same project can be in that state *)
(* (Alone), because a transact first recovers what its project left        *)
(* pending.  Reached says how far the lock holder has brought p, so that   *)
(* the status it writes in the end is true of p.                           *)
(***************************************************************************)
EXTENDS JournalTxProofs

USE DEF disk, history

Busy == act.mode \in {"transact", "recover"}
Trashed(o) == {p \in Path : trash[o][p] # Absent}
Begun(o) == row[o].status = "pending" /\ row[o].stored
Stuck(o) == \/ row[o].status = "conflicted"
            \/ row[o].status = "failed" /\ o \in committed

\* The lock holder of a transact runs an operation of its own project, with no other
\* operation of that project pending; an operator's command marks its operation.
ScopeKnown ==
    /\ act.then = "start" => /\ act.by = Origin[act.job]
                             /\ \A x \in act.seen : row[x].status # "pending"
    /\ act.mode = "transact" =>
         /\ act.by = Origin[act.op]
         /\ \A x \in Op \ {act.op} : Origin[x] = act.by => row[x].status # "pending"
    /\ act.mode = "operator" => act.op \in operated

\* The plan is in the journal before the first edit.
PlanKnown ==
    /\ act.pc \in {"start", "prepare", "persist"} => ~row[act.op].stored
    /\ Busy /\ act.pc \notin {"start", "prepare", "persist", "clean", "finish"} =>
         row[act.op].stored

\* What the lock holder still has to do.
TodoKnown ==
    /\ act.pc \in {"publish", "unpublish"} => act.todo \subseteq Publishes[act.op]
    /\ act.mode = "transact" /\ At("untrash") => act.todo = Publishes[act.op]
    /\ At("trash") => act.todo \subseteq Deletes[act.op] \cap act.live

\* The lock holder knows all the trash of its operation.
TrashKnown ==
    /\ Busy /\ act.pc \in {"trash", "publish", "check", "commit", "unpublish", "untrash"} =>
         Trashed(act.op) \subseteq act.live
    /\ act.mode = "transact" /\ act.pc \in {"verify", "scan"} => Trashed(act.op) = {}
    /\ act.mode = "transact" /\ At("trash") => Trashed(act.op) \subseteq act.renamed
    /\ Busy /\ At("finish") => row[act.op].moved \cap Trashed(act.op) = {}

\* Trash is the trash of a delete whose row has a plan and is not complete.
OwnTrash ==
    \A o \in Op, p \in Path :
        trash[o][p] # Absent => /\ p \in Deletes[o]
                                /\ row[o].status # "complete"
                                /\ row[o].stored \/ row[o].status = "abandoned"

\* No two operations of one project are pending, unless an operator reopened one.
Alone ==
    \A x, y \in Op \ operated :
        Origin[x] = Origin[y] /\ row[x].status = "pending" /\ row[y].status = "pending"
        => x = y

\* Nothing that would take p from the transactions' hands happened.
Settled(p) == Calm(p) /\ \A o \in Op : p \in Touches(o) => ~Stuck(o)

Before(o, p) == file[p] = row[o].pre[p]
After(o, p) == file[p] = IF p \in Publishes[o] THEN o ELSE Absent
Between(o, p) ==
    /\ p \in Publishes[o] => Before(o, p) \/ After(o, p)
    /\ p \in Deletes[o] => \/ Before(o, p) /\ trash[o][p] = Absent
                           \/ After(o, p) /\ trash[o][p] = row[o].pre[p]
    /\ o \notin committed => reg[p] = row[o].pre[p]

\* A file is complete-old or complete-new for the operation that has it in hand, and
\* as the registry says when there is none.
FilesAgree ==
    \A p \in Path : Settled(p) =>
        /\ \A o \in Op : p \in Touches(o) /\ Begun(o) => Between(o, p)
        /\ (\A o \in Op : p \in Touches(o) => ~Begun(o)) => file[p] = reg[p]

\* How far the lock holder has brought the file p of its operation o.
Brought(o, p) ==
    /\ At("persist") => Before(o, p)
    /\ act.mode = "transact" /\ act.pc \in {"verify", "scan", "trash"} /\ p \in Publishes[o]
         => Before(o, p)
    /\ At("trash") /\ p \in Deletes[o] \ act.todo => After(o, p)
    /\ At("publish") /\ p \in Deletes[o] => After(o, p)
    /\ At("publish") /\ p \in Publishes[o] \ act.todo /\ ~act.bad => After(o, p)
    /\ At("commit") => After(o, p)
    /\ act.pc \in {"store", "mark"} => file[p] = reg[p]
    /\ At("unpublish") /\ p \in Publishes[o] \ act.todo => Before(o, p)
    /\ At("unpublish") /\ act.mode = "transact" /\ p \in Deletes[o] => Before(o, p)
    /\ At("untrash") /\ act.mode = "recover" /\ p \in Publishes[o] => Before(o, p)
    /\ At("settle") => Before(o, p)
Reached ==
    \A p \in Path : Busy /\ p \in Touches(act.op) /\ Settled(p) => Brought(act.op, p)

\* The user's bytes on a path the lock holder is about to take are the expected ones.
EditsExpected ==
    \A p \in Path :
        /\ Busy
        /\ p \in Guarded[act.op]
        /\ edited[p] = "idle"
        /\ file[p] \in User
        => /\ act.mode = "transact" /\ act.pc \in {"scan", "trash", "publish"} =>
                file[p] = row[act.op].want[p]
           /\ act.mode = "recover" /\ act.pc \in {"scan", "trash", "publish"}
                /\ p \in Publishes[act.op] => file[p] = row[act.op].want[p]
           /\ act.mode = "recover" /\ At("trash") /\ p \in act.todo =>
                file[p] \in Expected(p)

DInv == /\ IInv
        /\ ScopeKnown
        /\ PlanKnown
        /\ TodoKnown
        /\ TrashKnown
        /\ OwnTrash
        /\ Alone
        /\ FilesAgree
        /\ Reached
        /\ EditsExpected

-----------------------------------------------------------------------------
(* The journal, row by row.                                                *)

\* What a step may do to one row.
Fate(o) ==
    /\ row[o].status \in {"conflicted", "failed"} /\ row'[o].status # row[o].status =>
         o \in operated'
    /\ row'[o].status = "pending" => \/ row[o].status = "pending"
                                     \/ At("start") /\ o = act.op
                                     \/ o \in operated' /\ act'.then = "stop"
                                          /\ act'.mode = "none"
    /\ row[o].status \in {"abandoned", "complete"} => row'[o].status = row[o].status
    /\ row'[o].status = "complete" => \/ row[o].status = "complete"
                                      \/ Finish /\ Busy /\ o = act.op /\ ~CleanupErrors(o)
    /\ row'[o].stored => row[o].stored \/ (PersistPlan /\ o = act.op)
    /\ row[o].stored => row'[o].stored \/ row[o].status \in {"complete", "abandoned"}
    /\ row'[o].pre # row[o].pre => At("prepare") /\ o = act.op /\ row'[o].pre = file
    /\ row'[o].want # row[o].want => row[o].status = "unborn"

\* journal_step changes status and step only.
LEMMA SetRowFrame ==
  ASSUME row \in [Op -> Row], NEW o \in Op, NEW st, NEW s, SetRow(o, st, s)
  PROVE  /\ row'[o].status = st
         /\ row'[o].stored = row[o].stored /\ row'[o].pre = row[o].pre
         /\ row'[o].want = row[o].want /\ row'[o].moved = row[o].moved
         /\ \A x \in Op \ {o} : row'[x] = row[x]
  BY DEF SetRow, Row

\* Every step does only that.
LEMMA Fates ==
  ASSUME TypeOK, HolderAgrees, ScopeKnown, [Next]_vars
  PROVE  \A o \in Op : Fate(o)
<1>t. act \in Act /\ row \in [Op -> Row]
  BY DEF TypeOK
<1>h. act.pc \notin {"idle", "recover", "scavenge"} => act.op \in Op
  BY <1>t, InHand
<1>u. ASSUME UNCHANGED row PROVE \A o \in Op : Fate(o)
  BY <1>u DEF Fate
<1>1. ASSUME NEW o \in Op, PlanOp(o) PROVE \A x \in Op : Fate(x)
  <2>1. /\ row'[o].status = "planned" /\ row'[o].stored = row[o].stored
        /\ row'[o].pre = row[o].pre /\ row[o].status = "unborn"
        /\ \A x \in Op \ {o} : row'[x] = row[x]
    BY <1>1, <1>t DEF PlanOp, Row
  <2> QED BY <2>1 DEF Fate
<1>2. ASSUME NEW q \in Project, NEW o \in Op, Retry(q, o) PROVE \A x \in Op : Fate(x)
  <2>1. CASE UNCHANGED row
    BY <2>1, <1>u
  <2>2. CASE ~UNCHANGED row
    <3>1. /\ row'[o].status = "pending" /\ row'[o].stored = row[o].stored
          /\ row'[o].pre = row[o].pre /\ row'[o].want = row[o].want
          /\ row[o].status \in {"failed", "conflicted"} /\ o \in operated'
          /\ \A x \in Op \ {o} : row'[x] = row[x]
      BY <1>2, <2>2, <1>t DEF Retry, Row
    <3>2. act'.then = "stop" /\ act'.mode = "none"
      BY <1>2 DEF Retry, Lock, Idle
    <3> QED BY <3>1, <3>2 DEF Fate
  <2> QED BY <2>1, <2>2
<1>3. ASSUME NEW q \in Project, NEW o \in Op, NEW f \in BOOLEAN, Abandon(q, o, f)
      PROVE  \A x \in Op : Fate(x)
  <2>1. /\ row[o].status # "complete" /\ o \in operated'
        /\ SetRow(o, "abandoned", "abandoned")
    BY <1>3 DEF Abandon, AbandonAllowed
  <2> QED BY <2>1, <1>t, SetRowFrame DEF Fate
<1>4. ASSUME NEW S \in SUBSET Op, Compact(S) PROVE \A x \in Op : Fate(x)
  <2>1. \A x \in Op : /\ row'[x].status = row[x].status /\ row'[x].pre = row[x].pre
                      /\ row'[x].want = row[x].want
                      /\ row'[x].stored => row[x].stored
                      /\ row[x].stored => row'[x].stored \/ x \in S
    BY <1>4, <1>t DEF Compact, Row
  <2>2. \A x \in S : row[x].status \in {"complete", "abandoned"}
    BY <1>4 DEF Compact
  <2> QED BY <2>1, <2>2 DEF Fate
<1>5. ASSUME NEW o \in Op, RecoverAbandon(o) \/ RecoverConflict(o) \/ RecoverRefused(o)
      PROVE  \A x \in Op : Fate(x)
  <2>1. PICK st, s : st \in {"abandoned", "conflicted"} /\ SetRow(o, st, s)
    BY <1>5 DEF RecoverAbandon, RecoverConflict, RecoverRefused
  <2>2. row[o].status = "pending"
    BY <1>5 DEF RecoverAbandon, RecoverConflict, RecoverRefused
  <2> QED BY <2>1, <2>2, <1>t, SetRowFrame DEF Fate
<1>6. CASE JournalStart
  <2>1. act.op \in Op /\ row[act.op].status = "planned" /\ At("start")
    BY <1>6, <1>h DEF JournalStart, At, HolderAgrees
  <2> QED BY <1>6, <2>1, <1>t, SetRowFrame DEF JournalStart, Fate
<1>7. CASE StageTemps
  <2>1. /\ act.op \in Op /\ At("prepare") /\ \A x \in Op \ {act.op} : row'[x] = row[x]
        /\ row'[act.op].status = row[act.op].status /\ row'[act.op].pre = file
        /\ row'[act.op].stored = row[act.op].stored
        /\ row'[act.op].want = row[act.op].want
    BY <1>7, <1>h, <1>t DEF StageTemps, At, Row
  <2> QED BY <2>1 DEF Fate
<1>8. CASE PersistPlan
  <2>1. /\ act.op \in Op /\ At("persist") /\ \A x \in Op \ {act.op} : row'[x] = row[x]
        /\ row'[act.op].status = row[act.op].status
        /\ row'[act.op].pre = row[act.op].pre /\ row'[act.op].stored
        /\ row'[act.op].want = row[act.op].want
    BY <1>8, <1>h, <1>t DEF PersistPlan, At, Row
  <2> QED BY <1>8, <2>1 DEF Fate
<1>9. CASE AfterTrash \/ StoreDeletes \/ Untrash
  <2>1. act.op \in Op
    BY <1>9, <1>h DEF AfterTrash, StoreDeletes, Untrash, At
  <2>2. \A x \in Op : /\ row'[x].status = row[x].status /\ row'[x].pre = row[x].pre
                      /\ row'[x].stored = row[x].stored /\ row'[x].want = row[x].want
    <3>1. CASE AfterTrash
      BY <3>1, <2>1, <1>t DEF AfterTrash, Row
    <3>2. CASE StoreDeletes
      BY <3>2, <2>1, <1>t DEF StoreDeletes, Row
    <3>3. CASE Untrash /\ act.mode = "transact"
      BY <3>3, <2>1, <1>t DEF Untrash, Row
    <3>4. CASE Untrash /\ act.mode # "transact"
      BY <3>4 DEF Untrash
    <3> QED BY <1>9, <3>1, <3>2, <3>3, <3>4
  <2> QED BY <2>2 DEF Fate
<1>10. CASE \/ VerifyUnchanged \/ SourceChanged \/ PlanRefused \/ MarkCleanup
            \/ ScanDeletes \/ TrashFails \/ AfterDests \/ CheckDests
  <2>1. act.op \in Op /\ row[act.op].status = "pending"
    BY <1>10, <1>h, <1>t DEF VerifyUnchanged, SourceChanged, PlanRefused, MarkCleanup,
       ScanDeletes, TrashFails, AfterDests, CheckDests, HolderAgrees, At, Act, Mode
  <2>2. \/ UNCHANGED row
        \/ \E st, s : /\ st \in {"pending", "failed", "conflicted", "abandoned",
                                 "cleanup_pending"}
                      /\ SetRow(act.op, st, s)
    BY <1>10 DEF VerifyUnchanged, SourceChanged, PlanRefused, MarkCleanup,
       ScanDeletes, TrashFails, DeleteFailed, AfterDests, CheckDests
  <2> QED BY <2>1, <2>2, <1>t, <1>u, SetRowFrame DEF Fate
<1>11. CASE Finish
  <2>1. act.op \in Op /\ act.mode \in {"transact", "recover", "operator"}
    BY <1>11, <1>h, <1>t DEF Finish, HolderAgrees, At, Act, Mode
  <2>2. CASE act.mode # "operator" /\ ~CleanupErrors(act.op)
    <3>1. row[act.op].status = "cleanup_pending" /\ Busy
      BY <1>11, <2>1, <2>2 DEF Finish, HolderAgrees, At, Busy
    <3>2. SetRow(act.op, "complete", "journal_complete")
      BY <1>11, <2>2 DEF Finish
    <3> QED BY <3>1, <3>2, <1>11, <2>1, <2>2, <1>t, SetRowFrame DEF Fate
  <2>3. CASE ~(act.mode # "operator" /\ ~CleanupErrors(act.op))
    BY <1>11, <2>3, <1>u DEF Finish
  <2> QED BY <2>2, <2>3
<1>12. CASE Settle
  <2>1. /\ act.op \in Op /\ UNCHANGED operated
        /\ act.verdict \in {"failed", "conflicted", "abandoned"}
        /\ SetRow(act.op, act.verdict, act.verdict)
    BY <1>12, <1>h, <1>t DEF Settle, At, Act
  <2>2. CASE act.mode # "operator"
    <3>1. row[act.op].status = "pending"
      BY <1>12, <2>2, <1>t DEF Settle, HolderAgrees, At, Act, Mode
    <3> QED BY <3>1, <2>1, <1>t, SetRowFrame DEF Fate
  <2>3. CASE act.mode = "operator"
    <3>1. /\ row[act.op].status \notin {"unborn", "planned", "complete"}
          /\ act.verdict = "abandoned" /\ act.op \in operated
      BY <1>12, <2>3 DEF Settle, HolderAgrees, At, ScopeKnown
    <3> QED BY <3>1, <2>1, <1>t, SetRowFrame DEF Fate
  <2> QED BY <2>2, <2>3
<1>90. CASE \/ \E o \in Op : Transact(o) \/ RecoverCleanup(o) \/ RecoverReplay(o)
            \/ \E q \in Project : RecoverCommand(q) \/ CleanupCommand(q)
            \/ \E q \in Project, o \in Op : Rollback(q, o)
            \/ \E p \in Path : \/ TrashOne(p) \/ PublishOne(p) \/ UnpublishOne(p)
                               \/ UnpublishRefused(p) \/ CrashAfterLink(p)
            \/ \E p \in Path, u \in User : UserEdit(p, u)
            \/ RecoverDone \/ CommitRegistry \/ Clean \/ UnpublishDone \/ Scavenge
            \/ MutateRefuses \/ CommitFails \/ Crash \/ UNCHANGED vars
  <2>1. UNCHANGED row
    BY <1>90
     DEF Transact, RecoverCleanup, RecoverReplay, RecoverCommand, CleanupCommand,
         Rollback, TrashOne, PublishOne, UnpublishOne, UnpublishRefused,
         CrashAfterLink, UserEdit, RecoverDone, CommitRegistry, Clean,
         UnpublishDone, Scavenge, MutateRefuses, CommitFails, Crash, vars
  <2> QED BY <2>1, <1>u
<1> QED
  BY <1>1, <1>2, <1>3, <1>4, <1>5, <1>6, <1>7, <1>8, <1>9, <1>10, <1>11, <1>12, <1>90
     DEF Next, Work, Command, Fault, Recovering, Transacting, Applying, Undoing

-----------------------------------------------------------------------------
(* The scope of the lock holder.                                           *)

SameScope == /\ act'.by = act.by /\ act'.mode = act.mode /\ act'.op = act.op
             /\ act'.then = act.then /\ act'.job = act.job /\ act'.seen = act.seen

\* What a step may do to the scope of the lock holder.
LEMMA Scopes ==
  ASSUME TypeOK, HolderAgrees, ScopeKnown, [Next]_vars
  PROVE  \/ SameScope
         \/ act'.mode = "none" /\ act'.then # "start"
         \/ \E o \in Op : Transact(o)
         \/ act'.mode = "operator" /\ act'.then # "start" /\ act'.op \in operated'
         \/ /\ act'.mode = "recover" /\ act'.by = act.by /\ act'.then = act.then
            /\ act'.job = act.job /\ act'.seen = act.seen
         \/ \E o \in Op : /\ act'.mode = "none" /\ act'.by = act.by /\ act'.then = act.then
                          /\ act'.job = act.job /\ act'.seen = act.seen \cup {o}
                          /\ row'[o].status # "pending"
         \/ RecoverDone
<1>t. act \in Act /\ row \in [Op -> Row]
  BY DEF TypeOK
<1>h. act.pc \notin {"idle", "recover", "scavenge"} => act.op \in Op
  BY <1>t, InHand
<1>1. CASE \/ \E q \in Project : RecoverCommand(q) \/ CleanupCommand(q)
           \/ \E q \in Project, o \in Op : Retry(q, o)
  BY <1>1 DEF RecoverCommand, CleanupCommand, Retry, Lock, Idle
<1>2. CASE \E q \in Project, o \in Op : \/ Rollback(q, o)
                                      \/ \E f \in BOOLEAN : Abandon(q, o, f)
  <2>1. ASSUME NEW q \in Project, NEW o \in Op, Rollback(q, o)
        PROVE  act'.mode = "operator" /\ act'.then # "start" /\ act'.op \in operated'
    BY <2>1 DEF Rollback, Idle
  <2>2. ASSUME NEW q \in Project, NEW o \in Op, NEW f \in BOOLEAN, Abandon(q, o, f)
        PROVE  act'.mode = "operator" /\ act'.then # "start" /\ act'.op \in operated'
    BY <2>2 DEF Abandon, Idle
  <2> QED BY <1>2, <2>1, <2>2
<1>3. ASSUME NEW o \in Op, RecoverCleanup(o) \/ RecoverReplay(o)
      PROVE  /\ act'.mode = "recover" /\ act'.by = act.by /\ act'.then = act.then
             /\ act'.job = act.job /\ act'.seen = act.seen
  BY <1>3, <1>t DEF RecoverCleanup, RecoverReplay, Act
<1>4. ASSUME NEW o \in Op, RecoverAbandon(o) \/ RecoverConflict(o) \/ RecoverRefused(o)
      PROVE  /\ act'.mode = "none" /\ act'.by = act.by /\ act'.then = act.then
             /\ act'.job = act.job /\ act'.seen = act.seen \cup {o}
             /\ row'[o].status # "pending"
  <2>1. PICK st, s : st \in {"abandoned", "conflicted"} /\ SetRow(o, st, s)
    BY <1>4 DEF RecoverAbandon, RecoverConflict, RecoverRefused
  <2>2. row'[o].status # "pending"
    BY <2>1, <1>t, SetRowFrame
  <2>3. act.mode = "none" /\ Skip(o)
    BY <1>4 DEF RecoverAbandon, RecoverConflict, RecoverRefused, At, HolderAgrees
  <2> QED BY <2>2, <2>3, <1>t DEF Skip, Act
<1>5. CASE Finish \/ Settle
  <2>0. act.op \in Op
    BY <1>5, <1>h DEF Finish, Settle, At
  <2>1. CASE act' = Through
    <3>1. CASE act.mode # "recover"
      BY <2>1, <3>1 DEF Through, Idle
    <3>2. CASE act.mode = "recover"
      <4>1. /\ act'.mode = "none" /\ act'.by = act.by /\ act'.then = act.then
            /\ act'.job = act.job /\ act'.seen = act.seen \cup {act.op}
        BY <2>1, <3>2 DEF Through, Idle
      <4>2. row'[act.op].status # "pending"
        <5>1. CASE Settle
          <6>1. /\ act.verdict # "pending"
                /\ SetRow(act.op, act.verdict, act.verdict)
            BY <5>1, <1>t DEF Settle, Act
          <6> QED BY <6>1, <2>0, <1>t, SetRowFrame
        <5>2. CASE Finish
          <6>1. row[act.op].status = "cleanup_pending"
            BY <5>2, <3>2 DEF Finish, At, HolderAgrees
          <6>2. UNCHANGED row \/ SetRow(act.op, "complete", "journal_complete")
            BY <5>2 DEF Finish
          <6> QED BY <6>1, <6>2, <2>0, <1>t, SetRowFrame
        <5> QED BY <1>5, <5>1, <5>2
      <4> QED BY <4>1, <4>2, <2>0
    <3> QED BY <3>1, <3>2
  <2>2. CASE act' # Through
    <3>1. act' = [act EXCEPT !.pc = "clean"]
      BY <1>5, <2>2 DEF Finish, Settle
    <3> QED BY <3>1, <1>t DEF SameScope, Act
  <2> QED BY <2>1, <2>2
<1>6. CASE \/ PlanRefused \/ SourceChanged \/ Scavenge \/ MutateRefuses \/ Crash
           \/ \E p \in Path : UnpublishRefused(p) \/ CrashAfterLink(p)
  BY <1>6 DEF PlanRefused, SourceChanged, Scavenge, MutateRefuses, Crash,
     UnpublishRefused, CrashAfterLink, Idle
<1>7. CASE \/ ScanDeletes \/ TrashFails
  <2>1. ASSUME NEW S, DeleteFailed(S)
        PROVE  SameScope \/ (act'.mode = "none" /\ act'.then # "start")
    <3>1. CASE act' = Idle
      BY <3>1 DEF Idle
    <3>2. CASE act' = [act EXCEPT !.pc = "unpublish", !.todo = Publishes[act.op],
                                 !.live = S, !.verdict = "failed"]
      BY <3>2, <1>t DEF SameScope, Act
    <3> QED BY <2>1, <3>1, <3>2 DEF DeleteFailed
  <2>2. ASSUME ScanDeletes, ~Blocked(act.op) PROVE SameScope
    BY <2>2, <1>t DEF ScanDeletes, SameScope, Act
  <2> QED BY <1>7, <2>1, <2>2 DEF ScanDeletes, TrashFails
<1>8. CASE AfterDests \/ CheckDests \/ CommitFails
  <2>1. CASE \E v : Compensate(v)
    BY <2>1, <1>t DEF Compensate, SameScope, Act
  <2>2. CASE ~ \E v : Compensate(v)
    BY <1>8, <2>2, <1>t DEF AfterDests, CheckDests, CommitFails, SameScope, Act
  <2> QED BY <2>1, <2>2
<1>9. CASE \/ JournalStart \/ StageTemps \/ PersistPlan \/ VerifyUnchanged
           \/ StoreDeletes \/ MarkCleanup \/ Clean \/ CommitRegistry
           \/ UnpublishDone \/ Untrash
  <2>1. \E l : act' = [act EXCEPT !.pc = l]
    BY <1>9 DEF JournalStart, StageTemps, PersistPlan, VerifyUnchanged,
       StoreDeletes, MarkCleanup, Clean, CommitRegistry, UnpublishDone, Untrash
  <2> QED BY <2>1, <1>t DEF SameScope, Act
<1>10. CASE AfterTrash \/ \E p \in Path : TrashOne(p) \/ PublishOne(p) \/ UnpublishOne(p)
  BY <1>10, <1>t DEF AfterTrash, TrashOne, PublishOne, UnpublishOne, SameScope, Act
<1>11. CASE \/ \E o \in Op : PlanOp(o)
            \/ \E S \in SUBSET Op : Compact(S)
            \/ \E p \in Path, u \in User : UserEdit(p, u)
            \/ UNCHANGED vars
  BY <1>11 DEF PlanOp, Compact, UserEdit, vars, SameScope
<1> QED
  BY <1>1, <1>2, <1>3, <1>4, <1>5, <1>6, <1>7, <1>8, <1>9, <1>10, <1>11
     DEF Next, Work, Command, Fault, Recovering, Transacting, Applying, Undoing

\* What was committed or operated on stays so.
LEMMA HistoryGrows ==
  ASSUME [Next]_vars
  PROVE  operated \subseteq operated' /\ committed \subseteq committed'
  BY DEF Next, vars, Work, Command, Fault, Recovering, Transacting, Applying, Undoing,
     RecoverCleanup, RecoverAbandon, RecoverConflict, RecoverRefused, RecoverReplay,
     RecoverDone, JournalStart, StageTemps, PlanRefused, PersistPlan, VerifyUnchanged,
     SourceChanged, ScanDeletes, AfterTrash, AfterDests, CheckDests, CommitRegistry,
     StoreDeletes, MarkCleanup, Clean, Finish, TrashOne, PublishOne, UnpublishDone,
     Untrash, Settle, Scavenge, UnpublishOne, UnpublishRefused, PlanOp, Transact,
     RecoverCommand, CleanupCommand, Retry, Rollback, Abandon, Compact, MutateRefuses,
     TrashFails, CommitFails, Crash, CrashAfterLink, UserEdit

\* ScopeKnown is kept by every step.
LEMMA ScopeStep ==
  ASSUME TypeOK, HolderAgrees, ScopeKnown, [Next]_vars
  PROVE  ScopeKnown'
<1>t. act \in Act /\ row \in [Op -> Row]
  BY DEF TypeOK
<1>f. \A o \in Op : Fate(o)
  BY Fates
<1>o. operated \subseteq operated'
  BY HistoryGrows
<1>p. \A x \in Op : row'[x].status = "pending" =>
        \/ row[x].status = "pending"
        \/ act.mode = "transact" /\ act.then = "stop" /\ x = act.op
        \/ act'.then = "stop" /\ act'.mode = "none"
  BY <1>f DEF Fate, HolderAgrees, At
<1>s. act.seen \subseteq Op
  BY <1>t DEF Act
<1>1. CASE SameScope
  BY <1>1, <1>p, <1>o, <1>s DEF SameScope, ScopeKnown
<1>2. CASE act'.mode = "none" /\ act'.then # "start"
  BY <1>2 DEF ScopeKnown
<1>3. ASSUME NEW o \in Op, Transact(o) PROVE ScopeKnown'
  BY <1>3 DEF Transact, Lock, Idle, ScopeKnown
<1>4. CASE act'.mode = "operator" /\ act'.then # "start" /\ act'.op \in operated'
  BY <1>4 DEF ScopeKnown
<1>5. CASE /\ act'.mode = "recover" /\ act'.by = act.by /\ act'.then = act.then
           /\ act'.job = act.job /\ act'.seen = act.seen
  BY <1>5, <1>p, <1>s DEF ScopeKnown
<1>6. CASE \E o \in Op : /\ act'.mode = "none" /\ act'.by = act.by /\ act'.then = act.then
                         /\ act'.job = act.job /\ act'.seen = act.seen \cup {o}
                         /\ row'[o].status # "pending"
  BY <1>6, <1>p, <1>s DEF ScopeKnown
<1>7. CASE RecoverDone
  <2>1. UNCHANGED row
    BY <1>7 DEF RecoverDone
  <2>2. CASE act.then # "start"
    <3>1. act'.mode = "none" /\ act'.then # "start"
      BY <1>7, <2>2, <1>t DEF RecoverDone, Idle, Act
    <3> QED BY <3>1 DEF ScopeKnown
  <2>3. CASE act.then = "start"
    <3>1. /\ act'.mode = "transact" /\ act'.then = "stop" /\ act'.by = act.by
          /\ act'.op = act.job
      BY <1>7, <2>3, <1>t DEF RecoverDone, Idle, Act
    <3>2. \A x \in Op : Origin[x] = act.by => row[x].status # "pending"
      BY <1>7, <2>3 DEF RecoverDone, Recoverable, OriginMatches, ScopeKnown
    <3> QED BY <2>1, <2>3, <3>1, <3>2 DEF ScopeKnown
  <2> QED BY <2>2, <2>3
<1> QED BY <1>1, <1>2, <1>3, <1>4, <1>5, <1>6, <1>7, Scopes

-----------------------------------------------------------------------------
(* The plan and the list of what is left to do.                            *)

\* A step that carries the operation on, after its plan and before its cleanup.
CarriesOn ==
    \/ VerifyUnchanged \/ ScanDeletes \/ TrashFails \/ AfterTrash \/ AfterDests
    \/ CheckDests \/ CommitRegistry \/ CommitFails \/ StoreDeletes \/ UnpublishDone
    \/ Untrash \/ \E p \in Path : TrashOne(p) \/ PublishOne(p) \/ UnpublishOne(p)

\* Such a step lets go of the operation or keeps it.
LEMMA Carries ==
  ASSUME act \in Act, CarriesOn
  PROVE  /\ \/ act' = Idle
            \/ /\ act'.op = act.op /\ act'.mode = act.mode
               /\ act'.pc \notin {"start", "prepare", "persist"}
         /\ act.pc \in {"verify", "scan", "trash", "publish", "check", "commit", "store",
                        "unpublish", "untrash"}
<1>1. CASE ScanDeletes \/ TrashFails
  <2>1. ASSUME NEW S, DeleteFailed(S)
        PROVE  \/ act' = Idle
               \/ /\ act'.op = act.op /\ act'.mode = act.mode
                  /\ act'.pc \notin {"start", "prepare", "persist"}
    BY <2>1 DEF DeleteFailed, Act
  <2>2. ASSUME ScanDeletes, ~Blocked(act.op)
        PROVE  /\ act'.op = act.op /\ act'.mode = act.mode /\ act'.pc = "trash"
    BY <2>2 DEF ScanDeletes, Act
  <2>3. At("scan") \/ At("trash")
    BY <1>1 DEF ScanDeletes, TrashFails
  <2> QED BY <1>1, <2>1, <2>2, <2>3 DEF ScanDeletes, TrashFails, At
<1>2. CASE AfterDests \/ CheckDests \/ CommitFails
  <2>1. ASSUME NEW v, Compensate(v)
        PROVE  /\ act'.op = act.op /\ act'.mode = act.mode
               /\ act'.pc \in {"untrash", "unpublish"}
    BY <2>1 DEF Compensate, Act
  <2>2. \/ \E v : Compensate(v)
        \/ \E l \in {"check", "commit"} : act' = [act EXCEPT !.pc = l]
    BY <1>2 DEF AfterDests, CheckDests, CommitFails
  <2>3. ASSUME NEW l \in {"check", "commit"}, act' = [act EXCEPT !.pc = l]
        PROVE  act'.op = act.op /\ act'.mode = act.mode /\ act'.pc = l
    BY <2>3 DEF Act
  <2>4. act.pc \in {"publish", "check", "commit"}
    BY <1>2 DEF AfterDests, CheckDests, CommitFails, At
  <2> QED BY <2>1, <2>2, <2>3, <2>4
<1>3. CASE \/ VerifyUnchanged \/ StoreDeletes \/ CommitRegistry \/ UnpublishDone
           \/ Untrash
  <2>1. \E l \in Label \ {"start", "prepare", "persist"} : act' = [act EXCEPT !.pc = l]
    BY <1>3, Labels DEF VerifyUnchanged, StoreDeletes, CommitRegistry, UnpublishDone, Untrash
  <2>2. act.pc \in {"verify", "store", "commit", "unpublish", "untrash"}
    BY <1>3 DEF VerifyUnchanged, StoreDeletes, CommitRegistry, UnpublishDone, Untrash, At
  <2> QED BY <2>1, <2>2 DEF Act
<1>4. CASE AfterTrash
  BY <1>4 DEF AfterTrash, Act, At
<1>5. CASE \E p \in Path : TrashOne(p) \/ PublishOne(p) \/ UnpublishOne(p)
  BY <1>5 DEF TrashOne, PublishOne, UnpublishOne, Act, At
<1> QED BY <1>1, <1>2, <1>3, <1>4, <1>5 DEF CarriesOn

\* PlanKnown is kept by every step.
LEMMA PlanStep ==
  ASSUME TypeOK, HolderAgrees, HolderAgrees', NoPlanYet, ScopeKnown, PlanKnown, [Next]_vars
  PROVE  PlanKnown'
<1>t. act \in Act /\ row \in [Op -> Row]
  BY DEF TypeOK
<1>h. act.pc \notin {"idle", "recover", "scavenge"} => act.op \in Op
  BY <1>t, InHand
<1>f. \A o \in Op : Fate(o)
  BY Fates
<1>n. ASSUME act'.mode \notin {"transact", "recover"} PROVE PlanKnown'
  BY <1>n DEF HolderAgrees, PlanKnown, Busy
<1>i. ASSUME act' = Idle PROVE PlanKnown'
  BY <1>i, <1>n DEF Idle
<1>1. CASE CarriesOn
  <2>1. CASE act' = Idle
    BY <2>1, <1>i
  <2>2. CASE act' # Idle
    <3>1. /\ act'.op = act.op /\ act'.mode = act.mode /\ act.op \in Op
          /\ act'.pc \notin {"start", "prepare", "persist"}
          /\ act.pc \in {"verify", "scan", "trash", "publish", "check", "commit", "store",
                         "unpublish", "untrash"}
      BY <1>1, <2>2, <1>t, <1>h, Carries
    <3>2. Busy => row[act.op].stored /\ row[act.op].status = "pending"
      BY <3>1 DEF PlanKnown, HolderAgrees, Busy
    <3>3. Busy => row'[act.op].stored
      BY <3>1, <3>2, <1>f DEF Fate
    <3> QED BY <3>1, <3>3 DEF PlanKnown, Busy
  <2> QED BY <2>1, <2>2
<1>2. CASE JournalStart \/ StageTemps
  <2>1. /\ act.pc \in {"start", "prepare"} /\ act.op \in Op
        /\ act'.op = act.op /\ act'.pc \in {"prepare", "persist"}
    BY <1>2, <1>h, <1>t DEF JournalStart, StageTemps, At, Act
  <2>2. ~row'[act.op].stored
    BY <2>1, <1>f DEF Fate, PlanKnown, PersistPlan, At
  <2> QED BY <2>1, <2>2 DEF PlanKnown
<1>3. CASE PersistPlan
  <2>1. act.op \in Op /\ act'.op = act.op /\ act'.pc = "verify" /\ row'[act.op].stored
    BY <1>3, <1>h, <1>t DEF PersistPlan, At, Act, Row
  <2> QED BY <2>1 DEF PlanKnown
<1>4. ASSUME NEW o \in Op, RecoverReplay(o) PROVE PlanKnown'
  BY <1>4, <1>t DEF RecoverReplay, PlanKnown, Act
<1>5. ASSUME NEW o \in Op, RecoverCleanup(o) PROVE PlanKnown'
  BY <1>5, <1>t DEF RecoverCleanup, PlanKnown, Act
<1>6. CASE MarkCleanup \/ Clean
  BY <1>6, <1>t DEF MarkCleanup, Clean, PlanKnown, Act
<1>7. CASE RecoverDone
  <2>1. CASE act.then = "start"
    <3>1. act'.pc = "start" /\ act'.op = act.job /\ UNCHANGED row
      BY <1>7, <2>1 DEF RecoverDone, Idle
    <3>2. ~row[act.job].stored
      BY <2>1 DEF HolderAgrees, NoPlanYet
    <3> QED BY <3>1, <3>2 DEF PlanKnown
  <2>2. CASE act.then # "start"
    <3>1. act'.mode = "none"
      BY <1>7, <2>2, <1>t DEF RecoverDone, Idle, Act
    <3> QED BY <3>1, <1>n
  <2> QED BY <2>1, <2>2
<1>8. CASE Finish \/ Settle
  <2>1. CASE act' = Through
    BY <2>1, <1>n DEF Through, Idle
  <2>2. CASE act' # Through
    <3>1. act'.pc = "clean"
      BY <1>8, <2>2, <1>t DEF Finish, Settle, Act
    <3> QED BY <3>1 DEF PlanKnown
  <2> QED BY <2>1, <2>2
<1>9. CASE \/ \E o \in Op : \/ Transact(o) \/ RecoverAbandon(o) \/ RecoverConflict(o)
                            \/ RecoverRefused(o)
           \/ \E q \in Project : RecoverCommand(q) \/ CleanupCommand(q)
           \/ \E q \in Project, o \in Op : Retry(q, o)
  <2>1. act'.mode = "none"
    <3>1. CASE \E q, then, job, seen : Lock(q, then, job, seen)
      BY <3>1 DEF Lock, Idle
    <3>2. CASE \E o \in Op : Skip(o) /\ At("recover")
      BY <3>2, <1>t DEF Skip, Act, HolderAgrees, At
    <3> QED BY <1>9, <3>1, <3>2 DEF Transact, RecoverAbandon, RecoverConflict,
               RecoverRefused, RecoverCommand, CleanupCommand, Retry
  <2> QED BY <2>1, <1>n
<1>10. CASE \E q \in Project, o \in Op : \/ Rollback(q, o)
                                       \/ \E f \in BOOLEAN : Abandon(q, o, f)
  <2>1. act'.mode = "operator"
    BY <1>10 DEF Rollback, Abandon, Idle
  <2> QED BY <2>1, <1>n
<1>11. CASE \/ PlanRefused \/ SourceChanged \/ Scavenge \/ MutateRefuses \/ Crash
            \/ \E p \in Path : UnpublishRefused(p) \/ CrashAfterLink(p)
  BY <1>11, <1>i DEF PlanRefused, SourceChanged, Scavenge, MutateRefuses, Crash,
     UnpublishRefused, CrashAfterLink
<1>12. CASE \/ \E p \in Path, u \in User : UserEdit(p, u)
            \/ UNCHANGED vars
  BY <1>12 DEF UserEdit, vars, PlanKnown, Busy
<1>13. ASSUME NEW o \in Op, PlanOp(o) PROVE PlanKnown'
  <2>1. UNCHANGED act /\ \A x \in Op : row'[x].stored = row[x].stored
    BY <1>13, <1>t DEF PlanOp, Row
  <2>2. act.pc \in {"idle", "recover", "scavenge"} => act.mode = "none"
    BY DEF HolderAgrees
  <2> QED BY <2>1, <2>2, <1>h DEF PlanKnown, Busy
<1>14. ASSUME NEW S \in SUBSET Op, Compact(S) PROVE PlanKnown'
  <2>1. act' = Idle
    BY <1>14 DEF Compact, HolderAgrees
  <2> QED BY <2>1, <1>i
<1> QED
  BY <1>1, <1>2, <1>3, <1>4, <1>5, <1>6, <1>7, <1>8, <1>9, <1>10, <1>11, <1>12, <1>13,
     <1>14
     DEF Next, Work, Command, Fault, Recovering, Transacting, Applying, Undoing, CarriesOn

\* The steps, by what they leave the lock holder with.
LEMMA Kinds ==
  ASSUME TypeOK, HolderAgrees, HolderAgrees', [Next]_vars
  PROVE  \/ act'.mode = "none"
         \/ CarriesOn
         \/ JournalStart \/ StageTemps \/ PersistPlan \/ Clean
         \/ \E o \in Op : RecoverReplay(o) \/ PlanOp(o)
         \/ \E q \in Project, o \in Op : Rollback(q, o)
         \/ act'.pc \in {"start", "clean"}
         \/ \E p \in Path, u \in User : UserEdit(p, u)
         \/ UNCHANGED vars
<1>t. act \in Act
  BY DEF TypeOK
<1>1. CASE \/ \E o \in Op : \/ Transact(o) \/ RecoverAbandon(o) \/ RecoverConflict(o)
                            \/ RecoverRefused(o)
           \/ \E q \in Project : RecoverCommand(q) \/ CleanupCommand(q)
           \/ \E q \in Project, o \in Op : Retry(q, o)
  <2>1. CASE \E q, then, job, seen : Lock(q, then, job, seen)
    BY <2>1 DEF Lock, Idle
  <2>2. CASE \E o \in Op : Skip(o) /\ At("recover")
    BY <2>2, <1>t DEF Skip, Act, HolderAgrees, At
  <2> QED BY <1>1, <2>1, <2>2 DEF Transact, RecoverAbandon, RecoverConflict,
             RecoverRefused, RecoverCommand, CleanupCommand, Retry
<1>2. ASSUME NEW o \in Op, RecoverCleanup(o) PROVE act'.pc = "clean"
  BY <1>2, <1>t DEF RecoverCleanup, Act
<1>3. ASSUME NEW q \in Project, NEW o \in Op, NEW f \in BOOLEAN, Abandon(q, o, f)
      PROVE  act'.pc = "clean"
  BY <1>3 DEF Abandon, Idle
<1>4. CASE MarkCleanup
  BY <1>4, <1>t DEF MarkCleanup, Act
<1>5. CASE Finish \/ Settle
  <2>1. CASE act' = Through
    BY <2>1 DEF Through, Idle
  <2>2. CASE act' # Through
    BY <1>5, <2>2, <1>t DEF Finish, Settle, Act
  <2> QED BY <2>1, <2>2
<1>6. CASE RecoverDone
  <2>1. CASE act.then = "start"
    BY <1>6, <2>1 DEF RecoverDone, Idle
  <2>2. CASE act.then # "start"
    BY <1>6, <2>2, <1>t DEF RecoverDone, Idle, Act
  <2> QED BY <2>1, <2>2
<1>7. CASE \/ PlanRefused \/ SourceChanged \/ Scavenge \/ MutateRefuses \/ Crash
           \/ \E p \in Path : UnpublishRefused(p) \/ CrashAfterLink(p)
  BY <1>7 DEF PlanRefused, SourceChanged, Scavenge, MutateRefuses, Crash,
     UnpublishRefused, CrashAfterLink, Idle
<1>8. ASSUME NEW S \in SUBSET Op, Compact(S) PROVE act'.mode = "none"
  <2>1. act' = Idle
    BY <1>8 DEF Compact, HolderAgrees
  <2> QED BY <2>1 DEF Idle
<1> QED
  BY <1>1, <1>2, <1>3, <1>4, <1>5, <1>6, <1>7, <1>8
     DEF Next, Work, Command, Fault, Recovering, Transacting, Applying, Undoing, CarriesOn

\* With no operation in hand the lock holder is at one of three labels.
LEMMA NothingInHand ==
  ASSUME HolderAgrees', act'.mode = "none"
  PROVE  act'.pc \in {"idle", "recover", "scavenge"}
  BY DEF HolderAgrees

\* TodoKnown is kept by every step.
LEMMA TodoStep ==
  ASSUME TypeOK, HolderAgrees, HolderAgrees', TodoKnown, [Next]_vars
  PROVE  TodoKnown'
<1>t. act \in Act /\ row \in [Op -> Row]
  BY DEF TypeOK
<1>h. act.pc \notin {"idle", "recover", "scavenge"} => act.op \in Op
  BY <1>t, InHand
<1>n. ASSUME act'.pc \notin {"publish", "unpublish", "untrash", "trash"} PROVE TodoKnown'
  BY <1>n DEF TodoKnown, At
<1>1. CASE act'.mode = "none"
  BY <1>1, <1>n, NothingInHand
<1>2. CASE CarriesOn
  <2>1. CASE VerifyUnchanged \/ CommitRegistry \/ StoreDeletes
    <3>1. act'.pc \in {"scan", "mark", "store"}
      BY <2>1, <1>t DEF VerifyUnchanged, CommitRegistry, StoreDeletes, Act
    <3> QED BY <3>1, <1>n
  <2>2. ASSUME NEW S, DeleteFailed(S) PROVE TodoKnown'
    <3>1. CASE act' = Idle
      BY <3>1, <1>1 DEF Idle
    <3>2. CASE act' # Idle
      <4>1. act'.pc = "unpublish" /\ act'.todo = Publishes[act.op] /\ act'.op = act.op
        BY <2>2, <3>2, <1>t DEF DeleteFailed, Act
      <4> QED BY <4>1 DEF TodoKnown, At
    <3> QED BY <3>1, <3>2
  <2>3. ASSUME ScanDeletes, ~Blocked(act.op) PROVE TodoKnown'
    <3>1. /\ act'.pc = "trash" /\ act'.op = act.op /\ act'.live = LiveDeletes(act.op)
          /\ act'.todo = {p \in Deletes[act.op] : file[p] # Absent}
      BY <2>3, <1>t DEF ScanDeletes, Act
    <3> QED BY <3>1 DEF TodoKnown, At, LiveDeletes
  <2>4. CASE AfterTrash
    BY <2>4, <1>t DEF AfterTrash, Act, TodoKnown, At
  <2>5. ASSUME NEW v, Compensate(v) PROVE TodoKnown'
    BY <2>5, <1>t DEF Compensate, Act, TodoKnown, At
  <2>6. CASE (AfterDests \/ CheckDests \/ CommitFails) /\ ~ \E v : Compensate(v)
    <3>1. act'.pc \in {"check", "commit"}
      BY <2>6, <1>t DEF AfterDests, CheckDests, CommitFails, Act
    <3> QED BY <3>1, <1>n
  <2>7. CASE UnpublishDone
    <3>1. act'.pc = "settle" \/ (act'.pc = "untrash" /\ act'.mode # "transact")
      BY <2>7, <1>t DEF UnpublishDone, Act
    <3> QED BY <3>1 DEF TodoKnown, At
  <2>8. CASE Untrash
    <3>1. \/ act'.pc = "settle"
          \/ /\ act'.pc = "unpublish" /\ act.mode = "transact" /\ At("untrash")
             /\ act'.todo = act.todo /\ act'.op = act.op
      BY <2>8, <1>t DEF Untrash, Act
    <3> QED BY <3>1 DEF TodoKnown, At
  <2>9. ASSUME NEW p \in Path, TrashOne(p) \/ PublishOne(p) \/ UnpublishOne(p)
        PROVE  TodoKnown'
    <3>1. /\ act'.pc = act.pc /\ act'.todo \subseteq act.todo /\ act'.op = act.op
          /\ act'.live = act.live /\ act.pc # "untrash"
      BY <2>9, <1>t DEF TrashOne, PublishOne, UnpublishOne, Act, At
    <3> QED BY <3>1 DEF TodoKnown, At
  <2> QED BY <1>2, <2>1, <2>2, <2>3, <2>4, <2>5, <2>6, <2>7, <2>8, <2>9
          DEF CarriesOn, ScanDeletes, TrashFails
<1>3. CASE JournalStart \/ StageTemps \/ PersistPlan \/ Clean
  <2>1. act'.pc \in {"prepare", "persist", "verify", "finish"}
    BY <1>3, <1>t DEF JournalStart, StageTemps, PersistPlan, Clean, Act
  <2> QED BY <2>1, <1>n
<1>4. ASSUME NEW o \in Op, RecoverReplay(o) PROVE TodoKnown'
  <2>1. act'.pc = "scan"
    BY <1>4, <1>t DEF RecoverReplay, Act
  <2> QED BY <2>1, <1>n
<1>5. ASSUME NEW q \in Project, NEW o \in Op, Rollback(q, o) PROVE TodoKnown'
  <2>1. act'.pc = "unpublish" /\ act'.op = o /\ act'.todo \subseteq Publishes[o]
    BY <1>5 DEF Rollback, Idle
  <2> QED BY <2>1 DEF TodoKnown, At
<1>6. CASE act'.pc \in {"start", "clean"}
  BY <1>6, <1>n
<1>7. CASE UNCHANGED act
  BY <1>7 DEF TodoKnown, At
<1> QED BY <1>1, <1>2, <1>3, <1>4, <1>5, <1>6, <1>7, Kinds DEF PlanOp, UserEdit, vars

-----------------------------------------------------------------------------
(* The trash.                                                              *)

\* Trash appears by one rename only.
LEMMA TrashGrows ==
  ASSUME TypeOK, HolderAgrees, [Next]_vars
  PROVE  \A o \in Op, p \in Path :
            trash'[o][p] # Absent => \/ trash'[o][p] = trash[o][p]
                                     \/ TrashOne(p) /\ o = act.op
<1> DEFINE Goal == \A o \in Op, p \in Path :
            trash'[o][p] # Absent => \/ trash'[o][p] = trash[o][p]
                                     \/ TrashOne(p) /\ o = act.op
<1>t. act \in Act /\ trash \in [Op -> [Path -> Val]] /\ row \in [Op -> Row]
  BY DEF TypeOK
<1>h. act.pc \notin {"idle", "recover", "scavenge"} => act.op \in Op
  BY <1>t, InHand
<1>1. ASSUME NEW o \in Op, NEW S, RestoreTrash(o, S) PROVE Goal
  BY <1>1, <1>t DEF RestoreTrash
<1>2. CASE \/ TrashFails \/ Untrash \/ \E o \in Op : RecoverConflict(o)
  <2>1. \E o \in Op : RestoreTrash(o, act.renamed) \/ RestoreTrash(o, act.live)
                        \/ RestoreTrash(o, row[o].moved)
    BY <1>2, <1>h DEF TrashFails, Untrash, RecoverConflict, At
  <2> QED BY <2>1, <1>1
<1>3. ASSUME NEW p \in Path, TrashOne(p) PROVE Goal
  BY <1>3, <1>h, <1>t DEF TrashOne, At
<1>4. CASE Clean
  BY <1>4, <1>h, <1>t DEF Clean, At
<1>5. CASE Scavenge
  BY <1>5, <1>t DEF Scavenge
<1>6. CASE UNCHANGED trash
  BY <1>6
<1>7. CASE \/ \E o \in Op : \/ PlanOp(o) \/ Transact(o) \/ RecoverCleanup(o)
                            \/ RecoverAbandon(o) \/ RecoverRefused(o) \/ RecoverReplay(o)
           \/ \E q \in Project : RecoverCommand(q) \/ CleanupCommand(q)
           \/ \E q \in Project, o \in Op :
                 \/ Retry(q, o) \/ Rollback(q, o)
                 \/ \E f \in BOOLEAN : Abandon(q, o, f)
           \/ \E S \in SUBSET Op : Compact(S)
           \/ \E p \in Path : \/ UnpublishRefused(p) \/ PublishOne(p) \/ UnpublishOne(p)
                              \/ CrashAfterLink(p)
           \/ \E p \in Path, u \in User : UserEdit(p, u)
           \/ RecoverDone \/ JournalStart \/ StageTemps \/ PlanRefused \/ PersistPlan
           \/ VerifyUnchanged \/ SourceChanged \/ ScanDeletes \/ AfterTrash
           \/ AfterDests \/ CheckDests \/ CommitRegistry \/ StoreDeletes
           \/ MarkCleanup \/ Finish \/ UnpublishDone \/ Settle \/ MutateRefuses
           \/ CommitFails \/ Crash \/ UNCHANGED vars
  <2>1. UNCHANGED trash
    BY <1>7
     DEF PlanOp, Transact, RecoverCleanup, RecoverAbandon, RecoverRefused,
         RecoverReplay, RecoverCommand, CleanupCommand, Retry, Rollback, Abandon,
         Compact, UnpublishRefused, PublishOne, UnpublishOne, CrashAfterLink, UserEdit,
         RecoverDone, JournalStart, StageTemps, PlanRefused, PersistPlan,
         VerifyUnchanged, SourceChanged, ScanDeletes, AfterTrash, AfterDests,
         CheckDests, CommitRegistry, StoreDeletes, MarkCleanup, Finish, UnpublishDone,
         Settle, MutateRefuses, CommitFails, Crash, vars
  <2> QED BY <2>1
<1> QED
  BY <1>2, <1>3, <1>4, <1>5, <1>7
     DEF Next, Work, Command, Fault, Recovering, Transacting, Applying, Undoing

\* The lock holder is at "trash" with a pending row only.
LEMMA AtTrash ==
  ASSUME HolderAgrees, PlanKnown, act \in Act,
         act.pc \in {"verify", "scan", "trash", "publish", "check", "commit", "store", "mark"}
  PROVE  Busy /\ row[act.op].stored /\ row[act.op].status = "pending" /\ act.op \in Op
<1>1. Busy /\ act.op \in Op
  BY DEF HolderAgrees, Busy, Act, Mode
<1> QED BY <1>1 DEF HolderAgrees, PlanKnown, Busy

\* OwnTrash is kept by every step.
LEMMA OwnTrashStep ==
  ASSUME TypeOK, HolderAgrees, ScopeKnown, PlanKnown, TodoKnown, TrashKnown, OwnTrash,
         [Next]_vars
  PROVE  OwnTrash'
<1> SUFFICES ASSUME NEW o \in Op, NEW p \in Path, trash'[o][p] # Absent
             PROVE  /\ p \in Deletes[o] /\ row'[o].status # "complete"
                    /\ row'[o].stored \/ row'[o].status = "abandoned"
  BY DEF OwnTrash
<1>t. act \in Act /\ row \in [Op -> Row]
  BY DEF TypeOK
<1>f. Fate(o)
  BY Fates
<1>1. CASE trash'[o][p] = trash[o][p]
  <2>1. /\ p \in Deletes[o] /\ row[o].status # "complete"
        /\ row[o].stored \/ row[o].status = "abandoned"
    BY <1>1 DEF OwnTrash
  <2>2. row'[o].status # "complete"
    <3>1. SUFFICES ASSUME Finish, Busy, o = act.op, ~CleanupErrors(o) PROVE FALSE
      BY <2>1, <1>f DEF Fate
    <3>2. row[o].moved \cap Trashed(o) = {}
      BY <3>1 DEF TrashKnown, Finish
    <3>3. p \in row[o].moved /\ p \in Trashed(o)
      BY <3>1, <2>1, <1>1 DEF CleanupErrors, Trashed
    <3> QED BY <3>2, <3>3
  <2>3. row'[o].stored \/ row'[o].status = "abandoned"
    BY <2>1, <1>f DEF Fate
  <2> QED BY <2>1, <2>2, <2>3
<1>2. CASE TrashOne(p) /\ o = act.op
  <2>1. p \in Deletes[o] /\ UNCHANGED row /\ act.pc = "trash"
    BY <1>2 DEF TrashOne, TodoKnown, At
  <2> QED BY <2>1, <1>2, <1>t, AtTrash
<1> QED BY <1>1, <1>2, TrashGrows

\* Alone is kept by every step.
LEMMA AloneStep ==
  ASSUME TypeOK, HolderAgrees, ScopeKnown, Alone, [Next]_vars
  PROVE  Alone'
<1> SUFFICES ASSUME NEW x \in Op \ operated', NEW y \in Op \ operated', x # y,
                    Origin[x] = Origin[y],
                    row'[x].status = "pending", row'[y].status = "pending"
             PROVE  FALSE
  BY DEF Alone
<1>1. \A z \in {x, y} : row[z].status = "pending" \/ (At("start") /\ z = act.op)
  BY Fates DEF Fate
<1>2. At("start") => act.mode = "transact"
  BY DEF HolderAgrees, At
<1>3. ~(row[x].status = "pending" /\ row[y].status = "pending")
  BY HistoryGrows DEF Alone
<1> QED BY <1>1, <1>2, <1>3 DEF ScopeKnown

\* RestoreTrash puts the trash of o back on the paths in S.
LEMMA RestoreEffect ==
  ASSUME TypeOK, OwnTrash, NEW o \in Op, NEW S, RestoreTrash(o, S), NEW p \in Path
  PROVE  /\ file'[p] = IF p \in S /\ trash[o][p] # Absent THEN trash[o][p] ELSE file[p]
         /\ trash'[o][p] = IF p \in S THEN Absent ELSE trash[o][p]
         /\ \A x \in Op \ {o} : trash'[x] = trash[x]
<1>t. trash \in [Op -> [Path -> Val]] /\ file \in [Path -> Val]
  BY DEF TypeOK
<1>1. /\ file' = [x \in Path |-> IF x \in S /\ trash[o][x] # Absent THEN trash[o][x]
                                                                  ELSE file[x]]
      /\ trash' = [trash EXCEPT ![o] = [x \in Path |->
                      IF x \in S /\ trash[o][x] # Absent THEN Absent ELSE @[x]]]
  BY DEF RestoreTrash, Restorable
<1> QED BY <1>1, <1>t

\* Only deletes are put back, and what the user left on their paths is moved aside.
LEMMA RestoreSpares ==
  ASSUME TypeOK, OwnTrash, NEW o \in Op, NEW S, RestoreTrash(o, S), NEW p \in Path
  PROVE  /\ p \notin Deletes[o] => /\ file'[p] = file[p]
                                  /\ \A x \in Op : trash'[x][p] = trash[x][p]
         /\ file'[p] # file[p] /\ file[p] # Absent => <<p, file[p]>> \in quarantine'
<1>1. /\ file'[p] = IF p \in S /\ trash[o][p] # Absent THEN trash[o][p] ELSE file[p]
      /\ trash'[o][p] = IF p \in S THEN Absent ELSE trash[o][p]
      /\ \A x \in Op \ {o} : trash'[x] = trash[x]
  BY RestoreEffect
<1>2. p \notin Deletes[o] => trash[o][p] = Absent
  BY DEF OwnTrash
<1> DEFINE R == {x \in S : trash[o][x] # Absent}
<1>3. quarantine' = quarantine \cup {<<x, file[x]>> : x \in {y \in R : file[y] # Absent}}
  BY DEF RestoreTrash, Restorable
<1>4. p \in S /\ trash[o][p] # Absent /\ file[p] # Absent => <<p, file[p]>> \in quarantine'
  BY <1>3
<1> QED BY <1>1, <1>2, <1>4

\* TrashKnown is kept by every step.
LEMMA TrashKnownStep ==
  ASSUME TypeOK, HolderAgrees, HolderAgrees', ScopeKnown, PlanKnown, TodoKnown, TrashKnown,
         OwnTrash, [Next]_vars
  PROVE  TrashKnown'
<1>t. act \in Act /\ row \in [Op -> Row] /\ trash \in [Op -> [Path -> Val]]
  BY DEF TypeOK
<1>h. act.pc \notin {"idle", "recover", "scavenge"} => act.op \in Op
  BY <1>t, InHand
<1>n. ASSUME act'.pc \notin {"trash", "publish", "check", "commit", "unpublish", "untrash",
                             "verify", "scan", "finish"}
      PROVE  TrashKnown'
  BY <1>n DEF TrashKnown, At
<1>0. CASE act'.mode \notin {"transact", "recover"}
  BY <1>0 DEF TrashKnown, Busy
<1>1. ASSUME NEW S, DeleteFailed(S), {p \in Path : trash'[act.op][p] # Absent} \subseteq S
      PROVE  TrashKnown'
  <2>1. CASE act' = Idle
    BY <2>1, <1>n DEF Idle
  <2>2. CASE act' # Idle
    <3>1. act'.pc = "unpublish" /\ act'.op = act.op /\ act'.live = S
      BY <1>1, <2>2, <1>t DEF DeleteFailed, Act
    <3>2. Trashed(act.op)' \subseteq act'.live
      BY <1>1, <3>1 DEF Trashed
    <3> QED BY <3>1, <3>2 DEF TrashKnown, At
  <2> QED BY <2>1, <2>2
<1>2. CASE ScanDeletes
  <2>0. act.op \in Op /\ UNCHANGED trash /\ At("scan")
    BY <1>2, <1>h DEF ScanDeletes, At
  <2>1. Trashed(act.op) \subseteq LiveDeletes(act.op)
    BY <2>0 DEF OwnTrash, Trashed, LiveDeletes
  <2>2. CASE Blocked(act.op)
    BY <2>0, <2>1, <2>2, <1>1, <1>2 DEF ScanDeletes, Trashed
  <2>3. CASE ~Blocked(act.op)
    <3>1. /\ act'.pc = "trash" /\ act'.op = act.op /\ act'.mode = act.mode
          /\ act'.live = LiveDeletes(act.op)
      BY <1>2, <2>3, <1>t DEF ScanDeletes, Act
    <3>2. act.mode = "transact" => Trashed(act.op) = {}
      BY <2>0 DEF TrashKnown, At
    <3>3. Trashed(act.op) = Trashed(act.op)'
      BY <2>0, <3>1 DEF Trashed
    <3> QED BY <3>1, <3>2, <3>3, <2>1 DEF TrashKnown, At
  <2> QED BY <2>2, <2>3
<1>3. CASE TrashFails
  <2>1. act.op \in Op /\ At("trash") /\ Busy
    BY <1>3, <1>h, <1>t, AtTrash DEF TrashFails, At
  <2>2. Trashed(act.op) \subseteq act.live
    BY <2>1 DEF TrashKnown, At
  <2>3. PICK o \in Op : o = act.op
    BY <2>1
  <2>4. RestoreTrash(o, act.renamed)
    BY <1>3, <2>3 DEF TrashFails
  <2>5. Trashed(o)' \subseteq Trashed(o)
    <3>1. \A p \in Path : trash'[o][p] # Absent => trash[o][p] # Absent
      BY <2>4, RestoreEffect
    <3> QED BY <3>1 DEF Trashed
  <2>6. {p \in Path : trash'[act.op][p] # Absent} \subseteq act.live
    BY <2>5, <2>3, <2>2 DEF Trashed
  <2> QED BY <2>6, <1>1, <1>3 DEF TrashFails
<1>4. CASE /\ act'.op = act.op /\ act'.mode = act.mode /\ act'.live = act.live
           /\ UNCHANGED trash
           /\ act.pc \in {"trash", "publish", "check", "commit", "unpublish", "untrash"}
           /\ act'.pc \in {"publish", "check", "commit", "unpublish", "untrash"}
  <2>1. Trashed(act.op) = Trashed(act.op)'
    BY <1>4 DEF Trashed
  <2> QED BY <1>4, <2>1 DEF TrashKnown, At, Busy
<1>5. CASE VerifyUnchanged
  <2>1. /\ act'.op = act.op /\ act'.mode = act.mode /\ act'.pc = "scan" /\ act.pc = "verify"
        /\ UNCHANGED trash
    BY <1>5, <1>t DEF VerifyUnchanged, Act, At
  <2>2. Trashed(act.op) = Trashed(act.op)'
    BY <2>1 DEF Trashed
  <2> QED BY <2>1, <2>2 DEF TrashKnown, At
<1>6. CASE AfterTrash \/ UnpublishDone \/ \E p \in Path : PublishOne(p) \/ UnpublishOne(p)
  <2>1. /\ act'.op = act.op /\ act'.mode = act.mode /\ act'.live = act.live
        /\ act.pc \in {"trash", "unpublish", "publish"}
        /\ act'.pc \in {"publish", "unpublish", "untrash", "settle"} /\ UNCHANGED trash
    BY <1>6, <1>t DEF AfterTrash, UnpublishDone, PublishOne, UnpublishOne, Act, At
  <2> QED BY <2>1, <1>4, <1>n
<1>7. CASE AfterDests \/ CheckDests \/ CommitFails
  <2>1. ASSUME NEW v, Compensate(v)
        PROVE  /\ act'.op = act.op /\ act'.mode = act.mode /\ act'.live = act.live
               /\ act'.pc \in {"untrash", "unpublish"}
    BY <2>1, <1>t DEF Compensate, Act
  <2>2. ASSUME NEW l \in {"check", "commit"}, act' = [act EXCEPT !.pc = l]
        PROVE  /\ act'.op = act.op /\ act'.mode = act.mode /\ act'.live = act.live
               /\ act'.pc = l
    BY <2>2, <1>t DEF Act
  <2>3. \/ \E v : Compensate(v)
        \/ \E l \in {"check", "commit"} : act' = [act EXCEPT !.pc = l]
    BY <1>7 DEF AfterDests, CheckDests, CommitFails
  <2>4. act.pc \in {"publish", "check", "commit"} /\ UNCHANGED trash
    BY <1>7 DEF AfterDests, CheckDests, CommitFails, At
  <2> QED BY <2>1, <2>2, <2>3, <2>4, <1>4
<1>8. CASE CommitRegistry \/ StoreDeletes
  <2>1. act'.pc \in {"mark", "store"}
    BY <1>8, <1>t DEF CommitRegistry, StoreDeletes, Act
  <2> QED BY <2>1, <1>n
<1>9. CASE Untrash
  <2>1. /\ act.op \in Op /\ act.pc = "untrash" /\ act'.op = act.op /\ act'.mode = act.mode
        /\ act'.live = act.live /\ act'.pc \in {"unpublish", "settle"}
    BY <1>9, <1>h, <1>t DEF Untrash, At, Act
  <2>2. PICK o \in Op : o = act.op
    BY <2>1
  <2>3. RestoreTrash(o, act.live)
    BY <1>9, <2>2 DEF Untrash
  <2>4. \A p \in Path : trash'[o][p] # Absent => trash[o][p] # Absent
    BY <2>3, RestoreEffect
  <2>5. Trashed(act.op)' \subseteq Trashed(act.op)
    BY <2>4, <2>2, <2>1 DEF Trashed
  <2> QED BY <2>1, <2>5 DEF TrashKnown, At, Busy
<1>10. ASSUME NEW p \in Path, TrashOne(p) PROVE TrashKnown'
  <2>1. /\ act.op \in Op /\ act.pc = "trash" /\ act'.op = act.op /\ act'.mode = act.mode
        /\ act'.live = act.live /\ act'.pc = "trash" /\ p \in act.todo
        /\ act'.renamed = act.renamed \cup {p}
    BY <1>10, <1>h, <1>t DEF TrashOne, At, Act
  <2>2. \A x \in Path \ {p} : trash'[act.op][x] = trash[act.op][x]
    BY <1>10, <1>t, <2>1 DEF TrashOne
  <2>3. Trashed(act.op)' \subseteq Trashed(act.op) \cup {p}
    BY <2>1, <2>2 DEF Trashed
  <2>4. p \in act.live
    BY <2>1 DEF TodoKnown, At
  <2> QED BY <2>1, <2>3, <2>4 DEF TrashKnown, At, Busy
<1>11. CASE PersistPlan
  <2>1. /\ act.op \in Op /\ act.pc = "persist" /\ act'.op = act.op /\ act'.pc = "verify"
        /\ UNCHANGED trash
    BY <1>11, <1>h, <1>t DEF PersistPlan, At, Act
  <2>2. ~row[act.op].stored /\ row[act.op].status = "pending"
    BY <2>1 DEF PlanKnown, HolderAgrees
  <2>3. Trashed(act.op)' = {}
    BY <2>1, <2>2 DEF OwnTrash, Trashed
  <2> QED BY <2>1, <2>3 DEF TrashKnown, At
<1>12. CASE Clean
  <2>1. /\ act.op \in Op /\ act'.op = act.op /\ act'.pc = "finish" /\ UNCHANGED row
    BY <1>12, <1>h, <1>t DEF Clean, At, Act
  <2>2. \A p \in Path : p \in row[act.op].moved => trash'[act.op][p] = Absent
    BY <1>12, <1>t, <2>1 DEF Clean
  <2>3. row'[act'.op].moved \cap Trashed(act.op)' = {}
    BY <2>1, <2>2 DEF Trashed
  <2> QED BY <2>1, <2>3 DEF TrashKnown, At
<1>13. ASSUME NEW o \in Op, RecoverReplay(o) PROVE TrashKnown'
  <2>1. act'.pc = "scan" /\ act'.mode = "recover"
    BY <1>13, <1>t DEF RecoverReplay, Act
  <2> QED BY <2>1 DEF TrashKnown, At
<1>14. ASSUME NEW o \in Op, PlanOp(o) PROVE TrashKnown'
  <2>1. UNCHANGED act /\ UNCHANGED trash /\ \A x \in Op : row'[x].moved = row[x].moved
    BY <1>14, <1>t DEF PlanOp, Row
  <2>2. Trashed(act.op)' = Trashed(act.op)
    BY <2>1 DEF Trashed
  <2>3. At("finish") => act.op \in Op
    BY <1>h DEF At
  <2> QED BY <2>1, <2>2, <2>3 DEF TrashKnown, At, Busy
<1>15. CASE UNCHANGED <<act, row, trash>>
  <2>1. Trashed(act.op)' = Trashed(act.op)
    BY <1>15 DEF Trashed
  <2> QED BY <1>15, <2>1 DEF TrashKnown, At, Busy
<1>16. ASSUME NEW q \in Project, NEW o \in Op, Rollback(q, o) PROVE TrashKnown'
  <2>1. act'.mode = "operator"
    BY <1>16 DEF Rollback, Idle
  <2> QED BY <2>1, <1>0
<1>17. CASE JournalStart \/ StageTemps \/ act'.pc \in {"start", "clean"}
  <2>1. act'.pc \in {"prepare", "persist", "start", "clean"}
    BY <1>17, <1>t DEF JournalStart, StageTemps, Act
  <2> QED BY <2>1, <1>n
<1>18. \/ act'.mode = "none"
       \/ CarriesOn
       \/ JournalStart \/ StageTemps \/ PersistPlan \/ Clean
       \/ \E o \in Op : RecoverReplay(o) \/ PlanOp(o)
       \/ \E q \in Project, o \in Op : Rollback(q, o)
       \/ act'.pc \in {"start", "clean"}
       \/ UNCHANGED <<act, row, trash>>
  BY Kinds DEF UserEdit, vars
<1> QED BY <1>0, <1>2, <1>3, <1>5, <1>6, <1>7, <1>8, <1>9, <1>10, <1>11, <1>12, <1>13,
           <1>14, <1>15, <1>16, <1>17, <1>18 DEF CarriesOn

-----------------------------------------------------------------------------
(* One file, while nobody but the transactions touches it.                 *)

\* The lock holder may edit p: it has a stored plan that names it.
InHandFile(p) ==
    /\ Busy
    /\ act.pc \notin {"start", "prepare", "persist", "clean", "finish"}
    /\ p \in Touches(act.op)

\* The steps that change a file, the trash or the registry.
LEMMA DiskSteps ==
  ASSUME [Next]_vars
  PROVE  \/ UNCHANGED <<file, trash, reg>>
         \/ \E o \in Op : RecoverConflict(o)
         \/ TrashFails \/ Untrash \/ CommitRegistry \/ Clean \/ Scavenge
         \/ \E x \in Path : \/ TrashOne(x) \/ PublishOne(x) \/ UnpublishOne(x)
                            \/ CrashAfterLink(x)
         \/ \E x \in Path, u \in User : UserEdit(x, u)
<1>1. CASE \/ \E o \in Op : \/ PlanOp(o) \/ Transact(o) \/ RecoverCleanup(o)
                            \/ RecoverAbandon(o) \/ RecoverRefused(o) \/ RecoverReplay(o)
           \/ \E q \in Project : RecoverCommand(q) \/ CleanupCommand(q)
           \/ \E q \in Project, o \in Op :
                 \/ Retry(q, o) \/ Rollback(q, o)
                 \/ \E f \in BOOLEAN : Abandon(q, o, f)
           \/ \E S \in SUBSET Op : Compact(S)
           \/ \E p \in Path : UnpublishRefused(p)
           \/ RecoverDone \/ JournalStart \/ StageTemps \/ PlanRefused \/ PersistPlan
           \/ VerifyUnchanged \/ SourceChanged \/ ScanDeletes \/ AfterTrash
           \/ AfterDests \/ CheckDests \/ StoreDeletes
           \/ MarkCleanup \/ Finish \/ UnpublishDone \/ Settle \/ MutateRefuses
           \/ CommitFails \/ Crash \/ UNCHANGED vars
  BY <1>1
     DEF PlanOp, Transact, RecoverCleanup, RecoverAbandon, RecoverRefused,
         RecoverReplay, RecoverCommand, CleanupCommand, Retry, Rollback, Abandon,
         Compact, UnpublishRefused, RecoverDone, JournalStart, StageTemps, PlanRefused,
         PersistPlan, VerifyUnchanged, SourceChanged, ScanDeletes, AfterTrash, AfterDests,
         CheckDests, StoreDeletes, MarkCleanup, Finish, UnpublishDone,
         Settle, MutateRefuses, CommitFails, Crash, vars
<1> QED
  BY <1>1 DEF Next, Work, Command, Fault, Recovering, Transacting, Applying, Undoing

\* A file does not become unedited again.
LEMMA EditsStay ==
  ASSUME TypeOK, [Next]_vars
  PROVE  /\ \A p \in Path : edited'[p] = "never" => edited[p] = "never"
         /\ \A p \in Path, u \in User : UserEdit(p, u) => edited'[p] # "never"
<1>t. edited \in [Path -> {"never", "idle", "racing"}]
  BY DEF TypeOK
<1>1. ASSUME NEW x \in Path, NEW u \in User, UserEdit(x, u)
      PROVE  /\ \A p \in Path : edited'[p] = "never" => edited[p] = "never"
             /\ edited'[x] # "never"
  BY <1>1, <1>t DEF UserEdit
<1>2. (\E x \in Path, u \in User : UserEdit(x, u)) \/ UNCHANGED edited
  BY DEF Next, vars, Work, Command, Fault, Recovering, Transacting, Applying, Undoing,
     RecoverCleanup, RecoverAbandon, RecoverConflict, RecoverRefused, RecoverReplay,
     RecoverDone, JournalStart, StageTemps, PlanRefused, PersistPlan, VerifyUnchanged,
     SourceChanged, ScanDeletes, AfterTrash, AfterDests, CheckDests, CommitRegistry,
     StoreDeletes, MarkCleanup, Clean, Finish, TrashOne, PublishOne, UnpublishDone,
     Untrash, Settle, Scavenge, UnpublishOne, UnpublishRefused, PlanOp, Transact,
     RecoverCommand, CleanupCommand, Retry, Rollback, Abandon, Compact, MutateRefuses,
     TrashFails, CommitFails, Crash, CrashAfterLink
<1> QED BY <1>1, <1>2

\* A file is settled only if it always was, and no operator came near it.
LEMMA SettledBack ==
  ASSUME TypeOK, HolderAgrees, ScopeKnown, [Next]_vars, NEW p \in Path, Settled(p)'
  PROVE  /\ Settled(p)
         /\ \A o \in Op : p \in Touches(o) => /\ o \notin operated' /\ o \notin operated
                                              /\ ~Stuck(o)'
         /\ \A x \in Path, u \in User : UserEdit(x, u) => x # p
<1>1. /\ edited'[p] = "never" /\ OneOrigin(p)
      /\ \A o \in Op : p \in Touches(o) => o \notin operated' /\ ~Stuck(o)'
  BY DEF Settled, Calm, OneOrigin, Touches, TypeOK
<1>2. ASSUME NEW o \in Op, p \in Touches(o), Stuck(o) PROVE FALSE
  <2>1. row'[o].status = row[o].status
    BY <1>1, <1>2, Fates DEF Fate, Stuck
  <2> QED BY <2>1, <1>1, <1>2, HistoryGrows DEF Stuck
<1>3. Settled(p)
  BY <1>1, <1>2, EditsStay, HistoryGrows DEF Settled, Calm, TypeOK
<1> QED BY <1>1, <1>3, EditsStay, HistoryGrows

\* An operation begins by the plan it stores, and keeps its preimages.
LEMMA BegunBack ==
  ASSUME TypeOK, HolderAgrees, ScopeKnown, PlanKnown, [Next]_vars,
         NEW o \in Op, o \notin operated', Begun(o)'
  PROVE  /\ Begun(o) \/ (PersistPlan /\ o = act.op)
         /\ row'[o].pre = row[o].pre
<1>f. Fate(o)
  BY Fates
<1>1. row[o].stored \/ (PersistPlan /\ o = act.op)
  BY <1>f DEF Fate, Begun
<1>2. At("start") \/ At("prepare") => ~row[act.op].stored
  BY DEF PlanKnown, At
<1>3. PersistPlan => ~At("start") /\ ~At("prepare")
  BY DEF PersistPlan, At
<1> QED BY <1>f, <1>1, <1>2, <1>3 DEF Fate, Begun

\* How an operation with a stored plan ends.
LEMMA BegunEnds ==
  ASSUME TypeOK, HolderAgrees, ScopeKnown, PlanKnown, [Next]_vars,
         NEW o \in Op, Begun(o), ~Begun(o)'
  PROVE  \/ o \in operated'
         \/ row'[o].status = "conflicted"
         \/ /\ Busy /\ o = act.op
            /\ act.pc \notin {"start", "prepare", "persist", "clean", "finish"}
            /\ SourceChanged \/ ScanDeletes \/ TrashFails \/ Settle \/ MarkCleanup
<1>t. act \in Act /\ row \in [Op -> Row]
  BY DEF TypeOK
<1>h. act.pc \notin {"idle", "recover", "scavenge"} => act.op \in Op
  BY <1>t, InHand
<1>0. row'[o].stored /\ row[o].status = "pending" /\ row[o].stored
  BY Fates DEF Fate, Begun
<1>1. row'[o].status # "pending"
  BY <1>0 DEF Begun
<1>2. ASSUME NEW x \in Op, NEW s, SetRow(x, "pending", s) PROVE FALSE
  BY <1>0, <1>1, <1>2, <1>t, SetRowFrame
<1>3. ASSUME \A x \in Op : row'[x].status = row[x].status PROVE FALSE
  BY <1>0, <1>1, <1>3
<1>4. CASE \/ VerifyUnchanged \/ AfterDests \/ CheckDests \/ JournalStart
  <2>1. act.op \in Op
    BY <1>4, <1>h DEF VerifyUnchanged, AfterDests, CheckDests, JournalStart, At
  <2>2. UNCHANGED row \/ \E s : SetRow(act.op, "pending", s)
    BY <1>4 DEF VerifyUnchanged, AfterDests, CheckDests, JournalStart
  <2> QED BY <2>1, <2>2, <1>2, <1>3
<1>5. CASE \/ \E x \in Op : PlanOp(x)
           \/ \E q \in Project, x \in Op : Retry(q, x)
           \/ \E S \in SUBSET Op : Compact(S)
  <2>1. ASSUME NEW x \in Op, PlanOp(x) PROVE FALSE
    <3>1. row[x].status = "unborn" /\ \A y \in Op \ {x} : row'[y] = row[y]
      BY <2>1, <1>t DEF PlanOp
    <3> QED BY <3>1, <1>0, <1>1
  <2>2. ASSUME NEW q \in Project, NEW x \in Op, Retry(q, x) PROVE FALSE
    <3>1. \A y \in Op : row'[y].status \in {row[y].status, "pending"}
      BY <2>2, <1>t DEF Retry, Row
    <3> QED BY <3>1, <1>0, <1>1
  <2>3. ASSUME NEW S \in SUBSET Op, Compact(S) PROVE FALSE
    <3>1. \A y \in Op : row'[y].status = row[y].status
      BY <2>3, <1>t DEF Compact, Row
    <3> QED BY <3>1, <1>3
  <2> QED BY <1>5, <2>1, <2>2, <2>3
<1>6. ASSUME NEW q \in Project, NEW x \in Op, NEW f \in BOOLEAN, Abandon(q, x, f)
      PROVE  o \in operated'
  <2>1. SetRow(x, "abandoned", "abandoned") /\ x \in operated'
    BY <1>6 DEF Abandon
  <2> QED BY <2>1, <1>0, <1>1, <1>t, SetRowFrame
<1>7. ASSUME NEW x \in Op, RecoverConflict(x) \/ RecoverRefused(x) \/ RecoverAbandon(x)
      PROVE  row'[o].status = "conflicted"
  <2>1. \/ \E s : SetRow(x, "conflicted", s)
        \/ (\E s : SetRow(x, "abandoned", s)) /\ ~row[x].stored
    BY <1>7 DEF RecoverConflict, RecoverRefused, RecoverAbandon
  <2> QED BY <2>1, <1>0, <1>1, <1>t, SetRowFrame
<1>8. CASE StageTemps \/ PersistPlan \/ AfterTrash \/ StoreDeletes \/ Untrash
  <2>1. act.op \in Op
    BY <1>8, <1>h DEF StageTemps, PersistPlan, AfterTrash, StoreDeletes, Untrash, At
  <2>2. \A x \in Op : row'[x].status = row[x].status
    <3>1. CASE StageTemps
      BY <3>1, <2>1, <1>t DEF StageTemps, Row
    <3>2. CASE PersistPlan
      BY <3>2, <2>1, <1>t DEF PersistPlan, Row
    <3>3. CASE AfterTrash
      BY <3>3, <2>1, <1>t DEF AfterTrash, Row
    <3>4. CASE StoreDeletes
      BY <3>4, <2>1, <1>t DEF StoreDeletes, Row
    <3>5. CASE Untrash /\ act.mode = "transact"
      BY <3>5, <2>1, <1>t DEF Untrash, Row
    <3>6. CASE Untrash /\ act.mode # "transact"
      BY <3>6 DEF Untrash
    <3> QED BY <1>8, <3>1, <3>2, <3>3, <3>4, <3>5, <3>6
  <2> QED BY <2>2, <1>3
<1>9. CASE PlanRefused
  <2>1. act.op \in Op /\ ~row[act.op].stored
    BY <1>9, <1>h DEF PlanRefused, At, PlanKnown
  <2>2. \E st, s : SetRow(act.op, st, s)
    BY <1>9 DEF PlanRefused
  <2> QED BY <2>1, <2>2, <1>0, <1>1, <1>t, SetRowFrame
<1>10. CASE Finish
  <2>1. act.op \in Op /\ act.mode # "none"
    BY <1>10, <1>h DEF Finish, At, HolderAgrees
  <2>2. act.mode # "operator" => row[act.op].status = "cleanup_pending"
    BY <1>10, <2>1, <1>t DEF Finish, At, HolderAgrees, Act, Mode
  <2>3. UNCHANGED row \/ (act.mode # "operator" /\ SetRow(act.op, "complete", "journal_complete"))
    BY <1>10 DEF Finish
  <2> QED BY <2>1, <2>2, <2>3, <1>0, <1>1, <1>t, SetRowFrame
<1>11. CASE SourceChanged \/ ScanDeletes \/ TrashFails \/ MarkCleanup
  <2>1. /\ act.pc \in {"verify", "scan", "trash", "mark"}
        /\ UNCHANGED row \/ \E st, s : SetRow(act.op, st, s)
    BY <1>11 DEF SourceChanged, ScanDeletes, TrashFails, MarkCleanup, DeleteFailed, At
  <2>2. act.op \in Op /\ Busy
    BY <2>1, <1>t, AtTrash
  <2>3. o = act.op
    BY <2>1, <2>2, <1>0, <1>1, <1>t, SetRowFrame
  <2> QED BY <2>1, <2>2, <2>3, <1>11
<1>12. CASE Settle
  <2>1. act.op \in Op /\ SetRow(act.op, act.verdict, act.verdict) /\ act.pc = "settle"
    BY <1>12, <1>h DEF Settle, At
  <2>2. o = act.op
    BY <2>1, <1>0, <1>1, <1>t, SetRowFrame
  <2>3. CASE act.mode = "operator"
    BY <2>2, <2>3, HistoryGrows DEF ScopeKnown
  <2>4. CASE act.mode # "operator"
    BY <2>1, <2>2, <2>4, <1>12, <1>t DEF Busy, HolderAgrees, Act, Mode
  <2> QED BY <2>3, <2>4
<1>13. CASE \/ \E x \in Op : Transact(x) \/ RecoverCleanup(x) \/ RecoverReplay(x)
            \/ \E q \in Project : RecoverCommand(q) \/ CleanupCommand(q)
            \/ \E q \in Project, x \in Op : Rollback(q, x)
            \/ \E p \in Path : \/ TrashOne(p) \/ PublishOne(p) \/ UnpublishOne(p)
                               \/ UnpublishRefused(p) \/ CrashAfterLink(p)
            \/ \E p \in Path, u \in User : UserEdit(p, u)
            \/ RecoverDone \/ CommitRegistry \/ Clean \/ UnpublishDone \/ Scavenge
            \/ MutateRefuses \/ CommitFails \/ Crash \/ UNCHANGED vars
  <2>1. UNCHANGED row
    BY <1>13
     DEF Transact, RecoverCleanup, RecoverReplay, RecoverCommand, CleanupCommand,
         Rollback, TrashOne, PublishOne, UnpublishOne, UnpublishRefused,
         CrashAfterLink, UserEdit, RecoverDone, CommitRegistry, Clean,
         UnpublishDone, Scavenge, MutateRefuses, CommitFails, Crash, vars
  <2> QED BY <2>1, <1>3
<1> QED
  BY <1>4, <1>5, <1>6, <1>7, <1>8, <1>9, <1>10, <1>11, <1>12, <1>13
     DEF Next, Work, Command, Fault, Recovering, Transacting, Applying, Undoing

\* Outside the hands of the lock holder nothing happens to a settled file.
LEMMA Quiet ==
  ASSUME DInv, [Next]_vars, NEW p \in Path, Settled(p)', ~InHandFile(p)
  PROVE  /\ file'[p] = file[p]
         /\ reg'[p] = reg[p]
         /\ \A x \in Op : p \in Touches(x) /\ Begun(x) =>
              Begun(x)' /\ row'[x].pre = row[x].pre /\ trash'[x][p] = trash[x][p]
<1>i. /\ TypeOK /\ HolderAgrees /\ ScopeKnown /\ PlanKnown /\ TodoKnown /\ TrashKnown
      /\ OwnTrash
  BY DEF DInv, IInv
<1>t. /\ act \in Act /\ row \in [Op -> Row] /\ trash \in [Op -> [Path -> Val]]
      /\ file \in [Path -> Val]
  BY <1>i DEF TypeOK
<1>h. act.pc \notin {"idle", "recover", "scavenge"} => act.op \in Op
  BY <1>t, <1>i, InHand
<1>s. /\ \A o \in Op : p \in Touches(o) => /\ o \notin operated' /\ o \notin operated
                                           /\ ~Stuck(o)'
      /\ \A x \in Path, u \in User : UserEdit(x, u) => x # p
  BY <1>i, SettledBack
\* the lock holder at work on files does not have p in its hands
<1>w. ASSUME act.pc \in {"scan", "trash", "publish", "commit", "unpublish", "untrash"}
      PROVE  act.op \in Op /\ p \notin Touches(act.op)
  <2>1. act.op \in Op /\ act.mode \in {"transact", "recover", "operator"}
    BY <1>w, <1>h, <1>t, <1>i DEF HolderAgrees, Act, Mode
  <2>2. CASE act.mode = "operator"
    BY <2>1, <2>2, <1>s, <1>i DEF ScopeKnown
  <2>3. CASE act.mode # "operator"
    BY <2>1, <2>3, <1>w DEF InHandFile, Busy
  <2> QED BY <2>1, <2>2, <2>3
<1>b. ASSUME NEW x \in Op, p \in Touches(x), Begun(x)
      PROVE  Begun(x)' /\ row'[x].pre = row[x].pre
  <2>1. Begun(x)'
    <3>1. SUFFICES ASSUME ~Begun(x)' PROVE FALSE
      OBVIOUS
    <3>2. \/ row'[x].status = "conflicted"
          \/ /\ Busy /\ x = act.op
             /\ act.pc \notin {"start", "prepare", "persist", "clean", "finish"}
      BY <3>1, <1>b, <1>i, <1>s, BegunEnds
    <3>3. row'[x].status # "conflicted"
      BY <1>b, <1>s DEF Stuck
    <3> QED BY <3>2, <3>3, <1>b DEF InHandFile
  <2> QED BY <2>1, <1>b, <1>i, <1>s, BegunBack
\* a restore of other files
<1>r. ASSUME NEW o \in Op, NEW S, RestoreTrash(o, S), p \notin Deletes[o]
      PROVE  file'[p] = file[p] /\ \A x \in Op : trash'[x][p] = trash[x][p]
  BY <1>r, <1>i, RestoreSpares
<1> DEFINE Goal == /\ file'[p] = file[p]
                   /\ reg'[p] = reg[p]
                   /\ \A x \in Op : p \in Touches(x) /\ Begun(x) => trash'[x][p] = trash[x][p]
<1>1. ASSUME UNCHANGED <<file, trash, reg>> PROVE Goal
  BY <1>1
<1>2. ASSUME NEW o \in Op, RecoverConflict(o) PROVE Goal
  <2>1. RestoreTrash(o, row[o].moved) /\ SetRow(o, "conflicted", row[o].step)
        /\ UNCHANGED reg
    BY <1>2 DEF RecoverConflict
  <2>2. row'[o].status = "conflicted"
    BY <2>1, <1>t, SetRowFrame
  <2>3. p \notin Touches(o)
    BY <2>2, <1>s DEF Stuck
  <2> QED BY <2>1, <2>3, <1>r DEF Touches
<1>3. ASSUME TrashFails \/ Untrash PROVE Goal
  <2>1. act.op \in Op /\ p \notin Deletes[act.op] /\ UNCHANGED reg
    BY <1>3, <1>w DEF TrashFails, Untrash, At, Touches
  <2>2. PICK o \in Op : o = act.op
    BY <2>1
  <2>3. RestoreTrash(o, act.renamed) \/ RestoreTrash(o, act.live)
    BY <1>3, <2>2 DEF TrashFails, Untrash
  <2> QED BY <2>1, <2>2, <2>3, <1>r
<1>4. ASSUME NEW x \in Path, TrashOne(x) PROVE Goal
  <2>1. act.op \in Op /\ p \notin Touches(act.op) /\ x \in Deletes[act.op] /\ UNCHANGED reg
    BY <1>4, <1>w, <1>i DEF TrashOne, At, TodoKnown
  <2>2. x # p
    BY <2>1 DEF Touches
  <2> QED BY <2>1, <2>2, <1>4, <1>t DEF TrashOne
<1>5. ASSUME NEW x \in Path, PublishOne(x) \/ UnpublishOne(x) \/ CrashAfterLink(x)
      PROVE  Goal
  <2>1. /\ act.op \in Op /\ p \notin Touches(act.op) /\ x \in Publishes[act.op]
        /\ UNCHANGED <<reg, trash>>
    BY <1>5, <1>w, <1>i DEF PublishOne, UnpublishOne, CrashAfterLink, At, TodoKnown
  <2>2. x # p
    BY <2>1 DEF Touches
  <2>3. file' = file \/ \E v : file' = [file EXCEPT ![x] = v]
    BY <1>5 DEF PublishOne, UnpublishOne, CrashAfterLink
  <2> QED BY <2>1, <2>2, <2>3, <1>t
<1>6. ASSUME CommitRegistry PROVE Goal
  <2>1. act.op \in Op /\ p \notin Touches(act.op) /\ UNCHANGED <<file, trash>>
    BY <1>6, <1>w DEF CommitRegistry, At
  <2>2. p \notin Rows[act.op] /\ p \in Cell
    BY <2>1, Shapes, Distinct DEF Cell
  <2>3. reg'[p] = reg[p]
    BY <1>6, <2>1, <2>2 DEF CommitRegistry, Applied, Touches
  <2> QED BY <2>1, <2>3
<1>7. ASSUME Clean PROVE Goal
  <2>1. act.op \in Op /\ act.mode # "none" /\ UNCHANGED <<file, reg>>
    BY <1>7, <1>h, <1>i DEF Clean, At, HolderAgrees
  <2>2. row[act.op].status # "pending"
    BY <1>7, <2>1, <1>i, <1>t DEF Clean, At, HolderAgrees, Act, Mode
  <2>3. \A x \in Op \ {act.op} : trash'[x] = trash[x]
    BY <1>7, <1>t DEF Clean
  <2> QED BY <2>1, <2>2, <2>3 DEF Begun
<1>8. ASSUME Scavenge PROVE Goal
  <2>1. \A x \in Op : Begun(x) => trash'[x] = trash[x]
    BY <1>8, <1>t DEF Scavenge, Held, HoldFs, Begun
  <2> QED BY <1>8, <2>1 DEF Scavenge
<1>9. ASSUME NEW x \in Path, NEW u \in User, UserEdit(x, u) PROVE Goal
  <2>1. x # p
    BY <1>9, <1>s
  <2>2. \E v : file' = [file EXCEPT ![x] = v]
    BY <1>9 DEF UserEdit
  <2> QED BY <2>1, <2>2, <1>9, <1>t DEF UserEdit
<1>10. Goal
  BY <1>1, <1>2, <1>3, <1>4, <1>5, <1>6, <1>7, <1>8, <1>9, DiskSteps
<1> QED BY <1>10, <1>b

\* A delete in hand that is put back is where it was.
LEMMA PutBack ==
  ASSUME TypeOK, OwnTrash, NEW o \in Op, NEW p \in Path, Between(o, p), NEW S,
         RestoreTrash(o, S), Trashed(o) \subseteq S, UNCHANGED <<reg, committed>>,
         row'[o].pre = row[o].pre
  PROVE  /\ p \in Deletes[o] => file'[p] = row[o].pre[p]
         /\ p \in Publishes[o] => file'[p] = file[p]
         /\ Between(o, p)'
<1>1. p \in Publishes[o] => p \notin Deletes[o]
  BY Plans
<1>2. trash[o][p] # Absent => p \in S
  BY DEF Trashed
<1>3. /\ trash[o][p] = Absent => file'[p] = file[p] /\ trash'[o][p] = trash[o][p]
      /\ trash[o][p] # Absent => file'[p] = trash[o][p] /\ trash'[o][p] = Absent
      /\ p \notin Deletes[o] => file'[p] = file[p] /\ trash'[o][p] = trash[o][p]
  BY <1>2, RestoreEffect, RestoreSpares
<1>4. p \in Deletes[o] => file'[p] = row[o].pre[p] /\ trash'[o][p] = Absent
  BY <1>1, <1>3 DEF Between, Before, After
<1> QED BY <1>1, <1>3, <1>4 DEF Between, Before, After

\* What a step does to a settled file in hand.
Kept(o, p) ==
    /\ \/ Begun(o)' /\ Between(o, p)'
       \/ ~Begun(o)' /\ file'[p] = reg'[p]
    /\ Busy' => act'.op = o /\ Brought(o, p)'

\* The steps of the lock holder while it has files in hand.
LEMMA HandSteps ==
  ASSUME TypeOK, HolderAgrees, Busy, [Next]_vars,
         act.pc \notin {"start", "prepare", "persist", "clean", "finish"}
  PROVE  \/ CarriesOn \/ SourceChanged \/ Settle \/ MarkCleanup \/ Crash
         \/ \E x \in Path : CrashAfterLink(x)
         \/ \E x \in Op : PlanOp(x)
         \/ \E x \in Path, u \in User : UserEdit(x, u)
         \/ UNCHANGED vars
<1>1. /\ act.by # Nobody /\ act.mode # "operator"
      /\ act.pc \notin {"idle", "recover", "scavenge"}
  BY DEF HolderAgrees, Busy, Idle
<1>2. ~ \/ \E o \in Op : \/ Transact(o) \/ RecoverCleanup(o) \/ RecoverAbandon(o)
                         \/ RecoverConflict(o) \/ RecoverRefused(o) \/ RecoverReplay(o)
        \/ \E q \in Project : RecoverCommand(q) \/ CleanupCommand(q)
        \/ \E q \in Project, o \in Op :
              \/ Retry(q, o) \/ Rollback(q, o)
              \/ \E f \in BOOLEAN : Abandon(q, o, f)
        \/ \E S \in SUBSET Op : Compact(S)
        \/ RecoverDone \/ JournalStart \/ StageTemps \/ PlanRefused \/ PersistPlan
        \/ MutateRefuses \/ Clean \/ Finish \/ Scavenge
        \/ \E x \in Path : UnpublishRefused(x)
  BY <1>1 DEF Transact, RecoverCleanup, RecoverAbandon, RecoverConflict, RecoverRefused,
     RecoverReplay, RecoverCommand, CleanupCommand, Retry, Rollback, Abandon, Compact,
     RecoverDone, JournalStart, StageTemps, PlanRefused, PersistPlan, MutateRefuses,
     Clean, Finish, Scavenge, UnpublishRefused, Lock, At
<1> QED
  BY <1>2 DEF Next, Work, Command, Fault, Recovering, Transacting, Applying, Undoing,
     CarriesOn

\* A settled file in hand stays old or new, and is brought where the lock holder
\* believes it is; the row lets go of it only as the registry has it.
LEMMA HandStep ==
  ASSUME DInv, [Next]_vars, NEW o \in Op, NEW p \in Path, p \in Touches(o), act.op = o,
         InHandFile(p), Settled(p)'
  PROVE  Kept(o, p)
<1>i. /\ TypeOK /\ HolderAgrees /\ ScopeKnown /\ PlanKnown /\ TodoKnown /\ TrashKnown
      /\ OwnTrash /\ FilesAgree /\ Reached
  BY DEF DInv, IInv
<1>q. p \in Path /\ p \in Touches(o)
  OBVIOUS
<1>t. /\ act \in Act /\ row \in [Op -> Row] /\ trash \in [Op -> [Path -> Val]]
      /\ file \in [Path -> Val]
  BY <1>i DEF TypeOK
<1>h. /\ Busy /\ act.pc \notin {"idle", "recover", "scavenge"}
      /\ act.pc \notin {"start", "prepare", "persist", "clean", "finish"}
      /\ act.mode \in {"transact", "recover"}
  BY <1>i DEF InHandFile, HolderAgrees, Busy
<1>s. Settled(p) /\ o \notin operated' /\ ~Stuck(o)'
  BY <1>i, <1>q, SettledBack
<1>d. p \in Publishes[o] => p \notin Deletes[o]
  BY Plans
<1>g. Begun(o)
  BY <1>h, <1>i DEF Begun, HolderAgrees, PlanKnown
<1>a. Between(o, p) /\ Brought(o, p)
  BY <1>g, <1>h, <1>i, <1>q, <1>s DEF FilesAgree, Reached
<1>p. row'[o].pre = row[o].pre
  BY <1>h, <1>i, Fates DEF Fate, At
<1>e. Begun(o)' \/ SourceChanged \/ ScanDeletes \/ TrashFails \/ Settle \/ MarkCleanup
  BY <1>g, <1>i, <1>s, BegunEnds DEF Stuck
<1>b. ASSUME UNCHANGED <<file, trash, reg, committed>> PROVE Between(o, p)'
  BY <1>b, <1>a, <1>p DEF Between, Before, After
<1>f. ASSUME UNCHANGED <<reg, committed>>, row'[o].status = "failed", Before(o, p)'
      PROVE  ~Begun(o)' /\ file'[p] = reg'[p]
  <2>1. o \notin committed
    BY <1>f, <1>s DEF Stuck
  <2> QED BY <2>1, <1>f, <1>a, <1>p DEF Between, Before, Begun
<1>z. ASSUME act'.mode = "none" PROVE ~Busy'
  BY <1>z DEF Busy
\* compensation starts
<1>n. ASSUME act'.pc = "unpublish", act'.todo = Publishes[o],
             act'.mode = "recover" \/ (act'.mode = "transact" /\ Before(o, p)')
      PROVE  Brought(o, p)'
  BY <1>n DEF Brought, At
<1>r. ASSUME NEW S, RestoreTrash(o, S)
      PROVE  /\ file'[p] = IF p \in S /\ trash[o][p] # Absent THEN trash[o][p] ELSE file[p]
             /\ trash'[o][p] = IF p \in S THEN Absent ELSE trash[o][p]
             /\ p \notin Deletes[o] => file'[p] = file[p] /\ trash'[o][p] = trash[o][p]
  <2>0. TypeOK /\ OwnTrash
    BY <1>i
  <2>1. file'[p] = IF p \in S /\ trash[o][p] # Absent THEN trash[o][p] ELSE file[p]
    BY <2>0, <1>r, RestoreEffect
  <2>2. trash'[o][p] = IF p \in S THEN Absent ELSE trash[o][p]
    BY <2>0, <1>r, RestoreEffect
  <2>3. p \notin Deletes[o] => file'[p] = file[p] /\ trash'[o][p] = trash[o][p]
    BY <2>0, <1>r, RestoreSpares
  <2> QED BY <2>1, <2>2, <2>3
\* a transact in which some delete cannot be done
<1>u. ASSUME act.mode = "transact", act.pc \in {"verify", "scan"} PROVE Before(o, p)
  <2>1. trash[o][p] = Absent
    BY <1>u, <1>q, <1>i DEF TrashKnown, Trashed, Busy
  <2>2. p \in Deletes[o] => Before(o, p)
    BY <2>1, <1>d, <1>a DEF Between, Before, After
  <2> QED BY <2>2, <1>u, <1>a DEF Brought, Touches
<1>1. ASSUME VerifyUnchanged PROVE Kept(o, p)
  <2>1. /\ act.pc = "verify" /\ act'.pc = "scan" /\ act'.op = o /\ act'.mode = act.mode
        /\ UNCHANGED <<file, trash, reg, committed>>
    BY <1>1, <1>t DEF VerifyUnchanged, Act, At
  <2>2. act.mode = "transact"
    BY <2>1, <1>i DEF HolderAgrees
  <2>3. Begun(o)'
    <3>1. SetRow(o, "pending", "verify_unchanged")
      BY <1>1 DEF VerifyUnchanged
    <3> QED BY <3>1, <1>g, <1>t, SetRowFrame DEF Begun
  <2>4. Brought(o, p)'
    BY <2>1, <2>2, <1>a, <1>p DEF Brought, At, Before
  <2> QED BY <2>1, <2>3, <2>4, <1>b DEF Kept
<1>2. ASSUME SourceChanged PROVE Kept(o, p)
  <2>1. /\ SetRow(o, "failed", "failed") /\ act' = Idle /\ act.pc = "verify"
        /\ UNCHANGED <<file, trash, reg, committed>>
    BY <1>2 DEF SourceChanged, At
  <2>2. act.mode = "transact"
    BY <2>1, <1>i DEF HolderAgrees
  <2>3. Before(o, p)'
    BY <2>1, <2>2, <1>u, <1>p DEF Before
  <2>4. row'[o].status = "failed" /\ ~Busy'
    BY <2>1, <1>t, SetRowFrame DEF Idle, Busy
  <2> QED BY <2>1, <2>3, <2>4, <1>f DEF Kept
\* a delete that cannot be done
<1>3. ASSUME NEW S, DeleteFailed(S), UNCHANGED <<reg, committed>>, Between(o, p)',
             act.mode = "transact" => Before(o, p)'
      PROVE  Kept(o, p)
  <2>1. CASE act.mode = "transact"
    <3>1. SetRow(o, "failed", "failed") /\ act' = Idle
      BY <2>1, <1>3 DEF DeleteFailed
    <3>2. row'[o].status = "failed" /\ ~Busy'
      BY <3>1, <1>t, SetRowFrame DEF Idle, Busy
    <3> QED BY <3>2, <2>1, <1>3, <1>f DEF Kept
  <2>2. CASE act.mode # "transact"
    <3>1. /\ act'.pc = "unpublish" /\ act'.todo = Publishes[o] /\ act'.op = o
          /\ act'.mode = act.mode /\ UNCHANGED row
      BY <2>2, <1>3, <1>t DEF DeleteFailed, Act
    <3>2. Begun(o)' /\ act'.mode = "recover"
      BY <3>1, <2>2, <1>g, <1>h DEF Begun
    <3> QED BY <3>1, <3>2, <1>3, <1>n DEF Kept
  <2> QED BY <2>1, <2>2
<1>4. ASSUME ScanDeletes PROVE Kept(o, p)
  <2>1. UNCHANGED <<file, trash, reg, committed>> /\ act.pc = "scan"
    BY <1>4 DEF ScanDeletes, At
  <2>2. act.mode = "transact" => Before(o, p)'
    BY <2>1, <1>u, <1>p DEF Before
  <2>3. CASE Blocked(act.op)
    BY <2>1, <2>2, <2>3, <1>b, <1>3, <1>4 DEF ScanDeletes
  <2>4. CASE ~Blocked(act.op)
    <3>1. /\ act'.pc = "trash" /\ act'.op = o /\ act'.mode = act.mode /\ UNCHANGED row
          /\ act'.todo = {x \in Deletes[o] : file[x] # Absent}
      BY <1>4, <2>4, <1>t DEF ScanDeletes, Act
    <3>2. Begun(o)'
      BY <3>1, <1>g DEF Begun
    <3>3. Brought(o, p)'
      BY <3>1, <2>1, <2>2, <1>d, <1>q DEF Brought, At, After
    <3> QED BY <3>1, <3>2, <3>3, <2>1, <1>b DEF Kept
  <2> QED BY <2>3, <2>4
<1>5. ASSUME TrashFails PROVE Kept(o, p)
  <2>1. /\ act.pc = "trash" /\ RestoreTrash(o, act.renamed) /\ DeleteFailed(act.live)
        /\ UNCHANGED <<reg, committed>>
    BY <1>5 DEF TrashFails, At
  <2>2. CASE act.mode = "transact"
    <3>1. Trashed(o) \subseteq act.renamed
      BY <2>1, <2>2, <1>i DEF TrashKnown, At
    <3>2. /\ p \in Deletes[o] => file'[p] = row[o].pre[p]
          /\ p \in Publishes[o] => file'[p] = file[p]
          /\ Between(o, p)'
      BY <3>1, <2>1, <1>i, <1>q, <1>a, <1>p, PutBack
    <3>3. p \in Publishes[o] => Before(o, p)
      BY <2>1, <2>2, <1>a DEF Brought
    <3>4. Before(o, p)'
      BY <3>2, <3>3, <1>p DEF Before, Touches
    <3> QED BY <3>2, <3>4, <2>1, <1>3
  <2>3. CASE act.mode # "transact"
    <3>1. /\ file'[p] = IF p \in act.renamed /\ trash[o][p] # Absent THEN trash[o][p]
                                                                       ELSE file[p]
          /\ trash'[o][p] = IF p \in act.renamed THEN Absent ELSE trash[o][p]
          /\ p \notin Deletes[o] => file'[p] = file[p] /\ trash'[o][p] = trash[o][p]
      BY <2>1, <1>r
    <3>2. Between(o, p)'
      BY <3>1, <2>1, <1>a, <1>p, <1>d DEF Between, Before, After
    <3> QED BY <3>2, <2>1, <2>3, <1>3
  <2> QED BY <2>2, <2>3
<1>6. ASSUME NEW x \in Path, TrashOne(x) PROVE Kept(o, p)
  <2>1. /\ act.pc = "trash" /\ x \in act.todo /\ file[x] # Absent /\ trash[o][x] = Absent
        /\ UNCHANGED <<row, reg, committed>>
        /\ trash' = [trash EXCEPT ![o][x] = file[x]] /\ file' = [file EXCEPT ![x] = Absent]
    BY <1>6 DEF TrashOne, At
  <2>2. /\ act'.pc = "trash" /\ act'.op = o /\ act'.mode = act.mode
        /\ act'.todo = act.todo \ {x}
    BY <1>6, <1>t DEF TrashOne, Act, At
  <2>3. x \in Deletes[o]
    BY <2>1, <1>i DEF TodoKnown, At
  <2>4. Begun(o)'
    BY <2>1, <1>g DEF Begun
  <2>5. CASE x = p
    <3>1. file[p] = row[o].pre[p] /\ p \notin Publishes[o]
      BY <2>1, <2>3, <2>5, <1>a, <1>d DEF Between, Before, After
    <3>2. file'[p] = Absent /\ trash'[o][p] = row[o].pre[p]
      BY <3>1, <2>1, <2>5, <1>t
    <3>3. Between(o, p)' /\ Brought(o, p)'
      BY <3>1, <3>2, <2>1, <2>2, <1>a DEF Between, Brought, Before, After, At
    <3> QED BY <3>3, <2>2, <2>4 DEF Kept
  <2>6. CASE x # p
    <3>1. file'[p] = file[p] /\ trash'[o][p] = trash[o][p]
      BY <2>1, <2>6, <1>t, <1>q
    <3>2. Between(o, p)' /\ Brought(o, p)'
      BY <3>1, <2>1, <2>2, <2>6, <1>a, <1>p DEF Between, Brought, Before, After, At
    <3> QED BY <3>2, <2>2, <2>4 DEF Kept
  <2> QED BY <2>5, <2>6
<1>7. ASSUME AfterTrash PROVE Kept(o, p)
  <2>1. /\ act.pc = "trash" /\ act.todo = {} /\ act'.pc = "publish" /\ act'.op = o
        /\ act'.todo = Publishes[o] /\ UNCHANGED <<file, trash, reg, committed>>
    BY <1>7, <1>t DEF AfterTrash, Act, At
  <2>2. Begun(o)'
    BY <2>1, <1>e DEF SourceChanged, ScanDeletes, TrashFails, Settle, MarkCleanup, At
  <2>3. Brought(o, p)'
    BY <2>1, <1>a, <1>d DEF Brought, At, After
  <2> QED BY <2>1, <2>2, <2>3, <1>b DEF Kept
<1>8. ASSUME NEW x \in Path, PublishOne(x) PROVE Kept(o, p)
  <2>1. /\ act.pc = "publish" /\ x \in act.todo /\ UNCHANGED <<trash, row, reg, committed>>
        /\ \/ file' = [file EXCEPT ![x] = o]
           \/ file' = file /\ (act'.bad \/ file[x] = o)
        /\ act'.pc = "publish" /\ act'.op = o /\ act'.mode = act.mode
        /\ act'.todo = act.todo \ {x} /\ (act.bad => act'.bad)
    BY <1>8, <1>t DEF PublishOne, Act, At
  <2>2. x \in Publishes[o]
    BY <2>1, <1>i DEF TodoKnown
  <2>3. Begun(o)'
    BY <2>1, <1>g DEF Begun
  <2>4. CASE x = p
    <3>1. file'[p] = o \/ (file'[p] = file[p] /\ (act'.bad \/ file'[p] = o))
      BY <2>1, <2>4, <1>t
    <3>2. p \in Publishes[o] /\ p \notin Deletes[o]
      BY <2>2, <2>4, <1>d
    <3>3. Between(o, p)' /\ Brought(o, p)'
      BY <3>1, <3>2, <2>1, <1>a, <1>p DEF Between, Brought, Before, After, At
    <3> QED BY <3>3, <2>1, <2>3 DEF Kept
  <2>5. CASE x # p
    <3>1. file'[p] = file[p]
      BY <2>1, <2>5, <1>t, <1>q
    <3>2. Between(o, p)' /\ Brought(o, p)'
      BY <3>1, <2>1, <2>5, <1>a, <1>p DEF Between, Brought, Before, After, At
    <3> QED BY <3>2, <2>1, <2>3 DEF Kept
  <2> QED BY <2>4, <2>5
\* turning to compensation after the deletes
<1>9. ASSUME NEW v, Compensate(v), UNCHANGED <<file, trash, row, reg, committed>>
      PROVE  Kept(o, p)
  <2>1. /\ act'.op = o /\ act'.mode = act.mode /\ act'.todo = Publishes[o]
        /\ act'.pc = IF act.mode = "transact" THEN "untrash" ELSE "unpublish"
    BY <1>9, <1>t DEF Compensate, Act
  <2>2. Begun(o)'
    BY <1>9, <1>g DEF Begun
  <2>3. Brought(o, p)'
    BY <2>1, <1>h DEF Brought, At
  <2> QED BY <2>1, <2>2, <2>3, <1>9, <1>b DEF Kept
<1>10. ASSUME AfterDests PROVE Kept(o, p)
  <2>1. /\ act.pc = "publish" /\ act.todo = {} /\ UNCHANGED <<file, trash, reg, committed>>
    BY <1>10 DEF AfterDests, At
  <2>2. Begun(o)'
    BY <2>1, <1>e DEF SourceChanged, ScanDeletes, TrashFails, Settle, MarkCleanup, At
  <2>3. CASE act.mode = "transact"
    <3>1. act'.pc = "check" /\ act'.op = o
      BY <1>10, <2>3, <1>t DEF AfterDests, Act
    <3> QED BY <3>1, <2>1, <2>2, <1>b DEF Kept, Brought, At
  <2>4. CASE act.mode # "transact" /\ act.bad
    BY <1>10, <2>4, <1>9, <2>1 DEF AfterDests
  <2>5. CASE act.mode # "transact" /\ ~act.bad
    <3>1. act'.pc = "commit" /\ act'.op = o
      BY <1>10, <2>5, <1>t DEF AfterDests, Act
    <3>2. After(o, p)
      BY <2>1, <2>5, <1>a DEF Brought, At, Touches
    <3> QED BY <3>1, <3>2, <2>1, <2>2, <1>b DEF Kept, Brought, At, After
  <2> QED BY <2>3, <2>4, <2>5
<1>11. ASSUME CheckDests PROVE Kept(o, p)
  <2>1. /\ act.pc = "check" /\ UNCHANGED <<file, trash, reg, committed>>
    BY <1>11 DEF CheckDests, At
  <2>2. CASE FilesInPlace(act.op)
    <3>1. act'.pc = "commit" /\ act'.op = o
      BY <1>11, <2>2, <1>t DEF CheckDests, Act
    <3>2. After(o, p)
      BY <2>2, <1>d DEF FilesInPlace, AlreadyPublished, After, Touches
    <3>3. Begun(o)'
      BY <2>1, <1>e DEF SourceChanged, ScanDeletes, TrashFails, Settle, MarkCleanup, At
    <3> QED BY <3>1, <3>2, <3>3, <2>1, <1>b DEF Kept, Brought, At, After
  <2>3. CASE ~FilesInPlace(act.op)
    BY <1>11, <2>1, <2>3, <1>9 DEF CheckDests
  <2> QED BY <2>2, <2>3
<1>12. ASSUME CommitFails PROVE Kept(o, p)
  BY <1>12, <1>9 DEF CommitFails
<1>13. ASSUME CommitRegistry PROVE Kept(o, p)
  <2>1. /\ act.pc = "commit" /\ act'.pc \in {"mark", "store"} /\ act'.op = o
        /\ UNCHANGED <<file, trash, row>> /\ o \in committed' /\ reg' = Applied(o)
    BY <1>13, <1>t DEF CommitRegistry, Act, At
  <2>2. p \notin Rows[o] /\ p \in Cell
    BY <1>q, Shapes, Distinct DEF Cell
  <2>3. reg'[p] = IF p \in Publishes[o] THEN o ELSE Absent
    BY <2>1, <2>2 DEF Applied, Touches
  <2>4. file'[p] = reg'[p]
    BY <2>1, <2>3, <1>a DEF Brought, At, After
  <2>5. Between(o, p)' /\ Begun(o)'
    BY <2>1, <1>a, <1>g DEF Between, Before, After, Begun
  <2> QED BY <2>1, <2>4, <2>5 DEF Kept, Brought, At
<1>14. ASSUME StoreDeletes PROVE Kept(o, p)
  <2>1. /\ act.pc = "store" /\ act'.pc = "mark" /\ act'.op = o
        /\ UNCHANGED <<file, trash, reg, committed>>
    BY <1>14, <1>t DEF StoreDeletes, Act, At
  <2>2. Begun(o)'
    BY <2>1, <1>e DEF SourceChanged, ScanDeletes, TrashFails, Settle, MarkCleanup, At
  <2> QED BY <2>1, <2>2, <1>a, <1>b DEF Kept, Brought, At
<1>15. ASSUME MarkCleanup PROVE Kept(o, p)
  <2>1. /\ act.pc = "mark" /\ act'.pc = "clean" /\ act'.op = o
        /\ SetRow(o, "cleanup_pending", "cleanup_pending") /\ UNCHANGED <<file, reg>>
    BY <1>15, <1>t DEF MarkCleanup, Act, At
  <2>2. ~Begun(o)'
    BY <2>1, <1>t, SetRowFrame DEF Begun
  <2>3. file'[p] = reg'[p]
    BY <2>1, <1>a DEF Brought
  <2> QED BY <2>1, <2>2, <2>3 DEF Kept, Brought, At
<1>16. ASSUME NEW x \in Path, UnpublishOne(x) PROVE Kept(o, p)
  <2>1. /\ act.pc = "unpublish" /\ x \in act.todo
        /\ UNCHANGED <<trash, row, reg, committed>>
        /\ file' = [file EXCEPT ![x] = row[o].pre[x]]
        /\ act'.pc = "unpublish" /\ act'.op = o /\ act'.mode = act.mode
        /\ act'.todo = act.todo \ {x}
    BY <1>16, <1>t DEF UnpublishOne, Act, At
  <2>2. x \in Publishes[o]
    BY <2>1, <1>i DEF TodoKnown
  <2>3. Begun(o)'
    BY <2>1, <1>g DEF Begun
  <2>4. file'[p] = IF x = p THEN row[o].pre[p] ELSE file[p]
    BY <2>1, <1>t, <1>q
  <2>5. Between(o, p)' /\ Brought(o, p)'
    BY <2>1, <2>2, <2>4, <1>a, <1>p, <1>d DEF Between, Brought, Before, After, At
  <2> QED BY <2>1, <2>3, <2>5 DEF Kept
<1>17. ASSUME UnpublishDone PROVE Kept(o, p)
  <2>1. /\ act.pc = "unpublish" /\ act.todo = {} /\ act'.op = o /\ act'.mode = act.mode
        /\ act'.pc = IF act.mode = "transact" THEN "settle" ELSE "untrash"
        /\ UNCHANGED <<file, trash, row, reg, committed>>
    BY <1>17, <1>t DEF UnpublishDone, Act, At
  <2>2. Begun(o)'
    BY <2>1, <1>g DEF Begun
  <2>3. Brought(o, p)'
    BY <2>1, <1>a, <1>p, <1>h DEF Brought, Before, At, Touches
  <2> QED BY <2>1, <2>2, <2>3, <1>b DEF Kept
<1>18. ASSUME Untrash PROVE Kept(o, p)
  <2>1. /\ act.pc = "untrash" /\ RestoreTrash(o, act.live) /\ UNCHANGED <<reg, committed>>
        /\ act'.op = o /\ act'.mode = act.mode /\ act'.todo = act.todo
        /\ act'.pc = IF act.mode = "transact" THEN "unpublish" ELSE "settle"
    BY <1>18, <1>t DEF Untrash, Act, At
  <2>2. Trashed(o) \subseteq act.live
    BY <2>1, <1>h, <1>i DEF TrashKnown
  <2>3. /\ p \in Deletes[o] => file'[p] = row[o].pre[p]
        /\ p \in Publishes[o] => file'[p] = file[p]
        /\ Between(o, p)'
    BY <2>1, <2>2, <1>i, <1>q, <1>a, <1>p, PutBack
  <2>4. Begun(o)'
    BY <2>1, <1>e DEF SourceChanged, ScanDeletes, TrashFails, Settle, MarkCleanup, At
  <2>5. act.mode = "transact" => act'.todo = Publishes[o]
    BY <2>1, <1>i DEF TodoKnown, At
  <2>6. Brought(o, p)'
    BY <2>1, <2>3, <2>5, <1>a, <1>p, <1>h DEF Brought, Before, At, Touches
  <2> QED BY <2>1, <2>3, <2>4, <2>6 DEF Kept
<1>19. ASSUME Settle PROVE Kept(o, p)
  <2>1. /\ act.pc = "settle" /\ SetRow(o, act.verdict, act.verdict) /\ act' = Through
        /\ act.verdict \in {"failed", "conflicted"}
        /\ UNCHANGED <<file, trash, reg, committed>>
    BY <1>19, <1>h, <1>t, <1>i DEF Settle, Act, At, HolderAgrees
  <2>2. row'[o].status = act.verdict
    BY <2>1, <1>t, SetRowFrame
  <2>3. row'[o].status = "failed"
    BY <2>1, <2>2, <1>s DEF Stuck
  <2>4. Before(o, p)'
    BY <2>1, <1>a, <1>p DEF Brought, At, Before
  <2>5. ~Busy'
    BY <2>1 DEF Through, Idle, Busy
  <2> QED BY <2>1, <2>3, <2>4, <2>5, <1>f DEF Kept
<1>20. ASSUME Crash \/ \E x \in Path : CrashAfterLink(x) PROVE Kept(o, p)
  <2>1. ~Busy' /\ UNCHANGED <<trash, row, reg, committed>>
    BY <1>20 DEF Crash, CrashAfterLink, Idle, Busy
  <2>2. Begun(o)'
    BY <2>1, <1>g DEF Begun
  <2>3. CASE Crash
    BY <2>1, <2>2, <2>3, <1>b DEF Crash, Kept
  <2>4. ASSUME NEW x \in Path, CrashAfterLink(x) PROVE Kept(o, p)
    <3>1. x \in Publishes[o] /\ file' = [file EXCEPT ![x] = o]
      BY <2>4, <1>i DEF CrashAfterLink, At, TodoKnown
    <3>2. file'[p] = IF x = p THEN o ELSE file[p]
      BY <3>1, <1>t, <1>q
    <3>3. Between(o, p)'
      BY <3>1, <3>2, <2>1, <1>a, <1>d DEF Between, Before, After
    <3> QED BY <3>3, <2>1, <2>2 DEF Kept
  <2> QED BY <1>20, <2>3, <2>4
<1>21. ASSUME \/ \E x \in Op : PlanOp(x)
              \/ \E x \in Path, u \in User : UserEdit(x, u)
              \/ UNCHANGED vars
       PROVE  Kept(o, p)
  <2>1. /\ UNCHANGED <<act, trash, reg, committed>>
    BY <1>21 DEF PlanOp, UserEdit, vars
  <2>2. file'[p] = file[p]
    <3>1. ASSUME NEW x \in Path, NEW u \in User, UserEdit(x, u) PROVE file'[p] = file[p]
      <4>1. x # p
        BY <3>1, <1>i, <1>q, SettledBack
      <4>2. \E v : file' = [file EXCEPT ![x] = v]
        BY <3>1 DEF UserEdit
      <4> QED BY <4>1, <4>2, <1>t, <1>q
    <3> QED BY <3>1, <1>21 DEF PlanOp, vars
  <2>3. Begun(o)'
    <3>1. ASSUME NEW x \in Op, PlanOp(x) PROVE Begun(o)'
      <4>1. row[x].status = "unborn" /\ \A y \in Op \ {x} : row'[y] = row[y]
        BY <3>1, <1>t DEF PlanOp
      <4> QED BY <4>1, <1>g DEF Begun
    <3>2. CASE UNCHANGED row
      BY <3>2, <1>g DEF Begun
    <3> QED BY <3>1, <3>2, <1>21 DEF UserEdit, vars
  <2>4. Between(o, p)' /\ Brought(o, p)'
    BY <2>1, <2>2, <1>a, <1>p DEF Between, Brought, Before, After, At
  <2> QED BY <2>1, <2>3, <2>4 DEF Kept
<1> QED
  BY <1>1, <1>2, <1>4, <1>5, <1>6, <1>7, <1>8, <1>10, <1>11, <1>12, <1>13, <1>14, <1>15,
     <1>16, <1>17, <1>18, <1>19, <1>20, <1>21, <1>h, <1>i, HandSteps DEF CarriesOn

\* No other operation that touches a settled file is begun while one has it in hand.
LEMMA OthersNotBegun ==
  ASSUME DInv, NEW p \in Path, Settled(p), InHandFile(p), NEW x \in Op, x # act.op,
         p \in Touches(x)
  PROVE  ~Begun(x)
<1>i. /\ HolderAgrees /\ ScopeKnown /\ PlanKnown /\ Alone /\ act \in Act
  BY DEF DInv, IInv, TypeOK
<1>1. /\ act.op \in Op /\ Busy /\ p \in Touches(act.op) /\ row[act.op].status = "pending"
  BY <1>i DEF InHandFile, HolderAgrees, Busy
<1>2. Origin[x] = Origin[act.op] /\ x \notin operated /\ act.op \notin operated
  BY <1>1 DEF Settled, Calm, OneOrigin
<1>3. PICK o \in Op : o = act.op
  BY <1>1
<1>4. row[x].status = "pending" => x = o
  BY <1>1, <1>2, <1>3, <1>i DEF Alone
<1> QED BY <1>3, <1>4 DEF Begun

\* FilesAgree is kept by every step.
LEMMA FilesStep ==
  ASSUME DInv, [Next]_vars
  PROVE  FilesAgree'
<1>i. /\ TypeOK /\ HolderAgrees /\ ScopeKnown /\ PlanKnown /\ OwnTrash /\ FilesAgree
      /\ Reached /\ act \in Act /\ row \in [Op -> Row]
  BY DEF DInv, IInv, TypeOK
<1> SUFFICES ASSUME NEW p \in Path, Settled(p)'
             PROVE  /\ \A o \in Op : p \in Touches(o) /\ Begun(o)' => Between(o, p)'
                    /\ (\A o \in Op : p \in Touches(o) => ~Begun(o)') => file'[p] = reg'[p]
  BY DEF FilesAgree, Touches
<1>s. /\ Settled(p)
      /\ \A o \in Op : p \in Touches(o) => o \notin operated' /\ o \notin operated
  BY <1>i, SettledBack
<1>a. /\ \A o \in Op : p \in Touches(o) /\ Begun(o) => Between(o, p)
      /\ (\A o \in Op : p \in Touches(o) => ~Begun(o)) => file[p] = reg[p]
  BY <1>s, <1>i DEF FilesAgree
<1>k. \A o \in Op : p \in Touches(o) /\ Begun(o)' =>
         Begun(o) \/ (PersistPlan /\ o = act.op)
  BY <1>s, <1>i, BegunBack
<1>1. CASE InHandFile(p)
  <2>1. PICK o \in Op : o = act.op
    BY <1>1, <1>i DEF InHandFile, HolderAgrees, Busy
  <2>2. p \in Touches(o)
    BY <2>1, <1>1 DEF InHandFile
  <2>3. Kept(o, p)
    BY <2>1, <2>2, <1>1, HandStep
  <2>4. ~PersistPlan
    BY <1>1 DEF InHandFile, PersistPlan, At
  <2>5. \A x \in Op : p \in Touches(x) /\ x # o => ~Begun(x)'
    BY <2>1, <2>4, <1>1, <1>s, <1>k, OthersNotBegun
  <2> QED BY <2>2, <2>3, <2>5 DEF Kept
<1>2. CASE ~InHandFile(p) /\ PersistPlan /\ p \in Touches(act.op)
  <2>1. /\ act.op \in Op /\ act.mode = "transact" /\ At("persist") /\ Busy
        /\ row[act.op].status = "pending" /\ ~row[act.op].stored
    BY <1>2, <1>i DEF PersistPlan, At, HolderAgrees, PlanKnown, Busy
  <2>2. PICK o \in Op : o = act.op
    BY <2>1
  <2>3. /\ UNCHANGED <<file, trash, reg, committed>>
        /\ \A x \in Op \ {o} : row'[x] = row[x]
        /\ row'[o].pre = row[o].pre
    BY <1>2, <2>2, <1>i DEF PersistPlan, Row
  <2>4. \A x \in Op : p \in Touches(x) => ~Begun(x)
    <3>1. ASSUME NEW x \in Op, p \in Touches(x), x # o PROVE row[x].status # "pending"
      <4>1. Origin[x] = Origin[o]
        BY <3>1, <1>2, <2>2, <1>s DEF Settled, Calm, OneOrigin
      <4> QED BY <4>1, <3>1, <2>1, <2>2, <1>i DEF ScopeKnown
    <3> QED BY <3>1, <2>1, <2>2 DEF Begun
  <2>5. file[p] = reg[p]
    BY <2>4, <1>a
  <2>6. Before(o, p)
    BY <1>2, <2>1, <2>2, <1>s, <1>i DEF Reached, Brought
  <2>7. trash[o][p] = Absent
    BY <2>1, <2>2, <1>i DEF OwnTrash
  <2>8. Between(o, p)'
    BY <2>3, <2>5, <2>6, <2>7 DEF Between, Before, After
  <2>9. \A x \in Op : p \in Touches(x) /\ x # o => ~Begun(x)'
    BY <2>2, <2>4, <1>k
  <2>10. Begun(o)'
    BY <1>2, <2>1, <2>2, <1>i DEF PersistPlan, Begun, Row
  <2> QED BY <1>2, <2>2, <2>8, <2>9, <2>10
<1>3. CASE ~InHandFile(p) /\ ~(PersistPlan /\ p \in Touches(act.op))
  <2>1. /\ file'[p] = file[p] /\ reg'[p] = reg[p]
        /\ \A x \in Op : p \in Touches(x) /\ Begun(x) =>
             Begun(x)' /\ row'[x].pre = row[x].pre /\ trash'[x][p] = trash[x][p]
    BY <1>3, Quiet
  <2>2. \A x \in Op : p \in Touches(x) => (Begun(x)' <=> Begun(x))
    BY <2>1, <1>3, <1>k
  <2>3. ASSUME NEW x \in Op, p \in Touches(x), Begun(x) PROVE Between(x, p)'
    BY <2>1, <2>3, <1>a, HistoryGrows DEF Between, Before, After
  <2> QED BY <2>1, <2>2, <2>3, <1>a
<1> QED BY <1>1, <1>2, <1>3

\* Reached is kept by every step.
LEMMA ReachedStep ==
  ASSUME DInv, HolderAgrees', [Next]_vars
  PROVE  Reached'
<1>i. /\ TypeOK /\ HolderAgrees /\ ScopeKnown /\ PlanKnown /\ OwnTrash /\ Reached
      /\ act \in Act /\ row \in [Op -> Row] /\ file \in [Path -> Val]
  BY DEF DInv, IInv, TypeOK
<1>h. act.pc \notin {"idle", "recover", "scavenge"} => act.op \in Op
  BY <1>i, InHand
<1> SUFFICES ASSUME NEW p \in Path, NEW o \in Op, act'.op = o, Busy', p \in Touches(o),
                    Settled(p)'
             PROVE  Brought(o, p)'
  <2>1. Busy' => act'.op \in Op
    BY DEF HolderAgrees, Busy
  <2> QED BY <2>1 DEF Reached, Touches
<1>s. Settled(p)
  BY <1>i, SettledBack
<1>1. CASE InHandFile(p)
  <2>1. PICK x \in Op : x = act.op
    BY <1>1, <1>i DEF InHandFile, HolderAgrees, Busy
  <2>2. p \in Touches(x)
    BY <2>1, <1>1 DEF InHandFile
  <2>3. Kept(x, p)
    BY <2>1, <2>2, <1>1, HandStep
  <2> QED BY <2>3 DEF Kept
<1>2. CASE ~InHandFile(p)
  <2>q. file'[p] = file[p]
    BY <1>2, Quiet
  <2>n. ASSUME act'.pc \notin {"persist", "verify", "scan", "trash", "publish", "commit",
                               "store", "mark", "unpublish", "untrash", "settle"}
        PROVE  Brought(o, p)'
    BY <2>n DEF Brought, At
  <2>1. ASSUME CarriesOn PROVE Brought(o, p)'
    <3>1. /\ act'.op = act.op /\ act'.mode = act.mode
          /\ act.pc \in {"verify", "scan", "trash", "publish", "check", "commit", "store",
                         "unpublish", "untrash"}
      BY <2>1, <1>i, Carries DEF Busy, Idle
    <3> QED BY <3>1, <1>2 DEF InHandFile, Busy
  <2>2. ASSUME StageTemps PROVE Brought(o, p)'
    <3>1. act'.pc = "persist" /\ act'.op = act.op /\ act.op \in Op
      BY <2>2, <1>i, <1>h DEF StageTemps, Act, At
    <3>2. row'[o].pre = file
      BY <2>2, <3>1, <1>i DEF StageTemps, Row
    <3> QED BY <3>1, <3>2, <2>q DEF Brought, Before, At
  <2>3. ASSUME PersistPlan PROVE Brought(o, p)'
    <3>1. act'.pc = "verify" /\ act'.op = act.op /\ At("persist") /\ act.op \in Op
      BY <2>3, <1>i, <1>h DEF PersistPlan, Act, At
    <3>2. row'[o].pre = row[o].pre
      BY <2>3, <3>1, <1>i DEF PersistPlan, Row
    <3>3. Busy
      BY <3>1, <1>i DEF HolderAgrees, At, Busy
    <3>4. Before(o, p)
      BY <3>1, <3>3, <1>s, <1>i DEF Reached, Brought
    <3> QED BY <3>1, <3>2, <3>4, <2>q DEF Brought, Before, At
  <2>4. ASSUME NEW x \in Op, RecoverReplay(x) PROVE Brought(o, p)'
    <3>1. act'.pc = "scan" /\ act'.mode = "recover"
      BY <2>4, <1>i DEF RecoverReplay, Act
    <3> QED BY <3>1 DEF Brought, At
  <2>5. ASSUME UNCHANGED act PROVE Brought(o, p)'
    <3>1. CASE ~At("persist")
      <4>1. act.pc \in {"start", "prepare", "clean", "finish"}
        BY <2>5, <3>1, <1>2 DEF InHandFile, Busy, At
      <4> QED BY <4>1, <2>5, <2>n
    <3>2. CASE At("persist")
      <4>1. Before(o, p)
        BY <2>5, <3>2, <1>s, <1>i DEF Reached, Brought, Busy
      <4>2. row'[o].pre = row[o].pre
        BY <3>2, <1>i, Fates DEF Fate, At
      <4> QED BY <3>2, <4>1, <4>2, <2>5, <2>q DEF Brought, Before, At
    <3> QED BY <3>1, <3>2
  <2>6. ASSUME NEW q \in Project, NEW x \in Op, Rollback(q, x) PROVE FALSE
    <3>1. act'.mode = "operator"
      BY <2>6 DEF Rollback, Idle
    <3> QED BY <3>1 DEF Busy
  <2>7. ASSUME JournalStart \/ Clean \/ act'.pc \in {"start", "clean"} PROVE Brought(o, p)'
    <3>1. act'.pc \in {"prepare", "finish", "start", "clean"}
      BY <2>7, <1>i DEF JournalStart, Clean, Act
    <3> QED BY <3>1, <2>n
  <2>8. act'.mode # "none"
    BY DEF Busy
  <2>9. \/ CarriesOn
        \/ JournalStart \/ StageTemps \/ PersistPlan \/ Clean
        \/ \E x \in Op : RecoverReplay(x)
        \/ \E q \in Project, x \in Op : Rollback(q, x)
        \/ act'.pc \in {"start", "clean"}
        \/ UNCHANGED act
    BY <1>i, <2>8, Kinds DEF PlanOp, UserEdit, vars
  <2> QED BY <2>1, <2>2, <2>3, <2>4, <2>5, <2>6, <2>7, <2>9
<1> QED BY <1>1, <1>2

-----------------------------------------------------------------------------
(* What the user wrote.                                                    *)

\* EditsExpected is kept by every step.
LEMMA ExpectedStep ==
  ASSUME DInv, HolderAgrees', [Next]_vars
  PROVE  EditsExpected'
<1>i. /\ TypeOK /\ HolderAgrees /\ ScopeKnown /\ PlanKnown /\ TodoKnown /\ EditsExpected
      /\ act \in Act /\ row \in [Op -> Row] /\ file \in [Path -> Val]
      /\ edited \in [Path -> {"never", "idle", "racing"}]
  BY DEF DInv, IInv, TypeOK
<1>h. act.pc \notin {"idle", "recover", "scavenge"} => act.op \in Op
  BY <1>i, InHand
<1> DEFINE G(o, p) ==
       /\ act'.mode = "transact" /\ act'.pc \in {"scan", "trash", "publish"} =>
            file'[p] = row'[o].want[p]
       /\ act'.mode = "recover" /\ act'.pc \in {"scan", "trash", "publish"}
             /\ p \in Publishes[o] => file'[p] = row'[o].want[p]
       /\ act'.mode = "recover" /\ act'.pc = "trash" /\ p \in act'.todo =>
            \/ file'[p] = row'[o].want[p]
            \/ p \in Deletes[o] /\ file'[p] = row'[o].pre[p]
<1> SUFFICES ASSUME NEW p \in Path, NEW o \in Op, act'.op = o, Busy', p \in Guarded[o],
                    edited'[p] = "idle", file'[p] \in User
             PROVE  G(o, p)
  <2>1. Busy' => act'.op \in Op
    BY DEF HolderAgrees, Busy
  <2> QED BY <2>1 DEF EditsExpected, Expected, At
<1>0. ASSUME act'.pc \notin {"scan", "trash", "publish"} PROVE G(o, p)
  BY <1>0
<1>u. file'[p] # Absent /\ \A x \in Op : file'[p] # x
  BY Distinct
\* the step before, with the same bytes
<1>g. ASSUME act.op = o, Busy, edited[p] = "idle", file[p] = file'[p]
      PROVE  /\ act.mode = "transact" /\ act.pc \in {"scan", "trash", "publish"} =>
                  file[p] = row[o].want[p]
             /\ act.mode = "recover" /\ act.pc \in {"scan", "trash", "publish"}
                  /\ p \in Publishes[o] => file[p] = row[o].want[p]
             /\ act.mode = "recover" /\ act.pc = "trash" /\ p \in act.todo =>
                  \/ file[p] = row[o].want[p]
                  \/ p \in Deletes[o] /\ file[p] = row[o].pre[p]
  BY <1>g, <1>i DEF EditsExpected, Expected, At
<1>b. ASSUME act.pc \in {"verify", "scan", "trash", "publish"} PROVE Busy /\ act.op \in Op
  BY <1>b, <1>i, AtTrash
<1>1. ASSUME VerifyUnchanged PROVE G(o, p)
  <2>1. /\ act.op = o /\ Unchanged(act.op) /\ UNCHANGED file /\ act'.pc = "scan"
        /\ act'.mode = act.mode /\ At("verify")
        /\ SetRow(act.op, "pending", "verify_unchanged")
    BY <1>1, <1>i DEF VerifyUnchanged, Act
  <2>2. row'[o].want = row[o].want /\ act.mode = "transact"
    <3>1. act.mode = "transact"
      BY <2>1, <1>i DEF HolderAgrees, At
    <3>2. SetRow(o, "pending", "verify_unchanged")
      BY <2>1
    <3> QED BY <3>1, <3>2, <1>i, SetRowFrame
  <2> QED BY <2>1, <2>2 DEF Unchanged
<1>2. ASSUME NEW S, DeleteFailed(S) PROVE G(o, p)
  <2>1. act' # Idle
    BY DEF Busy, Idle
  <2>2. act'.pc = "unpublish"
    BY <1>2, <2>1, <1>i DEF DeleteFailed, Act
  <2> QED BY <2>2, <1>0
<1>3. ASSUME ScanDeletes, ~Blocked(act.op) PROVE G(o, p)
  <2>1. /\ act.op = o /\ act.pc = "scan" /\ act'.pc = "trash" /\ act'.mode = act.mode
        /\ act'.todo = {x \in Deletes[o] : file[x] # Absent}
        /\ UNCHANGED <<file, edited, row>>
    BY <1>3, <1>i DEF ScanDeletes, Act, At
  <2>2. p \in act'.todo => p \in Deletes[o] /\ file[p] = row[o].pre[p]
    BY <2>1, <1>3 DEF Blocked
  <2> QED BY <2>1, <2>2, <1>b, <1>g
<1>4. ASSUME NEW x \in Path, TrashOne(x) PROVE G(o, p)
  <2>1. /\ act.op = o /\ act.pc = "trash" /\ act'.pc = "trash" /\ act'.mode = act.mode
        /\ act'.todo \subseteq act.todo /\ file' = [file EXCEPT ![x] = Absent]
        /\ UNCHANGED <<edited, row>>
    BY <1>4, <1>i DEF TrashOne, Act, At
  <2>2. file'[p] = file[p]
    BY <2>1, <1>u, <1>i
  <2> QED BY <2>1, <2>2, <1>b, <1>g
<1>5. ASSUME AfterTrash PROVE G(o, p)
  <2>1. /\ act.op = o /\ act.pc = "trash" /\ act'.pc = "publish" /\ act'.mode = act.mode
        /\ UNCHANGED <<file, edited>>
    BY <1>5, <1>i DEF AfterTrash, Act, At
  <2>2. row'[o].want = row[o].want
    BY <1>5, <2>1, <1>i DEF AfterTrash, Row
  <2> QED BY <2>1, <2>2, <1>b, <1>g
<1>6. ASSUME NEW x \in Path, PublishOne(x) PROVE G(o, p)
  <2>1. /\ act.op = o /\ act.pc = "publish" /\ act'.pc = "publish" /\ act'.mode = act.mode
        /\ file' = file \/ file' = [file EXCEPT ![x] = o]
        /\ UNCHANGED <<edited, row>>
    BY <1>6, <1>i DEF PublishOne, Act, At
  <2>2. file'[p] = file[p]
    BY <2>1, <1>u, <1>i
  <2> QED BY <2>1, <2>2, <1>b, <1>g
<1>7. ASSUME AfterDests \/ CheckDests \/ CommitFails PROVE G(o, p)
  <2>1. ASSUME NEW v, Compensate(v) PROVE act'.pc \in {"untrash", "unpublish"}
    BY <2>1, <1>i DEF Compensate, Act
  <2>2. ASSUME NEW l \in {"check", "commit"}, act' = [act EXCEPT !.pc = l]
        PROVE  act'.pc = l
    BY <2>2, <1>i DEF Act
  <2>3. \/ \E v : Compensate(v)
        \/ \E l \in {"check", "commit"} : act' = [act EXCEPT !.pc = l]
    BY <1>7 DEF AfterDests, CheckDests, CommitFails
  <2> QED BY <2>1, <2>2, <2>3, <1>0
<1>8. ASSUME CommitRegistry \/ StoreDeletes \/ UnpublishDone \/ Untrash PROVE G(o, p)
  <2>1. act'.pc \in {"mark", "store", "settle", "untrash", "unpublish"}
    BY <1>8, <1>i DEF CommitRegistry, StoreDeletes, UnpublishDone, Untrash, Act
  <2> QED BY <2>1, <1>0
<1>9. ASSUME NEW x \in Path, UnpublishOne(x) PROVE G(o, p)
  <2>1. act'.pc = "unpublish"
    BY <1>9, <1>i DEF UnpublishOne, Act, At
  <2> QED BY <2>1, <1>0
<1>10. ASSUME NEW x \in Op, RecoverReplay(x) PROVE G(o, p)
  <2>1. /\ act'.pc = "scan" /\ act'.mode = "recover" /\ x = o /\ SourcesOk(o)
        /\ UNCHANGED <<file, row>>
    BY <1>10, <1>i DEF RecoverReplay, Act
  <2>2. ASSUME p \in Publishes[o] PROVE file[p] = row[o].want[p]
    <3>1. ~AlreadyPublished(o)
      BY <2>1, <2>2, <1>u DEF AlreadyPublished
    <3>2. ~TrashedMatches(o, p)
      BY <2>2, Plans DEF TrashedMatches
    <3> QED BY <3>1, <3>2, <2>1 DEF SourcesOk
  <2> QED BY <2>1, <2>2
<1>11. ASSUME UNCHANGED <<act, file, edited>>, \A x \in Op : row'[x].want = row[x].want
                                                            \/ row[x].status = "unborn",
              \A x \in Op : row'[x].pre = row[x].pre
       PROVE  G(o, p)
  <2>1. act.pc \in {"scan", "trash", "publish"} => row[o].status # "unborn"
    BY <1>11, <1>i, AtTrash
  <2> QED BY <2>1, <1>11, <1>b, <1>g
<1>12. ASSUME NEW x \in Path, NEW u \in User, UserEdit(x, u) PROVE G(o, p)
  <2>1. UNCHANGED <<act, row>> /\ \E v : file' = [file EXCEPT ![x] = v]
    BY <1>12 DEF UserEdit
  <2>2. act.by # Nobody
    BY <2>1, <1>i DEF HolderAgrees, Busy, Idle
  <2>3. edited' = [edited EXCEPT ![x] = "racing"]
    BY <1>12, <2>2 DEF UserEdit
  <2>4. x # p /\ edited[p] = "idle"
    BY <2>3, <1>i
  <2>5. file'[p] = file[p]
    BY <2>1, <2>4, <1>i
  <2> QED BY <2>1, <2>4, <2>5, <1>b, <1>g
<1>13. ASSUME NEW q \in Project, NEW x \in Op, Rollback(q, x) PROVE G(o, p)
  <2>1. act'.pc = "unpublish"
    BY <1>13 DEF Rollback, Idle
  <2> QED BY <2>1, <1>0
<1>14. ASSUME JournalStart \/ StageTemps \/ PersistPlan \/ Clean
              \/ act'.pc \in {"start", "clean"}
       PROVE  G(o, p)
  <2>1. act'.pc \in {"prepare", "persist", "verify", "finish", "start", "clean"}
    BY <1>14, <1>i DEF JournalStart, StageTemps, PersistPlan, Clean, Act
  <2> QED BY <2>1, <1>0
<1>15. ASSUME NEW x \in Op, PlanOp(x) PROVE G(o, p)
  <2>1. /\ UNCHANGED <<act, file, edited>> /\ row[x].status = "unborn"
        /\ \A y \in Op \ {x} : row'[y] = row[y]
        /\ row'[x].pre = row[x].pre
    BY <1>15, <1>i DEF PlanOp, Row
  <2> QED BY <2>1, <1>11
<1>16. ASSUME UNCHANGED vars PROVE G(o, p)
  BY <1>16, <1>11 DEF vars
<1>17. act'.mode # "none"
  BY DEF Busy
<1> HIDE DEF G
<1> QED
  BY <1>1, <1>2, <1>3, <1>4, <1>5, <1>6, <1>7, <1>8, <1>9, <1>10, <1>12, <1>13,
     <1>14, <1>15, <1>16, <1>17, <1>i, Kinds DEF CarriesOn, ScanDeletes, TrashFails

-----------------------------------------------------------------------------
(* The invariant and what follows from it.                                 *)

\* DInv holds at the start.
LEMMA DiskStarts == Init => DInv
<1> SUFFICES ASSUME Init PROVE DInv
  OBVIOUS
<1>1. IInv
  BY Starts
<1>2. /\ act = Idle /\ committed = {} /\ operated = {}
      /\ \A o \in Op : row[o].status = "unborn" /\ ~row[o].stored
      /\ \A o \in Op, p \in Path : trash[o][p] = Absent
      /\ \A p \in Path : reg[p] = file[p]
  BY DEF Init, NewRow, Cell
<1>3. act.mode = "none" /\ act.pc = "idle" /\ act.then = "stop" /\ ~Busy
  BY <1>2 DEF Idle, Busy
<1>4. ScopeKnown /\ PlanKnown /\ TodoKnown /\ TrashKnown
  BY <1>3 DEF ScopeKnown, PlanKnown, TodoKnown, TrashKnown, At
<1>5. OwnTrash /\ Alone
  BY <1>2 DEF OwnTrash, Alone
<1>6. FilesAgree /\ Reached /\ EditsExpected
  BY <1>2, <1>3 DEF FilesAgree, Reached, EditsExpected, Begun
<1> QED BY <1>1, <1>4, <1>5, <1>6 DEF DInv

\* Every step keeps DInv.
LEMMA DiskStep ==
  ASSUME DInv, [Next]_vars
  PROVE  DInv'
<1>1. IInv /\ TypeOK /\ HolderAgrees /\ NoPlanYet /\ ScopeKnown /\ PlanKnown /\ TodoKnown
      /\ TrashKnown /\ OwnTrash /\ Alone
  BY DEF DInv, IInv
<1>2. IInv'
  BY <1>1, TypeStep, HolderStep, JournalStep DEF IInv
<1>3. HolderAgrees'
  BY <1>2 DEF IInv
<1>4. ScopeKnown' /\ PlanKnown' /\ TodoKnown'
  BY <1>1, <1>3, ScopeStep, PlanStep, TodoStep
<1>5. TrashKnown' /\ OwnTrash' /\ Alone'
  BY <1>1, <1>3, TrashKnownStep, OwnTrashStep, AloneStep
<1>6. FilesAgree' /\ Reached' /\ EditsExpected'
  BY <1>3, FilesStep, ReachedStep, ExpectedStep
<1> QED BY <1>2, <1>4, <1>5, <1>6 DEF DInv

\* The files, the trash and the lock holder's knowledge of them: DInv is inductive.
THEOREM DiskInductive == Spec => []DInv
<1>1. DInv /\ [Next]_vars => DInv'
  BY DiskStep
<1> QED BY <1>1, DiskStarts, PTL DEF Spec

\* Whatever crashes and whoever recovers, a file that one project's operations write
\* agrees with the registry whenever no operation on it is unfinished, in conflict
\* or failed after its COMMIT (transact, recover_pending, ADR 010).
THEOREM DiskAgrees == Spec => []DiskMatchesRegistry
<1>1. DInv => DiskMatchesRegistry
  <2> SUFFICES ASSUME DInv, NEW p \in Path, Calm(p),
                      \A o \in Op : p \in Touches(o) => AtRest(o)
               PROVE  file[p] = reg[p]
    BY DEF DiskMatchesRegistry
  <2>1. \A o \in Op : p \in Touches(o) => ~Stuck(o) /\ ~Begun(o)
    BY DEF AtRest, Stuck, Begun
  <2> QED BY <2>1 DEF DInv, FilesAgree, Settled
<1> QED BY <1>1, DiskInductive, PTL

\* One step of the lock holder, of recovery or of a scavenge loses no trash before
\* its operation is over.
LEMMA TrashStep ==
  ASSUME DInv, [Next]_vars, NEW o \in Op, NEW p \in Path,
         trash[o][p] # Absent, trash'[o][p] = Absent
  PROVE  \/ file'[p] = trash[o][p]
         \/ row[o].status \in {"cleanup_pending", "abandoned"}
<1>i. /\ TypeOK /\ HolderAgrees /\ NoPlanYet /\ OwnTrash /\ act \in Act
      /\ row \in [Op -> Row] /\ trash \in [Op -> [Path -> Val]]
  BY DEF DInv, IInv, TypeOK
<1>h. act.pc \notin {"idle", "recover", "scavenge"} => act.op \in Op
  BY <1>i, InHand
<1>1. ASSUME NEW x \in Op, NEW S, RestoreTrash(x, S) PROVE file'[p] = trash[o][p]
  BY <1>1, <1>i, RestoreEffect
<1>2. CASE TrashFails \/ Untrash \/ \E x \in Op : RecoverConflict(x)
  <2>1. \E x \in Op : RestoreTrash(x, act.renamed) \/ RestoreTrash(x, act.live)
                        \/ RestoreTrash(x, row[x].moved)
    BY <1>2, <1>h DEF TrashFails, Untrash, RecoverConflict, At
  <2> QED BY <2>1, <1>1
<1>3. CASE Clean
  <2>1. o = act.op
    BY <1>3, <1>i DEF Clean
  <2> QED BY <1>3, <2>1, <1>i DEF Clean, HolderAgrees, At, Act, Mode
<1>4. CASE Scavenge
  <2>1. ~Held(o)
    BY <1>4, <1>i DEF Scavenge
  <2>2. /\ row[o].status \in Status /\ row[o].status # "complete"
        /\ row[o].stored \/ row[o].status = "abandoned"
    BY <1>i DEF OwnTrash, Row
  <2>3. row[o].status \notin {"unborn", "planned"}
    BY <2>2, <1>i DEF NoPlanYet
  <2> QED BY <2>1, <2>2, <2>3 DEF Held, Status, HoldFs
<1>5. ASSUME NEW x \in Path, TrashOne(x) PROVE FALSE
  <2>1. trash' = [trash EXCEPT ![act.op][x] = file[x]] /\ file[x] # Absent
    BY <1>5 DEF TrashOne
  <2> QED BY <2>1, <1>i
<1>6. CASE \/ UNCHANGED trash \/ CommitRegistry
           \/ \E x \in Path : PublishOne(x) \/ UnpublishOne(x) \/ CrashAfterLink(x)
           \/ \E x \in Path, u \in User : UserEdit(x, u)
  BY <1>6 DEF CommitRegistry, PublishOne, UnpublishOne, CrashAfterLink, UserEdit
<1> QED BY <1>2, <1>3, <1>4, <1>5, <1>6, DiskSteps

\* Bytes renamed to trash go back to their path or wait for the COMMIT, whatever
\* crashes, conflicts and scavenges come in between.
THEOREM TrashSafe == Spec => TrashKept
<1>1. DInv /\ [Next]_vars =>
        \A o \in Op, p \in Path :
           trash[o][p] # Absent /\ trash'[o][p] = Absent =>
             \/ file'[p] = trash[o][p]
             \/ row[o].status \in {"cleanup_pending", "abandoned"}
  BY TrashStep
<1> QED BY <1>1, DiskInductive, PTL DEF Spec, TrashKept

\* One step of a command takes no bytes of the user's that its operation did not
\* expect.
LEMMA SurvivalStep ==
  ASSUME DInv, [Next]_vars, NEW p \in Path, file[p] \in User, edited[p] = "idle",
         spent' = spent, AlwaysGuarded(p), file'[p] # file[p]
  PROVE  <<p, file[p]>> \in quarantine' \/ file[p] \in Expected(p)
<1>i. /\ TypeOK /\ HolderAgrees /\ PlanKnown /\ TodoKnown /\ OwnTrash /\ EditsExpected
      /\ act \in Act /\ row \in [Op -> Row] /\ file \in [Path -> Val]
  BY DEF DInv, IInv, TypeOK
<1>h. act.pc \notin {"idle", "recover", "scavenge"} => act.op \in Op
  BY <1>i, InHand
<1>u. file[p] # Absent /\ \A x \in Op : file[p] # x
  BY Distinct
<1>1. ASSUME NEW x \in Op, NEW S, RestoreTrash(x, S) PROVE <<p, file[p]>> \in quarantine'
  BY <1>1, <1>i, <1>u, RestoreSpares
<1>2. CASE TrashFails \/ Untrash \/ \E x \in Op : RecoverConflict(x)
  <2>1. \E x \in Op : RestoreTrash(x, act.renamed) \/ RestoreTrash(x, act.live)
                        \/ RestoreTrash(x, row[x].moved)
    BY <1>2, <1>h DEF TrashFails, Untrash, RecoverConflict, At
  <2> QED BY <2>1, <1>1
\* the lock holder takes the bytes
<1>3. ASSUME act.pc \in {"trash", "publish"}, p \in act.todo PROVE file[p] \in Expected(p)
  <2>1. Busy /\ act.op \in Op /\ act.mode \in {"transact", "recover"}
    BY <1>3, <1>i, AtTrash DEF Busy
  <2>2. /\ At("trash") => p \in Deletes[act.op]
        /\ At("publish") => p \in Publishes[act.op]
    BY <1>3, <1>i DEF TodoKnown, At
  <2>3. p \in Guarded[act.op]
    BY <1>3, <2>1, <2>2 DEF AlwaysGuarded, Touches, At
  <2> QED BY <1>3, <2>1, <2>2, <2>3, <1>i DEF EditsExpected, Expected, At
<1>4. ASSUME NEW x \in Path, TrashOne(x) \/ PublishOne(x)
      PROVE  file[p] \in Expected(p)
  <2>1. /\ act.pc \in {"trash", "publish"} /\ x \in act.todo
        /\ file' = file \/ \E v : file' = [file EXCEPT ![x] = v]
    BY <1>4 DEF TrashOne, PublishOne, At
  <2>2. x = p
    BY <2>1, <1>i
  <2> QED BY <2>1, <2>2, <1>3
<1>5. ASSUME NEW x \in Path, CrashAfterLink(x) PROVE FALSE
  <2>1. file[x] = Absent /\ file' = [file EXCEPT ![x] = act.op]
    BY <1>5 DEF CrashAfterLink
  <2> QED BY <2>1, <1>u, <1>i
<1>6. ASSUME NEW x \in Path, UnpublishOne(x) PROVE <<p, file[p]>> \in quarantine'
  <2>1. /\ act.op \in Op /\ file' = [file EXCEPT ![x] = row[act.op].pre[x]]
        /\ quarantine' = IF file[x] \in {Absent, act.op, row[act.op].pre[x]} THEN quarantine
                         ELSE quarantine \cup {<<x, file[x]>>}
    BY <1>6, <1>h DEF UnpublishOne, At
  <2>2. x = p /\ file[p] # row[act.op].pre[p]
    BY <2>1, <1>i
  <2> QED BY <2>1, <2>2, <1>u
<1>7. ASSUME NEW x \in Path, NEW u \in User, UserEdit(x, u) PROVE FALSE
  BY <1>7 DEF UserEdit
<1>8. CASE UNCHANGED <<file, trash, reg>> \/ CommitRegistry \/ Clean \/ Scavenge
  BY <1>8 DEF CommitRegistry, Clean, Scavenge
<1> QED BY <1>2, <1>4, <1>5, <1>6, <1>7, <1>8, DiskSteps

\* What the user wrote with no command running is taken by an operation only if it
\* expected those bytes, and is moved aside otherwise, in transact, in a replay by
\* any later session and in every undo.
THEOREM UserBytesSafe == Spec => IdleEditsSurvive
<1>1. DInv /\ [Next]_vars =>
        \A p \in Path :
           /\ file[p] \in User
           /\ edited[p] = "idle" /\ spent' = spent
           /\ AlwaysGuarded(p)
           /\ file'[p] # file[p]
           => <<p, file[p]>> \in quarantine' \/ file[p] \in Expected(p)
  BY SurvivalStep
<1> QED BY <1>1, DiskInductive, PTL DEF Spec, IdleEditsSurvive

=============================================================================
