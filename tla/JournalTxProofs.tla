---------------------------- MODULE JournalTxProofs ----------------------------
(***************************************************************************)
(* For every set of operations, projects and files, and any number of      *)
(* crashes: the journal is well typed, a row says complete only after its  *)
(* COMMIT, and the preimages of a row that may be undone are on disk.      *)
(* And the engine implements AtomicTx.                                     *)
(*                                                                         *)
(* None of the invariants is inductive alone.  HolderAgrees ties the lock  *)
(* holder's program counter to the row it works on, which the type of act  *)
(* needs already (a recovery pass adds act.op to the rows it has seen), and *)
(* NoPlanYet says that a row gets its plan only inside transact.           *)
(***************************************************************************)
EXTENDS JournalTx, TLAPS

USE DEF disk, history

NoPlanYet == \A o \in Op : row[o].status \in {"unborn", "planned"} => ~row[o].stored

IInv == /\ TypeOK
        /\ HolderAgrees
        /\ NoPlanYet
        /\ CompleteMeansCommitted
        /\ PreimagesHeld

-----------------------------------------------------------------------------
(* Names and single updates.                                               *)

\* The statuses and the steps the journal writes are in their types.
LEMMA Names ==
    /\ {"unborn", "planned", "pending", "failed", "conflicted",
        "cleanup_pending", "complete", "abandoned"} \subseteq Status
    /\ {"journal_start", "prepare_temps", "verify_unchanged", "after_trash",
        "after_dests", "publish", "cleanup_pending", "journal_complete",
        "failed", "conflicted", "abandoned"} \subseteq Step
  BY DEF Status, HoldFs, Step, PublishedSteps

\* So are the lock holder's program counter and mode.
LEMMA Labels ==
    /\ {"idle", "recover", "start", "prepare", "persist", "verify", "scan",
        "trash", "publish", "check", "commit", "store", "mark", "clean",
        "finish", "unpublish", "untrash", "settle", "scavenge"} \subseteq Label
    /\ {"none", "transact", "recover", "operator"} \subseteq Mode
  BY DEF Label, Mode

\* No lock holder at all is well typed.
LEMMA IdleTyped == Idle \in Act
  BY DEF Idle, Act, Label, Mode

\* Being through with an operation keeps the lock holder well typed.
LEMMA ThroughTyped ==
  ASSUME act \in Act, act.op \in Op
  PROVE  Through \in Act
<1>1. CASE act.mode = "recover"
  BY <1>1 DEF Through, Act, Label, Mode, Idle
<1>2. CASE act.mode # "recover"
  BY <1>2, IdleTyped DEF Through
<1> QED BY <1>1, <1>2

\* journal_step keeps the journal well typed.
LEMMA SetRowTyped ==
  ASSUME row \in [Op -> Row], NEW o \in Op, NEW st \in Status, NEW s \in Step,
         SetRow(o, st, s)
  PROVE  row' \in [Op -> Row]
  BY DEF SetRow, Row

\* journal_step writes the status of one row and no plan.
LEMMA SetRowEffect ==
  ASSUME row \in [Op -> Row], NEW o \in Op, NEW st, NEW s, SetRow(o, st, s)
  PROVE  /\ row'[o].status = st
         /\ row'[o].stored = row[o].stored
         /\ \A x \in Op \ {o} : row'[x] = row[x]
  BY DEF SetRow, Row

\* Turning to compensation keeps the lock holder well typed.
LEMMA CompensateTyped ==
  ASSUME act \in Act, act.op \in Op, NEW v \in {"failed", "conflicted"}, Compensate(v)
  PROVE  act' \in Act
<1>1. Publishes[act.op] \subseteq Path
  BY Shapes
<1>2. (IF act.mode = "transact" THEN "untrash" ELSE "unpublish") \in Label
  BY Labels
<1> QED BY <1>1, <1>2 DEF Compensate, Act

\* A refused delete pass keeps the lock holder and the journal well typed.
LEMMA DeleteFailedTyped ==
  ASSUME act \in Act, row \in [Op -> Row], act.op \in Op, NEW S \in SUBSET Path,
         DeleteFailed(S)
  PROVE  act' \in Act /\ row' \in [Op -> Row]
<1>1. Publishes[act.op] \subseteq Path
  BY Shapes
<1>2. CASE act.mode = "transact"
  BY <1>2, IdleTyped, SetRowTyped, Names DEF DeleteFailed
<1>3. CASE act.mode # "transact"
  <2>1. act' \in Act
    BY <1>1, <1>3, Labels DEF DeleteFailed, Act
  <2> QED BY <1>3, <2>1 DEF DeleteFailed
<1> QED BY <1>2, <1>3

\* The lock holder works on an operation wherever it is not between two rows.
LEMMA InHand ==
  ASSUME act \in Act, HolderAgrees
  PROVE  /\ act.pc \notin {"idle", "recover", "scavenge"} => act.op \in Op
         /\ act.pc # "idle" => act.by # Nobody
  BY DEF HolderAgrees, Act, Idle

-----------------------------------------------------------------------------
(* Types.                                                                  *)

\* The journal rows keep their type.
LEMMA RowTyped ==
  ASSUME TypeOK, HolderAgrees, [Next]_vars
  PROVE  row' \in [Op -> Row]
<1>t. /\ act \in Act /\ row \in [Op -> Row] /\ file \in [Path -> Val]
      /\ reg \in [Cell -> Val]
  BY DEF TypeOK
<1>h. act.pc \notin {"idle", "recover", "scavenge"} => act.op \in Op
  BY <1>t, InHand
<1>1. ASSUME NEW o \in Op, PlanOp(o) PROVE row' \in [Op -> Row]
  <2> DEFINE w == [x \in Cell |-> IF x \in Path THEN file[x] ELSE reg[x]]
  <2>1. w \in [Cell -> Val]
    BY <1>t DEF Cell
  <2>2. row' = [row EXCEPT ![o] = [row[o] EXCEPT !.status = "planned", !.want = w]]
    BY <1>1, <1>t DEF PlanOp
  <2> HIDE DEF w
  <2>3. [row[o] EXCEPT !.status = "planned", !.want = w] \in Row
    BY <2>1, <1>t, Names DEF Row
  <2> QED BY <2>2, <2>3, <1>t
<1>2. ASSUME NEW q \in Project, NEW o \in Op, Retry(q, o) PROVE row' \in [Op -> Row]
  <2>1. [row EXCEPT ![o].status = "pending"] \in [Op -> Row]
    BY <1>t, Names DEF Row
  <2> QED BY <1>2, <2>1, <1>t DEF Retry
<1>3. ASSUME NEW S \in SUBSET Op, Compact(S) PROVE row' \in [Op -> Row]
  <2>1. \A o \in Op : [row[o] EXCEPT !.stored = FALSE, !.moved = {}] \in Row
    BY <1>t DEF Row
  <2> QED BY <2>1, <1>3, <1>t DEF Compact
<1>4. CASE \/ \E o \in Op : \/ RecoverAbandon(o) \/ RecoverConflict(o)
                            \/ RecoverRefused(o)
           \/ \E q \in Project, o \in Op, f \in BOOLEAN : Abandon(q, o, f)
  <2>1. \A o \in Op : row[o].step \in Step
    BY <1>t DEF Row
  <2> QED BY <1>4, <2>1, <1>t, SetRowTyped, Names
          DEF RecoverAbandon, RecoverConflict, RecoverRefused, Abandon
<1>5. CASE \/ JournalStart \/ VerifyUnchanged \/ SourceChanged \/ MarkCleanup
           \/ PlanRefused
  BY <1>5, <1>h, <1>t, SetRowTyped, Names
     DEF JournalStart, VerifyUnchanged, SourceChanged, MarkCleanup, PlanRefused, At
<1>6. CASE AfterDests \/ CheckDests \/ Finish
  BY <1>6, <1>h, <1>t, SetRowTyped, Names DEF AfterDests, CheckDests, Finish, At
<1>7. CASE Settle
  <2>1. act.verdict \in Status \cap Step
    BY <1>t, Names DEF Act
  <2> QED BY <1>7, <2>1, <1>h, <1>t, SetRowTyped DEF Settle, At
<1>8. CASE ScanDeletes \/ TrashFails
  <2>1. LiveDeletes(act.op) \subseteq Path /\ act.live \subseteq Path
    BY <1>8, <1>h, <1>t, Shapes DEF LiveDeletes, Act, ScanDeletes, TrashFails, At
  <2> QED BY <1>8, <2>1, <1>h, <1>t, DeleteFailedTyped DEF ScanDeletes, TrashFails, At
<1>9. CASE StageTemps
  <2>1. [row[act.op] EXCEPT !.pre = file] \in Row
    BY <1>9, <1>h, <1>t DEF Row, StageTemps, At
  <2> QED BY <1>9, <2>1, <1>h, <1>t DEF StageTemps, At
<1>10. CASE PersistPlan
  <2>0. act.op \in Op
    BY <1>10, <1>h DEF PersistPlan, At
  <2>1. [row[act.op] EXCEPT !.stored = TRUE, !.step = "prepare_temps"] \in Row
    BY <2>0, <1>t, Names DEF Row
  <2>2. row' = [row EXCEPT ![act.op] = [@ EXCEPT !.stored = TRUE,
                                               !.step = "prepare_temps"]]
    BY <1>10, <2>0, <1>t DEF PersistPlan
  <2> QED BY <2>0, <2>1, <2>2, <1>t
<1>11. CASE AfterTrash \/ StoreDeletes
  <2>0. act.op \in Op
    BY <1>11, <1>h DEF AfterTrash, StoreDeletes, At
  <2>1. act.live \subseteq Path
    BY <1>t DEF Act
  <2>2. ASSUME NEW s \in Step
        PROVE  [row[act.op] EXCEPT !.moved = act.live, !.step = s] \in Row
    <3>1. row[act.op] \in Row
      BY <2>0, <1>t
    <3> QED BY <3>1, <2>1 DEF Row
  <2>3. PICK s \in Step :
           \/ UNCHANGED row
           \/ row' = [row EXCEPT ![act.op] = [@ EXCEPT !.moved = act.live, !.step = s]]
    BY <1>11, <2>0, <1>t, Names DEF AfterTrash, StoreDeletes
  <2> QED BY <2>0, <2>2, <2>3, <1>t
<1>12. CASE Untrash
  <2>0. act.op \in Op
    BY <1>12, <1>h DEF Untrash, At
  <2>1. [row[act.op] EXCEPT !.mutated = TRUE] \in Row
    BY <2>0, <1>t DEF Row
  <2>2. \/ UNCHANGED row
        \/ row' = [row EXCEPT ![act.op] = [@ EXCEPT !.mutated = TRUE]]
    BY <1>12, <2>0, <1>t DEF Untrash
  <2> QED BY <2>0, <2>1, <2>2, <1>t
<1>90. CASE \/ \E o \in Op : Transact(o) \/ RecoverCleanup(o) \/ RecoverReplay(o)
            \/ \E q \in Project : RecoverCommand(q) \/ CleanupCommand(q)
            \/ \E q \in Project, o \in Op : Rollback(q, o)
            \/ \E p \in Path : \/ TrashOne(p) \/ PublishOne(p) \/ UnpublishOne(p)
                               \/ UnpublishRefused(p) \/ CrashAfterLink(p)
            \/ \E p \in Path, u \in User : UserEdit(p, u)
            \/ RecoverDone \/ CommitRegistry \/ Clean \/ UnpublishDone \/ Scavenge
            \/ MutateRefuses \/ CommitFails \/ Crash \/ UNCHANGED vars
  BY <1>90, <1>t
     DEF Transact, RecoverCleanup, RecoverReplay, RecoverCommand, CleanupCommand,
         Rollback, TrashOne, PublishOne, UnpublishOne, UnpublishRefused,
         CrashAfterLink, UserEdit, RecoverDone, CommitRegistry, Clean,
         UnpublishDone, Scavenge, MutateRefuses, CommitFails, Crash, vars
<1> QED
  BY <1>1, <1>2, <1>3, <1>4, <1>5, <1>6, <1>7, <1>8, <1>9, <1>10, <1>11, <1>12, <1>90
     DEF Next, Work, Command, Fault, Recovering, Transacting, Applying, Undoing

\* The lock holder keeps its type.
LEMMA ActTyped ==
  ASSUME TypeOK, HolderAgrees, [Next]_vars
  PROVE  act' \in Act
<1>t. /\ act \in Act /\ row \in [Op -> Row] /\ file \in [Path -> Val]
  BY DEF TypeOK
<1>h. act.pc \notin {"idle", "recover", "scavenge"} => act.op \in Op
  BY <1>t, InHand
<1>p. \A o \in Op : Publishes[o] \subseteq Path /\ Deletes[o] \subseteq Path
  BY Shapes
<1>1. CASE \/ \E o \in Op : Transact(o)
           \/ \E q \in Project : RecoverCommand(q) \/ CleanupCommand(q)
           \/ \E q \in Project, o \in Op : Retry(q, o)
  <2>1. PICK q \in Project, t \in {"stop", "start", "scavenge"},
             j \in Op \cup {Nobody}, S \in SUBSET Op : Lock(q, t, j, S)
    BY <1>1, Shapes DEF Transact, RecoverCommand, CleanupCommand, Retry
  <2> QED BY <2>1, IdleTyped, Labels DEF Lock, Act
<1>2. ASSUME NEW q \in Project, NEW o \in Op, Rollback(q, o) PROVE act' \in Act
  <2>1. row[o].moved \subseteq Path
    BY <1>t DEF Row
  <2> QED BY <2>1, <1>2, <1>p, Labels DEF Rollback, Idle, Act
<1>3. ASSUME NEW q \in Project, NEW o \in Op, NEW f \in BOOLEAN, Abandon(q, o, f)
      PROVE  act' \in Act
  BY <1>3, IdleTyped, Labels DEF Abandon, Act
<1>4. CASE \E o \in Op : \/ RecoverCleanup(o) \/ RecoverReplay(o)
                        \/ RecoverAbandon(o) \/ RecoverConflict(o)
                        \/ RecoverRefused(o)
  <2>1. CASE \E o \in Op : Skip(o)
    BY <2>1, <1>t DEF Skip, Act
  <2>2. CASE \E o \in Op, l \in Label :
                act' = [act EXCEPT !.pc = l, !.mode = "recover", !.op = o]
    BY <2>2, <1>t, Labels DEF Act
  <2> QED BY <1>4, <2>1, <2>2, Labels DEF RecoverCleanup, RecoverReplay,
             RecoverAbandon, RecoverConflict, RecoverRefused
<1>5. CASE RecoverDone
  <2>1. act.by \in Project \cup {Nobody} /\ act.job \in Op \cup {Nobody}
    BY <1>t DEF Act
  <2>2. CASE act.then = "start"
    BY <1>5, <2>1, <2>2, Labels DEF RecoverDone, Idle, Act
  <2>3. CASE act.then = "scavenge"
    BY <1>5, <2>1, <2>3, Labels DEF RecoverDone, Idle, Act
  <2>4. CASE act.then \notin {"start", "scavenge"}
    BY <1>5, <2>4, IdleTyped DEF RecoverDone
  <2> QED BY <2>2, <2>3, <2>4
<1>6. CASE \/ JournalStart \/ StageTemps \/ PersistPlan \/ VerifyUnchanged
           \/ StoreDeletes \/ MarkCleanup \/ Clean \/ CommitRegistry
           \/ UnpublishDone \/ Untrash
  <2>1. PICK l \in Label : act' = [act EXCEPT !.pc = l]
    BY <1>6, Labels DEF JournalStart, StageTemps, PersistPlan, VerifyUnchanged,
       StoreDeletes, MarkCleanup, Clean, CommitRegistry, UnpublishDone, Untrash
  <2> QED BY <2>1, <1>t DEF Act
<1>7. CASE AfterDests \/ CheckDests \/ CommitFails
  <2>0. act.op \in Op
    BY <1>7, <1>h DEF AfterDests, CheckDests, CommitFails, At
  <2>1. CASE \E l \in {"check", "commit"} : act' = [act EXCEPT !.pc = l]
    BY <2>1, <1>t, Labels DEF Act
  <2>2. CASE \E v \in {"failed", "conflicted"} : Compensate(v)
    BY <2>2, <2>0, <1>t, CompensateTyped
  <2> QED BY <1>7, <2>1, <2>2 DEF AfterDests, CheckDests, CommitFails
<1>8. CASE ScanDeletes \/ TrashFails
  <2>0. act.op \in Op
    BY <1>8, <1>h DEF ScanDeletes, TrashFails, At
  <2>1. LiveDeletes(act.op) \subseteq Path /\ act.live \subseteq Path
    BY <2>0, <1>t, <1>p DEF LiveDeletes, Act
  <2>2. CASE \E S \in SUBSET Path : DeleteFailed(S)
    BY <2>2, <2>0, <1>t, DeleteFailedTyped
  <2>3. CASE \E L, T \in SUBSET Path :
                act' = [act EXCEPT !.pc = "trash", !.live = L, !.todo = T]
    BY <2>3, <1>t, Labels DEF Act
  <2>4. {p \in Deletes[act.op] : file[p] # Absent} \subseteq Path
    BY <2>0, <1>p
  <2> QED BY <1>8, <2>1, <2>2, <2>3, <2>4 DEF ScanDeletes, TrashFails
<1>9. CASE AfterTrash
  <2>1. Publishes[act.op] \subseteq Path
    BY <1>9, <1>h, <1>p DEF AfterTrash, At
  <2> QED BY <2>1, <1>9, <1>t, Labels DEF AfterTrash, Act
<1>10. CASE \E p \in Path : TrashOne(p) \/ PublishOne(p) \/ UnpublishOne(p)
  <2>1. ASSUME NEW p \in Path, TrashOne(p) PROVE act' \in Act
    BY <2>1, <1>t DEF TrashOne, Act
  <2>2. ASSUME NEW p \in Path, PublishOne(p) PROVE act' \in Act
    BY <2>2, <1>t DEF PublishOne, Act
  <2>3. ASSUME NEW p \in Path, UnpublishOne(p) PROVE act' \in Act
    BY <2>3, <1>t DEF UnpublishOne, Act
  <2> QED BY <1>10, <2>1, <2>2, <2>3
<1>11. CASE Finish \/ Settle
  BY <1>11, <1>h, <1>t, ThroughTyped, Labels DEF Finish, Settle, At, Act
<1>12. CASE \/ PlanRefused \/ SourceChanged \/ Scavenge \/ MutateRefuses \/ Crash
            \/ \E p \in Path : UnpublishRefused(p) \/ CrashAfterLink(p)
  BY <1>12, IdleTyped DEF PlanRefused, SourceChanged, Scavenge, MutateRefuses,
     Crash, UnpublishRefused, CrashAfterLink
<1>90. CASE \/ \E o \in Op : PlanOp(o)
            \/ \E S \in SUBSET Op : Compact(S)
            \/ \E p \in Path, u \in User : UserEdit(p, u)
            \/ UNCHANGED vars
  BY <1>90, <1>t DEF PlanOp, Compact, UserEdit, vars
<1> QED
  BY <1>1, <1>2, <1>3, <1>4, <1>5, <1>6, <1>7, <1>8, <1>9, <1>10, <1>11, <1>12, <1>90
     DEF Next, Work, Command, Fault, Recovering, Transacting, Applying, Undoing

\* The files, temps, trash, blobs and the quarantine keep their types.
LEMMA DiskTyped ==
  ASSUME TypeOK, HolderAgrees, [Next]_vars
  PROVE  /\ file' \in [Path -> Val]
         /\ tmp' \in [Op -> SUBSET Path]
         /\ trash' \in [Op -> [Path -> Val]]
         /\ recovery' \subseteq Op
         /\ quarantine' \subseteq Path \X Val
<1> DEFINE Goal == /\ file' \in [Path -> Val]
                   /\ tmp' \in [Op -> SUBSET Path]
                   /\ trash' \in [Op -> [Path -> Val]]
                   /\ recovery' \subseteq Op
                   /\ quarantine' \subseteq Path \X Val
<1>t. /\ act \in Act /\ row \in [Op -> Row]
      /\ file \in [Path -> Val] /\ tmp \in [Op -> SUBSET Path]
      /\ trash \in [Op -> [Path -> Val]] /\ recovery \subseteq Op
      /\ quarantine \subseteq Path \X Val
  BY DEF TypeOK
<1>h. act.pc \notin {"idle", "recover", "scavenge"} => act.op \in Op
  BY <1>t, InHand
<1>v. /\ Absent \in Val /\ User \subseteq Val /\ Op \subseteq Val
      /\ \A o \in Op : Publishes[o] \subseteq Path /\ Publishes[o] \in SUBSET Path
  BY Shapes DEF Val
<1>1. ASSUME NEW o \in Op, NEW S \in SUBSET Path, RestoreTrash(o, S), UNCHANGED <<tmp, recovery>>
      PROVE  Goal
  <2>1. file' \in [Path -> Val]
    BY <1>1, <1>t DEF RestoreTrash, Restorable
  <2>2. trash' \in [Op -> [Path -> Val]]
    BY <1>1, <1>t, <1>v DEF RestoreTrash
  <2>3. quarantine' \subseteq Path \X Val
    <3>1. {<<p, file[p]>> : p \in {x \in Restorable(o, S) : file[x] # Absent}}
             \subseteq Path \X Val
      BY <1>t DEF Restorable
    <3> QED BY <1>1, <1>t, <3>1 DEF RestoreTrash
  <2> QED BY <1>1, <1>t, <2>1, <2>2, <2>3
<1>2. CASE \E o \in Op : RecoverConflict(o)
  BY <1>2, <1>1, <1>t DEF RecoverConflict, Row
<1>3. CASE TrashFails \/ Untrash
  BY <1>3, <1>1, <1>h, <1>t DEF TrashFails, Untrash, At, Act
<1>4. CASE StageTemps \/ PlanRefused
  BY <1>4, <1>h, <1>t, <1>v DEF StageTemps, PlanRefused, Unstage, At
<1>11. CASE Clean
  <2>1. act.op \in Op
    BY <1>11, <1>h DEF Clean, At
  <2>2. trash' \in [Op -> [Path -> Val]]
    BY <1>11, <2>1, <1>t, <1>v DEF Clean
  <2> QED BY <1>11, <2>1, <2>2, <1>t DEF Clean, Unstage
<1>5. ASSUME NEW p \in Path, TrashOne(p) PROVE Goal
  BY <1>5, <1>h, <1>t, <1>v DEF TrashOne, At
<1>6. ASSUME NEW p \in Path, PublishOne(p) PROVE Goal
  BY <1>6, <1>h, <1>t, <1>v DEF PublishOne, At
<1>7. ASSUME NEW p \in Path, UnpublishOne(p) PROVE Goal
  <2>1. act.op \in Op /\ row[act.op].pre[p] \in Val
    BY <1>7, <1>h, <1>t DEF UnpublishOne, At, Row
  <2> QED BY <2>1, <1>7, <1>t DEF UnpublishOne
<1>8. ASSUME NEW p \in Path, CrashAfterLink(p) PROVE Goal
  BY <1>8, <1>h, <1>t, <1>v DEF CrashAfterLink, At
<1>9. ASSUME NEW p \in Path, NEW u \in User, UserEdit(p, u) PROVE Goal
  BY <1>9, <1>t, <1>v DEF UserEdit
<1>10. CASE Scavenge
  BY <1>10, <1>t, <1>v DEF Scavenge
<1>12. CASE \E S \in SUBSET Op : Compact(S)
  BY <1>12, <1>t DEF Compact
<1>90. CASE \/ \E o \in Op : \/ PlanOp(o) \/ Transact(o) \/ RecoverCleanup(o)
                             \/ RecoverAbandon(o) \/ RecoverRefused(o)
                             \/ RecoverReplay(o)
            \/ \E q \in Project : RecoverCommand(q) \/ CleanupCommand(q)
            \/ \E q \in Project, o \in Op :
                  \/ Retry(q, o) \/ Rollback(q, o)
                  \/ \E f \in BOOLEAN : Abandon(q, o, f)
            \/ \E p \in Path : UnpublishRefused(p)
            \/ RecoverDone \/ JournalStart \/ PersistPlan \/ VerifyUnchanged
            \/ SourceChanged \/ ScanDeletes \/ AfterTrash \/ AfterDests
            \/ CheckDests \/ CommitRegistry \/ StoreDeletes \/ MarkCleanup
            \/ Finish \/ UnpublishDone \/ Settle \/ MutateRefuses
            \/ CommitFails \/ Crash \/ UNCHANGED vars
  BY <1>90, <1>t
     DEF PlanOp, Transact, RecoverCleanup, RecoverAbandon, RecoverRefused,
         RecoverReplay, RecoverCommand, CleanupCommand, Retry, Rollback, Abandon,
         UnpublishRefused, RecoverDone, JournalStart, PersistPlan, VerifyUnchanged,
         SourceChanged, ScanDeletes, AfterTrash, AfterDests, CheckDests,
         CommitRegistry, StoreDeletes, MarkCleanup, Finish, UnpublishDone, Settle,
         MutateRefuses, CommitFails, Crash, vars
<1> QED
  BY <1>2, <1>3, <1>4, <1>5, <1>6, <1>7, <1>8, <1>9, <1>10, <1>11,
     <1>12, <1>90
     DEF Next, Work, Command, Fault, Recovering, Transacting, Applying, Undoing

\* The registry and the history variables keep their types.
LEMMA StoreTyped ==
  ASSUME TypeOK, HolderAgrees, [Next]_vars
  PROVE  /\ reg' \in [Cell -> Val]
         /\ committed' \subseteq Op
         /\ operated' \subseteq Op
         /\ edited' \in [Path -> {"never", "idle", "racing"}]
         /\ spent' \subseteq User
         /\ crashes' \in 0..MaxCrashes
<1> DEFINE Goal == /\ reg' \in [Cell -> Val]
                   /\ committed' \subseteq Op
                   /\ operated' \subseteq Op
                   /\ edited' \in [Path -> {"never", "idle", "racing"}]
                   /\ spent' \subseteq User
                   /\ crashes' \in 0..MaxCrashes
<1>t. /\ act \in Act /\ reg \in [Cell -> Val]
      /\ committed \subseteq Op /\ operated \subseteq Op
      /\ edited \in [Path -> {"never", "idle", "racing"}] /\ spent \subseteq User
      /\ crashes \in 0..MaxCrashes
  BY DEF TypeOK
<1>h. act.pc \notin {"idle", "recover", "scavenge"} => act.op \in Op
  BY <1>t, InHand
<1>1. CASE CommitRegistry
  BY <1>1, <1>h, <1>t DEF CommitRegistry, Applied, At, Val
<1>2. CASE \E q \in Project, o \in Op : \/ Retry(q, o) \/ Rollback(q, o)
                                      \/ \E f \in BOOLEAN : Abandon(q, o, f)
  BY <1>2, <1>t DEF Retry, Rollback, Abandon
<1>3. CASE Crash \/ \E p \in Path : CrashAfterLink(p)
  BY <1>3, <1>t, Shapes DEF Crash, CrashAfterLink
<1>4. ASSUME NEW p \in Path, NEW u \in User, UserEdit(p, u) PROVE Goal
  BY <1>4, <1>t DEF UserEdit
<1>90. CASE \/ \E o \in Op : \/ PlanOp(o) \/ Transact(o) \/ RecoverCleanup(o)
                             \/ RecoverAbandon(o) \/ RecoverConflict(o)
                             \/ RecoverRefused(o) \/ RecoverReplay(o)
            \/ \E q \in Project : RecoverCommand(q) \/ CleanupCommand(q)
            \/ \E S \in SUBSET Op : Compact(S)
            \/ \E p \in Path : \/ TrashOne(p) \/ PublishOne(p) \/ UnpublishOne(p)
                               \/ UnpublishRefused(p)
            \/ RecoverDone \/ JournalStart \/ StageTemps \/ PlanRefused
            \/ PersistPlan \/ VerifyUnchanged \/ SourceChanged \/ ScanDeletes
            \/ AfterTrash \/ AfterDests \/ CheckDests \/ StoreDeletes
            \/ MarkCleanup \/ Clean \/ Finish \/ UnpublishDone \/ Untrash
            \/ Settle \/ Scavenge \/ MutateRefuses \/ TrashFails \/ CommitFails
            \/ UNCHANGED vars
  BY <1>90, <1>t
     DEF PlanOp, Transact, RecoverCleanup, RecoverAbandon, RecoverConflict,
         RecoverRefused, RecoverReplay, RecoverCommand, CleanupCommand,
         Compact, TrashOne, PublishOne, UnpublishOne, UnpublishRefused,
         RecoverDone, JournalStart, StageTemps, PlanRefused, PersistPlan,
         VerifyUnchanged, SourceChanged, ScanDeletes, AfterTrash, AfterDests,
         CheckDests, StoreDeletes, MarkCleanup, Clean, Finish, UnpublishDone,
         Untrash, Settle, Scavenge, MutateRefuses, TrashFails, CommitFails, vars
<1> QED
  BY <1>1, <1>2, <1>3, <1>4, <1>90
     DEF Next, Work, Command, Fault, Recovering, Transacting, Applying, Undoing

\* TypeOK is kept by every step.
LEMMA TypeStep ==
  ASSUME TypeOK, HolderAgrees, [Next]_vars
  PROVE  TypeOK'
  BY RowTyped, ActTyped, DiskTyped, StoreTyped DEF TypeOK

-----------------------------------------------------------------------------
(* The lock holder and the row it works on.                                *)

\* Releasing the locks leaves nothing of the holder behind.
LEMMA HolderReleases ==
  ASSUME act' = Idle
  PROVE  HolderAgrees'
  BY DEF HolderAgrees, Idle, At

\* The lock holder turns to undoing its operation.
LEMMA HolderTurns ==
  ASSUME HolderAgrees, act \in Act, act.mode # "operator",
         NEW l \in {"untrash", "unpublish"}, NEW t, NEW lv,
         NEW v \in {"failed", "conflicted"},
         act' = [act EXCEPT !.pc = l, !.todo = t, !.live = lv, !.verdict = v],
         act.pc \in {"scan", "trash", "publish", "check", "commit"},
         UNCHANGED <<row, committed, recovery>>
  PROVE  HolderAgrees'
<1>1. /\ act'.pc = l /\ act'.by = act.by /\ act'.mode = act.mode
      /\ act'.op = act.op /\ act'.then = act.then /\ act'.job = act.job
      /\ act'.verdict = v
  BY DEF Act
<1>2. /\ act.by # Nobody /\ act.mode \in {"transact", "recover"}
      /\ row[act.op].status = "pending"
  BY DEF HolderAgrees, Idle, Act, Mode
<1> QED BY <1>1, <1>2 DEF HolderAgrees, At

\* The holder and its row agree when it turns to compensation.
LEMMA HolderCompensates ==
  ASSUME HolderAgrees, act \in Act, act.mode # "operator",
         NEW v \in {"failed", "conflicted"}, Compensate(v),
         act.pc \in {"publish", "check", "commit"},
         UNCHANGED <<row, committed, recovery>>
  PROVE  HolderAgrees'
<1> DEFINE l == IF act.mode = "transact" THEN "untrash" ELSE "unpublish"
<1>1. act' = [act EXCEPT !.pc = l, !.todo = Publishes[act.op], !.live = act.live,
                         !.verdict = v]
  BY DEF Compensate, Act
<1>2. l \in {"untrash", "unpublish"}
  OBVIOUS
<1> HIDE DEF l
<1> QED BY <1>1, <1>2, HolderTurns

\* The holder and its row agree after a refused delete pass.
LEMMA HolderCannotDelete ==
  ASSUME HolderAgrees, act \in Act, NEW S, DeleteFailed(S),
         act.pc \in {"scan", "trash"}, UNCHANGED <<committed, recovery>>
  PROVE  HolderAgrees'
<1>1. CASE act.mode = "transact"
  BY <1>1, HolderReleases DEF DeleteFailed
<1>2. CASE act.mode # "transact"
  <2>1. act.mode # "operator"
    BY DEF HolderAgrees
  <2>2. /\ act' = [act EXCEPT !.pc = "unpublish", !.todo = Publishes[act.op],
                             !.live = S, !.verdict = "failed"]
        /\ UNCHANGED row
    BY <1>2 DEF DeleteFailed
  <2> QED BY <2>1, <2>2, HolderTurns
<1> QED BY <1>1, <1>2

\* Untrash, in transact, changes a row in its dests_mutated only.
LEMMA UntrashEffect ==
  ASSUME row \in [Op -> Row], act.op \in Op, Untrash
  PROVE  \A x \in Op : row'[x].status = row[x].status /\ row'[x].stored = row[x].stored
<1>1. CASE act.mode = "transact"
  BY <1>1 DEF Untrash, Row
<1>2. CASE act.mode # "transact"
  BY <1>2 DEF Untrash
<1> QED BY <1>1, <1>2

\* HolderAgrees is kept by every step.
LEMMA HolderStep ==
  ASSUME TypeOK, HolderAgrees, [Next]_vars
  PROVE  HolderAgrees'
<1>t. act \in Act /\ row \in [Op -> Row]
  BY DEF TypeOK
<1>h. act.pc \notin {"idle", "recover", "scavenge"} => act.op \in Op
  BY <1>t, InHand
<1>w. act.pc # "idle" => act.by # Nobody
  BY <1>t, InHand
<1>n. Nobody \notin Project /\ Nobody \notin Op /\ Origin \in [Op -> Project]
  BY Distinct, Shapes
<1> USE DEF At
<1>1. ASSUME NEW o \in Op, PlanOp(o) PROVE HolderAgrees'
  BY <1>1, <1>h, <1>t, <1>n, <1>w
     DEF PlanOp, HolderAgrees, Idle, Act, Row
<1>2. ASSUME NEW o \in Op, Transact(o) PROVE HolderAgrees'
  BY <1>2, <1>h, <1>t, <1>n, <1>w
     DEF Transact, Lock, Idle, HolderAgrees, Act, Row
<1>3. ASSUME NEW q \in Project, RecoverCommand(q) PROVE HolderAgrees'
  BY <1>3, <1>h, <1>t, <1>n, <1>w
     DEF RecoverCommand, Lock, Idle, HolderAgrees, Act, Row
<1>4. ASSUME NEW q \in Project, CleanupCommand(q) PROVE HolderAgrees'
  BY <1>4, <1>h, <1>t, <1>n, <1>w
     DEF CleanupCommand, Lock, Idle, HolderAgrees, Act, Row
<1>5. ASSUME NEW q \in Project, NEW o \in Op, Retry(q, o) PROVE HolderAgrees'
  BY <1>5, <1>h, <1>t, <1>n, <1>w
     DEF Retry, Lock, Idle, RetryAllowed, InJournal, HolderAgrees, Act,
       Row
<1>6. ASSUME NEW q \in Project, NEW o \in Op, Rollback(q, o) PROVE HolderAgrees'
  BY <1>6, <1>h, <1>t, <1>n, <1>w
     DEF Rollback, Idle, RollbackAllowed, InJournal, HolderAgrees, Act,
       Row
<1>7. ASSUME NEW q \in Project, NEW o \in Op, NEW f \in BOOLEAN, Abandon(q, o, f) PROVE HolderAgrees'
  BY <1>7, <1>h, <1>t, <1>n, <1>w
     DEF Abandon, SetRow, Idle, AbandonAllowed, InJournal, HolderAgrees,
       Act, Row
<1>8. ASSUME NEW S \in SUBSET Op, Compact(S) PROVE HolderAgrees'
  BY <1>8, <1>h, <1>t, <1>n, <1>w
     DEF Compact, HolderAgrees, Idle, Act, Row
<1>9. ASSUME NEW o \in Op, RecoverCleanup(o) PROVE HolderAgrees'
  BY <1>9, <1>h, <1>t, <1>n, <1>w
     DEF RecoverCleanup, Recoverable, HolderAgrees, Idle, Act, Row
<1>10. ASSUME NEW o \in Op, RecoverAbandon(o) PROVE HolderAgrees'
  BY <1>10, <1>h, <1>t, <1>n, <1>w
     DEF RecoverAbandon, SetRow, Skip, Recoverable, HolderAgrees, Idle,
       Act, Row
<1>11. ASSUME NEW o \in Op, RecoverConflict(o) PROVE HolderAgrees'
  BY <1>11, <1>h, <1>t, <1>n, <1>w
     DEF RecoverConflict, SetRow, Skip, Recoverable, HolderAgrees, Idle,
       Act, Row
<1>12. ASSUME NEW o \in Op, RecoverRefused(o) PROVE HolderAgrees'
  BY <1>12, <1>h, <1>t, <1>n, <1>w
     DEF RecoverRefused, SetRow, Skip, Recoverable, HolderAgrees, Idle,
       Act, Row
<1>13. ASSUME NEW o \in Op, RecoverReplay(o) PROVE HolderAgrees'
  BY <1>13, <1>h, <1>t, <1>n, <1>w
     DEF RecoverReplay, Recoverable, HolderAgrees, Idle, Act, Row
<1>14. CASE RecoverDone
  BY <1>14, <1>h, <1>t, <1>n, <1>w
     DEF RecoverDone, Idle, HolderAgrees, Act, Row
<1>15. CASE JournalStart
  BY <1>15, <1>h, <1>t, <1>n, <1>w
     DEF JournalStart, SetRow, HolderAgrees, Idle, Act, Row
<1>16. CASE StageTemps
  BY <1>16, <1>h, <1>t, <1>n, <1>w
     DEF StageTemps, HolderAgrees, Idle, Act, Row
<1>17. CASE PersistPlan
  BY <1>17, <1>h, <1>t, <1>n, <1>w
     DEF PersistPlan, HolderAgrees, Idle, Act, Row
<1>18. CASE VerifyUnchanged
  BY <1>18, <1>h, <1>t, <1>n, <1>w
     DEF VerifyUnchanged, SetRow, HolderAgrees, Idle, Act, Row
<1>19. CASE ScanDeletes
  <2>1. CASE Blocked(act.op)
    BY <1>19, <2>1, <1>t, HolderCannotDelete DEF ScanDeletes
  <2>2. CASE ~Blocked(act.op)
    <3>1. /\ act'.pc = "trash" /\ act'.by = act.by /\ act'.mode = act.mode
          /\ act'.op = act.op /\ act'.then = act.then /\ act'.job = act.job
          /\ act'.verdict = act.verdict /\ act.pc = "scan"
          /\ UNCHANGED <<row, committed, recovery>>
      BY <1>19, <2>2, <1>t DEF ScanDeletes, Act
    <3> QED BY <3>1, <1>w DEF HolderAgrees
  <2> QED BY <2>1, <2>2
<1>20. ASSUME NEW p \in Path, TrashOne(p) PROVE HolderAgrees'
  BY <1>20, <1>h, <1>t, <1>n, <1>w
     DEF TrashOne, HolderAgrees, Idle, Act, Row
<1>21. CASE AfterTrash
  BY <1>21, <1>h, <1>t, <1>n, <1>w
     DEF AfterTrash, HolderAgrees, Idle, Act, Row
<1>22. ASSUME NEW p \in Path, PublishOne(p) PROVE HolderAgrees'
  BY <1>22, <1>h, <1>t, <1>n, <1>w
     DEF PublishOne, HolderAgrees, Idle, Act, Row
<1>23. CASE AfterDests
  <2>1. CASE act.mode = "transact"
    BY <1>23, <2>1, <1>t, <1>h, <1>w DEF AfterDests, SetRow, HolderAgrees, Idle, Act, Row
  <2>2. CASE act.mode # "transact" /\ act.bad
    BY <1>23, <2>2, <1>t, HolderCompensates DEF AfterDests, HolderAgrees
  <2>3. CASE act.mode # "transact" /\ ~act.bad
    BY <1>23, <2>3, <1>t, <1>w DEF AfterDests, HolderAgrees, Idle, Act
  <2> QED BY <2>1, <2>2, <2>3
<1>24. CASE CheckDests
  <2>1. CASE FilesInPlace(act.op)
    BY <1>24, <2>1, <1>t, <1>h, <1>w DEF CheckDests, SetRow, HolderAgrees, Idle, Act, Row
  <2>2. CASE ~FilesInPlace(act.op)
    BY <1>24, <2>2, <1>t, HolderCompensates DEF CheckDests, HolderAgrees
  <2> QED BY <2>1, <2>2
<1>25. CASE CommitRegistry
  BY <1>25, <1>h, <1>t, <1>n, <1>w
     DEF CommitRegistry, HolderAgrees, Idle, Act, Row
<1>26. CASE StoreDeletes
  BY <1>26, <1>h, <1>t, <1>n, <1>w
     DEF StoreDeletes, HolderAgrees, Idle, Act, Row
<1>27. CASE MarkCleanup
  <2>1. /\ act'.pc = "clean" /\ act'.by = act.by /\ act'.mode = act.mode
        /\ act'.op = act.op /\ act'.then = act.then /\ act'.job = act.job
        /\ act'.verdict = act.verdict /\ act.pc = "mark"
    BY <1>27, <1>t DEF MarkCleanup, Act
  <2>2. /\ row'[act.op].status = "cleanup_pending" /\ act.op \in Op
        /\ \A x \in Op \ {act.op} : row'[x] = row[x]
    BY <1>27, <1>h, <1>t, SetRowEffect DEF MarkCleanup
  <2>3. act.mode \in {"transact", "recover"} /\ act.by # Nobody
    BY <2>1, <1>t, <1>w DEF HolderAgrees, Act, Mode
  <2> QED BY <2>1, <2>2, <2>3 DEF HolderAgrees
<1>28. CASE Clean
  BY <1>28, <1>h, <1>t, <1>n, <1>w
     DEF Clean, HolderAgrees, Idle, Act, Row
<1>29. CASE Finish
  BY <1>29, <1>h, <1>t, <1>n, <1>w
     DEF Finish, SetRow, Through, Idle, HolderAgrees, Act, Row
<1>30. ASSUME NEW p \in Path, UnpublishOne(p) PROVE HolderAgrees'
  BY <1>30, <1>h, <1>t, <1>n, <1>w
     DEF UnpublishOne, HolderAgrees, Idle, Act, Row
<1>31. CASE UnpublishDone
  BY <1>31, <1>h, <1>t, <1>n, <1>w
     DEF UnpublishDone, HolderAgrees, Idle, Act, Row
<1>32. CASE Untrash
  <2>1. \A x \in Op : row'[x].status = row[x].status
    BY <1>32, <1>t, <1>h, UntrashEffect DEF Untrash
  <2>2. /\ act'.pc = IF act.mode = "transact" THEN "unpublish" ELSE "settle"
        /\ act'.by = act.by /\ act'.mode = act.mode /\ act'.op = act.op
        /\ act'.then = act.then /\ act'.job = act.job
        /\ act'.verdict = act.verdict /\ act.pc = "untrash"
    BY <1>32, <1>t DEF Untrash, Act
  <2>3. act.by # Nobody /\ act.op \in Op /\ UNCHANGED <<committed, recovery>>
    BY <1>32, <1>h, <1>w DEF Untrash
  <2> QED BY <2>1, <2>2, <2>3 DEF HolderAgrees
<1>33. CASE Settle
  BY <1>33, <1>h, <1>t, <1>n, <1>w
     DEF Settle, SetRow, Through, Idle, HolderAgrees, Act, Row
<1>34. CASE TrashFails
  BY <1>34, <1>t, HolderCannotDelete DEF TrashFails
<1>35. CASE CommitFails
  BY <1>35, <1>t, HolderCompensates DEF CommitFails, HolderAgrees
<1>36. ASSUME NEW p \in Path, NEW u \in User, UserEdit(p, u) PROVE HolderAgrees'
  BY <1>36, <1>h, <1>t, <1>n, <1>w
     DEF UserEdit, HolderAgrees, Idle, Act, Row
<1>37. CASE \/ PlanRefused \/ SourceChanged \/ Scavenge \/ MutateRefuses \/ Crash
            \/ \E p \in Path : UnpublishRefused(p) \/ CrashAfterLink(p)
  BY <1>37, HolderReleases DEF PlanRefused, SourceChanged, Scavenge, MutateRefuses,
     Crash, UnpublishRefused, CrashAfterLink
<1>38. CASE UNCHANGED vars
  BY <1>38 DEF vars, HolderAgrees
<1> QED
  BY <1>1, <1>2, <1>3, <1>4, <1>5, <1>6, <1>7, <1>8, <1>9, <1>10, <1>11,
     <1>12, <1>13, <1>14, <1>15, <1>16, <1>17, <1>18, <1>19, <1>20, <1>21,
     <1>22, <1>23, <1>24, <1>25, <1>26, <1>27, <1>28, <1>29, <1>30, <1>31,
     <1>32, <1>33, <1>34, <1>35, <1>36, <1>37, <1>38
     DEF Next, Work, Command, Fault, Recovering, Transacting, Applying, Undoing

-----------------------------------------------------------------------------
(* Commits, plans and preimages.                                           *)

\* What a step may do to the journal without harm: whoever becomes
\* cleanup_pending or complete was committed, whoever gets a plan is past
\* "planned", and whoever needs its preimages has them.
LEMMA JournalKept ==
  ASSUME CompleteMeansCommitted, NoPlanYet, PreimagesHeld,
         committed \subseteq committed',
         \A o \in Op :
            \/ /\ row'[o].status = row[o].status
               /\ row'[o].stored => row[o].stored
               /\ o \in recovery => o \in recovery' \/ row[o].status \notin HoldFs
            \/ /\ row'[o].status \in {"cleanup_pending", "complete"} => o \in committed
               /\ row'[o].status \in {"unborn", "planned"} => ~row'[o].stored
               /\ row'[o].status \in HoldFs /\ row'[o].stored => o \in recovery'
  PROVE  CompleteMeansCommitted' /\ NoPlanYet' /\ PreimagesHeld'
<1>1. CompleteMeansCommitted'
  BY DEF CompleteMeansCommitted
<1>2. NoPlanYet'
  BY DEF NoPlanYet
<1>3. PreimagesHeld'
  BY DEF PreimagesHeld
<1> QED BY <1>1, <1>2, <1>3

\* A step that sets one status.
LEMMA SetRowKept ==
  ASSUME CompleteMeansCommitted, NoPlanYet, PreimagesHeld,
         row \in [Op -> Row], NEW o \in Op, NEW st, NEW s, SetRow(o, st, s),
         UNCHANGED committed, recovery \subseteq recovery',
         st \in {"cleanup_pending", "complete"} => o \in committed,
         st \notin {"unborn", "planned"},
         st \in HoldFs => \/ row[o].status \in HoldFs \cup {"unborn", "planned"}
                          \/ o \in recovery
  PROVE  CompleteMeansCommitted' /\ NoPlanYet' /\ PreimagesHeld'
<1>1. /\ row'[o].status = st /\ row'[o].stored = row[o].stored
      /\ \A x \in Op \ {o} : row'[x] = row[x]
  BY SetRowEffect
<1>2. st \in HoldFs /\ row[o].stored => o \in recovery
  BY DEF PreimagesHeld, NoPlanYet
<1> QED BY <1>1, <1>2, JournalKept

\* CompleteMeansCommitted, NoPlanYet and PreimagesHeld are kept by every step.
LEMMA JournalStep ==
  ASSUME TypeOK, HolderAgrees, CompleteMeansCommitted, NoPlanYet, PreimagesHeld,
         [Next]_vars
  PROVE  CompleteMeansCommitted' /\ NoPlanYet' /\ PreimagesHeld'
<1> DEFINE Goal == CompleteMeansCommitted' /\ NoPlanYet' /\ PreimagesHeld'
<1>t. act \in Act /\ row \in [Op -> Row]
  BY DEF TypeOK
<1>h. act.pc \notin {"idle", "recover", "scavenge"} => act.op \in Op
  BY <1>t, InHand
<1>q. ASSUME UNCHANGED <<row, committed, recovery>> PROVE Goal
  BY <1>q DEF CompleteMeansCommitted, NoPlanYet, PreimagesHeld
<1>1. ASSUME NEW o \in Op, PlanOp(o) PROVE Goal
  <2>1. /\ row'[o].status = "planned" /\ row'[o].stored = row[o].stored
        /\ row[o].status = "unborn" /\ \A x \in Op \ {o} : row'[x] = row[x]
        /\ UNCHANGED <<committed, recovery>>
    BY <1>1, <1>t DEF PlanOp, Row
  <2>2. ~row[o].stored
    BY <2>1 DEF NoPlanYet
  <2> QED BY <2>1, <2>2, JournalKept DEF HoldFs
<1>2. ASSUME NEW q \in Project, NEW o \in Op, Retry(q, o) PROVE Goal
  <2>1. CASE UNCHANGED row
    BY <1>2, <2>1, <1>q DEF Retry
  <2>2. CASE ~UNCHANGED row
    <3>1. /\ row'[o].status = "pending" /\ row'[o].stored = row[o].stored
          /\ row[o].status \in {"failed", "conflicted"}
          /\ \A x \in Op \ {o} : row'[x] = row[x]
          /\ UNCHANGED <<committed, recovery>>
      BY <1>2, <2>2, <1>t DEF Retry, Row
    <3>2. row[o].stored => o \in recovery
      BY <3>1 DEF PreimagesHeld, HoldFs
    <3> QED BY <3>1, <3>2, JournalKept
  <2> QED BY <2>1, <2>2
<1>3. ASSUME NEW q \in Project, NEW o \in Op, NEW f \in BOOLEAN, Abandon(q, o, f)
      PROVE  Goal
  BY <1>3, <1>t, SetRowKept DEF Abandon, HoldFs
<1>4. ASSUME NEW S \in SUBSET Op, Compact(S) PROVE Goal
  <2>1. \A o \in Op : row'[o].status = row[o].status /\ (row'[o].stored => row[o].stored)
    BY <1>4, <1>t DEF Compact, Row
  <2>2. /\ UNCHANGED committed
        /\ \A o \in Op : o \in recovery => o \in recovery' \/ row[o].status \notin HoldFs
    BY <1>4 DEF Compact
  <2> QED BY <2>1, <2>2, JournalKept
<1>5. ASSUME NEW o \in Op, RecoverAbandon(o) \/ RecoverConflict(o) \/ RecoverRefused(o)
      PROVE  Goal
  <2>1. PICK st, s : st \in {"abandoned", "conflicted"} /\ SetRow(o, st, s)
    BY <1>5 DEF RecoverAbandon, RecoverConflict, RecoverRefused
  <2>2. row[o].status = "pending" /\ UNCHANGED <<committed, recovery>>
    BY <1>5 DEF RecoverAbandon, RecoverConflict, RecoverRefused
  <2> QED BY <2>1, <2>2, <1>t, SetRowKept DEF HoldFs
<1>6. CASE JournalStart
  <2>1. act.op \in Op /\ row[act.op].status = "planned"
    BY <1>6, <1>h DEF JournalStart, At, HolderAgrees
  <2> QED BY <1>6, <2>1, <1>t, SetRowKept DEF JournalStart, HoldFs
<1>7. CASE StageTemps
  <2>1. /\ \A x \in Op : row'[x].status = row[x].status /\ row'[x].stored = row[x].stored
        /\ UNCHANGED committed /\ recovery \subseteq recovery'
    BY <1>7, <1>h, <1>t DEF StageTemps, At, Row
  <2> QED BY <2>1, JournalKept
<1>8. CASE PlanRefused
  <2>1. PICK st \in {"conflicted", "abandoned"} : SetRow(act.op, st, st)
    BY <1>8 DEF PlanRefused
  <2>2. act.op \in Op /\ act.op \in recovery /\ UNCHANGED <<committed, recovery>>
    BY <1>8, <1>h DEF PlanRefused, HolderAgrees, At
  <2> QED BY <2>1, <2>2, <1>t, SetRowKept
<1>9. CASE PersistPlan
  <2>1. /\ act.op \in Op /\ act.op \in recovery /\ row[act.op].status = "pending"
        /\ UNCHANGED <<committed, recovery>>
    BY <1>9, <1>h DEF PersistPlan, HolderAgrees, At
  <2>2. /\ row'[act.op].status = "pending"
        /\ \A x \in Op \ {act.op} : row'[x] = row[x]
    BY <1>9, <2>1, <1>t DEF PersistPlan, Row
  <2> QED BY <2>1, <2>2, JournalKept
<1>10. CASE VerifyUnchanged \/ SourceChanged
  <2>1. /\ act.op \in Op /\ row[act.op].status = "pending"
        /\ UNCHANGED <<committed, recovery>>
    BY <1>10, <1>h DEF VerifyUnchanged, SourceChanged, HolderAgrees, At
  <2>2. PICK st, s : st \in {"pending", "failed"} /\ SetRow(act.op, st, s)
    BY <1>10 DEF VerifyUnchanged, SourceChanged
  <2> QED BY <2>1, <2>2, <1>t, SetRowKept DEF HoldFs
<1>11. CASE ScanDeletes \/ TrashFails
  <2>1. /\ act.op \in Op /\ row[act.op].status = "pending"
        /\ UNCHANGED <<committed, recovery>>
    BY <1>11, <1>h, <1>t DEF ScanDeletes, TrashFails, HolderAgrees, At, Act, Mode
  <2>2. SetRow(act.op, "failed", "failed") \/ UNCHANGED row
    BY <1>11 DEF ScanDeletes, TrashFails, DeleteFailed
  <2> QED BY <2>1, <2>2, <1>t, <1>q, SetRowKept DEF HoldFs
<1>12. CASE AfterTrash \/ StoreDeletes
  <2>1. act.op \in Op /\ UNCHANGED <<committed, recovery>>
    BY <1>12, <1>h DEF AfterTrash, StoreDeletes, At
  <2>2. \A x \in Op : row'[x].status = row[x].status /\ row'[x].stored = row[x].stored
    <3>1. CASE AfterTrash
      BY <3>1, <2>1, <1>t DEF AfterTrash, Row
    <3>2. CASE StoreDeletes
      BY <3>2, <2>1, <1>t DEF StoreDeletes, Row
    <3> QED BY <1>12, <3>1, <3>2
  <2> QED BY <2>1, <2>2, JournalKept
<1>13. CASE AfterDests \/ CheckDests
  <2>1. /\ act.op \in Op /\ row[act.op].status = "pending"
        /\ UNCHANGED <<committed, recovery>>
    BY <1>13, <1>h, <1>t DEF AfterDests, CheckDests, HolderAgrees, At, Act, Mode
  <2>2. \/ \E s : SetRow(act.op, "pending", s)
        \/ UNCHANGED row
    BY <1>13 DEF AfterDests, CheckDests
  <2> QED BY <2>1, <2>2, <1>t, <1>q, SetRowKept DEF HoldFs
<1>14. CASE CommitRegistry
  <2>1. UNCHANGED <<row, recovery>> /\ committed \subseteq committed'
    BY <1>14 DEF CommitRegistry
  <2> QED BY <2>1, JournalKept
<1>15. CASE MarkCleanup
  <2>1. act.op \in Op /\ act.op \in committed /\ UNCHANGED <<committed, recovery>>
    BY <1>15, <1>h DEF MarkCleanup, HolderAgrees, At
  <2> QED BY <1>15, <2>1, <1>t, SetRowKept DEF MarkCleanup, HoldFs
<1>16. CASE Clean
  <2>1. act.op \in Op /\ row[act.op].status \in {"cleanup_pending", "abandoned"}
    BY <1>16, <1>h, <1>t DEF Clean, HolderAgrees, At, Act, Mode
  <2>2. UNCHANGED <<row, committed>> /\ recovery' = recovery \ {act.op}
    BY <1>16 DEF Clean
  <2> QED BY <2>1, <2>2, JournalKept DEF HoldFs
<1>17. CASE Finish
  <2>1. act.op \in Op /\ UNCHANGED <<committed, recovery>>
    BY <1>17, <1>h DEF Finish, At
  <2>2. CASE act.mode # "operator" /\ ~CleanupErrors(act.op)
    <3>1. row[act.op].status = "cleanup_pending"
      BY <1>17, <2>2, <1>t DEF Finish, HolderAgrees, At, Act, Mode
    <3>2. act.op \in committed
      BY <2>1, <3>1 DEF CompleteMeansCommitted
    <3> QED BY <1>17, <2>1, <2>2, <3>2, <1>t, SetRowKept DEF Finish, HoldFs
  <2>3. CASE ~(act.mode # "operator" /\ ~CleanupErrors(act.op))
    BY <1>17, <2>1, <2>3, <1>q DEF Finish
  <2> QED BY <2>2, <2>3
<1>18. CASE Untrash
  <2>1. \A x \in Op : row'[x].status = row[x].status /\ row'[x].stored = row[x].stored
    BY <1>18, <1>h, <1>t, UntrashEffect DEF Untrash, At
  <2>2. UNCHANGED <<committed, recovery>>
    BY <1>18 DEF Untrash
  <2> QED BY <2>1, <2>2, JournalKept
<1>19. CASE Settle
  <2>1. /\ act.op \in Op /\ UNCHANGED <<committed, recovery>>
        /\ act.verdict \in {"failed", "conflicted", "abandoned"}
        /\ act.verdict \in HoldFs => row[act.op].status \in HoldFs
    BY <1>19, <1>h, <1>t DEF Settle, HolderAgrees, At, Act, Mode, HoldFs
  <2> QED BY <1>19, <2>1, <1>t, SetRowKept DEF Settle, HoldFs
<1>20. CASE Scavenge
  <2>1. /\ UNCHANGED <<row, committed>>
        /\ \A o \in Op : o \in recovery => o \in recovery' \/ row[o].status \notin HoldFs
    BY <1>20 DEF Scavenge, Held
  <2> QED BY <2>1, JournalKept
<1>90. CASE \/ \E o \in Op : Transact(o) \/ RecoverCleanup(o) \/ RecoverReplay(o)
            \/ \E q \in Project : RecoverCommand(q) \/ CleanupCommand(q)
            \/ \E q \in Project, o \in Op : Rollback(q, o)
            \/ \E p \in Path : \/ TrashOne(p) \/ PublishOne(p) \/ UnpublishOne(p)
                               \/ UnpublishRefused(p) \/ CrashAfterLink(p)
            \/ \E p \in Path, u \in User : UserEdit(p, u)
            \/ RecoverDone \/ UnpublishDone \/ MutateRefuses \/ CommitFails
            \/ Crash \/ UNCHANGED vars
  BY <1>90, <1>q
     DEF Transact, RecoverCleanup, RecoverReplay, RecoverCommand, CleanupCommand,
         Rollback, TrashOne, PublishOne, UnpublishOne, UnpublishRefused,
         CrashAfterLink, UserEdit, RecoverDone, UnpublishDone, MutateRefuses,
         CommitFails, Crash, vars
<1> QED
  BY <1>1, <1>2, <1>3, <1>4, <1>5, <1>6, <1>7, <1>8, <1>9, <1>10, <1>11, <1>12,
     <1>13, <1>14, <1>15, <1>16, <1>17, <1>18, <1>19, <1>20, <1>90
     DEF Next, Work, Command, Fault, Recovering, Transacting, Applying, Undoing

-----------------------------------------------------------------------------
(* The theorems.                                                           *)

\* The inductive invariant holds of the first state.
LEMMA Starts == Init => IInv
<1> SUFFICES ASSUME Init PROVE IInv
  OBVIOUS
<1>1. NewRow \in Row
  BY DEF NewRow, Row, Status, HoldFs, Step, PublishedSteps, Val
<1>2. \A o \in Op : row[o] = NewRow
  BY DEF Init
<1>3. TypeOK
  <2>1. file \in [Path -> Val] /\ reg \in [Cell -> Val]
    BY DEF Init, Val, Cell
  <2>2. crashes \in 0..MaxCrashes
    BY Shapes DEF Init
  <2> QED BY <1>1, <2>1, <2>2, IdleTyped DEF Init, TypeOK, Val
<1>4. HolderAgrees
  BY DEF Init, Idle, HolderAgrees, At
<1>5. NoPlanYet /\ CompleteMeansCommitted /\ PreimagesHeld
  BY <1>2 DEF NewRow, NoPlanYet, CompleteMeansCommitted, PreimagesHeld, HoldFs
<1> QED BY <1>3, <1>4, <1>5 DEF IInv

\* The inductive invariant holds in every reachable state.
THEOREM Inductive == Spec => []IInv
<1>1. Init => IInv
  BY Starts
<1>2. IInv /\ [Next]_vars => IInv'
  BY TypeStep, HolderStep, JournalStep DEF IInv
<1> QED BY <1>1, <1>2, PTL DEF Spec

\* Every variable keeps its type: the row statuses and steps are the ones of
\* JOURNAL_STEPS and the status sets, whatever the order of commands and crashes.
THEOREM TypeCorrect == Spec => []TypeOK
<1>1. IInv => TypeOK
  BY DEF IInv
<1> QED BY <1>1, Inductive, PTL

\* The lock holder and the row it works on never disagree.
THEOREM HolderCorrect == Spec => []HolderAgrees
<1>1. IInv => HolderAgrees
  BY DEF IInv
<1> QED BY <1>1, Inductive, PTL

\* No row is reported complete, or past COMMIT, unless its registry COMMIT
\* happened (transact, recover_pending).
THEOREM Committed == Spec => []CompleteMeansCommitted
<1>1. IInv => CompleteMeansCommitted
  BY DEF IInv
<1> QED BY <1>1, Inductive, PTL

\* The preimage blobs of every row that may be rolled back or replayed are on
\* disk (JOURNAL_HOLD_FS, journal_cleanup, compact_journal).
THEOREM PreimagesSafe == Spec => []PreimagesHeld
<1>1. IInv => PreimagesHeld
  BY DEF IInv
<1> QED BY <1>1, Inductive, PTL

-----------------------------------------------------------------------------
(* The journal engine implements AtomicTx: every step of a transaction, a  *)
(* recovery, an operator or a crash is one of Apply, Close and Refuse of   *)
(* one operation, or changes nothing a caller of transact can see.         *)

Final == {"cleanup_pending", "complete", "abandoned"}

\* The journal moved on, but no caller can tell.
LEMMA Unseen ==
  ASSUME UNCHANGED <<reg, committed>>,
         \A o \in Op : \/ row'[o].status = row[o].status
                       \/ row[o].status \notin Final /\ row'[o].status \notin Final
                       \/ row[o].status = "cleanup_pending" /\ row'[o].status = "complete"
  PROVE  UNCHANGED <<reg, Outcome>>
<1>1. \A o \in Op : Outcome'[o] = Outcome[o]
  BY DEF Outcome, Final
<1> QED BY <1>1 DEF Outcome

\* A step that sets the status of a live row to another live status.
LEMMA UnseenSetRow ==
  ASSUME UNCHANGED <<reg, committed>>, row \in [Op -> Row],
         NEW o \in Op, NEW st, NEW s, SetRow(o, st, s),
         \/ st \notin Final /\ row[o].status \notin Final
         \/ st = "complete" /\ row[o].status = "cleanup_pending"
  PROVE  UNCHANGED <<reg, Outcome>>
<1>1. row'[o].status = st /\ \A x \in Op \ {o} : row'[x] = row[x]
  BY SetRowEffect
<1> QED BY <1>1, Unseen

\* Giving an operation up.
LEMMA GivesUp ==
  ASSUME UNCHANGED <<reg, committed>>, row \in [Op -> Row],
         NEW o \in Op, NEW s, SetRow(o, "abandoned", s),
         row[o].status \notin {"cleanup_pending", "complete"}
  PROVE  Atomic!Next \/ UNCHANGED <<reg, Outcome>>
<1>1. row'[o].status = "abandoned" /\ \A x \in Op \ {o} : row'[x] = row[x]
  BY SetRowEffect
<1>2. \A x \in Op \ {o} : Outcome'[x] = Outcome[x]
  BY <1>1 DEF Outcome
<1>3. CASE o \in committed \/ row[o].status = "abandoned"
  <2>1. Outcome'[o] = Outcome[o]
    BY <1>1, <1>3 DEF Outcome
  <2> QED BY <1>2, <2>1 DEF Outcome
<1>4. CASE o \notin committed /\ row[o].status # "abandoned"
  <2>1. Outcome[o] = "open" /\ Outcome'[o] = "refused"
    BY <1>1, <1>4 DEF Outcome
  <2>2. Outcome' = [Outcome EXCEPT ![o] = "refused"]
    BY <1>2, <2>1 DEF Outcome
  <2> QED BY <2>1, <2>2 DEF Atomic!Next, Atomic!Refuse
<1> QED BY <1>3, <1>4

\* The registry COMMIT takes effect as a whole.
LEMMA CommitApplies ==
  ASSUME TypeOK, HolderAgrees, CommitRegistry
  PROVE  Atomic!Next
<1> DEFINE o == act.op
<1>1. /\ o \in Op /\ row[o].status = "pending"
      /\ committed' = committed \cup {o} /\ UNCHANGED row /\ reg' = Applied(o)
  BY DEF CommitRegistry, HolderAgrees, At, TypeOK, Act, Mode
<1>2. Outcome[o] \in {"open", "applied"} /\ Outcome'[o] = "applied"
  BY <1>1 DEF Outcome
<1>3. \A x \in Op \ {o} : Outcome'[x] = Outcome[x]
  BY <1>1 DEF Outcome
<1>4. Outcome' = [Outcome EXCEPT ![o] = "applied"]
  BY <1>2, <1>3 DEF Outcome
<1>5. reg' = Atomic!After(o)
  BY <1>1 DEF Applied, Atomic!After
<1> QED BY <1>1, <1>2, <1>4, <1>5 DEF Atomic!Next, Atomic!Apply

\* committed-cleanup-pending closes the operation.
LEMMA MarkCloses ==
  ASSUME TypeOK, HolderAgrees, MarkCleanup
  PROVE  Atomic!Next
<1> DEFINE o == act.op
<1>1. /\ o \in Op /\ row[o].status = "pending" /\ o \in committed
      /\ row \in [Op -> Row] /\ SetRow(o, "cleanup_pending", "cleanup_pending")
      /\ UNCHANGED <<reg, committed>>
  BY DEF MarkCleanup, HolderAgrees, At, TypeOK, Act, Mode
<1>2. row'[o].status = "cleanup_pending" /\ \A x \in Op \ {o} : row'[x] = row[x]
  BY <1>1, SetRowEffect
<1>3. /\ Outcome[o] = "applied" /\ Outcome'[o] = "closed"
      /\ \A x \in Op \ {o} : Outcome'[x] = Outcome[x]
  BY <1>1, <1>2 DEF Outcome
<1>4. Outcome' = [Outcome EXCEPT ![o] = "closed"]
  BY <1>3 DEF Outcome
<1> QED BY <1>1, <1>3, <1>4 DEF Atomic!Next, Atomic!Close

\* Every step of the engine is a step of AtomicTx, or is not seen.
LEMMA EngineStep ==
  ASSUME IInv, [Next]_vars
  PROVE  [Atomic!Next]_<<reg, Outcome>>
<1> DEFINE Goal == Atomic!Next \/ UNCHANGED <<reg, Outcome>>
<1>t. act \in Act /\ row \in [Op -> Row] /\ HolderAgrees /\ TypeOK
  BY DEF IInv, TypeOK
<1>h. act.pc \notin {"idle", "recover", "scavenge"} => act.op \in Op
  BY <1>t, InHand
<1>q. ASSUME UNCHANGED <<reg, committed, row>> PROVE Goal
  BY <1>q DEF Outcome
<1>1. ASSUME NEW o \in Op, PlanOp(o) PROVE Goal
  <2>1. /\ row'[o].status = "planned" /\ row[o].status = "unborn"
        /\ \A x \in Op \ {o} : row'[x] = row[x]
        /\ UNCHANGED <<reg, committed>>
    BY <1>1, <1>t DEF PlanOp, Row
  <2> QED BY <2>1, Unseen DEF Final
<1>2. ASSUME NEW q \in Project, NEW o \in Op, Retry(q, o) PROVE Goal
  <2>1. CASE UNCHANGED row
    BY <1>2, <2>1, <1>q DEF Retry
  <2>2. CASE ~UNCHANGED row
    <3>1. /\ row'[o].status = "pending" /\ row[o].status \in {"failed", "conflicted"}
          /\ \A x \in Op \ {o} : row'[x] = row[x]
          /\ UNCHANGED <<reg, committed>>
      BY <1>2, <2>2, <1>t DEF Retry, Row
    <3> QED BY <3>1, Unseen DEF Final
  <2> QED BY <2>1, <2>2
<1>3. ASSUME NEW q \in Project, NEW o \in Op, NEW f \in BOOLEAN, Abandon(q, o, f)
      PROVE  Goal
  BY <1>3, <1>t, GivesUp DEF Abandon, AbandonAllowed
<1>4. ASSUME NEW S \in SUBSET Op, Compact(S) PROVE Goal
  <2>1. \A o \in Op : row'[o].status = row[o].status
    BY <1>4, <1>t DEF Compact, Row
  <2> QED BY <1>4, <2>1, Unseen DEF Compact
<1>5. ASSUME NEW o \in Op, RecoverAbandon(o) PROVE Goal
  BY <1>5, <1>t, GivesUp DEF RecoverAbandon
<1>6. ASSUME NEW o \in Op, RecoverConflict(o) \/ RecoverRefused(o) PROVE Goal
  <2>1. PICK s : SetRow(o, "conflicted", s)
    BY <1>6 DEF RecoverConflict, RecoverRefused
  <2>2. row[o].status = "pending" /\ UNCHANGED <<reg, committed>>
    BY <1>6 DEF RecoverConflict, RecoverRefused
  <2> QED BY <2>1, <2>2, <1>t, UnseenSetRow DEF Final
<1>7. CASE JournalStart
  <2>1. act.op \in Op /\ row[act.op].status = "planned"
    BY <1>7, <1>h, <1>t DEF JournalStart, At, HolderAgrees
  <2> QED BY <1>7, <2>1, <1>t, UnseenSetRow DEF JournalStart, Final
<1>8. CASE \/ PlanRefused \/ VerifyUnchanged \/ SourceChanged \/ ScanDeletes
           \/ TrashFails \/ AfterDests \/ CheckDests
  <2>1. act.op \in Op /\ row[act.op].status = "pending"
    BY <1>8, <1>h, <1>t DEF PlanRefused, VerifyUnchanged, SourceChanged, ScanDeletes,
       TrashFails, AfterDests, CheckDests, HolderAgrees, At, Act, Mode
  <2>2. UNCHANGED <<reg, committed>>
    BY <1>8 DEF PlanRefused, VerifyUnchanged, SourceChanged, ScanDeletes,
       TrashFails, AfterDests, CheckDests
  <2>3. \/ \E s : \E st \in {"pending", "failed", "conflicted", "abandoned"} :
                   SetRow(act.op, st, s)
        \/ UNCHANGED row
    BY <1>8 DEF PlanRefused, VerifyUnchanged, SourceChanged, ScanDeletes,
       TrashFails, AfterDests, CheckDests, DeleteFailed
  <2> QED BY <2>1, <2>2, <2>3, <1>t, <1>q, UnseenSetRow, GivesUp DEF Final
<1>9. CASE StageTemps \/ PersistPlan \/ AfterTrash \/ StoreDeletes \/ Untrash
  <2>1. act.op \in Op
    BY <1>9, <1>h DEF StageTemps, PersistPlan, AfterTrash, StoreDeletes, Untrash, At
  <2>2. UNCHANGED <<reg, committed>>
    BY <1>9 DEF StageTemps, PersistPlan, AfterTrash, StoreDeletes, Untrash
  <2>3. \A x \in Op : row'[x].status = row[x].status
    <3>1. CASE StageTemps
      BY <3>1, <2>1, <1>t DEF StageTemps, Row
    <3>2. CASE PersistPlan
      BY <3>2, <2>1, <1>t DEF PersistPlan, Row
    <3>3. CASE AfterTrash
      BY <3>3, <2>1, <1>t DEF AfterTrash, Row
    <3>4. CASE StoreDeletes
      BY <3>4, <2>1, <1>t DEF StoreDeletes, Row
    <3>5. CASE Untrash
      BY <3>5, <2>1, <1>t, UntrashEffect
    <3> QED BY <1>9, <3>1, <3>2, <3>3, <3>4, <3>5
  <2> QED BY <2>2, <2>3, Unseen
<1>10. CASE CommitRegistry
  BY <1>10, <1>t, CommitApplies
<1>11. CASE MarkCleanup
  BY <1>11, <1>t, MarkCloses
<1>12. CASE Finish
  <2>1. act.op \in Op /\ UNCHANGED <<reg, committed>>
    BY <1>12, <1>h DEF Finish, At
  <2>2. CASE act.mode # "operator" /\ ~CleanupErrors(act.op)
    <3>1. row[act.op].status = "cleanup_pending"
      BY <1>12, <2>2, <1>t DEF Finish, HolderAgrees, At, Act, Mode
    <3> QED BY <1>12, <2>1, <2>2, <3>1, <1>t, UnseenSetRow DEF Finish
  <2>3. CASE ~(act.mode # "operator" /\ ~CleanupErrors(act.op))
    BY <1>12, <2>1, <2>3, <1>q DEF Finish
  <2> QED BY <2>2, <2>3
<1>13. CASE Settle
  <2>1. /\ act.op \in Op /\ UNCHANGED <<reg, committed>>
        /\ row[act.op].status \notin {"cleanup_pending", "complete"}
        /\ act.verdict \in {"failed", "conflicted", "abandoned"}
        /\ act.verdict # "abandoned" => row[act.op].status = "pending"
        /\ SetRow(act.op, act.verdict, act.verdict)
    BY <1>13, <1>h, <1>t DEF Settle, HolderAgrees, At, Act, Mode
  <2>2. CASE act.verdict = "abandoned"
    BY <2>1, <2>2, <1>t, GivesUp
  <2>3. CASE act.verdict # "abandoned"
    BY <2>1, <2>3, <1>t, UnseenSetRow DEF Final
  <2> QED BY <2>2, <2>3
<1>90. CASE \/ \E o \in Op : Transact(o) \/ RecoverCleanup(o) \/ RecoverReplay(o)
            \/ \E q \in Project : RecoverCommand(q) \/ CleanupCommand(q)
            \/ \E q \in Project, o \in Op : Rollback(q, o)
            \/ \E p \in Path : \/ TrashOne(p) \/ PublishOne(p) \/ UnpublishOne(p)
                               \/ UnpublishRefused(p) \/ CrashAfterLink(p)
            \/ \E p \in Path, u \in User : UserEdit(p, u)
            \/ RecoverDone \/ Clean \/ UnpublishDone \/ Scavenge \/ MutateRefuses
            \/ CommitFails \/ Crash \/ UNCHANGED vars
  BY <1>90, <1>q
     DEF Transact, RecoverCleanup, RecoverReplay, RecoverCommand, CleanupCommand,
         Rollback, TrashOne, PublishOne, UnpublishOne, UnpublishRefused,
         CrashAfterLink, UserEdit, RecoverDone, Clean, UnpublishDone, Scavenge,
         MutateRefuses, CommitFails, Crash, vars
<1> QED
  BY <1>1, <1>2, <1>3, <1>4, <1>5, <1>6, <1>7, <1>8, <1>9, <1>10, <1>11, <1>12,
     <1>13, <1>90
     DEF Next, Work, Command, Fault, Recovering, Transacting, Applying, Undoing

\* Nothing is applied at the start.
LEMMA EngineInit == Init => Atomic!Init
<1> SUFFICES ASSUME Init PROVE Atomic!Init
  OBVIOUS
<1>1. reg \in [Cell -> Val]
  BY Starts DEF IInv, TypeOK
<1>2. \A o \in Op : row[o].status = "unborn" /\ o \notin committed
  BY DEF Init, NewRow
<1> QED BY <1>1, <1>2 DEF Atomic!Init, Outcome

\* The registry changes only by whole operations; an operation that was given up
\* before its COMMIT never takes effect, and one that is past
\* committed-cleanup-pending is never replayed (recover_pending, journal_retry,
\* journal_rollback, journal_abandon, under any crash).
THEOREM Implements == Spec => ImplementsAtomicTx
<1>1. Init => Atomic!Init
  BY EngineInit
<1>2. IInv /\ [Next]_vars => [Atomic!Next]_<<reg, Outcome>>
  BY EngineStep
<1> QED BY <1>1, <1>2, Inductive, PTL DEF Spec, ImplementsAtomicTx, Atomic!Spec

=============================================================================
