-------------------------- MODULE MirrorSyncProofs --------------------------
(***************************************************************************)
(* What the runs check of MirrorSync on three small casts, for every set   *)
(* of projects, facts and texts.                                           *)
(***************************************************************************)
EXTENDS MirrorSync, FiniteSetTheorems, TLAPS

(* classify_mirror asks for a refresh only of a mirror that says what the  *)
(* base says: given a base, edited text is never overwritten as stale.     *)
THEOREM RefreshOnlyUnedited ==
    ASSUME NEW mirror, NEW canonical, NEW base, NEW legacy \in BOOLEAN,
           base # None, mirror.empty = FALSE,
           ClassifyMirror(mirror, canonical, base, legacy) \notin Diverged
    PROVE  mirror.sem \in {canonical.sem, base}
BY DEF ClassifyMirror, ByRevision, Diverged

LEMMA FreshTyped == ASSUME NEW t \in AnyText PROVE Fresh(t) \in Revision
BY DEF Fresh, Revision, Status

LEMMA StubTyped == ASSUME NEW r \in Stem \cup {None} PROVE Stub(r) \in Revision
BY DEF Stub, Revision, Status, AnyText

LEMMA CanonTyped ==
    ASSUME TypeOK, NEW s \in Stem, Active(canon[s]) \/ canon[s] # NoFile
    PROVE  canon[s] \in Revision
BY DEF TypeOK, Active

LEMMA MirrorTyped ==
    ASSUME TypeOK, NEW p \in Project, NEW s \in Stem, IsMirror(file[p][s])
    PROVE  /\ file[p][s] \in MirrorFile
           /\ file[p][s].sem \in Revision /\ file[p][s].at \in Revision
BY DEF TypeOK, IsMirror, OwnFile, MirrorFile

LEMMA TextTyped ==
    ASSUME TypeOK, NEW p \in Project, NEW s \in Stem, file[p][s] # NoFile
    PROVE  TextOf(file[p][s]) \in AnyText
BY DEF TypeOK, TextOf, OwnFile, MirrorFile, Revision

LEMMA MirrorIsFile ==
    ASSUME NEW x \in Revision, NEW y \in Revision PROVE Mirror(x, y) \in MirrorFile
BY DEF Mirror, MirrorFile

LEMMA CountTyped == ASSUME TypeOK, Count PROVE ops' \in 0..MaxOps
BY SyncShapes DEF TypeOK, Count

LEMMA ReclaimTyped ==
    ASSUME TypeOK, NEW p \in Project, NEW gone \in SUBSET Stem, NEW kept \in SUBSET gone,
           \A s \in gone : IsMirror(file[p][s]), Reclaim(p, gone, kept)
    PROVE  /\ file' \in [Project -> [Stem -> {NoFile} \cup OwnFile \cup MirrorFile]]
           /\ ptr' \in [Project -> SUBSET Stem]
           /\ quar' \in [Project -> SUBSET Revision]
           /\ holder' \in [Project -> [Stem -> Revision \cup {None}]]
<1>1. {file[p][s].sem : s \in kept} \subseteq Revision
  BY MirrorTyped
<1> QED
  BY <1>1 DEF TypeOK, Reclaim


\* The parts of a session's state.
LEMMA SeenTyped ==
    ASSUME TypeOK, NEW p \in Project, pull[p] # NoSession
    PROVE  /\ pull[p].kind \in {"pull", "gc"} /\ pull[p].seen \in Seen
           /\ pull[p].pc = "ack" => pull[p].todo \subseteq Stem \X (Stem \cup {None})
           /\ pull[p].pc = "commit" => pull[p].kind = "pull" /\ pull[p].plan \in Plan
BY DEF TypeOK, PullSession, NoSession

LEMMA PromoteTyped ==
    ASSUME TypeOK, NEW p \in Project, prom[p] # NoSession
    PROVE  prom[p].src \in Stem /\ prom[p].dst \in Stem /\ prom[p].text \in AnyText
BY DEF TypeOK, PromoteSession, NoSession

LEMMA InstallableTyped ==
    ASSUME TypeOK, NEW p \in Project, NEW todo \in SUBSET (Stem \X (Stem \cup {None}))
    PROVE  /\ Installable(p, todo) \subseteq Stem
           /\ \A s \in Installable(p, todo) : canon[s] \in Revision /\ ~IsOwn(file[p][s])
BY CanonTyped DEF Installable

(* Every step keeps the types, whichever session takes it.                 *)
LEMMA InitTyped == Init => TypeOK
BY SyncShapes DEF Init, TypeOK, NoSession

LEMMA WritersTyped ==
    ASSUME TypeOK, NEW p \in Project, NEW s \in Stem, NEW t \in Text,
           Upsert(p, s, t) \/ Resurrect(p, s, t)
    PROVE  TypeOK'
<1> USE DEF registry, store, grants, sessions
<1>1. CASE Upsert(p, s, t)
  <2>1. Fresh(t) \in Revision
    BY FreshTyped DEF AnyText
  <2> QED
    BY <1>1, <2>1, CountTyped DEF TypeOK, Upsert, WriteCanonical, Status
<1>2. CASE Resurrect(p, s, t)
  <2>1. Fresh(t) \in Revision
    BY FreshTyped DEF AnyText
  <2> QED
    BY <1>2, <2>1, CountTyped DEF TypeOK, Resurrect, WriteCanonical, Status
<1> QED
  BY <1>1, <1>2

LEMMA ForgetTyped ==
    ASSUME TypeOK, NEW p \in Project, NEW s \in Stem, NEW r \in Stem \cup {None},
           Forget(p, s, r)
    PROVE  TypeOK'
<1> USE DEF registry, store, grants, sessions
<1>1. Stub(r) \in Revision
  BY StubTyped
<1>2. CASE IsMirror(file[p][s])
  <2>1. PICK kept \in SUBSET {s} : Reclaim(p, {s}, kept)
    BY <1>2 DEF Forget
  <2>2. {s} \in SUBSET Stem /\ \A x \in {s} : IsMirror(file[p][x])
    BY <1>2
  <2>3. /\ file' \in [Project -> [Stem -> {NoFile} \cup OwnFile \cup MirrorFile]]
        /\ ptr' \in [Project -> SUBSET Stem]
        /\ quar' \in [Project -> SUBSET Revision]
        /\ holder' \in [Project -> [Stem -> Revision \cup {None}]]
    BY <2>1, <2>2, ReclaimTyped
  <2> QED
    BY <1>1, <2>3, CountTyped DEF TypeOK, Forget, Status
<1>3. CASE ~IsMirror(file[p][s])
  <2>1. holder' = [holder EXCEPT ![p][s] = None] /\ UNCHANGED <<file, ptr, quar>>
    BY <1>3 DEF Forget
  <2>2. holder' \in [Project -> [Stem -> Revision \cup {None}]]
    BY <2>1 DEF TypeOK
  <2> QED
    BY <1>1, <2>1, <2>2, CountTyped DEF TypeOK, Forget, Status
<1> QED
  BY <1>2, <1>3

LEMMA StatusTyped ==
    ASSUME TypeOK, NEW p \in Project, NEW s \in Stem, NEW r \in Stem \cup {None},
           NEW st \in Retired \cup {"active"}, SetCanonicalStatus(p, s, st, r)
    PROVE  TypeOK'
<1> USE DEF registry, store, grants, sessions
<1>1. canon[s] \in Revision /\ st \in Status
  BY CanonTyped, SyncShapes DEF SetCanonicalStatus, Status
<1>2. [canon[s] EXCEPT !.status = st, !.repl = IF r = None THEN @ ELSE r] \in Revision
  BY <1>1 DEF Revision
<1>3. canon' = [canon EXCEPT ![s] = [canon[s] EXCEPT !.status = st,
                                                    !.repl = IF r = None THEN @ ELSE r]]
  BY DEF SetCanonicalStatus, TypeOK
<1> QED
  BY <1>1, <1>2, <1>3, CountTyped DEF TypeOK, SetCanonicalStatus

LEMMA PromoteStepsTyped ==
    ASSUME TypeOK, NEW p \in Project, NEW src \in Stem, NEW dst \in Stem,
           NEW prefer \in BOOLEAN,
           PromoteBegin(p, src, dst, prefer) \/ ResolvePromoteLocal(p, src)
    PROVE  TypeOK'
<1> USE DEF registry, store, grants, sessions
<1>1. CASE PromoteBegin(p, src, dst, prefer)
  <2>1. file[p][src].text \in AnyText
    BY <1>1, TextTyped DEF PromoteBegin, IsOwn, TextOf
  <2> QED
    BY <1>1, <2>1, CountTyped DEF TypeOK, PromoteBegin, PromoteSession
<1>2. CASE ResolvePromoteLocal(p, src)
  <2>1. TextOf(file[p][src]) \in AnyText
    BY <1>2, TextTyped DEF ResolvePromoteLocal
  <2> QED
    BY <1>2, <2>1, CountTyped DEF TypeOK, ResolvePromoteLocal, PromoteSession
<1> QED
  BY <1>1, <1>2

LEMMA PromoteEndsTyped ==
    ASSUME TypeOK, NEW p \in Project, PromoteCommit(p) \/ PromoteRefused(p)
    PROVE  TypeOK'
<1> USE DEF registry, store, grants, sessions
<1>1. CASE PromoteCommit(p)
  <2> DEFINE m == prom[p]
             c == IF m.kind = "reconcile" THEN canon[m.dst] ELSE Fresh(m.text)
  <2>1. m.src \in Stem /\ m.dst \in Stem /\ m.text \in AnyText
    BY <1>1, PromoteTyped DEF PromoteCommit
  <2>2. c \in Revision
    BY <1>1, <2>1, FreshTyped, CanonTyped DEF PromoteCommit
  <2>3. Mirror(c, c) \in MirrorFile
    BY <2>2, MirrorIsFile
  <2>4. WriteCanonical(p, m.dst, c)
    BY <1>1 DEF PromoteCommit
  <2>5. file' = [file EXCEPT ![p] =
                      [s \in Stem |-> IF s = m.dst THEN Mirror(c, c)
                                      ELSE IF s = m.src THEN NoFile ELSE file[p][s]]]
    BY <1>1 DEF PromoteCommit
  <2>6. /\ ptr' = [ptr EXCEPT ![p] = PromotedIndex(p, m)]
        /\ open' = [open EXCEPT ![p] = IF m.kind = "promote-local" THEN @ \ {m.dst} ELSE @]
        /\ prom' = [prom EXCEPT ![p] = NoSession]
        /\ UNCHANGED <<tomb, quar, entitled, enrolled, pull, ops>>
    BY <1>1 DEF PromoteCommit
  <2> HIDE DEF c
  <2>7. /\ canon' \in [Stem -> Revision \cup {NoFile}]
        /\ factStatus' \in [Stem -> Status \cup {None}]
        /\ holder' \in [Project -> [Stem -> Revision \cup {None}]]
    BY <2>1, <2>2, <2>4 DEF TypeOK, WriteCanonical, Status
  <2>8. file' \in [Project -> [Stem -> {NoFile} \cup OwnFile \cup MirrorFile]]
    BY <2>3, <2>5 DEF TypeOK
  <2> QED
    BY <2>1, <2>6, <2>7, <2>8 DEF TypeOK, PromotedIndex
<1>2. CASE PromoteRefused(p)
  BY <1>2 DEF TypeOK, PromoteRefused
<1> QED
  BY <1>1, <1>2

(* A pull writes only what it has read: the statuses it plans for a fact   *)
(* it did not see are "none".                                              *)
PlanSeen ==
    \A p \in Project : pull[p] # NoSession /\ pull[p].pc = "commit" =>
        \A s \in Stem : pull[p].plan[s] # "none" => pull[p].seen[s] # NoFile

LEMMA PlansTyped ==
    ASSUME NEW p \in Project, NEW seen \in Seen, NEW fast \in BOOLEAN,
           NEW plan \in Plans(p, seen, fast)
    PROVE  plan \in Plan /\ \A s \in Stem : plan[s] # "none" => seen[s] # NoFile
<1> DEFINE raw == [s \in Stem |-> StatusOf(p, s, seen[s], fast)]
<1>1. \A s \in Stem : /\ raw[s] \in {"none", "missing", "stale", "in-sync", "diverged"}
                      /\ raw[s] # "none" => seen[s] # NoFile
  BY Zenon DEF StatusOf
<1> HIDE DEF raw
<1>2. PICK held \in SUBSET Stem :
          /\ \A s \in held : raw[s] = "missing"
          /\ plan = [s \in Stem |-> IF s \in held THEN "held" ELSE raw[s]]
  <2> DEFINE costly == {s \in Stem : raw[s] = "missing" /\ s \notin ptr[p]}
  <2>1. PICK take \in SUBSET costly :
            plan = [s \in Stem |-> IF s \in costly \ take THEN "held" ELSE raw[s]]
    BY Zenon DEF Plans, raw
  <2> QED
    BY <2>1
<1> QED
  BY <1>1, <1>2 DEF Plan

LEMMA PullStepsTyped ==
    ASSUME TypeOK, PlanSeen, NEW p \in Project,
           \/ PullBegin(p) \/ GcBegin(p) \/ AckScan(p) \/ PullPlan(p)
    PROVE  TypeOK' /\ PlanSeen'
<1> USE DEF registry, store, grants, sessions
<1>1. CASE PullBegin(p)
  <2> DEFINE seen == [s \in Stem |->
                       IF s \in entitled[p] \ tomb /\ Active(canon[s]) THEN canon[s] ELSE NoFile]
  <2>1. seen \in Seen
    BY CanonTyped DEF Seen
  <2>2. pull' = [pull EXCEPT ![p] = [kind |-> "pull", pc |-> "scan", seen |-> seen]]
    BY <1>1 DEF PullBegin
  <2> HIDE DEF seen
  <2>3. [kind |-> "pull", pc |-> "scan", seen |-> seen] \in PullSession
    BY <2>1 DEF PullSession
  <2>4. pull' \in [Project -> {NoSession} \cup PullSession] /\ PlanSeen'
    BY <2>2, <2>3 DEF TypeOK, PlanSeen
  <2> QED
    BY <1>1, <2>4 DEF TypeOK, PullBegin
<1>2. CASE GcBegin(p)
  <2> DEFINE seen == [s \in Stem |-> NoFile]
  <2>1. [kind |-> "gc", pc |-> "scan", seen |-> seen] \in PullSession
    BY DEF PullSession, Seen
  <2>2. pull' = [pull EXCEPT ![p] = [kind |-> "gc", pc |-> "scan", seen |-> seen]]
    BY <1>2 DEF GcBegin
  <2> HIDE DEF seen
  <2>3. pull' \in [Project -> {NoSession} \cup PullSession] /\ PlanSeen'
    BY <2>1, <2>2 DEF TypeOK, PlanSeen
  <2> QED
    BY <1>2, <2>3, CountTyped DEF TypeOK, GcBegin
<1>3. CASE AckScan(p)
  <2> DEFINE m == pull[p]
             todo == {<<s, IF canon[s] = NoFile THEN None ELSE canon[s].repl>> :
                    s \in {x \in Stem : (IsMirror(file[p][x]) /\ Dead(x)) \/ Held(p, x)}}
             next == IF todo = {} THEN [kind |-> m.kind, pc |-> "plan", seen |-> m.seen]
                     ELSE [kind |-> m.kind, pc |-> "ack", seen |-> m.seen, todo |-> todo]
  <2>1. m.kind \in {"pull", "gc"} /\ m.seen \in Seen
    BY <1>3, SeenTyped DEF AckScan
  <2>2. \A s \in Stem : canon[s] # NoFile => canon[s].repl \in Stem \cup {None}
    BY CanonTyped DEF Revision
  <2>3. todo \in SUBSET (Stem \X (Stem \cup {None}))
    BY <2>2
  <2>4. pull' = [pull EXCEPT ![p] = next]
    BY <1>3 DEF AckScan
  <2>5. next \in PullSession /\ next.pc # "commit"
    <3> HIDE DEF todo, m
    <3> QED
      BY <2>1, <2>3 DEF PullSession
  <2> HIDE DEF next
  <2>6. pull' \in [Project -> {NoSession} \cup PullSession] /\ PlanSeen'
    BY <2>4, <2>5 DEF TypeOK, PlanSeen
  <2> QED
    BY <1>3, <2>6 DEF TypeOK, AckScan
<1>4. CASE PullPlan(p)
  <2> DEFINE m == pull[p]
  <2>1. PICK served \in BOOLEAN :
           LET seen == [s \in Stem |-> IF served /\ m.seen[s] # NoFile THEN canon[s]
                                       ELSE m.seen[s]]
           IN  \E plan \in Plans(p, seen, served) :
                 pull' = [pull EXCEPT ![p] =
                   [kind |-> "pull", pc |-> "commit", seen |-> seen, plan |-> plan]]
    BY <1>4 DEF PullPlan
  <2> DEFINE seen == [s \in Stem |-> IF served /\ m.seen[s] # NoFile THEN canon[s]
                                       ELSE m.seen[s]]
  <2>2. PICK plan \in Plans(p, seen, served) :
           pull' = [pull EXCEPT ![p] =
                   [kind |-> "pull", pc |-> "commit", seen |-> seen, plan |-> plan]]
    BY <2>1
  <2>3. m.seen \in Seen
    BY <1>4, SeenTyped DEF PullPlan
  <2>4. seen \in Seen
    BY <2>3 DEF Seen, TypeOK
  <2> HIDE DEF seen
  <2>5. plan \in Plan /\ \A s \in Stem : plan[s] # "none" => seen[s] # NoFile
    BY <2>4, PlansTyped
  <2>6. [kind |-> "pull", pc |-> "commit", seen |-> seen, plan |-> plan] \in PullSession
    BY <2>4, <2>5 DEF PullSession
  <2>7. pull' \in [Project -> {NoSession} \cup PullSession] /\ PlanSeen'
    BY <2>2, <2>5, <2>6 DEF TypeOK, PlanSeen
  <2> QED
    BY <1>4, <2>7 DEF TypeOK, PullPlan
<1> QED
  BY <1>1, <1>2, <1>3, <1>4


\* A session that ended, or that only looked, leaves nothing planned.
LEMMA SessionLeft ==
    ASSUME TypeOK, PlanSeen, NEW p \in Project, NEW next \in {NoSession} \cup PullSession,
           next # NoSession => next.pc # "commit",
           pull' = [pull EXCEPT ![p] = next]
    PROVE  pull' \in [Project -> {NoSession} \cup PullSession] /\ PlanSeen'
BY DEF TypeOK, PlanSeen

LEMMA AckTyped ==
    ASSUME TypeOK, PlanSeen, NEW p \in Project, NEW late \in BOOLEAN, AckCommit(p, late)
    PROVE  TypeOK' /\ PlanSeen'
<1> DEFINE m == pull[p]
           dead == {x[1] : x \in m.todo}
           new == Installable(p, m.todo)
           gone == {s \in dead : IsMirror(file[p][s])}
           lost == IF late THEN dead ELSE dead \ new
           kept == {s \in gone : Decision(file[p][s], canon[s], holder[p][s]) \in Diverged}
           noptr == {s \in dead : ~IsOwn(file[p][s])}
           index == (ptr[p] \ noptr) \cup (IF late THEN new \ noptr ELSE new)
           next == [kind |-> m.kind, pc |-> "plan", seen |-> m.seen]
<1>1. m # NoSession /\ m.pc = "ack"
  BY DEF AckCommit
<1>2. /\ m.kind \in {"pull", "gc"} /\ m.seen \in Seen
      /\ m.todo \in SUBSET (Stem \X (Stem \cup {None}))
  BY <1>1, SeenTyped
<1>3. next \in PullSession /\ next.pc # "commit"
  BY <1>2 DEF PullSession
<1>4. /\ dead \subseteq Stem /\ new \subseteq Stem
      /\ \A s \in new : canon[s] \in Revision
  <2>1. dead \subseteq Stem
    BY <1>2
  <2> QED
    BY <2>1, <1>2, InstallableTyped
<1>5. \A s \in kept : file[p][s].sem \in Revision
  BY <1>4, MirrorTyped
<1>6. \/ pull' = [pull EXCEPT ![p] = NoSession] /\ UNCHANGED <<holder, store>>
      \/ /\ file' = [file EXCEPT ![p] =
                      [s \in Stem |-> IF s \in new THEN Mirror(canon[s], canon[s])
                                      ELSE IF s \in gone THEN NoFile ELSE file[p][s]]]
         /\ ptr' = [ptr EXCEPT ![p] = index]
         /\ quar' = [quar EXCEPT ![p] = @ \cup {file[p][s].sem : s \in kept}]
         /\ holder' = [holder EXCEPT ![p] =
                      [s \in Stem |-> IF s \in lost THEN None
                                      ELSE IF s \in new THEN canon[s] ELSE holder[p][s]]]
         /\ pull' = [pull EXCEPT ![p] = next]
  BY DEF AckCommit
<1>7. UNCHANGED <<canon, tomb, factStatus, open, grants, prom, ops>>
  BY DEF AckCommit
<1>8. index \subseteq Stem
  BY <1>4 DEF TypeOK
<1>9. \A s \in new : Mirror(canon[s], canon[s]) \in MirrorFile
  BY <1>4, MirrorIsFile
<1> HIDE DEF dead, new, gone, lost, kept, noptr, index, next, m
<1>10. CASE pull' = [pull EXCEPT ![p] = NoSession] /\ UNCHANGED <<holder, store>>
  <2>1. pull' \in [Project -> {NoSession} \cup PullSession] /\ PlanSeen'
    BY <1>10, SessionLeft
  <2> QED
    BY <1>7, <1>10, <2>1 DEF TypeOK, store, grants
<1>11. CASE /\ file' = [file EXCEPT ![p] =
                      [s \in Stem |-> IF s \in new THEN Mirror(canon[s], canon[s])
                                      ELSE IF s \in gone THEN NoFile ELSE file[p][s]]]
            /\ ptr' = [ptr EXCEPT ![p] = index]
            /\ quar' = [quar EXCEPT ![p] = @ \cup {file[p][s].sem : s \in kept}]
            /\ holder' = [holder EXCEPT ![p] =
                      [s \in Stem |-> IF s \in lost THEN None
                                      ELSE IF s \in new THEN canon[s] ELSE holder[p][s]]]
            /\ pull' = [pull EXCEPT ![p] = next]
  <2>1. pull' \in [Project -> {NoSession} \cup PullSession] /\ PlanSeen'
    BY <1>3, <1>11, SessionLeft
  <2>2. file' \in [Project -> [Stem -> {NoFile} \cup OwnFile \cup MirrorFile]]
    BY <1>9, <1>11 DEF TypeOK
  <2>3. ptr' \in [Project -> SUBSET Stem] /\ quar' \in [Project -> SUBSET Revision]
    BY <1>5, <1>8, <1>11 DEF TypeOK
  <2>4. holder' \in [Project -> [Stem -> Revision \cup {None}]]
    BY <1>4, <1>11 DEF TypeOK
  <2> QED
    BY <1>7, <2>1, <2>2, <2>3, <2>4 DEF TypeOK, grants
<1> QED
  BY <1>6, <1>10, <1>11

LEMMA PullCommitTyped ==
    ASSUME TypeOK, PlanSeen, NEW p \in Project, PullCommit(p)
    PROVE  TypeOK' /\ PlanSeen'
<1> DEFINE m == pull[p]
           wanted == {s \in Stem : m.plan[s] = "missing" /\ file[p][s] = NoFile}
           stale == {s \in Stem : m.plan[s] = "stale" /\ IsMirror(file[p][s]) /\ StillClean(p, s)}
           insync == {s \in Stem : m.plan[s] = "in-sync"}
<1>1. m # NoSession /\ m.pc = "commit"
  BY DEF PullCommit
<1>2. m.seen \in Seen /\ m.plan \in Plan
  BY <1>1, SeenTyped
<1>3. \A s \in wanted \cup stale : m.seen[s] \in Revision
  BY <1>1, <1>2 DEF PlanSeen, Seen
<1>4. PICK shown \in SUBSET (wanted \cup stale) :
         LET landed == (wanted \cap shown) \cup stale
             held == {s \in landed \cup insync : canon[s] # NoFile}
         IN  /\ file' = [file EXCEPT ![p] =
                        [s \in Stem |-> IF s \in landed THEN Mirror(m.seen[s], m.seen[s])
                                        ELSE file[p][s]]]
             /\ ptr' = [ptr EXCEPT ![p] = ptr[p] \cup shown]
             /\ holder' = [holder EXCEPT ![p] =
                        [s \in Stem |-> IF s \in held THEN canon[s] ELSE holder[p][s]]]
  BY DEF PullCommit
<1>5. /\ open' = [open EXCEPT ![p] = @ \cup {s \in Stem : m.plan[s] = "diverged"}]
      /\ pull' = [pull EXCEPT ![p] = NoSession]
      /\ UNCHANGED <<canon, tomb, factStatus, quar, entitled, enrolled, prom, ops>>
  BY DEF PullCommit, grants
<1> HIDE DEF m, wanted, stale, insync
<1>6. \A s \in wanted \cup stale : Mirror(m.seen[s], m.seen[s]) \in MirrorFile
  BY <1>3, MirrorIsFile
<1>7. wanted \subseteq Stem /\ stale \subseteq Stem
  BY DEF wanted, stale
<1>8. file' \in [Project -> [Stem -> {NoFile} \cup OwnFile \cup MirrorFile]]
  BY <1>4, <1>6 DEF TypeOK
<1>9. ptr' \in [Project -> SUBSET Stem] /\ open' \in [Project -> SUBSET Stem]
  BY <1>4, <1>5, <1>7 DEF TypeOK
<1>10. holder' \in [Project -> [Stem -> Revision \cup {None}]]
  BY <1>4, CanonTyped DEF TypeOK
<1>11. pull' \in [Project -> {NoSession} \cup PullSession] /\ PlanSeen'
  BY <1>5, SessionLeft
<1> QED
  BY <1>5, <1>8, <1>9, <1>10, <1>11 DEF TypeOK

LEMMA GcApplyTyped ==
    ASSUME TypeOK, PlanSeen, NEW p \in Project, GcApply(p)
    PROVE  TypeOK' /\ PlanSeen'
<1>1. PICK names \in SUBSET Reclaimable(p) :
          Reclaim(p, names, {s \in names : EditedForGc(p, s)})
  BY DEF GcApply
<1>2. names \in SUBSET Stem /\ \A s \in names : IsMirror(file[p][s])
  BY DEF Reclaimable
<1>3. /\ file' \in [Project -> [Stem -> {NoFile} \cup OwnFile \cup MirrorFile]]
      /\ ptr' \in [Project -> SUBSET Stem]
      /\ quar' \in [Project -> SUBSET Revision]
      /\ holder' \in [Project -> [Stem -> Revision \cup {None}]]
  BY <1>1, <1>2, ReclaimTyped
<1>4. pull' \in [Project -> {NoSession} \cup PullSession] /\ PlanSeen'
  BY SessionLeft DEF GcApply
<1> QED
  BY <1>3, <1>4 DEF TypeOK, GcApply, grants

LEMMA CommandsTyped ==
    ASSUME TypeOK, NEW p \in Project, NEW s \in Stem, NEW d \in Stem,
           KeepCanonical(p, s) \/ ForkLocal(p, s, d)
    PROVE  TypeOK'
<1> USE DEF registry, store, grants, sessions
<1>1. CASE KeepCanonical(p, s)
  <2>1. Mirror(canon[s], canon[s]) \in MirrorFile /\ canon[s] \in Revision
    BY <1>1, CanonTyped, MirrorIsFile DEF KeepCanonical, Restamp
  <2> QED
    BY <1>1, <2>1, CountTyped DEF TypeOK, KeepCanonical, Restamp
<1>2. CASE ForkLocal(p, s, d)
  <2>1. Mirror(canon[s], canon[s]) \in MirrorFile /\ canon[s] \in Revision
    BY <1>2, CanonTyped, MirrorIsFile DEF ForkLocal, Restamp
  <2>2. Own(TextOf(file[p][s])) \in OwnFile
    BY <1>2, TextTyped DEF ForkLocal, Own, OwnFile
  <2>3. file' \in [Project -> [Stem -> {NoFile} \cup OwnFile \cup MirrorFile]]
    BY <1>2, <2>1, <2>2 DEF TypeOK, ForkLocal
  <2> QED
    BY <1>2, <2>1, <2>3, CountTyped DEF TypeOK, ForkLocal, Restamp
<1> QED
  BY <1>1, <1>2

LEMMA EnrollmentTyped ==
    ASSUME TypeOK, NEW p \in Project, Unenroll(p) \/ Enroll(p)
    PROVE  TypeOK'
<1> USE DEF registry, store, grants, sessions
<1>1. CASE Unenroll(p)
  <2> DEFINE gone == {x \in Stem : IsMirror(file[p][x])}
  <2>1. PICK kept \in SUBSET gone : Reclaim(p, gone, kept)
    BY <1>1 DEF Unenroll
  <2>2. gone \in SUBSET Stem /\ \A x \in gone : IsMirror(file[p][x])
    OBVIOUS
  <2> HIDE DEF gone
  <2>3. /\ file' \in [Project -> [Stem -> {NoFile} \cup OwnFile \cup MirrorFile]]
        /\ ptr' \in [Project -> SUBSET Stem]
        /\ quar' \in [Project -> SUBSET Revision]
        /\ holder' \in [Project -> [Stem -> Revision \cup {None}]]
    BY <2>1, <2>2, ReclaimTyped
  <2> QED
    BY <1>1, <2>3, CountTyped DEF TypeOK, Unenroll
<1>2. CASE Enroll(p)
  BY <1>2, CountTyped DEF TypeOK, Enroll
<1> QED
  BY <1>1, <1>2

LEMMA UserTyped == ASSUME TypeOK, UserStep(Project, Stem, Text) PROVE TypeOK'
<1> USE DEF registry, store, grants, sessions
<1>1. ASSUME NEW p \in Project, NEW s \in Stem, NEW t \in Text, WriteOwn(p, s, t)
      PROVE  TypeOK'
  <2>1. Own(t) \in OwnFile
    BY DEF Own, OwnFile, AnyText
  <2> QED
    BY <1>1, <2>1, CountTyped DEF TypeOK, WriteOwn
<1>2. ASSUME NEW p \in Project, NEW s \in Stem, NEW t \in Text, EditMirror(p, s, t)
      PROVE  TypeOK'
  <2>1. file[p][s] \in MirrorFile
    BY <1>2, MirrorTyped DEF EditMirror
  <2>2. [file[p][s] EXCEPT !.sem = [file[p][s].sem EXCEPT !.text = t]] \in MirrorFile
    BY <2>1 DEF MirrorFile, Revision, AnyText
  <2>3. file' = [file EXCEPT ![p] = [file[p] EXCEPT ![s] =
                    [file[p][s] EXCEPT !.sem = [file[p][s].sem EXCEPT !.text = t]]]]
    BY <1>2 DEF EditMirror, TypeOK
  <2>4. file' \in [Project -> [Stem -> {NoFile} \cup OwnFile \cup MirrorFile]]
    BY <2>2, <2>3 DEF TypeOK
  <2> QED
    BY <1>2, <2>4, CountTyped DEF TypeOK, EditMirror
<1>3. ASSUME NEW p \in Project, NEW s \in Stem, DeleteFile(p, s) \/ Toggle(p, s)
      PROVE  TypeOK'
  <2>1. CASE DeleteFile(p, s)
    <3>1. file' \in [Project -> [Stem -> {NoFile} \cup OwnFile \cup MirrorFile]]
      BY <2>1 DEF TypeOK, DeleteFile
    <3> QED
      BY <2>1, <3>1, CountTyped DEF TypeOK, DeleteFile
  <2>2. CASE Toggle(p, s)
    <3>1. PICK es \in SUBSET Stem : entitled' = [entitled EXCEPT ![p] = es]
      BY <2>2 DEF TypeOK, Toggle
    <3>2. entitled' \in [Project -> SUBSET Stem]
      BY <3>1 DEF TypeOK
    <3> QED
      BY <2>2, <3>2, CountTyped DEF TypeOK, Toggle
  <2> QED
    BY <1>3, <2>1, <2>2
<1>4. ASSUME NEW s \in Stem, NEW t \in Text, HandEdit(s, t) PROVE TypeOK'
  <2>1. [canon[s] EXCEPT !.text = t] \in Revision
    BY <1>4, CanonTyped DEF HandEdit, Revision, AnyText
  <2>2. canon' = [canon EXCEPT ![s] = [canon[s] EXCEPT !.text = t]]
    BY <1>4 DEF HandEdit, TypeOK
  <2> QED
    BY <1>4, <2>1, <2>2, CountTyped DEF TypeOK, HandEdit
<1>5. ASSUME NEW s \in Stem, HandDelete(s) PROVE TypeOK'
  BY <1>5, CountTyped DEF TypeOK, HandDelete
<1> QED
  BY <1>1, <1>2, <1>3, <1>4, <1>5 DEF UserStep


IInv == TypeOK /\ PlanSeen

LEMMA StepTyped == ASSUME IInv, [Next]_vars PROVE IInv'
<1>1. CASE UNCHANGED vars
  BY <1>1 DEF IInv, TypeOK, PlanSeen, vars, registry, store, grants, sessions
<1>2. ASSUME NEW p \in Project, Command(p, Stem, Text) PROVE IInv'
  <2>1. UNCHANGED pull => PlanSeen'
    BY DEF IInv, PlanSeen
  <2>2. TypeOK'
    <3>2. CASE \/ \E s \in Stem, t \in Text : Upsert(p, s, t) \/ Resurrect(p, s, t)
               \/ \E s \in Stem, r \in Stem \cup {None} : Forget(p, s, r)
               \/ \E s \in Stem, r \in Stem \cup {None}, st \in Retired \cup {"active"} :
                      SetCanonicalStatus(p, s, st, r)
      <4>1. ASSUME NEW s \in Stem, NEW r \in Stem \cup {None}, Forget(p, s, r) PROVE TypeOK'
        BY <4>1, ForgetTyped DEF IInv
      <4>2. ASSUME NEW s \in Stem, NEW r \in Stem \cup {None},
                   NEW st \in Retired \cup {"active"}, SetCanonicalStatus(p, s, st, r)
            PROVE  TypeOK'
        BY <4>2, StatusTyped DEF IInv
      <4>3. ASSUME NEW s \in Stem, NEW t \in Text, Upsert(p, s, t) \/ Resurrect(p, s, t)
            PROVE  TypeOK'
        BY <4>3, WritersTyped DEF IInv
      <4> QED
        BY <3>2, <4>1, <4>2, <4>3
    <3>3. CASE \/ \E src, dst \in Stem, prefer \in BOOLEAN : PromoteBegin(p, src, dst, prefer)
               \/ \E s \in Stem : ResolvePromoteLocal(p, s)
               \/ PromoteCommit(p) \/ PromoteRefused(p)
      BY <3>3, PromoteStepsTyped, PromoteEndsTyped DEF IInv
    <3>4. CASE \/ \E s \in Stem : KeepCanonical(p, s)
               \/ \E s, d \in Stem : ForkLocal(p, s, d)
               \/ Unenroll(p) \/ Enroll(p)
      BY <3>4, CommandsTyped, EnrollmentTyped DEF IInv
    <3> QED
      BY <1>2, <3>2, <3>3, <3>4 DEF Command
  <2>3. UNCHANGED pull
    BY <1>2 DEF Command, Upsert, Resurrect, Forget, SetCanonicalStatus, PromoteBegin,
       ResolvePromoteLocal, PromoteCommit, PromoteRefused, KeepCanonical, ForkLocal, Restamp,
       Unenroll, Enroll, sessions
  <2> QED
    BY <2>1, <2>2, <2>3 DEF IInv
<1>3. ASSUME NEW p \in Project, Sync(p) PROVE IInv'
  BY <1>3, PullStepsTyped, AckTyped, PullCommitTyped, GcApplyTyped DEF IInv, Sync
<1>4. CASE UserStep(Project, Stem, Text)
  <2>1. UNCHANGED pull
    BY <1>4 DEF UserStep, WriteOwn, EditMirror, DeleteFile, Toggle, HandEdit, HandDelete, sessions
  <2> QED
    BY <1>4, <2>1, UserTyped DEF IInv, PlanSeen
<1> QED
  BY <1>1, <1>2, <1>3, <1>4 DEF Next, Step

(* Whatever the sessions and the user do, the state stays well formed.     *)
THEOREM Typed == Spec => []IInv
<1>1. Init => IInv
  BY InitTyped DEF Init, IInv, PlanSeen
<1> QED
  BY <1>1, StepTyped, PTL DEF Spec

THEOREM TypeCorrect == Spec => []TypeOK
<1>1. IInv => TypeOK
  BY DEF IInv
<1> QED
  BY <1>1, Typed, PTL

(* No dead row outlives its fact's return, in any order of the writers.    *)
THEOREM NoGhosts == Spec => []NoGhostTombstone
<1>1. Init => NoGhostTombstone
  BY DEF Init, NoGhostTombstone, Active
<1>2. ASSUME IInv, NoGhostTombstone, [Next]_vars PROVE NoGhostTombstone'
  <2> USE DEF Active, Inactive
  <2>1. CASE UNCHANGED <<canon, tomb, factStatus>>
    BY <1>2, <2>1 DEF NoGhostTombstone
  <2>2. ASSUME NEW p \in Project, NEW s \in Stem, NEW t \in Text,
               Upsert(p, s, t) \/ Resurrect(p, s, t)
        PROVE  NoGhostTombstone'
    <3>1. /\ factStatus' = [factStatus EXCEPT ![s] = "active"]
          /\ canon' = [canon EXCEPT ![s] = Fresh(t)]
          /\ tomb' \subseteq tomb /\ s \notin tomb'
      BY <2>2 DEF Upsert, Resurrect, WriteCanonical
    <3> QED
      BY <1>2, <3>1 DEF NoGhostTombstone, IInv, TypeOK
  <2>3. ASSUME NEW p \in Project, NEW s \in Stem, NEW r \in Stem \cup {None}, Forget(p, s, r)
        PROVE  NoGhostTombstone'
    <3>1. /\ canon' = [canon EXCEPT ![s] = Stub(r)] /\ tomb' = tomb \cup {s}
          /\ factStatus' = [factStatus EXCEPT ![s] = IF @ = None THEN None ELSE "tombstoned"]
      BY <2>3 DEF Forget
    <3> QED
      BY <1>2, <3>1 DEF NoGhostTombstone, IInv, TypeOK, Stub
  <2>4. ASSUME NEW p \in Project, NEW s \in Stem, NEW r \in Stem \cup {None},
               NEW st \in Retired \cup {"active"}, SetCanonicalStatus(p, s, st, r)
        PROVE  NoGhostTombstone'
    <3>1. /\ canon' = [canon EXCEPT ![s].status = st, ![s].repl = IF r = None THEN @ ELSE r]
          /\ factStatus' = [factStatus EXCEPT ![s] =
                               IF @ = None /\ st # "active" THEN None ELSE st]
          /\ tomb' = IF st = "active" THEN tomb \ {s} ELSE tomb
          /\ canon[s] \in Revision
      BY <1>2, <2>4, CanonTyped DEF SetCanonicalStatus, IInv
    <3>2. /\ \A x \in Stem : x # s => canon'[x] = canon[x] /\ factStatus'[x] = factStatus[x]
          /\ canon'[s].status = st
          /\ factStatus'[s] = IF factStatus[s] = None /\ st # "active" THEN None ELSE st
      BY <1>2, <3>1 DEF IInv, TypeOK, Revision
    <3>3. st # "active" \/ (factStatus'[s] = "active" /\ s \notin tomb')
      BY <3>1, <3>2
    <3> QED
      BY <1>2, <3>1, <3>2, <3>3 DEF NoGhostTombstone
  <2>5. ASSUME NEW p \in Project, PromoteCommit(p) PROVE NoGhostTombstone'
    <3>1. PICK s \in Stem : /\ s \notin tomb /\ tomb' = tomb
                            /\ factStatus' = [factStatus EXCEPT ![s] = "active"]
                            /\ \E c : canon' = [canon EXCEPT ![s] = c]
      BY <1>2, <2>5, PromoteTyped DEF PromoteCommit, WriteCanonical, IInv
    <3> QED
      BY <1>2, <3>1 DEF NoGhostTombstone, IInv, TypeOK
  <2>6. ASSUME NEW s \in Stem, NEW t \in Text, HandEdit(s, t) PROVE NoGhostTombstone'
    <3>1. canon[s] \in Revision /\ UNCHANGED <<tomb, factStatus>>
          /\ canon' = [canon EXCEPT ![s].text = t]
      BY <1>2, <2>6, CanonTyped DEF HandEdit, IInv, registry
    <3>2. \A x \in Stem : canon[x] # NoFile => canon'[x].status = canon[x].status
      BY <1>2, <3>1 DEF IInv, TypeOK, Revision
    <3>3. \A x \in Stem : canon[x] = NoFile => canon'[x] = NoFile
      BY <1>2, <2>6, <3>1 DEF IInv, TypeOK, HandEdit
    <3> QED
      BY <1>2, <3>1, <3>2, <3>3 DEF NoGhostTombstone
  <2>7. ASSUME NEW s \in Stem, HandDelete(s) PROVE NoGhostTombstone'
    BY <1>2, <2>7 DEF HandDelete, NoGhostTombstone, IInv, TypeOK, registry
  <2>8. ASSUME NEW p \in Project, Command(p, Stem, Text) PROVE NoGhostTombstone'
    <3>1. CASE \/ \E src, dst \in Stem, prefer \in BOOLEAN : PromoteBegin(p, src, dst, prefer)
               \/ \E s \in Stem : ResolvePromoteLocal(p, s) \/ KeepCanonical(p, s)
               \/ \E s, d \in Stem : ForkLocal(p, s, d)
               \/ PromoteRefused(p) \/ Unenroll(p) \/ Enroll(p)
      <4>1. UNCHANGED <<canon, tomb, factStatus>>
        BY <3>1 DEF PromoteBegin, ResolvePromoteLocal, PromoteRefused, KeepCanonical, ForkLocal,
           Restamp, Unenroll, Enroll, registry
      <4> QED
        BY <2>1, <4>1
    <3>2. CASE \/ \E s \in Stem, r \in Stem \cup {None} : Forget(p, s, r)
               \/ \E s \in Stem, r \in Stem \cup {None}, st \in Retired \cup {"active"} :
                      SetCanonicalStatus(p, s, st, r)
      BY <2>3, <2>4, <3>2
    <3> QED
      BY <2>2, <2>5, <2>8, <3>1, <3>2 DEF Command
  <2>9. ASSUME NEW p \in Project, Sync(p) PROVE NoGhostTombstone'
    BY <2>1, <2>9 DEF Sync, PullBegin, GcBegin, AckScan, AckCommit, PullPlan, PullCommit,
       GcApply, registry
  <2>10. CASE UserStep(Project, Stem, Text)
    <3>1. CASE \/ \E p \in Project, s \in Stem, t \in Text :
                      WriteOwn(p, s, t) \/ EditMirror(p, s, t)
               \/ \E p \in Project, s \in Stem : DeleteFile(p, s) \/ Toggle(p, s)
      <4>1. UNCHANGED <<canon, tomb, factStatus>>
        BY <3>1 DEF WriteOwn, EditMirror, DeleteFile, Toggle, registry
      <4> QED
        BY <2>1, <4>1
    <3> QED
      BY <2>6, <2>7, <2>10, <3>1 DEF UserStep
  <2>11. CASE UNCHANGED vars
    BY <2>1, <2>11 DEF vars, registry
  <2> QED
    BY <1>2, <2>8, <2>9, <2>10, <2>11 DEF Next, Step
<1> QED
  BY <1>1, <1>2, Typed, PTL DEF Spec


(***************************************************************************)
(* The user's work.  Whatever base a command compares with, an edited      *)
(* mirror is never taken for a stale one, so the steps that take a mirror  *)
(* away, or write over it, send the edit to quarantine or stop.            *)
(***************************************************************************)
LEMMA EditDiverged ==
    ASSUME TypeOK, NEW p \in Project, NEW s \in Stem, IsMirror(file[p][s]), Work(p, s),
           NEW base \in {holder[p][s], IF holder[p][s] = None THEN file[p][s].at
                                       ELSE holder[p][s]}
    PROVE  Decision(file[p][s], canon[s], base) \in Diverged
<1> DEFINE f == file[p][s]
           m == [empty |-> FALSE, sem |-> f.sem, body |-> BodyOf[f.sem.text],
                 refBody |-> BodyOf[f.at.text], stampBase |-> f.at]
           c == IF canon[s] = NoFile THEN [sem |-> NoFile, body |-> NoFile]
                ELSE [sem |-> canon[s], body |-> BodyOf[canon[s].text]]
<1>1. /\ BodyOf[f.sem.text] # BodyOf[f.at.text]
      /\ f.sem # canon[s] /\ f.sem # holder[p][s]
  BY DEF Work, IsOwn, IsMirror
<1>2. f.sem # NoFile
  BY MirrorTyped, SyncDistinct
<1>3. f.sem # f.at
  BY <1>1
<1>4. m.sem = f.sem /\ m.empty = FALSE /\ m.sem # c.sem
  BY <1>1, <1>2
<1>5. Decision(f, canon[s], base) = ClassifyMirror(m, c, base, FALSE)
  BY DEF Decision
<1> HIDE DEF m, c
<1>6. CASE base = None
  BY <1>5, <1>6 DEF ClassifyMirror, Diverged
<1>7. CASE base # None
  <2>1. f.sem # base
    BY <1>1, <1>3
  <2> QED
    BY <1>4, <1>5, <1>7, <2>1 DEF ClassifyMirror, ByRevision, Diverged
<1> QED
  BY <1>6, <1>7

LEMMA InPlace ==
    ASSUME NEW p \in Project, NEW s \in Stem, file[p][s] # NoFile, file'[p][s] = file[p][s]
    PROVE  Kept(p, s)
BY DEF Kept

LEMMA InQuarantine ==
    ASSUME NEW p \in Project, NEW s \in Stem, IsMirror(file[p][s]), file[p][s].sem \in quar'[p]
    PROVE  Kept(p, s)
BY DEF Kept, TextOf, IsMirror

LEMMA InCanonical ==
    ASSUME NEW p \in Project, NEW s \in Stem, NEW x \in Stem, canon'[x] # NoFile,
           BodyOf[TextOf(file[p][s])] = BodyOf[canon'[x].text]
    PROVE  Kept(p, s)
BY DEF Kept

LEMMA WorkIsThere ==
    ASSUME NEW p \in Project, NEW s \in Stem, Work(p, s)
    PROVE  file[p][s] # NoFile /\ (IsMirror(file[p][s]) \/ IsOwn(file[p][s]))
BY DEF Work, IsOwn, IsMirror

LEMMA ReclaimKeeps ==
    ASSUME TypeOK, NEW p \in Project, NEW s \in Stem, Work(p, s),
           NEW q \in Project, NEW gone \in SUBSET Stem, NEW kept \in SUBSET gone,
           Reclaim(q, gone, kept), q = p /\ s \in gone => IsMirror(file[p][s]) /\ s \in kept
    PROVE  Kept(p, s)
<1>1. CASE q = p /\ s \in gone
  <2>1. file[p][s].sem \in quar'[p]
    BY <1>1 DEF TypeOK, Reclaim
  <2> QED
    BY <1>1, <2>1, InQuarantine
<1>2. CASE ~(q = p /\ s \in gone)
  <2>1. file'[p][s] = file[p][s]
    BY <1>2 DEF TypeOK, Reclaim
  <2> QED
    BY <2>1, WorkIsThere, InPlace
<1> QED
  BY <1>1, <1>2

LEMMA ForgetKeeps ==
    ASSUME TypeOK, NEW p \in Project, NEW s \in Stem, Work(p, s),
           NEW q \in Project, NEW x \in Stem, NEW r \in Stem \cup {None}, Forget(q, x, r)
    PROVE  Kept(p, s)
<1>1. CASE IsMirror(file[q][x])
  <2>1. PICK kept \in SUBSET {x} :
           /\ Reclaim(q, {x}, kept)
           /\ Decision(file[q][x], canon[x], holder[q][x]) \in Diverged => kept = {x}
    BY <1>1 DEF Forget
  <2>2. q = p /\ s \in {x} => IsMirror(file[p][s]) /\ s \in kept
    BY <1>1, <2>1, EditDiverged
  <2> QED
    BY <2>1, <2>2, ReclaimKeeps
<1>2. CASE ~IsMirror(file[q][x])
  BY <1>2, WorkIsThere, InPlace DEF Forget, store
<1> QED
  BY <1>1, <1>2

LEMMA PromoteKeeps ==
    ASSUME TypeOK, NEW p \in Project, NEW s \in Stem, Work(p, s), ~Waived(p, s),
           NEW q \in Project, PromoteCommit(q)
    PROVE  Kept(p, s)
<1> DEFINE m == prom[q]
           c == IF m.kind = "reconcile" THEN canon[m.dst] ELSE Fresh(m.text)
<1>1. /\ m # NoSession /\ m.src \in Stem /\ m.dst \in Stem
      /\ m.kind = "reconcile" => canon[m.dst] # NoFile
      /\ prom'[q] = NoSession
      /\ canon' = [canon EXCEPT ![m.dst] = c]
      /\ file' = [file EXCEPT ![q] =
                      [x \in Stem |-> IF x = m.dst THEN Mirror(c, c)
                                      ELSE IF x = m.src THEN NoFile ELSE file[q][x]]]
  BY PromoteTyped DEF PromoteCommit, WriteCanonical, TypeOK
<1>2. CASE q = p /\ s \in {m.src, m.dst}
  <2>1. /\ s = m.src /\ TextOf(file[p][s]) = m.text
        /\ m.kind = "reconcile" => BodyOf[m.text] = BodyOf[canon[m.dst].text]
    BY <1>1, <1>2 DEF Waived
  <2>2. canon'[m.dst] = c /\ c # NoFile
    <3>1. Fresh(m.text) # NoFile
      BY <1>1, PromoteTyped, FreshTyped, SyncDistinct
    <3> QED
      BY <1>1, <3>1 DEF TypeOK
  <2>3. BodyOf[m.text] = BodyOf[c.text]
    BY <2>1 DEF Fresh
  <2> QED
    BY <1>1, <2>1, <2>2, <2>3, InCanonical
<1>3. CASE ~(q = p /\ s \in {m.src, m.dst})
  <2>1. file'[p][s] = file[p][s]
    BY <1>1, <1>3 DEF TypeOK
  <2> QED
    BY <2>1, WorkIsThere, InPlace
<1> QED
  BY <1>2, <1>3

LEMMA AckKeeps ==
    ASSUME TypeOK, NEW p \in Project, NEW s \in Stem, Work(p, s), ~Replaced(p, s),
           NEW q \in Project, NEW late \in BOOLEAN, AckCommit(q, late)
    PROVE  Kept(p, s)
<1> DEFINE m == pull[q]
           dead == {x[1] : x \in m.todo}
           new == Installable(q, m.todo)
           gone == {x \in dead : IsMirror(file[q][x])}
           kept == {x \in gone : Decision(file[q][x], canon[x], holder[q][x]) \in Diverged}
<1>1. m # NoSession /\ m.pc = "ack"
  BY DEF AckCommit
<1>2. \/ UNCHANGED file
      \/ /\ file' = [file EXCEPT ![q] =
                      [x \in Stem |-> IF x \in new THEN Mirror(canon[x], canon[x])
                                      ELSE IF x \in gone THEN NoFile ELSE file[q][x]]]
         /\ quar' = [quar EXCEPT ![q] = @ \cup {file[q][x].sem : x \in kept}]
  BY DEF AckCommit, store
<1>3. q = p => s \notin new
  BY <1>1 DEF Replaced
<1> HIDE DEF m, dead, new
<1>4. CASE q = p /\ s \in gone
  <2>1. s \in kept
    BY <1>4, EditDiverged
  <2>2. CASE UNCHANGED file
    BY <2>2, WorkIsThere, InPlace
  <2>3. CASE quar' = [quar EXCEPT ![q] = @ \cup {file[q][x].sem : x \in kept}]
    <3> HIDE DEF kept
    <3>1. file[p][s].sem \in quar'[p]
      BY <1>4, <2>1, <2>3 DEF TypeOK
    <3> QED
      BY <1>4, <3>1, InQuarantine
  <2> QED
    BY <1>2, <2>2, <2>3
<1>5. CASE ~(q = p /\ s \in gone)
  <2>1. file'[p][s] = file[p][s]
    BY <1>2, <1>3, <1>5 DEF TypeOK
  <2> QED
    BY <2>1, WorkIsThere, InPlace
<1> QED
  BY <1>4, <1>5

LEMMA PullKeeps ==
    ASSUME TypeOK, NEW p \in Project, NEW s \in Stem, Work(p, s),
           NEW q \in Project, PullCommit(q)
    PROVE  Kept(p, s)
<1> DEFINE m == pull[q]
           wanted == {x \in Stem : m.plan[x] = "missing" /\ file[q][x] = NoFile}
           stale == {x \in Stem : m.plan[x] = "stale" /\ IsMirror(file[q][x]) /\ StillClean(q, x)}
<1>1. PICK landed \in SUBSET (wanted \cup stale) :
         file' = [file EXCEPT ![q] = [x \in Stem |->
                    IF x \in landed THEN Mirror(m.seen[x], m.seen[x]) ELSE file[q][x]]]
  <2>1. PICK shown \in SUBSET (wanted \cup stale) :
         file' = [file EXCEPT ![q] = [x \in Stem |->
                    IF x \in (wanted \cap shown) \cup stale
                    THEN Mirror(m.seen[x], m.seen[x]) ELSE file[q][x]]]
    BY DEF PullCommit
  <2> HIDE DEF wanted, stale, m
  <2> QED
    BY <2>1
<1>2. q = p => s \notin wanted \cup stale
  <2>1. q = p => s \notin wanted
    BY WorkIsThere
  <2>2. ASSUME q = p, s \in stale PROVE FALSE
    <3>1. IsMirror(file[p][s]) /\ StillClean(p, s)
      BY <2>2
    <3> QED
      BY <3>1, EditDiverged DEF StillClean
  <2> QED
    BY <2>1, <2>2
<1> HIDE DEF wanted, stale, m
<1>3. file'[p][s] = file[p][s]
  BY <1>1, <1>2 DEF TypeOK
<1> QED
  BY <1>3, WorkIsThere, InPlace

LEMMA GcKeeps ==
    ASSUME TypeOK, NEW p \in Project, NEW s \in Stem, Work(p, s),
           NEW q \in Project, GcApply(q)
    PROVE  Kept(p, s)
<1>1. PICK names \in SUBSET Reclaimable(q) :
          Reclaim(q, names, {x \in names : EditedForGc(q, x)})
  BY DEF GcApply
<1> DEFINE kept == {x \in names : EditedForGc(q, x)}
<1>2. names \in SUBSET Stem /\ kept \in SUBSET names
  BY DEF Reclaimable
<1>3. q = p /\ s \in names => IsMirror(file[p][s]) /\ s \in kept
  BY DEF Reclaimable, EditedForGc, Work, IsOwn, IsMirror
<1> QED
  BY <1>1, <1>2, <1>3, ReclaimKeeps

LEMMA UnenrollKeeps ==
    ASSUME TypeOK, NEW p \in Project, NEW s \in Stem, Work(p, s),
           NEW q \in Project, Unenroll(q)
    PROVE  Kept(p, s)
<1> DEFINE gone == {x \in Stem : IsMirror(file[q][x])}
           kept == {x \in gone : \/ canon[x] = NoFile
                              \/ Decision(file[q][x], canon[x], holder[q][x]) \in Diverged
                              \/ BodyOf[file[q][x].sem.text] # BodyOf[canon[x].text]}
<1>1. Reclaim(q, gone, kept)
  BY DEF Unenroll
<1>2. q = p /\ s \in gone => IsMirror(file[p][s]) /\ s \in kept
  BY EditDiverged
<1>3. gone \in SUBSET Stem /\ kept \in SUBSET gone
  OBVIOUS
<1> HIDE DEF gone, kept
<1> QED
  BY <1>1, <1>2, <1>3, ReclaimKeeps

(* No pull, gc, acknowledgement, forget, revocation or undisturbed promote *)
(* destroys the user's work, for every set of projects, facts and texts.   *)
THEOREM WorkIsKept == Spec => WorkKept
<1>1. ASSUME IInv, [Next]_vars, NEW p \in Project, NEW s \in Stem,
             Work(p, s), Careful(p), ~Replaced(p, s), ~Waived(p, s)
      PROVE  Kept(p, s)
  <2>1. TypeOK
    BY <1>1 DEF IInv
  <2>2. ASSUME UNCHANGED file PROVE Kept(p, s)
    BY <1>1, <2>2, WorkIsThere, InPlace
  <2>3. ASSUME NEW q \in Project, Command(q, Stem, Text) PROVE Kept(p, s)
    <3>1. CASE \E x \in Stem, r \in Stem \cup {None} : Forget(q, x, r)
      BY <1>1, <2>1, <3>1, ForgetKeeps
    <3>2. CASE PromoteCommit(q)
      BY <1>1, <2>1, <3>2, PromoteKeeps
    <3>3. CASE Unenroll(q)
      BY <1>1, <2>1, <3>3, UnenrollKeeps
    <3>4. CASE \/ \E x \in Stem : KeepCanonical(q, x)
               \/ \E x, d \in Stem : ForkLocal(q, x, d)
      <4>1. UNCHANGED <<canon, pull, prom, enrolled>>
        BY <3>4 DEF KeepCanonical, ForkLocal, Restamp, grants, sessions
      <4> QED
        BY <1>1, <4>1 DEF Careful
    <3>5. CASE \/ \E x \in Stem, t \in Text : Upsert(q, x, t) \/ Resurrect(q, x, t)
               \/ \E x \in Stem, r \in Stem \cup {None}, st \in Retired \cup {"active"} :
                      SetCanonicalStatus(q, x, st, r)
               \/ \E src, dst \in Stem, prefer \in BOOLEAN : PromoteBegin(q, src, dst, prefer)
               \/ \E x \in Stem : ResolvePromoteLocal(q, x)
               \/ PromoteRefused(q) \/ Enroll(q)
      BY <2>2, <3>5 DEF Upsert, Resurrect, SetCanonicalStatus, PromoteBegin,
         ResolvePromoteLocal, PromoteRefused, Enroll, store
    <3> QED
      BY <2>3, <3>1, <3>2, <3>3, <3>4, <3>5 DEF Command
  <2>4. ASSUME NEW q \in Project, Sync(q) PROVE Kept(p, s)
    <3>1. CASE \E late \in BOOLEAN : AckCommit(q, late)
      BY <1>1, <2>1, <3>1, AckKeeps
    <3>2. CASE PullCommit(q)
      BY <1>1, <2>1, <3>2, PullKeeps
    <3>3. CASE GcApply(q)
      BY <1>1, <2>1, <3>3, GcKeeps
    <3>4. CASE PullBegin(q) \/ GcBegin(q) \/ AckScan(q) \/ PullPlan(q)
      BY <2>2, <3>4 DEF PullBegin, GcBegin, AckScan, PullPlan, store
    <3> QED
      BY <2>4, <3>1, <3>2, <3>3, <3>4 DEF Sync
  <2>5. ASSUME UserStep(Project, Stem, Text) PROVE Kept(p, s)
    <3>1. CASE UNCHANGED <<canon, pull, prom, enrolled>>
      BY <1>1, <3>1 DEF Careful
    <3>2. CASE UNCHANGED file
      BY <2>2, <3>2
    <3>3. UNCHANGED <<canon, pull, prom, enrolled>> \/ UNCHANGED file
      BY <2>5 DEF UserStep, WriteOwn, EditMirror, DeleteFile, Toggle, HandEdit, HandDelete,
         grants, sessions, store
    <3> QED
      BY <3>1, <3>2, <3>3
  <2>6. CASE UNCHANGED vars
    BY <2>2, <2>6 DEF vars, store
  <2> QED
    BY <1>1, <2>3, <2>4, <2>5, <2>6 DEF Next, Step
<1>2. IInv /\ [Next]_vars =>
        [\A p \in Project, s \in Stem :
           Work(p, s) /\ Careful(p) /\ ~Replaced(p, s) /\ ~Waived(p, s) => Kept(p, s)]_vars
  BY <1>1
<1> QED
  BY <1>2, Typed, PTL DEF Spec, WorkKept

(***************************************************************************)
(* The index.  A pointer whose file is gone was there before, and the user *)
(* took the file away.                                                     *)
(***************************************************************************)
Pointed(p, s) ==
    s \in ptr'[p] /\ file'[p][s] = NoFile =>
        s \in ptr[p] /\ (file[p][s] = NoFile \/ DeleteFile(p, s))

\* What a command installs is a file.
LEMMA MirrorIsThere == ASSUME NEW c \in Revision PROVE Mirror(c, c) # NoFile
BY MirrorIsFile, SyncDistinct

LEMMA OwnIsThere == ASSUME NEW t \in AnyText PROVE Own(t) # NoFile
<1>1. Own(t) \in OwnFile
  BY DEF Own, OwnFile
<1> QED
  BY <1>1, SyncDistinct

\* A step that takes no file away and adds no pointer leaves none dangling.
LEMMA StaysPointed ==
    ASSUME NEW p \in Project, NEW s \in Stem,
           ptr'[p] = ptr[p] \/ s \notin ptr'[p],
           file'[p][s] = file[p][s] \/ file'[p][s] # NoFile
    PROVE  Pointed(p, s)
BY DEF Pointed

LEMMA ReclaimPoints ==
    ASSUME TypeOK, NEW p \in Project, NEW s \in Stem,
           NEW q \in Project, NEW gone \in SUBSET Stem, NEW kept \in SUBSET gone,
           Reclaim(q, gone, kept)
    PROVE  Pointed(p, s)
<1>1. CASE q = p
  <2>1. ptr'[p] = ptr[p] \ gone
    BY <1>1 DEF TypeOK, Reclaim
  <2>2. file'[p][s] = IF s \in gone THEN NoFile ELSE file[p][s]
    BY <1>1 DEF TypeOK, Reclaim
  <2> QED
    BY <2>1, <2>2 DEF Pointed
<1>2. CASE q # p
  BY <1>2, StaysPointed DEF TypeOK, Reclaim
<1> QED
  BY <1>1, <1>2

LEMMA ForgetPoints ==
    ASSUME TypeOK, NEW p \in Project, NEW s \in Stem,
           NEW q \in Project, NEW x \in Stem, NEW r \in Stem \cup {None}, Forget(q, x, r)
    PROVE  Pointed(p, s)
<1>1. CASE IsMirror(file[q][x])
  <2>1. PICK kept \in SUBSET {x} : Reclaim(q, {x}, kept)
    BY <1>1 DEF Forget
  <2> QED
    BY <2>1, ReclaimPoints
<1>2. CASE ~IsMirror(file[q][x])
  BY <1>2, StaysPointed DEF Forget, store
<1> QED
  BY <1>1, <1>2

LEMMA UnenrollPoints ==
    ASSUME TypeOK, NEW p \in Project, NEW s \in Stem, NEW q \in Project, Unenroll(q)
    PROVE  Pointed(p, s)
<1> DEFINE gone == {x \in Stem : IsMirror(file[q][x])}
<1>1. PICK kept \in SUBSET gone : Reclaim(q, gone, kept)
  BY DEF Unenroll
<1>2. gone \in SUBSET Stem
  OBVIOUS
<1> HIDE DEF gone
<1> QED
  BY <1>1, <1>2, ReclaimPoints

LEMMA GcPoints ==
    ASSUME TypeOK, NEW p \in Project, NEW s \in Stem, NEW q \in Project, GcApply(q)
    PROVE  Pointed(p, s)
<1>1. PICK names \in SUBSET Reclaimable(q) :
          Reclaim(q, names, {x \in names : EditedForGc(q, x)})
  BY DEF GcApply
<1>2. names \in SUBSET Stem
  BY DEF Reclaimable
<1> QED
  BY <1>1, <1>2, ReclaimPoints

\* A promote points to the mirror it makes, and no longer to the name it takes away.
LEMMA PromotePoints ==
    ASSUME TypeOK, NEW p \in Project, NEW s \in Stem, NEW q \in Project, PromoteCommit(q)
    PROVE  Pointed(p, s)
<1> DEFINE m == prom[q]
           c == IF m.kind = "reconcile" THEN canon[m.dst] ELSE Fresh(m.text)
<1>1. /\ m.src \in Stem /\ m.dst \in Stem /\ m.text \in AnyText
      /\ m.kind = "reconcile" => canon[m.dst] # NoFile
      /\ file' = [file EXCEPT ![q] =
                      [x \in Stem |-> IF x = m.dst THEN Mirror(c, c)
                                      ELSE IF x = m.src THEN NoFile ELSE file[q][x]]]
      /\ ptr' = [ptr EXCEPT ![q] = (ptr[q] \ {m.src}) \cup {m.dst}]
  BY PromoteTyped DEF PromoteCommit, PromotedIndex
<1>2. c \in Revision
  BY <1>1, FreshTyped, CanonTyped
<1>3. Mirror(c, c) # NoFile
  BY <1>2, MirrorIsThere
<1> HIDE DEF m, c
<1>4. CASE q = p
  <2>1. /\ file'[p][s] = IF s = m.dst THEN Mirror(c, c)
                         ELSE IF s = m.src THEN NoFile ELSE file[p][s]
        /\ ptr'[p] = (ptr[p] \ {m.src}) \cup {m.dst}
    BY <1>1, <1>4 DEF TypeOK
  <2> QED
    BY <1>3, <2>1 DEF Pointed
<1>5. CASE q # p
  BY <1>1, <1>5, StaysPointed DEF TypeOK
<1> QED
  BY <1>4, <1>5

\* An acknowledgement drops the pointers of what it takes away and adds those of the
\* replacements it installs.
LEMMA AckPoints ==
    ASSUME TypeOK, NEW p \in Project, NEW s \in Stem,
           NEW q \in Project, NEW late \in BOOLEAN, AckCommit(q, late)
    PROVE  Pointed(p, s)
<1> DEFINE m == pull[q]
           dead == {x[1] : x \in m.todo}
           new == Installable(q, m.todo)
           gone == {x \in dead : IsMirror(file[q][x])}
           noptr == {x \in dead : ~IsOwn(file[q][x])}
           index == (ptr[q] \ noptr) \cup (IF late THEN new \ noptr ELSE new)
<1>1. m # NoSession /\ m.pc = "ack"
  BY DEF AckCommit
<1>2. m.todo \in SUBSET (Stem \X (Stem \cup {None}))
  BY <1>1, SeenTyped
<1>3. \A x \in new : Mirror(canon[x], canon[x]) # NoFile
  BY <1>2, InstallableTyped, MirrorIsThere
<1>4. gone \subseteq noptr
  BY DEF IsMirror, IsOwn
<1>5. \/ UNCHANGED <<file, ptr>>
      \/ /\ file' = [file EXCEPT ![q] =
                      [x \in Stem |-> IF x \in new THEN Mirror(canon[x], canon[x])
                                      ELSE IF x \in gone THEN NoFile ELSE file[q][x]]]
         /\ ptr' = [ptr EXCEPT ![q] = index]
  BY DEF AckCommit, store
<1>6. index \subseteq (ptr[q] \ noptr) \cup new
  OBVIOUS
<1> HIDE DEF m, dead, new, gone, noptr, index
<1>7. CASE UNCHANGED <<file, ptr>>
  BY <1>7, StaysPointed
<1>8. CASE /\ file' = [file EXCEPT ![q] =
                      [x \in Stem |-> IF x \in new THEN Mirror(canon[x], canon[x])
                                      ELSE IF x \in gone THEN NoFile ELSE file[q][x]]]
           /\ ptr' = [ptr EXCEPT ![q] = index]
  <2>1. CASE q = p
    <3>1. /\ file'[p][s] = IF s \in new THEN Mirror(canon[s], canon[s])
                           ELSE IF s \in gone THEN NoFile ELSE file[p][s]
          /\ ptr'[p] = index
      BY <1>8, <2>1 DEF TypeOK
    <3> QED
      BY <1>3, <1>4, <1>6, <2>1, <3>1 DEF Pointed
  <2>2. CASE q # p
    BY <1>8, <2>2, StaysPointed DEF TypeOK
  <2> QED
    BY <2>1, <2>2
<1> QED
  BY <1>5, <1>7, <1>8

\* A pull shows in the index only what it lands.
LEMMA PullPoints ==
    ASSUME TypeOK, PlanSeen, NEW p \in Project, NEW s \in Stem,
           NEW q \in Project, PullCommit(q)
    PROVE  Pointed(p, s)
<1> DEFINE m == pull[q]
           wanted == {x \in Stem : m.plan[x] = "missing" /\ file[q][x] = NoFile}
           stale == {x \in Stem : m.plan[x] = "stale" /\ IsMirror(file[q][x]) /\ StillClean(q, x)}
<1>1. m # NoSession /\ m.pc = "commit"
  BY DEF PullCommit
<1>2. \A x \in wanted \cup stale : m.seen[x] \in Revision
  BY <1>1, SeenTyped DEF PlanSeen, Seen
<1>3. \A x \in wanted \cup stale : Mirror(m.seen[x], m.seen[x]) # NoFile
  BY <1>2, MirrorIsThere
<1>4. PICK shown \in SUBSET (wanted \cup stale) :
         /\ file' = [file EXCEPT ![q] = [x \in Stem |->
                    IF x \in (wanted \cap shown) \cup stale
                    THEN Mirror(m.seen[x], m.seen[x]) ELSE file[q][x]]]
         /\ ptr' = [ptr EXCEPT ![q] = ptr[q] \cup shown]
  BY DEF PullCommit
<1> HIDE DEF wanted, stale, m
<1>5. CASE q = p
  <2>1. /\ file'[p][s] = IF s \in (wanted \cap shown) \cup stale
                         THEN Mirror(m.seen[s], m.seen[s]) ELSE file[p][s]
        /\ ptr'[p] = ptr[p] \cup shown
    BY <1>4, <1>5 DEF TypeOK
  <2> QED
    BY <1>3, <1>4, <2>1 DEF Pointed
<1>6. CASE q # p
  BY <1>4, <1>6, StaysPointed DEF TypeOK
<1> QED
  BY <1>5, <1>6

\* The commands that restamp a mirror only add files, and so does the user's editor.
LEMMA KeepPoints ==
    ASSUME TypeOK, NEW p \in Project, NEW s \in Stem,
           NEW q \in Project, NEW x \in Stem, KeepCanonical(q, x)
    PROVE  Pointed(p, s)
<1>1. Mirror(canon[x], canon[x]) # NoFile
  BY CanonTyped, MirrorIsThere DEF KeepCanonical, Restamp
<1>2. file'[p][s] = file[p][s] \/ file'[p][s] # NoFile
  BY <1>1 DEF TypeOK, KeepCanonical
<1> QED
  BY <1>2, StaysPointed DEF KeepCanonical, Restamp

LEMMA ForkPoints ==
    ASSUME TypeOK, NEW p \in Project, NEW s \in Stem,
           NEW q \in Project, NEW x \in Stem, NEW d \in Stem, ForkLocal(q, x, d)
    PROVE  Pointed(p, s)
<1>1. Mirror(canon[x], canon[x]) # NoFile /\ Own(TextOf(file[q][x])) # NoFile
  BY CanonTyped, MirrorIsThere, TextTyped, OwnIsThere DEF ForkLocal, Restamp
<1>2. file'[p][s] = file[p][s] \/ file'[p][s] # NoFile
  BY <1>1 DEF TypeOK, ForkLocal
<1> QED
  BY <1>2, StaysPointed DEF ForkLocal, Restamp

LEMMA EditorPoints ==
    ASSUME TypeOK, NEW p \in Project, NEW s \in Stem,
           NEW q \in Project, NEW x \in Stem, NEW t \in Text,
           WriteOwn(q, x, t) \/ EditMirror(q, x, t)
    PROVE  Pointed(p, s)
<1>1. CASE WriteOwn(q, x, t)
  <2>1. Own(t) # NoFile
    BY OwnIsThere DEF AnyText
  <2>2. file' = [file EXCEPT ![q][x] = Own(t)]
    BY <1>1 DEF WriteOwn
  <2>3. CASE q = p /\ x = s
    BY <2>1, <2>2, <2>3 DEF TypeOK, Pointed
  <2>4. CASE ~(q = p /\ x = s)
    <3>1. file'[p][s] = file[p][s]
      BY <2>2, <2>4 DEF TypeOK
    <3>2. s \in ptr'[p] => s \in ptr[p]
      BY <1>1, <2>4 DEF TypeOK, WriteOwn
    <3> QED
      BY <3>1, <3>2 DEF Pointed
  <2> QED
    BY <2>3, <2>4
<1>2. CASE EditMirror(q, x, t)
  <2>1. file[q][x] \in MirrorFile
    BY <1>2, MirrorTyped DEF EditMirror
  <2>2. [file[q][x] EXCEPT !.sem = [file[q][x].sem EXCEPT !.text = t]] \in MirrorFile
    BY <2>1 DEF MirrorFile, Revision, AnyText
  <2>3. file' = [file EXCEPT ![q] = [file[q] EXCEPT ![x] =
                    [file[q][x] EXCEPT !.sem = [file[q][x].sem EXCEPT !.text = t]]]]
    BY <1>2 DEF EditMirror, TypeOK
  <2>4. file'[p][s] = file[p][s] \/ file'[p][s] # NoFile
    BY <2>2, <2>3, SyncDistinct DEF TypeOK
  <2> QED
    BY <1>2, <2>4, StaysPointed DEF EditMirror
<1> QED
  BY <1>1, <1>2

\* The user deletes one file, and only that one may leave its pointer behind.
LEMMA DeletePoints ==
    ASSUME TypeOK, NEW p \in Project, NEW s \in Stem,
           NEW q \in Project, NEW x \in Stem, DeleteFile(q, x)
    PROVE  Pointed(p, s)
<1>1. UNCHANGED ptr
  BY DEF DeleteFile
<1>2. CASE q = p /\ x = s
  BY <1>1, <1>2 DEF Pointed
<1>3. CASE ~(q = p /\ x = s)
  <2>1. file'[p][s] = file[p][s]
    BY <1>3 DEF DeleteFile, TypeOK
  <2> QED
    BY <1>1, <2>1, StaysPointed
<1> QED
  BY <1>2, <1>3

(* No command, pull, gc or acknowledgement leaves an index that points at  *)
(* a file which is not there; only the user who deletes a file does.       *)
THEOREM IndexPoints == Spec => NoDanglingPointer
<1>1. ASSUME IInv, [Next]_vars, NEW p \in Project, NEW s \in Stem
      PROVE  Pointed(p, s)
  <2>1. TypeOK /\ PlanSeen
    BY <1>1 DEF IInv
  <2>2. ASSUME UNCHANGED <<file, ptr>> PROVE Pointed(p, s)
    BY <2>2, StaysPointed
  <2>3. ASSUME NEW q \in Project, Command(q, Stem, Text) PROVE Pointed(p, s)
    <3>1. CASE \E x \in Stem, r \in Stem \cup {None} : Forget(q, x, r)
      BY <2>1, <3>1, ForgetPoints
    <3>2. CASE PromoteCommit(q)
      BY <2>1, <3>2, PromotePoints
    <3>3. CASE Unenroll(q)
      BY <2>1, <3>3, UnenrollPoints
    <3>4. CASE \/ \E x \in Stem : KeepCanonical(q, x)
               \/ \E x, d \in Stem : ForkLocal(q, x, d)
      BY <2>1, <3>4, KeepPoints, ForkPoints
    <3>5. CASE \/ \E x \in Stem, t \in Text : Upsert(q, x, t) \/ Resurrect(q, x, t)
               \/ \E x \in Stem, r \in Stem \cup {None}, st \in Retired \cup {"active"} :
                      SetCanonicalStatus(q, x, st, r)
               \/ \E src, dst \in Stem, prefer \in BOOLEAN : PromoteBegin(q, src, dst, prefer)
               \/ \E x \in Stem : ResolvePromoteLocal(q, x)
               \/ PromoteRefused(q) \/ Enroll(q)
      BY <2>2, <3>5 DEF Upsert, Resurrect, SetCanonicalStatus, PromoteBegin,
         ResolvePromoteLocal, PromoteRefused, Enroll, store
    <3> QED
      BY <2>3, <3>1, <3>2, <3>3, <3>4, <3>5 DEF Command
  <2>4. ASSUME NEW q \in Project, Sync(q) PROVE Pointed(p, s)
    <3>1. CASE \E late \in BOOLEAN : AckCommit(q, late)
      BY <2>1, <3>1, AckPoints
    <3>2. CASE PullCommit(q)
      BY <2>1, <3>2, PullPoints
    <3>3. CASE GcApply(q)
      BY <2>1, <3>3, GcPoints
    <3>4. CASE PullBegin(q) \/ GcBegin(q) \/ AckScan(q) \/ PullPlan(q)
      BY <2>2, <3>4 DEF PullBegin, GcBegin, AckScan, PullPlan, store
    <3> QED
      BY <2>4, <3>1, <3>2, <3>3, <3>4 DEF Sync
  <2>5. ASSUME UserStep(Project, Stem, Text) PROVE Pointed(p, s)
    <3>1. CASE \E q \in Project, x \in Stem, t \in Text : WriteOwn(q, x, t) \/ EditMirror(q, x, t)
      BY <2>1, <3>1, EditorPoints
    <3>2. CASE \E q \in Project, x \in Stem : DeleteFile(q, x)
      BY <2>1, <3>2, DeletePoints
    <3>3. CASE \/ \E q \in Project, x \in Stem : Toggle(q, x)
               \/ \E x \in Stem, t \in Text : HandEdit(x, t)
               \/ \E x \in Stem : HandDelete(x)
      BY <2>2, <3>3 DEF Toggle, HandEdit, HandDelete, store
    <3> QED
      BY <2>5, <3>1, <3>2, <3>3 DEF UserStep
  <2>6. CASE UNCHANGED vars
    BY <2>2, <2>6 DEF vars, store
  <2> QED
    BY <1>1, <2>3, <2>4, <2>5, <2>6 DEF Next, Step
<1>2. IInv /\ [Next]_vars =>
        [\A p \in Project, s \in Stem :
          s \in ptr'[p] /\ file'[p][s] = NoFile =>
              s \in ptr[p] /\ (file[p][s] = NoFile \/ DeleteFile(p, s))]_vars
  BY <1>1 DEF Pointed
<1> QED
  BY <1>2, Typed, PTL DEF Spec, NoDanglingPointer

(***************************************************************************)
(* An undisturbed pull.  It commits on what it planned, and what it planned *)
(* is still so: every fact it saw is settled, or the index is full.        *)
(***************************************************************************)
Costly(p, seen, fast) ==
    {s \in Stem : StatusOf(p, s, seen[s], fast) = "missing" /\ s \notin ptr[p]}

\* A plan holds back the facts that would not fit into the index.
LEMMA PlanHolds ==
    ASSUME NEW p \in Project, NEW seen, NEW fast \in BOOLEAN, NEW plan \in Plans(p, seen, fast)
    PROVE  \E take \in SUBSET Costly(p, seen, fast) :
              /\ Cardinality(take) = IF Room(ptr[p]) < Cardinality(Costly(p, seen, fast))
                                     THEN Room(ptr[p]) ELSE Cardinality(Costly(p, seen, fast))
              /\ \A s \in Stem : plan[s] = IF s \in Costly(p, seen, fast) \ take THEN "held"
                                           ELSE StatusOf(p, s, seen[s], fast)
<1> DEFINE raw == [s \in Stem |-> StatusOf(p, s, seen[s], fast)]
           costly == {s \in Stem : raw[s] = "missing" /\ s \notin ptr[p]}
<1>1. PICK take \in {t \in SUBSET costly :
                        Cardinality(t) = IF Room(ptr[p]) < Cardinality(costly) THEN Room(ptr[p])
                                         ELSE Cardinality(costly)} :
            plan = [s \in Stem |-> IF s \in costly \ take THEN "held" ELSE raw[s]]
  BY Zenon DEF Plans
<1>2. \A s \in Stem : raw[s] = StatusOf(p, s, seen[s], fast)
  OBVIOUS
<1>3. costly = Costly(p, seen, fast)
  BY <1>2 DEF Costly
<1> HIDE DEF raw, costly
<1>4. \A s \in Stem : plan[s] = IF s \in costly \ take THEN "held"
                                ELSE StatusOf(p, s, seen[s], fast)
  BY <1>1, <1>2
<1> QED
  BY <1>1, <1>3, <1>4

\* When a plan holds a fact back, the index is full after the commit: all that had room
\* was shown, or something found none.
LEMMA HeldBackWhenFull ==
    ASSUME NEW index \in SUBSET Stem, NEW costly \in SUBSET (Stem \ index),
           NEW take \in SUBSET costly, costly # take, NEW shown \in SUBSET Stem,
           Cardinality(take) = IF Room(index) < Cardinality(costly) THEN Room(index)
                               ELSE Cardinality(costly),
           \A x \in take \ shown : Cardinality((index \cup shown) \cup {x}) > Cap
    PROVE  Cardinality(index \cup shown) >= Cap
<1>1. /\ IsFiniteSet(index) /\ IsFiniteSet(costly) /\ IsFiniteSet(take)
      /\ IsFiniteSet(index \cup shown)
  BY SyncDistinct, FS_Subset
<1>2. /\ Cardinality(index) \in Nat /\ Cardinality(costly) \in Nat /\ Cardinality(take) \in Nat
      /\ Cardinality(index \cup shown) \in Nat /\ Cap \in Nat
  BY <1>1, FS_CardinalityType, SyncShapes
<1>3. Cardinality(take) = Room(index)
  <2>1. Cardinality(take) # Cardinality(costly)
    BY <1>1, FS_Subset
  <2> QED
    BY <2>1
<1>4. CASE take \subseteq shown
  <2>1. Cardinality(index \cap take) = 0
    <3>1. index \cap take = {}
      OBVIOUS
    <3> QED
      BY <3>1, FS_EmptySet
  <2>2. Cardinality(index \cup take) = Cardinality(index) + Cardinality(take)
    <3>1. Cardinality(index \cup take)
             = Cardinality(index) + Cardinality(take) - Cardinality(index \cap take)
      BY <1>1, FS_Union
    <3> QED
      BY <1>2, <2>1, <3>1
  <2>3. Cardinality(index \cup take) <= Cardinality(index \cup shown)
    <3>1. index \cup take \subseteq index \cup shown
      BY <1>4
    <3> QED
      BY <1>1, <3>1, FS_Subset
  <2>4. Cardinality(index) + Room(index) >= Cap
    BY <1>2 DEF Room
  <2> QED
    BY <1>2, <1>3, <2>2, <2>3, <2>4
<1>5. CASE ~(take \subseteq shown)
  <2>1. PICK x \in take \ shown : Cardinality((index \cup shown) \cup {x}) > Cap
    BY <1>5
  <2>2. Cardinality((index \cup shown) \cup {x}) = Cardinality(index \cup shown) + 1
    BY <1>1, FS_AddElement
  <2> QED
    BY <1>2, <2>1, <2>2
<1> QED
  BY <1>4, <1>5

\* What a pull wants to add, and what it refreshes.
Wanted(p) == {s \in Stem : pull[p].plan[s] = "missing" /\ file[p][s] = NoFile}
Stale(p) ==
    {s \in Stem : pull[p].plan[s] = "stale" /\ IsMirror(file[p][s]) /\ StillClean(p, s)}

\* The effect of the commit on the store of its project.
LEMMA CommitEffect ==
    ASSUME TypeOK, NEW p \in Project, PullCommit(p)
    PROVE  \E shown \in SUBSET (Wanted(p) \cup Stale(p)) :
              LET landed == (Wanted(p) \cap shown) \cup Stale(p)
              IN  /\ \A s \in (Wanted(p) \cup Stale(p)) \ shown :
                        Cardinality((ptr[p] \cup shown) \cup {s}) > Cap
                  /\ ptr'[p] = ptr[p] \cup shown
                  /\ \A s \in Stem :
                        /\ file'[p][s] = IF s \in landed
                                         THEN Mirror(pull[p].seen[s], pull[p].seen[s])
                                         ELSE file[p][s]
                        /\ /\ s \in landed \/ pull[p].plan[s] = "in-sync"
                           /\ canon[s] # NoFile
                           => holder'[p][s] = canon[s]
                        /\ pull[p].plan[s] = "diverged" => s \in open'[p]
<1> DEFINE insync == {s \in Stem : pull[p].plan[s] = "in-sync"}
<1>1. PICK shown \in SUBSET (Wanted(p) \cup Stale(p)) :
         LET landed == (Wanted(p) \cap shown) \cup Stale(p)
             held == {s \in landed \cup insync : canon[s] # NoFile}
         IN  /\ \A s \in (Wanted(p) \cup Stale(p)) \ shown :
                        Cardinality((ptr[p] \cup shown) \cup {s}) > Cap
             /\ file' = [file EXCEPT ![p] =
                        [s \in Stem |-> IF s \in landed THEN Mirror(pull[p].seen[s], pull[p].seen[s])
                                        ELSE file[p][s]]]
             /\ ptr' = [ptr EXCEPT ![p] = ptr[p] \cup shown]
             /\ holder' = [holder EXCEPT ![p] =
                        [s \in Stem |-> IF s \in held THEN canon[s] ELSE holder[p][s]]]
  BY DEF PullCommit, Wanted, Stale
<1>2. open' = [open EXCEPT ![p] = @ \cup {s \in Stem : pull[p].plan[s] = "diverged"}]
  BY DEF PullCommit
<1>3. ptr'[p] = ptr[p] \cup shown
  BY <1>1 DEF TypeOK
<1>4. ASSUME NEW s \in Stem
      PROVE  file'[p][s] = IF s \in (Wanted(p) \cap shown) \cup Stale(p)
                           THEN Mirror(pull[p].seen[s], pull[p].seen[s]) ELSE file[p][s]
  BY <1>1 DEF TypeOK
<1>5. ASSUME NEW s \in Stem, canon[s] # NoFile,
             s \in (Wanted(p) \cap shown) \cup Stale(p) \/ pull[p].plan[s] = "in-sync"
      PROVE  holder'[p][s] = canon[s]
  BY <1>1, <1>5 DEF TypeOK
<1>6. ASSUME NEW s \in Stem, pull[p].plan[s] = "diverged" PROVE s \in open'[p]
  BY <1>2, <1>6 DEF TypeOK
<1> QED
  BY <1>1, <1>3, <1>4, <1>5, <1>6

\* Only the commit ends a pull that has planned.
LEMMA EndsByCommit ==
    ASSUME TypeOK, [Next]_vars, NEW p \in Project,
           pull[p] # NoSession, pull[p].pc = "commit", pull'[p] = NoSession
    PROVE  PullCommit(p)
<1>1. pull'[p] # pull[p]
  OBVIOUS
<1>2. CASE UNCHANGED vars
  BY <1>1, <1>2 DEF vars, sessions
<1>3. ASSUME NEW q \in Project, Command(q, Stem, Text) PROVE FALSE
  <2>1. UNCHANGED pull
    BY <1>3 DEF Command, Upsert, Resurrect, Forget, SetCanonicalStatus, PromoteBegin,
       ResolvePromoteLocal, PromoteCommit, PromoteRefused, KeepCanonical, ForkLocal, Restamp,
       Unenroll, Enroll, sessions
  <2> QED
    BY <1>1, <2>1
<1>4. ASSUME NEW q \in Project, Sync(q) PROVE PullCommit(p)
  <2>1. CASE PullCommit(q)
    <3>1. q = p
      BY <1>1, <2>1 DEF PullCommit, TypeOK
    <3> QED
      BY <2>1, <3>1
  <2>2. CASE PullBegin(q) \/ GcBegin(q) \/ AckScan(q) \/ (\E late \in BOOLEAN : AckCommit(q, late))
             \/ PullPlan(q) \/ GcApply(q)
    <3>1. pull[q] = NoSession \/ pull[q].pc # "commit"
      BY <2>2 DEF PullBegin, GcBegin, AckScan, AckCommit, PullPlan, GcApply
    <3>2. q # p
      BY <3>1
    <3>3. \E next : pull' = [pull EXCEPT ![q] = next]
      BY <2>2 DEF PullBegin, GcBegin, AckScan, AckCommit, PullPlan, GcApply
    <3> QED
      BY <1>1, <3>2, <3>3 DEF TypeOK
  <2> QED
    BY <1>4, <2>1, <2>2 DEF Sync
<1>5. ASSUME UserStep(Project, Stem, Text) PROVE FALSE
  <2>1. UNCHANGED pull
    BY <1>5 DEF UserStep, WriteOwn, EditMirror, DeleteFile, Toggle, HandEdit, HandDelete, sessions
  <2> QED
    BY <1>1, <2>1
<1> QED
  BY <1>2, <1>3, <1>4, <1>5 DEF Next, Step

Settled(p, s) ==
    LET f == file'[p][s]
        c == canon'[s]
    IN  \/ IsOwn(f)
        \/ f = NoFile /\ Cardinality(ptr'[p]) >= Cap
        \/ IsMirror(f) /\ f.sem = c /\ holder'[p][s] = c
        \/ IsMirror(f) /\ s \in open'[p]

\* The status of a fact that was seen, and what it says of the file.
LEMMA StatusMeans ==
    ASSUME TypeOK, NEW p \in Project, NEW s \in Stem, NEW fast \in BOOLEAN, canon[s] # NoFile
    PROVE  LET st == StatusOf(p, s, canon[s], fast)
               f == file[p][s]
           IN  /\ st \in {"none", "missing", "in-sync", "diverged", "stale"}
               /\ st = "none" => IsOwn(f)
               /\ st = "missing" => f = NoFile
               /\ st = "in-sync" => IsMirror(f) /\ f.sem = canon[s]
               /\ st = "diverged" => IsMirror(f)
               /\ st = "stale" => IsMirror(f) /\ StillClean(p, s)
<1> DEFINE f == file[p][s]
           base == IF holder[p][s] = None /\ IsMirror(f) THEN f.at ELSE holder[p][s]
           synced == f.sem = canon[s]
                     /\ (f.at = canon[s] \/ (fast /\ BodyOf[f.at.text] = BodyOf[canon[s].text]))
<1>1. StatusOf(p, s, canon[s], fast) =
        IF f = NoFile THEN "missing"
        ELSE IF IsOwn(f) THEN "none"
        ELSE IF synced THEN "in-sync"
        ELSE IF Decision(f, canon[s], base) \in Diverged THEN "diverged" ELSE "stale"
  BY Zenon DEF StatusOf
<1>2. f # NoFile /\ ~IsOwn(f) => IsMirror(f)
  BY DEF TypeOK, OwnFile, MirrorFile, IsOwn, IsMirror
<1>3. IsMirror(f) /\ Decision(f, canon[s], base) \notin Diverged => StillClean(p, s)
  BY DEF StillClean
<1>4. synced => f.sem = canon[s]
  OBVIOUS
<1> HIDE DEF synced, base, f
<1>5. f = file[p][s]
  BY DEF f
<1> QED
  BY <1>1, <1>2, <1>3, <1>4, <1>5

\* Whatever the status a fact was planned with, the commit settles it.
LEMMA CommitSettles ==
    ASSUME TypeOK, PlanSeen, NEW p \in Project, NEW s \in Stem,
           PullCommit(p), Undisturbed(p), pull[p].seen[s] # NoFile
    PROVE  Settled(p, s)
<1> DEFINE m == pull[p]
<1>1. m.seen[s] = canon[s] /\ canon[s] # NoFile /\ canon'[s] = canon[s]
  BY DEF Undisturbed, PullCommit
<1>2. PICK fast \in BOOLEAN : m.plan \in Plans(p, m.seen, fast)
  BY DEF Undisturbed
<1> DEFINE costly == Costly(p, m.seen, fast)
<1>3. PICK take \in SUBSET costly :
          /\ Cardinality(take) = IF Room(ptr[p]) < Cardinality(costly) THEN Room(ptr[p])
                                 ELSE Cardinality(costly)
          /\ \A x \in Stem : m.plan[x] = IF x \in costly \ take THEN "held"
                                         ELSE StatusOf(p, x, m.seen[x], fast)
  BY <1>2, PlanHolds
<1>4. PICK shown \in SUBSET (Wanted(p) \cup Stale(p)) :
        /\ \A x \in (Wanted(p) \cup Stale(p)) \ shown :
                        Cardinality((ptr[p] \cup shown) \cup {x}) > Cap
        /\ ptr'[p] = ptr[p] \cup shown
        /\ file'[p][s] = IF s \in (Wanted(p) \cap shown) \cup Stale(p)
                         THEN Mirror(canon[s], canon[s]) ELSE file[p][s]
        /\ s \in (Wanted(p) \cap shown) \cup Stale(p) \/ m.plan[s] = "in-sync"
           => holder'[p][s] = canon[s]
        /\ m.plan[s] = "diverged" => s \in open'[p]
  BY <1>1, CommitEffect
<1>5. /\ StatusOf(p, s, canon[s], fast) \in {"none", "missing", "in-sync", "diverged", "stale"}
      /\ StatusOf(p, s, canon[s], fast) = "none" => IsOwn(file[p][s])
      /\ StatusOf(p, s, canon[s], fast) = "missing" => file[p][s] = NoFile
      /\ StatusOf(p, s, canon[s], fast) = "in-sync" =>
            IsMirror(file[p][s]) /\ file[p][s].sem = canon[s]
      /\ StatusOf(p, s, canon[s], fast) = "diverged" => IsMirror(file[p][s])
      /\ StatusOf(p, s, canon[s], fast) = "stale" => IsMirror(file[p][s]) /\ StillClean(p, s)
  BY <1>1, StatusMeans
<1>6. Mirror(canon[s], canon[s]) # NoFile
  BY <1>1, CanonTyped, MirrorIsThere
<1>7. ASSUME s \in (Wanted(p) \cap shown) \cup Stale(p) PROVE Settled(p, s)
  BY <1>1, <1>4, <1>6, <1>7 DEF Settled, IsMirror, Mirror
<1>8. s \in costly => file[p][s] = NoFile
  BY <1>1, <1>5 DEF Costly
<1>9. s \in costly \ take => m.plan[s] = "held"
  BY <1>3
<1>10. s \notin costly \ take => m.plan[s] = StatusOf(p, s, canon[s], fast)
  BY <1>1, <1>3
<1>11. /\ costly \in SUBSET (Stem \ ptr[p]) /\ ptr[p] \in SUBSET Stem /\ shown \in SUBSET Stem
  BY DEF Costly, TypeOK, Wanted, Stale
<1>12. \A x \in take : x \in Wanted(p)
  <2>1. ASSUME NEW x \in take PROVE x \in Wanted(p)
    <3>1. x \in Stem /\ StatusOf(p, x, m.seen[x], fast) = "missing" /\ m.plan[x] = "missing"
      BY <1>3 DEF Costly
    <3>2. file[p][x] = NoFile
      BY <3>1, Zenon DEF StatusOf
    <3> QED
      BY <3>1, <3>2 DEF Wanted
  <2> QED
    BY <2>1
<1> HIDE DEF m, costly
<1>13. CASE s \in costly \ take
  <2>1. costly # take
    BY <1>13
  <2>2. Cardinality(ptr'[p]) >= Cap
    BY <1>3, <1>4, <1>11, <1>12, <2>1, HeldBackWhenFull
  <2>3. s \notin Wanted(p) \cup Stale(p)
    BY <1>9, <1>13 DEF Wanted, Stale, m
  <2> QED
    BY <1>4, <1>8, <1>13, <2>2, <2>3 DEF Settled
<1>14. CASE s \notin costly \ take
  <2>1. CASE m.plan[s] = "none"
    BY <1>4, <1>5, <1>10, <1>14, <2>1 DEF Settled, Wanted, Stale, m
  <2>2. CASE m.plan[s] = "missing"
    <3>1. s \in Wanted(p) /\ file[p][s] = NoFile
      BY <1>5, <1>10, <1>14, <2>2 DEF Wanted, m
    <3>2. CASE s \in shown
      BY <1>7, <3>1, <3>2
    <3>3. CASE s \notin shown
      <4>1. Cardinality((ptr[p] \cup shown) \cup {s}) > Cap
        BY <1>4, <3>1, <3>3
      <4>2. IsFiniteSet(ptr[p] \cup shown)
        BY <1>11, SyncDistinct, FS_Subset
      <4>3. Cardinality(ptr[p] \cup shown) >= Cap
        <5>1. Cardinality((ptr[p] \cup shown) \cup {s}) \in
                {Cardinality(ptr[p] \cup shown), Cardinality(ptr[p] \cup shown) + 1}
          BY <4>2, FS_AddElement
        <5>2. Cardinality(ptr[p] \cup shown) \in Nat /\ Cap \in Nat
          BY <4>2, FS_CardinalityType, SyncShapes
        <5> QED
          BY <4>1, <5>1, <5>2
      <4>4. s \notin Stale(p)
        BY <3>1 DEF Stale, IsMirror
      <4> QED
        BY <1>4, <3>1, <3>3, <4>3, <4>4 DEF Settled
    <3> QED
      BY <3>2, <3>3
  <2>3. CASE m.plan[s] = "in-sync"
    BY <1>1, <1>4, <1>5, <1>10, <1>14, <2>3 DEF Settled, Wanted, Stale, m
  <2>4. CASE m.plan[s] = "diverged"
    BY <1>4, <1>5, <1>10, <1>14, <2>4 DEF Settled, Wanted, Stale, m
  <2>5. CASE m.plan[s] = "stale"
    BY <1>5, <1>7, <1>10, <1>14, <2>5 DEF Stale, m
  <2> QED
    BY <1>5, <1>10, <1>14, <2>1, <2>2, <2>3, <2>4, <2>5
<1> QED
  BY <1>13, <1>14

(* A pull nobody disturbs between its plan and its commit settles every    *)
(* fact it saw, for any facts, texts and ceiling of the index.             *)
THEOREM PullsSettle == Spec => PullSettles
<1>1. ASSUME IInv, [Next]_vars, NEW p \in Project, Undisturbed(p), pull'[p] = NoSession,
             NEW s \in Stem, pull[p].seen[s] # NoFile
      PROVE  Settled(p, s)
  <2>1. PullCommit(p)
    BY <1>1, EndsByCommit DEF IInv, Undisturbed
  <2> QED
    BY <1>1, <2>1, CommitSettles DEF IInv
<1>2. IInv /\ [Next]_vars =>
        [\A p \in Project : Undisturbed(p) /\ pull'[p] = NoSession =>
          \A s \in Stem : pull[p].seen[s] # NoFile =>
              LET f == file'[p][s]
                  c == canon'[s]
              IN  \/ IsOwn(f)
                  \/ f = NoFile /\ Cardinality(ptr'[p]) >= Cap
                  \/ IsMirror(f) /\ f.sem = c /\ holder'[p][s] = c
                  \/ IsMirror(f) /\ s \in open'[p]]_vars
  BY <1>1 DEF Settled
<1> QED
  BY <1>2, Typed, PTL DEF Spec, PullSettles

=============================================================================
