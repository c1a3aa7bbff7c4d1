----------------------------- MODULE MirrorSync -----------------------------
(***************************************************************************)
(* The shared facts of one domain and the copies of them its projects      *)
(* hold: the canonical writers (canonical_ingress.py), promote, --pull and *)
(* --gc (sync_global.py), the conflict commands and the revocation of an   *)
(* unenrolled project (cm_ops.py).                                         *)
(*                                                                         *)
(* Every write is one transact, atomic here and verified against its own   *)
(* expected revisions (JournalTx has its interior), and transacts          *)
(* serialise on the mutation locks (MutationLocks).  What is left to       *)
(* interleave is what a command reads before its transact: a pull reads    *)
(* the canonicals, acknowledges the dead ones, plans, and commits in four  *)
(* steps, a promote in two, and other sessions and the user act between    *)
(* them.  A text is a model value; a revision (semantic_hash) is the       *)
(* record of what it hashes: status, text, replacement.                    *)
(***************************************************************************)
EXTENDS FactPolicy

CONSTANTS
    Project, Stem,
    Text,        \* what a user may write in a fact
    StubText,    \* the body of a tombstone stub
    BodyOf,      \* the body of a text; texts that share one differ in frontmatter
    Retired,     \* the statuses cm canonical sets besides active
    Cap,         \* pointers an index may hold (token ceiling, 200 lines, 25 KB)
    NoFile,
    MaxOps       \* bound on the commands and edits of a behaviour, pulls excepted

ASSUME SyncShapes ==
    /\ StubText \notin Text
    /\ BodyOf \in [Text \cup {StubText} -> Nat]
    /\ Retired \subseteq {"superseded", "expired"}
    /\ Cap \in Nat /\ MaxOps \in Nat

Status == {"active", "tombstoned"} \cup Retired
AnyText == Text \cup {StubText}
Revision == [status : Status, text : AnyText, repl : Stem \cup {None}]
Fresh(t) == [status |-> "active", text |-> t, repl |-> None]
Stub(r) == [status |-> "tombstoned", text |-> StubText, repl |-> r]

\* A file of a native store: the project's own, or a mirror with what it says
\* now (sem) and the canonical revision it was stamped at (at).
Own(t) == [kind |-> "own", text |-> t]
Mirror(sem, at) == [kind |-> "mirror", sem |-> sem, at |-> at]
OwnFile == [kind : {"own"}, text : AnyText]
MirrorFile == [kind : {"mirror"}, sem : Revision, at : Revision]
ASSUME SyncDistinct ==
    /\ IsFiniteSet(Stem)
    /\ None \notin Stem
    /\ NoFile \notin Revision \cup OwnFile \cup MirrorFile

VARIABLES
    canon,       \* [Stem -> the canonical file]
    tomb,        \* stems with a tombstones row
    factStatus,  \* [Stem -> status in the facts table]
    holder,      \* [Project -> [Stem -> base revision of the holders row]]
    open,        \* [Project -> stems with an unresolved conflicts row]
    file,        \* [Project -> [Stem -> file of the native store]]
    ptr,         \* [Project -> stems its MEMORY.md points to]
    quar,        \* [Project -> contents under quarantine/]
    entitled,    \* [Project -> stems admitted and relevant to it]
    enrolled,    \* projects enrolled in the domain
    pull,        \* [Project -> its running --pull or --gc]
    prom,        \* [Project -> its running promote]
    ops

registry == <<tomb, factStatus, holder, open>>
store == <<file, ptr, quar>>
grants == <<entitled, enrolled>>
sessions == <<pull, prom>>
vars == <<canon, registry, store, grants, sessions, ops>>

NoSession == [kind |-> "none"]
Seen == [Stem -> Revision \cup {NoFile}]
Plan == [Stem -> {"none", "held", "missing", "stale", "in-sync", "diverged"}]

PullSession ==
    [kind : {"pull", "gc"}, pc : {"scan"}, seen : Seen]
    \cup [kind : {"pull", "gc"}, pc : {"ack"}, seen : Seen,
          todo : SUBSET (Stem \X (Stem \cup {None}))]
    \cup [kind : {"pull", "gc"}, pc : {"plan"}, seen : Seen]
    \cup [kind : {"pull"}, pc : {"commit"}, seen : Seen, plan : Plan]
PromoteSession ==
    [kind : {"create", "reconcile", "promote-local"}, src : Stem, dst : Stem, text : AnyText]

TypeOK ==
    /\ canon \in [Stem -> Revision \cup {NoFile}]
    /\ tomb \subseteq Stem
    /\ factStatus \in [Stem -> Status \cup {None}]
    /\ holder \in [Project -> [Stem -> Revision \cup {None}]]
    /\ open \in [Project -> SUBSET Stem]
    /\ file \in [Project -> [Stem -> {NoFile} \cup OwnFile \cup MirrorFile]]
    /\ ptr \in [Project -> SUBSET Stem]
    /\ quar \in [Project -> SUBSET Revision]
    /\ entitled \in [Project -> SUBSET Stem]
    /\ enrolled \subseteq Project
    /\ pull \in [Project -> {NoSession} \cup PullSession]
    /\ prom \in [Project -> {NoSession} \cup PromoteSession]
    /\ ops \in 0..MaxOps

Init ==
    /\ canon = [s \in Stem |-> NoFile]
    /\ tomb = {}
    /\ factStatus = [s \in Stem |-> None]
    /\ holder = [p \in Project |-> [s \in Stem |-> None]]
    /\ open = [p \in Project |-> {}]
    /\ file = [p \in Project |-> [s \in Stem |-> NoFile]]
    /\ ptr = [p \in Project |-> {}]
    /\ quar = [p \in Project |-> {}]
    /\ entitled = [p \in Project |-> Stem]
    /\ enrolled = Project
    /\ pull = [p \in Project |-> NoSession]
    /\ prom = [p \in Project |-> NoSession]
    /\ ops = 0

Count == ops < MaxOps /\ ops' = ops + 1

IsMirror(f) == f # NoFile /\ f.kind = "mirror"
IsOwn(f) == f # NoFile /\ f.kind = "own"
TextOf(f) == IF f.kind = "own" THEN f.text ELSE f.sem.text
\* What an edit leaves in a file, and what quarantine keeps of it.
Content(f) == IF f.kind = "own" THEN Fresh(f.text) ELSE f.sem
Active(c) == c # NoFile /\ c.status = "active"

\* The three-way decision the commands take on a mirror they wrote themselves
\* (canonical_fact_id is stamped, so its frontmatter is never the base).
Decision(mirror, c, base) ==
    ClassifyMirror(
        [empty |-> FALSE, sem |-> mirror.sem, body |-> BodyOf[mirror.sem.text],
         refBody |-> BodyOf[mirror.at.text], stampBase |-> mirror.at],
        IF c = NoFile THEN [sem |-> NoFile, body |-> NoFile]
                      ELSE [sem |-> c, body |-> BodyOf[c.text]],
        base, FALSE)

\* Defect: the index keeps the pointers of what went.
ReclaimKeepsPointers(p, gone, kept) ==
    /\ file' = [file EXCEPT ![p] = [s \in Stem |-> IF s \in gone THEN NoFile ELSE @[s]]]
    /\ quar' = [quar EXCEPT ![p] = @ \cup {file[p][s].sem : s \in kept}]
    /\ holder' = [holder EXCEPT ![p] = [s \in Stem |-> IF s \in gone THEN None ELSE @[s]]]
    /\ UNCHANGED ptr

\* The mirrors gone leave the store, its index and the holders; those in kept go to
\* quarantine.
Reclaim(p, gone, kept) ==
    /\ file' = [file EXCEPT ![p] = [s \in Stem |-> IF s \in gone THEN NoFile ELSE @[s]]]
    /\ ptr' = [ptr EXCEPT ![p] = @ \ gone]
    /\ quar' = [quar EXCEPT ![p] = @ \cup {file[p][s].sem : s \in kept}]
    /\ holder' = [holder EXCEPT ![p] = [s \in Stem |-> IF s \in gone THEN None ELSE @[s]]]

---------------------------------------------------------------------------
(* The canonical writers.                                                  *)

\* upsert: the canonical, its facts row, and the writer's holder row, whose base
\* stays where it was.
WriteCanonical(p, s, c) ==
    /\ canon' = [canon EXCEPT ![s] = c]
    /\ factStatus' = [factStatus EXCEPT ![s] = "active"]
    /\ holder' = [holder EXCEPT ![p][s] = IF @ = None THEN c ELSE @]

Upsert(p, s, t) ==
    /\ Count
    /\ p \in enrolled /\ s \notin tomb
    /\ WriteCanonical(p, s, Fresh(t))
    /\ UNCHANGED <<tomb, open, store, grants, sessions>>

\* Defect: the tombstone row stays.
ResurrectKeepsRow(p, s, t) ==
    /\ Count
    /\ p \in enrolled
    /\ s \in tomb \/ (canon[s] # NoFile /\ canon[s].text = StubText)
    /\ WriteCanonical(p, s, Fresh(t))
    /\ UNCHANGED <<tomb, open, store, grants, sessions>>

\* resurrect: upsert with allow_resurrect, for a tombstoned stem or a stub.
Resurrect(p, s, t) ==
    /\ Count
    /\ p \in enrolled
    /\ s \in tomb \/ (canon[s] # NoFile /\ canon[s].text = StubText)
    /\ WriteCanonical(p, s, Fresh(t))
    /\ tomb' = tomb \ {s}
    /\ UNCHANGED <<open, store, grants, sessions>>

\* _validate_replacement_id: another fact whose chain of replacements does not
\* come back (a stub ends the chain, as _replacement_path does not return it).
NextRepl(r) == IF canon[r] = NoFile \/ canon[r].text = StubText THEN None ELSE canon[r].repl
ValidReplacement(s, r) ==
    LET walk[n \in 0..Cardinality(Stem)] ==
            IF n = 0 THEN r
            ELSE IF walk[n-1] = None THEN None ELSE NextRepl(walk[n-1])
    IN  walk[Cardinality(Stem)] = None /\ \A n \in DOMAIN walk : walk[n] # s

\* forget: tombstone row and stub, and in the same transact the caller's own
\* mirror goes, edited work to quarantine.
Forget(p, s, r) ==
    LET mine == file[p][s]
        keep == canon[s] = NoFile \/ Decision(mine, canon[s], holder[p][s]) \in Diverged
    IN  /\ Count
        /\ p \in enrolled
        /\ r = None \/ ValidReplacement(s, r)
        /\ canon' = [canon EXCEPT ![s] = Stub(r)]
        /\ tomb' = tomb \cup {s}
        /\ factStatus' = [factStatus EXCEPT ![s] = IF @ = None THEN None ELSE "tombstoned"]
        /\ IF IsMirror(mine)
           THEN Reclaim(p, {s}, IF keep THEN {s} ELSE {})
           ELSE /\ holder' = [holder EXCEPT ![p][s] = None]
                /\ UNCHANGED store
        /\ UNCHANGED <<open, grants, sessions>>

\* set_canonical_status: the file's sha was read first and is an expected revision.
SetCanonicalStatus(p, s, st, r) ==
    /\ Count
    /\ p \in enrolled /\ canon[s] # NoFile
    /\ r = None \/ ValidReplacement(s, r)
    /\ st = "active" => /\ canon[s].text # StubText
                        /\ canon[s].status \in {"superseded", "expired"}
    /\ canon' = [canon EXCEPT ![s].status = st, ![s].repl = IF r = None THEN @ ELSE r]
    /\ factStatus' = [factStatus EXCEPT ![s] = IF @ = None /\ st # "active" THEN None ELSE st]
    /\ tomb' = IF st = "active" THEN tomb \ {s} ELSE tomb
    /\ UNCHANGED <<holder, open, store, grants, sessions>>

---------------------------------------------------------------------------
(* promote and resolve --promote-local: the local text is read first, the  *)
(* upsert pins and overwrites whatever the file holds when it starts.      *)

PromoteBegin(p, src, dst, prefer) ==
    LET reconcile == canon[dst] # NoFile
    IN  /\ Count
        /\ p \in enrolled /\ prom[p] = NoSession
        /\ IsOwn(file[p][src])
        /\ src = dst \/ ~IsOwn(file[p][dst])
        /\ reconcile /\ ~prefer => BodyOf[file[p][src].text] = BodyOf[canon[dst].text]
        /\ prom' = [prom EXCEPT ![p] = [kind |-> IF reconcile THEN "reconcile" ELSE "create",
                                        src |-> src, dst |-> dst, text |-> file[p][src].text]]
        /\ UNCHANGED <<canon, registry, store, grants, pull>>

ResolvePromoteLocal(p, s) ==
    /\ Count
    /\ p \in enrolled /\ prom[p] = NoSession
    /\ file[p][s] # NoFile
    /\ prom' = [prom EXCEPT ![p] = [kind |-> "promote-local", src |-> s, dst |-> s,
                                    text |-> TextOf(file[p][s])]]
    /\ UNCHANGED <<canon, registry, store, grants, pull>>

\* The index a promote asks for: a rename drops the old name's pointer.
PromotedIndex(p, m) == (ptr[p] \ {m.src}) \cup {m.dst}

PromoteCommit(p) ==
    LET m == prom[p]
        c == IF m.kind = "reconcile" THEN canon[m.dst] ELSE Fresh(m.text)
        index == PromotedIndex(p, m)
    IN  /\ m # NoSession
        /\ m.dst \notin tomb
        /\ m.kind = "create" => canon[m.dst] = NoFile
        /\ m.kind = "reconcile" => canon[m.dst] # NoFile
        /\ Cardinality(index) <= Cap
        /\ WriteCanonical(p, m.dst, c)
        /\ file' = [file EXCEPT ![p] =
                      [s \in Stem |-> IF s = m.dst THEN Mirror(c, c)
                                      ELSE IF s = m.src THEN NoFile ELSE file[p][s]]]
        /\ ptr' = [ptr EXCEPT ![p] = index]
        /\ open' = [open EXCEPT ![p] = IF m.kind = "promote-local" THEN @ \ {m.dst} ELSE @]
        /\ prom' = [prom EXCEPT ![p] = NoSession]
        /\ UNCHANGED <<tomb, quar, grants, pull, ops>>

\* A refused upsert leaves everything as it was.
PromoteRefused(p) ==
    LET m == prom[p]
    IN  /\ m # NoSession
        /\ \/ m.dst \in tomb
           \/ m.kind = "create" /\ canon[m.dst] # NoFile
           \/ m.kind = "reconcile" /\ canon[m.dst] = NoFile
           \/ Cardinality(PromotedIndex(p, m)) > Cap
        /\ prom' = [prom EXCEPT ![p] = NoSession]
        /\ UNCHANGED <<canon, registry, store, grants, pull, ops>>

---------------------------------------------------------------------------
(* reconcile_inactive_mirrors: the acknowledgement of dead canonicals that *)
(* opens every pull and every gc.                                          *)

Dead(s) ==
    \/ canon[s] # NoFile /\ canon[s].status # "active"
    \/ s \in tomb
    \/ factStatus[s] \in Inactive
Held(p, s) == holder[p][s] # None /\ (s \in tomb \/ factStatus[s] \in Inactive)

PullBegin(p) ==
    /\ pull[p] = NoSession /\ p \in enrolled
    /\ pull' = [pull EXCEPT ![p] =
                  [kind |-> "pull", pc |-> "scan",
                   seen |-> [s \in Stem |->
                       IF s \in entitled[p] \ tomb /\ Active(canon[s]) THEN canon[s] ELSE NoFile]]]
    /\ UNCHANGED <<canon, registry, store, grants, prom, ops>>

\* gc refuses an empty domain: every mirror would look orphaned (Probe G).
GcBegin(p) ==
    /\ Count
    /\ pull[p] = NoSession /\ p \in enrolled
    /\ \E s \in Stem : canon[s] # NoFile
    /\ pull' = [pull EXCEPT ![p] =
                  [kind |-> "gc", pc |-> "scan", seen |-> [s \in Stem |-> NoFile]]]
    /\ UNCHANGED <<canon, registry, store, grants, prom>>

\* The scan takes no lock; its reasons are not looked at again.
AckScan(p) ==
    LET m == pull[p]
        todo == {<<s, IF canon[s] = NoFile THEN None ELSE canon[s].repl>> :
                    s \in {x \in Stem : (IsMirror(file[p][x]) /\ Dead(x)) \/ Held(p, x)}}
    IN  /\ m # NoSession /\ m.pc = "scan"
        /\ pull' = [pull EXCEPT ![p] =
              IF todo = {} THEN [kind |-> m.kind, pc |-> "plan", seen |-> m.seen]
              ELSE [kind |-> m.kind, pc |-> "ack", seen |-> m.seen, todo |-> todo]]
        /\ UNCHANGED <<canon, registry, store, grants, prom, ops>>

\* The replacements a scan asks for that can be installed now; a file of the
\* project's own is never clobbered.
Installable(p, todo) ==
    {x[2] : x \in {y \in todo : /\ y[2] \notin {None, y[1]}
                               /\ Active(canon[y[2]]) /\ canon[y[2]].text # StubText
                               /\ ~IsOwn(file[p][y[2]])}}

\* late: the order of the stems, when a replacement is itself in todo.
AckCommit(p, late) ==
    LET m == pull[p]
        dead == {x[1] : x \in m.todo}
        new == Installable(p, m.todo)
        gone == {s \in dead : IsMirror(file[p][s])}
        lost == IF late THEN dead ELSE dead \ new
        kept == {s \in gone : Decision(file[p][s], canon[s], holder[p][s]) \in Diverged}
        noptr == {s \in dead : ~IsOwn(file[p][s])}
        index == (ptr[p] \ noptr) \cup (IF late THEN new \ noptr ELSE new)
        next == [kind |-> m.kind, pc |-> "plan", seen |-> m.seen]
    IN  /\ m # NoSession /\ m.pc = "ack"
        /\ IF Cardinality(index) > Cap /\ index # ptr[p]
           THEN /\ pull' = [pull EXCEPT ![p] = NoSession]   \* refused, exit 2
                /\ UNCHANGED <<holder, store>>
           ELSE /\ file' = [file EXCEPT ![p] =
                      [s \in Stem |-> IF s \in new THEN Mirror(canon[s], canon[s])
                                      ELSE IF s \in gone THEN NoFile ELSE file[p][s]]]
                /\ ptr' = [ptr EXCEPT ![p] = index]
                /\ quar' = [quar EXCEPT ![p] = @ \cup {file[p][s].sem : s \in kept}]
                /\ holder' = [holder EXCEPT ![p] =
                      [s \in Stem |-> IF s \in lost THEN None
                                      ELSE IF s \in new THEN canon[s] ELSE holder[p][s]]]
                /\ pull' = [pull EXCEPT ![p] = next]
        /\ UNCHANGED <<canon, tomb, factStatus, open, grants, prom, ops>>

---------------------------------------------------------------------------
(* --pull                                                                  *)

\* The status of a fact in the store: text is the canonical's, fast says that a
\* fresh manifest row decided on the stamps instead of the bytes.
StatusOf(p, s, text, fast) ==
    LET f == file[p][s]
        base == IF holder[p][s] = None /\ IsMirror(f) THEN f.at ELSE holder[p][s]
    IN  IF text = NoFile THEN "none"
        ELSE IF f = NoFile THEN "missing"
        ELSE IF IsOwn(f) THEN "none"
        ELSE IF f.sem = text /\ (f.at = text \/ (fast /\ BodyOf[f.at.text] = BodyOf[text.text]))
        THEN "in-sync"
        ELSE IF Decision(f, text, base) \in Diverged THEN "diverged" ELSE "stale"

\* Defect: the index is full one pointer early.
RoomShort(index) == IF Cap > Cardinality(index) + 1 THEN Cap - Cardinality(index) - 1 ELSE 0

Room(index) == IF Cap > Cardinality(index) THEN Cap - Cardinality(index) ELSE 0

\* _plan_pull: a missing fact that would grow the index past the ceiling is held;
\* one whose pointer is already there costs nothing; refreshes always run.
Plans(p, seen, fast) ==
    LET raw == [s \in Stem |-> StatusOf(p, s, seen[s], fast)]
        costly == {s \in Stem : raw[s] = "missing" /\ s \notin ptr[p]}
        room == Room(ptr[p])
    IN  {[s \in Stem |-> IF s \in costly \ take THEN "held" ELSE raw[s]] :
            take \in {t \in SUBSET costly :
                        Cardinality(t) = IF room < Cardinality(costly) THEN room
                                         ELSE Cardinality(costly)}}

\* served: the facts manifest served the rows and the bodies are read only now.
PullPlan(p) ==
    LET m == pull[p]
    IN  /\ m # NoSession /\ m.pc = "plan" /\ m.kind = "pull"
        /\ \E served \in BOOLEAN :
              LET seen == [s \in Stem |-> IF served /\ m.seen[s] # NoFile THEN canon[s]
                                          ELSE m.seen[s]]
              IN  \E plan \in Plans(p, seen, served) :
                    pull' = [pull EXCEPT ![p] =
                      [kind |-> "pull", pc |-> "commit", seen |-> seen, plan |-> plan]]
        /\ UNCHANGED <<canon, registry, store, grants, prom, ops>>

\* Defect: what was planned is overwritten without another look.
PlanTrusted(p, s) == TRUE

\* The decision under the lock: a mirror with no holder row is its own witness.
StillClean(p, s) ==
    LET f == file[p][s]
    IN  Decision(f, canon[s], IF holder[p][s] = None THEN f.at ELSE holder[p][s]) \notin Diverged

\* _execute_pull_writes.  The text written is the one read before the plan; the
\* base recorded is the revision the canonical has now.
PullCommit(p) ==
    LET m == pull[p]
        wanted == {s \in Stem : m.plan[s] = "missing" /\ file[p][s] = NoFile}
        stale == {s \in Stem : m.plan[s] = "stale" /\ IsMirror(file[p][s]) /\ StillClean(p, s)}
        insync == {s \in Stem : m.plan[s] = "in-sync"}
    IN  /\ m # NoSession /\ m.pc = "commit"
        /\ \E shown \in SUBSET (wanted \cup stale) :
              LET index == ptr[p] \cup shown
                  landed == (wanted \cap shown) \cup stale
                  held == {s \in landed \cup insync : canon[s] # NoFile}
              IN  \* the index admits them one by one until it is full
                  /\ shown # {} => Cardinality(index) <= Cap
                  /\ \A s \in (wanted \cup stale) \ shown : Cardinality(index \cup {s}) > Cap
                  /\ file' = [file EXCEPT ![p] =
                        [s \in Stem |-> IF s \in landed THEN Mirror(m.seen[s], m.seen[s])
                                        ELSE file[p][s]]]
                  /\ ptr' = [ptr EXCEPT ![p] = index]
                  /\ holder' = [holder EXCEPT ![p] =
                        [s \in Stem |-> IF s \in held THEN canon[s] ELSE holder[p][s]]]
        /\ open' = [open EXCEPT ![p] = @ \cup {s \in Stem : m.plan[s] = "diverged"}]
        /\ pull' = [pull EXCEPT ![p] = NoSession]
        /\ UNCHANGED <<canon, tomb, factStatus, quar, grants, prom, ops>>

---------------------------------------------------------------------------
(* --gc --apply.  Each name the scan found is verified again under the     *)
(* lock, against a fresh read of the registry.                             *)

Reclaimable(p) ==
    {s \in Stem : IsMirror(file[p][s]) /\ (Active(canon[s]) => s \notin entitled[p])}

\* frozen: compared with the live canonical; orphan: only the body, with its stamp.
EditedForGc(p, s) ==
    LET f == file[p][s]
    IN  IF Active(canon[s]) THEN f.sem # canon[s]
        ELSE BodyOf[f.sem.text] # BodyOf[f.at.text]

GcApply(p) ==
    /\ pull[p] # NoSession /\ pull[p].pc = "plan" /\ pull[p].kind = "gc"
    /\ \E names \in SUBSET Reclaimable(p) :
          Reclaim(p, names, {s \in names : EditedForGc(p, s)})
    /\ pull' = [pull EXCEPT ![p] = NoSession]
    /\ UNCHANGED <<canon, tomb, factStatus, open, grants, prom, ops>>

---------------------------------------------------------------------------
(* cm resolve, cm repair-mirror, cm project unenroll                       *)

\* Defect: the base recorded is the text, not its revision.
RestampByText(p, s) ==
    /\ p \in enrolled /\ Active(canon[s])
    /\ holder' = [holder EXCEPT ![p][s] = canon[s].text]
    /\ open' = [open EXCEPT ![p] = @ \ {s}]
    /\ UNCHANGED <<canon, tomb, factStatus, ptr, quar, grants, sessions>>

\* _restamp_from_canonical: what the user asked for, whatever the file holds.
Restamp(p, s) ==
    /\ p \in enrolled /\ Active(canon[s])
    /\ holder' = [holder EXCEPT ![p][s] = canon[s]]
    /\ open' = [open EXCEPT ![p] = @ \ {s}]
    /\ UNCHANGED <<canon, tomb, factStatus, ptr, quar, grants, sessions>>

KeepCanonical(p, s) ==   \* and repair-mirror, which accepts an absent file
    /\ Count
    /\ Restamp(p, s)
    /\ file' = [file EXCEPT ![p][s] = Mirror(canon[s], canon[s])]

ForkLocal(p, s, d) ==
    /\ Count
    /\ file[p][s] # NoFile /\ file[p][d] = NoFile /\ d # s
    /\ Restamp(p, s)
    /\ file' = [file EXCEPT ![p][s] = Mirror(canon[s], canon[s]),
                            ![p][d] = Own(TextOf(file[p][s]))]

\* The revoke plan of unenroll: every mirror leaves; an edited one, one whose body
\* is not its canonical's and one without a canonical go to quarantine.
Unenroll(p) ==
    LET gone == {s \in Stem : IsMirror(file[p][s])}
        kept == {s \in gone : \/ canon[s] = NoFile
                              \/ Decision(file[p][s], canon[s], holder[p][s]) \in Diverged
                              \/ BodyOf[file[p][s].sem.text] # BodyOf[canon[s].text]}
    IN  /\ Count
        /\ p \in enrolled
        /\ enrolled' = enrolled \ {p}
        /\ Reclaim(p, gone, kept)
        /\ UNCHANGED <<canon, tomb, factStatus, open, entitled, sessions>>

Enroll(p) ==
    /\ Count
    /\ p \notin enrolled
    /\ enrolled' = enrolled \cup {p}
    /\ UNCHANGED <<canon, registry, store, entitled, sessions>>

\* A stack dropped or detected again, a group membership granted or removed, a
\* group recreated: the fact stops or starts being the project's.
Toggle(p, s) ==
    /\ Count
    /\ entitled' = [entitled EXCEPT ![p] = IF s \in @ THEN @ \ {s} ELSE @ \cup {s}]
    /\ UNCHANGED <<canon, registry, store, enrolled, sessions>>

---------------------------------------------------------------------------
(* The user, who takes no lock.                                            *)

WriteOwn(p, s, t) ==
    /\ Count
    /\ ~IsMirror(file[p][s]) /\ file[p][s] # Own(t)
    /\ file' = [file EXCEPT ![p][s] = Own(t)]
    /\ ptr' = [ptr EXCEPT ![p] = IF Cardinality(@ \cup {s}) <= Cap THEN @ \cup {s} ELSE @]
    /\ UNCHANGED <<canon, registry, quar, grants, sessions>>

EditMirror(p, s, t) ==
    /\ Count
    /\ IsMirror(file[p][s]) /\ file[p][s].sem.text # t
    /\ file' = [file EXCEPT ![p][s].sem.text = t]
    /\ UNCHANGED <<canon, registry, ptr, quar, grants, sessions>>

DeleteFile(p, s) ==
    /\ Count
    /\ file[p][s] # NoFile
    /\ file' = [file EXCEPT ![p][s] = NoFile]
    /\ UNCHANGED <<canon, registry, ptr, quar, grants, sessions>>

HandEdit(s, t) ==
    /\ Count
    /\ canon[s] # NoFile /\ canon[s].text \notin {t, StubText}
    /\ canon' = [canon EXCEPT ![s].text = t]
    /\ UNCHANGED <<registry, store, grants, sessions>>

HandDelete(s) ==
    /\ Count
    /\ canon[s] # NoFile
    /\ canon' = [canon EXCEPT ![s] = NoFile]
    /\ UNCHANGED <<registry, store, grants, sessions>>

Command(p, S, T) ==
    \/ \E s \in S, t \in T : Upsert(p, s, t) \/ Resurrect(p, s, t)
    \/ \E s \in S, r \in S \cup {None} : Forget(p, s, r)
    \/ \E s \in S, r \in S \cup {None}, st \in Retired \cup {"active"} :
            SetCanonicalStatus(p, s, st, r)
    \/ \E src, dst \in S, prefer \in BOOLEAN : PromoteBegin(p, src, dst, prefer)
    \/ \E s \in S : ResolvePromoteLocal(p, s)
    \/ PromoteCommit(p) \/ PromoteRefused(p)
    \/ \E s \in S : KeepCanonical(p, s)
    \/ \E s, d \in S : ForkLocal(p, s, d)
    \/ Unenroll(p) \/ Enroll(p)

Sync(p) ==
    \/ PullBegin(p) \/ GcBegin(p) \/ AckScan(p)
    \/ \E late \in BOOLEAN : AckCommit(p, late)
    \/ PullPlan(p) \/ PullCommit(p) \/ GcApply(p)

UserStep(P, S, T) ==
    \/ \E p \in P, s \in S, t \in T : WriteOwn(p, s, t) \/ EditMirror(p, s, t)
    \/ \E p \in P, s \in S : DeleteFile(p, s) \/ Toggle(p, s)
    \/ \E s \in S, t \in T : HandEdit(s, t)
    \/ \E s \in S : HandDelete(s)

\* The steps of the projects P on the facts S with the texts T.
Step(P, S, T) == (\E p \in P : Command(p, S, T) \/ Sync(p)) \/ UserStep(P, S, T)

Next == Step(Project, Stem, Text)

Spec == Init /\ [][Next]_vars

---------------------------------------------------------------------------
(* Properties                                                              *)

(* A tombstone row or an inactive facts row never outlives its fact's      *)
(* return: the acknowledgement takes mirrors away on the row alone, so a   *)
(* live canonical with a dead row would lose its mirrors at every pull.    *)
NoGhostTombstone ==
    \A s \in Stem : s \in tomb \/ factStatus[s] \in Inactive => ~Active(canon[s])

(* Work only this store holds: a file of the project's own, or a mirror    *)
(* whose body is not the one it was stamped with and which is neither its  *)
(* canonical nor the base on record, which a pull cannot tell from an      *)
(* unedited mirror.                                                        *)
Work(p, s) ==
    LET f == file[p][s]
    IN  \/ IsOwn(f)
        \/ /\ IsMirror(f) /\ BodyOf[f.sem.text] # BodyOf[f.at.text]
           /\ f.sem \notin {canon[s], holder[p][s]}

Kept(p, s) ==
    LET body == BodyOf[TextOf(file[p][s])]
    IN  \/ \E x \in Stem : file'[p][x] # NoFile /\ BodyOf[TextOf(file'[p][x])] = body
        \/ \E x \in Stem : canon'[x] # NoFile /\ BodyOf[canon'[x].text] = body
        \/ \E c \in quar'[p] : BodyOf[c.text] = body

\* A promote whose file or canonical changed between its reading and its upsert,
\* one that prefers the canonical, and what a rename finds under its new name.
Waived(p, s) ==
    LET m == prom[p]
    IN  /\ m # NoSession /\ prom'[p] # m
        /\ \/ file[p][m.src] = NoFile
           \/ TextOf(file[p][m.src]) # m.text
           \/ /\ m.kind = "reconcile" /\ canon[m.dst] # NoFile
              /\ BodyOf[m.text] # BodyOf[canon[m.dst].text]
           \/ s = m.dst /\ s # m.src

Replaced(p, s) ==
    /\ pull[p] # NoSession /\ pull[p].pc = "ack"
    /\ s \in Installable(p, pull[p].todo)

Careful(p) ==
    pull'[p] # pull[p] \/ prom'[p] # prom[p] \/ enrolled' # enrolled \/ canon' # canon

(* No pull, gc, acknowledgement, forget, revocation or undisturbed promote *)
(* destroys the user's work, whatever was edited since the command read    *)
(* the store: it stays in place, or its body is kept under quarantine/ or  *)
(* in a canonical.                                                         *)
WorkKept ==
    [][\A p \in Project, s \in Stem :
          Work(p, s) /\ Careful(p) /\ ~Replaced(p, s) /\ ~Waived(p, s) => Kept(p, s)]_vars

(* ADR 005: a local edit survives the next dream, also the one its         *)
(* acknowledgement of dead canonicals comes upon.                          *)
LocalEditSurvives ==
    [][\A p \in Project, s \in Stem :
          pull'[p] # pull[p] /\ Work(p, s) => Kept(p, s)]_vars

\* The pull of p commits on what it read: nothing it looked at has changed.
Undisturbed(p) ==
    LET m == pull[p]
    IN  /\ m # NoSession /\ m.pc = "commit"
        /\ \A s \in Stem :
              m.seen[s] = IF s \in entitled[p] \ tomb /\ Active(canon[s]) THEN canon[s] ELSE NoFile
        /\ m.plan \in Plans(p, m.seen, TRUE) \cup Plans(p, m.seen, FALSE)

(* A pull nobody disturbs settles every fact of the project: its mirror is *)
(* at the canonical with the base recorded there, or the index is full, or *)
(* the file is the project's own, or the divergence is on record for cm    *)
(* resolve.                                                                *)
PullSettles ==
    [][\A p \in Project : Undisturbed(p) /\ pull'[p] = NoSession =>
          \A s \in Stem : pull[p].seen[s] # NoFile =>
              LET f == file'[p][s]
                  c == canon'[s]
              IN  \/ IsOwn(f)
                  \/ f = NoFile /\ Cardinality(ptr'[p]) >= Cap
                  \/ IsMirror(f) /\ f.sem = c /\ holder'[p][s] = c
                  \/ IsMirror(f) /\ s \in open'[p]]_vars

(* A command never leaves an index pointing at a file it removed or never  *)
(* wrote; only the user's own deletions can.                               *)
NoDanglingPointer ==
    [][\A p \in Project, s \in Stem :
          s \in ptr'[p] /\ file'[p][s] = NoFile =>
              s \in ptr[p] /\ (file[p][s] = NoFile \/ DeleteFile(p, s))]_vars

(* sync_global.py:1532-1537: a writer that races a pull costs at most one  *)
(* run; a mirror nobody edited is never taken for a local edit.            *)
UneditedNeverLocal ==
    \A p \in Project, s \in Stem :
        LET f == file[p][s]
        IN  IsMirror(f) /\ f.sem = f.at /\ Active(canon[s]) /\ holder[p][s] # None
            => Decision(f, canon[s], holder[p][s]) # "stop-local"

(* canonical_ingress.py:478-486: the three-way base is the revision the    *)
(* holder's own mirror sits at.                                            *)
BaseAtMirror ==
    \A p \in Project, s \in Stem :
        LET f == file[p][s]
        IN  IsMirror(f) /\ f.sem = f.at /\ pull[p] = NoSession => holder[p][s] \in {None, f.at}

=============================================================================
