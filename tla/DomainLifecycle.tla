--------------------------- MODULE DomainLifecycle ---------------------------
(***************************************************************************)
(* Who belongs to which domain, and what becomes of a domain: enrolment,   *)
(* move, unenrolment, the registry-only unenrolment of other projects, and *)
(* the purge of a domain with its resume and its cancel (cm project, cm    *)
(* data; cm_ops.py, control_plane.py).                                     *)
(*                                                                         *)
(* A session reads the registry, decides, and only then waits for          *)
(* global.lock: what it read may be old when its transaction runs.  Each   *)
(* transact is one step of this module, as AtomicTx promises, preceded by  *)
(* the recovery of rows that crashed sessions of the same project left.    *)
(* The files a transaction touches are not in the state: a replay that the *)
(* files forbid is one that is not taken.                                  *)
(***************************************************************************)
EXTENDS Naturals, Sequences

CONSTANTS
    Domain, Project, Session,
    ProjectOf,    \* [Session -> Project]
    Unknown,      \* the domain of a project that is enrolled nowhere
    NoSession,
    Commands,     \* the commands that each session is used for
    Purged,       \* the domains that are purged
    MaxFailures   \* bound on the commands that fail or die

Place == Domain \cup {Unknown}

ASSUME Owners == ProjectOf \in [Session -> Project]
ASSUME Sentinels == Unknown \notin Domain /\ NoSession \notin Session

\* Journal kinds: domain-transition for the first three, registry-unenroll,
\* domain-deleting, purge-domain, purge-cancel; a visit writes no row.
Transition == {"enroll", "move", "unenroll"}
Kind == Transition \cup {"unregister", "deleting", "purge", "cancel", "visit"}

ASSUME Bounds == /\ MaxFailures \in Nat
                 /\ Commands \in [Session -> SUBSET Kind]
                 /\ Purged \subseteq Domain

\* A transaction: its kind, the project and the domain of its session (as journalled
\* for recovery), the domain it is about, and the projects whose domain it sets with
\* the domain they had when it was planned.
Tx == [kind : Kind, by : Project, ctx : Place, dom : Place,
       from : UNION {[S -> Place] : S \in SUBSET Project}]

VARIABLES
    lifecycle,   \* domains.status; no row is "active"
    member,      \* the domain a project is enrolled in, or Unknown
    plan,        \* the transactions a session has decided on, or <<>>
    holder,      \* the session in the critical section
    pending,     \* journal rows of sessions that died
    failures,
    replayed     \* history: projects whose membership a replay wrote last

vars == <<lifecycle, member, plan, holder, pending, failures, replayed>>

Init ==
    /\ lifecycle = [d \in Domain |-> "active"]
    /\ member \in [Project -> Place]
    /\ plan = [s \in Session |-> <<>>]
    /\ holder = NoSession
    /\ pending = {}
    /\ failures = 0
    /\ replayed = {}

-----------------------------------------------------------------------------
(* What a transaction does.                                                *)

\* Defect: a project that leaves gets an empty domain.
ToEmpty(t) == IF t.kind \in {"enroll", "move"} THEN t.dom ELSE ""

\* The domain of the projects in t.from after t.
To(t) == IF t.kind \in {"enroll", "move"} THEN t.dom ELSE Unknown

MembersAfter(t) ==
    [p \in Project |-> IF p \in DOMAIN t.from THEN To(t) ELSE member[p]]

StatusSet == [deleting |-> "deleting", purge |-> "deleted", cancel |-> "active"]

LifecycleAfter(t) ==
    [d \in Domain |-> IF d = t.dom /\ t.kind \in DOMAIN StatusSet
                      THEN StatusSet[t.kind] ELSE lifecycle[d]]

\* Defect: a domain is marked deleted whoever is left in it.
AcceptedUncounted(t) ==
    t.kind = "unregister" => \A p \in DOMAIN t.from : member[p] = t.from[p]

\* Defect: the unenrolment does not say which membership it ends.
AcceptedUnseen(t) ==
    t.kind = "purge" => \A p \in Project : MembersAfter(t)[p] # t.dom

\* The preconditions and postconditions of the registry operations, the same for a
\* transaction and for its replay.
Accepted(t) ==
    /\ t.kind = "unregister" => \A p \in DOMAIN t.from : member[p] = t.from[p]
    /\ t.kind = "purge" => \A p \in Project : MembersAfter(t)[p] # t.dom

\* Defect: a move trusts what it read before the lock.
PreparedOnce(t) ==
    t.kind = "enroll" => /\ lifecycle[t.dom] = "active"
                         /\ member[t.by] \in {Unknown, t.dom}

\* enroll_project and _prep_move check again under the lock.  A replay does not.
Prepared(t) ==
    /\ t.kind \in {"enroll", "move"} => lifecycle[t.dom] = "active"
    /\ t.kind = "enroll" => member[t.by] \in {Unknown, t.dom}

Apply(t) == /\ member' = MembersAfter(t)
            /\ lifecycle' = LifecycleAfter(t)

-----------------------------------------------------------------------------
(* Deciding: everything here is read without a lock.                       *)

\* The domain in the StoreContext of a session that starts now.
Ctx(s) == member[ProjectOf[s]]

Enrolled(d) == {p \in Project : member[p] = d}

Planned(s, kind, d, S) ==
    [kind |-> kind, by |-> ProjectOf[s], ctx |-> Ctx(s), dom |-> d,
     from |-> [p \in S |-> member[p]]]

Decide(s, txs) ==
    /\ plan[s] = <<>>
    /\ Head(txs).kind \in Commands[s]
    /\ plan' = [plan EXCEPT ![s] = txs]
    /\ UNCHANGED <<lifecycle, member, holder, pending, failures, replayed>>

PlanEnroll(s, d) ==
    /\ lifecycle[d] = "active"
    /\ Ctx(s) = Unknown
    /\ Decide(s, <<Planned(s, "enroll", d, {ProjectOf[s]})>>)

PlanMove(s, d) ==
    /\ lifecycle[d] = "active"
    /\ Ctx(s) \notin {Unknown, d}
    /\ Decide(s, <<Planned(s, "move", d, {ProjectOf[s]})>>)

PlanUnenroll(s) ==
    /\ Ctx(s) # Unknown
    /\ Decide(s, <<Planned(s, "unenroll", Unknown, {ProjectOf[s]})>>)

\* cm project unenroll --project-id: rows of any projects, in any domains.
PlanUnregister(s, S) ==
    /\ Ctx(s) # Unknown => lifecycle[Ctx(s)] = "active"
    /\ S # {} /\ \A p \in S : member[p] # Unknown
    /\ Decide(s, <<Planned(s, "unregister", Unknown, S)>>)

\* Defect: a domain that is being deleted cannot be purged again.
PlanPurgeOnce(s, d) ==
    /\ lifecycle[d] = "active"
    /\ Decide(s, <<Planned(s, "deleting", d, {}), Planned(s, "purge", d, Enrolled(d))>>)

\* cm data purge and, when the domain is deleting, purge-resume: two transactions,
\* both about the members read here.
PlanPurge(s, d) ==
    Decide(s, <<Planned(s, "deleting", d, {}), Planned(s, "purge", d, Enrolled(d))>>)

PlanCancel(s, d) ==
    /\ lifecycle[d] = "deleting"
    /\ Decide(s, <<Planned(s, "cancel", d, {})>>)

\* A pull or a journal command: here only the recovery that it begins with.
PlanVisit(s) == Decide(s, <<Planned(s, "visit", Unknown, {})>>)

-----------------------------------------------------------------------------
(* Doing: under global.lock.                                               *)

Lock(s) ==
    /\ holder = NoSession
    /\ plan[s] # <<>>
    /\ holder' = s
    /\ UNCHANGED <<lifecycle, member, plan, pending, failures, replayed>>

\* The row belongs to the session: by the project and the domain of its context.
CtxMatches(s, t) ==
    /\ t.by = ProjectOf[s]
    /\ Head(plan[s]).ctx \in IF t.kind \in Transition THEN {t.ctx, To(t)} ELSE {t.ctx}

Replay(s, t) ==
    /\ holder = s
    /\ CtxMatches(s, t)
    /\ Accepted(t)
    /\ Apply(t)
    /\ replayed' = replayed \cup DOMAIN t.from

\* recover_pending.  A row whose files have changed, or that is refused, stays: as
\* "conflicted", until the operator retries it.
Recover(s) ==
    \E t \in pending : /\ Replay(s, t)
                       /\ pending' = pending \ {t}
                       /\ UNCHANGED <<plan, holder, failures>>

Release(s, rest) == /\ plan' = [plan EXCEPT ![s] = rest]
                    /\ holder' = NoSession

Effect(t) == /\ Prepared(t)
             /\ Accepted(t)
             /\ Apply(t)
             /\ replayed' = replayed \ DOMAIN t.from

Commit(s) ==
    /\ holder = s
    /\ Effect(Head(plan[s]))
    /\ Release(s, Tail(plan[s]))
    /\ UNCHANGED <<pending, failures>>

\* A CommandError ends the whole command.
Refuse(s) ==
    /\ holder = s
    /\ ~(Prepared(Head(plan[s])) /\ Accepted(Head(plan[s])))
    /\ Release(s, <<>>)
    /\ UNCHANGED <<lifecycle, member, pending, failures, replayed>>

Stops(s) == /\ plan[s] # <<>>
            /\ failures < MaxFailures
            /\ failures' = failures + 1
            /\ plan' = [plan EXCEPT ![s] = <<>>]
            /\ holder' = IF holder = s THEN NoSession ELSE holder

\* The user does not confirm, the files are not as expected, the process is killed
\* while it waits: a command ends with nothing written.
Fail(s) ==
    /\ Stops(s)
    /\ UNCHANGED <<lifecycle, member, pending, replayed>>

\* With the journal row written, before the COMMIT or after it.
CrashInTransact(s) ==
    /\ holder = s
    /\ Stops(s)
    /\ LET t == Head(plan[s])
       IN /\ t.kind # "visit"
          /\ pending' = pending \cup {t}
          /\ \/ /\ Prepared(t) /\ Accepted(t)
                /\ UNCHANGED <<lifecycle, member, replayed>>
             \/ Effect(t)

\* After the COMMIT of a replay, with its row still pending.
CrashInRecovery(s) ==
    /\ holder = s
    /\ Stops(s)
    /\ \E t \in pending : Replay(s, t)
    /\ UNCHANGED pending

Work(s) == Recover(s) \/ Commit(s) \/ Refuse(s)

Next ==
    \E s \in Session :
        \/ \E d \in Domain : PlanEnroll(s, d) \/ PlanMove(s, d)
        \/ \E d \in Purged : PlanPurge(s, d) \/ PlanCancel(s, d)
        \/ PlanUnenroll(s)
        \/ \E S \in SUBSET Project : PlanUnregister(s, S)
        \/ PlanVisit(s)
        \/ Lock(s) \/ Recover(s) \/ Commit(s) \/ Refuse(s) \/ Fail(s)
        \/ CrashInTransact(s) \/ CrashInRecovery(s)

Spec == Init /\ [][Next]_vars

\* The operator resumes a purge whenever he can, a session gets the lock it waits for,
\* and its transaction ends.
FairSpec ==
    /\ Spec
    /\ \A s \in Session : WF_vars(Work(s)) /\ SF_vars(Lock(s))
    /\ \A d \in Purged :
        SF_vars(\E s \in Session : lifecycle[d] = "deleting" /\ PlanPurge(s, d))

-----------------------------------------------------------------------------
\* TypeOK: the types; the session that holds the lock has a transaction to run.
TypeOK ==
    /\ lifecycle \in [Domain -> {"active", "deleting", "deleted"}]
    /\ member \in [Project -> Place]
    /\ plan \in [Session -> Seq(Tx)]
    /\ holder \in Session \cup {NoSession}
    /\ holder \in Session => plan[holder] # <<>>
    /\ pending \subseteq Tx
    /\ failures \in 0..MaxFailures
    /\ replayed \subseteq Project

\* DeletedHasNoMembers: what ADR 022 promises of a purge: a deleted domain has no
\* enrolled project.
DeletedHasNoMembers ==
    \A d \in Domain : lifecycle[d] = "deleted" => Enrolled(d) = {}

\* OnlyReplaysJoinDeleted: a deleted domain has no member that a running command put
\* there, whatever was read before the locks, however the purge was interrupted,
\* resumed or repeated; only the replay of a crashed enrolment or move can.
OnlyReplaysJoinDeleted ==
    \A d \in Domain : lifecycle[d] = "deleted" => Enrolled(d) \subseteq replayed

\* JoinsActive: enrolment and move end in an active domain, even if the purge began
\* while they waited for the lock; replays excepted.
JoinsActive ==
    [][\A p \in Project :
        /\ member'[p] # member[p]
        /\ member'[p] # Unknown
        => lifecycle[member'[p]] = "active" \/ p \in replayed']_vars

\* The transactions that may take effect in the next step.
Open == pending \cup {Head(plan[s]) : s \in {r \in Session : plan[r] # <<>>}}

\* LeavesAsSeen: a registry-only unenrolment, or its replay by a later session, ends
\* the membership that was listed to the operator and no other: a project that has
\* moved since, or enrolled again elsewhere, stays.
LeavesAsSeen ==
    [][\A p \in Project :
        /\ member[p] # Unknown
        /\ member'[p] = Unknown
        => \E t \in Open : /\ p \in DOMAIN t.from /\ To(t) = Unknown
                           /\ t.kind = "unregister" => t.from[p] = member[p]]_vars

\* PurgeEnds: a domain does not stay deleting: wherever a purge stopped, resuming it
\* (or cancelling it) gets the domain out of that state.
PurgeEnds == \A d \in Purged : (lifecycle[d] = "deleting") ~> (lifecycle[d] # "deleting")

=============================================================================
