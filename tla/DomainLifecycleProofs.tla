----------------------- MODULE DomainLifecycleProofs -----------------------
(***************************************************************************)
(* For any domains, projects, sessions, commands and failures: the types,  *)
(* who may be a member of a deleted domain, which domains are joined, and  *)
(* what makes a project leave one.                                         *)
(***************************************************************************)
EXTENDS DomainLifecycle, TLAPS

-----------------------------------------------------------------------------
(* Transactions.                                                           *)

\* A transaction that is planned about known projects is well formed.
LEMMA PlannedTx ==
    ASSUME TypeOK, NEW s \in Session, NEW k \in Kind, NEW d \in Place,
           NEW S \in SUBSET Project
    PROVE  Planned(s, k, d, S) \in Tx
<1>1. ProjectOf[s] \in Project
  BY Owners
<1>2. Ctx(s) \in Place
  BY <1>1 DEF TypeOK, Ctx
<1>3. [p \in S |-> member[p]] \in [S -> Place]
  BY DEF TypeOK
<1>4. [p \in S |-> member[p]] \in UNION {[T -> Place] : T \in SUBSET Project}
  BY <1>3
<1> QED BY <1>1, <1>2, <1>4 DEF Planned, Tx

\* The projects whose domain a transaction sets are projects.
LEMMA TxProjects == ASSUME NEW t \in Tx PROVE DOMAIN t.from \subseteq Project
BY DEF Tx

\* A transaction leaves members in places and domains in states.
LEMMA ApplyTypes ==
    ASSUME TypeOK, NEW t \in Tx
    PROVE  /\ MembersAfter(t) \in [Project -> Place]
           /\ LifecycleAfter(t) \in [Domain -> {"active", "deleting", "deleted"}]
<1>1. To(t) \in Place
  BY DEF To, Tx, Place
<1>2. MembersAfter(t) \in [Project -> Place]
  BY <1>1 DEF MembersAfter, TypeOK
<1>3. \A k \in DOMAIN StatusSet : StatusSet[k] \in {"active", "deleting", "deleted"}
  BY DEF StatusSet
<1>4. LifecycleAfter(t) \in [Domain -> {"active", "deleting", "deleted"}]
  BY <1>3 DEF LifecycleAfter, TypeOK
<1> QED BY <1>2, <1>4

-----------------------------------------------------------------------------
(* Types.                                                                  *)

\* The session in the critical section has a transaction to run.
LEMMA HeadTx ==
    ASSUME TypeOK, NEW s \in Session, plan[s] # <<>>
    PROVE  /\ Head(plan[s]) \in Tx
           /\ Tail(plan[s]) \in Seq(Tx)
BY DEF TypeOK

\* A session decides on well-formed transactions.
LEMMA DecideTypes ==
    ASSUME TypeOK, NEW s \in Session, NEW txs \in Seq(Tx), txs # <<>>, Decide(s, txs)
    PROVE  TypeOK'
BY DEF TypeOK, Decide

\* Most commands are one transaction.
LEMMA DecideOne ==
    ASSUME TypeOK, NEW s \in Session, NEW t \in Tx, Decide(s, <<t>>)
    PROVE  TypeOK'
<1>1. <<t>> \in Seq(Tx) /\ <<t>> # <<>>
  OBVIOUS
<1> QED BY <1>1, DecideTypes

\* TypeOK is inductive.
LEMMA TypeStep == TypeOK /\ [Next]_vars => TypeOK'
<1> SUFFICES ASSUME TypeOK, [Next]_vars PROVE TypeOK'
  OBVIOUS
<1>0. CASE UNCHANGED vars
  BY <1>0 DEF TypeOK, vars
<1>1. ASSUME NEW s \in Session, NEW d \in Domain, PlanEnroll(s, d) PROVE TypeOK'
  <2>1. Planned(s, "enroll", d, {ProjectOf[s]}) \in Tx
    BY PlannedTx, Owners DEF Kind, Transition, Place
  <2> QED BY <1>1, <2>1, DecideOne DEF PlanEnroll
<1>2. ASSUME NEW s \in Session, NEW d \in Domain, PlanMove(s, d) PROVE TypeOK'
  <2>1. Planned(s, "move", d, {ProjectOf[s]}) \in Tx
    BY PlannedTx, Owners DEF Kind, Transition, Place
  <2> QED BY <1>2, <2>1, DecideOne DEF PlanMove
<1>3. ASSUME NEW s \in Session, PlanUnenroll(s) PROVE TypeOK'
  <2>1. Planned(s, "unenroll", Unknown, {ProjectOf[s]}) \in Tx
    BY PlannedTx, Owners DEF Kind, Transition, Place
  <2> QED BY <1>3, <2>1, DecideOne DEF PlanUnenroll
<1>4. ASSUME NEW s \in Session, NEW S \in SUBSET Project, PlanUnregister(s, S)
      PROVE  TypeOK'
  <2>1. Planned(s, "unregister", Unknown, S) \in Tx
    BY PlannedTx DEF Kind, Place
  <2> QED BY <1>4, <2>1, DecideOne DEF PlanUnregister
<1>5. ASSUME NEW s \in Session, NEW d \in Purged, PlanPurge(s, d) PROVE TypeOK'
  <2>1. d \in Place /\ Enrolled(d) \subseteq Project
    BY Bounds DEF Place, Enrolled
  <2>2. Planned(s, "deleting", d, {}) \in Tx /\ Planned(s, "purge", d, Enrolled(d)) \in Tx
    BY <2>1, PlannedTx DEF Kind
  <2> DEFINE txs == <<Planned(s, "deleting", d, {}), Planned(s, "purge", d, Enrolled(d))>>
  <2>3. txs \in Seq(Tx) /\ txs # <<>>
    BY <2>2
  <2> QED BY <1>5, <2>3, DecideTypes DEF PlanPurge
<1>6. ASSUME NEW s \in Session, NEW d \in Purged, PlanCancel(s, d) PROVE TypeOK'
  <2>1. Planned(s, "cancel", d, {}) \in Tx
    BY Bounds, PlannedTx DEF Kind, Place
  <2> QED BY <1>6, <2>1, DecideOne DEF PlanCancel
<1>7. ASSUME NEW s \in Session, PlanVisit(s) PROVE TypeOK'
  <2>1. Planned(s, "visit", Unknown, {}) \in Tx
    BY PlannedTx DEF Kind, Place
  <2> QED BY <1>7, <2>1, DecideOne DEF PlanVisit
<1>8. ASSUME NEW s \in Session, Lock(s) PROVE TypeOK'
  BY <1>8 DEF TypeOK, Lock
<1>9. ASSUME NEW s \in Session, Recover(s) PROVE TypeOK'
  <2>1. PICK t \in pending : Replay(s, t) /\ pending' = pending \ {t}
    BY <1>9 DEF Recover
  <2>2. t \in Tx
    BY DEF TypeOK
  <2>3. /\ member' \in [Project -> Place]
        /\ lifecycle' \in [Domain -> {"active", "deleting", "deleted"}]
        /\ replayed' \subseteq Project
    BY <2>1, <2>2, ApplyTypes, TxProjects DEF Replay, Apply, TypeOK
  <2> QED BY <1>9, <2>1, <2>3 DEF Recover, TypeOK
<1>10. ASSUME NEW s \in Session, Commit(s) PROVE TypeOK'
  <2>1. Head(plan[s]) \in Tx /\ Tail(plan[s]) \in Seq(Tx)
    BY <1>10, HeadTx DEF Commit, TypeOK
  <2>2. /\ member' \in [Project -> Place]
        /\ lifecycle' \in [Domain -> {"active", "deleting", "deleted"}]
        /\ replayed' \subseteq Project
    BY <1>10, <2>1, ApplyTypes DEF Commit, Effect, Apply, TypeOK
  <2> QED BY <1>10, <2>1, <2>2, Sentinels DEF Commit, Release, TypeOK
<1>11. ASSUME NEW s \in Session, Refuse(s) PROVE TypeOK'
  BY <1>11, Sentinels DEF Refuse, Release, TypeOK
<1>12. ASSUME NEW s \in Session, Stops(s)
       PROVE  /\ plan' \in [Session -> Seq(Tx)]
              /\ holder' \in Session \cup {NoSession}
              /\ holder' \in Session => plan'[holder'] # <<>>
              /\ failures' \in 0..MaxFailures
  BY <1>12, Sentinels, Bounds DEF Stops, TypeOK
<1>13. ASSUME NEW s \in Session, Fail(s) PROVE TypeOK'
  BY <1>12, <1>13 DEF Fail, TypeOK
<1>14. ASSUME NEW s \in Session, CrashInTransact(s) PROVE TypeOK'
  <2>1. Head(plan[s]) \in Tx
    BY <1>14, HeadTx DEF CrashInTransact, TypeOK
  <2>2. pending' \subseteq Tx
    BY <1>14, <2>1 DEF CrashInTransact, TypeOK
  <2>3. /\ member' \in [Project -> Place]
        /\ lifecycle' \in [Domain -> {"active", "deleting", "deleted"}]
        /\ replayed' \subseteq Project
    BY <1>14, <2>1, ApplyTypes DEF CrashInTransact, Effect, Apply, TypeOK
  <2> QED BY <1>12, <1>14, <2>2, <2>3 DEF CrashInTransact, TypeOK
<1>15. ASSUME NEW s \in Session, CrashInRecovery(s) PROVE TypeOK'
  <2>1. PICK t \in pending : Replay(s, t)
    BY <1>15 DEF CrashInRecovery
  <2>2. t \in Tx
    BY DEF TypeOK
  <2>3. /\ member' \in [Project -> Place]
        /\ lifecycle' \in [Domain -> {"active", "deleting", "deleted"}]
        /\ replayed' \subseteq Project
    BY <2>1, <2>2, ApplyTypes, TxProjects DEF Replay, Apply, TypeOK
  <2> QED BY <1>12, <1>15, <2>3 DEF CrashInRecovery, TypeOK
<1> QED
  BY <1>0, <1>1, <1>2, <1>3, <1>4, <1>5, <1>6, <1>7, <1>8, <1>9, <1>10, <1>11, <1>13,
     <1>14, <1>15 DEF Next

\* Every reachable state is well typed, and a session that holds the lock has work.
THEOREM TypeCorrect == Spec => []TypeOK
<1>1. Init => TypeOK
  BY Sentinels, Bounds DEF Init, TypeOK
<1> QED BY <1>1, TypeStep, PTL DEF Spec

-----------------------------------------------------------------------------
(* Deleted domains.                                                        *)

\* A step that writes the registry is a command's transaction or a replay.
Writes == \/ \E t \in Tx : Effect(t)
          \/ \E t \in Tx : /\ Accepted(t)
                           /\ Apply(t)
                           /\ replayed' = replayed \cup DOMAIN t.from
          \/ UNCHANGED <<lifecycle, member, replayed>>

\* Nothing else changes domains, members or the history of replays.
LEMMA StepWrites == TypeOK /\ [Next]_vars => Writes
<1> SUFFICES ASSUME TypeOK, [Next]_vars PROVE Writes
  OBVIOUS
<1>1. ASSUME NEW s \in Session, NEW t \in pending, Replay(s, t) PROVE Writes
  BY <1>1 DEF Replay, Writes, TypeOK
<1>2. ASSUME NEW s \in Session, holder = s, Effect(Head(plan[s])) PROVE Writes
  BY <1>2, HeadTx DEF Writes, TypeOK
<1>3. ASSUME NEW s \in Session, Recover(s) \/ CrashInRecovery(s) PROVE Writes
  BY <1>1, <1>3 DEF Recover, CrashInRecovery
<1>4. ASSUME NEW s \in Session, Commit(s) PROVE Writes
  BY <1>2, <1>4 DEF Commit
<1>5. ASSUME NEW s \in Session, CrashInTransact(s) PROVE Writes
  BY <1>2, <1>5 DEF CrashInTransact, Writes
<1>6. CASE UNCHANGED vars
  BY <1>6 DEF vars, Writes
<1>7. ASSUME NEW s \in Session,
             \/ \E d \in Domain : PlanEnroll(s, d) \/ PlanMove(s, d)
             \/ \E d \in Purged : PlanPurge(s, d) \/ PlanCancel(s, d)
             \/ PlanUnenroll(s)
             \/ \E S \in SUBSET Project : PlanUnregister(s, S)
             \/ PlanVisit(s)
      PROVE  Writes
  BY <1>7 DEF PlanEnroll, PlanMove, PlanPurge, PlanCancel, PlanUnenroll,
              PlanUnregister, PlanVisit, Decide, Writes
<1>8. ASSUME NEW s \in Session, Lock(s) \/ Refuse(s) \/ Fail(s) PROVE Writes
  BY <1>8 DEF Lock, Refuse, Fail, Writes
<1> QED BY <1>3, <1>4, <1>5, <1>6, <1>7, <1>8 DEF Next

\* A transaction that is accepted leaves no member in the domain it marks deleted.
LEMMA DeletesEmptied ==
    ASSUME NEW t \in Tx, Accepted(t), NEW d \in Domain,
           LifecycleAfter(t)[d] = "deleted", lifecycle[d] # "deleted"
    PROVE  \A p \in Project : MembersAfter(t)[p] # d
<1>1. d = t.dom /\ t.kind \in DOMAIN StatusSet /\ StatusSet[t.kind] = "deleted"
  BY DEF LifecycleAfter
<1>2. t.kind = "purge"
  BY <1>1 DEF StatusSet
<1> QED BY <1>1, <1>2 DEF Accepted

\* Whoever is in a domain after a transaction was there, or is put there by it.
LEMMA JoinedByTx ==
    ASSUME NEW t \in Tx, NEW p \in Project, NEW d \in Domain, MembersAfter(t)[p] = d
    PROVE  \/ p \notin DOMAIN t.from /\ member[p] = d
           \/ p \in DOMAIN t.from /\ t.kind \in {"enroll", "move"} /\ t.dom = d
BY Sentinels DEF MembersAfter, To

\* OnlyReplaysJoinDeleted is inductive.
LEMMA DeletedStep ==
    ASSUME TypeOK, OnlyReplaysJoinDeleted, Writes PROVE OnlyReplaysJoinDeleted'
<1> SUFFICES ASSUME NEW d \in Domain, lifecycle'[d] = "deleted",
                    NEW p \in Project, member'[p] = d
             PROVE  p \in replayed'
  BY DEF OnlyReplaysJoinDeleted, Enrolled
<1>1. CASE UNCHANGED <<lifecycle, member, replayed>>
  BY <1>1 DEF OnlyReplaysJoinDeleted, Enrolled
<1>2. ASSUME NEW t \in Tx, Effect(t) PROVE p \in replayed'
  <2>1. Accepted(t) /\ member' = MembersAfter(t) /\ lifecycle' = LifecycleAfter(t)
    BY <1>2 DEF Effect, Apply
  <2>2. lifecycle[d] = "deleted"
    BY <2>1, DeletesEmptied
  <2>3. p \notin DOMAIN t.from /\ member[p] = d
    <3>1. ~(t.kind \in {"enroll", "move"} /\ t.dom = d)
      BY <1>2, <2>2 DEF Effect, Prepared
    <3> QED BY <2>1, <3>1, JoinedByTx
  <2> QED BY <1>2, <2>2, <2>3 DEF OnlyReplaysJoinDeleted, Enrolled, Effect
<1>3. ASSUME NEW t \in Tx, Accepted(t), Apply(t), replayed' = replayed \cup DOMAIN t.from
      PROVE  p \in replayed'
  <2>1. lifecycle[d] = "deleted"
    BY <1>3, DeletesEmptied DEF Apply
  <2>2. CASE p \notin DOMAIN t.from
    BY <1>3, <2>1, <2>2, JoinedByTx DEF Apply, OnlyReplaysJoinDeleted, Enrolled
  <2>3. CASE p \in DOMAIN t.from
    BY <1>3, <2>3
  <2> QED BY <2>2, <2>3
<1> QED BY <1>1, <1>2, <1>3 DEF Writes

\* No command puts a project into a deleted domain, and no purge leaves one behind,
\* whatever was decided before the lock and wherever commands failed.
THEOREM DeletedHolds == Spec => []OnlyReplaysJoinDeleted
<1>1. Init => OnlyReplaysJoinDeleted
  BY DEF Init, OnlyReplaysJoinDeleted
<1>2. TypeOK /\ OnlyReplaysJoinDeleted /\ [Next]_vars => OnlyReplaysJoinDeleted'
  BY StepWrites, DeletedStep
<1> QED BY <1>1, <1>2, TypeCorrect, PTL DEF Spec

\* A project joins an active domain, unless a replay makes it join.
THEOREM JoinsActiveHolds == Spec => JoinsActive
<1>1. ASSUME TypeOK, [Next]_vars, NEW p \in Project,
             member'[p] # member[p], member'[p] # Unknown
      PROVE  lifecycle[member'[p]] = "active" \/ p \in replayed'
  <2>1. member[p] \in Place /\ Writes
    BY <1>1, StepWrites DEF TypeOK
  <2>2. ASSUME NEW t \in Tx, Apply(t)
        PROVE  /\ p \in DOMAIN t.from
               /\ t.kind \in {"enroll", "move"}
               /\ member'[p] = t.dom
    BY <1>1, <2>2 DEF Apply, MembersAfter, To
  <2>3. ASSUME NEW t \in Tx, Effect(t) PROVE lifecycle[member'[p]] = "active"
    BY <2>2, <2>3 DEF Effect, Prepared
  <2>4. ASSUME NEW t \in Tx, Apply(t), replayed' = replayed \cup DOMAIN t.from
        PROVE  p \in replayed'
    BY <2>2, <2>4
  <2> QED BY <1>1, <2>1, <2>3, <2>4 DEF Writes
<1>2. TypeOK /\ [Next]_vars =>
        [\A p \in Project : /\ member'[p] # member[p]
                            /\ member'[p] # Unknown
                            => lifecycle[member'[p]] = "active" \/ p \in replayed']_vars
  BY <1>1
<1> QED BY <1>2, TypeCorrect, PTL DEF Spec, JoinsActive

-----------------------------------------------------------------------------
(* Leaving.                                                                *)

\* A step that changes a membership carries out, accepted, a transaction that was
\* pending or that a session had decided on.
LEMMA MovedByOpen ==
    ASSUME TypeOK, [Next]_vars, member' # member
    PROVE  \E t \in Open : Accepted(t) /\ member' = MembersAfter(t)
<1>1. ASSUME NEW s \in Session, NEW t \in pending, Replay(s, t)
      PROVE  \E u \in Open : Accepted(u) /\ member' = MembersAfter(u)
  BY <1>1 DEF Replay, Apply, Open
<1>2. ASSUME NEW s \in Session, holder = s, Effect(Head(plan[s]))
      PROVE  \E u \in Open : Accepted(u) /\ member' = MembersAfter(u)
  <2>1. Head(plan[s]) \in Open
    BY <1>2 DEF Open, TypeOK
  <2> QED BY <1>2, <2>1 DEF Effect, Apply
<1>3. CASE \E s \in Session : Recover(s) \/ CrashInRecovery(s)
  BY <1>1, <1>3 DEF Recover, CrashInRecovery
<1>4. CASE \E s \in Session : Commit(s)
  BY <1>2, <1>4 DEF Commit
<1>5. CASE \E s \in Session : CrashInTransact(s)
  BY <1>2, <1>5 DEF CrashInTransact
<1>6. CASE UNCHANGED vars
  BY <1>6 DEF vars
<1>7. CASE \E s \in Session :
             \/ \E d \in Domain : PlanEnroll(s, d) \/ PlanMove(s, d)
             \/ \E d \in Purged : PlanPurge(s, d) \/ PlanCancel(s, d)
             \/ PlanUnenroll(s)
             \/ \E S \in SUBSET Project : PlanUnregister(s, S)
             \/ PlanVisit(s)
  BY <1>7 DEF PlanEnroll, PlanMove, PlanPurge, PlanCancel, PlanUnenroll,
              PlanUnregister, PlanVisit, Decide
<1>8. CASE \E s \in Session : Lock(s) \/ Refuse(s) \/ Fail(s)
  BY <1>8 DEF Lock, Refuse, Fail
<1> QED BY <1>3, <1>4, <1>5, <1>6, <1>7, <1>8 DEF Next

\* A registry-only unenrolment, however long after the listing and by whomever it is
\* replayed, ends the membership that was listed and no other.
THEOREM LeavesAsSeenHolds == Spec => LeavesAsSeen
<1>1. ASSUME TypeOK, [Next]_vars, NEW p \in Project,
             member[p] # Unknown, member'[p] = Unknown
      PROVE  \E t \in Open : /\ p \in DOMAIN t.from /\ To(t) = Unknown
                             /\ t.kind = "unregister" => t.from[p] = member[p]
  <2>1. PICK t \in Open : Accepted(t) /\ member' = MembersAfter(t)
    BY <1>1, MovedByOpen
  <2>2. p \in DOMAIN t.from /\ To(t) = Unknown
    BY <1>1, <2>1 DEF MembersAfter
  <2>3. t.kind = "unregister" => t.from[p] = member[p]
    BY <2>1, <2>2 DEF Accepted
  <2> QED BY <2>2, <2>3
<1>2. TypeOK /\ [Next]_vars =>
        [\A p \in Project :
            /\ member[p] # Unknown
            /\ member'[p] = Unknown
            => \E t \in Open : /\ p \in DOMAIN t.from /\ To(t) = Unknown
                               /\ t.kind = "unregister" => t.from[p] = member[p]]_vars
  BY <1>1
<1> QED BY <1>2, TypeCorrect, PTL DEF Spec, LeavesAsSeen

=============================================================================
