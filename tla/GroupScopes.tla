----------------------------- MODULE GroupScopes -----------------------------
(***************************************************************************)
(* Groups of projects: a fact with recipients is delivered to the members  *)
(* of the groups it names, across domains, and to nobody else (cm_ops.py   *)
(* cmd_group, canonical_ingress.py upsert, the admission of sync_global.py *)
(* and domain_policy.py).  One fact; a group is a name, and its row is     *)
(* keyed by the name and its home domain.                                  *)
(*                                                                         *)
(* cm group reads the registry, asks, and commits in a transact of its     *)
(* own; a pull decides from memberships it reads before the locks, a gc    *)
(* once more under them.  Each of these reads may fail, and then it is     *)
(* "no memberships", "no groups".  Time stamps have a coarse clock.        *)
(***************************************************************************)
EXTENDS Naturals, FiniteSets

CONSTANTS
    Member,        \* projects
    Operator,      \* processes that run cm group
    Group,         \* group names
    Realm,         \* domains
    FactRealm,     \* the domain of the fact
    RealmOf,       \* [Member -> its domain]
    Nothing,
    MaxTime,       \* bound on the clock
    MaxGroupOps    \* bound on the commands of a behaviour

ASSUME GroupAssumption == MaxTime \in Nat /\ MaxGroupOps \in Nat

VARIABLES
    groups,      \* [Group -> the row of that name, or Nothing]
    members,     \* the rows of group_members: group_id and project
    shared,      \* the fact: its recipients and its content_modified, or Nothing
    mirrored,    \* the mirror a project holds: the groups of its stamp, and through which of
                 \* them it was delivered (history)
    order,       \* [Operator -> the cm group command it runs, with what it read]
    sync,        \* [Member -> its pull or gc, with what it read]
    removed,     \* history: the projects that a finished remove took out of a group
    time, groupOps

groupvars == <<groups, members, shared, mirrored, order, sync, removed, time, groupOps>>

\* group_id is a hash of the name and of the home domain.
GroupId(g, home) == <<g, home>>
IdOf(g) == GroupId(g, groups[g].home)

NoOrder == [cmd |-> "none"]

GroupTypeOK ==
    /\ groups \in [Group -> {Nothing} \cup [home : Realm, created : 0..MaxTime]]
    /\ members \subseteq (Group \X Realm) \X Member
    /\ shared \in {Nothing} \cup [recipients : SUBSET Group, stamp : 0..MaxTime]
    /\ mirrored \in [Member -> {Nothing} \cup [group : SUBSET Group, via : SUBSET Group]]
    /\ \A o \in Operator : order[o].cmd \in {"none", "create", "add", "remove", "revoke", "delete"}
    /\ \A p \in Member : sync[p].cmd \in {"none", "pull", "gc"}
    /\ removed \subseteq Member \X Group
    /\ time \in 0..MaxTime /\ groupOps \in 0..MaxGroupOps

GroupsInit ==
    /\ groups = [g \in Group |-> Nothing] /\ members = {}
    /\ shared = [recipients |-> {}, stamp |-> 0]
    /\ mirrored = [p \in Member |-> Nothing]
    /\ order = [o \in Operator |-> NoOrder]
    /\ sync = [p \in Member |-> NoOrder]
    /\ removed = {} /\ time = 0 /\ groupOps = 0

Counted == groupOps < MaxGroupOps /\ groupOps' = groupOps + 1

---------------------------------------------------------------------------
(* Who may receive the fact.                                               *)

Memberships(p) == {g \in Group : groups[g] # Nothing /\ <<IdOf(g), p>> \in members}
Created == [g \in Group |-> IF groups[g] = Nothing THEN 0 ELSE groups[g].created]

\* _project_memberships, _group_created_at: a registry that is missing, is not migrated or
\* cannot be read is an empty answer, which the caller cannot tell from a true one.
MembershipsRead(p) == {Memberships(p), {}}
CreatedRead == {Created, [g \in Group |-> 0]}

\* admit_cross_project: recipients are the bridge between domains, and a gate inside one.
AdmittedThrough(p, in) ==
    IF shared.recipients # {} THEN shared.recipients \cap in # {} ELSE RealmOf[p] = FactRealm

\* _recipients_stale_for: every group that entitles was created after the fact's content.
RecipientsStale(in, created) ==
    LET through == shared.recipients \cap in
    IN  through # {} /\ \A g \in through : created[g] > shared.stamp

Entitled(p, in, created) == shared # Nothing /\ AdmittedThrough(p, in) /\ ~RecipientsStale(in, created)

---------------------------------------------------------------------------
(* cm group.                                                               *)

Orders(o, what) ==
    /\ order[o] = NoOrder /\ Counted
    /\ order' = [order EXCEPT ![o] = what]
    /\ UNCHANGED <<groups, members, shared, mirrored, sync, removed, time>>

CreateBegin(o, g, home) ==
    /\ groups[g] = Nothing
    /\ Orders(o, [cmd |-> "create", group |-> g, home |-> home, created |-> time])

\* A group with members is not deleted; what was read is not read again.
DeleteBegin(o, g) ==
    /\ groups[g] # Nothing
    /\ \A p \in Member : <<IdOf(g), p>> \notin members
    /\ Orders(o, [cmd |-> "delete", id |-> IdOf(g), group |-> g])

MemberBegin(o, cmd, g, p) ==
    /\ groups[g] # Nothing
    /\ Orders(o, [cmd |-> cmd, id |-> IdOf(g), group |-> g, project |-> p])

Commits(o, cmd) == order[o].cmd = cmd /\ UNCHANGED <<shared, sync, time, groupOps>>
Done(o) == order' = [order EXCEPT ![o] = NoOrder]

\* The name is unique: under another id its INSERT fails, under its own it is updated.
Create(o) ==
    /\ Commits(o, "create") /\ Done(o)
    /\ LET m == order[o] IN
       groups' = IF groups[m.group] = Nothing \/ groups[m.group].home = m.home
                 THEN [groups EXCEPT ![m.group] = [home |-> m.home, created |-> m.created]]
                 ELSE groups
    /\ UNCHANGED <<members, mirrored, removed>>

Delete(o) ==
    /\ Commits(o, "delete") /\ Done(o)
    /\ LET m == order[o] IN
       /\ groups' = IF groups[m.group] # Nothing /\ IdOf(m.group) = m.id
                    THEN [groups EXCEPT ![m.group] = Nothing] ELSE groups
       /\ members' = {r \in members : r[1] # m.id}
    /\ UNCHANGED <<mirrored, removed>>

AddMember(o) ==
    /\ Commits(o, "add") /\ Done(o)
    /\ members' = members \cup {<<order[o].id, order[o].project>>}
    /\ removed' = removed \ {<<order[o].project, order[o].group>>}
    /\ UNCHANGED <<groups, mirrored>>

\* The mirrors are withdrawn after the transact, outside of any lock.
RemoveMember(o) ==
    /\ Commits(o, "remove")
    /\ members' = members \ {<<order[o].id, order[o].project>>}
    /\ order' = [order EXCEPT ![o].cmd = "revoke"]
    /\ UNCHANGED <<groups, mirrored, removed>>

\* The project is out of the group under every id, and no pull that read it in is under way.
OutOf(g, p) ==
    /\ \A home \in Realm : <<GroupId(g, home), p>> \notin members
    /\ sync[p].cmd = "pull" => g \notin sync[p].in

Withdraws(o) ==
    /\ Commits(o, "revoke") /\ Done(o)
    /\ LET m == order[o]
       IN  removed' = IF OutOf(m.group, m.project) THEN removed \cup {<<m.project, m.group>>} ELSE removed
    /\ UNCHANGED <<groups, members>>

\* Defect: the recipients of the fact decide, not the stamp of the mirror.
RevokeByCanonical(o) ==
    /\ Withdraws(o)
    /\ mirrored' = [mirrored EXCEPT ![order[o].project] =
                        IF shared # Nothing /\ order[o].group \in shared.recipients THEN Nothing ELSE @]

RevokeGroupMirrors(o) ==
    /\ Withdraws(o)
    /\ mirrored' = [mirrored EXCEPT ![order[o].project] =
                        IF @ # Nothing /\ order[o].group \in @.group THEN Nothing ELSE @]

\* The process ends; from "revoke" also: a mirror it cannot read is skipped.
GroupCrash(o) ==
    /\ order[o] # NoOrder /\ Done(o)
    /\ UNCHANGED <<groups, members, shared, mirrored, sync, removed, time, groupOps>>

---------------------------------------------------------------------------
(* The fact, and the projects that hold it.                                *)

\* upsert: a fact targets groups born in its own domain, and its stamp is renewed.
PublishTo(to) ==
    /\ Counted
    /\ \A g \in to : groups[g] # Nothing /\ groups[g].home = FactRealm
    /\ shared' = [recipients |-> to, stamp |-> time]
    /\ UNCHANGED <<groups, members, mirrored, order, sync, removed, time>>

ForgetShared ==
    /\ Counted /\ shared # Nothing
    /\ shared' = Nothing
    /\ UNCHANGED <<groups, members, mirrored, order, sync, removed, time>>

Recipients == IF shared = Nothing THEN {} ELSE shared.recipients

\* What a pull or a gc of p works from: the memberships and the groups it reads once.
Starts(p, cmd, in, created) ==
    /\ sync[p] = NoOrder
    /\ sync' = [sync EXCEPT ![p] = [cmd |-> cmd, in |-> in, created |-> created, to |-> Recipients]]
    /\ UNCHANGED <<groups, members, shared, mirrored, order, removed, time, groupOps>>

PullBegin(p) ==
    \E in \in MembershipsRead(p), created \in CreatedRead :
        Entitled(p, in, created) /\ Starts(p, "pull", in, created)

PullCommit(p) ==
    /\ sync[p].cmd = "pull" /\ shared # Nothing
    /\ mirrored' = [mirrored EXCEPT ![p] = [group |-> sync[p].to, via |-> sync[p].to \cap sync[p].in]]
    /\ sync' = [sync EXCEPT ![p] = NoOrder]
    /\ UNCHANGED <<groups, members, shared, order, removed, time, groupOps>>

\* The scan finds the mirror frozen, or an orphan.
GcBegin(p) ==
    /\ mirrored[p] # Nothing
    /\ \E in \in MembershipsRead(p), created \in CreatedRead :
          ~Entitled(p, in, created) /\ Starts(p, "gc", in, created)

\* _classify_frozen under the lock, from a second read of the registry: a grant since the
\* scan keeps the mirror, and a read that fails withdraws one its project may have.
GcCommit(p) ==
    /\ sync[p].cmd = "gc"
    /\ \E in \in MembershipsRead(p), created \in CreatedRead :
          mirrored' = IF Entitled(p, in, created) THEN mirrored ELSE [mirrored EXCEPT ![p] = Nothing]
    /\ sync' = [sync EXCEPT ![p] = NoOrder]
    /\ UNCHANGED <<groups, members, shared, order, removed, time, groupOps>>

\* The process ends, or its transact is refused.
SyncEnds(p) ==
    /\ sync[p] # NoOrder
    /\ sync' = [sync EXCEPT ![p] = NoOrder]
    /\ UNCHANGED <<groups, members, shared, mirrored, order, removed, time, groupOps>>

Tick ==
    /\ time < MaxTime /\ time' = time + 1
    /\ UNCHANGED <<groups, members, shared, mirrored, order, sync, removed, groupOps>>

---------------------------------------------------------------------------
GroupCommand(o) ==
    \/ \E g \in Group, home \in Realm : CreateBegin(o, g, home)
    \/ \E g \in Group : DeleteBegin(o, g)
    \/ \E cmd \in {"add", "remove"}, g \in Group, p \in Member : MemberBegin(o, cmd, g, p)
    \/ Create(o) \/ Delete(o) \/ AddMember(o) \/ RemoveMember(o) \/ RevokeGroupMirrors(o) \/ GroupCrash(o)

Sync(p) == PullBegin(p) \/ PullCommit(p) \/ GcBegin(p) \/ GcCommit(p) \/ SyncEnds(p)

GroupsNext ==
    \/ \E o \in Operator : GroupCommand(o)
    \/ \E p \in Member : Sync(p)
    \/ \E to \in SUBSET Group : PublishTo(to)
    \/ ForgetShared \/ Tick

GroupsSpec == GroupsInit /\ [][GroupsNext]_groupvars

---------------------------------------------------------------------------
(* A project that was removed from a group, and not added again, holds no mirror that it *)
(* got through that group, whatever became of the fact, the group and the mirror between *)
(* delivery and removal: the withdrawal of cm group remove is taken under no lock, after *)
(* the transact (cm_ops.py 2276-2335, 2511-2533).  Excepted are a remove that is killed  *)
(* before it ends or cannot read the mirror, and a pull that read the membership before  *)
(* the remove and is still under way at the withdrawal.                                  *)
RemovedHoldsNone ==
    \A r \in removed : mirrored[r[1]] # Nothing => r[2] \notin mirrored[r[1]].via

\* Not so in the code: a recreated group of the same domain has the old group_id, and an
\* add that read the deleted group makes its project a member of the new one.
NeverAResurrection ==
    [][\A p \in Member :
         ~(Memberships(p)' \subseteq Memberships(p)) => members' # members]_groupvars
===============================================================================
