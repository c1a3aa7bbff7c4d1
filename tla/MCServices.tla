------------------------------ MODULE MCServices ------------------------------
(***************************************************************************)
(* The services beside the canonical engine, each on a small instance of   *)
(* its own.  In these modules they share no state with one another, so that *)
(* a behaviour steps one of them: part says which, and the others rest in an *)
(* initial state.  The dream cycle has two parts, the sessions that dream and *)
(* those that justify a fact.                                              *)
(***************************************************************************)
EXTENDS FactsManifest, PurgeFence, RegistryFile, DreamCycle, OpsLog, GroupScopes, NativeStore,
        Migrate, EvictToReceive, TLC

CONSTANTS
    a, b,          \* stems
    d, e,          \* descriptions, domains
    x, y,          \* sessions, processes
    j, k,          \* sessions that justify
    p, q,          \* projects
    t, u, v,       \* texts
    w,             \* a place; an oversize text
    g              \* a group

VARIABLE part

\* x runs an older version of the plugin than y.
Firewalls == (x :> "old") @@ (y :> "new")
\* The project is of another domain than the fact: only a group entitles it.
Realms == p :> "two"

\* The canonicals of the room, as they are enumerated.
Enumeration == <<t, u>>

all == <<localvars, manifestvars, dreamvars, migratevars, purgevars, opsvars, registryvars,
         groupvars, evictvars>>

\* Migrations start from a legacy store alone; the one of the unknown pool comes by an edit.
LegacyOnly == source["legacy"][a] = t /\ source["unknown-pool"][a] = None

\* The fact to give up has a line, a small fact of the canonicals is missing.
NearCeiling ==
    /\ pointer \in [Name -> 0..2]
    /\ pointer[a] > 0 /\ pointer[b] < 2 /\ pointer[u] = 0
    /\ storeFile \in [Name -> {"none", "own", "mirror"}] /\ storeFile[u] = "none"
    /\ bodyLinks \in SUBSET {<<b, a>>}
    /\ hook \in [Global -> {1, 2}] /\ hook[u] = 1

Small ==
    /\ storeFile = [n \in Name |-> IF n \in Native THEN "own" ELSE "none"]
    /\ pointer = [n \in Name |-> 0]
    /\ bodyLinks = {} /\ hook = [n \in Global |-> 1]

Init ==
    /\ part \in {"store", "manifest", "dream", "justify", "migrate", "purge", "logs", "registry", "groups",
                "room"}
    /\ IF part = "room" THEN NearCeiling ELSE Small
    /\ EvictInit
    /\ LocalInit
    /\ ManifestInit /\ DreamInit
    /\ MigrateInit /\ LegacyOnly
    /\ PurgeInit /\ OpsInit /\ RegistryInit /\ GroupsInit
    /\ part # "store" => index = {}
    /\ part # "manifest" => canon[a].body = u
    /\ part # "purge" => member = [i \in {p, q} |-> Unknown]
    /\ part # "registry" => version = Current /\ grantsJson = {}

StoreStep ==
    /\ part = "store" /\ LocalNext
    /\ UNCHANGED <<part, manifestvars, dreamvars, migratevars, purgevars, opsvars, registryvars, groupvars, evictvars>>
ManifestStep ==
    /\ part = "manifest" /\ ManifestNext
    /\ UNCHANGED <<part, localvars, dreamvars, migratevars, purgevars, opsvars, registryvars, groupvars, evictvars>>
\* Two sessions dream, which are alike: the first pass is x's, and x is the one that may be
\* killed and whose reads and writes may fail; those of the log while the other is between two
\* commands.  Every window counts.
Failure(i) ==
    \/ AppendFails(i) \/ CountFails(i) \/ RenderBlind(i)
    \/ (DreamCrash(i) \/ HealFails(i)) /\ ~Heal(i)

DreamStep ==
    /\ part = "dream" /\ DreamNext
    /\ \A i \in {j, k} : dreamer'[i] = Asleep
    /\ \A n \in windows' : n.probative
    /\ passes' = 1 => record'.owner \in {x, "nobody"}
    /\ ~Failure(y) /\ (AppendFails(x) \/ RenderBlind(x) => dreamer[y] = Asleep)
    /\ UNCHANGED <<part, localvars, manifestvars, migratevars, purgevars, opsvars, registryvars, groupvars, evictvars>>
\* One session dreams while two justify a fact.
JustifyStep ==
    /\ part = "justify" /\ DreamNext
    /\ dreamer'[y] = Asleep /\ disturbed' = disturbed
    /\ UNCHANGED <<part, localvars, manifestvars, migratevars, purgevars, opsvars, registryvars, groupvars, evictvars>>
\* The second operator only applies and rolls back.
MigrateStep ==
    /\ part = "migrate" /\ MigrateNext
    /\ operator'[y].cmd \in {"idle", "apply", "rollback"}
    /\ UNCHANGED <<part, localvars, manifestvars, dreamvars, purgevars, opsvars, registryvars, groupvars, evictvars>>
PurgeStep ==
    /\ part = "purge" /\ PurgeNext
    /\ UNCHANGED <<part, localvars, manifestvars, dreamvars, migratevars, opsvars, registryvars, groupvars, evictvars>>
LogStep ==
    /\ part = "logs" /\ OpsNext
    /\ UNCHANGED <<part, localvars, manifestvars, dreamvars, migratevars, purgevars, registryvars, groupvars, evictvars>>
RegistryStep ==
    /\ part = "registry" /\ RegistryNext
    /\ UNCHANGED <<part, localvars, manifestvars, dreamvars, migratevars, purgevars, opsvars, groupvars, evictvars>>
GroupStep ==
    /\ part = "groups" /\ GroupsNext
    /\ UNCHANGED <<part, localvars, manifestvars, dreamvars, migratevars, purgevars, opsvars, registryvars, evictvars>>
\* One session may give up a for what is held, the other pulls alone.
RoomStep ==
    /\ part = "room" /\ EvictNext
    /\ puller'[x].pc = "planned" => puller'[x].evict \in {a, Nothing}
    /\ puller'[y].pc = "planned" => puller'[y].evict = Nothing /\ ~puller'[y].grow
    /\ UNCHANGED <<part, localvars, manifestvars, dreamvars, migratevars, purgevars, opsvars, registryvars, groupvars>>

Next ==
    \/ StoreStep \/ ManifestStep \/ DreamStep \/ JustifyStep \/ MigrateStep
    \/ PurgeStep \/ LogStep \/ RegistryStep \/ GroupStep \/ RoomStep

Spec == Init /\ [][Next]_<<part, all>>

---------------------------------------------------------------------------
(* The other properties of the parts are in their modules.                   *)

\* The types of the part that steps; the others do not change.
TypeOK ==
    CASE part = "store" -> LocalTypeOK
      [] part = "manifest" -> ManifestTypeOK
      [] part \in {"dream", "justify"} -> DreamTypeOK
      [] part = "migrate" -> MigrateTypeOK
      [] part = "purge" -> PurgeTypeOK
      [] part = "logs" -> OpsTypeOK
      [] part = "registry" -> RegistryTypeOK
      [] part = "groups" -> GroupTypeOK
      [] part = "room" -> EvictTypeOK
=============================================================================
