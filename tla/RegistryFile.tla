----------------------------- MODULE RegistryFile -----------------------------
(***************************************************************************)
(* The file control.sqlite: how a connection creates and migrates its      *)
(* schema (control_plane.py connect_registry), and the one table whose     *)
(* authority moved into it, the grants of native stores (store_context.py, *)
(* ADR 023).                                                               *)
(*                                                                         *)
(* Every statement of a migration commits on its own, so a process may die *)
(* between any two of them; connections migrate under schema.lock, grants  *)
(* are written under global.lock, readers take no lock.                    *)
(***************************************************************************)
EXTENDS Integers, FiniteSets, Sequences, SequencesExt

CONSTANTS
    Opener,        \* processes that connect
    Owner,         \* projects that may be granted a store
    Place,         \* normalized paths of native stores
    MaxConnects    \* bound on the connections of a behaviour

Ungranted == "ungranted"
Current == 5       \* REGISTRY_USER_VERSION

\* No project is named like the absence of one.
ASSUME RegistryAssumption == Ungranted \notin Owner /\ MaxConnects \in Nat

\* What the statements of SCHEMA_SQL and of _migrate_schema create, in their order; the
\* tables the properties do not tell apart are one, and so are all the indexes.
SchemaSql == <<"projects", "facts", "holders", "tombstones", "project_aliases",
               "conflicts", "domains", "grants", "groups", "indexes">>
\* Defect: the step a new version adds is written in SCHEMA_SQL only.
MigrationsOfV4 == <<"session_dir", "project_aliases", "domains", "conflict_domain",
                    "grants", "indexes">>
Migrations == <<"session_dir", "project_aliases", "domains", "conflict_domain",
                "grants", "groups", "indexes">>
Columns == [projects |-> {"session_dir"}, conflicts |-> {"conflict_domain"}]
Unit == ToSet(SchemaSql) \cup ToSet(Migrations)

\* ALTER TABLE and CREATE INDEX raise when their table is not there.
Needs(unit) == CASE unit = "session_dir" -> {"projects"}
                 [] unit = "conflict_domain" -> {"conflicts"}
                 [] unit = "indexes" -> {"facts", "holders", "tombstones"}
                 [] OTHER -> {}
Creates(unit) == {unit} \cup (IF unit \in DOMAIN Columns THEN Columns[unit] ELSE {})

VARIABLES
    version,     \* PRAGMA user_version
    schema,      \* the tables, columns and indexes of control.sqlite
    granted,     \* [Place -> its row of native_store_grants]
    grantsJson,  \* the entries of store-grants.json, none when it is consumed
    opener,      \* [Opener -> the command it runs and where it is]
    lifted,      \* grants that were revoked or moved away, and not given again
    connects

registryvars == <<version, schema, granted, grantsJson, opener, lifted, connects>>

NoConnection == [cmd |-> "none", at |-> "idle"]
At(c) == opener[c].at
GrantCmd == {"grant", "revoke", "transfer"}

RegistryTypeOK ==
    /\ version \in 0..Current + 1
    /\ schema \subseteq Unit
    /\ granted \in [Place -> Owner \cup {Ungranted}]
    /\ grantsJson \subseteq Place \X Owner
    /\ \A c \in Opener : /\ opener[c].cmd \in {"none", "open"} \cup GrantCmd
                         /\ At(c) \in {"idle", "global", "schema", "migrate", "consume", "stamp", "open"}
    /\ lifted \subseteq Place \X Owner
    /\ connects \in 0..MaxConnects

\* What is found on a machine: no registry, the one of a plugin before user_version, of
\* version 4, the current one, or the one of a newer plugin; with the grants file of
\* before ADR 023, or without.
Installed ==
    {[version |-> 0, schema |-> {}],
     [version |-> 0, schema |-> {"projects", "facts", "holders", "tombstones", "conflicts"}],
     [version |-> 4, schema |-> Unit \ {"groups"}],
     [version |-> Current, schema |-> Unit],
     [version |-> Current + 1, schema |-> Unit]}

RegistryInit ==
    /\ \E i \in Installed : version = i.version /\ schema = i.schema
    /\ granted = [w \in Place |-> Ungranted]
    /\ grantsJson \in SUBSET (Place \X Owner)
    /\ opener = [c \in Opener |-> NoConnection]
    /\ lifted = {}
    /\ connects = 0

---------------------------------------------------------------------------
(* Locks: who is inside them.                                              *)

HasSchemaLock(c) == At(c) \in {"migrate", "consume", "stamp"} /\ opener[c].connecting
HasGlobalLock(c) == opener[c].cmd \in GrantCmd /\ At(c) \notin {"idle", "global"}

Goes(c, at) == opener' = [opener EXCEPT ![c].at = at]
\* The end of a command: its result, an exception or a crash; its locks go with it.
ConnectionEnds(c) == opener' = [opener EXCEPT ![c] = NoConnection]

StartCommand(c, cmd, w, p) ==
    /\ At(c) = "idle" /\ connects < MaxConnects
    /\ opener' = [opener EXCEPT ![c] =
           [cmd |-> cmd, at |-> IF cmd \in GrantCmd THEN "global" ELSE "schema",
            connecting |-> TRUE, ingested |-> FALSE, todo |-> <<>>, place |-> w, owner |-> p]]
    /\ connects' = connects + 1
    /\ UNCHANGED <<version, schema, granted, grantsJson, lifted>>

EnterGlobal(c) ==
    /\ At(c) = "global"
    /\ \A d \in Opener : ~HasGlobalLock(d)
    /\ Goes(c, "schema")
    /\ UNCHANGED <<version, schema, granted, grantsJson, lifted, connects>>

---------------------------------------------------------------------------
(* connect_registry, under schema.lock.                                    *)

HasRegistryTables == {"projects", "facts", "holders"} \subseteq schema

Planned == (IF version = 0 /\ ~HasRegistryTables THEN SchemaSql ELSE <<>>) \o Migrations

\* A newer schema is refused; a current one is served as it is.
Connect(c) ==
    /\ At(c) = "schema"
    /\ \A d \in Opener : ~HasSchemaLock(d)
    /\ \/ version > Current /\ ConnectionEnds(c)
       \/ /\ version = Current
          /\ opener' = [opener EXCEPT ![c] = [@ EXCEPT !.at = "open", !.connecting = FALSE]]
       \/ /\ version < Current
          /\ opener' = [opener EXCEPT ![c] = [@ EXCEPT !.at = "migrate", !.todo = Planned]]
    /\ UNCHANGED <<version, schema, granted, grantsJson, lifted, connects>>

\* One statement of SCHEMA_SQL or of _migrate_schema: it commits, or raises.
MigrateOne(c) ==
    /\ At(c) = "migrate" /\ opener[c].todo # <<>>
    /\ LET unit == Head(opener[c].todo) IN
       \/ /\ unit \in schema \/ Needs(unit) \subseteq schema
          /\ schema' = schema \cup Creates(unit)
          /\ opener' = [opener EXCEPT ![c].todo = Tail(@)]
       \/ /\ unit \notin schema /\ ~(Needs(unit) \subseteq schema)
          /\ ConnectionEnds(c)
          /\ UNCHANGED schema
    /\ UNCHANGED <<version, granted, grantsJson, lifted, connects>>

\* _ingest_json_grants: an entry of the file becomes a row unless its path has one, the
\* first of a path's entries wins; the rows commit before the file is consumed.
Ingested(rows) ==
    /\ \A w \in Place :
         LET entries == {p \in Owner : <<w, p>> \in grantsJson} IN
         IF granted[w] = Ungranted /\ entries # {} THEN rows[w] \in entries
         ELSE rows[w] = granted[w]

Ingesting(c) ==
    \/ At(c) = "migrate" /\ opener[c].todo = <<>>
    \/ /\ At(c) = "open" /\ opener[c].cmd \in {"grant", "revoke"}
          /\ ~opener[c].ingested /\ grantsJson # {}

Ingest(c) ==
    /\ Ingesting(c)
    /\ granted' \in [Place -> Owner \cup {Ungranted}] /\ Ingested(granted')
    /\ opener' = [opener EXCEPT ![c] = [@ EXCEPT
                                !.at = IF grantsJson # {} THEN "consume" ELSE "stamp",
                                !.ingested = At(c) = "open"]]
    /\ UNCHANGED <<version, schema, grantsJson, lifted, connects>>

\* Defect: the file stays where it is.
LeftInPlace == grantsJson

\* The file is renamed away.
Consumed == {}

AfterConsume(c) == IF opener[c].connecting THEN "stamp" ELSE "open"

Consume(c) ==
    /\ At(c) = "consume"
    /\ grantsJson' = Consumed
    /\ Goes(c, AfterConsume(c))
    /\ UNCHANGED <<version, schema, granted, lifted, connects>>

StampVersion(c) ==
    /\ At(c) = "stamp"
    /\ version' = Current
    /\ opener' = [opener EXCEPT ![c] = [@ EXCEPT !.at = "open", !.connecting = FALSE]]
    /\ UNCHANGED <<schema, granted, grantsJson, lifted, connects>>

---------------------------------------------------------------------------
(* The commands of an open connection.                                     *)

CloseConnection(c) ==
    /\ At(c) = "open" /\ opener[c].cmd = "open"
    /\ ConnectionEnds(c)
    /\ UNCHANGED <<version, schema, granted, grantsJson, lifted, connects>>

GrantRow(c) == granted[opener[c].place]
Ready(c, cmd) == At(c) = "open" /\ opener[c].cmd = cmd /\ ~Ingesting(c)

\* One owner per path: another project's is refused.
WriteStoreGrant(c) ==
    /\ Ready(c, "grant")
    /\ \/ /\ GrantRow(c) \in {Ungranted, opener[c].owner}
          /\ granted' = [granted EXCEPT ![opener[c].place] = opener[c].owner]
          /\ lifted' = lifted \ {<<opener[c].place, opener[c].owner>>}
       \/ /\ GrantRow(c) \notin {Ungranted, opener[c].owner}
          /\ UNCHANGED <<granted, lifted>>
    /\ ConnectionEnds(c)
    /\ UNCHANGED <<version, schema, grantsJson, connects>>

RevokeStoreGrant(c) ==
    /\ Ready(c, "revoke")
    /\ granted' = IF GrantRow(c) = opener[c].owner
                  THEN [granted EXCEPT ![opener[c].place] = Ungranted] ELSE granted
    /\ lifted' = lifted \cup {<<opener[c].place, opener[c].owner>>}
    /\ ConnectionEnds(c)
    /\ UNCHANGED <<version, schema, grantsJson, connects>>

\* transfer_store_grant does not ingest: a path that is in the file only has no grant.
TransferStoreGrant(c) ==
    /\ Ready(c, "transfer")
    /\ \/ /\ GrantRow(c) # Ungranted
          /\ granted' = [granted EXCEPT ![opener[c].place] = opener[c].owner]
          /\ lifted' = (lifted \cup {<<opener[c].place, GrantRow(c)>>})
                           \ {<<opener[c].place, opener[c].owner>>}
       \/ /\ GrantRow(c) = Ungranted
          /\ UNCHANGED <<granted, lifted>>
    /\ ConnectionEnds(c)
    /\ UNCHANGED <<version, schema, grantsJson, connects>>

\* A process dies, or the rename of the file fails and the command with it.
OpenerCrash(c) ==
    /\ At(c) # "idle"
    /\ ConnectionEnds(c)
    /\ UNCHANGED <<version, schema, granted, grantsJson, lifted, connects>>

---------------------------------------------------------------------------
BeginCommand ==
    \E c \in Opener, cmd \in {"open"} \cup GrantCmd, w \in Place, p \in Owner :
        StartCommand(c, cmd, w, p)

Advance == \E c \in Opener :
    \/ EnterGlobal(c) \/ Connect(c) \/ MigrateOne(c) \/ Ingest(c) \/ Consume(c)
    \/ StampVersion(c) \/ CloseConnection(c) \/ OpenerCrash(c)
    \/ WriteStoreGrant(c) \/ RevokeStoreGrant(c) \/ TransferStoreGrant(c)

RegistryNext == BeginCommand \/ Advance

RegistrySpec == RegistryInit /\ [][RegistryNext]_registryvars

---------------------------------------------------------------------------
\* load_store_grants, what resolve_store authorizes a custom store by: the table, or the
\* file while there is no table.
LoadStoreGrants ==
    IF "grants" \in schema THEN {<<w, granted[w]>> : w \in {v \in Place : granted[v] # Ungranted}}
    ELSE grantsJson

(* A grant that was revoked, or moved to another project, is not in force again until    *)
(* somebody grants it again, whatever crashes between the ingest of the old grants file, *)
(* its removal and the stamp of the schema version (control_plane.py 760-806,            *)
(* store_context.py 573-680).  Crashes only: an old file that cannot be read is passed   *)
(* over in silence (control_plane.py 765-771), and a later ingest may still read it.     *)
RevokedStaysRevoked == LoadStoreGrants \cap lifted = {}

(* Whoever is served a connection finds the whole schema of its plugin, whichever        *)
(* version the file had and wherever an earlier migration died (control_plane.py         *)
(* 502-523, 686-757).                                                                    *)
OpenedIsWhole ==
    \A c \in Opener : At(c) = "open" => schema = Unit

\* A registry that nobody can open: a process died inside SCHEMA_SQL after the tables
\* connect_registry goes by, and _migrate_schema alters a table that was never created.
CanBeOpened ==
    HasRegistryTables /\ (\A c \in Opener : ~HasSchemaLock(c))
        => \A i \in DOMAIN Migrations : Needs(Migrations[i]) \subseteq schema
===============================================================================
