---------------------------- MODULE OperatorProofs ----------------------------
(***************************************************************************)
(* What operators do to a store and to its registry, for any number of     *)
(* processes and projects: the purge, the opening of a registry and the    *)
(* grants in it, the groups, the migration; and what a reader of the facts *)
(* manifest is told.                                                       *)
(***************************************************************************)
EXTENDS PurgeFence, RegistryFile, GroupScopes, Migrate, FactsManifest, TLAPS

-----------------------------------------------------------------------------
(* The purge (PurgeFence): no managed mirror outlives the registry.        *)
(*                                                                         *)
(* The registry is removed by a purge whose fence says that the mirrors    *)
(* are revoked; what has to be shown is that a project which can pull      *)
(* after the revocation enrolled after the purge had listed the projects.  *)

\* The places of a purge from its listing to its revocation, and after it.
Before == {"mark", "fence", "planned"}
Advanced == {"mirrors-revoked", "plugin-data-deleting", "canonical-data-deleting", "verified"}
After == Advanced \cup {"revoked", "deleted"}

AllLate == mirrors \cup Enrolled \subseteq late

Fenced ==
    /\ member \in [Project -> Domain \cup {Unknown}]
    /\ fence \in {"planned", "complete"} \cup Advanced
    /\ run \in {Stopped} \cup [pc : Before \cup After, rows : SUBSET Project,
                               domains : SUBSET Domain]
    /\ Unknown \notin canonicals
    /\ mirrors \subseteq Enrolled \cup late                 \* a mirror needs an enrolment
    /\ ~registry => Enrolled = {}
    /\ ~registry => mirrors \subseteq late
    /\ run.pc \in Before => Enrolled \subseteq run.rows \cup late
    /\ fence \in Advanced \/ run.pc \in After => AllLate
    /\ run.pc \in {"mark", "fence"} => fence = "complete"

LEMMA FencedInit == PurgeInit => Fenced
BY DEF PurgeInit, Fenced, Enrolled, Before, After, Advanced, Stopped

(* The start of a purge: whom it lists is no longer late.                   *)
LEMMA StartFenced == ASSUME Fenced, StartPurge PROVE Fenced'
<1>1. /\ run' = [pc |-> IF fence = "complete" THEN "mark" ELSE fence,
                 rows |-> Enrolled, domains |-> Domains(Enrolled)]
      /\ UNCHANGED <<purgedisk, fence>> /\ Enrolled' = Enrolled
      /\ late' = IF fence \in {"complete", "planned"} THEN late \ Enrolled ELSE late
  BY DEF StartPurge, purgedisk, Enrolled
<1>2. Enrolled \subseteq Project /\ Domains(Enrolled) \subseteq Domain
  BY DEF Fenced, Enrolled, Domains
<1>3. CASE fence \in Advanced
  BY <1>1, <1>2, <1>3 DEF Fenced, AllLate, Advanced, Before, After, purgedisk
<1>4. CASE fence \in {"planned", "complete"}
  BY <1>1, <1>2, <1>4 DEF Fenced, AllLate, Advanced, Before, After, purgedisk
<1>5. QED
  BY <1>3, <1>4 DEF Fenced

(* A purge that moves on to a place where no more has to hold.              *)
LEMMA GoesOn ==
    ASSUME Fenced, NEW pc \in Before \cup After, Go(pc), run # Stopped
    PROVE  /\ run' \in [pc : Before \cup After, rows : SUBSET Project, domains : SUBSET Domain]
           /\ run'.pc = pc /\ run'.rows = run.rows /\ run'.domains = run.domains
BY DEF Fenced, Go

LEMMA MarkFenced == ASSUME Fenced, Mark PROVE Fenced'
<1>1. run # Stopped /\ Go("fence") /\ Enrolled' = Enrolled
  BY DEF Mark, PurgeAt, Stopped, Enrolled
<1>2. QED
  BY <1>1, GoesOn DEF Fenced, Mark, PurgeAt, AllLate, Advanced, Before, After

LEMMA WriteFenceFenced == ASSUME Fenced, WriteFence PROVE Fenced'
<1>1. run # Stopped /\ Go("planned") /\ fence' = "planned" /\ Enrolled' = Enrolled
  BY DEF WriteFence, PurgeAt, Stopped, Fence, Enrolled, purgedisk
<1>2. QED
  BY <1>1, GoesOn DEF Fenced, WriteFence, PurgeAt, AllLate, Advanced, Before, After, purgedisk

(* The transaction takes the mirrors and the enrolments of all it listed.   *)
LEMMA RevokeFenced == ASSUME Fenced, Revoke PROVE Fenced'
<1>1. run # Stopped /\ Go("revoked") /\ Enrolled \subseteq run.rows \cup late
  BY DEF Revoke, PurgeAt, Stopped, Fenced, Before
<1>2. CASE registry
  <2>1. Enrolled' = Enrolled \ run.rows /\ mirrors' = mirrors \ run.rows
    BY <1>2 DEF Revoke, Enrolled, Fenced
  <2>2. member' \in [Project -> Domain \cup {Unknown}]
    BY <1>2 DEF Revoke, Fenced
  <2>3. QED
    BY <1>1, <1>2, <2>1, <2>2, GoesOn DEF Fenced, Revoke, AllLate, Advanced, Before, After
<1>3. CASE ~registry
  <2>1. Enrolled' = Enrolled /\ AllLate
    BY <1>3 DEF Revoke, Enrolled, Fenced, AllLate
  <2>2. QED
    BY <1>1, <1>3, <2>1, GoesOn DEF Fenced, Revoke, AllLate, Advanced, Before, After
<1>4. QED
  BY <1>2, <1>3

(* The fence follows what has been done.                                    *)
LEMMA FenceFollows ==
    ASSUME Fenced, NEW stage \in Advanced, Fence(stage), run.pc \in After, UNCHANGED <<purgedisk, late>>
    PROVE  Fenced'
<1>1. run # Stopped /\ Go(stage) /\ Enrolled' = Enrolled
  BY DEF Stopped, Fence, Enrolled, purgedisk, After, Advanced
<1>2. QED
  BY <1>1, GoesOn DEF Fenced, Fence, AllLate, Advanced, Before, After, purgedisk

(* A purge that ends where it is.                                           *)
LEMMA EndsFenced ==
    ASSUME Fenced, run' = Stopped, UNCHANGED <<registry, member, mirrors, late>>,
           fence' \in {fence, "complete"}, canonicals' \subseteq canonicals
    PROVE  Fenced'
<1>1. Enrolled' = Enrolled
  BY DEF Enrolled
<1>2. QED
  BY <1>1 DEF Fenced, AllLate, Stopped, Advanced, Before, After

LEMMA RemovePluginDataFenced == ASSUME Fenced, RemovePluginData PROVE Fenced'
<1>1. AllLate /\ run # Stopped
  BY DEF RemovePluginData, PurgeAt, Fenced, After, Advanced, Stopped
<1>2. run' = Stopped \/ Go("deleted")
  BY DEF RemovePluginData
<1>3. run' \in {Stopped} \cup [pc : Before \cup After, rows : SUBSET Project,
                               domains : SUBSET Domain]
      /\ run'.pc \in {"stopped", "deleted"}
  BY <1>1, <1>2, GoesOn DEF After, Stopped
<1>4. NoRegistry \/ UNCHANGED <<registry, member, status>>
  BY DEF RemovePluginData
<1>5. CASE NoRegistry
  <2>1. Enrolled' = {} /\ member' \in [Project -> Domain \cup {Unknown}]
    BY <1>5 DEF NoRegistry, Enrolled
  <2>2. QED
    BY <1>1, <1>3, <2>1 DEF Fenced, RemovePluginData, AllLate, Before
<1>6. CASE UNCHANGED <<registry, member, status>>
  <2>1. Enrolled' = Enrolled
    BY <1>6 DEF Enrolled
  <2>2. QED
    BY <1>1, <1>3, <1>6, <2>1 DEF Fenced, RemovePluginData, AllLate, Before
<1>7. QED
  BY <1>4, <1>5, <1>6

LEMMA RemoveCanonicalsFenced == ASSUME Fenced, RemoveCanonicals PROVE Fenced'
<1>1. Enrolled' = Enrolled /\ run # Stopped /\ AllLate
  BY DEF RemoveCanonicals, Enrolled, PurgeAt, Stopped, Fenced, After, Advanced
<1>2. CASE Fence("verified")
  <2>1. Go("verified") /\ fence' = "verified"
    BY <1>2 DEF Fence
  <2>2. QED
    BY <1>1, <2>1, GoesOn DEF Fenced, RemoveCanonicals, AllLate, Advanced, Before, After
<1>3. CASE canonicals' \in SUBSET canonicals \ {{}} /\ run' = Stopped /\ UNCHANGED fence
  BY <1>3, EndsFenced DEF RemoveCanonicals
<1>4. QED
  BY <1>2, <1>3 DEF RemoveCanonicals

LEMMA PurgeFenced == ASSUME Fenced, Purge PROVE Fenced'
<1>1. CASE MarkRevoked
  BY <1>1, FenceFollows DEF MarkRevoked, PurgeAt, After, Advanced
<1>2. CASE MarkDeleting
  BY <1>2, FenceFollows DEF MarkDeleting, PurgeAt, After, Advanced
<1>3. CASE MarkDeleted
  BY <1>3, FenceFollows DEF MarkDeleted, PurgeAt, After, Advanced
<1>4. CASE Verify
  BY <1>4, EndsFenced DEF Verify, purgedisk
<1>5. CASE Die
  BY <1>5, EndsFenced DEF Die, purgedisk
<1>6. QED
  BY <1>1, <1>2, <1>3, <1>4, <1>5, StartFenced, MarkFenced, WriteFenceFenced, RevokeFenced,
     RemovePluginDataFenced, RemoveCanonicalsFenced DEF Purge

---------------------------------------------------------------------------
(* The sessions: who enrols is late, and only who is enrolled pulls.        *)
LEMMA EnrolFenced ==
    ASSUME Fenced, NEW p \in Project, NEW d \in Domain, Enrol(p, d)
    PROVE  Fenced'
<1>1. Enrolled' \subseteq Enrolled \cup {p} /\ Enrolled \subseteq Enrolled' /\ late' = late \cup {p}
  BY DEF Enrol, Enrolled, Fenced
<1>2. member' \in [Project -> Domain \cup {Unknown}]
  BY DEF Enrol, Fenced
<1>3. QED
  BY <1>1, <1>2 DEF Enrol, Fenced, AllLate

LEMMA PullFenced == ASSUME Fenced, NEW p \in Project, Pull(p) PROVE Fenced'
<1>1. Enrolled' = Enrolled /\ p \in Enrolled /\ mirrors' = mirrors \cup {p}
  BY DEF Pull, Enrolled, Fenced
<1>2. registry
  BY <1>1 DEF Fenced
<1>3. QED
  BY <1>1, <1>2 DEF Pull, Fenced, AllLate

LEMMA UpsertFenced == ASSUME Fenced, NEW p \in Project, WriteFact(p) PROVE Fenced'
<1>1. Enrolled' = Enrolled /\ Unknown \notin canonicals'
  BY DEF WriteFact, Enrolled, Fenced
<1>2. QED
  BY <1>1 DEF WriteFact, Fenced, AllLate

LEMMA StepFenced == Fenced /\ [PurgeNext]_purgevars => Fenced'
<1> SUFFICES ASSUME Fenced, [PurgeNext]_purgevars PROVE Fenced'
  OBVIOUS
<1>1. CASE Purge
  BY <1>1, PurgeFenced
<1>2. CASE \E p \in Project : WriteFact(p) \/ Pull(p) \/ \E d \in Domain : Enrol(p, d)
  BY <1>2, UpsertFenced, PullFenced, EnrolFenced
<1>3. CASE UNCHANGED purgevars
  BY <1>3 DEF purgevars, Fenced, AllLate, Enrolled
<1>4. QED
  BY <1>1, <1>2, <1>3 DEF PurgeNext

(* When the registry is gone, no project still has managed mirrors but one that enrolled *)
(* after the purge had listed them, wherever the purge stopped and was resumed (cm_ops.py *)
(* run_all_plugin_data_purge).                                                            *)
THEOREM NoMirrorLeft == PurgeSpec => []NoMirrorOutlivesRegistry
<1>1. Fenced => NoMirrorOutlivesRegistry
  BY DEF Fenced, NoMirrorOutlivesRegistry
<1>2. QED
  BY <1>1, FencedInit, StepFenced, PTL DEF PurgeSpec

---------------------------------------------------------------------------
(* The types.                                                              *)

LEMMA InitPurgeTypes == PurgeInit => PurgeTypeOK
<1>1. Stage[6] = "complete" /\ 6 \in DOMAIN Stage
  BY DEF Stage
<1>2. QED
  BY <1>1 DEF PurgeInit, PurgeTypeOK, Unknown

LEMMA StagesAre ==
    \A stage \in {"planned", "complete"} \cup Advanced : \E i \in DOMAIN Stage : stage = Stage[i]
<1>1. /\ Stage[1] = "planned" /\ Stage[2] = "mirrors-revoked" /\ Stage[3] = "plugin-data-deleting"
      /\ Stage[4] = "canonical-data-deleting" /\ Stage[5] = "verified" /\ Stage[6] = "complete"
      /\ {1, 2, 3, 4, 5, 6} \subseteq DOMAIN Stage
  BY DEF Stage
<1>2. QED
  BY <1>1 DEF Advanced

LEMMA StepPurgeTypes ==
    Fenced /\ Fenced' /\ PurgeTypeOK /\ [PurgeNext]_purgevars => PurgeTypeOK'
<1> SUFFICES ASSUME Fenced, Fenced', PurgeTypeOK, [PurgeNext]_purgevars PROVE PurgeTypeOK'
  OBVIOUS
<1>1. /\ fence' \in {"planned", "complete"} \cup Advanced
      /\ member' \in [Project -> Domain \cup {Unknown}]
      /\ ~registry' => \A p \in Project : member'[p] = Unknown
  BY DEF Fenced, Enrolled
<1>2. \E i \in DOMAIN Stage : fence' = Stage[i]
  BY <1>1, StagesAre
<1>3. /\ registry' \in BOOLEAN /\ files' \in BOOLEAN
      /\ status' \in [Domain -> {"active", "deleting", "deleted"}]
      /\ canonicals' \subseteq Domain /\ mirrors' \subseteq Project
      /\ late' \subseteq Project
  <2>1. CASE StartPurge
    BY <2>1 DEF StartPurge, purgedisk, PurgeTypeOK, Enrolled
  <2>2. CASE Mark
    BY <2>2 DEF Mark, Go, PurgeTypeOK
  <2>3. CASE WriteFence \/ MarkRevoked \/ MarkDeleting \/ MarkDeleted \/ Verify \/ Die
    BY <2>3 DEF WriteFence, MarkRevoked, MarkDeleting, MarkDeleted, Verify, Die, purgedisk, PurgeTypeOK
  <2>4. CASE Revoke
    BY <2>4 DEF Revoke, PurgeTypeOK
  <2>5. CASE RemovePluginData
    BY <2>5 DEF RemovePluginData, NoRegistry, PurgeTypeOK
  <2>6. CASE RemoveCanonicals
    BY <2>6 DEF RemoveCanonicals, PurgeTypeOK
  <2>7. CASE \E p \in Project : WriteFact(p) \/ Pull(p) \/ \E d \in Domain : Enrol(p, d)
    BY <2>7 DEF WriteFact, Pull, Enrol, PurgeTypeOK
  <2>8. CASE UNCHANGED purgevars
    BY <2>8 DEF purgevars, PurgeTypeOK
  <2>9. QED
    BY <2>1, <2>2, <2>3, <2>4, <2>5, <2>6, <2>7, <2>8 DEF PurgeNext, Purge
<1>4. QED
  BY <1>1, <1>2, <1>3 DEF PurgeTypeOK

(* Every place of the state of a purge is of its type, whatever the order in which       *)
(* processes delete, enrol and pull (cm data purge).                                     *)
THEOREM PurgeTyped == PurgeSpec => []PurgeTypeOK
<1>1. PurgeSpec => []Fenced
  BY FencedInit, StepFenced, PTL DEF PurgeSpec
<1>2. QED
  BY <1>1, InitPurgeTypes, StepPurgeTypes, PTL DEF PurgeSpec

-----------------------------------------------------------------------------
(* The registry (RegistryFile): an opened one is whole, and a revoked      *)
(* grant stays revoked.                                                    *)
(*                                                                         *)
(* Every statement of the migration needs what the older versions created, *)
(* so one that runs to its end leaves nothing out.  A grant can only be    *)
(* lifted by a connection that is open, and a revocation only when the     *)
(* grants file is gone; a transfer leaves an owner, over whom no entry of  *)
(* the file prevails.                                                      *)

Connection ==
    [cmd : {"open"} \cup GrantCmd,
     at : {"global", "schema", "migrate", "consume", "stamp", "open"},
     connecting : BOOLEAN, ingested : BOOLEAN, todo : Seq(Unit), place : Place, owner : Owner]

\* Columns and indexes come with the tables they are on.
Closed == /\ schema \subseteq Unit
          /\ "session_dir" \in schema => "projects" \in schema
          /\ "conflict_domain" \in schema => "conflicts" \in schema
          /\ "indexes" \in schema => {"facts", "holders", "tombstones"} \subseteq schema

Sound(k) ==
    /\ k.at = "migrate" => ToSet(Migrations) \subseteq schema \cup ToSet(k.todo)
    /\ k.at \in {"consume", "stamp", "open"} => schema = Unit
    /\ k.at \in {"global", "schema", "migrate", "stamp"} => ~k.ingested
    /\ k.at # "open" => (k.connecting => ~k.ingested)
    /\ k.at = "open" => ~k.connecting
    /\ k.at = "open" /\ k.ingested => grantsJson = {}

Connections ==
    /\ opener \in [Opener -> {NoConnection} \cup Connection]
    /\ \A c \in Opener : At(c) # "idle" => Sound(opener[c])

Grants ==
    /\ granted \in [Place -> Owner \cup {Ungranted}]
    /\ grantsJson \subseteq Place \X Owner /\ lifted \subseteq Place \X Owner
    /\ \A w \in Place, p \in Owner : <<w, p>> \in lifted =>
         granted[w] # p /\ (<<w, p>> \in grantsJson => granted[w] # Ungranted)

Opens ==
    /\ Closed /\ Connections /\ Grants
    /\ version = Current => schema = Unit
    /\ lifted # {} => schema = Unit

---------------------------------------------------------------------------
(* What the statements create.                                             *)
LEMMA Units ==
    /\ ToSet(SchemaSql) = {"projects", "facts", "holders", "tombstones", "project_aliases",
                           "conflicts", "domains", "grants", "groups", "indexes"}
    /\ ToSet(Migrations) = {"session_dir", "project_aliases", "domains", "conflict_domain",
                            "grants", "groups", "indexes"}
<1>1. DOMAIN SchemaSql = 1..10 /\ DOMAIN Migrations = 1..7
  BY DEF SchemaSql, Migrations
<1>2. QED
  BY <1>1 DEF ToSet, SchemaSql, Migrations

LEMMA UnitIs ==
    Unit = {"projects", "facts", "holders", "tombstones", "project_aliases", "conflicts",
            "domains", "grants", "groups", "indexes", "session_dir", "conflict_domain"}
BY Units DEF Unit

(* A schema in which every statement of the migration succeeded.            *)
LEMMA MigratedIsWhole == Closed /\ ToSet(Migrations) \subseteq schema => schema = Unit
BY Units, UnitIs DEF Closed

LEMMA CreatesUnits == \A unit \in Unit : unit \in Creates(unit) /\ Creates(unit) \subseteq Unit
BY UnitIs DEF Creates, Columns

LEMMA FirstOfTodo ==
    ASSUME NEW s \in Seq(Unit), s # << >>
    PROVE  /\ Head(s) \in Unit /\ Tail(s) \in Seq(Unit)
           /\ ToSet(s) \subseteq {Head(s)} \cup ToSet(Tail(s))
<1>1. Head(s) \in Unit /\ Tail(s) \in Seq(Unit)
  OBVIOUS
<1>2. ASSUME NEW i \in DOMAIN s PROVE s[i] \in {Head(s)} \cup ToSet(Tail(s))
  <2>1. i \in Nat /\ i \in 1..Len(s)
    OBVIOUS
  <2>2. CASE i = 1
    BY <2>2
  <2>3. CASE i # 1
    <3>1. i - 1 \in DOMAIN Tail(s) /\ Tail(s)[i - 1] = s[i]
      BY <2>1, <2>3
    <3>2. QED
      BY <3>1 DEF ToSet
  <2>4. QED
    BY <2>2, <2>3
<1>3. QED
  BY <1>1, <1>2 DEF ToSet

LEMMA PlannedMigrates == Planned \in Seq(Unit) /\ ToSet(Migrations) \subseteq ToSet(Planned)
<1>1. SchemaSql \in Seq(Unit) /\ Migrations \in Seq(Unit)
  BY UnitIs DEF SchemaSql, Migrations
<1>2. ASSUME NEW s \in Seq(Unit), NEW t \in Seq(Unit)
      PROVE  s \o t \in Seq(Unit) /\ ToSet(t) \subseteq ToSet(s \o t)
  <2>1. ASSUME NEW i \in DOMAIN t PROVE t[i] \in ToSet(s \o t)
    <3>1. Len(s) + i \in DOMAIN (s \o t) /\ (s \o t)[Len(s) + i] = t[i]
      OBVIOUS
    <3>2. QED
      BY <3>1 DEF ToSet
  <2>2. QED
    BY <2>1 DEF ToSet
<1>3. << >> \in Seq(Unit)
  OBVIOUS
<1>4. PICK s \in Seq(Unit) : Planned = s \o Migrations
  BY <1>1, <1>3 DEF Planned
<1>5. QED
  BY <1>1, <1>2, <1>4

LEMMA NeedsAre ==
    /\ Needs("session_dir") = {"projects"} /\ Needs("conflict_domain") = {"conflicts"}
    /\ Needs("indexes") = {"facts", "holders", "tombstones"}
BY DEF Needs

(* A statement that succeeds leaves no column without its table.            *)
LEMMA StatementCloses ==
    ASSUME Closed, NEW unit \in Unit, unit \in schema \/ Needs(unit) \subseteq schema,
           schema' = schema \cup Creates(unit)
    PROVE  Closed'
<1>1. schema' \subseteq Unit
  BY CreatesUnits DEF Closed
<1>2. "session_dir" \in schema' => "projects" \in schema'
  BY NeedsAre DEF Closed, Creates, Columns
<1>3. "conflict_domain" \in schema' => "conflicts" \in schema'
  BY NeedsAre DEF Closed, Creates, Columns
<1>4. "indexes" \in schema' => {"facts", "holders", "tombstones"} \subseteq schema'
  BY NeedsAre DEF Closed, Creates, Columns
<1>5. QED
  BY <1>1, <1>2, <1>3, <1>4 DEF Closed

---------------------------------------------------------------------------
LEMMA InitOpens == RegistryInit => Opens
<1> SUFFICES ASSUME RegistryInit PROVE Opens
  OBVIOUS
<1>1. Closed /\ (version = Current => schema = Unit)
  BY UnitIs DEF RegistryInit, Installed, Closed, Current
<1>2. Connections
  BY DEF RegistryInit, Connections, NoConnection, At
<1>3. QED
  BY <1>1, <1>2 DEF RegistryInit, Opens, Grants

\* What the rest of a step has to grant the connections it leaves alone.
Grows == /\ schema \subseteq schema' /\ schema' \subseteq Unit
         /\ grantsJson' \subseteq grantsJson

LEMMA OneConnection ==
    ASSUME Opens, Grows, NEW c \in Opener, NEW k \in Connection,
           opener' = [opener EXCEPT ![c] = k], Sound(k)'
    PROVE  Connections'
<1>1. opener' \in [Opener -> {NoConnection} \cup Connection]
  BY DEF Opens, Connections
<1>2. ASSUME NEW d \in Opener, d # c, At(d)' # "idle" PROVE Sound(opener[d])'
  <2>1. opener'[d] = opener[d]
    BY <1>2 DEF Opens, Connections
  <2>2. Sound(opener[d])
    BY <1>2, <2>1 DEF Opens, Connections, At
  <2>3. QED
    BY <2>1, <2>2 DEF Grows, Sound
<1>3. opener'[c] = k
  BY DEF Opens, Connections
<1>4. QED
  BY <1>1, <1>2, <1>3 DEF Connections, Sound

LEMMA OneEnds ==
    ASSUME Opens, Grows, NEW c \in Opener, ConnectionEnds(c)
    PROVE  Connections'
<1>1. opener' \in [Opener -> {NoConnection} \cup Connection] /\ opener'[c] = NoConnection
  BY DEF Opens, Connections, ConnectionEnds
<1>2. ASSUME NEW d \in Opener, At(d)' # "idle" PROVE Sound(opener[d])'
  <2>1. opener'[d] = opener[d] /\ d # c
    BY <1>1, <1>2 DEF Opens, Connections, ConnectionEnds, At, NoConnection
  <2>2. Sound(opener[d])
    BY <1>2, <2>1 DEF Opens, Connections, At
  <2>3. QED
    BY <2>1, <2>2 DEF Grows, Sound
<1>3. QED
  BY <1>1, <1>2 DEF Connections

(* A command that runs is a connection.                                     *)
LEMMA Running ==
    ASSUME Opens, NEW c \in Opener, At(c) # "idle"
    PROVE  opener[c] \in Connection /\ Sound(opener[c])
BY DEF Opens, Connections, At, NoConnection

\* The connection of c, at another place.
With(c, at, connecting, ingested, todo) ==
    [cmd |-> opener[c].cmd, at |-> at, connecting |-> connecting, ingested |-> ingested,
     todo |-> todo, place |-> opener[c].place, owner |-> opener[c].owner]

LEMMA Records ==
    ASSUME NEW c \in Opener, opener[c] \in Connection, NEW at, NEW x
    PROVE  /\ [opener[c] EXCEPT !.at = at]
                 = With(c, at, opener[c].connecting, opener[c].ingested, opener[c].todo)
           /\ [opener[c] EXCEPT !.at = at, !.connecting = x]
                 = With(c, at, x, opener[c].ingested, opener[c].todo)
           /\ [opener[c] EXCEPT !.at = at, !.ingested = x]
                 = With(c, at, opener[c].connecting, x, opener[c].todo)
           /\ [opener[c] EXCEPT !.todo = x]
                 = With(c, opener[c].at, opener[c].connecting, opener[c].ingested, x)
<1> PICK r \in Connection : r = opener[c]
  OBVIOUS
<1>1. [r EXCEPT !.at = at] = With(c, at, r.connecting, r.ingested, r.todo)
  BY DEF Connection, With
<1>2. [r EXCEPT !.at = at, !.connecting = x] = With(c, at, x, r.ingested, r.todo)
  <2>1. [r EXCEPT !.at = at, !.connecting = x]
           = [With(c, at, r.connecting, r.ingested, r.todo) EXCEPT !.connecting = x]
    BY <1>1, Zenon
  <2>2. [With(c, at, r.connecting, r.ingested, r.todo) EXCEPT !.connecting = x] = With(c, at, x, r.ingested, r.todo)
    BY DEF With
  <2>3. QED
    BY <2>1, <2>2, Zenon
<1>3. [r EXCEPT !.at = at, !.ingested = x] = With(c, at, r.connecting, x, r.todo)
  <2>1. [r EXCEPT !.at = at, !.ingested = x]
           = [With(c, at, r.connecting, r.ingested, r.todo) EXCEPT !.ingested = x]
    BY <1>1, Zenon
  <2>2. [With(c, at, r.connecting, r.ingested, r.todo) EXCEPT !.ingested = x] = With(c, at, r.connecting, x, r.todo)
    BY DEF With
  <2>3. QED
    BY <2>1, <2>2, Zenon
<1>4. [r EXCEPT !.todo = x] = With(c, r.at, r.connecting, r.ingested, x)
  BY DEF Connection, With
<1>5. QED
  BY <1>1, <1>2, <1>3, <1>4, Zenon

LEMMA RecordTodo ==
    ASSUME NEW c \in Opener, opener[c] \in Connection, NEW at, NEW x
    PROVE  [opener[c] EXCEPT !.at = at, !.todo = x]
              = With(c, at, opener[c].connecting, opener[c].ingested, x)
<1> PICK r \in Connection : r = opener[c]
  OBVIOUS
<1>1. [r EXCEPT !.at = at] = With(c, at, r.connecting, r.ingested, r.todo)
  BY DEF Connection, With
<1>2. [r EXCEPT !.at = at, !.todo = x] = With(c, at, r.connecting, r.ingested, x)
  <2>1. [r EXCEPT !.at = at, !.todo = x]
           = [With(c, at, r.connecting, r.ingested, r.todo) EXCEPT !.todo = x]
    BY <1>1, Zenon
  <2>2. [With(c, at, r.connecting, r.ingested, r.todo) EXCEPT !.todo = x] = With(c, at, r.connecting, r.ingested, x)
    BY DEF With
  <2>3. QED
    BY <2>1, <2>2, Zenon
<1>3. QED
  BY <1>2, Zenon

\* k takes the place of opener[c].
Becomes(c, k, at, connecting, ingested, todo) ==
    /\ opener' = [opener EXCEPT ![c] = k]
    /\ k.at = at /\ k.connecting = connecting /\ k.ingested = ingested /\ k.todo = todo

LEMMA Moves ==
    ASSUME Opens, NEW c \in Opener, At(c) # "idle",
           NEW at \in {"global", "schema", "migrate", "consume", "stamp", "open"},
           NEW connecting \in BOOLEAN, NEW ingested \in BOOLEAN, NEW todo \in Seq(Unit),
           opener' = [opener EXCEPT ![c] = With(c, at, connecting, ingested, todo)]
    PROVE  \E k \in Connection : Becomes(c, k, at, connecting, ingested, todo)
<1>1. With(c, at, connecting, ingested, todo) \in Connection
  BY Running DEF Connection, With
<1>2. QED
  BY <1>1 DEF Becomes, With

---------------------------------------------------------------------------
(* One lemma per action.                                                    *)
LEMMA StartOpens ==
    ASSUME Opens, NEW c \in Opener, NEW cmd \in {"open"} \cup GrantCmd, NEW w \in Place,
           NEW p \in Owner, StartCommand(c, cmd, w, p)
    PROVE  Opens'
<1> DEFINE new == [cmd |-> cmd, at |-> IF cmd \in GrantCmd THEN "global" ELSE "schema",
                   connecting |-> TRUE, ingested |-> FALSE, todo |-> << >>, place |-> w,
                   owner |-> p]
<1>1. new \in Connection /\ opener' = [opener EXCEPT ![c] = new]
  BY DEF StartCommand, Connection
<1>2. Grows /\ Closed' /\ Grants' /\ UNCHANGED <<version, schema, lifted>>
  BY DEF StartCommand, Grows, Opens, Closed, Grants
<1>3. PICK k \in Connection : k = new
  BY <1>1
<1>4. Sound(k)'
  BY <1>3 DEF Sound
<1>5. QED
  BY <1>1, <1>2, <1>3, <1>4, OneConnection DEF Opens

LEMMA Fields ==
    ASSUME NEW c \in Opener, opener[c] \in Connection
    PROVE  /\ opener[c].at \in {"global", "schema", "migrate", "consume", "stamp", "open"}
           /\ opener[c].connecting \in BOOLEAN /\ opener[c].ingested \in BOOLEAN
           /\ opener[c].todo \in Seq(Unit) /\ opener[c].place \in Place
           /\ opener[c].owner \in Owner /\ opener[c].cmd \in {"open"} \cup GrantCmd
BY DEF Connection

LEMMA GoesMoves ==
    ASSUME Opens, NEW c \in Opener, At(c) # "idle",
           NEW at \in {"global", "schema", "migrate", "consume", "stamp", "open"}, Goes(c, at)
    PROVE  \E k \in Connection :
             Becomes(c, k, at, opener[c].connecting, opener[c].ingested, opener[c].todo)
<1>1. opener[c] \in Connection
  BY Running
<1>2. opener' = [opener EXCEPT ![c] =
                     With(c, at, opener[c].connecting, opener[c].ingested, opener[c].todo)]
  BY <1>1, Records, Zenon DEF Goes
<1>3. opener[c].connecting \in BOOLEAN /\ opener[c].ingested \in BOOLEAN /\ opener[c].todo \in Seq(Unit)
  BY <1>1, Fields
<1>4. QED
  BY <1>2, <1>3, Moves

(* A step that changes connections only.                                    *)
LEMMA Quiet ==
    ASSUME Opens, UNCHANGED <<version, schema, granted, grantsJson, lifted>>, Grows => Connections'
    PROVE  Opens'
BY DEF Grows, Opens, Closed, Grants

LEMMA EnterGlobalOpens == ASSUME Opens, NEW c \in Opener, EnterGlobal(c) PROVE Opens'
<1>1. opener[c] \in Connection /\ Sound(opener[c]) /\ At(c) = "global"
  BY Running DEF EnterGlobal
<1>2. Goes(c, "schema") /\ At(c) # "idle"
  BY DEF EnterGlobal
<1>3. PICK k \in Connection : Becomes(c, k, "schema", opener[c].connecting, opener[c].ingested,
                                      opener[c].todo)
  BY <1>2, GoesMoves
<1>4. Sound(k)'
  BY <1>1, <1>3 DEF Sound, At, Becomes
<1>5. QED
  BY <1>3, <1>4, OneConnection, Quiet DEF EnterGlobal, Becomes

LEMMA ConnectOpens == ASSUME Opens, NEW c \in Opener, Connect(c) PROVE Opens'
<1>1. opener[c] \in Connection /\ Sound(opener[c]) /\ At(c) = "schema"
  BY Running DEF Connect
<1>2. UNCHANGED <<version, schema, granted, grantsJson, lifted>>
  BY DEF Connect
<1>3. CASE ConnectionEnds(c)
  BY <1>2, <1>3, OneEnds, Quiet
<1>4. CASE /\ version = Current
           /\ opener' = [opener EXCEPT ![c] = [@ EXCEPT !.at = "open", !.connecting = FALSE]]
  <2>1. opener' = [opener EXCEPT ![c] = [opener[c] EXCEPT !.at = "open", !.connecting = FALSE]]
    BY <1>4
  <2>2. opener' = [opener EXCEPT ![c] =
                       With(c, "open", FALSE, opener[c].ingested, opener[c].todo)]
    <3>1. [opener[c] EXCEPT !.at = "open", !.connecting = FALSE]
             = With(c, "open", FALSE, opener[c].ingested, opener[c].todo)
      BY <1>1, Records, Zenon
    <3>2. QED
      BY <2>1, <3>1, Zenon
  <2>3. PICK k \in Connection : Becomes(c, k, "open", FALSE, opener[c].ingested, opener[c].todo)
    BY <1>1, <2>2, Moves, Fields
  <2>4. Sound(k)'
    BY <1>1, <1>2, <1>4, <2>3 DEF Sound, At, Becomes, Opens
  <2>5. QED
    BY <1>2, <2>3, <2>4, OneConnection, Quiet DEF Becomes
<1>5. CASE opener' = [opener EXCEPT ![c] = [@ EXCEPT !.at = "migrate", !.todo = Planned]]
  <2>1. opener' = [opener EXCEPT ![c] = [opener[c] EXCEPT !.at = "migrate", !.todo = Planned]]
    BY <1>5
  <2>2. opener' = [opener EXCEPT ![c] =
                       With(c, "migrate", opener[c].connecting, opener[c].ingested, Planned)]
    <3>1. [opener[c] EXCEPT !.at = "migrate", !.todo = Planned]
             = With(c, "migrate", opener[c].connecting, opener[c].ingested, Planned)
      BY <1>1, RecordTodo, Zenon
    <3>2. QED
      BY <2>1, <3>1, Zenon
  <2>3. PICK k \in Connection :
          Becomes(c, k, "migrate", opener[c].connecting, opener[c].ingested, Planned)
    BY <1>1, <2>2, Moves, Fields, PlannedMigrates
  <2>4. k.at = "migrate" /\ ToSet(Migrations) \subseteq schema' \cup ToSet(k.todo) /\ ~k.ingested
    BY <1>1, <1>2, <2>3, PlannedMigrates DEF Sound, At, Becomes
  <2>5. Sound(k)'
    BY <2>4 DEF Sound
  <2>6. QED
    BY <1>2, <2>3, <2>5, OneConnection, Quiet DEF Becomes
<1>6. QED
  BY <1>3, <1>4, <1>5 DEF Connect

LEMMA MigrateOpens == ASSUME Opens, NEW c \in Opener, MigrateOne(c) PROVE Opens'
<1>1. opener[c] \in Connection /\ Sound(opener[c]) /\ At(c) = "migrate" /\ opener[c].todo # << >>
  BY Running DEF MigrateOne
<1>2. UNCHANGED <<version, granted, grantsJson, lifted>> /\ Grants'
  BY DEF MigrateOne, Opens, Grants
<1> DEFINE unit == Head(opener[c].todo)
<1>3. /\ unit \in Unit /\ Tail(opener[c].todo) \in Seq(Unit)
      /\ ToSet(opener[c].todo) \subseteq {unit} \cup ToSet(Tail(opener[c].todo))
  BY <1>1, FirstOfTodo DEF Connection
<1>4. CASE /\ unit \in schema \/ Needs(unit) \subseteq schema
           /\ schema' = schema \cup Creates(unit)
           /\ opener' = [opener EXCEPT ![c].todo = Tail(@)]
  <2>1. Closed' /\ unit \in schema' /\ schema \subseteq schema'
    BY <1>3, <1>4, StatementCloses, CreatesUnits DEF Opens
  <2>2. Grows /\ (schema = Unit => schema' = Unit)
    BY <1>2, <2>1 DEF Grows, Closed
  <2>3. opener' = [opener EXCEPT ![c] = With(c, opener[c].at, opener[c].connecting,
                                              opener[c].ingested, Tail(opener[c].todo))]
    BY <1>1, <1>4, Records, Zenon
  <2>4. PICK k \in Connection : Becomes(c, k, opener[c].at, opener[c].connecting,
                                        opener[c].ingested, Tail(opener[c].todo))
    <3>1. /\ opener[c].at \in {"global", "schema", "migrate", "consume", "stamp", "open"}
          /\ opener[c].connecting \in BOOLEAN /\ opener[c].ingested \in BOOLEAN
          /\ At(c) # "idle"
      BY <1>1, Fields
    <3>2. QED
      BY <1>3, <2>3, <3>1, Moves
  <2>5. k.at = "migrate" /\ ToSet(Migrations) \subseteq schema' \cup ToSet(k.todo) /\ ~k.ingested
    BY <1>1, <1>3, <2>1, <2>4 DEF Sound, At, Becomes
  <2>6. Sound(k)'
    BY <2>5 DEF Sound
  <2>7. QED
    BY <1>2, <2>1, <2>2, <2>4, <2>6, OneConnection DEF Opens, Becomes
<1>5. CASE ConnectionEnds(c) /\ UNCHANGED schema
  BY <1>2, <1>5, OneEnds, Quiet DEF MigrateOne
<1>6. QED
  BY <1>4, <1>5 DEF MigrateOne

(* The entries of the file that become rows are none that were lifted.      *)
LEMMA IngestOpens == ASSUME Opens, NEW c \in Opener, Ingest(c) PROVE Opens'
<1>1. opener[c] \in Connection /\ Sound(opener[c]) /\ Ingesting(c)
  BY Running DEF Ingest, Ingesting
<1>2. /\ granted' \in [Place -> Owner \cup {Ungranted}] /\ Ingested(granted')
      /\ UNCHANGED <<version, schema, grantsJson, lifted>>
  BY DEF Ingest
<1>3. Grows /\ Closed'
  BY <1>2 DEF Grows, Opens, Closed
<1>4. schema = Unit
  <2>1. CASE At(c) = "migrate" /\ opener[c].todo = << >>
    <3>1. ToSet(opener[c].todo) = {}
      BY <2>1 DEF ToSet
    <3>2. QED
      BY <1>1, <2>1, <3>1, MigratedIsWhole DEF Sound, At, Opens
  <2>2. CASE At(c) = "open"
    BY <1>1, <2>2 DEF Sound, At
  <2>3. QED
    BY <1>1, <2>1, <2>2 DEF Ingesting
<1>5. ASSUME NEW w \in Place, NEW p \in Owner, <<w, p>> \in lifted
      PROVE  granted'[w] # p /\ (<<w, p>> \in grantsJson => granted'[w] # Ungranted)
  <2> DEFINE entries == {q \in Owner : <<w, q>> \in grantsJson}
  <2>1. granted[w] # p /\ (<<w, p>> \in grantsJson => granted[w] # Ungranted)
    BY <1>5 DEF Opens, Grants
  <2>2. IF granted[w] = Ungranted /\ entries # {} THEN granted'[w] \in entries
        ELSE granted'[w] = granted[w]
    BY <1>2 DEF Ingested
  <2>3. QED
    BY <2>1, <2>2
<1>6. Grants'
  BY <1>2, <1>5 DEF Opens, Grants
<1>7. Connections'
  <2> DEFINE at == IF grantsJson # {} THEN "consume" ELSE "stamp"
             ingested == At(c) = "open"
  <2>1. [opener[c] EXCEPT !.at = at, !.ingested = ingested]
          = With(c, at, opener[c].connecting, ingested, opener[c].todo)
    <3>1. \A x, y : [opener[c] EXCEPT !.at = x, !.ingested = y]
                      = With(c, x, opener[c].connecting, y, opener[c].todo)
      BY <1>1, Records, Zenon
    <3>2. QED
      BY <3>1
  <2>2. opener' = [opener EXCEPT ![c] = With(c, at, opener[c].connecting, ingested, opener[c].todo)]
    <3>1. opener' = [opener EXCEPT ![c] = [opener[c] EXCEPT !.at = at, !.ingested = ingested]]
      BY DEF Ingest
    <3>2. QED
      BY <2>1, <3>1, Zenon
  <2>3. at \in {"consume", "stamp"} /\ ingested \in BOOLEAN
    OBVIOUS
  <2> HIDE DEF at, ingested
  <2>4. PICK k \in Connection : Becomes(c, k, at, opener[c].connecting, ingested, opener[c].todo)
    <3>1. opener[c].connecting \in BOOLEAN /\ opener[c].todo \in Seq(Unit) /\ At(c) # "idle"
      BY <1>1, Fields DEF Ingesting
    <3>2. at \in {"global", "schema", "migrate", "consume", "stamp", "open"}
      BY <2>3
    <3>3. QED
      BY <2>2, <2>3, <3>1, <3>2, Moves
  <2>5. Sound(k)'
    BY <1>1, <1>2, <1>4, <2>3, <2>4 DEF Sound, Becomes, at, ingested, Ingesting, At
  <2>6. QED
    BY <1>3, <2>4, <2>5, OneConnection DEF Becomes
<1>8. QED
  BY <1>2, <1>3, <1>6, <1>7 DEF Opens

LEMMA ConsumeOpens == ASSUME Opens, NEW c \in Opener, Consume(c) PROVE Opens'
<1>1. opener[c] \in Connection /\ Sound(opener[c]) /\ At(c) = "consume"
  BY Running DEF Consume
<1>2. PICK k \in Connection : Becomes(c, k, AfterConsume(c), opener[c].connecting,
                                      opener[c].ingested, opener[c].todo)
  <2>1. AfterConsume(c) \in {"stamp", "open"} /\ Goes(c, AfterConsume(c)) /\ At(c) # "idle"
    BY <1>1 DEF Consume, AfterConsume
  <2>2. QED
    BY <2>1, GoesMoves
<1>3. grantsJson' = {} /\ UNCHANGED <<version, schema, granted, lifted>>
  BY DEF Consume, Consumed
<1>4. Grows /\ Closed' /\ Grants'
  BY <1>3 DEF Grows, Opens, Closed, Grants
<1>5. Sound(k)'
  BY <1>1, <1>2, <1>3, Fields DEF Sound, At, Becomes, AfterConsume
<1>6. QED
  BY <1>2, <1>3, <1>4, <1>5, OneConnection DEF Opens, Becomes

LEMMA StampOpens == ASSUME Opens, NEW c \in Opener, StampVersion(c) PROVE Opens'
<1>1. opener[c] \in Connection /\ Sound(opener[c]) /\ At(c) = "stamp"
  BY Running DEF StampVersion
<1>2. UNCHANGED <<schema, granted, grantsJson, lifted>> /\ Grows /\ Closed' /\ Grants'
  BY DEF StampVersion, Grows, Opens, Closed, Grants
<1>3. schema = Unit
  BY <1>1 DEF Sound, At
<1>4. opener' = [opener EXCEPT ![c] = With(c, "open", FALSE, opener[c].ingested, opener[c].todo)]
  <2>1. opener' = [opener EXCEPT ![c] = [opener[c] EXCEPT !.at = "open", !.connecting = FALSE]]
    BY DEF StampVersion
  <2>2. [opener[c] EXCEPT !.at = "open", !.connecting = FALSE]
           = With(c, "open", FALSE, opener[c].ingested, opener[c].todo)
    BY <1>1, Records, Zenon
  <2>3. QED
    BY <2>1, <2>2, Zenon
<1>5. PICK k \in Connection : Becomes(c, k, "open", FALSE, opener[c].ingested, opener[c].todo)
  BY <1>1, <1>4, Moves, Fields
<1>6. Sound(k)'
  BY <1>1, <1>2, <1>3, <1>5 DEF Sound, At, Becomes
<1>7. QED
  BY <1>2, <1>3, <1>5, <1>6, OneConnection DEF Opens, Becomes

(* The commands of an open connection, and a crash: they end.               *)
LEMMA EndOpens ==
    ASSUME Opens, NEW c \in Opener, ConnectionEnds(c), UNCHANGED <<version, schema, grantsJson>>, Grants',
           lifted' # {} => lifted # {} \/ schema = Unit
    PROVE  Opens'
<1>1. Grows /\ Closed'
  BY DEF Grows, Opens, Closed
<1>2. QED
  BY <1>1, OneEnds DEF Opens

LEMMA ReadyKnows ==
    ASSUME Opens, NEW c \in Opener, NEW cmd \in GrantCmd, Ready(c, cmd)
    PROVE  /\ opener[c].place \in Place /\ opener[c].owner \in Owner
           /\ schema = Unit
           /\ cmd \in {"grant", "revoke"} => grantsJson = {}
<1>1. opener[c] \in Connection /\ Sound(opener[c]) /\ At(c) = "open" /\ opener[c].cmd = cmd
  BY Running DEF Ready
<1>2. QED
  BY <1>1, Fields DEF Sound, At, Ready, Ingesting

LEMMA GrantOpens == ASSUME Opens, NEW c \in Opener, WriteStoreGrant(c) PROVE Opens'
<1>1. /\ opener[c].place \in Place /\ opener[c].owner \in Owner /\ grantsJson = {}
  BY ReadyKnows DEF WriteStoreGrant, GrantCmd
<1>2. CASE /\ granted' = [granted EXCEPT ![opener[c].place] = opener[c].owner]
           /\ lifted' = lifted \ {<<opener[c].place, opener[c].owner>>}
  <2>1. Grants'
    BY <1>1, <1>2 DEF WriteStoreGrant, Opens, Grants
  <2>2. QED
    BY <1>2, <2>1, EndOpens DEF WriteStoreGrant
<1>3. CASE UNCHANGED <<granted, lifted>>
  <2>1. Grants'
    BY <1>3 DEF WriteStoreGrant, Opens, Grants
  <2>2. QED
    BY <1>3, <2>1, EndOpens DEF WriteStoreGrant
<1>4. QED
  BY <1>2, <1>3 DEF WriteStoreGrant

LEMMA RevokeOpens ==
    ASSUME Opens, NEW c \in Opener, RevokeStoreGrant(c) PROVE Opens'
<1>1. /\ opener[c].place \in Place /\ opener[c].owner \in Owner /\ schema = Unit
      /\ grantsJson = {}
  BY ReadyKnows DEF RevokeStoreGrant, GrantCmd
<1>2. Grants'
  <2>1. CASE GrantRow(c) = opener[c].owner
    <3>1. granted' = [granted EXCEPT ![opener[c].place] = Ungranted]
      BY <2>1 DEF RevokeStoreGrant
    <3>2. QED
      BY <1>1, <3>1, RegistryAssumption DEF RevokeStoreGrant, Opens, Grants
  <2>2. CASE GrantRow(c) # opener[c].owner
    <3>1. granted' = granted
      BY <2>2 DEF RevokeStoreGrant
    <3>2. QED
      BY <1>1, <2>2, <3>1 DEF RevokeStoreGrant, Opens, Grants, GrantRow
  <2>3. QED
    BY <2>1, <2>2
<1>3. QED
  BY <1>1, <1>2, EndOpens DEF RevokeStoreGrant

(* The file may still name the old owner: the new one keeps its entry out.  *)
LEMMA TransferOpens ==
    ASSUME Opens, NEW c \in Opener, TransferStoreGrant(c) PROVE Opens'
<1>1. /\ opener[c].place \in Place /\ opener[c].owner \in Owner /\ schema = Unit
  BY ReadyKnows DEF TransferStoreGrant, GrantCmd
<1>2. CASE /\ GrantRow(c) # Ungranted
           /\ granted' = [granted EXCEPT ![opener[c].place] = opener[c].owner]
           /\ lifted' = (lifted \cup {<<opener[c].place, GrantRow(c)>>})
                            \ {<<opener[c].place, opener[c].owner>>}
  <2>1. GrantRow(c) \in Owner
    BY <1>1, <1>2 DEF Opens, Grants, GrantRow
  <2>2. Grants'
    BY <1>1, <1>2, <2>1, RegistryAssumption DEF TransferStoreGrant, Opens, Grants
  <2>3. QED
    BY <1>1, <2>2, EndOpens DEF TransferStoreGrant
<1>3. CASE UNCHANGED <<granted, lifted>>
  <2>1. Grants'
    BY <1>3 DEF TransferStoreGrant, Opens, Grants
  <2>2. QED
    BY <1>3, <2>1, EndOpens DEF TransferStoreGrant
<1>4. QED
  BY <1>2, <1>3 DEF TransferStoreGrant

LEMMA LeaveOpens ==
    ASSUME Opens, NEW c \in Opener, CloseConnection(c) \/ OpenerCrash(c)
    PROVE  Opens'
<1>1. ConnectionEnds(c) /\ UNCHANGED <<version, schema, granted, grantsJson, lifted>>
  BY DEF CloseConnection, OpenerCrash
<1>2. Grants'
  BY <1>1 DEF Opens, Grants
<1>3. QED
  BY <1>1, <1>2, EndOpens

LEMMA StepOpens ==
    ASSUME Opens, [RegistryNext]_registryvars
    PROVE  Opens'
<1>1. CASE BeginCommand
  BY <1>1, StartOpens DEF BeginCommand
<1>2. ASSUME NEW c \in Opener,
             EnterGlobal(c) \/ Connect(c) \/ MigrateOne(c) \/ Ingest(c) \/ Consume(c) \/ StampVersion(c)
      PROVE  Opens'
  BY <1>2, EnterGlobalOpens, ConnectOpens, MigrateOpens, IngestOpens, ConsumeOpens, StampOpens
<1>3. ASSUME NEW c \in Opener,
             \/ CloseConnection(c) \/ OpenerCrash(c)
             \/ WriteStoreGrant(c) \/ RevokeStoreGrant(c) \/ TransferStoreGrant(c)
      PROVE  Opens'
  BY <1>3, LeaveOpens, GrantOpens, RevokeOpens, TransferOpens
<1>4. CASE UNCHANGED registryvars
  BY <1>4 DEF registryvars, Opens, Closed, Connections, Grants, Sound, At
<1>5. QED
  BY <1>1, <1>2, <1>3, <1>4 DEF RegistryNext, Advance

---------------------------------------------------------------------------
(* Whoever is served a connection finds the whole schema of its plugin, whichever version *)
(* the file had and wherever an earlier migration died (control_plane.py                  *)
(* connect_registry).                                                                     *)
THEOREM WholeWhenOpened == RegistrySpec => []OpenedIsWhole
<1>1. Opens => OpenedIsWhole
  BY DEF Opens, Connections, OpenedIsWhole, Sound, At
<1>2. Opens /\ [RegistryNext]_registryvars => Opens'
  BY StepOpens
<1>3. QED
  BY <1>1, <1>2, InitOpens, PTL DEF RegistrySpec

(* A grant that was revoked, or moved to another project, is not in force again until     *)
(* somebody grants it again, whatever crashes between the ingest of the old grants file,  *)
(* its removal and the stamp of the version (store_context.py).                           *)
THEOREM RevokedForGood == RegistrySpec => []RevokedStaysRevoked
<1>1. ASSUME Opens PROVE RevokedStaysRevoked
  <2>1. CASE "grants" \in schema
    <3>1. \A w \in Place : granted[w] # Ungranted => <<w, granted[w]>> \notin lifted
      BY <1>1 DEF Opens, Grants
    <3>2. QED
      BY <2>1, <3>1 DEF RevokedStaysRevoked, LoadStoreGrants
  <2>2. CASE "grants" \notin schema
    <3>1. lifted = {}
      BY <1>1, <2>2, UnitIs DEF Opens
    <3>2. QED
      BY <3>1 DEF RevokedStaysRevoked
  <2>3. QED
    BY <2>1, <2>2
<1>2. Opens /\ [RegistryNext]_registryvars => Opens'
  BY StepOpens
<1>3. QED
  BY <1>1, <1>2, InitOpens, PTL DEF RegistrySpec

---------------------------------------------------------------------------
(* The types.                                                              *)

LEMMA InitRegistryTypes == RegistryInit => RegistryTypeOK
<1> SUFFICES ASSUME RegistryInit PROVE RegistryTypeOK
  OBVIOUS
<1>1. version \in 0..Current + 1
  BY DEF RegistryInit, Installed, Current
<1>2. schema \subseteq Unit
  BY InitOpens DEF Opens, Closed
<1>3. connects \in 0..MaxConnects
  BY RegistryAssumption DEF RegistryInit
<1>4. QED
  BY <1>1, <1>2, <1>3 DEF RegistryInit, RegistryTypeOK, At, NoConnection

LEMMA StepRegistryTypes ==
    Opens /\ Opens' /\ RegistryTypeOK /\ [RegistryNext]_registryvars => RegistryTypeOK'
<1> SUFFICES ASSUME Opens, Opens', RegistryTypeOK, [RegistryNext]_registryvars PROVE RegistryTypeOK'
  OBVIOUS
<1>1. schema' \subseteq Unit
  BY DEF Opens, Closed
<1>2. ASSUME NEW c \in Opener
      PROVE  /\ opener'[c].cmd \in {"none", "open"} \cup GrantCmd
             /\ At(c)' \in {"idle", "global", "schema", "migrate", "consume", "stamp", "open"}
  BY DEF Opens, Connections, Connection, NoConnection, At
<1>3. /\ granted' \in [Place -> Owner \cup {Ungranted}]
      /\ grantsJson' \subseteq Place \X Owner /\ lifted' \subseteq Place \X Owner
  BY DEF Opens, Grants
<1>4. version' \in 0..Current + 1 /\ connects' \in 0..MaxConnects
  <2>1. CASE BeginCommand
    BY <2>1, RegistryAssumption DEF BeginCommand, StartCommand, RegistryTypeOK
  <2>2. ASSUME NEW c \in Opener,
               EnterGlobal(c) \/ Connect(c) \/ MigrateOne(c) \/ Ingest(c) \/ Consume(c) \/ CloseConnection(c)
               \/ OpenerCrash(c) \/ WriteStoreGrant(c) \/ RevokeStoreGrant(c) \/ TransferStoreGrant(c)
        PROVE  UNCHANGED <<version, connects>>
    BY <2>2 DEF EnterGlobal, Connect, MigrateOne, Ingest, Consume, CloseConnection, OpenerCrash,
                WriteStoreGrant, RevokeStoreGrant, TransferStoreGrant
  <2>3. ASSUME NEW c \in Opener, StampVersion(c)
        PROVE  version' = Current /\ connects' = connects /\ Current \in 0..Current + 1
    BY <2>3 DEF StampVersion, Current
  <2>4. CASE UNCHANGED registryvars
    BY <2>4 DEF registryvars, RegistryTypeOK
  <2>5. QED
    BY <2>1, <2>2, <2>3, <2>4 DEF RegistryNext, Advance, RegistryTypeOK
<1>5. QED
  BY <1>1, <1>2, <1>3, <1>4 DEF RegistryTypeOK

(* A registry, and the process that opens it, are of their types at every statement of   *)
(* the migration (registry_store.py).                                                    *)
THEOREM RegistryTyped == RegistrySpec => []RegistryTypeOK
<1>1. RegistrySpec => []Opens
  BY InitOpens, StepOpens, PTL DEF RegistrySpec
<1>2. QED
  BY <1>1, InitRegistryTypes, StepRegistryTypes, PTL DEF RegistrySpec

-----------------------------------------------------------------------------
(* Groups of projects (GroupScopes).                                       *)

\* A cm group command, with what it read.
Commands ==
    {NoOrder}
    \cup [cmd : {"create"}, group : Group, home : Realm, created : 0..MaxTime]
    \cup [cmd : {"delete"}, id : Group \X Realm, group : Group]
    \cup [cmd : {"add", "remove", "revoke"}, id : Group \X Realm, group : Group, project : Member]

GroupShapes ==
    /\ GroupTypeOK
    /\ order \in [Operator -> Commands]
    /\ \A o \in Operator : order[o].cmd = "add" => order[o].id[1] = order[o].group
    /\ DOMAIN sync = Member
    /\ \A p \in Member : sync[p].cmd = "pull" => sync[p].to \subseteq Group /\ sync[p].in \subseteq Group

LEMMA InitGroupShapes == GroupsInit => GroupShapes
BY GroupAssumption DEF GroupsInit, GroupShapes, GroupTypeOK, Commands, NoOrder

LEMMA IdShape ==
    ASSUME GroupTypeOK, NEW g \in Group, groups[g] # Nothing
    PROVE  IdOf(g) \in Group \X Realm /\ IdOf(g)[1] = g
BY DEF GroupTypeOK, IdOf, GroupId

LEMMA OrdersShape ==
    ASSUME GroupShapes, NEW o \in Operator, NEW m \in Commands, Orders(o, m),
           m.cmd = "add" => m.id[1] = m.group
    PROVE  GroupShapes'
<1>1. order' \in [Operator -> Commands]
  BY DEF Orders, GroupShapes
<1>2. \A n \in Operator : order'[n].cmd \in {"none", "create", "add", "remove", "revoke", "delete"}
  BY <1>1 DEF Commands, NoOrder
<1>3. groupOps' \in 0..MaxGroupOps
  BY GroupAssumption DEF Orders, Counted, GroupShapes, GroupTypeOK
<1>4. \A n \in Operator : order'[n].cmd = "add" => order'[n].id[1] = order'[n].group
  BY DEF Orders, GroupShapes
<1>5. QED
  BY <1>1, <1>2, <1>3, <1>4 DEF Orders, GroupShapes, GroupTypeOK

LEMMA OrderShape ==
    ASSUME GroupShapes, NEW o \in Operator, NEW cmd, order[o].cmd = cmd
    PROVE  /\ cmd = "create" => order[o] \in [cmd : {"create"}, group : Group, home : Realm, created : 0..MaxTime]
           /\ cmd = "delete" => order[o] \in [cmd : {"delete"}, id : Group \X Realm, group : Group]
           /\ cmd \in {"add", "remove", "revoke"} =>
                order[o] \in [cmd : {"add", "remove", "revoke"}, id : Group \X Realm, group : Group, project : Member]
<1>1. order[o] \in Commands
  BY DEF GroupShapes
<1>2. QED
  BY <1>1 DEF Commands, NoOrder

\* A step of cm group leaves the fact, the syncs and the bounds alone.
LEMMA CommandShapes ==
    ASSUME GroupShapes, UNCHANGED <<shared, sync, time, groupOps>>,
           groups' \in [Group -> {Nothing} \cup [home : Realm, created : 0..MaxTime]],
           members' \subseteq (Group \X Realm) \X Member,
           mirrored' \in [Member -> {Nothing} \cup [group : SUBSET Group, via : SUBSET Group]],
           removed' \subseteq Member \X Group,
           order' \in [Operator -> Commands],
           \A o \in Operator : order'[o].cmd = "add" => order'[o] = order[o]
    PROVE  GroupShapes'
<1>1. \A n \in Operator : order'[n].cmd \in {"none", "create", "add", "remove", "revoke", "delete"}
  BY DEF Commands, NoOrder
<1>2. QED
  BY <1>1 DEF GroupShapes, GroupTypeOK

LEMMA DoneShape ==
    ASSUME GroupShapes, NEW o \in Operator, Done(o)
    PROVE  /\ order' \in [Operator -> Commands]
           /\ \A n \in Operator : order'[n].cmd = "add" => order'[n] = order[n]
<1>1. order' \in [Operator -> Commands]
  BY DEF GroupShapes, Done, Commands
<1>2. QED
  BY <1>1 DEF GroupShapes, Done, NoOrder

LEMMA GroupCommandShapes ==
    ASSUME GroupShapes, NEW o \in Operator, GroupCommand(o)
    PROVE  GroupShapes'
<1>1. CASE \E g \in Group, home \in Realm : CreateBegin(o, g, home)
  <2>1. PICK g \in Group, home \in Realm : CreateBegin(o, g, home)
    BY <1>1
  <2>2. [cmd |-> "create", group |-> g, home |-> home, created |-> time] \in Commands
    BY DEF Commands, GroupShapes, GroupTypeOK
  <2>3. QED
    BY <2>1, <2>2, OrdersShape DEF CreateBegin
<1>2. CASE \E g \in Group : DeleteBegin(o, g)
  <2>1. PICK g \in Group : DeleteBegin(o, g)
    BY <1>2
  <2>2. [cmd |-> "delete", id |-> IdOf(g), group |-> g] \in Commands
    BY <2>1, IdShape DEF DeleteBegin, Commands, GroupShapes
  <2>3. QED
    BY <2>1, <2>2, OrdersShape DEF DeleteBegin
<1>3. CASE \E cmd \in {"add", "remove"}, g \in Group, p \in Member : MemberBegin(o, cmd, g, p)
  <2>1. PICK cmd \in {"add", "remove"}, g \in Group, p \in Member : MemberBegin(o, cmd, g, p)
    BY <1>3
  <2>2. [cmd |-> cmd, id |-> IdOf(g), group |-> g, project |-> p] \in Commands
    BY <2>1, IdShape DEF MemberBegin, Commands, GroupShapes
  <2>3. IdOf(g)[1] = g
    BY <2>1, IdShape DEF MemberBegin, GroupShapes
  <2>4. QED
    BY <2>1, <2>2, <2>3, OrdersShape DEF MemberBegin
<1>4. CASE Create(o)
  <2>1. order[o] \in [cmd : {"create"}, group : Group, home : Realm, created : 0..MaxTime]
    BY <1>4, OrderShape DEF Create, Commits
  <2>2. [home |-> order[o].home, created |-> order[o].created] \in [home : Realm, created : 0..MaxTime]
    BY <2>1
  <2>3. groups' \in [Group -> {Nothing} \cup [home : Realm, created : 0..MaxTime]]
    BY <1>4, <2>1, <2>2 DEF Create, GroupShapes, GroupTypeOK
  <2>4. QED
    BY <1>4, <2>3, DoneShape, CommandShapes DEF Create, Commits, GroupShapes, GroupTypeOK
<1>5. CASE Delete(o)
  <2>1. groups' \in [Group -> {Nothing} \cup [home : Realm, created : 0..MaxTime]]
    BY <1>5 DEF Delete, GroupShapes, GroupTypeOK
  <2>2. members' \subseteq (Group \X Realm) \X Member
    BY <1>5 DEF Delete, GroupShapes, GroupTypeOK
  <2>3. QED
    BY <1>5, <2>1, <2>2, DoneShape, CommandShapes DEF Delete, Commits, GroupShapes, GroupTypeOK
<1>6. CASE AddMember(o)
  <2>1. order[o].id \in Group \X Realm /\ order[o].project \in Member
    BY <1>6, OrderShape DEF AddMember, Commits
  <2>2. members' \subseteq (Group \X Realm) \X Member
    BY <1>6, <2>1 DEF AddMember, GroupShapes, GroupTypeOK
  <2>3. removed' \subseteq Member \X Group
    BY <1>6 DEF AddMember, GroupShapes, GroupTypeOK
  <2>4. QED
    BY <1>6, <2>2, <2>3, DoneShape, CommandShapes DEF AddMember, Commits, GroupShapes, GroupTypeOK
<1>7. CASE RemoveMember(o)
  <2>1. PICK m \in [cmd : {"add", "remove", "revoke"}, id : Group \X Realm, group : Group, project : Member] :
            m = order[o]
    BY <1>7, OrderShape DEF RemoveMember, Commits
  <2>2. [m EXCEPT !.cmd = "revoke"] \in Commands
    BY DEF Commands
  <2>3. order' = [order EXCEPT ![o] = [m EXCEPT !.cmd = "revoke"]]
    BY <1>7, <2>1 DEF RemoveMember
  <2>4. order' \in [Operator -> Commands]
    BY <2>2, <2>3 DEF GroupShapes
  <2>5. \A n \in Operator : order'[n].cmd = "add" => order'[n] = order[n]
    BY <2>1, <2>3 DEF GroupShapes
  <2>6. members' \subseteq (Group \X Realm) \X Member
    BY <1>7 DEF RemoveMember, GroupShapes, GroupTypeOK
  <2>7. QED
    BY <1>7, <2>4, <2>5, <2>6, CommandShapes DEF RemoveMember, Commits, GroupShapes, GroupTypeOK
<1>8. CASE RevokeGroupMirrors(o)
  <2>1. order[o].project \in Member /\ order[o].group \in Group
    BY <1>8, OrderShape DEF RevokeGroupMirrors, Withdraws, Commits
  <2>2. mirrored' \in [Member -> {Nothing} \cup [group : SUBSET Group, via : SUBSET Group]]
    BY <1>8 DEF RevokeGroupMirrors, GroupShapes, GroupTypeOK
  <2>3. removed' \subseteq Member \X Group
    BY <1>8, <2>1 DEF RevokeGroupMirrors, Withdraws, GroupShapes, GroupTypeOK
  <2>4. QED
    BY <1>8, <2>2, <2>3, DoneShape, CommandShapes DEF RevokeGroupMirrors, Withdraws, Commits, GroupShapes, GroupTypeOK
<1>9. CASE GroupCrash(o)
  BY <1>9, DoneShape, CommandShapes DEF GroupCrash, GroupShapes, GroupTypeOK
<1>10. QED
  BY <1>1, <1>2, <1>3, <1>4, <1>5, <1>6, <1>7, <1>8, <1>9 DEF GroupCommand

LEMMA StartsShapes ==
    ASSUME GroupShapes, NEW p \in Member, NEW cmd \in {"pull", "gc"},
           NEW in \in MembershipsRead(p), NEW created, Starts(p, cmd, in, created)
    PROVE  GroupShapes'
<1>1. Recipients \subseteq Group /\ in \subseteq Group
  BY DEF Recipients, MembershipsRead, Memberships, GroupShapes, GroupTypeOK
<1>2. DOMAIN sync' = Member
  BY DEF Starts, GroupShapes
<1>3. \A q \in Member : /\ sync'[q].cmd \in {"none", "pull", "gc"}
                        /\ sync'[q].cmd = "pull" => sync'[q].to \subseteq Group /\ sync'[q].in \subseteq Group
  BY <1>1 DEF Starts, GroupShapes, GroupTypeOK
<1>4. QED
  BY <1>2, <1>3 DEF Starts, GroupShapes, GroupTypeOK

LEMMA SyncShapes == ASSUME GroupShapes, NEW p \in Member, Sync(p) PROVE GroupShapes'
<1>1. CASE PullBegin(p) \/ GcBegin(p)
  BY <1>1, StartsShapes DEF PullBegin, GcBegin
<1>2. CASE PullCommit(p) \/ GcCommit(p) \/ SyncEnds(p)
  <2>1. DOMAIN sync' = Member /\ sync' = [sync EXCEPT ![p] = NoOrder]
    BY <1>2 DEF PullCommit, GcCommit, SyncEnds, GroupShapes
  <2>2. \A q \in Member : /\ sync'[q].cmd \in {"none", "pull", "gc"}
                          /\ sync'[q].cmd = "pull" => sync'[q].to \subseteq Group /\ sync'[q].in \subseteq Group
    BY <2>1 DEF GroupShapes, GroupTypeOK, NoOrder
  <2>3. mirrored' \in [Member -> {Nothing} \cup [group : SUBSET Group, via : SUBSET Group]]
    <3>1. CASE PullCommit(p)
      <4>1. sync[p].to \subseteq Group /\ sync[p].to \cap sync[p].in \subseteq Group
        BY <3>1 DEF PullCommit, GroupShapes
      <4>2. [group |-> sync[p].to, via |-> sync[p].to \cap sync[p].in]
                \in [group : SUBSET Group, via : SUBSET Group]
        BY <4>1
      <4>3. QED
        BY <3>1, <4>2 DEF PullCommit, GroupShapes, GroupTypeOK
    <3>2. CASE GcCommit(p) \/ SyncEnds(p)
      BY <3>2 DEF GcCommit, SyncEnds, GroupShapes, GroupTypeOK
    <3>3. QED
      BY <1>2, <3>1, <3>2
  <2>4. QED
    BY <1>2, <2>1, <2>2, <2>3 DEF PullCommit, GcCommit, SyncEnds, GroupShapes, GroupTypeOK
<1>3. QED
  BY <1>1, <1>2 DEF Sync

LEMMA StepGroupShapes == GroupShapes /\ [GroupsNext]_groupvars => GroupShapes'
<1> SUFFICES ASSUME GroupShapes, [GroupsNext]_groupvars PROVE GroupShapes'
  OBVIOUS
<1>1. ASSUME NEW to \in SUBSET Group, PublishTo(to) PROVE GroupShapes'
  <2>1. [recipients |-> to, stamp |-> time] \in [recipients : SUBSET Group, stamp : 0..MaxTime]
    BY DEF GroupShapes, GroupTypeOK
  <2>2. groupOps' \in 0..MaxGroupOps
    BY <1>1, GroupAssumption DEF PublishTo, Counted, GroupShapes, GroupTypeOK
  <2>3. QED
    BY <1>1, <2>1, <2>2 DEF PublishTo, GroupShapes, GroupTypeOK
<1>2. CASE ForgetShared \/ Tick
  BY <1>2, GroupAssumption DEF ForgetShared, Tick, Counted, GroupShapes, GroupTypeOK
<1>3. CASE UNCHANGED groupvars
  BY <1>3 DEF groupvars, GroupShapes, GroupTypeOK
<1>4. QED
  BY <1>1, <1>2, <1>3, GroupCommandShapes, SyncShapes DEF GroupsNext

(* Groups, memberships, grants and the commands on them are of their types (cm group).   *)
THEOREM GroupsTyped == GroupsSpec => []GroupTypeOK
<1>1. GroupShapes => GroupTypeOK
  BY DEF GroupShapes
<1>2. QED
  BY <1>1, InitGroupShapes, StepGroupShapes, PTL DEF GroupsSpec

(* A project that was removed from a group stays out of it until it is added again: it   *)
(* has no row of the group, under any home; a pull that is under way has not read it as a *)
(* member; and its mirror, if it has one, did not come through the group.  The last needs *)
(* that the stamp of a mirror names every group it came through, or the withdrawal would  *)
(* pass it by.                                                                           *)
GroupsKept ==
    /\ \A p \in Member : mirrored[p] # Nothing => mirrored[p].via \subseteq mirrored[p].group
    /\ \A r \in removed : OutOf(r[2], r[1])
    /\ RemovedHoldsNone

LEMMA CommandKeeps ==
    ASSUME GroupShapes, GroupsKept, NEW o \in Operator, GroupCommand(o)
    PROVE  GroupsKept'
<1>1. CASE UNCHANGED <<mirrored, removed, sync>> /\ members' \subseteq members
  BY <1>1 DEF GroupsKept, RemovedHoldsNone, OutOf, GroupId
<1>2. CASE AddMember(o)
  <2>1. /\ UNCHANGED <<mirrored, sync>>
        /\ members' = members \cup {<<order[o].id, order[o].project>>}
        /\ removed' = removed \ {<<order[o].project, order[o].group>>}
        /\ order[o].id[1] = order[o].group
    BY <1>2 DEF AddMember, Commits, GroupShapes
  <2>2. ASSUME NEW r \in removed'
        PROVE  OutOf(r[2], r[1])'
    <3>1. r \in removed /\ r \in Member \X Group /\ r # <<order[o].project, order[o].group>>
      BY <2>1, <2>2 DEF GroupShapes, GroupTypeOK
    <3>2. ASSUME NEW home \in Realm, <<GroupId(r[2], home), r[1]>> \in members'
          PROVE  FALSE
      <4>1. <<GroupId(r[2], home), r[1]>> \notin members
        BY <3>1 DEF GroupsKept, OutOf
      <4>2. GroupId(r[2], home) = order[o].id /\ r[1] = order[o].project
        BY <2>1, <3>2, <4>1
      <4>3. r[2] = order[o].group
        BY <2>1, <4>2 DEF GroupId
      <4>4. QED
        BY <3>1, <4>2, <4>3
    <3>3. QED
      BY <2>1, <3>1, <3>2 DEF OutOf, GroupsKept, GroupId
  <2>3. QED
    BY <2>1, <2>2 DEF GroupsKept, RemovedHoldsNone
<1>3. CASE RevokeGroupMirrors(o)
  <2> DEFINE m == order[o]
  <2>1. m.project \in Member /\ m.group \in Group
    BY <1>3, OrderShape DEF RevokeGroupMirrors, Withdraws, Commits
  <2>2. /\ UNCHANGED <<members, sync>>
        /\ \/ removed' = removed
           \/ OutOf(m.group, m.project) /\ removed' = removed \cup {<<m.project, m.group>>}
    BY <1>3 DEF RevokeGroupMirrors, Withdraws, Commits
  <2>3. \A p \in Member : mirrored'[p] = mirrored[p] \/ mirrored'[p] = Nothing
    BY <1>3 DEF RevokeGroupMirrors, GroupShapes, GroupTypeOK
  <2>4. mirrored'[m.project] # Nothing => m.group \notin mirrored'[m.project].via
    BY <1>3, <2>1 DEF RevokeGroupMirrors, GroupShapes, GroupTypeOK, GroupsKept
  <2>5. \A r \in removed' : OutOf(r[2], r[1])'
    BY <2>2 DEF GroupsKept, OutOf, GroupId
  <2>6. \A r \in removed' : mirrored'[r[1]] # Nothing => r[2] \notin mirrored'[r[1]].via
    BY <2>1, <2>2, <2>3, <2>4 DEF GroupsKept, RemovedHoldsNone, GroupShapes, GroupTypeOK
  <2>7. QED
    BY <2>3, <2>5, <2>6 DEF GroupsKept, RemovedHoldsNone
<1>4. QED
  BY <1>1, <1>2, <1>3 DEF GroupCommand, CreateBegin, DeleteBegin, MemberBegin, Orders, Create, Delete,
     RemoveMember, GroupCrash, Commits

\* A pull reads no group its project is out of.
LEMMA OutIsNotRead ==
    ASSUME GroupShapes, NEW p \in Member, NEW g \in Group, OutOf(g, p), NEW in \in MembershipsRead(p)
    PROVE  g \notin in
BY DEF MembershipsRead, Memberships, OutOf, IdOf, GroupShapes, GroupTypeOK

LEMMA SyncKeeps ==
    ASSUME GroupShapes, GroupsKept, NEW p \in Member, Sync(p)
    PROVE  GroupsKept'
<1>1. CASE PullBegin(p) \/ GcBegin(p)
  <2>1. PICK in \in MembershipsRead(p), created \in CreatedRead, cmd \in {"pull", "gc"} :
            Starts(p, cmd, in, created)
    BY <1>1 DEF PullBegin, GcBegin
  <2>2. ASSUME NEW r \in removed
        PROVE  OutOf(r[2], r[1])'
    <3>1. r \in Member \X Group /\ OutOf(r[2], r[1])
      BY DEF GroupsKept, GroupShapes, GroupTypeOK
    <3>2. r[1] = p => r[2] \notin in
      BY <3>1, OutIsNotRead
    <3>3. QED
      BY <2>1, <3>1, <3>2 DEF Starts, OutOf, GroupId, GroupShapes
  <2>3. QED
    BY <2>1, <2>2 DEF Starts, GroupsKept, RemovedHoldsNone
<1>2. CASE PullCommit(p) \/ GcCommit(p) \/ SyncEnds(p)
  <2>1. /\ UNCHANGED <<members, removed>>
        /\ sync' = [sync EXCEPT ![p] = NoOrder]
    BY <1>2 DEF PullCommit, GcCommit, SyncEnds
  <2>2. \A r \in removed : OutOf(r[2], r[1])'
    BY <2>1 DEF GroupsKept, OutOf, GroupId, NoOrder, GroupShapes, GroupTypeOK
  <2>3. CASE PullCommit(p)
    <3>1. mirrored' = [mirrored EXCEPT ![p] = [group |-> sync[p].to, via |-> sync[p].to \cap sync[p].in]]
      BY <2>3 DEF PullCommit
    <3>2. \A g \in Group : OutOf(g, p) => g \notin sync[p].in
      BY <2>3 DEF PullCommit, OutOf
    <3>3. \A r \in removed : mirrored'[r[1]] # Nothing => r[2] \notin mirrored'[r[1]].via
      BY <3>1, <3>2 DEF GroupsKept, RemovedHoldsNone, GroupShapes, GroupTypeOK
    <3>4. \A n \in Member : mirrored'[n] # Nothing => mirrored'[n].via \subseteq mirrored'[n].group
      BY <3>1 DEF GroupsKept, GroupShapes, GroupTypeOK
    <3>5. QED
      BY <2>1, <2>2, <3>3, <3>4 DEF GroupsKept, RemovedHoldsNone
  <2>4. CASE GcCommit(p) \/ SyncEnds(p)
    <3>1. \A n \in Member : mirrored'[n] = mirrored[n] \/ mirrored'[n] = Nothing
      BY <2>4 DEF GcCommit, SyncEnds, GroupShapes, GroupTypeOK
    <3>2. \A r \in removed : mirrored'[r[1]] # Nothing => r[2] \notin mirrored'[r[1]].via
      BY <3>1 DEF GroupsKept, RemovedHoldsNone, GroupShapes, GroupTypeOK
    <3>3. QED
      BY <2>1, <2>2, <3>1, <3>2 DEF GroupsKept, RemovedHoldsNone
  <2>5. QED
    BY <1>2, <2>3, <2>4
<1>3. QED
  BY <1>1, <1>2 DEF Sync

(* RemovedHoldsNone: a project that was removed from a group holds no mirror it got through *)
(* the group, for any number of groups and projects, reads that fail, and commands, pulls  *)
(* and collections in any order (_revoke_group_mirrors after its transact).              *)
THEOREM RemovalHolds == GroupsSpec => []RemovedHoldsNone
<1>1. GroupsInit => GroupsKept
  BY DEF GroupsInit, GroupsKept, RemovedHoldsNone
<1>2. ASSUME GroupShapes, GroupsKept, [GroupsNext]_groupvars
      PROVE  GroupsKept'
  <2>1. CASE \/ \E to \in SUBSET Group : PublishTo(to)
             \/ ForgetShared \/ Tick \/ UNCHANGED groupvars
    BY <1>2, <2>1 DEF PublishTo, ForgetShared, Tick, groupvars, GroupsKept, RemovedHoldsNone, OutOf, GroupId
  <2>2. QED
    BY <1>2, <2>1, CommandKeeps, SyncKeeps DEF GroupsNext
<1>3. GroupsKept => RemovedHoldsNone
  BY DEF GroupsKept
<1>4. QED
  BY <1>1, <1>2, <1>3, InitGroupShapes, StepGroupShapes, PTL DEF GroupsSpec

-----------------------------------------------------------------------------
(* The migration (Migrate).                                                *)
(*                                                                         *)
(* What a rollback file says a copy replaced is what the apply that wrote  *)
(* the copy had found: each copy carries the number of its apply, so that  *)
(* one that a later apply wrote does not pass for it.                      *)

Tells(rb, history) ==
    \A s \in DOMAIN rb.copied :
        LET k == rb.copied[s]
        IN  /\ k.new.by = "migrate" /\ k.new.at \in 1..Len(history)
            /\ k.old = history[k.new.at].canonical[s]
            /\ k.row = history[k.new.at].row[s]

PlanShape(plan) == "facts" \in DOMAIN plan /\ DOMAIN plan.facts \subseteq Legacy

Staged(stage, history) ==
    /\ stage # NoStage => PlanShape(stage.plan)
    /\ stage.cmd = "rollback" => Tells(stage.rb, history)

Told ==
    /\ \E S : before \in Seq(S)
    /\ applies = Len(before)
    /\ DOMAIN operator = Migrator
    /\ PlanShape(planFile)
    /\ rollbackFile = Empty \/ Tells(rollbackFile, before)
    /\ \A x \in Migrator : Staged(operator[x], before)

LEMMA ToldInit == MigrateInit => Told
<1> SUFFICES ASSUME MigrateInit
             PROVE  Told
  OBVIOUS
<1>1. before \in Seq({}) /\ Len(before) = 0 /\ applies = 0
  BY DEF MigrateInit
<1>2. planFile.facts = << >> /\ "facts" \in DOMAIN planFile
  BY DEF MigrateInit, NoPlan
<1>3. PlanShape(planFile)
  BY <1>2 DEF PlanShape
<1>4. NoStage.cmd = "idle"
  BY DEF NoStage
<1>5. \A x \in Migrator : Staged(operator[x], before)
  BY <1>4 DEF MigrateInit, Staged
<1> QED
  BY <1>1, <1>3, <1>5 DEF MigrateInit, Told

LEMMA LoadedShape == PlanShape(planFile) => PlanShape(Loaded)
BY DEF PlanShape, Loaded

\* A command begins with a plan, and a rollback with what the file tells.
LEMMA BeginsTold ==
    ASSUME Told, NEW x \in Migrator, NEW state, MigrateBegin(x, state),
           PlanShape(state.plan), state.cmd = "rollback" => Tells(state.rb, before)
    PROVE  Told'
<1>1. operator' = [operator EXCEPT ![x] = state]
      /\ UNCHANGED <<planFile, rollbackFile, applies, before>>
  BY DEF MigrateBegin
<1>2. Staged(state, before)
  BY DEF Staged
<1>3. DOMAIN operator' = Migrator /\ \A y \in Migrator : Staged(operator'[y], before)
  BY <1>1, <1>2 DEF Told
<1> QED
  BY <1>1, <1>3 DEF Told

\* And leaves one, or none: what it writes is of the shape it must be.
LEMMA EndsTold ==
    ASSUME Told, NEW x \in Migrator, MigrateEnd(x), UNCHANGED <<applies, before>>,
           PlanShape(planFile'), rollbackFile' = rollbackFile
    PROVE  Told'
<1>1. operator' = [operator EXCEPT ![x] = NoStage]
  BY DEF MigrateEnd
<1>2. Staged(NoStage, before)
  BY DEF Staged, NoStage
<1>3. DOMAIN operator' = Migrator /\ \A y \in Migrator : Staged(operator'[y], before)
  BY <1>1, <1>2 DEF Told
<1> QED
  BY <1>3 DEF Told

LEMMA ReviewTold ==
    ASSUME Told, NEW x \in Migrator, Review(x)
    PROVE  Told'
<1>1. PlanShape(Loaded)
  BY LoadedShape DEF Told
<1>2. ASSUME NEW plan, PlanShape(plan), MigrateBegin(x, [cmd |-> "review", plan |-> plan])
      PROVE  Told'
  <2> DEFINE state == [cmd |-> "review", plan |-> plan]
  <2>1. state.cmd = "review" /\ state.plan = plan /\ MigrateBegin(x, state)
    BY <1>2
  <2> HIDE DEF state
  <2> QED
    BY <1>2, <2>1, BeginsTold
<1>3. ASSUME NEW s \in Legacy, NEW entry
      PROVE  PlanShape([Loaded EXCEPT !.facts = WithEntry(Loaded.facts, s, entry)])
  <2> DEFINE plan == Loaded
  <2>1. "facts" \in DOMAIN plan /\ DOMAIN plan.facts \subseteq Legacy
    BY <1>1 DEF PlanShape
  <2> HIDE DEF plan
  <2>2. DOMAIN WithEntry(plan.facts, s, entry) \subseteq Legacy
    BY <2>1 DEF WithEntry
  <2>3. PlanShape([plan EXCEPT !.facts = WithEntry(plan.facts, s, entry)])
    BY <2>1, <2>2 DEF PlanShape
  <2> QED
    BY <2>3 DEF plan
<1>4. \/ MigrateBegin(x, [cmd |-> "review", plan |-> Loaded])
      \/ \E s \in Legacy : \E entry :
            MigrateBegin(x, [cmd |-> "review",
                             plan |-> [Loaded EXCEPT !.facts = WithEntry(Loaded.facts, s, entry)]])
  BY DEF Review
<1>5. CASE MigrateBegin(x, [cmd |-> "review", plan |-> Loaded])
  BY <1>1, <1>2, <1>5
<1>6. ASSUME NEW s \in Legacy, NEW entry,
             MigrateBegin(x, [cmd |-> "review",
                             plan |-> [Loaded EXCEPT !.facts = WithEntry(Loaded.facts, s, entry)]])
      PROVE  Told'
  BY <1>2, <1>3, <1>6
<1> QED
  BY <1>4, <1>5, <1>6

LEMMA BeginTold ==
    ASSUME Told, NEW x \in Migrator, ApplyBegin(x) \/ RollbackBegin(x) \/ FinalizeBegin(x)
    PROVE  Told'
<1>1. PlanShape(Loaded)
  BY LoadedShape DEF Told
<1>2. ASSUME NEW cmd \in {"apply", "finalize"},
             MigrateBegin(x, [cmd |-> cmd, plan |-> Loaded])
      PROVE  Told'
  <2> DEFINE state == [cmd |-> cmd, plan |-> Loaded]
  <2>1. state.cmd # "rollback" /\ state.plan = Loaded /\ MigrateBegin(x, state)
    BY <1>2
  <2> HIDE DEF state
  <2> QED
    BY <1>1, <2>1, BeginsTold
<1>3. ASSUME RollbackBegin(x)
      PROVE  Told'
  <2> DEFINE state == [cmd |-> "rollback", plan |-> Loaded, rb |-> rollbackFile]
  <2>1. state.plan = Loaded /\ state.rb = rollbackFile /\ MigrateBegin(x, state)
    BY <1>3 DEF RollbackBegin
  <2>2. Tells(rollbackFile, before)
    BY <1>3 DEF RollbackBegin, Told
  <2> HIDE DEF state
  <2> QED
    BY <1>1, <2>1, <2>2, BeginsTold
<1> QED
  BY <1>2, <1>3 DEF ApplyBegin, FinalizeBegin

\* The history of applies grows at its end.
LEMMA Appended ==
    ASSUME NEW S, NEW history \in Seq(S), NEW state
    PROVE  /\ Append(history, state) \in Seq(S \cup {state})
           /\ Len(history) \in Nat
           /\ Len(Append(history, state)) = Len(history) + 1
           /\ Append(history, state)[Len(history) + 1] = state
           /\ \A i \in 1..Len(history) : Append(history, state)[i] = history[i]
<1>1. history \in Seq(S \cup {state})
  OBVIOUS
<1> QED
  BY <1>1

LEMMA StillTells ==
    ASSUME NEW S, NEW history \in Seq(S), NEW state, NEW rb, Tells(rb, history)
    PROVE  Tells(rb, Append(history, state))
<1> DEFINE longer == Append(history, state)
<1>1. /\ Len(history) \in Nat /\ Len(longer) = Len(history) + 1
      /\ \A i \in 1..Len(history) : longer[i] = history[i]
  BY Appended
<1> HIDE DEF longer
<1>2. Tells(rb, longer)
  BY <1>1 DEF Tells
<1> QED
  BY <1>2 DEF longer

LEMMA ApplyTold ==
    ASSUME Told, NEW x \in Migrator, NEW onExisting, NEW resurrect,
           Apply(x, onExisting, resurrect)
    PROVE  Told'
<1> DEFINE plan == operator[x].plan
           S == Copied(plan, onExisting)
           kept == IF onExisting = "keep-existing" THEN Assigned(plan, "named") \ S ELSE {}
           found == [canonical |-> canonical, row |-> factRow]
<1>1. PICK V : before \in Seq(V)
  BY DEF Told
<1>2. /\ before' = Append(before, found) /\ applies' = applies + 1
      /\ rollbackFile' = RollbackOf(S, kept)
      /\ planFile' = [plan EXCEPT !.applied = TRUE]
      /\ operator' = [operator EXCEPT ![x] = NoStage]
  BY DEF Apply, MigrateEnd
<1>3. \A s \in Legacy : s \in S => canonical'[s].by = "migrate" /\ canonical'[s].at = applies'
  BY DEF Apply
<1>4. /\ before' \in Seq(V \cup {found}) /\ Len(before) \in Nat
      /\ Len(before') = Len(before) + 1 /\ before'[Len(before) + 1] = found
  BY <1>1, <1>2, Appended
<1>5. PlanShape(plan)
  BY DEF Apply, Told, Staged, NoStage
<1>6. S \subseteq Legacy
  BY <1>5 DEF Copied, Assigned, PlanShape
<1>7. PlanShape(planFile')
  <2> HIDE DEF plan
  <2> QED
    BY <1>2, <1>5 DEF PlanShape
<1>8. applies' = Len(before')
  BY <1>2, <1>4 DEF Told
<1>9. Tells(rollbackFile', before')
  <2> DEFINE copied == [s \in S |-> [new |-> canonical'[s], old |-> canonical[s], row |-> factRow[s]]]
  <2>1. rollbackFile'.copied = copied
    BY <1>2 DEF RollbackOf
  <2>2. found.canonical = canonical /\ found.row = factRow
    OBVIOUS
  <2> HIDE DEF found, plan, kept
  <2>3. ASSUME NEW s \in S
        PROVE  /\ copied[s].new.by = "migrate" /\ copied[s].new.at = applies'
               /\ copied[s].old = canonical[s] /\ copied[s].row = factRow[s]
    <3> HIDE DEF S
    <3> QED
      BY <1>3, <1>6
  <2>4. applies' \in 1..Len(before') /\ before'[applies'] = found
    BY <1>4, <1>8
  <2>5. DOMAIN copied = S
    OBVIOUS
  <2> HIDE DEF copied, S
  <2> QED
    BY <2>1, <2>2, <2>3, <2>4, <2>5 DEF Tells
<1>10. \A y \in Migrator : Staged(operator'[y], before')
  <2> HIDE DEF found, S, plan, kept
  <2>1. ASSUME NEW y \in Migrator
        PROVE  Staged(operator[y], before')
    BY <1>1, <1>2, StillTells DEF Told, Staged
  <2>2. Staged(NoStage, before')
    BY DEF Staged, NoStage
  <2> QED
    BY <1>2, <2>1, <2>2 DEF Told
<1>11. DOMAIN operator' = Migrator
  BY <1>2 DEF Told
<1> QED
  BY <1>4, <1>7, <1>8, <1>9, <1>10, <1>11 DEF Told

LEMMA EndTold ==
    ASSUME Told, NEW x \in Migrator, Save(x) \/ Rollback(x) \/ Stop(x)
    PROVE  Told'
<1>1. operator[x] # NoStage => PlanShape(operator[x].plan)
  BY DEF Told, Staged
<1>2. NoStage.cmd = "idle"
  BY DEF NoStage
<1>3. PlanShape(planFile')
  <2>1. CASE Save(x)
    BY <1>1, <1>2, <2>1 DEF Save
  <2>2. CASE Rollback(x)
    <3>1. PlanShape(operator[x].plan) /\ planFile' = [operator[x].plan EXCEPT !.applied = FALSE]
      BY <1>1, <1>2, <2>2 DEF Rollback
    <3> QED
      BY <3>1 DEF PlanShape
  <2>3. CASE Stop(x)
    BY <2>3 DEF Stop, Told
  <2> QED
    BY <2>1, <2>2, <2>3
<1> QED
  BY <1>3, EndsTold DEF Save, Rollback, Stop

LEMMA FinalizeTold ==
    ASSUME Told, NEW x \in Migrator, Finalize(x)
    PROVE  Told'
<1> DEFINE plan == [operator[x].plan EXCEPT !.finalized = TRUE]
           state == [cmd |-> "review", plan |-> plan]
<1>1. /\ operator' = [operator EXCEPT ![x] = state] /\ rollbackFile' = Empty
      /\ UNCHANGED <<planFile, applies, before>>
  BY DEF Finalize
<1>2. PlanShape(operator[x].plan)
  BY DEF Finalize, Told, Staged, NoStage
<1>3. PlanShape(plan)
  BY <1>2 DEF PlanShape
<1>4. state.cmd = "review" /\ state.plan = plan
  OBVIOUS
<1> HIDE DEF plan, state
<1>5. Staged(state, before)
  BY <1>3, <1>4 DEF Staged
<1>6. DOMAIN operator' = Migrator /\ \A y \in Migrator : Staged(operator'[y], before)
  BY <1>1, <1>5 DEF Told
<1> QED
  BY <1>1, <1>6 DEF Told

LEMMA ToldStep == Told /\ [MigrateNext]_migratevars => Told'
<1> SUFFICES ASSUME Told, [MigrateNext]_migratevars
             PROVE  Told'
  OBVIOUS
<1>1. ASSUME UNCHANGED <<planFile, rollbackFile, operator, applies, before>>
      PROVE  Told'
  BY <1>1 DEF Told
<1>2. ASSUME NEW s \in Legacy,
             \/ ForgetCanonical(s)
             \/ \E text \in Wording : UpsertCanonical(s, text)
             \/ \E o \in Origin, text \in Wording \cup {None} : EditSource(o, s, text)
      PROVE  Told'
  BY <1>1, <1>2 DEF ForgetCanonical, UpsertCanonical, EditSource
<1>3. CASE UNCHANGED migratevars
  BY <1>1, <1>3 DEF migratevars
<1> QED
  BY <1>2, <1>3, ReviewTold, BeginTold, ApplyTold, EndTold, FinalizeTold DEF MigrateNext

LEMMA ToldHolds == MigrateSpec => []Told
BY ToldInit, ToldStep, PTL DEF MigrateSpec

\* RollbackIsExact: however many operators apply and roll back, and whatever sessions write
\* in between, a rollback that goes through puts each copy it takes back to the bytes and
\* the row its apply had found, and touches no text of a user (_classify, cm migrate
\* rollback).
THEOREM RollbackIsExact == MigrateSpec => RollbackRestores
<1> DEFINE Restored ==
        \A x \in Migrator : Rollback(x) =>
            \A s \in Live : canonical'[s] # canonical[s] =>
               /\ canonical[s].by = "migrate"
               /\ LET found == before[canonical[s].at]
                  IN  /\ canonical'[s] = found.canonical[s]
                      /\ canonical'[s] # NoCanonical => factRow'[s] = found.row[s]
<1>1. ASSUME Told, NEW x \in Migrator, Rollback(x), NEW s \in Live, canonical'[s] # canonical[s]
      PROVE  /\ canonical[s].by = "migrate"
             /\ canonical'[s] = before[canonical[s].at].canonical[s]
             /\ canonical'[s] # NoCanonical => factRow'[s] = before[canonical[s].at].row[s]
  <2> DEFINE rb == operator[x].rb
  <2>1. Tells(rb, before)
    BY <1>1 DEF Told, Staged, Rollback
  <2>2. s \in Legacy /\ canonical[s] # NoCanonical
    BY DEF Live
  <2>3. s \in DOMAIN rb.copied
    BY <1>1, <2>2 DEF Rollback
  <2>4. canonical[s] = rb.copied[s].new
    BY <1>1, <2>2, <2>3 DEF Rollback, Unconflicted
  <2>5. canonical'[s] = rb.copied[s].old
        /\ (rb.copied[s].old # NoCanonical => factRow'[s] = rb.copied[s].row)
    BY <1>1, <2>2, <2>3 DEF Rollback
  <2> HIDE DEF rb
  <2> QED
    BY <2>1, <2>3, <2>4, <2>5 DEF Tells
<1>2. Told => Restored
  BY <1>1
<1>3. Told /\ [MigrateNext]_migratevars => [Restored]_migratevars
  BY <1>2
<1> QED
  BY <1>3, ToldHolds, PTL DEF MigrateSpec, RollbackRestores

---------------------------------------------------------------------------
(* The types.                                                              *)

FactRows == {"active", "forgotten", None}
Facts == {NoCanonical} \cup Version
Catalogs == {NoCatalog} \cup SUBSET Legacy

\* An entry that has a source has the hash of a text.
Sane(entry) == entry \in PlanEntry /\ (entry.origin # None => entry.sha # None)

PlanSane(plan) == PlanShape(plan) /\ \A s \in DOMAIN plan.facts : Sane(plan.facts[s])

\* What is to be copied has a source.
Sourced(plan) == \A s \in Assigned(plan, "named") : plan.facts[s].origin # None

\* What a rollback puts back.
Restores(rb) ==
    /\ \A s \in DOMAIN rb.copied : rb.copied[s].old \in Facts /\ rb.copied[s].row \in FactRows
    /\ \A c \in rb.catalogs : c.old \in Catalogs

StageSane(stage) ==
    /\ stage # NoStage => PlanSane(stage.plan)
    /\ stage.cmd = "rollback" => Restores(stage.rb)
    /\ stage.cmd = "apply" => Sourced(stage.plan)

Migrates ==
    /\ source \in [Origin -> [Legacy -> Wording \cup {None}]]
    /\ canonical \in [Legacy -> Facts] /\ factRow \in [Legacy -> FactRows]
    /\ catalog \in Catalogs /\ mode \in {"dual-read", "enforced"}
    /\ applies \in 0..MaxApplies
    /\ PlanSane(planFile)
    /\ rollbackFile = Empty \/ Restores(rollbackFile)
    /\ DOMAIN operator = Migrator
    /\ \A x \in Migrator : StageSane(operator[x])

LEMMA MigratesTyped == Migrates => MigrateTypeOK
BY DEF Migrates, MigrateTypeOK, Facts, FactRows, Catalogs, NoCatalog, PlanSane, Sane

LEMMA MigratesInit == MigrateInit => Migrates
<1> SUFFICES ASSUME MigrateInit PROVE Migrates
  OBVIOUS
<1>1. PlanSane(planFile)
  BY DEF MigrateInit, NoPlan, PlanSane, PlanShape
<1>2. \A x \in Migrator : StageSane(operator[x])
  BY DEF MigrateInit, StageSane, NoStage
<1>3. QED
  BY <1>1, <1>2, MigrateAssumption DEF MigrateInit, Migrates, Facts, FactRows, Catalogs, NoCatalog

---------------------------------------------------------------------------
(* Entries of a plan.                                                       *)
LEMMA SourceText ==
    ASSUME source \in [Origin -> [Legacy -> Wording \cup {None}]], NEW s \in Legacy
    PROVE  /\ Having(s) \subseteq Origin /\ \A o \in Having(s) : source[o][s] \in Wording
           /\ Having(s) # {} => First(s) \in Having(s)
           /\ \A o \in Origin : OtherSources(s, o) \in Collisions
<1>1. Having(s) \subseteq Origin /\ \A o \in Having(s) : source[o][s] \in Wording
  BY DEF Having
<1>2. Having(s) # {} => First(s) \in Having(s)
  BY <1>1 DEF First, Origin
<1>3. ASSUME NEW o \in Origin PROVE OtherSources(s, o) \in Collisions
  <2>1. Having(s) \ {o} \in SUBSET Origin
    BY <1>1
  <2>2. OtherSources(s, o) \in [Having(s) \ {o} -> Wording]
    BY <1>1 DEF OtherSources
  <2>3. QED
    BY <2>1, <2>2 DEF Collisions
<1>4. QED
  BY <1>1, <1>2, <1>3

LEMMA EmptyCollides == Empty \in Collisions
<1>1. Empty \in [{} -> Wording] /\ {} \in SUBSET Origin
  BY DEF Empty
<1>2. QED
  BY <1>1 DEF Collisions

LEMMA NewEntrySane == Sane(NewEntry)
BY EmptyCollides DEF Sane, NewEntry, PlanEntry

LEMMA NoneIsNoOrigin == None \notin Origin
BY DEF None, Origin

\* An entry, field by field.
Entry(o, sha, a, c) == [origin |-> o, sha |-> sha, assignment |-> a, collisions |-> c]

\* The fields of a sane entry, and of one that is made of them.
HeaderFields(o, sha, a, c) ==
    /\ o \in Origin \cup {None} /\ sha \in Wording \cup {None}
    /\ a \in {None, "named", "excluded"} /\ c \in Collisions
    /\ o # None => sha # None

LEMMA EntryOf == ASSUME NEW o, NEW sha, NEW a, NEW c, HeaderFields(o, sha, a, c) PROVE Sane(Entry(o, sha, a, c))
BY DEF Sane, PlanEntry, HeaderFields, Entry

LEMMA EntryIs ==
    ASSUME NEW entry, Sane(entry)
    PROVE  \E o, sha, a, c : entry = Entry(o, sha, a, c) /\ HeaderFields(o, sha, a, c)
BY DEF Sane, PlanEntry, HeaderFields, Entry

LEMMA InventoriedSane ==
    ASSUME source \in [Origin -> [Legacy -> Wording \cup {None}]], NEW s \in Legacy,
           Having(s) # {}, NEW entry, Sane(entry)
    PROVE  Sane(Inventoried(entry, s))
<1>1. PICK o, sha, a, c : entry = Entry(o, sha, a, c) /\ HeaderFields(o, sha, a, c)
  BY EntryIs
<1> DEFINE first == First(s)
           firstSha == IF sha = None THEN source[first][s] ELSE sha
           keptSha == IF o \in Having(s) THEN source[o][s] ELSE sha
<1>2. CASE o = None
  <2>1. Inventoried(Entry(o, sha, a, c), s) = Entry(first, firstSha, a, OtherSources(s, first))
    BY <1>2 DEF Inventoried, Entry
  <2>2. HeaderFields(first, firstSha, a, OtherSources(s, first))
    BY <1>1, SourceText, MigrateAssumption DEF HeaderFields
  <2>3. QED
    BY <1>1, <2>1, <2>2, EntryOf
<1>3. CASE o # None /\ c = Empty
  <2>1. Inventoried(Entry(o, sha, a, c), s) = Entry(o, sha, a, c)
    BY <1>3 DEF Inventoried, Entry
  <2>2. QED
    BY <1>1, <2>1
<1>4. CASE o # None /\ c # Empty
  <2>1. Inventoried(Entry(o, sha, a, c), s) = Entry(o, keptSha, a, OtherSources(s, o))
    BY <1>4 DEF Inventoried, Entry
  <2>2. HeaderFields(o, keptSha, a, OtherSources(s, o))
    BY <1>1, <1>4, SourceText, MigrateAssumption DEF HeaderFields
  <2>3. QED
    BY <1>1, <2>1, <2>2, EntryOf
<1>5. QED
  BY <1>2, <1>3, <1>4

LEMMA ResolveSane ==
    ASSUME NEW entry, Sane(entry), NEW keep \in Origin
    PROVE  Sane(Resolve(entry, keep))
<1>1. PICK o, sha, a, c : entry = Entry(o, sha, a, c) /\ HeaderFields(o, sha, a, c)
  BY EntryIs
<1>2. CASE keep = o
  <2>1. Resolve(Entry(o, sha, a, c), keep) = Entry(o, sha, a, Empty)
    BY <1>2 DEF Resolve, Entry
  <2>2. HeaderFields(o, sha, a, Empty)
    BY <1>1, EmptyCollides DEF HeaderFields
  <2>3. QED
    BY <1>1, <2>1, <2>2, EntryOf
<1>3. CASE keep # o /\ keep \notin DOMAIN c
  <2>1. Resolve(Entry(o, sha, a, c), keep) = Entry(o, sha, a, c)
    BY <1>3 DEF Resolve, Entry
  <2>2. QED
    BY <1>1, <2>1
<1>4. CASE keep # o /\ keep \in DOMAIN c
  <2> DEFINE rest == [i \in DOMAIN c \ {keep} |-> c[i]]
  <2>1. PICK S \in SUBSET Origin : c \in [S -> Wording]
    BY <1>1 DEF HeaderFields, Collisions
  <2>2. rest \in [S \ {keep} -> Wording] /\ S \ {keep} \in SUBSET Origin /\ c[keep] \in Wording
    BY <1>4, <2>1
  <2>3. rest \in Collisions
    BY <2>2 DEF Collisions
  <2>4. Resolve(Entry(o, sha, a, c), keep) = Entry(keep, c[keep], a, rest)
    BY <1>4 DEF Resolve, Entry
  <2>5. HeaderFields(keep, c[keep], a, rest)
    BY <1>1, <2>2, <2>3, MigrateAssumption DEF HeaderFields
  <2>6. QED
    BY <1>1, <2>4, <2>5, EntryOf
<1>5. QED
  BY <1>2, <1>3, <1>4

LEMMA AssignSane ==
    ASSUME NEW entry, Sane(entry), NEW assignment \in {"named", "excluded"}
    PROVE  Sane([entry EXCEPT !.assignment = assignment])
<1>1. PICK o, sha, a, c : entry = Entry(o, sha, a, c) /\ HeaderFields(o, sha, a, c)
  BY EntryIs
<1>2. [Entry(o, sha, a, c) EXCEPT !.assignment = assignment] = Entry(o, sha, assignment, c)
  BY DEF Entry
<1>3. HeaderFields(o, sha, assignment, c)
  BY <1>1 DEF HeaderFields
<1>4. QED
  BY <1>1, <1>2, <1>3, EntryOf

---------------------------------------------------------------------------
(* Plans.                                                                   *)
LEMMA LoadedSane == Migrates => PlanSane(Loaded)
<1> SUFFICES ASSUME Migrates PROVE PlanSane(Loaded)
  OBVIOUS
<1> DEFINE old == planFile.facts
           Of(s) == IF s \in DOMAIN old THEN old[s] ELSE NewEntry
           all == DOMAIN old \cup {s \in Legacy : Having(s) # {}}
           facts == [s \in all |-> IF Having(s) = {} THEN Of(s) ELSE Inventoried(Of(s), s)]
<1>1. PlanShape(Loaded)
  BY LoadedShape DEF Migrates, PlanSane
<1>2. \A s \in all : s \in Legacy /\ Sane(Of(s))
  BY NewEntrySane DEF Migrates, PlanSane, PlanShape
<1>3. \A s \in all : Sane(facts[s])
  <2> HIDE DEF Of, all
  <2>1. SUFFICES ASSUME NEW s \in all PROVE Sane(facts[s])
    OBVIOUS
  <2>2. CASE Having(s) = {}
    BY <1>2, <2>2
  <2>3. CASE Having(s) # {}
    <3>1. Sane(Inventoried(Of(s), s))
      BY <1>2, <2>3, InventoriedSane DEF Migrates
    <3>2. QED
      BY <2>3, <3>1
  <2>4. QED
    BY <2>2, <2>3
<1>4. DOMAIN facts = all
  OBVIOUS
<1> HIDE DEF facts, Of, all, old
<1>5. Loaded = [[planFile EXCEPT !.facts = facts] EXCEPT !.id = IF @ = 0 THEN 1 ELSE @]
  BY Zenon DEF Loaded, facts, Of, all, old
<1>6. Loaded.facts = facts
  BY <1>5 DEF Migrates, PlanSane, PlanShape
<1>7. QED
  BY <1>1, <1>3, <1>4, <1>6 DEF PlanSane

LEMMA WithEntrySane ==
    ASSUME NEW plan, PlanSane(plan), NEW s \in Legacy, NEW entry, Sane(entry)
    PROVE  PlanSane([plan EXCEPT !.facts = WithEntry(plan.facts, s, entry)])
<1> DEFINE facts == WithEntry(plan.facts, s, entry)
<1>1. DOMAIN facts = DOMAIN plan.facts \cup {s}
  BY DEF WithEntry
<1>2. \A r \in DOMAIN facts : Sane(facts[r])
  BY DEF WithEntry, PlanSane
<1>3. DOMAIN facts \subseteq Legacy /\ "facts" \in DOMAIN plan
  BY <1>1 DEF PlanSane, PlanShape
<1> HIDE DEF facts
<1>4. QED
  BY <1>2, <1>3 DEF PlanSane, PlanShape, facts

LEMMA ReviewsSane ==
    ASSUME NEW plan, PlanSane(plan), NEW s \in Legacy, NEW entry \in Reviews(plan, s)
    PROVE  Sane(entry)
<1> DEFINE old == IF s \in DOMAIN plan.facts THEN plan.facts[s] ELSE NewEntry
<1>1. Sane(old)
  BY NewEntrySane DEF PlanSane
<1> HIDE DEF old
<1>2. CASE \E a \in {"named", "excluded"} : entry = [old EXCEPT !.assignment = a]
  BY <1>1, <1>2, AssignSane
<1>3. CASE s \in DOMAIN plan.facts /\ \E keep \in Origin : entry = Resolve(plan.facts[s], keep)
  BY <1>3, ResolveSane DEF PlanSane
<1>4. QED
  <2>1. Reviews(plan, s) = {[old EXCEPT !.assignment = a] : a \in {"named", "excluded"}}
            \cup {Resolve(plan.facts[s], keep) : keep \in IF old = NewEntry THEN {} ELSE Origin}
    BY Zenon DEF Reviews, old
  <2>2. old # NewEntry => s \in DOMAIN plan.facts
    BY DEF old
  <2>3. QED
    BY <1>2, <1>3, <2>1, <2>2
---------------------------------------------------------------------------
(* The steps.                                                               *)

\* A command begins with a plan, and a rollback with what the file has.
LEMMA BeginsSane ==
    ASSUME Migrates, NEW x \in Migrator, NEW state, MigrateBegin(x, state),
           PlanSane(state.plan), state.cmd = "rollback" => Restores(state.rb),
           state.cmd = "apply" => Sourced(state.plan)
    PROVE  Migrates'
<1>1. /\ operator' = [operator EXCEPT ![x] = state]
      /\ UNCHANGED <<source, canonical, factRow, catalog, planFile, rollbackFile, mode, applies>>
  BY DEF MigrateBegin, domain
<1>2. DOMAIN operator' = Migrator /\ \A y \in Migrator : StageSane(operator'[y])
  BY <1>1 DEF Migrates, StageSane
<1>3. QED
  BY <1>1, <1>2 DEF Migrates

LEMMA EndsSane ==
    ASSUME Migrates, NEW x \in Migrator, MigrateEnd(x)
    PROVE  DOMAIN operator' = Migrator /\ \A y \in Migrator : StageSane(operator'[y])
<1>1. operator' = [operator EXCEPT ![x] = NoStage]
  BY DEF MigrateEnd
<1>2. StageSane(NoStage)
  BY DEF StageSane, NoStage
<1>3. QED
  BY <1>1, <1>2 DEF Migrates

LEMMA ReviewSane == ASSUME Migrates, NEW x \in Migrator, Review(x) PROVE Migrates'
<1>1. PlanSane(Loaded)
  BY LoadedSane
<1>2. ASSUME NEW plan, PlanSane(plan), MigrateBegin(x, [cmd |-> "review", plan |-> plan])
      PROVE  Migrates'
  <2> DEFINE state == [cmd |-> "review", plan |-> plan]
  <2>1. state.cmd = "review" /\ state.plan = plan /\ MigrateBegin(x, state)
    BY <1>2
  <2> HIDE DEF state
  <2> QED
    BY <1>2, <2>1, BeginsSane
<1>3. CASE MigrateBegin(x, [cmd |-> "review", plan |-> Loaded])
  BY <1>1, <1>2, <1>3
<1>4. ASSUME NEW s \in Legacy, NEW entry \in Reviews(Loaded, s),
             MigrateBegin(x, [cmd |-> "review",
                             plan |-> [Loaded EXCEPT !.facts = WithEntry(Loaded.facts, s, entry)]])
      PROVE  Migrates'
  <2>1. PlanSane([Loaded EXCEPT !.facts = WithEntry(Loaded.facts, s, entry)])
    BY <1>1, ReviewsSane, WithEntrySane
  <2>2. QED
    BY <1>2, <1>4, <2>1
<1>5. QED
  BY <1>3, <1>4 DEF Review

LEMMA BeginSane ==
    ASSUME Migrates, NEW x \in Migrator, ApplyBegin(x) \/ RollbackBegin(x) \/ FinalizeBegin(x)
    PROVE  Migrates'
<1>1. PlanSane(Loaded)
  BY LoadedSane
<1>2. ASSUME NEW cmd \in {"apply", "finalize"}, cmd = "apply" => Sourced(Loaded),
             MigrateBegin(x, [cmd |-> cmd, plan |-> Loaded])
      PROVE  Migrates'
  <2> DEFINE state == [cmd |-> cmd, plan |-> Loaded]
  <2>1. state.cmd = cmd /\ state.plan = Loaded /\ MigrateBegin(x, state)
    BY <1>2
  <2> HIDE DEF state
  <2> QED
    BY <1>1, <1>2, <2>1, BeginsSane
<1>3. ASSUME RollbackBegin(x)
      PROVE  Migrates'
  <2> DEFINE state == [cmd |-> "rollback", plan |-> Loaded, rb |-> rollbackFile]
  <2>1. /\ state.cmd = "rollback" /\ state.plan = Loaded /\ state.rb = rollbackFile
        /\ MigrateBegin(x, state)
    BY <1>3 DEF RollbackBegin
  <2>2. Restores(rollbackFile)
    BY <1>3 DEF RollbackBegin, Migrates
  <2> HIDE DEF state
  <2> QED
    BY <1>1, <2>1, <2>2, BeginsSane
<1>4. ApplyBegin(x) => Sourced(Loaded)
  BY DEF ApplyBegin, Sourced
<1> QED
  BY <1>2, <1>3, <1>4 DEF ApplyBegin, FinalizeBegin

(* A copy has the text that was reviewed, which is one.                     *)
LEMMA CopiesText ==
    ASSUME NEW plan, PlanSane(plan), NEW onExisting, NEW resurrect,
           Appliable(plan, onExisting, resurrect), NEW s \in Copied(plan, onExisting),
           plan.facts[s].origin # None
    PROVE  s \in Legacy /\ source[plan.facts[s].origin][s] \in Wording
<1>1. s \in Assigned(plan, "named") /\ s \in DOMAIN plan.facts /\ s \in Legacy
  BY DEF Copied, Assigned, PlanSane, PlanShape
<1>2. source[plan.facts[s].origin][s] = plan.facts[s].sha
  BY <1>1 DEF Appliable, Copied, Reviewed
<1>3. Sane(plan.facts[s])
  BY <1>1 DEF PlanSane
<1>4. plan.facts[s].sha \in Wording
  BY <1>3 DEF Sane, PlanEntry
<1>5. QED
  BY <1>1, <1>2, <1>4

LEMMA MigratedShape ==
    ASSUME NEW plan, PlanSane(plan), NEW v
    PROVE  PlanSane([plan EXCEPT !.applied = v]) /\ PlanSane([plan EXCEPT !.finalized = v])
BY DEF PlanSane, PlanShape

LEMMA ApplySane ==
    ASSUME Migrates, NEW x \in Migrator, NEW onExisting, NEW resurrect,
           Apply(x, onExisting, resurrect)
    PROVE  Migrates'
<1> DEFINE plan == operator[x].plan
           S == Copied(plan, onExisting)
           kept == IF onExisting = "keep-existing" THEN Assigned(plan, "named") \ S ELSE {}
<1>1. /\ PlanSane(plan) /\ Sourced(plan) /\ Appliable(plan, onExisting, resurrect)
      /\ applies < MaxApplies /\ applies' = applies + 1 /\ applies' \in 1..MaxApplies
  BY MigrateAssumption DEF Apply, Migrates, StageSane, NoStage
<1>2. /\ canonical' = [s \in Legacy |-> IF s \in S
                           THEN [by |-> "migrate", text |-> source[plan.facts[s].origin][s],
                                 at |-> applies']
                           ELSE canonical[s]]
      /\ factRow' = [s \in Legacy |-> IF s \in S \cup kept THEN "active" ELSE factRow[s]]
      /\ catalog' = IF S \cup kept = {} THEN catalog ELSE Live \cup S
      /\ rollbackFile' = RollbackOf(S, kept)
      /\ planFile' = [plan EXCEPT !.applied = TRUE]
      /\ mode' = "dual-read" /\ source' = source /\ MigrateEnd(x)
  BY DEF Apply
<1>3. S \subseteq Assigned(plan, "named") /\ S \subseteq Legacy
  BY <1>1 DEF Copied, Assigned, PlanSane, PlanShape
<1>4. PlanSane(planFile')
  BY <1>1, <1>2, MigratedShape
<1>5. \A s \in S : source[plan.facts[s].origin][s] \in Wording
  BY <1>1, <1>3, CopiesText DEF Sourced
<1> HIDE DEF plan, S, kept
<1>6. canonical' \in [Legacy -> Facts]
  <2>1. \A s \in S : [by |-> "migrate", text |-> source[plan.facts[s].origin][s], at |-> applies'] \in Version
    BY <1>1, <1>5 DEF Version
  <2>2. QED
    BY <1>2, <2>1 DEF Migrates, Facts
<1>7. factRow' \in [Legacy -> FactRows] /\ catalog' \in Catalogs
  BY <1>2, <1>3 DEF Migrates, FactRows, Catalogs, Live
<1>8. Restores(rollbackFile')
  <2> DEFINE copied == [s \in S |-> [new |-> canonical'[s], old |-> canonical[s], row |-> factRow[s]]]
             catalogs == IF S \cup kept = {} THEN {} ELSE {[old |-> catalog, new |-> catalog']}
  <2>1. rollbackFile' = [copied |-> copied, catalogs |-> catalogs]
    BY <1>2 DEF RollbackOf
  <2>2. \A s \in DOMAIN copied : copied[s].old \in Facts /\ copied[s].row \in FactRows
    BY <1>3 DEF Migrates
  <2>3. \A c \in catalogs : c.old \in Catalogs
    BY DEF Migrates
  <2> HIDE DEF copied, catalogs
  <2>4. QED
    BY <2>1, <2>2, <2>3 DEF Restores
<1>9. QED
  BY <1>1, <1>2, <1>4, <1>6, <1>7, <1>8, EndsSane DEF Migrates

LEMMA RollbackSane == ASSUME Migrates, NEW x \in Migrator, Rollback(x) PROVE Migrates'
<1> DEFINE rb == operator[x].rb
<1>1. Restores(rb) /\ PlanSane(operator[x].plan)
  BY DEF Rollback, Migrates, StageSane, NoStage
<1>2. PlanSane(planFile')
  BY <1>1, MigratedShape DEF Rollback
<1> HIDE DEF rb
<1>3. /\ canonical' = [s \in Legacy |-> IF s \in DOMAIN rb.copied THEN rb.copied[s].old ELSE canonical[s]]
      /\ factRow' = [s \in Legacy |-> IF s \notin DOMAIN rb.copied THEN factRow[s]
                                    ELSE IF rb.copied[s].old = NoCanonical THEN None
                                    ELSE rb.copied[s].row]
      /\ catalog' = IF rb.catalogs = {} THEN catalog ELSE (CHOOSE c \in rb.catalogs : TRUE).old
      /\ mode' = "dual-read" /\ MigrateEnd(x) /\ UNCHANGED <<source, rollbackFile, applies>>
  BY DEF Rollback, rb
<1>4. canonical' \in [Legacy -> Facts] /\ factRow' \in [Legacy -> FactRows]
  BY <1>1, <1>3 DEF Restores, Migrates, FactRows
<1>5. catalog' \in Catalogs
  BY <1>1, <1>3 DEF Restores, Migrates
<1>6. QED
  BY <1>2, <1>3, <1>4, <1>5, EndsSane DEF Migrates

LEMMA FinalizeSane == ASSUME Migrates, NEW x \in Migrator, Finalize(x) PROVE Migrates'
<1> DEFINE plan == [operator[x].plan EXCEPT !.finalized = TRUE]
           state == [cmd |-> "review", plan |-> plan]
<1>1. /\ operator' = [operator EXCEPT ![x] = state] /\ rollbackFile' = Empty /\ mode' = "enforced"
      /\ UNCHANGED <<source, canonical, factRow, catalog, planFile, applies>>
  BY DEF Finalize, domain
<1>2. PlanSane(plan)
  <2>1. PlanSane(operator[x].plan)
    BY DEF Finalize, Migrates, StageSane, NoStage
  <2>2. QED
    BY <2>1, MigratedShape
<1>3. state.cmd = "review" /\ state.plan = plan
  OBVIOUS
<1> HIDE DEF plan, state
<1>4. DOMAIN operator' = Migrator /\ \A y \in Migrator : StageSane(operator'[y])
  BY <1>1, <1>2, <1>3 DEF Migrates, StageSane
<1>5. QED
  BY <1>1, <1>4 DEF Migrates

LEMMA EndSane == ASSUME Migrates, NEW x \in Migrator, Save(x) \/ Stop(x) PROVE Migrates'
<1>1. PlanSane(planFile')
  BY DEF Save, Stop, Migrates, StageSane, NoStage
<1>2. QED
  BY <1>1, EndsSane DEF Save, Stop, domain, Migrates

LEMMA OthersSane ==
    ASSUME Migrates, NEW s \in Legacy,
           \/ ForgetCanonical(s)
           \/ \E text \in Wording : UpsertCanonical(s, text)
           \/ \E o \in Origin, text \in Wording \cup {None} : EditSource(o, s, text)
    PROVE  Migrates'
<1>1. CASE ForgetCanonical(s)
  BY <1>1 DEF ForgetCanonical, Migrates, Facts, FactRows, Catalogs, Live
<1>2. ASSUME NEW text \in Wording, UpsertCanonical(s, text) PROVE Migrates'
  <2>1. [by |-> "user", text |-> text] \in Facts
    BY DEF Facts, Version
  <2>2. QED
    BY <1>2, <2>1 DEF UpsertCanonical, Migrates, FactRows, Catalogs, Live
<1>3. ASSUME NEW o \in Origin, NEW text \in Wording \cup {None}, EditSource(o, s, text) PROVE Migrates'
  BY <1>3 DEF EditSource, domain, Migrates
<1>4. QED
  BY <1>1, <1>2, <1>3

LEMMA MigratesStep == Migrates /\ [MigrateNext]_migratevars => Migrates'
<1> SUFFICES ASSUME Migrates, [MigrateNext]_migratevars PROVE Migrates'
  OBVIOUS
<1>1. CASE UNCHANGED migratevars
  BY <1>1 DEF migratevars, domain, Migrates
<1>2. QED
  BY <1>1, ReviewSane, BeginSane, ApplySane, RollbackSane, FinalizeSane, EndSane, OthersSane DEF MigrateNext

(* Plans, stages, canonicals, rows and catalogs of a migration are of their types: what  *)
(* a review resolves a collision to is the text it has seen, never a missing one         *)
(* (cm migrate review, apply, rollback).                                                 *)
THEOREM MigrateTyped == MigrateSpec => []MigrateTypeOK
<1>1. QED
  BY MigratesInit, MigratesTyped, MigratesStep, PTL DEF MigrateSpec

-----------------------------------------------------------------------------
(* The facts manifest (FactsManifest): what a reader of it is told.         *)
(*                                                                         *)
(* The argument: the stats of a row were taken before its bytes, and every *)
(* write gives the file a new ctime.  So a row whose ctime is the one of   *)
(* the file has the bytes of the file; any other row is older than it.     *)

\* A body that was found in s when its ctime was ctime, or later.
TellsOf(s, ctime, body) ==
    /\ ctime \in Nat /\ ctime <= clock
    /\ \/ canon[s] = NoFile
       \/ ctime < canon[s].ctime
       \/ ctime = canon[s].ctime /\ body = canon[s].body

RowsTell(rows) ==
    \A s \in DOMAIN rows : s \in Canonical /\ TellsOf(s, rows[s].ctime, rows[s].body)

JudgedBy(rows, p) == \A s \in DOMAIN rows : rows[s].predicate = Predicate[p]

\* A canonical is absent, or a file that is not younger than the clock.
Files == {NoFile} \cup [body : Body, mtime : Nat, ctime : Nat]
Canonicals ==
    /\ clock \in Nat
    /\ canon \in [Canonical -> Files]
    /\ \A s \in Canonical : canon[s] # NoFile => canon[s].ctime <= clock

\* The rows a reader carries, and the stats of the file it has open.
ReaderTells(p) ==
    /\ reader[p].pc \in {"enumerate", "build", "read"} =>
         RowsTell(reader[p].rows) /\ JudgedBy(reader[p].rows, p)
    /\ reader[p].pc \in {"enumerate", "build"} => reader[p].todo \subseteq Canonical
    /\ reader[p].pc = "read" =>
         /\ reader[p].stem \in Canonical /\ reader[p].todo \subseteq Canonical
         /\ TellsOf(reader[p].stem, reader[p].stat.ctime, reader[p].stat.body)

ManifestTells ==
    /\ Canonicals
    /\ manifest # Missing => RowsTell(manifest)
    /\ DOMAIN reader = Reader
    /\ \A p \in Reader : ReaderTells(p)

---------------------------------------------------------------------------
LEMMA InitTells == ManifestInit => ManifestTells
<1> SUFFICES ASSUME ManifestInit PROVE ManifestTells
  OBVIOUS
<1>1. PICK b \in Body : canon = [s \in Canonical |-> [body |-> b, mtime |-> 0, ctime |-> 0]]
  BY DEF ManifestInit
<1>2. Canonicals
  BY <1>1 DEF ManifestInit, Canonicals, Files
<1>3. QED
  BY <1>2 DEF ManifestInit, ManifestTells, ReaderTells, NotReading, Missing

(* While no canonical changes, what told the truth goes on telling it.      *)
LEMMA Untouched ==
    ASSUME UNCHANGED <<canon, clock>>
    PROVE  /\ \A s, ctime, body : TellsOf(s, ctime, body) => TellsOf(s, ctime, body)'
           /\ \A rows : RowsTell(rows) => RowsTell(rows)'
           /\ Canonicals => Canonicals'
BY DEF TellsOf, RowsTell, Canonicals

(* A write gives the file a ctime that no row has.                          *)
LEMMA WriteTells ==
    ASSUME Canonicals, NEW s \in Canonical, NEW b \in Body, NEW mtime \in Nat,
           WriteCanonical(s, b, mtime)
    PROVE  /\ \A t \in Canonical : \A ctime, body :
                TellsOf(t, ctime, body) => TellsOf(t, ctime, body)'
           /\ \A rows : RowsTell(rows) => RowsTell(rows)'
           /\ Canonicals'
<1>1. /\ clock' = clock + 1 /\ clock \in Nat
      /\ canon' = [canon EXCEPT ![s] = [body |-> b, mtime |-> mtime, ctime |-> clock']]
  BY DEF WriteCanonical, Canonicals
<1>2. ASSUME NEW t \in Canonical, NEW ctime, NEW body, TellsOf(t, ctime, body)
      PROVE  TellsOf(t, ctime, body)'
  <2>1. CASE t = s
    <3>1. canon'[t].ctime = clock'
      BY <1>1, <2>1 DEF Canonicals
    <3>2. QED
      BY <1>1, <1>2, <3>1 DEF TellsOf
  <2>2. CASE t # s
    <3>1. canon'[t] = canon[t]
      BY <1>1, <2>2 DEF Canonicals
    <3>2. QED
      BY <1>1, <1>2, <3>1 DEF TellsOf
  <2>3. QED
    BY <2>1, <2>2
<1>3. Canonicals'
  BY <1>1 DEF Canonicals, Files
<1>4. QED
  BY <1>2, <1>3 DEF RowsTell

(* And so does a removal.                                                   *)
LEMMA RemoveTells ==
    ASSUME Canonicals, NEW s \in Canonical, RemoveCanonical(s)
    PROVE  /\ \A t \in Canonical : \A ctime, body :
                TellsOf(t, ctime, body) => TellsOf(t, ctime, body)'
           /\ \A rows : RowsTell(rows) => RowsTell(rows)'
           /\ Canonicals'
BY DEF RemoveCanonical, TellsOf, RowsTell, Canonicals, Files

\* Every step but those on the canonicals themselves leaves what is told alone.
KeepsTruth ==
    /\ \A t \in Canonical : \A ctime, body : TellsOf(t, ctime, body) => TellsOf(t, ctime, body)'
    /\ \A rows : RowsTell(rows) => RowsTell(rows)'
    /\ Canonicals'

LEMMA OthersTell ==
    ASSUME ManifestTells, KeepsTruth, NEW p \in Reader, UNCHANGED reader
    PROVE  ReaderTells(p)'
BY DEF ManifestTells, ReaderTells, KeepsTruth, JudgedBy

(* A step of one reader: the others keep their rows.                        *)
LEMMA OneReader ==
    ASSUME ManifestTells, KeepsTruth, NEW p \in Reader, NEW state, ReaderGoes(p, state),
           manifest' \in {manifest, Missing} \/ RowsTell(manifest)',
           ReaderTells(p)'
    PROVE  ManifestTells'
<1>1. reader' = [reader EXCEPT ![p] = state] /\ DOMAIN reader' = Reader
  BY DEF ReaderGoes, ManifestTells
<1>2. \A q \in Reader : ReaderTells(q)'
  <2> SUFFICES ASSUME NEW q \in Reader, q # p PROVE ReaderTells(q)'
    OBVIOUS
  <2>1. reader'[q] = reader[q]
    BY <1>1 DEF ManifestTells
  <2>2. QED
    BY <2>1 DEF ManifestTells, ReaderTells, KeepsTruth, JudgedBy
<1>3. manifest' # Missing => RowsTell(manifest)'
  <2>1. CASE manifest' = manifest
    <3>1. manifest # Missing => RowsTell(manifest)
      BY DEF ManifestTells
    <3>2. QED
      BY <2>1, <3>1 DEF KeepsTruth, RowsTell, TellsOf
  <2>2. QED
    BY <2>1
<1>4. QED
  BY <1>1, <1>2, <1>3 DEF ManifestTells, KeepsTruth

---------------------------------------------------------------------------
(* One lemma per action; Edit, Remove and Recover leave every reader as it was. *)
LEMMA StillUntouched == ASSUME ManifestTells, UNCHANGED <<canon, clock>> PROVE KeepsTruth
BY Untouched DEF KeepsTruth, ManifestTells

LEMMA LoadTells ==
    ASSUME ManifestTells, NEW p \in Reader, Load(p) # Missing
    PROVE  Load(p) = manifest /\ RowsTell(manifest) /\ JudgedBy(manifest, p)
BY DEF Load, ManifestTells, JudgedBy

LEMMA HitTells == ASSUME ManifestTells, NEW p \in Reader, Hit(p) PROVE ManifestTells'
<1>1. KeepsTruth
  BY StillUntouched DEF Hit
<1>2. RowsTell(manifest)' /\ JudgedBy(manifest, p)
  BY <1>1, LoadTells DEF Hit, KeepsTruth
<1>3. reader'[p] = Enumerating(manifest, Canonical)
  BY LoadTells DEF Hit, ReaderGoes, ManifestTells
<1>4. ReaderTells(p)'
  BY <1>2, <1>3 DEF ReaderTells, Enumerating, Hit, RowsTell, TellsOf, JudgedBy
<1>5. QED
  BY <1>1, <1>4, OneReader DEF Hit

LEMMA MissTells == ASSUME ManifestTells, NEW p \in Reader, Miss(p) PROVE ManifestTells'
<1>1. KeepsTruth
  BY StillUntouched DEF Miss
<1>2. ReaderTells(p)'
  BY DEF Miss, ReaderGoes, ManifestTells, ReaderTells
<1>3. QED
  BY <1>1, <1>2, OneReader DEF Miss

LEMMA TryLockTells == ASSUME ManifestTells, NEW p \in Reader, TryLock(p) PROVE ManifestTells'
<1>1. KeepsTruth /\ manifest' = manifest
  BY StillUntouched DEF TryLock
<1>2. CASE globalLock # Nobody
  <2>1. ReaderGoes(p, NotReading)
    BY <1>2 DEF TryLock
  <2>2. ReaderTells(p)'
    BY <2>1 DEF ReaderGoes, ManifestTells, ReaderTells, NotReading
  <2>3. QED
    BY <1>1, <2>1, <2>2, OneReader
<1>3. CASE globalLock = Nobody /\ Load(p) # Missing
  <2>1. ReaderGoes(p, Enumerating(manifest, Canonical))
    BY <1>3, LoadTells DEF TryLock
  <2>2. RowsTell(manifest)' /\ JudgedBy(manifest, p)
    BY <1>1, <1>3, LoadTells DEF KeepsTruth, RowsTell, TellsOf
  <2>3. ReaderTells(p)'
    BY <1>1, <2>1, <2>2 DEF ReaderGoes, ManifestTells, ReaderTells, Enumerating, RowsTell, TellsOf, JudgedBy
  <2>4. QED
    BY <1>1, <2>1, <2>3, OneReader
<1>4. CASE globalLock = Nobody /\ Load(p) = Missing
  <2> DEFINE start == Building(<< >>, {s \in Canonical : canon[s] # NoFile})
  <2>1. ReaderGoes(p, start)
    BY <1>4 DEF TryLock
  <2>2. ReaderTells(p)'
    BY <2>1 DEF ReaderGoes, ManifestTells, ReaderTells, RowsTell, JudgedBy, Building
  <2>3. QED
    BY <1>1, <2>1, <2>2, OneReader
<1>5. QED
  BY <1>2, <1>3, <1>4

LEMMA FstatTells == ASSUME ManifestTells, NEW p \in Reader, Fstat(p) PROVE ManifestTells'
<1>1. KeepsTruth /\ manifest' = manifest /\ UNCHANGED <<canon, clock>>
  BY StillUntouched DEF Fstat
<1>2. PICK s \in reader[p].todo :
        IF canon[s] = NoFile
        THEN ReaderGoes(p, Building(reader[p].rows, reader[p].todo \ {s}))
        ELSE ReaderGoes(p, [pc |-> "read", stem |-> s, stat |-> canon[s],
                      todo |-> reader[p].todo \ {s}, rows |-> reader[p].rows])
  BY DEF Fstat
<1>3. /\ s \in Canonical /\ reader[p].todo \subseteq Canonical
      /\ RowsTell(reader[p].rows) /\ JudgedBy(reader[p].rows, p)
  BY DEF Fstat, ManifestTells, ReaderTells
<1>4. CASE canon[s] = NoFile
  <2>1. ReaderGoes(p, Building(reader[p].rows, reader[p].todo \ {s}))
    BY <1>2, <1>4
  <2>2. ReaderTells(p)'
    BY <1>1, <1>3, <2>1 DEF ReaderGoes, ManifestTells, ReaderTells, Building, RowsTell, TellsOf, JudgedBy
  <2>3. QED
    BY <1>1, <2>1, <2>2, OneReader
<1>5. CASE canon[s] # NoFile
  <2>1. ReaderGoes(p, [pc |-> "read", stem |-> s, stat |-> canon[s],
                 todo |-> reader[p].todo \ {s}, rows |-> reader[p].rows])
    BY <1>2, <1>5
  <2>2. TellsOf(s, canon[s].ctime, canon[s].body)
    BY <1>3, <1>5 DEF ManifestTells, Canonicals, TellsOf, Files
  <2>3. ReaderTells(p)'
    BY <1>1, <1>3, <2>1, <2>2 DEF ReaderGoes, ManifestTells, ReaderTells, RowsTell, TellsOf, JudgedBy
  <2>4. QED
    BY <1>1, <2>1, <2>3, OneReader
<1>6. QED
  BY <1>4, <1>5

(* The bytes that are not those of the stats come of a later write.         *)
LEMMA ReadTells == ASSUME ManifestTells, NEW p \in Reader, Read(p) PROVE ManifestTells'
<1> DEFINE r == reader[p]
<1>1. KeepsTruth /\ manifest' = manifest /\ UNCHANGED <<canon, clock>>
  BY StillUntouched DEF Read
<1>2. PICK body \in {r.stat.body, canon[r.stem].body} \ {NoFile.body} :
        IF body \in Oversize THEN ReaderGoes(p, NotReading) /\ Unlock(p)
        ELSE /\ ReaderGoes(p, Building(WithRow(r.rows, r.stem, RowOf(r, body, p)), r.todo))
             /\ UNCHANGED globalLock
  BY DEF Read
<1>3. /\ r.stem \in Canonical /\ r.todo \subseteq Canonical
      /\ RowsTell(r.rows) /\ JudgedBy(r.rows, p)
      /\ TellsOf(r.stem, r.stat.ctime, r.stat.body)
  BY DEF Read, ManifestTells, ReaderTells
<1>4. CASE body \in Oversize
  <2>1. ReaderGoes(p, NotReading)
    BY <1>2, <1>4
  <2>2. ReaderTells(p)'
    BY <2>1 DEF ReaderGoes, ManifestTells, ReaderTells, NotReading
  <2>3. QED
    BY <1>1, <2>1, <2>2, OneReader
<1>5. CASE body \notin Oversize
  <2> DEFINE rows == WithRow(r.rows, r.stem, RowOf(r, body, p))
  <2>1. ReaderGoes(p, Building(rows, r.todo))
    BY <1>2, <1>5
  <2>2. TellsOf(r.stem, r.stat.ctime, body)
    BY <1>2, <1>3 DEF TellsOf
  <2>3. RowsTell(rows) /\ JudgedBy(rows, p)
    BY <1>3, <2>2 DEF RowsTell, JudgedBy, WithRow, RowOf
  <2>4. ReaderTells(p)'
    <3> HIDE DEF rows
    <3>1. QED
      BY <1>1, <1>3, <2>1, <2>3 DEF ReaderGoes, ManifestTells, ReaderTells, Building, RowsTell, TellsOf, JudgedBy
  <2>5. QED
    BY <1>1, <2>1, <2>4, OneReader
<1>6. QED
  BY <1>4, <1>5

LEMMA StoreTells == ASSUME ManifestTells, NEW p \in Reader, StoreRows(p) PROVE ManifestTells'
<1>1. KeepsTruth /\ UNCHANGED <<canon, clock>>
  BY StillUntouched DEF StoreRows
<1>2. /\ ReaderGoes(p, Enumerating(reader[p].rows, Canonical))
      /\ manifest' = reader[p].rows
      /\ RowsTell(reader[p].rows) /\ JudgedBy(reader[p].rows, p)
  BY DEF StoreRows, ManifestTells, ReaderTells
<1>3. RowsTell(manifest)'
  BY <1>1, <1>2 DEF RowsTell, TellsOf
<1>4. ReaderTells(p)'
  BY <1>1, <1>2 DEF ReaderGoes, ManifestTells, ReaderTells, Enumerating, RowsTell, TellsOf, JudgedBy
<1>5. QED
  BY <1>1, <1>2, <1>3, <1>4, OneReader

LEMMA ConsiderTells ==
    ASSUME ManifestTells, NEW p \in Reader, NEW s \in Canonical, Consider(p, s) PROVE ManifestTells'
<1>1. KeepsTruth /\ manifest' = manifest /\ UNCHANGED <<canon, clock>>
  BY StillUntouched DEF Consider
<1>2. PICK state \in {NotReading, Enumerating(reader[p].rows, reader[p].todo \ {s})} : ReaderGoes(p, state)
  BY DEF Consider
<1>3. ReaderTells(p)'
  BY <1>1, <1>2 DEF ReaderGoes, ManifestTells, ReaderTells, Enumerating, NotReading, Consider,
                    RowsTell, TellsOf, JudgedBy
<1>4. QED
  BY <1>1, <1>2, <1>3, OneReader

(* A state in which a reader carries nothing.                               *)
LEMMA EmptyHanded ==
    ASSUME ManifestTells, KeepsTruth, NEW p \in Reader,
           NEW state \in {NotReading, [pc |-> "published"]}, ReaderGoes(p, state),
           manifest' \in {manifest, Missing}
    PROVE  ManifestTells'
<1>1. ReaderTells(p)'
  BY DEF ReaderGoes, ManifestTells, ReaderTells, NotReading
<1>2. QED
  BY <1>1, OneReader

LEMMA PublishTells ==
    ASSUME ManifestTells, NEW p \in Reader, NEW s \in Canonical, NEW b \in Body, PublishCanonical(p, s, b)
    PROVE  ManifestTells'
<1>1. PICK mtime \in Nat : WriteCanonical(s, b, mtime)
  <2>1. WriteCanonical(s, b, clock')
    BY DEF PublishCanonical
  <2>2. clock' \in Nat
    BY <2>1 DEF WriteCanonical, ManifestTells, Canonicals
  <2>3. QED
    BY <2>1, <2>2
<1>2. KeepsTruth
  BY <1>1, WriteTells DEF ManifestTells, KeepsTruth
<1>3. QED
  BY <1>2, EmptyHanded DEF PublishCanonical

LEMMA InvalidateTells == ASSUME ManifestTells, NEW p \in Reader, Invalidate(p) PROVE ManifestTells'
<1>1. KeepsTruth
  BY StillUntouched DEF Invalidate
<1>2. QED
  BY <1>1, EmptyHanded DEF Invalidate

LEMMA CrashTells == ASSUME ManifestTells, NEW p \in Reader, ReaderCrash(p) PROVE ManifestTells'
<1>1. KeepsTruth
  BY StillUntouched DEF ReaderCrash
<1>2. QED
  BY <1>1, EmptyHanded DEF ReaderCrash

(* Recover, Edit and Remove leave the readers and the manifest alone.       *)
LEMMA Outside ==
    ASSUME ManifestTells, KeepsTruth, UNCHANGED reader, manifest' \in {manifest, Missing}
    PROVE  ManifestTells'
<1>1. \A p \in Reader : ReaderTells(p)'
  BY OthersTell
<1>2. manifest' # Missing => RowsTell(manifest)'
  <2>1. CASE manifest' = manifest
    <3>1. manifest # Missing => RowsTell(manifest)
      BY DEF ManifestTells
    <3>2. QED
      BY <2>1, <3>1 DEF KeepsTruth, RowsTell, TellsOf
  <2>2. QED
    BY <2>1
<1>3. QED
  BY <1>1, <1>2 DEF ManifestTells, KeepsTruth

LEMMA WrittenOutside ==
    ASSUME ManifestTells, NEW s \in Canonical, NEW b \in Body, NEW mtime \in Nat, WriteCanonical(s, b, mtime),
           UNCHANGED <<reader, manifest>>
    PROVE  ManifestTells'
<1>1. KeepsTruth
  BY WriteTells DEF ManifestTells, KeepsTruth
<1>2. QED
  BY <1>1, Outside

LEMMA RecoverTells ==
    ASSUME ManifestTells, NEW p \in Reader, NEW s \in Canonical, NEW b \in Body, Recover(p, s, b)
    PROVE  ManifestTells'
<1>1. PICK mtime \in Nat : WriteCanonical(s, b, mtime)
  <2>1. WriteCanonical(s, b, clock')
    BY DEF Recover
  <2>2. clock' \in Nat
    BY <2>1 DEF WriteCanonical, ManifestTells, Canonicals
  <2>3. QED
    BY <2>1, <2>2
<1>2. QED
  BY <1>1, WrittenOutside DEF Recover

LEMMA EditTells ==
    ASSUME ManifestTells, NEW s \in Canonical, NEW b \in Body, EditCanonical(s, b)
    PROVE  ManifestTells'
<1>1. canon[s].mtime \in Nat /\ clock + 1 \in Nat
  BY DEF EditCanonical, ManifestTells, Canonicals, Files
<1>2. PICK mtime \in Nat : WriteCanonical(s, b, mtime)
  BY <1>1 DEF EditCanonical
<1>3. QED
  BY <1>2, WrittenOutside DEF EditCanonical

LEMMA RemovedTells == ASSUME ManifestTells, NEW s \in Canonical, RemoveCanonical(s) PROVE ManifestTells'
<1>1. KeepsTruth
  BY RemoveTells DEF ManifestTells, KeepsTruth
<1>2. QED
  BY <1>1, Outside DEF RemoveCanonical

LEMMA DropTells == ASSUME ManifestTells, Drop PROVE ManifestTells'
<1>1. KeepsTruth
  BY StillUntouched DEF Drop
<1>2. QED
  BY <1>1, Outside DEF Drop

LEMMA StepTells == ManifestTells /\ [ManifestNext]_manifestvars => ManifestTells'
<1> SUFFICES ASSUME ManifestTells, [ManifestNext]_manifestvars PROVE ManifestTells'
  OBVIOUS
<1>1. CASE \E p \in Reader : Hit(p) \/ Miss(p) \/ TryLock(p) \/ Fstat(p) \/ Read(p) \/ StoreRows(p)
  BY <1>1, HitTells, MissTells, TryLockTells, FstatTells, ReadTells, StoreTells
<1>2. CASE \E p \in Reader, s \in Canonical : Consider(p, s)
  BY <1>2, ConsiderTells
<1>3. CASE \E p \in Reader, s \in Canonical, b \in Body : PublishCanonical(p, s, b) \/ Recover(p, s, b)
  BY <1>3, PublishTells, RecoverTells
<1>4. CASE \E p \in Reader : Invalidate(p) \/ ReaderCrash(p)
  BY <1>4, InvalidateTells, CrashTells
<1>5. CASE \E s \in Canonical : RemoveCanonical(s) \/ \E b \in Body : EditCanonical(s, b)
  BY <1>5, RemovedTells, EditTells
<1>6. CASE Drop
  BY <1>6, DropTells
<1>7. CASE UNCHANGED manifestvars
  <2>1. KeepsTruth
    BY <1>7, StillUntouched DEF manifestvars
  <2>2. QED
    BY <1>7, <2>1, Outside DEF manifestvars
<1>8. QED
  BY <1>1, <1>2, <1>3, <1>4, <1>5, <1>6, <1>7 DEF ManifestNext

(* What any reader holds of a file, and the manifest with it, is older than the file or  *)
(* tells its body, however edits, rebuilds and crashes interleave (facts_manifest.py).   *)
THEOREM RowsAreTrue == ManifestSpec => []ManifestTells
<1>1. QED
  BY InitTells, StepTells, PTL DEF ManifestSpec

(* A row that stands for a file in an enumeration tells what is in the file, as the      *)
(* firewall of the reader judges it (_consider_fast, which skips the body).              *)
THEOREM ServedHolds == ManifestSpec => ServedIsTrue
<1>1. ASSUME ManifestTells, NEW p \in Reader, NEW s \in Canonical, Consider(p, s),
             canon[s] # NoFile, RowIsFresh(reader[p].rows, s)
      PROVE  /\ reader[p].rows[s].body = canon[s].body
             /\ reader[p].rows[s].predicate = Predicate[p]
  <2>1. RowsTell(reader[p].rows) /\ JudgedBy(reader[p].rows, p)
    BY <1>1 DEF Consider, ManifestTells, ReaderTells
  <2>2. canon[s].ctime \in Nat
    BY <1>1 DEF ManifestTells, Canonicals, Files
  <2>3. QED
    BY <1>1, <2>1, <2>2 DEF RowsTell, TellsOf, JudgedBy, RowIsFresh
<1>2. ManifestTells => [\A p \in Reader, s \in Canonical :
                  Consider(p, s) /\ canon[s] # NoFile /\ RowIsFresh(reader[p].rows, s)
                    => /\ reader[p].rows[s].body = canon[s].body
                       /\ reader[p].rows[s].predicate = Predicate[p]]_manifestvars
  BY <1>1
<1>3. QED
  BY <1>2, RowsAreTrue, PTL DEF ServedIsTrue

---------------------------------------------------------------------------
(* The types.                                                              *)

LEMMA InitManifestTypes == ManifestInit => ManifestTypeOK
<1> SUFFICES ASSUME ManifestInit PROVE ManifestTypeOK
  OBVIOUS
<1>1. PICK b \in Body : canon = [s \in Canonical |-> [body |-> b, mtime |-> 0, ctime |-> 0]]
  BY DEF ManifestInit
<1>2. QED
  BY <1>1, ManifestAssumption DEF ManifestInit, ManifestTypeOK

\* Who holds the lock is a reader, or nobody.
LockTyped == globalLock \in Reader \cup {Nobody}

LEMMA WriteTypes ==
    ASSUME Canonicals, ManifestTypeOK, NEW s \in Canonical, NEW b \in Body,
           NEW mtime \in 0..clock + 1, WriteCanonical(s, b, mtime), LockTyped'
    PROVE  ManifestTypeOK'
<1>1. /\ clock' = clock + 1 /\ clock \in Nat /\ clock' \in 0..MaxWrites
      /\ canon' = [canon EXCEPT ![s] = [body |-> b, mtime |-> mtime, ctime |-> clock']]
  BY ManifestAssumption DEF WriteCanonical, ManifestTypeOK
<1>2. ASSUME NEW i \in Canonical
      PROVE  canon'[i] = NoFile
             \/ canon'[i] \in [body : Body, mtime : 0..clock', ctime : 0..clock']
  <2>1. CASE i = s
    <3>1. canon'[i] = [body |-> b, mtime |-> mtime, ctime |-> clock']
      BY <1>1, <2>1 DEF Canonicals
    <3>2. mtime \in 0..clock' /\ clock' \in 0..clock'
      BY <1>1
    <3>3. QED
      BY <3>1, <3>2
  <2>2. CASE i # s
    <3>1. canon'[i] = canon[i]
      BY <1>1, <2>2 DEF Canonicals
    <3>2. 0..clock \subseteq 0..clock'
      BY <1>1
    <3>3. QED
      BY <3>1, <3>2 DEF ManifestTypeOK
  <2>3. QED
    BY <2>1, <2>2
<1>3. QED
  BY <1>1, <1>2 DEF ManifestTypeOK, LockTyped

LEMMA StepManifestTypes ==
    Canonicals /\ ManifestTypeOK /\ [ManifestNext]_manifestvars => ManifestTypeOK'
<1> SUFFICES ASSUME Canonicals, ManifestTypeOK, [ManifestNext]_manifestvars PROVE ManifestTypeOK'
  OBVIOUS
<1>0. /\ clock \in Nat /\ LockTyped
  BY DEF Canonicals, ManifestTypeOK, LockTyped
<1>1. ASSUME NEW p \in Reader,
             Hit(p) \/ Miss(p) \/ TryLock(p) \/ Fstat(p) \/ Read(p) \/ StoreRows(p)
             \/ (\E s \in Canonical : Consider(p, s)) \/ Invalidate(p) \/ ReaderCrash(p)
      PROVE  ManifestTypeOK'
  <2>1. canon' = canon /\ clock' = clock
    BY <1>1 DEF Hit, Miss, TryLock, Fstat, Read, StoreRows, Consider, Invalidate, ReaderCrash
  <2>2. globalLock' \in {globalLock, p, Nobody}
    BY <1>1 DEF Hit, Miss, TryLock, Fstat, Read, StoreRows, Consider, Invalidate, ReaderCrash, Lock, Unlock
  <2>3. QED
    BY <2>1, <2>2 DEF ManifestTypeOK
<1>2. ASSUME NEW p \in Reader, NEW s \in Canonical, NEW b \in Body,
             PublishCanonical(p, s, b) \/ Recover(p, s, b)
      PROVE  ManifestTypeOK'
  <2>1. WriteCanonical(s, b, clock') /\ globalLock' \in {p, globalLock}
    BY <1>2 DEF PublishCanonical, Recover, Lock
  <2>2. clock' \in 0..clock + 1 /\ LockTyped'
    BY <1>0, <2>1 DEF WriteCanonical, LockTyped
  <2>3. QED
    BY <2>1, <2>2, WriteTypes
<1>3. ASSUME NEW s \in Canonical, NEW b \in Body, EditCanonical(s, b) PROVE ManifestTypeOK'
  <2>1. canon[s].mtime \in 0..clock + 1 /\ clock + 1 \in 0..clock + 1
    BY <1>0, <1>3 DEF EditCanonical, ManifestTypeOK
  <2>2. PICK mtime \in 0..clock + 1 : WriteCanonical(s, b, mtime)
    BY <1>3, <2>1 DEF EditCanonical
  <2>3. LockTyped'
    BY <1>0, <1>3 DEF EditCanonical, LockTyped
  <2>4. QED
    BY <2>2, <2>3, WriteTypes
<1>4. ASSUME NEW s \in Canonical, RemoveCanonical(s) PROVE ManifestTypeOK'
  BY <1>4 DEF RemoveCanonical, Canonicals, ManifestTypeOK
<1>5. CASE Drop \/ UNCHANGED manifestvars
  BY <1>5 DEF Drop, manifestvars, ManifestTypeOK
<1>6. QED
  BY <1>1, <1>2, <1>3, <1>4, <1>5 DEF ManifestNext

(* A canonical, its stats, the clock of its writes and the holder of global.lock are of  *)
(* their types: no file is of a later moment than the last write (facts_manifest.py).    *)
THEOREM ManifestTyped == ManifestSpec => []ManifestTypeOK
<1>1. ManifestTells => Canonicals
  BY DEF ManifestTells
<1>2. QED
  BY <1>1, RowsAreTrue, InitManifestTypes, StepManifestTypes, PTL DEF ManifestSpec

=============================================================================
