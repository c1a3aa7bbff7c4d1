------------------------------- MODULE Migrate -------------------------------
(***************************************************************************)
(* The staged migration of legacy facts into a named domain (cm migrate;   *)
(* cm_ops.py): a plan that is reviewed, an apply and a rollback that are   *)
(* one transaction each, and a finalize.                                   *)
(*                                                                         *)
(* A command loads the plan, and all it decides on, without a lock; what a *)
(* review decides is saved without one.  Meanwhile the sources change, and *)
(* sessions write and forget canonicals of the domain.                     *)
(***************************************************************************)
EXTENDS Naturals, Sequences

CONSTANTS Migrator, Legacy, Wording, MaxApplies, MaxEdits

Origin == {"legacy", "unknown-pool"}
None == "none"

ASSUME MigrateAssumption == None \notin Wording /\ MaxApplies \in Nat

NoCanonical == [by |-> "nobody"]
NoStage == [cmd |-> "idle"]
NoPlan == [facts |-> << >>, applied |-> FALSE, finalized |-> FALSE, id |-> 0]
Empty == [s \in {} |-> None]

VARIABLES
    source,      \* [Origin -> [Stem -> Text or None]]
    canonical,   \* the facts of the domain: who wrote which text, or Absent
    factRow,     \* the registry rows: "active", "forgotten" or None
    catalog,     \* the stems that the catalog of the domain lists, or None
    planFile, rollbackFile, migrated,    \* migrate-*.json
    mode,        \* migration_state
    operator,
    applies, edits,
    before       \* history: the domain as each apply found it

migratevars == <<source, canonical, factRow, catalog, planFile, rollbackFile, migrated,
                 mode, operator, applies, edits, before>>
domain == <<canonical, factRow, catalog>>

Version == [by : {"user"}, text : Wording] \cup [by : {"migrate"}, text : Wording, at : 1..MaxApplies]
\* The other sources of a stem, each with the text it had.
Collisions == UNION {[S -> Wording] : S \in SUBSET Origin}
PlanEntry == [origin : Origin \cup {None}, sha : Wording \cup {None},
          assignment : {None, "named", "excluded"}, collisions : Collisions]

MigrateTypeOK ==
    /\ source \in [Origin -> [Legacy -> Wording \cup {None}]]
    /\ \A s \in Legacy : canonical[s] # NoCanonical => canonical[s] \in Version
    /\ factRow \in [Legacy -> {"active", "forgotten", None}]
    /\ catalog = {None} \/ catalog \subseteq Legacy
    /\ \A s \in DOMAIN planFile.facts : planFile.facts[s] \in PlanEntry
    /\ mode \in {"dual-read", "enforced"}

Live == {s \in Legacy : canonical[s] # NoCanonical}
NoCatalog == {None}

---------------------------------------------------------------------------
(* The plan.                                                               *)

Having(s) == {o \in Origin : source[o][s] # None}
First(s) == IF "legacy" \in Having(s) THEN "legacy" ELSE "unknown-pool"
OtherSources(s, o) == [i \in Having(s) \ {o} |-> source[i][s]]

\* A reviewed choice of a source stands, its hash too; of an open collision everything
\* is read again.
Inventoried(entry, s) ==
    LET first == First(s)
        kept == entry.origin
    IN  IF kept = None
        THEN [entry EXCEPT !.origin = first, !.collisions = OtherSources(s, first),
                           !.sha = IF @ = None THEN source[first][s] ELSE @]
        ELSE IF entry.collisions = Empty THEN entry
        ELSE [entry EXCEPT !.collisions = OtherSources(s, kept),
                           !.sha = IF kept \in Having(s) THEN source[kept][s] ELSE @]

NewEntry == [origin |-> None, sha |-> None, assignment |-> None, collisions |-> Empty]

\* _load_migrate_plan and the refresh of the inventory.  A plan without a file gets a new id.
Loaded ==
    LET old == planFile.facts
        all == DOMAIN old \cup {s \in Legacy : Having(s) # {}}
        Of(s) == IF s \in DOMAIN old THEN old[s] ELSE NewEntry
        facts == [s \in all |-> IF Having(s) = {} THEN Of(s) ELSE Inventoried(Of(s), s)]
    IN  [[planFile EXCEPT !.facts = facts] EXCEPT !.id = IF @ = 0 THEN 1 ELSE @]

Unresolved(plan) == {s \in DOMAIN plan.facts : \/ plan.facts[s].collisions # Empty
                                               \/ plan.facts[s].assignment = None}
Assigned(plan, a) == {s \in DOMAIN plan.facts : plan.facts[s].assignment = a}

Resolve(entry, keep) ==
    IF keep = entry.origin THEN [entry EXCEPT !.collisions = Empty]
    ELSE IF keep \notin DOMAIN entry.collisions THEN entry
    ELSE [entry EXCEPT !.origin = keep, !.sha = entry.collisions[keep],
                       !.collisions = [o \in DOMAIN @ \ {keep} |-> @[o]]]

\* What a review can make of the entry of a stem; it may assign a stem without a source.
Reviews(plan, s) ==
    LET entry == IF s \in DOMAIN plan.facts THEN plan.facts[s] ELSE NewEntry
    IN  {[entry EXCEPT !.assignment = a] : a \in {"named", "excluded"}}
        \cup {Resolve(plan.facts[s], keep) : keep \in IF entry = NewEntry THEN {} ELSE Origin}

MigrateBegin(x, state) ==
    /\ operator[x] = NoStage
    /\ operator' = [operator EXCEPT ![x] = state]
    /\ UNCHANGED <<source, domain, planFile, rollbackFile, migrated, mode, applies, edits, before>>
MigrateEnd(x) == operator' = [operator EXCEPT ![x] = NoStage]

WithEntry(facts, s, entry) == [r \in DOMAIN facts \cup {s} |-> IF r = s THEN entry ELSE facts[r]]

\* inventory, assign, exclude, resolve-collision
Review(x) ==
    LET plan == Loaded
    IN  \/ MigrateBegin(x, [cmd |-> "review", plan |-> plan])
        \/ \E s \in Legacy : \E entry \in Reviews(plan, s) :
              MigrateBegin(x, [cmd |-> "review",
                               plan |-> [plan EXCEPT !.facts = WithEntry(plan.facts, s, entry)]])

\* _save_migrate_plan, after a review and at the end of finalize.
Save(x) ==
    /\ operator[x].cmd = "review"
    /\ planFile' = operator[x].plan
    /\ MigrateEnd(x)
    /\ UNCHANGED <<source, domain, rollbackFile, migrated, mode, applies, edits, before>>

---------------------------------------------------------------------------
(* apply                                                                   *)

ApplyBegin(x) ==
    LET plan == Loaded
    IN  /\ Unresolved(plan) = {}
        /\ ~plan.finalized /\ mode # "enforced"
        /\ ~plan.applied
        /\ \A s \in Assigned(plan, "named") :
              plan.facts[s].origin # None /\ source[plan.facts[s].origin][s] # None
        /\ MigrateBegin(x, [cmd |-> "apply", plan |-> plan])

\* expected_revisions: the source still has the text that was reviewed.
Reviewed(plan, s) == source[plan.facts[s].origin][s] = plan.facts[s].sha

\* Whether mutate and transact go through with it.
Appliable(plan, onExisting, resurrect) ==
    \A s \in Assigned(plan, "named") :
        /\ factRow[s] = "forgotten" => resurrect
        /\ canonical[s] # NoCanonical => onExisting # None
        /\ canonical[s] = NoCanonical \/ onExisting = "replace-with-migrated" => Reviewed(plan, s)

Copied(plan, onExisting) ==
    {s \in Assigned(plan, "named") : canonical[s] = NoCanonical \/ onExisting = "replace-with-migrated"}

\* Defect: the bytes that a copy replaces are not kept.
RollbackOfNew(S, kept) ==
    [copied |-> [s \in S |-> [new |-> canonical'[s], old |-> NoCanonical, row |-> factRow[s]]],
     catalogs |-> IF S \cup kept = {} THEN {} ELSE {[old |-> catalog, new |-> catalog']}]

RollbackOf(S, kept) ==
    [copied |-> [s \in S |-> [new |-> canonical'[s], old |-> canonical[s], row |-> factRow[s]]],
     catalogs |-> IF S \cup kept = {} THEN {} ELSE {[old |-> catalog, new |-> catalog']}]

Apply(x, onExisting, resurrect) ==
    LET plan == operator[x].plan
        S == Copied(plan, onExisting)
        kept == IF onExisting = "keep-existing" THEN Assigned(plan, "named") \ S ELSE {}
    IN  /\ operator[x].cmd = "apply" /\ applies < MaxApplies
        /\ Appliable(plan, onExisting, resurrect)
        /\ applies' = applies + 1
        /\ canonical' = [s \in Legacy |-> IF s \in S
                             THEN [by |-> "migrate", text |-> source[plan.facts[s].origin][s],
                                   at |-> applies']
                             ELSE canonical[s]]
        /\ factRow' = [s \in Legacy |-> IF s \in S \cup kept THEN "active" ELSE factRow[s]]
        /\ catalog' = IF S \cup kept = {} THEN catalog ELSE Live \cup S
        /\ rollbackFile' = RollbackOf(S, kept)
        /\ planFile' = [plan EXCEPT !.applied = TRUE]
        /\ migrated' = [id |-> plan.id,
                        facts |-> [s \in S \cup kept |-> canonical'[s]],
                        excluded |-> Assigned(plan, "excluded")
                                     \cup (Assigned(plan, "named") \ (S \cup kept))]
        /\ mode' = "dual-read"
        /\ before' = Append(before, [canonical |-> canonical, row |-> factRow])
        /\ MigrateEnd(x)
        /\ UNCHANGED <<source, edits>>

---------------------------------------------------------------------------
(* rollback                                                                *)

RollbackBegin(x) ==
    LET plan == Loaded
    IN  /\ ~plan.finalized /\ mode # "enforced"
        /\ rollbackFile # Empty
        /\ MigrateBegin(x, [cmd |-> "rollback", plan |-> plan, rb |-> rollbackFile])

\* _classify: each file is as the apply left it, or gone; one that is to be removed is
\* still there (expected_revisions).
Unconflicted(rb) ==
    /\ \A s \in DOMAIN rb.copied : \/ canonical[s] = rb.copied[s].new
                                   \/ canonical[s] = NoCanonical /\ rb.copied[s].old # NoCanonical
    /\ \A c \in rb.catalogs : \/ catalog = c.new
                              \/ catalog = NoCatalog /\ c.old # NoCatalog

Rollback(x) ==
    LET rb == operator[x].rb
        S == DOMAIN rb.copied
    IN  /\ operator[x].cmd = "rollback"
        /\ Unconflicted(rb)
        /\ canonical' = [s \in Legacy |-> IF s \in S THEN rb.copied[s].old ELSE canonical[s]]
        /\ factRow' = [s \in Legacy |-> IF s \notin S THEN factRow[s]
                                      ELSE IF rb.copied[s].old = NoCanonical THEN None
                                      ELSE rb.copied[s].row]
        /\ catalog' = IF rb.catalogs = {} THEN catalog
                      ELSE (CHOOSE c \in rb.catalogs : TRUE).old
        /\ planFile' = [operator[x].plan EXCEPT !.applied = FALSE]
        /\ mode' = "dual-read"
        /\ MigrateEnd(x)
        /\ UNCHANGED <<source, rollbackFile, migrated, applies, edits, before>>

---------------------------------------------------------------------------
(* finalize                                                                *)

\* All of it is read without a lock.
Finalizable(plan) ==
    /\ Unresolved(plan) = {} /\ plan.applied
    /\ migrated.id = plan.id
    /\ Assigned(plan, "excluded") \subseteq migrated.excluded
    /\ \A s \in Assigned(plan, "named") :
          /\ s \in DOMAIN migrated.facts /\ canonical[s] = migrated.facts[s]
          /\ factRow[s] = "active" /\ s \in catalog
    /\ rollbackFile # Empty =>
          /\ \A s \in DOMAIN rollbackFile.copied : canonical[s] = rollbackFile.copied[s].new
          /\ \A c \in rollbackFile.catalogs : catalog = c.new

FinalizeBegin(x) ==
    /\ Finalizable(Loaded)
    /\ MigrateBegin(x, [cmd |-> "finalize", plan |-> Loaded])

Finalize(x) ==
    /\ operator[x].cmd = "finalize"
    /\ mode' = "enforced"
    /\ rollbackFile' = Empty
    /\ operator' = [operator EXCEPT ![x] =
                        [cmd |-> "review", plan |-> [operator[x].plan EXCEPT !.finalized = TRUE]]]
    /\ UNCHANGED <<source, domain, planFile, migrated, applies, edits, before>>

\* A command that is refused, or dies, has written nothing.
Stop(x) ==
    /\ operator[x] # NoStage
    /\ MigrateEnd(x)
    /\ UNCHANGED <<source, domain, planFile, rollbackFile, migrated, mode, applies, edits, before>>

---------------------------------------------------------------------------
(* The others.                                                             *)

DomainEdit == edits < MaxEdits /\ edits' = edits + 1

EditSource(o, s, text) ==
    /\ DomainEdit
    /\ source' = [source EXCEPT ![o][s] = text]
    /\ UNCHANGED <<domain, planFile, rollbackFile, migrated, mode, operator, applies, before>>

\* canonical upsert and forget: each with the row and the catalog.
UpsertCanonical(s, text) ==
    /\ DomainEdit
    /\ canonical' = [canonical EXCEPT ![s] = [by |-> "user", text |-> text]]
    /\ factRow' = [factRow EXCEPT ![s] = "active"]
    /\ catalog' = Live \cup {s}
    /\ UNCHANGED <<source, planFile, rollbackFile, migrated, mode, operator, applies, before>>

ForgetCanonical(s) ==
    /\ canonical[s] # NoCanonical
    /\ DomainEdit
    /\ canonical' = [canonical EXCEPT ![s] = NoCanonical]
    /\ factRow' = [factRow EXCEPT ![s] = "forgotten"]
    /\ catalog' = Live \ {s}
    /\ UNCHANGED <<source, planFile, rollbackFile, migrated, mode, operator, applies, before>>

MigrateInit ==
    /\ source \in [Origin -> [Legacy -> Wording \cup {None}]]
    /\ canonical = [s \in Legacy |-> NoCanonical]
    /\ factRow = [s \in Legacy |-> None]
    /\ catalog = NoCatalog
    /\ planFile = NoPlan
    /\ rollbackFile = Empty
    /\ migrated = [id |-> 0, facts |-> Empty, excluded |-> {}]
    /\ mode = "dual-read"
    /\ operator = [x \in Migrator |-> NoStage]
    /\ applies = 0 /\ edits = 0
    /\ before = << >>

MigrateNext ==
    \/ \E x \in Migrator :
          \/ Review(x) \/ Save(x) \/ ApplyBegin(x) \/ RollbackBegin(x) \/ Rollback(x)
          \/ FinalizeBegin(x) \/ Finalize(x) \/ Stop(x)
          \/ \E onExisting \in {None, "keep-existing", "exclude", "replace-with-migrated"} :
             \E resurrect \in BOOLEAN : Apply(x, onExisting, resurrect)
    \/ \E s \in Legacy :
          \/ ForgetCanonical(s)
          \/ \E text \in Wording : UpsertCanonical(s, text)
          \/ \E o \in Origin, text \in Wording \cup {None} : EditSource(o, s, text)

MigrateSpec == MigrateInit /\ [][MigrateNext]_migratevars

---------------------------------------------------------------------------
\* RollbackRestores: a rollback, whenever its file was read and whatever was applied,
\* rolled back, written or forgotten since, takes back what an apply wrote and nothing
\* else: a fact that is there and changes is again what the apply that wrote it had found, with
\* the row it had, and no text of a user is lost.
RollbackRestores ==
    [][\A x \in Migrator : Rollback(x) =>
          \A s \in Live : canonical'[s] # canonical[s] =>
             /\ canonical[s].by = "migrate"
             /\ LET found == before[canonical[s].at]
                IN  /\ canonical'[s] = found.canonical[s]
                    /\ canonical'[s] # NoCanonical => factRow'[s] = found.row[s]]_migratevars

=============================================================================
