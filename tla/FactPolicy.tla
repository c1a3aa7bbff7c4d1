----------------------------- MODULE FactPolicy -----------------------------
(***************************************************************************)
(* The pure decisions the sync commands share: what a mirror has become    *)
(* (mirror_conflict.py), who may receive a fact (domain_policy.py, ADR     *)
(* 008), whether a fact applies to a project (fact_schema.py, ADR 011),    *)
(* which links a fact may carry and what class a canonical has.  Text is   *)
(* reduced to its semantic revision and its body.                          *)
(***************************************************************************)
EXTENDS Naturals, FiniteSets

CONSTANT None      \* no revision, no group, no domain

Actions == {"refresh", "restamp", "stop-local", "conflict", "quarantine"}
Diverged == {"stop-local", "conflict", "quarantine"}
Inactive == {"tombstoned", "superseded", "expired"}

(***************************************************************************)
(* classify_mirror.  mirror: empty, sem, body, refBody (global_ref_body    *)
(* stamp), stampBase (its own base_revision stamp); canonical: sem, body;  *)
(* base: the holder row's base revision.  A mirror's bytes never equal its *)
(* canonical's (the stamps differ), so equal semantics is "restamp".       *)
(***************************************************************************)
ByRevision(local, canon, base) ==
    IF local = base /\ canon # base THEN "refresh"
    ELSE IF local # base /\ canon = base THEN "stop-local"
    ELSE "conflict"

ByBody(local, canon, ref) ==
    IF ref = None
    THEN IF local = canon THEN "refresh" ELSE "quarantine"
    ELSE IF local = ref THEN "refresh"
    ELSE IF canon = ref THEN "stop-local"
    ELSE IF local # canon THEN "conflict" ELSE "restamp"

ClassifyMirror(mirror, canonical, holderBase, legacy) ==
    LET base == IF holderBase = None /\ legacy THEN mirror.stampBase ELSE holderBase
    IN  IF (base = None /\ ~legacy) \/ mirror.empty THEN "quarantine"
        ELSE IF mirror.sem = canonical.sem THEN "restamp"
        ELSE IF base # None THEN ByRevision(mirror.sem, canonical.sem, base)
        ELSE ByBody(mirror.body, canonical.body, mirror.refBody)

(***************************************************************************)
(* admit_cross_project: fact carries secretShaped, sensitivity, domain     *)
(* (None when untagged) and recipients; a project has a domain ("unknown"  *)
(* is unenrolled) and its group memberships.                               *)
(***************************************************************************)
AdmitCrossProject(projectDomain, memberships, fact) ==
    /\ fact.sensitivity # "secret"
    /\ ~fact.secretShaped
    /\ projectDomain # "unknown"
    /\ IF fact.recipients # {}
       THEN fact.recipients \cap memberships # {}
       ELSE fact.domain # None /\ fact.domain = projectDomain

\* _recipients_stale_for: every group the fact reaches this member through was
\* created after the fact was written (stamp 0 is a fact without a stamp).
RecipientsStale(fact, memberships, created) ==
    LET reach == fact.recipients \cap memberships
    IN  reach # {} /\ fact.stamp # 0 /\ \A g \in reach : created[g] > fact.stamp

\* is_relevant: scope and stacks only.
IsRelevant(fact, tags) ==
    \/ fact.scope = "user-global"
    \/ fact.scope = "stack-general" /\ fact.stacks \cap tags # {}

Gated(applies) == applies.any \cup applies.all \cup applies.exclude # {}

\* applies_decision: degraded capability detection never matches a gated fact.
AppliesDecision(applies, caps, degraded) ==
    IF applies.error \/ (degraded /\ Gated(applies)) THEN "unknown"
    ELSE IF \/ applies.exclude \cap caps # {}
            \/ ~(applies.all \subseteq caps)
            \/ applies.any # {} /\ applies.any \cap caps = {}
         THEN "no-match"
         ELSE "match"

\* The relevance run() computes: the capability gate overrides the stacks both ways.
RelevantToPull(fact, tags, degraded) ==
    LET decision == AppliesDecision(fact.applies, tags, degraded)
    IN  /\ decision = "match"
        /\ \/ IsRelevant(fact, tags)
           \/ fact.scope = "stack-general" /\ Gated(fact.applies)

\* What --pull delivers, and what --gc reclaims from a live canonical
\* (_classify_frozen): the reason, or None when there is nothing to reclaim.
Delivers(project, fact) ==
    /\ AdmitCrossProject(project.domain, project.groups, fact)
    /\ ~RecipientsStale(fact, project.groups, project.created)
    /\ RelevantToPull(fact, project.stacks \cup project.capabilities, project.degraded)

FrozenReason(project, fact) ==
    CASE RecipientsStale(fact, project.groups, project.created) -> "guard-stale"
      [] ~AdmitCrossProject(project.domain, project.groups, fact) -> "not-entitled"
      [] ~IsRelevant(fact, project.stacks) -> "dropped-stack"
      [] OTHER -> None

(***************************************************************************)
(* classify_canonical and the links a writer accepts.                      *)
(***************************************************************************)
CanonicalClass(file) ==
    CASE ~file.versioned -> "legacy"
      [] file.versioned /\ ~file.valid -> "invalid"
      [] file.versioned /\ file.valid /\ file.status # "active" -> "inactive"
      [] OTHER -> "active"

ScopeRank == [scope \in {"project-local", "stack-general", "user-global"} |->
                CASE scope = "project-local" -> 0
                  [] scope = "stack-general" -> 1
                  [] OTHER -> 2]

\* link_allowed, validate_links: a wider fact never requires a narrower one, and a
\* shared fact links only to active canonicals.
LinkAllowed(source, target) == ScopeRank[source] <= ScopeRank[target]

ValidLinks(scope, targets, store) ==
    \A t \in targets :
        IF t \in DOMAIN store
        THEN CanonicalClass(store[t]) = "active" /\ LinkAllowed(scope, store[t].scope)
        ELSE scope = "project-local"

\* The key of a mirror file: the bare stem at home, {domain}--{stem} abroad
\* (_mirror_key, decode_key); dashed: the names that contain "--".
MirrorKey(home, domain, stem, dashed) ==
    IF domain = home THEN <<stem>>
    ELSE IF {domain, stem} \cap dashed # {} THEN None
    ELSE <<domain, stem>>

=============================================================================
