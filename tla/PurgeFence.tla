----------------------------- MODULE PurgeFence -----------------------------
(***************************************************************************)
(* The purge of all plugin data (cm data purge --scope all-plugin-data;    *)
(* cm_ops.py): the mirrors are revoked in a transaction, then the plugin   *)
(* data, with the journal in it, and the canonicals are removed.  What has *)
(* been done is in a fence file outside of both, from which a purge that   *)
(* stopped is resumed.  Sessions go on working in between: they enrol,     *)
(* which creates a registry where there is none, pull and write.           *)
(*                                                                         *)
(* A transaction is one step, as AtomicTx promises.  One purge runs at a   *)
(* time; each may stop at any of its steps.                                *)
(***************************************************************************)
EXTENDS Naturals, FiniteSets

CONSTANTS Project, Domain, MaxPurges, MaxEnrols

Unknown == "unknown"
Stopped == [pc |-> "stopped"]

\* The states of a fence; a purge goes through them in this order.
Stage == <<"planned", "mirrors-revoked", "plugin-data-deleting",
           "canonical-data-deleting", "verified", "complete">>

VARIABLES
    registry,    \* control.sqlite exists
    files,       \* plugin data beside it: the journal, locks, logs
    status,      \* of the domains, in the registry
    member,      \* the domain each project is enrolled in, in the registry
    canonicals,  \* the domains that have facts
    mirrors,     \* the projects whose native store has managed mirrors
    fence,       \* the state in the fence file
    run,         \* the purge that runs: what it read, and its copy of the fence
    purges, enrols,
    late         \* history: projects enrolled since the last purge listed them

purgevars == <<registry, files, status, member, canonicals, mirrors, fence, run,
               purges, enrols, late>>
purgedisk == <<registry, files, status, member, canonicals, mirrors>>

PurgeTypeOK ==
    /\ registry \in BOOLEAN /\ files \in BOOLEAN
    /\ status \in [Domain -> {"active", "deleting", "deleted"}]
    /\ member \in [Project -> Domain \cup {Unknown}]
    /\ ~registry => \A p \in Project : member[p] = Unknown
    /\ canonicals \subseteq Domain /\ mirrors \subseteq Project
    /\ \E i \in DOMAIN Stage : fence = Stage[i]
    /\ late \subseteq Project

NoRegistry == /\ registry' = FALSE
              /\ member' = [p \in Project |-> Unknown]
              /\ status' = [d \in Domain |-> "active"]

---------------------------------------------------------------------------
(* The purge.                                                              *)

Enrolled == {p \in Project : member[p] # Unknown}
Domains(rows) == {member[p] : p \in rows} \ {Unknown}

\* cm data purge: the projects are listed without a lock; a fence that is incomplete is
\* resumed, and only without one are the domains marked first.
StartPurge ==
    /\ run = Stopped /\ purges < MaxPurges
    /\ purges' = purges + 1
    /\ run' = [pc |-> IF fence = "complete" THEN "mark" ELSE fence,
               rows |-> Enrolled, domains |-> Domains(Enrolled)]
    /\ late' = IF fence \in {"complete", "planned"} THEN late \ Enrolled ELSE late
    /\ UNCHANGED <<purgedisk, fence, enrols>>

PurgeAt(stage) == run.pc = stage
Go(stage) == run' = [run EXCEPT !.pc = stage]
Fence(stage) == fence' = stage /\ Go(stage)

Mark ==
    /\ PurgeAt("mark")
    /\ status' = [d \in Domain |-> IF d \in run.domains THEN "deleting" ELSE status[d]]
    /\ Go("fence")
    /\ UNCHANGED <<registry, files, member, canonicals, mirrors, fence, purges, enrols, late>>

\* Defect: the fence is ahead of the transaction.
WriteFenceAhead ==
    /\ PurgeAt("fence")
    /\ fence' = "mirrors-revoked" /\ Go("planned")
    /\ UNCHANGED <<purgedisk, purges, enrols, late>>

WriteFence ==
    /\ PurgeAt("fence")
    /\ Fence("planned")
    /\ UNCHANGED <<purgedisk, purges, enrols, late>>

\* The transaction purge-all-plugin-data, where there is a registry.
Revoke ==
    /\ PurgeAt("planned")
    /\ Go("revoked")
    /\ IF registry
       THEN /\ mirrors' = mirrors \ run.rows
            /\ member' = [p \in Project |-> IF p \in run.rows THEN Unknown ELSE member[p]]
            /\ status' = [d \in Domain |-> IF d \in run.domains THEN "deleted" ELSE status[d]]
       ELSE UNCHANGED <<mirrors, member, status>>
    /\ UNCHANGED <<registry, files, canonicals, fence, purges, enrols, late>>

MarkRevoked ==
    /\ PurgeAt("revoked")
    /\ Fence("mirrors-revoked")
    /\ UNCHANGED <<purgedisk, purges, enrols, late>>

MarkDeleting ==
    /\ PurgeAt("mirrors-revoked")
    /\ Fence("plugin-data-deleting")
    /\ UNCHANGED <<purgedisk, purges, enrols, late>>

\* _rmtree_target, in the order it finds the files: it may get no further than some.
RemovePluginData ==
    /\ PurgeAt("plugin-data-deleting")
    /\ \/ /\ files' = FALSE
          /\ NoRegistry
          /\ Go("deleted")
       \/ /\ files' \in {files, FALSE}
          /\ \/ NoRegistry
             \/ UNCHANGED <<registry, member, status>>
          /\ registry' \/ files'
          /\ run' = Stopped
    /\ UNCHANGED <<canonicals, mirrors, fence, purges, enrols, late>>

MarkDeleted ==
    /\ PurgeAt("deleted")
    /\ Fence("canonical-data-deleting")
    /\ UNCHANGED <<purgedisk, purges, enrols, late>>

RemoveCanonicals ==
    /\ PurgeAt("canonical-data-deleting")
    /\ \/ canonicals' = {} /\ Fence("verified")
       \/ canonicals' \in SUBSET canonicals \ {{}} /\ run' = Stopped /\ UNCHANGED fence
    /\ UNCHANGED <<registry, files, status, member, mirrors, purges, enrols, late>>

\* What came back in the meantime is reported, and the purge is not complete.
Verify ==
    /\ PurgeAt("verified")
    /\ fence' = IF registry \/ files \/ canonicals # {} THEN fence ELSE "complete"
    /\ run' = Stopped
    /\ UNCHANGED <<purgedisk, purges, enrols, late>>

\* The process is killed, or a step of it is refused.
Die ==
    /\ run # Stopped
    /\ run' = Stopped
    /\ UNCHANGED <<purgedisk, fence, purges, enrols, late>>

---------------------------------------------------------------------------
(* The sessions.                                                           *)

\* cm project enroll; connect creates the registry.
Enrol(p, d) ==
    /\ enrols < MaxEnrols
    /\ enrols' = enrols + 1
    /\ member[p] = Unknown /\ status[d] = "active"
    /\ registry' = TRUE /\ files' = TRUE
    /\ member' = [member EXCEPT ![p] = d]
    /\ late' = late \cup {p}
    /\ UNCHANGED <<status, canonicals, mirrors, fence, run, purges>>

WriteFact(p) ==
    /\ member[p] # Unknown /\ status[member[p]] = "active"
    /\ canonicals' = canonicals \cup {member[p]}
    /\ UNCHANGED <<registry, files, status, member, mirrors, fence, run, purges, enrols, late>>

Pull(p) ==
    /\ member[p] \in canonicals /\ status[member[p]] = "active"
    /\ mirrors' = mirrors \cup {p}
    /\ UNCHANGED <<registry, files, status, member, canonicals, fence, run, purges, enrols, late>>

PurgeInit ==
    /\ registry = TRUE /\ files = TRUE
    /\ status = [d \in Domain |-> "active"]
    /\ member \in [Project -> Domain \cup {Unknown}]
    /\ canonicals = {} /\ mirrors = {}
    /\ fence = "complete" /\ run = Stopped
    /\ purges = 0 /\ enrols = 0 /\ late = {}

Purge ==
    \/ StartPurge \/ Mark \/ WriteFence \/ Revoke \/ MarkRevoked \/ MarkDeleting
    \/ RemovePluginData \/ MarkDeleted \/ RemoveCanonicals \/ Verify \/ Die

PurgeNext ==
    \/ Purge
    \/ \E p \in Project : WriteFact(p) \/ Pull(p) \/ \E d \in Domain : Enrol(p, d)

PurgeSpec == PurgeInit /\ [][PurgeNext]_purgevars

---------------------------------------------------------------------------
\* NoMirrorOutlivesRegistry: when the registry is gone, and with it all that is known of
\* who holds what, no project still has managed mirrors, wherever the purge stopped and
\* was resumed; a project that enrolled after the purge had listed them excepted.
NoMirrorOutlivesRegistry == ~registry => mirrors \subseteq late

=============================================================================
