---------------------------- MODULE EvictToReceive ----------------------------
(***************************************************************************)
(* The room of an always-loaded index: a pull plans which missing facts fit *)
(* under the ceiling, and with --evict it gives up a fact of the project's *)
(* own for them (sync_global.py run, _plan_pull, _execute_pull_writes).    *)
(*                                                                         *)
(* What is planned was read without a lock; the transact of the pull pins  *)
(* the index and the canonicals it is about to deliver, and looks at the   *)
(* evicted file once more.  The text of a fact is its pointer line, a line *)
(* is what it costs, and the costs of an index add up.                     *)
(***************************************************************************)
EXTENDS Integers, FiniteSets, Sequences, Functions

CONSTANTS
    Native, Global,    \* names of the store's own facts and of canonicals
    Order,             \* the canonicals in the order of their enumeration
    Puller,            \* sessions that pull
    Price,             \* what a pointer line may cost
    Ceiling,           \* INDEX_CEILING_TOKENS
    Cliff, MaxLines,   \* the limits of project_index
    NoEvict,
    MaxPulls, MaxTouches   \* bounds

Name == Native \cup Global

\* The ceiling is a smaller part of the native cap than what index_admission leaves of it.
ASSUME Room ==
    /\ IsFiniteSet(Name) /\ Native \cap Global = {} /\ NoEvict \notin Name
    /\ Order \in Seq(Global)
    /\ \A g \in Global : \E i \in DOMAIN Order : \A h \in DOMAIN Order : Order[h] = g <=> h = i
    /\ Price \subseteq Nat \ {0}
    /\ Ceiling \in Nat /\ Cliff \in Nat /\ MaxLines \in Nat /\ Ceiling <= Cliff
    /\ MaxPulls \in Nat /\ MaxTouches \in Nat

VARIABLES
    storeFile,   \* [Name -> absent, the user's own, revised by the user, a mirror, an edited one]
    pointer,     \* [Name -> the cost of its line in MEMORY.md, 0 without one]
    bodyLinks,   \* <<a, b>>: the body of a links to b
    hook,        \* [Global -> the pointer line its canonical gives]
    delivered,   \* [Global -> the one its mirror was written from]
    puller,      \* [Puller -> the pull it runs, with what it read]
    pulls, touches

evictvars == <<storeFile, pointer, bodyLinks, hook, delivered, puller, pulls, touches>>
disk == <<storeFile, pointer, bodyLinks, hook, delivered>>

Idle == [pc |-> "idle"]
IsOwn(f) == f \in {"own", "revised"}
Total(lines) == SumFunctionOnSet(lines, Name)
IndexAdmits(lines) == Total(lines) <= Cliff /\ Cardinality({n \in Name : lines[n] > 0}) <= MaxLines

EvictTypeOK ==
    /\ storeFile \in [Name -> {"none", "own", "revised", "mirror", "edited"}]
    /\ pointer \in [Name -> Price \cup {0}]
    /\ bodyLinks \subseteq Native \X Native
    /\ hook \in [Global -> Price] /\ delivered \in [Global -> Price \cup {0}]
    /\ \A s \in Puller : puller[s].pc \in {"idle", "planned", "pinned"}
    /\ pulls \in 0..MaxPulls /\ touches \in 0..MaxTouches

EvictInit ==
    /\ storeFile \in [Name -> {"none", "own", "mirror"}]
    /\ \A n \in Native : storeFile[n] = "own"
    /\ \A g \in Global : storeFile[g] # "own"
    /\ pointer \in [Name -> Price \cup {0}]
    /\ \A n \in Name : storeFile[n] = "none" => pointer[n] = 0
    /\ bodyLinks \in SUBSET (Native \X Native)
    /\ hook \in [Global -> Price]
    /\ delivered = [g \in Global |-> IF storeFile[g] = "mirror" THEN pointer[g] ELSE 0]
    /\ puller = [s \in Puller |-> Idle]
    /\ pulls = 0 /\ touches = 0

Seen == [file |-> storeFile, line |-> pointer, links |-> bodyLinks, hook |-> hook,
         text |-> delivered]

---------------------------------------------------------------------------
(* The plan.                                                               *)

MissingIn(n) == {g \in Global : n.file[g] = "none"}
StaleIn(n) == {g \in Global : n.file[g] = "mirror" /\ n.text[g] # n.hook[g]}

\* _would_net_grow
WouldNetGrow(running, cost, grow) == ~grow /\ running + cost > Ceiling

\* _plan_pull: a missing fact is pulled if it fits by then; a refresh always runs and
\* takes or gives what its line does.
PlanJob(n, grow, plan, g) ==
    LET delta == n.hook[g] - n.line[g]
    IN  IF g \in MissingIn(n) /\ ~WouldNetGrow(plan.idx, delta, grow)
        THEN [idx |-> plan.idx + delta, pull |-> plan.pull \cup {g}]
        ELSE IF g \in StaleIn(n) THEN [idx |-> plan.idx + delta, pull |-> plan.pull]
        ELSE plan

\* In the order of the enumeration.  (The fold is written out so that proofs can follow it.)
PlanPull(n, start, grow) ==
    LET plan[i \in 0..Len(Order)] ==
            IF i = 0 THEN [idx |-> start, pull |-> {}]
            ELSE PlanJob(n, grow, plan[i - 1], Order[i])
    IN  plan[Len(Order)]

\* _inbound_links
InboundLinks(n, e) == {a \in Native \ {e} : n.file[a] # "none" /\ <<a, e>> \in n.links}

\* Defect: what the eviction brings is compared as sets, not counted.
GainsOther(plan, replan) == replan.pull \ plan.pull # {}

Gains(plan, replan) == Cardinality(replan.pull) > Cardinality(plan.pull)

\* What --evict refuses before it plans anew, and the plan it approves.
Approved(n, e, grow) ==
    LET plan == PlanPull(n, Total(n.line), grow)
        replan == PlanPull(n, Total(n.line) - n.line[e], grow)
    IN  /\ IsOwn(n.file[e])
        /\ InboundLinks(n, e) = {}
        /\ MissingIn(n) \ plan.pull # {}
        /\ n.line[e] > 0
        /\ Gains(plan, replan)

PlanBegin(s, e, grow) ==
    /\ puller[s] = Idle
    /\ pulls < MaxPulls /\ pulls' = pulls + 1
    /\ e # NoEvict => Approved(Seen, e, grow)
    /\ LET freed == IF e = NoEvict THEN 0 ELSE pointer[e]
       IN  puller' = [puller EXCEPT ![s] =
               [pc |-> "planned", seen |-> Seen, evict |-> e, grow |-> grow,
                pull |-> PlanPull(Seen, Total(pointer) - freed, grow).pull]]
    /\ UNCHANGED <<disk, touches>>

---------------------------------------------------------------------------
(* _execute_pull_writes.                                                   *)

Jobs(m) == m.pull \cup StaleIn(m.seen)

\* The index, the mirrors it will write over and the canonicals; not the evicted file.
PullPin(s) ==
    /\ puller[s].pc = "planned"
    /\ puller' = [puller EXCEPT ![s] =
           [pc |-> "pinned", seen |-> @.seen, evict |-> @.evict, grow |-> @.grow,
            pull |-> @.pull, at |-> Seen]]
    /\ UNCHANGED <<disk, pulls, touches>>

\* transact: what was pinned has not moved.
PinsHold(m) ==
    /\ pointer = m.at.line
    /\ \A g \in Jobs(m) : /\ hook[g] = m.at.hook[g]
                          /\ m.at.file[g] # "none" =>
                                storeFile[g] = m.at.file[g] /\ delivered[g] = m.at.text[g]

\* The index with every job in it must be admitted, or an eviction is refused.
Evictable(m) ==
    /\ IsOwn(storeFile[m.evict])
    /\ IndexAdmits([n \in Name |-> IF n = m.evict THEN 0
                                ELSE IF n \in Jobs(m) THEN m.seen.hook[n] ELSE pointer[n]])

\* A missing fact that has come meanwhile is left alone, one that the index does not
\* admit does not land; a mirror that is still unedited is refreshed, with its line or not.
WriteJob(m, before, g) ==
    LET lines == [before.line EXCEPT ![g] = m.seen.hook[g]]
    IN  IF \/ g \in m.pull /\ storeFile[g] = "none" /\ IndexAdmits(lines)
           \/ g \in StaleIn(m.seen) /\ storeFile[g] = "mirror"
        THEN [line |-> IF IndexAdmits(lines) THEN lines ELSE before.line, put |-> before.put \cup {g}]
        ELSE before

Kept(m) == IF m.evict = NoEvict THEN pointer ELSE [pointer EXCEPT ![m.evict] = 0]

\* The jobs, one by one.
Written(m) ==
    LET after[i \in 0..Len(Order)] ==
            IF i = 0 THEN [line |-> Kept(m), put |-> {}] ELSE WriteJob(m, after[i - 1], Order[i])
    IN  after[Len(Order)]

WritePull(s) ==
    LET m == puller[s]
        result == Written(m)
    IN  /\ m.pc = "pinned"
        /\ IF PinsHold(m) /\ (m.evict # NoEvict => Evictable(m))
           THEN /\ storeFile' = [n \in Name |-> IF n = m.evict THEN "none"
                                           ELSE IF n \in result.put THEN "mirror" ELSE storeFile[n]]
                /\ pointer' = result.line
                /\ delivered' = [g \in Global |-> IF g \in result.put THEN m.seen.hook[g] ELSE delivered[g]]
           ELSE UNCHANGED <<storeFile, pointer, delivered>>
        /\ puller' = [puller EXCEPT ![s] = Idle]
        /\ UNCHANGED <<bodyLinks, hook, pulls, touches>>

PullCrash(s) ==
    /\ puller[s] # Idle
    /\ puller' = [puller EXCEPT ![s] = Idle]
    /\ UNCHANGED <<disk, pulls, touches>>

---------------------------------------------------------------------------
(* What others do meanwhile.                                               *)

Touch == touches < MaxTouches /\ touches' = touches + 1

\* A fact of the project's own is written, by hand or not, with the line it takes if any; or
\* it is revised.
WriteOwnFact(n, cost) ==
    /\ Touch
    /\ storeFile[n] = "none"
    /\ storeFile' = [storeFile EXCEPT ![n] = "own"]
    /\ pointer' = [pointer EXCEPT ![n] = cost]
    /\ UNCHANGED <<bodyLinks, hook, delivered, puller, pulls>>

Revise(n) ==
    /\ Touch
    /\ storeFile[n] \in {"own", "mirror"}
    /\ storeFile' = [storeFile EXCEPT ![n] = IF @ = "own" THEN "revised" ELSE "edited"]
    /\ UNCHANGED <<pointer, bodyLinks, hook, delivered, puller, pulls>>

Link(a, b) ==
    /\ Touch
    /\ bodyLinks' = bodyLinks \cup {<<a, b>>} /\ bodyLinks' # bodyLinks
    /\ UNCHANGED <<storeFile, pointer, hook, delivered, puller, pulls>>

\* A new description of a canonical.
Describe(g, cost) ==
    /\ Touch
    /\ hook' = [hook EXCEPT ![g] = cost] /\ hook' # hook
    /\ UNCHANGED <<storeFile, pointer, bodyLinks, delivered, puller, pulls>>

Meanwhile ==
    \/ \E n \in Name : Revise(n) \/ \E cost \in Price \cup {0} : WriteOwnFact(n, cost)
    \/ \E a, b \in Native : a # b /\ Link(a, b)
    \/ \E g \in Global, cost \in Price : Describe(g, cost)

EvictNext ==
    \/ \E s \in Puller :
          \/ \E e \in Native \cup {NoEvict}, grow \in BOOLEAN : PlanBegin(s, e, grow)
          \/ PullPin(s) \/ WritePull(s) \/ PullCrash(s)
    \/ Meanwhile

EvictSpec == EvictInit /\ [][EvictNext]_evictvars

---------------------------------------------------------------------------
CommitsUndisturbed(s) ==
    /\ puller[s].pc = "pinned" /\ puller'[s] = Idle /\ disk' # disk
    /\ puller[s].seen = Seen /\ ~puller[s].grow
Landed == {g \in Global : storeFile[g] = "none" /\ storeFile'[g] = "mirror"}

\* The index when it is the turn of g, without the line of g and those of gone.
Turn(g) == CHOOSE i \in DOMAIN Order : Order[i] = g
RunningAt(g, planned, gone) ==
    Total([n \in Name |->
              IF n \in gone \cup {g} THEN 0
              ELSE IF n \in Global /\ n \in planned \cup StaleIn(Seen) /\ Turn(n) < Turn(g) THEN hook[n]
              ELSE pointer[n]])

\* planned is what has room under the ceiling, fact by fact.
Fits(planned, gone) ==
    \A g \in MissingIn(Seen) :
        g \in planned <=> RunningAt(g, planned, gone) + hook[g] <= Ceiling

\* The index that an eviction leaves.
Without(gone) == [n \in Name |-> IF n \in gone THEN 0 ELSE pointer[n]]

\* The index with the line of g, as the jobs before it have left it.
IndexWith(g, gone) ==
    [n \in Name |-> IF n \in gone THEN 0
                    ELSE IF n = g THEN hook[g]
                    ELSE IF n \in Global /\ Turn(n) < Turn(g) THEN pointer'[n]
                    ELSE pointer[n]]

(* A pull that nobody disturbs lands the facts that have room under the ceiling at their *)
(* turn, but for those the limits of the index refuse by then, and no other; and it gives *)
(* up a fact of the project's own only one that no other fact links to, and, where the   *)
(* index without it is within its limits, for strictly more facts than have room without *)
(* (sync_global.py 1765-1795, 2438-2500).                                                *)
EvictPays ==
    [][\A s \in Puller :
         CommitsUndisturbed(s) =>
            LET gone == {n \in Native : storeFile[n] # "none" /\ storeFile'[n] = "none"} IN
            /\ \E planned \in SUBSET MissingIn(Seen) :
                  /\ Fits(planned, gone)
                  /\ Landed = {g \in planned : IndexAdmits(IndexWith(g, gone))}
            /\ gone # {} =>
                 /\ IndexAdmits(Without(gone)) =>
                      \A planned \in SUBSET MissingIn(Seen) :
                         Fits(planned, {}) => Cardinality(planned) < Cardinality(Landed)
                 /\ \A e \in gone : IsOwn(storeFile[e]) /\ InboundLinks(Seen, e) = {}]_evictvars

\* Not so in the code: a fact that was revised, or that another one has begun to link to,
\* since the eviction was approved is evicted all the same; and a fact that has come under
\* the name of one that was to land leaves the eviction without its gain.
EvictedAsApproved ==
    [][\A s \in Puller, n \in Native :
         puller[s].pc = "pinned" /\ storeFile[n] # "none" /\ storeFile'[n] = "none" =>
            /\ storeFile[n] = puller[s].seen.file[n]
            /\ InboundLinks(Seen, n) = {}
            /\ Landed = puller[s].pull]_evictvars
===============================================================================
