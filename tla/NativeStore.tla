----------------------------- MODULE NativeStore -----------------------------
(***************************************************************************)
(* The native store of one project: its own facts, the always-loaded index *)
(* MEMORY.md and the archive SHIPPED.md, as cm local writes them           *)
(* (local_ingress.py, index_admission.py).                                 *)
(*                                                                         *)
(* Every command reads first and writes later, in one transact that        *)
(* verifies the revisions it pinned; sessions and the user's editor act in *)
(* between.  An index line is the stems it links, in order, and the cue it *)
(* shows; a line that links several is a hand edit.                        *)
(***************************************************************************)
EXTENDS Naturals, FiniteSets, Sequences

CONSTANTS
    Stem, Session,
    Desc,        \* descriptions a fact may carry
    Lines,       \* lines of MEMORY.md the admission accepts (200 lines, 25 KB)
    MaxLocal     \* bound on the commands and edits of a behaviour

ASSUME LocalAssumption == MaxLocal \in Nat

NoFact == [kind |-> "none"]
MirrorFact == [kind |-> "mirror"]
Broken == [kind |-> "broken"]       \* listed, but nothing is read: a dangling symlink
Garbled == [kind |-> "garbled"]     \* not decodable
\* body: valid; refused by the firewall alone, under a clean description; invalid.
OwnFact(body, d) == [kind |-> "own", body |-> body, desc |-> d]
Fact == {NoFact, MirrorFact, Broken, Garbled}
        \cup [kind : {"own"}, body : {"valid", "refused", "invalid"}, desc : Desc]

\* A cue is derived from a description, tightened by hand to a prefix of one, or
\* neither: a title of the user's, the cue of a mirror, a second link.
Odd == [shape |-> "odd"]
Cue == [of : Desc, shape : {"derived", "tight"}] \cup {Odd}
Line == [links : {<<s>> : s \in Stem}, cue : Cue]
        \cup [links : {<<s, t>> : s, t \in Stem}, cue : {Odd}]

VARIABLES
    fact,        \* [Stem -> the file of the native store]
    index,       \* the lines of MEMORY.md
    archive,     \* the archive docs: readable, and the stems their pointer lines place
    command,     \* [Session -> the command it runs, with what it read]
    localOps

storevars == <<fact, index, archive>>
localvars == <<fact, index, archive, command, localOps>>

NoCommand == [op |-> "none"]
\* The arguments of a command; with them, all it can have read.
Upserting(s, d) ==
    [op |-> "upsert", stem |-> s, desc |-> d, fact |-> fact, index |-> index, archive |-> archive]
Removing(op, s) ==
    [op |-> op, stem |-> s, fact |-> fact, index |-> index, archive |-> archive]
Rebuilding(skip) ==
    [op |-> "rebuild", skip |-> skip, fact |-> fact, index |-> index, archive |-> archive]

LocalTypeOK ==
    /\ fact \in [Stem -> Fact]
    /\ index \subseteq Line
    /\ archive \in [readable : BOOLEAN, placed : SUBSET Stem]
    /\ \A c \in Session : command[c].op \in {"none", "upsert", "forget", "archive", "rebuild"}
    /\ localOps \in 0..MaxLocal

---------------------------------------------------------------------------
(* Readers of the index.                                                   *)

Links(line) == {line.links[i] : i \in DOMAIN line.links}
\* existing_ptrs: any link of any line.
Named(lines) == UNION {Links(l) : l \in lines}
\* _drop_pointer_lines looks at the first link of a line only.
DropPointerLines(lines, s) == {l \in lines : l.links[1] # s}
Admitted(lines) == Cardinality(lines) <= Lines

\* Defect: a cue whose description did not move is kept, current or not.
CueIsCurrentNaive(cue, d) == TRUE

CueIsCurrent(cue, d) == cue.shape # "odd" /\ cue.of = d

PointerLine(s, d) == [links |-> <<s>>, cue |-> [of |-> d, shape |-> "derived"]]
MirrorLine(s) == [links |-> <<s>>, cue |-> Odd]

\* _pointer_or_stored: a hand-tightened cue survives a write that does not move the
\* description, if the constructor could have written it from that description.
PointerOrStored(lines, s, before, d) ==
    LET stored == {l \in lines : l.links[1] = s}
        kept == {l \in stored : CueIsCurrent(l.cue, d)}
    IN  IF before = d /\ stored # {} /\ kept = stored THEN stored
        ELSE IF before = d THEN kept \cup {PointerLine(s, d)}
        ELSE {PointerLine(s, d)}

\* apply_pointer: the line that links s, wherever in it, gives way to the new one.
ApplyPointer(lines, line, s) ==
    LET old == {l \in lines : s \in Links(l)}
    IN  IF old = {} THEN {lines \cup {line}}
        ELSE {(lines \ {l}) \cup {line} : l \in old}

\* Defect: an unreadable archive counts as one that places nothing.
DeclinedUnlessReadable(m) ==
    /\ m.stem \notin Named(m.index)
    /\ m.archive.readable /\ m.stem \in m.archive.placed

\* _placement_decline: an archived placement, or an archive nobody could read, is not
\* undone by an edit of the body.
Declined(m) ==
    /\ m.stem \notin Named(m.index)
    /\ m.archive.readable => m.stem \in m.archive.placed

---------------------------------------------------------------------------
(* cm local upsert, forget, archive                                        *)

LocalBegin(c, m) ==
    /\ command[c] = NoCommand
    /\ localOps < MaxLocal
    /\ localOps' = localOps + 1
    /\ command' = [command EXCEPT ![c] = m]
    /\ UNCHANGED storevars

OwnFile(f) == f.kind \in {"own", "garbled"}

UpsertBegin(c, s, d, createOnly) ==
    /\ fact[s].kind \notin {"mirror", "broken"}
    /\ createOnly => fact[s] = NoFact
    /\ LocalBegin(c, Upserting(s, d))

ForgetBegin(c, s) == OwnFile(fact[s]) /\ LocalBegin(c, Removing("forget", s))

\* The firewall refuses to relocate a body it would not admit.
ArchiveBegin(c, s) ==
    /\ fact[s].kind = "own" /\ fact[s].body = "valid"
    /\ archive.readable
    /\ LocalBegin(c, Removing("archive", s))

\* The revisions a command pins: its fact and the index.
Pinned(m) == fact[m.stem] = m.fact[m.stem] /\ index = m.index

LocalEnd(c) == command' = [command EXCEPT ![c] = NoCommand] /\ UNCHANGED localOps

UpsertCommit(c) ==
    LET m == command[c]
        old == m.fact[m.stem]
        before == IF old.kind = "own" THEN old.desc ELSE NoFact
    IN  /\ m.op = "upsert" /\ Pinned(m)
        /\ fact' = [fact EXCEPT ![m.stem] = OwnFact("valid", m.desc)]
        /\ IF Declined(m)
           THEN index' = index
           ELSE \E line \in PointerOrStored(index, m.stem, before, m.desc) :
                  /\ index' \in ApplyPointer(index, line, m.stem)
                  /\ Admitted(index')
        /\ LocalEnd(c)
        /\ UNCHANGED archive

ForgetCommit(c) ==
    LET m == command[c]
    IN  /\ m.op = "forget" /\ Pinned(m)
        /\ fact' = [fact EXCEPT ![m.stem] = NoFact]
        /\ index' = DropPointerLines(index, m.stem)
        /\ LocalEnd(c)
        /\ UNCHANGED archive

ArchiveCommit(c) ==
    LET m == command[c]
    IN  /\ m.op = "archive" /\ Pinned(m) /\ archive = m.archive
        /\ index' = DropPointerLines(index, m.stem)
        /\ Admitted(index')
        /\ archive' = [archive EXCEPT !.placed = @ \cup {m.stem}]
        /\ LocalEnd(c)
        /\ UNCHANGED fact

---------------------------------------------------------------------------
(* cm local rebuild-index: the plan, and its application.                  *)

Archived(m) == IF m.archive.readable THEN m.archive.placed \ Named(m.index) ELSE {}

Unreadable(m) == {s \in Stem : m.fact[s].kind = "garbled"}
AbsentFiles(m) == {s \in Stem : m.fact[s].kind = "broken"}
Invalid(m) ==
    {s \in Stem \ Archived(m) : m.fact[s].kind = "own" /\ m.fact[s].body = "invalid"}
Unevaluated(m) == Unreadable(m) \cup AbsentFiles(m) \cup Invalid(m)
\* A body only the firewall refuses still has its cue: it comes from the description.
Included(m) ==
    {s \in Stem \ Archived(m) : m.fact[s].kind = "own" /\ m.fact[s].body # "invalid"}
Mirrors(m) == {s \in Stem \ Archived(m) : m.fact[s].kind = "mirror"}

Blocked(m) == ~m.skip /\ (Unreadable(m) \cup Invalid(m) # {} \/ ~m.archive.readable)

\* Defect: a line is carried for its first link only.
CarriedFirst(m) == {l \in m.index : l.links[1] \in Unevaluated(m)}

\* The lines of facts the plan could not evaluate, verbatim.
Carried(m) == {l \in m.index : Links(l) \cap Unevaluated(m) # {}}

Derived(m) ==
    {line \in [Included(m) -> m.index \cup {PointerLine(s, d) : s \in Stem, d \in Desc}] :
        \A s \in Included(m) : line[s] \in PointerOrStored(m.index, s, m.fact[s].desc, m.fact[s].desc)}

Future(m) ==
    {Carried(m) \cup {line[s] : s \in DOMAIN line \ Named(Carried(m))}
                \cup {MirrorLine(s) : s \in Mirrors(m) \ Named(Carried(m))} :
        line \in Derived(m)}

RebuildBegin(c, skip) ==
    /\ ~Blocked(Rebuilding(skip))
    /\ LocalBegin(c, Rebuilding(skip))

\* What the plan read is pinned: a file it did not see, and an archive that was not
\* readable, are not.
RebuildCommit(c) ==
    LET m == command[c]
    IN  /\ m.op = "rebuild"
        /\ index = m.index
        /\ \A s \in Stem : m.fact[s] # NoFact => fact[s] = m.fact[s]
        /\ m.archive.readable /\ m.archive.placed # {} => archive = m.archive
        /\ index' \in Future(m)
        /\ Admitted(index')
        /\ LocalEnd(c)
        /\ UNCHANGED <<fact, archive>>

\* The transact refuses: a revision has moved, or the index is full.
Refused(c) ==
    /\ command[c] # NoCommand
    /\ LocalEnd(c)
    /\ UNCHANGED storevars

---------------------------------------------------------------------------
(* The user's editor, and the sync commands that write mirrors.            *)

LocalEdit == localOps < MaxLocal /\ localOps' = localOps + 1 /\ UNCHANGED command

EditFact(s, f) ==
    /\ LocalEdit
    /\ fact[s] # f /\ fact' = [fact EXCEPT ![s] = f]
    /\ UNCHANGED <<index, archive>>

\* A line tightened, retitled, or merged with another one.
EditLine(old, new) ==
    /\ LocalEdit
    /\ old \in index /\ new \notin index
    /\ old.links[1] = new.links[1]
    /\ index' = {l \in index : l # old /\ Links(l) \cap Links(new) = {}} \cup {new}
    /\ UNCHANGED <<fact, archive>>

ArchiveUnreadable ==
    /\ LocalEdit
    /\ archive' = [archive EXCEPT !.readable = ~@]
    /\ UNCHANGED <<fact, index>>

\* A store with no facts, or one that has its facts and a line for each.
LocalInit ==
    /\ \E kept \in {{}, Stem}, d \in Desc :
        /\ fact = [s \in Stem |-> IF s \in kept THEN OwnFact("valid", d) ELSE NoFact]
        /\ index = {PointerLine(s, d) : s \in kept}
    /\ archive = [readable |-> TRUE, placed |-> {}]
    /\ command = [c \in Session |-> NoCommand]
    /\ localOps = 0

Command(c) ==
    \/ \E s \in Stem, d \in Desc, createOnly \in BOOLEAN : UpsertBegin(c, s, d, createOnly)
    \/ \E s \in Stem : ForgetBegin(c, s) \/ ArchiveBegin(c, s)
    \/ \E skip \in BOOLEAN : RebuildBegin(c, skip)
    \/ UpsertCommit(c) \/ ForgetCommit(c) \/ ArchiveCommit(c) \/ RebuildCommit(c) \/ Refused(c)

UserEdit ==
    \/ \E s \in Stem, f \in Fact : EditFact(s, f)
    \/ \E old \in index, new \in Line : EditLine(old, new)
    \/ ArchiveUnreadable

LocalNext == (\E c \in Session : Command(c)) \/ UserEdit

LocalSpec == LocalInit /\ [][LocalNext]_localvars

---------------------------------------------------------------------------
(* Properties.                                                             *)

CommandEnds(c) == command[c] # NoCommand /\ command'[c] = NoCommand
Reachable(s) == s \in Named(index) \cup archive.placed

\* A line that s shares with the stem of the command gives way with it.
OnlyShared(m, s) ==
    /\ m.op # "rebuild" /\ m.stem # s
    /\ \A l \in index : s \in Links(l) => m.stem \in Links(l)

\* StaysReachable: no command leaves a fact that was there when it read the store, and
\* is still there, without a pointer in the index or a place in an archive, whether it
\* could evaluate the fact or not (local_upsert, local_forget, local_archive,
\* local_rebuild_index).
StaysReachable ==
    [][\A c \in Session, s \in Stem :
        /\ CommandEnds(c) /\ Reachable(s)
        /\ NoFact \notin {fact[s], fact'[s], command[c].fact[s]}
        /\ ~OnlyShared(command[c], s)
        => Reachable(s)']_localvars

\* EvictionSticks: a fact the archive placed when a command read it, and the index did
\* not, returns to the index only through a rebuild that was told to skip what it cannot
\* read, and could not read the archive.
EvictionSticks ==
    [][\A c \in Session, s \in Stem :
        LET m == command[c]
        IN  CommandEnds(c) /\ s \in m.archive.placed \ Named(index) /\ s \in Named(index')
              => m.op = "rebuild" /\ m.skip /\ ~m.archive.readable]_localvars

ShowsDesc(l, d) == l.cue \in {[of |-> d, shape |-> "derived"], [of |-> d, shape |-> "tight"]}

\* CuesFresh: after a rebuild every line of an own fact it could evaluate shows its
\* description, but for the lines carried over for another fact; after an upsert that
\* placed its pointer, so does a line of its fact.
CuesFresh ==
    [][\A c \in Session :
        LET m == command[c]
        IN  /\ RebuildCommit(c) =>
                 \A l \in index' \ Carried(m) : l.links[1] \in Included(m)
                     => ShowsDesc(l, m.fact[l.links[1]].desc)
            /\ UpsertCommit(c) /\ ~Declined(m) =>
                 \E l \in index' : l.links[1] = m.stem /\ ShowsDesc(l, m.desc)]_localvars

=============================================================================
