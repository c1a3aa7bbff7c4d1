------------------------------ MODULE DreamCycle ------------------------------
(***************************************************************************)
(* The cycle of a dream: a pass seeds its record, fills it, stamps the     *)
(* project's marker and renders it with --persist until no gate refuses it *)
(* (memory_status.py, render_dashboard.py); each persisted cycle counts as *)
(* a usage window of the project (control_plane.py), and the windows are   *)
(* the clock after which a justified fact is proposed for demotion again.  *)
(*                                                                         *)
(* Sessions of one project share all of it: the record is one file per     *)
(* project, the cycle log is appended to under no lock.  A stamp stands    *)
(* for its commit too, which is written and read together with it.  Each   *)
(* read and write of a render may fail, and the render goes on.            *)
(***************************************************************************)
EXTENDS Naturals, Sequences, FiniteSets, Sifting

CONSTANTS
    Dreamer, Justifier,    \* the sessions that dream, and that justify a fact
    Seeded,        \* the duties a seed leaves open, of those the gates know
    Worth,         \* what a counted cycle may be: probative, or not
    Refire,        \* _DEMOTION_JUSTIFY_REFIRE
    MinWindows,    \* _DEMOTION_MIN_WINDOWS
    MaxPasses, MaxStamps    \* bounds

\* --persist and --justify-demotion are commands of their own.
ASSUME Roles == Dreamer \cap Justifier = {}
ASSUME CycleAssumption ==
    /\ "nobody" \notin Dreamer /\ Worth \subseteq BOOLEAN
    /\ MaxPasses \in Nat /\ MaxStamps \in Nat

Unset == 0
Asleep == [pc |-> "asleep"]
NoRecord == [pass |-> 0, owner |-> "nobody", before |-> Unset, ts |-> Unset, open |-> {}]

VARIABLES
    marker,      \* .consolidation-state.json: the stamp, and the sequence a fact is justified at
    record,      \* the cycle file of the project
    cycleLog,    \* the rows of the cycle log: the pass, its stamp, the duties still open
    windows,     \* project_usage_windows: the sequence of each cycle that is counted
    dreamer,
    stamps, passes,
    disturbed,   \* history: passes another session, a crash or an unreadable log came in between
    clean,       \* history: passes that ended with exit 0
    told         \* history: passes whose exit 0 came with the note that nothing was logged

dreamvars == <<marker, record, cycleLog, windows, dreamer, stamps, passes,
              disturbed, clean, told>>

CycleRow == [pass : 1..MaxPasses, ts : 1..MaxStamps, open : SUBSET Seeded]
Window == [cycle : 1..MaxStamps, sequence : 1..MaxStamps, probative : BOOLEAN]

DreamTypeOK ==
    /\ marker.ts \in 0..stamps
    /\ marker.justify \subseteq 0..MaxStamps /\ Cardinality(marker.justify) <= 1
    /\ record = NoRecord \/ record \in [pass : 1..passes, owner : Dreamer, before : 0..stamps, ts : 0..stamps, open : SUBSET Seeded]
    /\ \A i \in DOMAIN cycleLog : cycleLog[i] \in CycleRow
    /\ windows \subseteq Window
    /\ disturbed \subseteq 1..passes /\ clean \subseteq 1..passes /\ told \subseteq 1..passes

SessionGoes(d, state) == dreamer' = [dreamer EXCEPT ![d] = state]

---------------------------------------------------------------------------
(* The gates of the terminal render.                                       *)

ProcedureHolds(r) == "verification" \notin r.open
ArcComplete(r) == "arc" \notin r.open
DutyAlert(r) == "applied" \in r.open
Narrated(r) == "narration" \notin r.open

\* A session id that is not filled in is reported, never refused.
Gating == {"verification", "arc", "applied", "narration"}

ExitCode(r) ==
    CASE ~ProcedureHolds(r) -> 3
      [] ProcedureHolds(r) /\ ~ArcComplete(r) -> 4
      [] ProcedureHolds(r) /\ ArcComplete(r) /\ DutyAlert(r) -> 3
      [] ProcedureHolds(r) /\ ArcComplete(r) /\ ~DutyAlert(r) /\ ~Narrated(r) -> 4
      [] OTHER -> 0

\* _stamp_cause: the stamp is admitted only if the file has moved since the seed.
AdmitStamp(r) == marker.ts # Unset /\ marker.ts # r.before

\* reconcile_marker: a stamp the record has stands.
Reconciled(r) == IF r.ts = Unset /\ AdmitStamp(r) THEN [r EXCEPT !.ts = marker.ts] ELSE r

AlreadyLogged(ts) == \E i \in DOMAIN cycleLog : cycleLog[i].ts = ts

---------------------------------------------------------------------------
(* The archive page: the rows of the log, and the record of the file.      *)

SameDream(a, b) ==
    IF a.ts # Unset /\ b.ts # Unset THEN a.ts = b.ts
    ELSE IF "session" \notin a.open \cup b.open THEN a.pass = b.pass
    ELSE a.ts = b.ts

\* iter_store_cycle_log: the rows of one stamp are read as the last of them, in the place
\* of the first.
OfStamp(ts) == {i \in DOMAIN cycleLog : cycleLog[i].ts = ts}
FirstOfStamp == {i \in DOMAIN cycleLog : \A k \in OfStamp(cycleLog[i].ts) : i <= k}
LastOfStamp(ts) == CHOOSE i \in OfStamp(ts) : \A k \in OfStamp(ts) : k <= i
History == Sifted([i \in DOMAIN cycleLog |-> i], FirstOfStamp)
Rows == [i \in DOMAIN History |-> cycleLog[LastOfStamp(cycleLog[History[i]].ts)]]
CycleEntry(r) == [pass |-> r.pass, ts |-> r.ts, open |-> r.open]

Archive ==
    LET n == Len(Rows)
    IN  IF record = NoRecord THEN Rows
        ELSE IF n = 0 \/ ~SameDream(Rows[n], record) THEN Append(Rows, CycleEntry(record))
        ELSE IF Rows[n].ts = record.ts THEN [Rows EXCEPT ![n] = CycleEntry(record)]
        ELSE Rows

---------------------------------------------------------------------------
(* A pass.                                                                 *)

\* The passes of other sessions that are under way.
Others(d) ==
    (IF record.owner \in Dreamer \ {d} THEN {record.pass} ELSE {})
    \cup {dreamer[e].r.pass : e \in {f \in Dreamer : dreamer[f] # Asleep /\ dreamer[f].r.owner # d}}

\* build_context reads the marker, --seed writes the file.
Seed(d) ==
    /\ dreamer[d] = Asleep
    /\ passes < MaxPasses
    /\ passes' = passes + 1
    /\ record' = [pass |-> passes', owner |-> d, before |-> marker.ts, ts |-> Unset, open |-> Seeded]
    /\ UNCHANGED <<marker, cycleLog, windows, dreamer, stamps, clean, told>>

\* The session fills the record in, one duty after the other.
Fill(d, duty) ==
    /\ dreamer[d] = Asleep
    /\ duty \in record.open
    /\ record' = [record EXCEPT !.open = @ \ {duty}]
    /\ UNCHANGED <<marker, cycleLog, windows, dreamer, stamps, passes, clean, told>>

\* stamp_project_marker, in the locked section of update_project_state: the other keys
\* of the marker stay.
StampMarker(d) ==
    /\ dreamer[d] = Asleep
    /\ stamps < MaxStamps
    /\ stamps' = stamps + 1
    /\ marker' = [marker EXCEPT !.ts = stamps']
    /\ UNCHANGED <<record, cycleLog, windows, dreamer, passes, clean, told>>

\* The process between two of its writes: the record and the stamp it has read.
Rendering(pc, r, ts) == [pc |-> pc, r |-> r, ts |-> ts]

\* render_dashboard --persist reads the record, the marker and the log: an unstamped
\* record is refused with exit 5, one that is logged already is not appended.
Render(d) ==
    /\ dreamer[d] = Asleep
    /\ record # NoRecord
    /\ LET ts == Reconciled(record).ts
       IN  /\ ts # Unset
           /\ SessionGoes(d, Rendering(IF AlreadyLogged(ts) THEN "heal" ELSE "append", record, ts))
    /\ UNCHANGED <<marker, record, cycleLog, windows, stamps, passes, clean, told>>

\* A log that cannot be read is one that has no such row: the row is appended again.
RenderBlind(d) ==
    /\ dreamer[d] = Asleep
    /\ record # NoRecord
    /\ LET ts == Reconciled(record).ts
       IN  /\ AlreadyLogged(ts)
           /\ Len(cycleLog) < MaxStamps    \* bound
           /\ SessionGoes(d, Rendering("append", record, ts))
           /\ disturbed' = disturbed \cup Others(d) \cup {record.pass}
                            \cup {cycleLog[i].pass : i \in OfStamp(ts)}
    /\ UNCHANGED <<marker, record, cycleLog, windows, stamps, passes, clean, told>>

AppendRow(d) ==
    /\ dreamer[d].pc = "append"
    /\ cycleLog' = Append(cycleLog, [CycleEntry(dreamer[d].r) EXCEPT !.ts = dreamer[d].ts])
    /\ SessionGoes(d, Rendering("count", dreamer[d].r, dreamer[d].ts))
    /\ clean' = clean \ {dreamer[d].r.pass}
    /\ told' = told \ {dreamer[d].r.pass}
    /\ UNCHANGED <<marker, record, windows, stamps, passes>>

\* The log, or its directory, cannot be written: a note on stderr, exit 0, and neither
\* the gates nor the heal.
AppendFails(d) ==
    /\ dreamer[d].pc = "append"
    /\ clean' = clean \cup {dreamer[d].r.pass}
    /\ told' = told \cup {dreamer[d].r.pass}
    /\ SessionGoes(d, Asleep)
    /\ UNCHANGED <<marker, record, cycleLog, windows, stamps, passes>>

\* record_usage_window: SELECT MAX, then an INSERT that the unique columns may refuse.
Count(d) ==
    /\ dreamer[d].pc = "count"
    /\ LET m == dreamer[d]
       IN  SessionGoes(d, IF \E w \in windows : w.cycle = m.ts THEN Rendering("heal", m.r, m.ts)
                          ELSE [pc |-> "insert", r |-> m.r, ts |-> m.ts,
                                sequence |-> Cardinality(windows) + 1])
    /\ UNCHANGED <<marker, record, cycleLog, windows, stamps, passes, clean, told>>

Taken(m) == \E w \in windows : w.cycle = m.ts \/ w.sequence = m.sequence

InsertRow(m) ==
    IF Taken(m) THEN UNCHANGED windows
    ELSE \E probative \in Worth :
           windows' = windows \cup {[cycle |-> m.ts, sequence |-> m.sequence,
                                     probative |-> probative]}

\* Defect: a refused INSERT is dropped.
InsertOnce(d) ==
    /\ dreamer[d].pc = "insert"
    /\ InsertRow(dreamer[d])
    /\ SessionGoes(d, Rendering("heal", dreamer[d].r, dreamer[d].ts))
    /\ UNCHANGED <<marker, record, cycleLog, stamps, passes, clean, told>>

Insert(d) ==
    /\ dreamer[d].pc = "insert"
    /\ InsertRow(dreamer[d])
    /\ LET m == dreamer[d]
       IN  SessionGoes(d, Rendering(IF Taken(m) THEN "count" ELSE "heal", m.r, m.ts))
    /\ UNCHANGED <<marker, record, cycleLog, stamps, passes, clean, told>>

\* The registry cannot be opened or written, or the store is of no project that is found:
\* the cycle is not counted, and the render goes on.
CountFails(d) ==
    /\ dreamer[d].pc \in {"count", "insert"}
    /\ SessionGoes(d, Rendering("uncounted", dreamer[d].r, dreamer[d].ts))
    /\ UNCHANGED <<marker, record, cycleLog, windows, stamps, passes, clean, told>>

Heals(d) == dreamer[d].pc \in {"heal", "uncounted"}

Finish(d) ==
    /\ clean' = IF ExitCode(dreamer[d].r) = 0 THEN clean \cup {dreamer[d].r.pass} ELSE clean
    /\ SessionGoes(d, Asleep)

\* Defect: a record that is in the log already needs no heal.
HealForgotten(d) ==
    /\ Heals(d)
    /\ UNCHANGED record
    /\ Finish(d)
    /\ UNCHANGED <<marker, cycleLog, windows, stamps, passes, told>>

\* The cycle file is written back with the stamp, read from the marker once more, and
\* the gates decide the exit code.
Heal(d) ==
    /\ Heals(d)
    /\ record' = Reconciled(dreamer[d].r)
    /\ Finish(d)
    /\ UNCHANGED <<marker, cycleLog, windows, stamps, passes, told>>

\* The write fails silently: the file is as it was, or it is empty.
HealFails(d) ==
    /\ Heals(d)
    /\ record' \in {record, NoRecord}
    /\ Finish(d)
    /\ UNCHANGED <<marker, cycleLog, windows, stamps, passes, told>>

\* The process is killed: what it had written stays, and the file it was writing may be empty.
DreamCrash(d) ==
    /\ dreamer[d].pc \in {"append", "count", "insert"} \/ Heals(d)
    /\ record' \in IF Heals(d) THEN {record, NoRecord} ELSE {record}
    /\ SessionGoes(d, Asleep)
    /\ UNCHANGED <<marker, cycleLog, windows, stamps, passes, clean, told>>

---------------------------------------------------------------------------
(* --justify-demotion                                                      *)

Probative == {w \in windows : w.probative}
NAfter(sequence) == Cardinality({w \in Probative : w.sequence > sequence})

\* _justify_remaining, on the clock of the registry.
Suppressed(entry) == \E sequence \in entry : NAfter(sequence) < Refire

\* The gate, and the clock, are read before the lock.  A fact is a candidate once it has
\* enough windows behind it; one that is quiet already is let through.
JustifyBegin(d, force) ==
    /\ dreamer[d] = Asleep
    /\ marker.ts # Unset
    /\ force \/ Suppressed(marker.justify) \/ Cardinality(Probative) >= MinWindows
    /\ SessionGoes(d, [pc |-> "justify", sequence |-> Cardinality(windows),
                       quiet |-> Suppressed(marker.justify)])
    /\ UNCHANGED <<marker, record, cycleLog, windows, stamps, passes, clean, told>>

\* Defect: whether the fact is quiet was read with the gate.
JustifyStale(d) ==
    /\ dreamer[d].pc = "justify"
    /\ marker' = IF dreamer[d].quiet THEN marker
                 ELSE [marker EXCEPT !.justify = {dreamer[d].sequence}]
    /\ SessionGoes(d, Asleep)
    /\ UNCHANGED <<record, cycleLog, windows, stamps, passes, clean, told>>

\* Defect: a fact that is justified again keeps its old entry.
JustifyBeside(d) ==
    /\ dreamer[d].pc = "justify"
    /\ marker' = IF Suppressed(marker.justify) THEN marker
                 ELSE [marker EXCEPT !.justify = @ \cup {dreamer[d].sequence}]
    /\ SessionGoes(d, Asleep)
    /\ UNCHANGED <<record, cycleLog, windows, stamps, passes, clean, told>>

\* apply_demotion_justify, in the locked section: a fact that is quiet now is left alone.
Justify(d) ==
    /\ dreamer[d].pc = "justify"
    /\ marker' = IF Suppressed(marker.justify) THEN marker
                 ELSE [marker EXCEPT !.justify = {dreamer[d].sequence}]
    /\ SessionGoes(d, Asleep)
    /\ UNCHANGED <<record, cycleLog, windows, stamps, passes, clean, told>>

DreamInit ==
    /\ marker = [ts |-> Unset, justify |-> {}]
    /\ record = NoRecord
    /\ cycleLog = << >>
    /\ windows = {}
    /\ dreamer = [d \in Dreamer \cup Justifier |-> Asleep]
    /\ stamps = 0 /\ passes = 0
    /\ disturbed = {} /\ clean = {} /\ told = {}

\* Whatever a session does comes in between the passes of the others.
Pass(d) ==
    /\ \/ Seed(d) \/ StampMarker(d) \/ Render(d) \/ AppendRow(d) \/ AppendFails(d)
       \/ Count(d) \/ Insert(d) \/ CountFails(d) \/ Heal(d)
       \/ \E duty \in Seeded : Fill(d, duty)
    /\ disturbed' = disturbed \cup Others(d)

Mishap(d) ==
    \/ RenderBlind(d)
    \/ (DreamCrash(d) \/ HealFails(d)) /\ disturbed' = disturbed \cup Others(d) \cup {dreamer[d].r.pass}

Justification(d) ==
    /\ Justify(d) \/ \E force \in BOOLEAN : JustifyBegin(d, force)
    /\ UNCHANGED disturbed

DreamNext ==
    \/ \E d \in Dreamer : Pass(d) \/ Mishap(d)
    \/ \E d \in Justifier : Justification(d)

DreamSpec == DreamInit /\ [][DreamNext]_dreamvars

---------------------------------------------------------------------------
\* ExitZeroIsLogged: a pass that ended with exit 0 is in the log once, under a stamp of its
\* own; while the cycle file is still of that pass the archive shows it once, with no gate
\* left open.  Excepted are the passes that ended with the note that the append failed (exit
\* 0 all the same, render_dashboard.py 2196-2198, although "the firing record MUST be
\* logged", 2170), and those that another session, a crash, a log that could not be read or
\* a cycle file that could not be written came in between.
ExitZeroIsLogged ==
    \A p \in clean \ (disturbed \cup told) :
        /\ \E i \in DOMAIN cycleLog :
              /\ cycleLog[i].pass = p
              /\ \A j \in DOMAIN cycleLog \ {i} :
                    cycleLog[j].pass # p /\ cycleLog[j].ts # cycleLog[i].ts
        /\ record.pass = p =>
              \E i \in DOMAIN Archive :
                 /\ Archive[i].open \cap Gating = {}
                 /\ \A j \in DOMAIN Archive : Archive[j].pass = p <=> j = i

\* WindowCounted: a cycle is counted once and under a sequence of its own, the sequences
\* leave no gap, and no recorder whose registry can be written gives up its window to one
\* that was faster.
WindowCounted ==
    [][/\ \A w \in windows' : w.sequence \in 1..Cardinality(windows')
                            /\ \A v \in windows' \ {w} : v.cycle # w.cycle /\ v.sequence # w.sequence
       /\ \A d \in Dreamer : dreamer[d].pc \in {"count", "insert"} /\ dreamer'[d].pc = "heal"
            => \E w \in windows' : w.cycle = dreamer[d].ts]_dreamvars

\* QuietUntilClock: a justified fact stays quiet until windows enough have been counted
\* since: no second justification moves its stamp before that, whatever its session read
\* and when; and no stamp is ahead of the clock.
QuietUntilClock ==
    [][/\ Suppressed(marker.justify) => marker'.justify = marker.justify
       /\ \A n \in marker'.justify : n <= Cardinality(windows')]_dreamvars

=============================================================================
