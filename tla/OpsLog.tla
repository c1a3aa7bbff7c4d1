------------------------------- MODULE OpsLog -------------------------------
(***************************************************************************)
(* The operational log of a project (retention.py): rows that sessions     *)
(* append without a lock, and the compaction (cm data compact), under      *)
(* ops.lock, that first moves what is left of the log in the native store  *)
(* to the plugin data and then keeps the tail.  It may be killed at any    *)
(* step; a session has the file open for a moment before it writes.        *)
(***************************************************************************)
EXTENDS Naturals, SequencesExt, Sifting

CONSTANTS Writer, Keep, MaxRows, MaxCompactions

\* CYCLE_CAP
ASSUME CapAssumption == Keep \in Nat
\* Two rows are in the log of the native store.
ASSUME LogAssumption == MaxRows \in Nat /\ MaxRows >= 2 /\ MaxCompactions \in Nat

\* Where a log may be: in the native store, under the slot, under the project id.
LogPlace == {"native", "slot", "pid"}
Resting == [pc |-> "resting"]

VARIABLES
    log,         \* the rows of each file
    inode,       \* which file it is; a replaced one has another
    enrolled,    \* the registry knows the project
    writer,      \* sessions: the row, and the file they opened
    compactor,   \* the compaction that runs
    rows, compactions,
    raced,       \* history: rows written while a compaction rewrote their file
    beyond       \* history: rows that had Keep others behind them, or were too old

opsvars == <<log, inode, enrolled, writer, compactor, rows, compactions, raced, beyond>>

OpsTypeOK ==
    /\ log \in [LogPlace -> Seq(1..MaxRows)]
    /\ inode \in [LogPlace -> 0..MaxCompactions]
    /\ raced \subseteq 1..rows /\ beyond \subseteq 1..rows

\* _ops_key
WritePlace == IF enrolled THEN "pid" ELSE "slot"
\* cycle_log_read_paths
Readable == UNION {ToSet(log[p]) : p \in LogPlace}

---------------------------------------------------------------------------
(* _persist: a row that is in none of the files is appended.               *)

Open(w) ==
    /\ writer[w] = Resting /\ rows < MaxRows
    /\ rows' = rows + 1
    /\ writer' = [writer EXCEPT ![w] = [pc |-> "write", row |-> rows', place |-> WritePlace,
                                        inode |-> inode[WritePlace]]]
    /\ UNCHANGED <<log, inode, enrolled, compactor, compactions, raced, beyond>>

\* A row written to a file that has been replaced is gone with it.
WriteRow(w) ==
    /\ writer[w].pc = "write"
    /\ LET row == writer[w].row
           place == writer[w].place
       IN  /\ log' = IF inode[place] = writer[w].inode
                     THEN [log EXCEPT ![place] = Append(@, row)] ELSE log
           /\ raced' = IF \/ inode[place] # writer[w].inode
                          \/ compactor.pc = "replace" /\ place = compactor.place
                       THEN raced \cup {row} ELSE raced
    /\ writer' = [writer EXCEPT ![w] = Resting]
    /\ UNCHANGED <<inode, enrolled, compactor, rows, compactions, beyond>>

\* Killed, or the file cannot be written: the row was never in the log.
GiveUp(w) ==
    /\ writer[w].pc = "write"
    /\ raced' = raced \cup {writer[w].row}
    /\ writer' = [writer EXCEPT ![w] = Resting]
    /\ UNCHANGED <<log, inode, enrolled, compactor, rows, compactions, beyond>>

\* cm project enroll: from now on the log is the one of the project id.
Enroll ==
    /\ ~enrolled
    /\ enrolled' = TRUE
    /\ UNCHANGED <<log, inode, writer, compactor, rows, compactions, raced, beyond>>

---------------------------------------------------------------------------
(* cm data compact                                                         *)

Compact ==
    /\ compactor = Resting /\ compactions < MaxCompactions
    /\ compactions' = compactions + 1
    /\ compactor' = [pc |-> IF log["native"] = << >> THEN "read" ELSE "append",
                     place |-> WritePlace]
    /\ UNCHANGED <<log, inode, enrolled, writer, rows, raced, beyond>>

\* relocate_native_operational: append, then unlink.
Relocate ==
    /\ compactor.pc = "append"
    /\ log' = [log EXCEPT ![compactor.place] = @ \o log["native"]]
    /\ compactor' = [compactor EXCEPT !.pc = "unlink"]
    /\ UNCHANGED <<inode, enrolled, writer, rows, compactions, raced, beyond>>

Unlink ==
    /\ compactor.pc = "unlink"
    /\ log' = [log EXCEPT !["native"] = << >>]
    /\ compactor' = [compactor EXCEPT !.pc = "read"]
    /\ UNCHANGED <<inode, enrolled, writer, rows, compactions, raced, beyond>>

\* reverse_tail_jsonl_lines; of the tail, rows older than the retention days are dropped:
\* the oldest, up to some day.
LastRows(s) == LET n == Len(s) IN SubSeq(s, IF n > Keep THEN n - Keep + 1 ELSE 1, n)

Rewrite(oldest) ==
    LET s == log[compactor.place]
    IN  compactor' = [pc |-> "replace", place |-> compactor.place,
                      kept |-> Sifted(LastRows(s), {r \in ToSet(s) : r >= oldest}),
                      past |-> {s[i] : i \in 1..(Len(s) - Keep)} \cup {r \in ToSet(s) : r < oldest}]

\* Defect: the file is rewritten in place.
ReadTailInPlace ==
    /\ compactor.pc = "read"
    /\ \E oldest \in {1, 3} : Rewrite(oldest)
    /\ log' = [log EXCEPT ![compactor.place] = << >>]
    /\ UNCHANGED <<inode, enrolled, writer, rows, compactions, raced, beyond>>

ReadTail ==
    /\ compactor.pc = "read"
    /\ \E oldest \in {1, 3} : Rewrite(oldest)
    /\ UNCHANGED <<log, inode, enrolled, writer, rows, compactions, raced, beyond>>

\* os.replace of the temporary file.
Replace ==
    /\ compactor.pc = "replace"
    /\ log' = [log EXCEPT ![compactor.place] = compactor.kept]
    /\ inode' = [inode EXCEPT ![compactor.place] = compactions]
    /\ beyond' = beyond \cup compactor.past
    /\ compactor' = Resting
    /\ UNCHANGED <<enrolled, writer, rows, compactions, raced>>

Kill ==
    /\ compactor # Resting
    /\ compactor' = Resting
    /\ UNCHANGED <<log, inode, enrolled, writer, rows, compactions, raced, beyond>>

OpsInit ==
    /\ log = [p \in LogPlace |-> IF p = "native" THEN <<1, 2>> ELSE << >>]
    /\ inode = [p \in LogPlace |-> 0]
    /\ enrolled = FALSE
    /\ writer = [w \in Writer |-> Resting]
    /\ compactor = Resting
    /\ rows = 2 /\ compactions = 0
    /\ raced = {} /\ beyond = {}

OpsNext ==
    \/ \E w \in Writer : Open(w) \/ WriteRow(w) \/ GiveUp(w)
    \/ Enroll \/ Compact \/ Relocate \/ Unlink \/ ReadTail \/ Replace \/ Kill

OpsSpec == OpsInit /\ [][OpsNext]_opsvars

---------------------------------------------------------------------------
\* RowsStay: a row that was written stays readable, whether compactions are killed or
\* repeated and wherever the project's log has moved, unless a compaction rewrote the
\* file while the row was appended, or dropped it for its age or for Keep rows behind it.
RowsStay ==
    \A r \in 1..rows : r \in Readable \cup raced \cup beyond
                       \/ \E w \in Writer : writer[w] # Resting /\ writer[w].row = r

=============================================================================
