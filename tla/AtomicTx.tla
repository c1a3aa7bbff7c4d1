------------------------------- MODULE AtomicTx -------------------------------
(***************************************************************************)
(* What the journal promises about the registry (ADR 010 and 021, reduced  *)
(* to what a caller of transact can rely on): an operation takes effect as *)
(* a whole or not at all; a crash may make it take effect again, but never *)
(* once it was reported complete, and an operation that was given up is    *)
(* over.                                                                   *)
(***************************************************************************)
CONSTANTS Op, Cell, Val, Absent,
          Writes,    \* [Op -> SUBSET Cell]
          Erases     \* [Op -> SUBSET Cell]

VARIABLES store, outcome

Init == /\ store \in [Cell -> Val]
        /\ outcome = [o \in Op |-> "open"]

After(o) == [x \in Cell |-> IF x \in Writes[o] THEN o
                            ELSE IF x \in Erases[o] THEN Absent ELSE store[x]]

\* the registry COMMIT, or its replay after a crash before the journal knew
Apply(o) == /\ outcome[o] \in {"open", "applied"}
            /\ store' = After(o)
            /\ outcome' = [outcome EXCEPT ![o] = "applied"]

\* committed-cleanup-pending: from here on the row is never replayed
Close(o) == /\ outcome[o] = "applied"
            /\ outcome' = [outcome EXCEPT ![o] = "closed"]
            /\ UNCHANGED store

\* abandoned without a COMMIT
Refuse(o) == /\ outcome[o] = "open"
             /\ outcome' = [outcome EXCEPT ![o] = "refused"]
             /\ UNCHANGED store

Next == \E o \in Op : Apply(o) \/ Close(o) \/ Refuse(o)

Spec == Init /\ [][Next]_<<store, outcome>>

===============================================================================
