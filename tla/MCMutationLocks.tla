--------------------------- MODULE MCMutationLocks ---------------------------
EXTENDS MutationLocks, TLC

CONSTANTS da, db, pa, global, ops, schema, r1, r2, r3

PlaceAll == (ops :> 0) @@ (da :> 1) @@ (db :> 2) @@ (global :> 3) @@ (pa :> 4)
            @@ (schema :> 5)

Plain == [own |-> NoCommand, domains |-> {}, global |-> FALSE, projects |-> {},
          ops |-> FALSE, schema |-> FALSE, wait |-> TRUE, connects |-> 0]
Mutation == [Plain EXCEPT !.own = da, !.domains = {da}, !.global = TRUE,
                          !.projects = {pa}]

\* pull (its prologue opens the databases under the locks); move-domain out of
\* db into da, and back; update_project_state(blocking=False); data compact; the manifest
\* rebuild; a store grant; a connection.
Pull == [Mutation EXCEPT !.connects = 1]
Move == [Mutation EXCEPT !.own = db, !.domains = {da, db}]
MoveBack == [Mutation EXCEPT !.domains = {da, db}]
Marker == [Mutation EXCEPT !.wait = FALSE]
DataCompact == [Pull EXCEPT !.ops = TRUE]
Rebuild == [Plain EXCEPT !.global = TRUE, !.wait = FALSE]
Grant == [Plain EXCEPT !.global = TRUE, !.connects = 1]
Connection == [Plain EXCEPT !.schema = TRUE]

AllCommands == {Pull, Move, MoveBack, Marker, DataCompact, Rebuild, Grant,
                Connection}
\* The commands that compete hardest, for three processes.
RivalCommands == {Pull, Move, MoveBack, Rebuild}

-----------------------------------------------------------------------------
(* Two casts.  Three processes compete for the same locks, and each takes   *)
(* its steps; or two run every kind of command, may stop for ever with      *)
(* their locks held, and one lock path is unlinked.                         *)

VARIABLE hung
castvars == <<vars, hung>>

CastInit == Init /\ hung \in BOOLEAN

CastNext ==
    /\ Next
    /\ UNCHANGED hung
    /\ hung => cmd'[r3] = NoCommand
    /\ ~hung => unlinks' = 0 /\ \A p \in Proc : cmd'[p] \in RivalCommands \cup {NoCommand}

\* A process takes its steps, and a lock that is free again and again while a process
\* waits for it is granted to it; in the other cast, only the commands that do not wait
\* are known to take theirs.  Beginning and dying are not obliged to happen.
CastFairness ==
    \A p \in Proc :
        /\ WF_vars(~hung /\ Step(p)) /\ SF_vars(~hung /\ Flock(p))
        /\ WF_vars(hung /\ cmd[p] # NoCommand /\ ~cmd[p].wait /\ Step(p))

CastSpec == CastInit /\ [][CastNext]_castvars /\ CastFairness

\* CommandsEnd: with every process taking its steps, a command that has begun is
\* not locked out for ever.
CommandsEnd == \A p \in Proc : (pc[p] = "take" /\ ~hung) ~> (pc[p] = "idle")

\* TriesNeverWait: a command that only tries (the manifest rebuild, the marker of
\* cm status) ends even if every other process hangs with its locks held.
TriesNeverWait ==
    \A p \in Proc : (pc[p] = "take" /\ ~cmd[p].wait) ~> (pc[p] = "idle")

=============================================================================
