---------------------------- MODULE MutationLocks ----------------------------
(***************************************************************************)
(* The interprocess locks of control_plane.py (FileLock,                   *)
(* acquire_mutation_locks, release_locks) and the commands that take them: *)
(* transact and the journal commands, the store grants, the manifest       *)
(* rebuild, the project-state marker, data compact, data export, and the   *)
(* connection to a database, which takes schema.lock alone or inside the   *)
(* work of another command.                                                *)
(*                                                                         *)
(* A lock is a path; what flock locks is the file that was opened there, so *)
(* that a path that is unlinked and created again is a second file.        *)
(***************************************************************************)
EXTENDS Naturals

CONSTANTS
    Proc,        \* processes: sessions, commands typed by the user
    Domain,      \* locks domain-<d>.lock
    Project,     \* locks project-<p>.lock
    Global, Ops, Schema,
    Place,       \* [Lock -> Nat]: the order of the acquisition sites
    Command,     \* the commands that processes run
    NoCommand, NoFile,
    MaxUnlinks   \* bound on the times a lock path is unlinked

Lock == Domain \cup Project \cup {Global, Ops, Schema}

\* domains, projects: the arguments of acquire_mutation_locks (with own, the domain
\* of the store context); global: the caller takes global.lock; ops: the caller has
\* taken ops.lock before; wait: blocking; connects: databases it opens inside.
CommandShape == [own : Domain \cup {NoCommand}, domains : SUBSET Domain,
                 global : BOOLEAN, projects : SUBSET Project, ops : BOOLEAN,
                 schema : BOOLEAN, wait : BOOLEAN, connects : Nat]

\* The locks of a command, duplicates removed.
Locks(c) == c.domains \cup c.projects
            \cup (IF c.own = NoCommand THEN {} ELSE {c.own})
            \cup (IF c.global THEN {Global} ELSE {})
            \cup (IF c.ops THEN {Ops} ELSE {})
            \cup (IF c.schema THEN {Schema} ELSE {})

\* Names are sorted within a kind; the kinds follow each other in one order.
ASSUME Places ==
    /\ Place \in [Lock -> Nat]
    /\ \A k, l \in Lock : Place[k] = Place[l] => k = l
    /\ \A l \in Lock \ {Schema} : Place[l] < Place[Schema]
    /\ \A l \in Lock \ {Ops} : Place[Ops] < Place[l]
    /\ \A d \in Domain : Place[d] < Place[Global]
    /\ \A p \in Project : Place[Global] < Place[p]
ASSUME Kinds == Schema \notin Domain \cup Project \cup {Global, Ops}
ASSUME Commands ==
    /\ Command \subseteq CommandShape
    /\ NoCommand \notin CommandShape \cup Lock
    /\ \A c \in Command : /\ Locks(c) # {}
                          /\ c.schema => c.connects = 0
ASSUME Bounds ==
    /\ MaxUnlinks \in Nat
    /\ NoFile \notin Lock \X Nat

VARIABLES
    cmd,         \* the command a process runs
    pc,          \* idle, take, flock, work, release
    todo,        \* locks it still has to take; in a connection, schema.lock
    opened,      \* the file it has opened and not locked yet
    held,        \* the files it has locked
    connections, \* databases it may still open inside its work
    inode,       \* the file that is at each lock path now
    unlinks

vars == <<cmd, pc, todo, opened, held, connections, inode, unlinks>>

File == Lock \X Nat

Init ==
    /\ cmd = [p \in Proc |-> NoCommand]
    /\ pc = [p \in Proc |-> "idle"]
    /\ todo = [p \in Proc |-> {}]
    /\ opened = [p \in Proc |-> NoFile]
    /\ held = [p \in Proc |-> {}]
    /\ connections = [p \in Proc |-> 0]
    /\ inode = [l \in Lock |-> 0]
    /\ unlinks = 0

-----------------------------------------------------------------------------
(* Taking locks.                                                           *)

\* Defect: the own domain first, then the extra domains, as they were given.
NextLockUnsorted(p) ==
    IF cmd[p].own \in todo[p] THEN cmd[p].own
    ELSE CHOOSE l \in todo[p] : \A k \in todo[p] : Place[l] <= Place[k]

\* The next lock a process takes: the acquisition sites come in one order, and
\* acquire_mutation_locks sorts the names of the domains and of the projects.
NextLock(p) == CHOOSE l \in todo[p] : \A k \in todo[p] : Place[l] <= Place[k]

\* No process, this one included, has locked the file.
Free(f) == \A q \in Proc : f \notin held[q]

Begin(p) ==
    /\ pc[p] = "idle"
    /\ \E c \in Command :
        /\ cmd' = [cmd EXCEPT ![p] = c]
        /\ todo' = [todo EXCEPT ![p] = Locks(c)]
        /\ connections' = [connections EXCEPT ![p] = c.connects]
    /\ pc' = [pc EXCEPT ![p] = "take"]
    /\ UNCHANGED <<opened, held, inode, unlinks>>

\* open(path, "a+"): creates the file if it is not there.
Open(p) ==
    /\ pc[p] = "take"
    /\ opened' = [opened EXCEPT ![p] = <<NextLock(p), inode[NextLock(p)]>>]
    /\ pc' = [pc EXCEPT ![p] = "flock"]
    /\ UNCHANGED <<cmd, todo, held, connections, inode, unlinks>>

\* Defect: a platform without flock, on which locking does nothing.
FlockNoOp(p) ==
    /\ pc[p] = "flock"
    /\ held' = [held EXCEPT ![p] = @ \cup {opened[p]}]
    /\ todo' = [todo EXCEPT ![p] = @ \ {opened[p][1]}]
    /\ opened' = [opened EXCEPT ![p] = NoFile]
    /\ pc' = [pc EXCEPT ![p] = IF todo'[p] = {} THEN "work" ELSE "take"]
    /\ UNCHANGED <<cmd, connections, inode, unlinks>>

\* Defect: the process remembers the path it locked, not the open file.
FlockByPath(p) ==
    /\ pc[p] = "flock"
    /\ Free(opened[p])
    /\ held' = [held EXCEPT ![p] = @ \cup {opened[p][1]}]
    /\ todo' = [todo EXCEPT ![p] = @ \ {opened[p][1]}]
    /\ opened' = [opened EXCEPT ![p] = NoFile]
    /\ pc' = [pc EXCEPT ![p] = IF todo'[p] = {} THEN "work" ELSE "take"]
    /\ UNCHANGED <<cmd, connections, inode, unlinks>>

\* flock returns: the process goes on to its next lock, or to its work.
Flock(p) ==
    /\ pc[p] = "flock"
    /\ Free(opened[p])
    /\ held' = [held EXCEPT ![p] = @ \cup {opened[p]}]
    /\ todo' = [todo EXCEPT ![p] = @ \ {opened[p][1]}]
    /\ opened' = [opened EXCEPT ![p] = NoFile]
    /\ pc' = [pc EXCEPT ![p] = IF todo'[p] = {} THEN "work" ELSE "take"]
    /\ UNCHANGED <<cmd, connections, inode, unlinks>>

\* Defect: busy is a result, and the caller forgets the locks it took before.
GiveUpForgets(p) ==
    /\ pc[p] = "flock"
    /\ ~cmd[p].wait
    /\ ~Free(opened[p])
    /\ opened' = [opened EXCEPT ![p] = NoFile]
    /\ todo' = [todo EXCEPT ![p] = {}]
    /\ cmd' = [cmd EXCEPT ![p] = NoCommand]
    /\ connections' = [connections EXCEPT ![p] = 0]
    /\ pc' = [pc EXCEPT ![p] = "idle"]
    /\ UNCHANGED <<held, inode, unlinks>>

\* Defect: every command waits, as the marker and the manifest did once.
GiveUpNever(p) == FALSE /\ UNCHANGED vars

\* A command that does not wait: the lock is busy, the file is closed, what was
\* taken is released.  Connections always wait.
GiveUp(p) ==
    /\ pc[p] = "flock"
    /\ ~cmd[p].wait
    /\ opened[p][1] \in Locks(cmd[p])
    /\ ~Free(opened[p])
    /\ opened' = [opened EXCEPT ![p] = NoFile]
    /\ todo' = [todo EXCEPT ![p] = {}]
    /\ pc' = [pc EXCEPT ![p] = "release"]
    /\ UNCHANGED <<cmd, held, connections, inode, unlinks>>

-----------------------------------------------------------------------------
(* Working and releasing.                                                  *)

Connecting(p) == \E f \in held[p] : f[1] = Schema /\ ~cmd[p].schema

\* connect_registry or connect_journal inside the work.
Connect(p) ==
    /\ pc[p] = "work"
    /\ connections[p] > 0
    /\ ~Connecting(p)
    /\ todo' = [todo EXCEPT ![p] = {Schema}]
    /\ connections' = [connections EXCEPT ![p] = @ - 1]
    /\ pc' = [pc EXCEPT ![p] = "take"]
    /\ UNCHANGED <<cmd, opened, held, inode, unlinks>>

\* The database is open: schema.lock is released, the other locks are kept.
Connected(p) ==
    /\ pc[p] = "work"
    /\ Connecting(p)
    /\ held' = [held EXCEPT ![p] = {f \in @ : f[1] # Schema}]
    /\ UNCHANGED <<cmd, pc, todo, opened, connections, inode, unlinks>>

\* The work is done.
Done(p) ==
    /\ pc[p] = "work"
    /\ ~Connecting(p)
    /\ pc' = [pc EXCEPT ![p] = "release"]
    /\ UNCHANGED <<cmd, todo, opened, held, connections, inode, unlinks>>

\* An exception, while taking a lock or in the work: refused name, file that
\* cannot be opened, newer schema, refused mutation.
Fail(p) ==
    /\ pc[p] \in {"take", "work"}
    /\ todo' = [todo EXCEPT ![p] = {}]
    /\ pc' = [pc EXCEPT ![p] = "release"]
    /\ UNCHANGED <<cmd, opened, held, connections, inode, unlinks>>

\* release_locks and the finally clauses around it: the lock taken last first.
ReleaseOne(p) ==
    /\ pc[p] = "release"
    /\ \E f \in held[p] :
        /\ \A g \in held[p] : Place[g[1]] <= Place[f[1]]
        /\ held' = [held EXCEPT ![p] = @ \ {f}]
    /\ UNCHANGED <<cmd, pc, todo, opened, connections, inode, unlinks>>

End(p) ==
    /\ pc[p] = "release"
    /\ held[p] = {}
    /\ cmd' = [cmd EXCEPT ![p] = NoCommand]
    /\ connections' = [connections EXCEPT ![p] = 0]
    /\ pc' = [pc EXCEPT ![p] = "idle"]
    /\ UNCHANGED <<todo, opened, held, inode, unlinks>>

\* The process dies; the kernel closes its files.
Crash(p) ==
    /\ pc[p] # "idle"
    /\ cmd' = [cmd EXCEPT ![p] = NoCommand]
    /\ pc' = [pc EXCEPT ![p] = "idle"]
    /\ todo' = [todo EXCEPT ![p] = {}]
    /\ opened' = [opened EXCEPT ![p] = NoFile]
    /\ held' = [held EXCEPT ![p] = {}]
    /\ connections' = [connections EXCEPT ![p] = 0]
    /\ UNCHANGED <<inode, unlinks>>

\* The all-plugin-data purge removes the tree the locks are in, with no lock held;
\* the next process that opens the path creates another file.
Unlink(l) ==
    /\ unlinks < MaxUnlinks
    /\ inode' = [inode EXCEPT ![l] = @ + 1]
    /\ unlinks' = unlinks + 1
    /\ UNCHANGED <<cmd, pc, todo, opened, held, connections>>

Step(p) == \/ Open(p) \/ Flock(p) \/ GiveUp(p) \/ Connect(p) \/ Connected(p)
           \/ Done(p) \/ Fail(p) \/ ReleaseOne(p) \/ End(p)

Next == \/ \E p \in Proc : Begin(p) \/ Step(p) \/ Crash(p)
        \/ \E l \in Lock : Unlink(l)

Spec == Init /\ [][Next]_vars

-----------------------------------------------------------------------------
TypeOK ==
    /\ cmd \in [Proc -> Command \cup {NoCommand}]
    /\ pc \in [Proc -> {"idle", "take", "flock", "work", "release"}]
    /\ todo \in [Proc -> SUBSET Lock]
    /\ opened \in [Proc -> File \cup {NoFile}]
    /\ held \in [Proc -> SUBSET File]
    /\ connections \in [Proc -> Nat]
    /\ inode \in [Lock -> Nat]
    /\ unlinks \in 0..MaxUnlinks

\* The body of the command is running, a connection inside it included.
Inside(p) == /\ pc[p] \in {"take", "flock", "work"}
             /\ todo[p] \cap Locks(cmd[p]) = {}

\* Exclusive: as long as no lock path was unlinked, two commands that are in their
\* bodies at the same time share no lock: one writer per domain, per project and,
\* through global.lock, in the whole installation.
Exclusive ==
    \A p, q \in Proc : unlinks = 0 /\ p # q /\ Inside(p) /\ Inside(q)
        => Locks(cmd[p]) \cap Locks(cmd[q]) = {}

\* p waits in flock for a file that q has locked.
WaitsFor(p, q) == pc[p] = "flock" /\ opened[p] \in held[q]

\* NoCircularWait: of any processes at least one waits for none of them, so that
\* no chain of blocking acquisitions (ops.lock, domains, global.lock, projects,
\* schema.lock, nested as the commands nest them) closes into a deadlock.
NoCircularWait ==
    \A S \in SUBSET Proc : S # {} =>
        \E p \in S : \A q \in S : ~WaitsFor(p, q)

\* NothingLeaks: a process between commands has no file locked, whether the last
\* one ended, gave up on a busy lock, failed half-way through its acquisitions or
\* died.
NothingLeaks == \A p \in Proc : pc[p] = "idle" => held[p] = {}

=============================================================================
