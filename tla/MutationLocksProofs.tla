------------------------- MODULE MutationLocksProofs -------------------------
(***************************************************************************)
(* The safety properties of MutationLocks, for every set of processes,     *)
(* domains, projects and commands.                                         *)
(***************************************************************************)
EXTENDS MutationLocks, FiniteSets, WellFoundedInduction, FiniteSetTheorems, TLAPS

\* A bounded set of naturals has a least member: used for the next lock of a
\* process and for the end of a chain of waiting processes.
LEMMA LeastOf ==
    ASSUME NEW N \in Nat, NEW T \in SUBSET (0..N), T # {}
    PROVE  \E n \in T : \A m \in T : n <= m
<1> DEFINE F == {0..n : n \in T}
           R == StrictSubsetOrdering(0..N)
<1>1. IsWellFoundedOn(R, SUBSET (0..N))
  <2>1. IsFiniteSet(0..N)
    BY FS_Interval
  <2> QED
    BY <2>1, FS_FiniteSubsetsOfFinite, FS_StrictSubsetOrderingWellFounded
<1>2. F \subseteq SUBSET (0..N) /\ F # {}
  <2>1. ASSUME NEW n \in T PROVE 0..n \subseteq 0..N
    OBVIOUS
  <2>2. F # {}
    OBVIOUS
  <2> QED
    BY <2>1, <2>2
<1>3. PICK x \in F : \A y \in F : ~(<<y, x>> \in R)
  <2> HIDE DEF R, F
  <2> QED
    BY <1>1, <1>2, WFMin
<1>4. PICK n \in T : x = 0..n
  BY <1>3
<1>5. ASSUME NEW m \in T, m < n PROVE FALSE
  <2>1. 0..m \subseteq 0..n /\ n \in 0..n /\ n \notin 0..m
    BY <1>5
  <2>2. 0..m \in F /\ 0..m \in SUBSET (0..N) /\ x \in SUBSET (0..N)
    BY <1>2
  <2>3. <<0..m, x>> \in R
    BY <2>1, <2>2, <1>4 DEF StrictSubsetOrdering
  <2> QED
    BY <2>2, <2>3, <1>3
<1> QED
  BY <1>5

\* NextLock: a process that still has locks to take takes the least of them.
LEMMA NextIsLeast ==
    ASSUME TypeOK, NEW p \in Proc, todo[p] # {}
    PROVE  /\ NextLock(p) \in todo[p]
           /\ \A k \in todo[p] : Place[NextLock(p)] <= Place[k]
<1> DEFINE T == {Place[k] : k \in todo[p]}
<1>1. todo[p] \subseteq Lock
  BY DEF TypeOK
<1>2. T \in SUBSET (0..Place[Schema]) /\ T # {} /\ Place[Schema] \in Nat
  BY <1>1, Places DEF Lock
<1>3. \E n \in T : \A m \in T : n <= m
  <2> HIDE DEF T
  <2> QED
    BY <1>2, LeastOf
<1>4. \E l \in todo[p] : \A k \in todo[p] : Place[l] <= Place[k]
  BY <1>3
<1> QED
  BY <1>4 DEF NextLock

-----------------------------------------------------------------------------
(* The inductive invariant.                                                *)

\* What a process holds comes before what it still takes.
Ordered == \A p \in Proc : \A f \in held[p] : \A l \in todo[p] :
              Place[f[1]] < Place[l]

\* The locks to take agree with the place in the code.
Waiting ==
    \A p \in Proc :
        /\ pc[p] = "take" => todo[p] # {}
        /\ pc[p] = "flock" => /\ opened[p] \in File
                              /\ opened[p][1] \in todo[p]
                              /\ \A k \in todo[p] : Place[opened[p][1]] <= Place[k]
        /\ pc[p] \in {"idle", "work", "release"} => todo[p] = {}

\* Until it releases, a command holds each of its locks or has it still to take.
Covered ==
    \A p \in Proc :
        /\ pc[p] # "idle" => cmd[p] \in Command
        /\ pc[p] # "idle" /\ cmd[p].schema => connections[p] = 0
        /\ pc[p] \in {"take", "flock", "work"} =>
              \A l \in Locks(cmd[p]) : l \in todo[p] \/ \E f \in held[p] : f[1] = l

\* flock grants a file to one process.
Once == \A p, q \in Proc : p # q => held[p] \cap held[q] = {}

\* A path that was never unlinked has one file.
Unmoved ==
    unlinks = 0 =>
        /\ \A l \in Lock : inode[l] = 0
        /\ \A p \in Proc : /\ \A f \in held[p] : f[2] = 0
                           /\ pc[p] = "flock" => opened[p][2] = 0

IInv == TypeOK /\ Ordered /\ Waiting /\ Covered /\ Once /\ Unmoved /\ NothingLeaks

\* The initial states satisfy the invariant.
LEMMA InitIInv == Init => IInv
<1> SUFFICES ASSUME Init PROVE IInv
  OBVIOUS
<1> USE DEF Init
<1>1. TypeOK
  BY Bounds, Commands DEF TypeOK, File
<1> QED
  BY <1>1 DEF IInv, Ordered, Waiting, Covered, Once, Unmoved, NothingLeaks

\* The locks of a command are locks, and schema.lock is one only if it says so.
LEMMA LocksOfCommand ==
    ASSUME NEW c \in Command
    PROVE  /\ Locks(c) \in SUBSET Lock
           /\ Locks(c) # {}
           /\ c.connects \in Nat
           /\ c.schema \in BOOLEAN
           /\ Schema \in Locks(c) <=> c.schema
<1>1. c \in CommandShape
  BY Commands
<1>2. /\ c.own \in Domain \cup {NoCommand} /\ c.domains \in SUBSET Domain
      /\ c.global \in BOOLEAN /\ c.projects \in SUBSET Project
      /\ c.ops \in BOOLEAN /\ c.schema \in BOOLEAN /\ c.connects \in Nat
  BY <1>1 DEF CommandShape
<1>3. Locks(c) \in SUBSET Lock
  BY <1>2 DEF Locks, Lock
<1>4. Schema \in Locks(c) <=> c.schema
  BY <1>2, Kinds DEF Locks
<1> QED
  BY <1>2, <1>3, <1>4, Commands

\* Type correctness is kept by every step.
LEMMA TypeStep == IInv /\ [Next]_vars => TypeOK'
<1> SUFFICES ASSUME IInv, [Next]_vars PROVE TypeOK'
  OBVIOUS
<1> USE DEF IInv, TypeOK
<1>1. CASE UNCHANGED vars
  BY <1>1 DEF vars
<1>2. ASSUME NEW p \in Proc, Begin(p) PROVE TypeOK'
  BY <1>2, LocksOfCommand DEF Begin
<1>3. ASSUME NEW p \in Proc, Open(p) PROVE TypeOK'
  <2>1. NextLock(p) \in Lock
    BY <1>3, NextIsLeast DEF Open, Waiting
  <2> QED
    BY <1>3, <2>1 DEF Open, File
<1>4. ASSUME NEW p \in Proc, Flock(p) PROVE TypeOK'
  BY <1>4 DEF Flock, Waiting
<1>5. ASSUME NEW p \in Proc, GiveUp(p) PROVE TypeOK'
  BY <1>5 DEF GiveUp
<1>6. ASSUME NEW p \in Proc, Connect(p) PROVE TypeOK'
  <2>1. Schema \in Lock
    BY DEF Lock
  <2> QED
    BY <1>6, <2>1 DEF Connect
<1>7. ASSUME NEW p \in Proc, Connected(p) PROVE TypeOK'
  BY <1>7 DEF Connected
<1>8. ASSUME NEW p \in Proc, Done(p) PROVE TypeOK'
  BY <1>8 DEF Done
<1>9. ASSUME NEW p \in Proc, Fail(p) PROVE TypeOK'
  BY <1>9 DEF Fail
<1>10. ASSUME NEW p \in Proc, ReleaseOne(p) PROVE TypeOK'
  BY <1>10 DEF ReleaseOne
<1>11. ASSUME NEW p \in Proc, End(p) PROVE TypeOK'
  BY <1>11 DEF End
<1>12. ASSUME NEW p \in Proc, Crash(p) PROVE TypeOK'
  BY <1>12 DEF Crash
<1>13. ASSUME NEW l \in Lock, Unlink(l) PROVE TypeOK'
  BY <1>13, Bounds DEF Unlink
<1> QED
  BY <1>1, <1>2, <1>3, <1>4, <1>5, <1>6, <1>7, <1>8, <1>9, <1>10, <1>11, <1>12, <1>13
  DEF Next, Step

\* A process takes locks in ascending order, nested connections included.
LEMMA OrderedStep == IInv /\ [Next]_vars => Ordered'
<1> SUFFICES ASSUME IInv, [Next]_vars PROVE Ordered'
  OBVIOUS
<1> USE DEF IInv, TypeOK, Ordered
<1>1. CASE UNCHANGED vars
  BY <1>1 DEF vars, Waiting
<1>2. ASSUME NEW p \in Proc, Begin(p) PROVE Ordered'
  BY <1>2 DEF Begin, NothingLeaks
<1>3. ASSUME NEW p \in Proc, Open(p) PROVE Ordered'
  BY <1>3 DEF Open, Waiting
<1>4. ASSUME NEW p \in Proc, Flock(p) PROVE Ordered'
  <2>1. /\ opened[p][1] \in todo[p] /\ todo[p] \subseteq Lock
        /\ \A k \in todo[p] : Place[opened[p][1]] <= Place[k]
    BY <1>4 DEF Flock, Waiting
  <2>2. \A k \in todo[p] \ {opened[p][1]} : Place[opened[p][1]] < Place[k]
    BY <2>1, Places
  <2>3. held'[p] = held[p] \cup {opened[p]} /\ todo'[p] = todo[p] \ {opened[p][1]}
    BY <1>4 DEF Flock
  <2>4. \A q \in Proc \ {p} : held'[q] = held[q] /\ todo'[q] = todo[q]
    BY <1>4 DEF Flock
  <2> QED
    BY <2>2, <2>3, <2>4
<1>5. ASSUME NEW p \in Proc, GiveUp(p) PROVE Ordered'
  BY <1>5 DEF GiveUp, Waiting
<1>6. ASSUME NEW p \in Proc, Connect(p) PROVE Ordered'
  <2>1. ~cmd[p].schema
    BY <1>6 DEF Connect, Covered
  <2>2. \A f \in held[p] : f[1] \in Lock \ {Schema}
    BY <1>6, <2>1 DEF Connect, Connecting, File
  <2> QED
    BY <1>6, <2>2, Places DEF Connect
<1>7. ASSUME NEW p \in Proc, Connected(p) PROVE Ordered'
  BY <1>7 DEF Connected, Waiting
<1>8. ASSUME NEW p \in Proc, Done(p) PROVE Ordered'
  BY <1>8 DEF Done, Waiting
<1>9. ASSUME NEW p \in Proc, Fail(p) PROVE Ordered'
  BY <1>9 DEF Fail, Waiting
<1>10. ASSUME NEW p \in Proc, ReleaseOne(p) PROVE Ordered'
  BY <1>10 DEF ReleaseOne, Waiting
<1>11. ASSUME NEW p \in Proc, End(p) PROVE Ordered'
  BY <1>11 DEF End, Waiting
<1>12. ASSUME NEW p \in Proc, Crash(p) PROVE Ordered'
  BY <1>12 DEF Crash, Waiting
<1>13. ASSUME NEW l \in Lock, Unlink(l) PROVE Ordered'
  BY <1>13 DEF Unlink, Waiting
<1> QED
  BY <1>1, <1>2, <1>3, <1>4, <1>5, <1>6, <1>7, <1>8, <1>9, <1>10, <1>11, <1>12, <1>13
  DEF Next, Step

\* What a process waits for is the least of what it still takes.
LEMMA WaitingStep == IInv /\ [Next]_vars => Waiting'
<1> SUFFICES ASSUME IInv, [Next]_vars PROVE Waiting'
  OBVIOUS
<1> USE DEF IInv, TypeOK, Waiting
<1>1. CASE UNCHANGED vars
  BY <1>1 DEF vars
<1>2. ASSUME NEW p \in Proc, Begin(p) PROVE Waiting'
  <2>1. \A c \in Command : Locks(c) # {}
    BY Commands
  <2> QED
    BY <1>2, <2>1 DEF Begin
<1>3. ASSUME NEW p \in Proc, Open(p) PROVE Waiting'
  <2>1. /\ NextLock(p) \in todo[p]
        /\ \A k \in todo[p] : Place[NextLock(p)] <= Place[k]
    BY <1>3, NextIsLeast DEF Open
  <2> QED
    BY <1>3, <2>1 DEF Open, File
<1>4. ASSUME NEW p \in Proc, Flock(p) PROVE Waiting'
  BY <1>4 DEF Flock
<1>5. ASSUME NEW p \in Proc, GiveUp(p) PROVE Waiting'
  BY <1>5 DEF GiveUp
<1>6. ASSUME NEW p \in Proc, Connect(p) PROVE Waiting'
  BY <1>6 DEF Connect
<1>7. ASSUME NEW p \in Proc, Connected(p) PROVE Waiting'
  BY <1>7 DEF Connected
<1>8. ASSUME NEW p \in Proc, Done(p) PROVE Waiting'
  BY <1>8 DEF Done
<1>9. ASSUME NEW p \in Proc, Fail(p) PROVE Waiting'
  BY <1>9 DEF Fail
<1>10. ASSUME NEW p \in Proc, ReleaseOne(p) PROVE Waiting'
  BY <1>10 DEF ReleaseOne
<1>11. ASSUME NEW p \in Proc, End(p) PROVE Waiting'
  BY <1>11 DEF End
<1>12. ASSUME NEW p \in Proc, Crash(p) PROVE Waiting'
  BY <1>12 DEF Crash
<1>13. ASSUME NEW l \in Lock, Unlink(l) PROVE Waiting'
  BY <1>13 DEF Unlink
<1> QED
  BY <1>1, <1>2, <1>3, <1>4, <1>5, <1>6, <1>7, <1>8, <1>9, <1>10, <1>11, <1>12, <1>13
  DEF Next, Step

\* A command keeps each lock it has taken until it releases.
LEMMA CoveredStep == IInv /\ [Next]_vars => Covered'
<1> SUFFICES ASSUME IInv, [Next]_vars PROVE Covered'
  OBVIOUS
<1> USE DEF IInv, TypeOK, Covered
<1>1. CASE UNCHANGED vars
  BY <1>1 DEF vars, Waiting
<1>2. ASSUME NEW p \in Proc, Begin(p) PROVE Covered'
  BY <1>2, Commands DEF Begin
<1>3. ASSUME NEW p \in Proc, Open(p) PROVE Covered'
  BY <1>3 DEF Open, Waiting
<1>4. ASSUME NEW p \in Proc, Flock(p) PROVE Covered'
  BY <1>4 DEF Flock, Waiting
<1>5. ASSUME NEW p \in Proc, GiveUp(p) PROVE Covered'
  BY <1>5 DEF GiveUp, Waiting
<1>6. ASSUME NEW p \in Proc, Connect(p) PROVE Covered'
  <2>1. cmd[p] \in Command /\ todo[p] = {} /\ ~cmd[p].schema
    BY <1>6 DEF Connect, Waiting
  <2>2. \A l \in Locks(cmd[p]) : \E f \in held[p] : f[1] = l
    BY <1>6, <2>1 DEF Connect
  <2> QED
    BY <1>6, <2>1, <2>2 DEF Connect
<1>7. ASSUME NEW p \in Proc, Connected(p) PROVE Covered'
  <2>1. cmd[p] \in Command /\ todo[p] = {} /\ ~cmd[p].schema
    BY <1>7 DEF Connected, Connecting, Waiting
  <2>2. Schema \notin Locks(cmd[p])
    BY <2>1, LocksOfCommand
  <2>3. \A l \in Locks(cmd[p]) : \E f \in held[p] : f[1] = l
    BY <1>7, <2>1 DEF Connected
  <2> QED
    BY <1>7, <2>2, <2>3 DEF Connected
<1>8. ASSUME NEW p \in Proc, Done(p) PROVE Covered'
  BY <1>8 DEF Done, Waiting
<1>9. ASSUME NEW p \in Proc, Fail(p) PROVE Covered'
  BY <1>9 DEF Fail, Waiting
<1>10. ASSUME NEW p \in Proc, ReleaseOne(p) PROVE Covered'
  BY <1>10 DEF ReleaseOne, Waiting
<1>11. ASSUME NEW p \in Proc, End(p) PROVE Covered'
  BY <1>11 DEF End, Waiting
<1>12. ASSUME NEW p \in Proc, Crash(p) PROVE Covered'
  BY <1>12 DEF Crash, Waiting
<1>13. ASSUME NEW l \in Lock, Unlink(l) PROVE Covered'
  BY <1>13 DEF Unlink, Waiting
<1> QED
  BY <1>1, <1>2, <1>3, <1>4, <1>5, <1>6, <1>7, <1>8, <1>9, <1>10, <1>11, <1>12, <1>13
  DEF Next, Step

\* A file is granted to one process at a time.
LEMMA OnceStep == IInv /\ [Next]_vars => Once'
<1> SUFFICES ASSUME IInv, [Next]_vars PROVE Once'
  OBVIOUS
<1> USE DEF IInv, TypeOK, Once
<1>1. CASE UNCHANGED vars
  BY <1>1 DEF vars
<1>2. ASSUME NEW p \in Proc, Begin(p) PROVE Once'
  BY <1>2 DEF Begin
<1>3. ASSUME NEW p \in Proc, Open(p) PROVE Once'
  BY <1>3 DEF Open
<1>4. ASSUME NEW p \in Proc, Flock(p) PROVE Once'
  BY <1>4 DEF Flock, Free
<1>5. ASSUME NEW p \in Proc, GiveUp(p) PROVE Once'
  BY <1>5 DEF GiveUp
<1>6. ASSUME NEW p \in Proc, Connect(p) PROVE Once'
  BY <1>6 DEF Connect
<1>7. ASSUME NEW p \in Proc, Connected(p) PROVE Once'
  BY <1>7 DEF Connected
<1>8. ASSUME NEW p \in Proc, Done(p) PROVE Once'
  BY <1>8 DEF Done
<1>9. ASSUME NEW p \in Proc, Fail(p) PROVE Once'
  BY <1>9 DEF Fail
<1>10. ASSUME NEW p \in Proc, ReleaseOne(p) PROVE Once'
  BY <1>10 DEF ReleaseOne
<1>11. ASSUME NEW p \in Proc, End(p) PROVE Once'
  BY <1>11 DEF End
<1>12. ASSUME NEW p \in Proc, Crash(p) PROVE Once'
  BY <1>12 DEF Crash
<1>13. ASSUME NEW l \in Lock, Unlink(l) PROVE Once'
  BY <1>13 DEF Unlink
<1> QED
  BY <1>1, <1>2, <1>3, <1>4, <1>5, <1>6, <1>7, <1>8, <1>9, <1>10, <1>11, <1>12, <1>13
  DEF Next, Step

\* Only an unlink changes the file at a path.
LEMMA UnmovedStep == IInv /\ [Next]_vars => Unmoved'
<1> SUFFICES ASSUME IInv, [Next]_vars PROVE Unmoved'
  OBVIOUS
<1> USE DEF IInv, TypeOK, Unmoved
<1>1. CASE UNCHANGED vars
  BY <1>1 DEF vars, Waiting
<1>2. ASSUME NEW p \in Proc, Begin(p) PROVE Unmoved'
  BY <1>2 DEF Begin, Waiting
<1>3. ASSUME NEW p \in Proc, Open(p) PROVE Unmoved'
  <2>1. NextLock(p) \in Lock
    BY <1>3, NextIsLeast DEF Open, Waiting
  <2> QED
    BY <1>3, <2>1 DEF Open
<1>4. ASSUME NEW p \in Proc, Flock(p) PROVE Unmoved'
  BY <1>4 DEF Flock, Waiting
<1>5. ASSUME NEW p \in Proc, GiveUp(p) PROVE Unmoved'
  BY <1>5 DEF GiveUp, Waiting
<1>6. ASSUME NEW p \in Proc, Connect(p) PROVE Unmoved'
  BY <1>6 DEF Connect, Waiting
<1>7. ASSUME NEW p \in Proc, Connected(p) PROVE Unmoved'
  BY <1>7 DEF Connected, Waiting
<1>8. ASSUME NEW p \in Proc, Done(p) PROVE Unmoved'
  BY <1>8 DEF Done, Waiting
<1>9. ASSUME NEW p \in Proc, Fail(p) PROVE Unmoved'
  BY <1>9 DEF Fail, Waiting
<1>10. ASSUME NEW p \in Proc, ReleaseOne(p) PROVE Unmoved'
  BY <1>10 DEF ReleaseOne, Waiting
<1>11. ASSUME NEW p \in Proc, End(p) PROVE Unmoved'
  BY <1>11 DEF End, Waiting
<1>12. ASSUME NEW p \in Proc, Crash(p) PROVE Unmoved'
  BY <1>12 DEF Crash, Waiting
<1>13. ASSUME NEW l \in Lock, Unlink(l) PROVE Unmoved'
  BY <1>13 DEF Unlink, Waiting
<1> QED
  BY <1>1, <1>2, <1>3, <1>4, <1>5, <1>6, <1>7, <1>8, <1>9, <1>10, <1>11, <1>12, <1>13
  DEF Next, Step

\* A process goes idle with nothing held.
LEMMA NothingLeaksStep == IInv /\ [Next]_vars => NothingLeaks'
<1> SUFFICES ASSUME IInv, [Next]_vars PROVE NothingLeaks'
  OBVIOUS
<1> USE DEF IInv, TypeOK, NothingLeaks
<1>1. CASE UNCHANGED vars
  BY <1>1 DEF vars
<1>2. ASSUME NEW p \in Proc, Begin(p) PROVE NothingLeaks'
  BY <1>2 DEF Begin
<1>3. ASSUME NEW p \in Proc, Open(p) PROVE NothingLeaks'
  BY <1>3 DEF Open
<1>4. ASSUME NEW p \in Proc, Flock(p) PROVE NothingLeaks'
  BY <1>4 DEF Flock
<1>5. ASSUME NEW p \in Proc, GiveUp(p) PROVE NothingLeaks'
  BY <1>5 DEF GiveUp
<1>6. ASSUME NEW p \in Proc, Connect(p) PROVE NothingLeaks'
  BY <1>6 DEF Connect
<1>7. ASSUME NEW p \in Proc, Connected(p) PROVE NothingLeaks'
  BY <1>7 DEF Connected
<1>8. ASSUME NEW p \in Proc, Done(p) PROVE NothingLeaks'
  BY <1>8 DEF Done
<1>9. ASSUME NEW p \in Proc, Fail(p) PROVE NothingLeaks'
  BY <1>9 DEF Fail
<1>10. ASSUME NEW p \in Proc, ReleaseOne(p) PROVE NothingLeaks'
  BY <1>10 DEF ReleaseOne
<1>11. ASSUME NEW p \in Proc, End(p) PROVE NothingLeaks'
  BY <1>11 DEF End
<1>12. ASSUME NEW p \in Proc, Crash(p) PROVE NothingLeaks'
  BY <1>12 DEF Crash
<1>13. ASSUME NEW l \in Lock, Unlink(l) PROVE NothingLeaks'
  BY <1>13 DEF Unlink
<1> QED
  BY <1>1, <1>2, <1>3, <1>4, <1>5, <1>6, <1>7, <1>8, <1>9, <1>10, <1>11, <1>12, <1>13
  DEF Next, Step

\* IInv is inductive.
LEMMA Inductive == IInv /\ [Next]_vars => IInv'
  BY TypeStep, OrderedStep, WaitingStep, CoveredStep, OnceStep, UnmovedStep,
     NothingLeaksStep DEF IInv

\* Every reachable state satisfies the inductive invariant.
THEOREM Invariance == Spec => []IInv
<1>1. Init => IInv
  BY InitIInv
<1>2. IInv /\ [Next]_vars => IInv'
  BY Inductive
<1> QED
  BY <1>1, <1>2, PTL DEF Spec

-----------------------------------------------------------------------------
(* The properties.                                                         *)

\* Two bodies share no lock, as long as no path was unlinked.
LEMMA BodiesApart == IInv => Exclusive
<1> SUFFICES ASSUME IInv, unlinks = 0,
                    NEW p \in Proc, NEW q \in Proc, p # q, Inside(p), Inside(q),
                    NEW l \in Locks(cmd[p]) \cap Locks(cmd[q])
             PROVE  FALSE
  BY DEF Exclusive
<1>1. ASSUME NEW r \in {p, q} PROVE \E f \in held[r] : f = <<l, 0>>
  <2>1. l \in Locks(cmd[r]) /\ Inside(r)
    OBVIOUS
  <2>2. PICK f \in held[r] : f[1] = l
    BY <2>1 DEF IInv, Covered, Inside
  <2>3. f \in File /\ f[2] = 0
    BY <2>2 DEF IInv, TypeOK, Unmoved
  <2> QED
    BY <2>2, <2>3 DEF File
<1>2. <<l, 0>> \in held[p] \cap held[q]
  BY <1>1
<1> QED
  BY <1>2 DEF IInv, Once

\* One writer per domain, per project and per installation until a lock path is
\* unlinked: acquire_mutation_locks protects the bodies of transact, of the journal
\* commands and of every other holder.
THEOREM ExclusiveHolds == Spec => []Exclusive
  BY BodiesApart, Invariance, PTL

\* A process that waits for another wants a later lock than all it holds, so that
\* along a chain of waiting processes the places grow.
LEMMA ChainsGrow ==
    ASSUME IInv, NEW p \in Proc, NEW q \in Proc, WaitsFor(p, q), pc[q] = "flock"
    PROVE  Place[opened[p][1]] < Place[opened[q][1]]
  BY DEF IInv, WaitsFor, Ordered, Waiting

\* The place of a waiting process is bounded by that of schema.lock.
LEMMA PlaceBounded ==
    ASSUME IInv, NEW p \in Proc, pc[p] = "flock"
    PROVE  Place[opened[p][1]] \in 0..Place[Schema]
<1>1. opened[p][1] \in Lock
  BY DEF IInv, Waiting, File
<1> QED
  BY <1>1, Places DEF Lock

\* In any set of processes the one that waits for the last lock waits for nobody of
\* the set.
LEMMA SomebodyMoves == IInv => NoCircularWait
<1> SUFFICES ASSUME IInv, NEW S \in SUBSET Proc, S # {},
                    \A p \in S : \E q \in S : WaitsFor(p, q)
             PROVE  FALSE
  BY DEF NoCircularWait
<1> DEFINE Left(p) == Place[Schema] - Place[opened[p][1]]
           T == {Left(p) : p \in S}
<1>1. \A p \in S : pc[p] = "flock"
  BY DEF WaitsFor
<1>2. Place[Schema] \in Nat
  BY Places DEF Lock
<1>3. \A p \in S : Place[opened[p][1]] \in 0..Place[Schema]
  BY <1>1, PlaceBounded
<1>4. \A p \in S : Left(p) \in 0..Place[Schema]
  BY <1>2, <1>3
<1>5. T \in SUBSET (0..Place[Schema]) /\ T # {}
  BY <1>4
<1>6. PICK n \in T : \A m \in T : n <= m
  <2> HIDE DEF T
  <2> QED
    BY <1>2, <1>5, LeastOf
<1>7. PICK p \in S : n = Left(p)
  BY <1>6
<1>8. PICK q \in S : WaitsFor(p, q)
  OBVIOUS
<1>9. Place[opened[p][1]] < Place[opened[q][1]]
  BY <1>1, <1>8, ChainsGrow
<1>10. Left(q) < Left(p)
  BY <1>2, <1>3, <1>9
<1>11. Left(q) \in T
  OBVIOUS
<1>12. n <= Left(q)
  BY <1>6, <1>11
<1>13. n = Left(p) /\ Left(p) \in Nat /\ Left(q) \in Nat
  BY <1>4, <1>7
<1> QED
  <2> HIDE DEF Left, T
  <2> QED
    BY <1>10, <1>12, <1>13

\* No deadlock: whatever processes run whatever commands, they never all wait for
\* each other, with or without unlinked paths.
THEOREM NoCircularWaitHolds == Spec => []NoCircularWait
  BY Invariance, SomebodyMoves, PTL

\* Every variable keeps its type: what a process holds and has yet to take are locks and
\* files of locks, for any commands, any number of processes and any unlinks.
THEOREM TypeCorrect == Spec => []TypeOK
<1>1. IInv => TypeOK
  BY DEF IInv
<1> QED
  BY <1>1, Invariance, PTL

\* A process between commands holds no lock, however its last command ended.
THEOREM NothingLeaksHolds == Spec => []NothingLeaks
<1>1. IInv => NothingLeaks
  BY DEF IInv
<1> QED
  BY <1>1, Invariance, PTL

=============================================================================
