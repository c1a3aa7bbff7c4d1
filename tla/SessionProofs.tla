---------------------------- MODULE SessionProofs ----------------------------
(***************************************************************************)
(* What sessions do to a store of their own, for any number of them: the   *)
(* usage windows that dreams count and justifications go by, the rows of   *)
(* the cycle log, the index that cm local keeps of the facts, the rows of  *)
(* the operational log, the room that a pull makes in an index; and what   *)
(* the filters of sequences return that they are read through, and the     *)
(* sums of costs.                                                          *)
(***************************************************************************)
EXTENDS DreamCycle, NativeStore, OpsLog, EvictToReceive, SequencesExt, FiniteSetTheorems,
        SequenceTheorems, TLAPS

-----------------------------------------------------------------------------
(* Filters of a sequence (Sifting).                                        *)

\* Induction, from the pigeonhole principle: the numbers of T up to one that is not in it
\* would map, by the successor, one to one on those but 0.
LEMMA Induction ==
    ASSUME NEW T, 0 \in T, \A n \in Nat : n \in T => n + 1 \in T
    PROVE  Nat \subseteq T
<1> SUFFICES ASSUME NEW k \in Nat, k \notin T
             PROVE  FALSE
  OBVIOUS
<1> DEFINE S == T \cap 0..k
           next == [n \in S |-> n + 1]
<1>1. IsFiniteSet(0..k) /\ S \subseteq 0..k
  BY FS_Interval
<1>2. IsFiniteSet(S) /\ 0 \in S
  BY <1>1, FS_Subset
<1>3. next \in Injection(S, S \ {0})
  BY DEF Injection, IsInjective
<1>4. IsFiniteSet(S \ {0}) /\ Cardinality(S \ {0}) = Cardinality(S) - 1
  BY <1>2, FS_RemoveElement
<1>5. Cardinality(S) <= Cardinality(S \ {0})
  BY <1>3, <1>4, FS_Injection
<1>6. Cardinality(S) \in Nat
  BY <1>2, FS_CardinalityType
<1> QED
  BY <1>4, <1>5, <1>6

\* The recursion of Sifted is well founded.
Sifts(kept, s, S, n) ==
    /\ DOMAIN kept = 0..n
    /\ kept[0] = << >>
    /\ \A i \in 1..n : kept[i] = IF s[i] \in S THEN Append(kept[i - 1], s[i]) ELSE kept[i - 1]

IsSift(kept, s, S, n) ==
    kept = [i \in 0..n |->
                IF i = 0 THEN << >>
                ELSE IF s[i] \in S THEN Append(kept[i - 1], s[i]) ELSE kept[i - 1]]

Part(s, n) == {s[i] : i \in 1..n}

LEMMA SiftExists ==
    ASSUME NEW s, NEW S, NEW N \in Nat
    PROVE  \E kept : IsSift(kept, s, S, N)
<1> DEFINE Is(kept, n) == IsSift(kept, s, S, n)
           T == {n \in Nat : \E kept : Is(kept, n)}
<1>1. 0 \in T
  <2> DEFINE none == [i \in 0..0 |-> << >>]
  <2>1. Is(none, 0)
    BY DEF IsSift
  <2> QED
    BY <2>1
<1>2. ASSUME NEW n \in Nat, n \in T
      PROVE  n + 1 \in T
  <2>1. PICK kept : Is(kept, n)
    BY <1>2
  <2> DEFINE last == IF s[n + 1] \in S THEN Append(kept[n], s[n + 1]) ELSE kept[n]
             more == [i \in 0..(n + 1) |-> IF i = n + 1 THEN last ELSE kept[i]]
             goal(i) == IF i = 0 THEN << >>
                        ELSE IF s[i] \in S THEN Append(more[i - 1], s[i]) ELSE more[i - 1]
  <2>2. ASSUME NEW i \in 0..n
        PROVE  more[i] = goal(i)
    <3>1. kept[i] = IF i = 0 THEN << >>
                    ELSE IF s[i] \in S THEN Append(kept[i - 1], s[i]) ELSE kept[i - 1]
      BY <2>1 DEF IsSift
    <3>2. more[i] = kept[i] /\ (i # 0 => more[i - 1] = kept[i - 1])
      OBVIOUS
    <3> HIDE DEF more
    <3> QED
      BY <3>1, <3>2
  <2>3. more[n + 1] = goal(n + 1)
    <3>1. more[n + 1] = last /\ more[n] = kept[n] /\ n + 1 # 0 /\ (n + 1) - 1 = n
      OBVIOUS
    <3> HIDE DEF more
    <3> QED
      BY <3>1
  <2>4. more = [i \in 0..(n + 1) |-> more[i]]
    OBVIOUS
  <2>5. \A i \in 0..(n + 1) : more[i] = goal(i)
    <3>1. \A i \in 0..(n + 1) : i \in 0..n \/ i = n + 1
      OBVIOUS
    <3> HIDE DEF goal
    <3> QED
      BY <2>2, <2>3, <3>1
  <2>6. Is(more, n + 1)
    <3> HIDE DEF more
    <3> QED
      BY <2>4, <2>5 DEF IsSift
  <2> HIDE DEF Is
  <2> QED
    BY <2>6
<1>3. N \in T
  <2> HIDE DEF T
  <2> QED
    BY <1>1, <1>2, Induction
<1> QED
  BY <1>3

LEMMA SiftedIs ==
    ASSUME NEW X, NEW s \in Seq(X), NEW S
    PROVE  \E kept : Sifts(kept, s, S, Len(s)) /\ Sifted(s, S) = kept[Len(s)]
<1> DEFINE kept == CHOOSE f : IsSift(f, s, S, Len(s))
<1>1. Len(s) \in Nat
  OBVIOUS
<1>2. IsSift(kept, s, S, Len(s))
  BY <1>1, SiftExists
<1>3. Sifted(s, S) = kept[Len(s)]
  BY Zenon DEF Sifted, IsSift
<1> HIDE DEF kept
<1>4. Sifts(kept, s, S, Len(s))
  <2>1. DOMAIN kept = 0..Len(s)
    BY <1>2 DEF IsSift
  <2>2. \A i \in 0..Len(s) : kept[i] =
                IF i = 0 THEN << >>
                ELSE IF s[i] \in S THEN Append(kept[i - 1], s[i]) ELSE kept[i - 1]
    BY <1>2 DEF IsSift
  <2>3. 0 \in 0..Len(s) /\ \A i \in 1..Len(s) : i \in 0..Len(s) /\ i # 0
    BY <1>1
  <2> QED
    BY <2>1, <2>2, <2>3 DEF Sifts
<1> QED
  BY <1>3, <1>4

LEMMA AppendToSet ==
    ASSUME NEW X, NEW s \in Seq(X), NEW x \in X
    PROVE  Append(s, x) \in Seq(X) /\ ToSet(Append(s, x)) = ToSet(s) \cup {x}
<1> DEFINE t == Append(s, x)
           n == Len(s)
<1>1. n \in Nat /\ DOMAIN s = 1..n /\ t \in Seq(X) /\ DOMAIN t = 1..(n + 1)
  OBVIOUS
<1>2. t[n + 1] = x /\ \A i \in 1..n : t[i] = s[i]
  OBVIOUS
<1>3. \A i : i \in 1..(n + 1) <=> i \in 1..n \/ i = n + 1
  BY <1>1
<1> HIDE DEF t, n
<1> QED
  BY <1>1, <1>2, <1>3 DEF ToSet, t

\* What the first n members leave.
LEMMA SiftsRange ==
    ASSUME NEW X, NEW s \in Seq(X), NEW S, NEW kept, Sifts(kept, s, S, Len(s)),
           NEW n \in 0..Len(s)
    PROVE  /\ kept[n] \in Seq(X)
           /\ ToSet(kept[n]) = Part(s, n) \cap S
<1> DEFINE Good(m) == kept[m] \in Seq(X) /\ ToSet(kept[m]) = Part(s, m) \cap S
           T == {m \in Nat : m <= Len(s) => Good(m)}
<1>1. 0 \in T
  <2>1. kept[0] = << >>
    BY DEF Sifts
  <2>2. << >> \in Seq(X) /\ ToSet(<< >>) = {}
    BY DEF ToSet
  <2>3. Part(s, 0) = {}
    BY DEF Part
  <2> QED
    BY <2>1, <2>2, <2>3
<1>2. ASSUME NEW m \in Nat, m \in T
      PROVE  m + 1 \in T
  <2> SUFFICES ASSUME m + 1 <= Len(s)
               PROVE  Good(m + 1)
    OBVIOUS
  <2>1. Good(m) /\ m + 1 \in 1..Len(s) /\ s[m + 1] \in X
    BY <1>2
  <2>2. kept[m + 1] = IF s[m + 1] \in S THEN Append(kept[m], s[m + 1]) ELSE kept[m]
    BY <2>1 DEF Sifts
  <2>3. Part(s, m + 1) = Part(s, m) \cup {s[m + 1]}
    BY DEF Part
  <2>4. CASE s[m + 1] \in S
    <3>1. Append(kept[m], s[m + 1]) \in Seq(X)
          /\ ToSet(Append(kept[m], s[m + 1])) = ToSet(kept[m]) \cup {s[m + 1]}
      BY <2>1, AppendToSet
    <3> QED
      BY <2>1, <2>2, <2>3, <2>4, <3>1
  <2>5. CASE s[m + 1] \notin S
    BY <2>1, <2>2, <2>3, <2>5
  <2> QED
    BY <2>4, <2>5
<1>3. n \in T
  <2> HIDE DEF T
  <2> QED
    BY <1>1, <1>2, Induction
<1> QED
  BY <1>3

\* SiftedRange: a filter keeps the members that are in the set, and no other.
LEMMA SiftedRange ==
    ASSUME NEW X, NEW s \in Seq(X), NEW S
    PROVE  Sifted(s, S) \in Seq(X) /\ ToSet(Sifted(s, S)) = ToSet(s) \cap S
<1>1. PICK kept : Sifts(kept, s, S, Len(s)) /\ Sifted(s, S) = kept[Len(s)]
  BY SiftedIs
<1>2. Len(s) \in Nat /\ DOMAIN s = 1..Len(s)
  OBVIOUS
<1>3. Len(s) \in 0..Len(s) /\ ToSet(s) = Part(s, Len(s))
  BY <1>2 DEF ToSet, Part
<1> HIDE DEF ToSet
<1> QED
  BY <1>1, <1>3, SiftsRange

\* Its last is the last of s, the others are of those before.
EndsAs(kept, s) ==
    /\ Len(kept) \in Nat \ {0} /\ kept[Len(kept)] = s[Len(s)]
    /\ \A i \in 1..(Len(kept) - 1) : \E h \in 1..(Len(s) - 1) : kept[i] = s[h]

\* SiftedLast: if it keeps the last, that is the last it keeps.
LEMMA SiftedLast ==
    ASSUME NEW X, NEW s \in Seq(X), NEW S, s # << >>, s[Len(s)] \in S
    PROVE  EndsAs(Sifted(s, S), s)
<1> DEFINE N == Len(s)
<1>1. PICK sift : Sifts(sift, s, S, N) /\ Sifted(s, S) = sift[N]
  BY SiftedIs
<1>2. N \in Nat \ {0} /\ N - 1 \in 0..N
  OBVIOUS
<1>3. sift[N - 1] \in Seq(X) /\ ToSet(sift[N - 1]) = Part(s, N - 1) \cap S
  BY <1>1, <1>2, SiftsRange
<1>4. Sifted(s, S) = Append(sift[N - 1], s[N])
  <2>1. N \in 1..N /\ s[N] \in S
    BY <1>2
  <2> HIDE DEF N
  <2> QED
    BY <1>1, <2>1 DEF Sifts
<1>5. s[N] \in X
  BY <1>2
<1> DEFINE u == sift[N - 1]
           t == Append(u, s[N])
<1>6. Len(u) \in Nat /\ Len(t) = Len(u) + 1 /\ t[Len(t)] = s[N] /\ \A i \in 1..Len(u) : t[i] = u[i]
  BY <1>3, <1>5
<1>7. \A i \in 1..Len(u) : u[i] \in Part(s, N - 1)
  <2>1. \A i \in 1..Len(u) : u[i] \in ToSet(u)
    <3>1. DOMAIN u = 1..Len(u)
      BY <1>3
    <3> HIDE DEF u
    <3> QED
      BY <3>1 DEF ToSet
  <2> HIDE DEF u
  <2> QED
    BY <1>3, <2>1 DEF u
<1> HIDE DEF u, t
<1>8. \A i \in 1..(Len(t) - 1) : \E h \in 1..(N - 1) : t[i] = s[h]
  <2>1. Len(t) - 1 = Len(u)
    BY <1>6
  <2> HIDE DEF N
  <2> QED
    BY <1>6, <1>7, <2>1 DEF Part
<1> QED
  BY <1>4, <1>6, <1>8 DEF t, u, EndsAs

-----------------------------------------------------------------------------
(* The usage windows of a project (DreamCycle).                            *)
(*                                                                         *)
(* Why sequences leave no gap: an INSERT carries a sequence of at most one *)
(* more than there are windows.  Is it no more than that, it is taken,     *)
(* because as many windows as sequences have all of them (Filled).         *)

Sitting == Dreamer \cup Justifier

Distinct ==
    \A v, w \in windows : v # w => v.cycle # w.cycle /\ v.sequence # w.sequence

Clocked ==
    /\ marker \in [ts : Nat, justify : SUBSET Nat]
    /\ stamps \in Nat
    /\ DOMAIN dreamer = Sitting
    /\ IsFiniteSet(windows)
    /\ \A w \in windows : w.sequence \in 1..Cardinality(windows)
    /\ Distinct
    /\ \A d \in Sitting :
          /\ dreamer[d].pc = "insert" => dreamer[d].sequence \in 1..(Cardinality(windows) + 1)
          /\ dreamer[d].pc = "justify" => dreamer[d].sequence \in 0..Cardinality(windows)
    /\ marker.justify \subseteq 0..Cardinality(windows)

\* A sequence within the number of windows is the sequence of one of them.
LEMMA Filled ==
    ASSUME Clocked, NEW n \in 1..Cardinality(windows)
    PROVE  \E w \in windows : w.sequence = n
<1> DEFINE f == [w \in windows |-> w.sequence]
           N == Cardinality(windows)
<1>1. N \in Nat
  BY FS_CardinalityType DEF Clocked
<1>2. IsFiniteSet(1..N) /\ Cardinality(1..N) = N
  BY <1>1, FS_Interval
<1>3. f \in Injection(windows, 1..N)
  BY DEF Clocked, Distinct, Injection, IsInjective
<1>4. f \in Surjection(windows, 1..N)
  BY <1>2, <1>3, FS_Injection
<1> QED
  BY <1>4 DEF Surjection

\* An INSERT that is not refused has the next sequence.
LEMMA InsertsNext ==
    ASSUME Clocked, NEW d \in Sitting, dreamer[d].pc = "insert", ~Taken(dreamer[d])
    PROVE  /\ Cardinality(windows) \in Nat
           /\ dreamer[d].sequence = Cardinality(windows) + 1
<1> DEFINE N == Cardinality(windows)
           n == dreamer[d].sequence
<1>1. N \in Nat
  BY FS_CardinalityType DEF Clocked
<1>2. n \in 1..(N + 1)
  BY DEF Clocked
<1>3. n \notin 1..N
  BY Filled DEF Taken
<1> QED
  BY <1>1, <1>2, <1>3

\* What a step but Insert must keep: its process may have read the clock as it is.
LEMMA ClockStands ==
    ASSUME Clocked, UNCHANGED windows, NEW d \in Sitting, NEW state,
           dreamer' = [dreamer EXCEPT ![d] = state],
           state.pc = "insert" => state.sequence \in 1..(Cardinality(windows) + 1),
           state.pc = "justify" => state.sequence \in 0..Cardinality(windows),
           marker' \in [ts : Nat, justify : SUBSET Nat],
           marker'.justify \subseteq 0..Cardinality(windows),
           stamps' \in Nat
    PROVE  Clocked'
BY DEF Clocked, Distinct, Sitting

LEMMA ClockInit == DreamInit => Clocked
<1> SUFFICES ASSUME DreamInit
             PROVE  Clocked
  OBVIOUS
<1>1. IsFiniteSet(windows) /\ Cardinality(windows) = 0
  BY FS_EmptySet DEF DreamInit
<1>2. \A d \in Sitting : dreamer[d].pc = "asleep"
  BY DEF DreamInit, Sitting, Asleep
<1> QED
  BY <1>1, <1>2 DEF DreamInit, Clocked, Distinct, Sitting, Unset

LEMMA ClockInsert ==
    ASSUME Clocked, NEW d \in Sitting, Insert(d)
    PROVE  Clocked'
<1> DEFINE m == dreamer[d]
           N == Cardinality(windows)
<1>1. CASE Taken(m)
  <2>1. UNCHANGED windows
    BY <1>1 DEF Insert, InsertRow
  <2>2. dreamer' = [dreamer EXCEPT ![d] = Rendering("count", m.r, m.ts)]
    BY <1>1 DEF Insert, SessionGoes
  <2>3. Rendering("count", m.r, m.ts).pc = "count"
    BY DEF Rendering
  <2>4. UNCHANGED <<marker, stamps>>
    BY DEF Insert
  <2> HIDE DEF m
  <2> QED
    BY <2>1, <2>2, <2>3, <2>4, ClockStands DEF Clocked
<1>2. CASE ~Taken(m)
  <2>1. N \in Nat /\ m.pc = "insert" /\ m.sequence = N + 1
    BY <1>2, InsertsNext DEF Insert
  <2>2. PICK probative \in Worth :
           windows' = windows \cup {[cycle |-> m.ts, sequence |-> m.sequence,
                                     probative |-> probative]}
    BY <1>2 DEF Insert, InsertRow
  <2> DEFINE w == [cycle |-> m.ts, sequence |-> m.sequence, probative |-> probative]
  <2>3. w.cycle = m.ts /\ w.sequence = N + 1
    BY <2>1
  <2>4. \A v \in windows : v.cycle # w.cycle /\ v.sequence # w.sequence
    BY <1>2, <2>1, <2>3 DEF Taken
  <2>5. windows' = windows \cup {w} /\ w \notin windows
    BY <2>2, <2>4
  <2>6. IsFiniteSet(windows)
    BY DEF Clocked
  <2> HIDE DEF w
  <2>7. IsFiniteSet(windows') /\ Cardinality(windows') = N + 1
    BY <2>5, <2>6, FS_AddElement
  <2>8. \A v \in windows' : v.sequence \in 1..Cardinality(windows')
    BY <2>1, <2>3, <2>5, <2>7 DEF Clocked
  <2>9. Distinct'
    BY <2>4, <2>5 DEF Clocked, Distinct
  <2>10. dreamer' = [dreamer EXCEPT ![d] = Rendering("heal", m.r, m.ts)]
    BY <1>2 DEF Insert, SessionGoes
  <2>11. Rendering("heal", m.r, m.ts).pc = "heal"
    BY DEF Rendering
  <2>12. DOMAIN dreamer' = Sitting /\ dreamer'[d].pc = "heal"
         /\ \A e \in Sitting \ {d} : dreamer'[e] = dreamer[e]
    BY <2>10, <2>11 DEF Clocked
  <2>13. \A e \in Sitting :
            /\ dreamer'[e].pc = "insert" => dreamer'[e].sequence \in 1..(Cardinality(windows') + 1)
            /\ dreamer'[e].pc = "justify" => dreamer'[e].sequence \in 0..Cardinality(windows')
    BY <2>1, <2>7, <2>12 DEF Clocked
  <2>14. marker' = marker /\ stamps' = stamps
    BY DEF Insert
  <2>15. marker.justify \subseteq 0..Cardinality(windows')
    BY <2>1, <2>7 DEF Clocked
  <2> QED
    BY <2>7, <2>8, <2>9, <2>12, <2>13, <2>14, <2>15 DEF Clocked
<1> QED
  BY <1>1, <1>2

\* A pass that is not counting, or a process that dies.
LEMMA ClockPass ==
    ASSUME Clocked, NEW d \in Dreamer, Pass(d) \/ Mishap(d)
    PROVE  Clocked'
<1> DEFINE N == Cardinality(windows)
<1>0. d \in Sitting /\ marker \in [ts : Nat, justify : SUBSET Nat]
      /\ marker.justify \subseteq 0..N /\ stamps \in Nat /\ N \in Nat
  BY FS_CardinalityType DEF Sitting, Clocked
<1>1. ASSUME Seed(d) \/ \E duty \in Seeded : Fill(d, duty)
      PROVE  Clocked'
  <2>1. UNCHANGED <<marker, windows, dreamer, stamps>>
    BY <1>1 DEF Seed, Fill
  <2> QED
    BY <2>1 DEF Clocked, Distinct
<1>2. ASSUME StampMarker(d)
      PROVE  Clocked'
  <2>1. UNCHANGED <<windows, dreamer>> /\ stamps' \in Nat
    BY <1>0, <1>2 DEF StampMarker
  <2>2. marker' = [marker EXCEPT !.ts = stamps']
    BY <1>2 DEF StampMarker
  <2>3. marker' \in [ts : Nat, justify : SUBSET Nat] /\ marker'.justify = marker.justify
    BY <1>0, <2>1, <2>2
  <2> QED
    BY <1>0, <2>1, <2>3 DEF Clocked, Distinct
<1>3. ASSUME NEW pc \in {"append", "count", "heal", "uncounted"}, NEW r, NEW ts,
             dreamer' = [dreamer EXCEPT ![d] = Rendering(pc, r, ts)],
             UNCHANGED <<marker, windows, stamps>>
      PROVE  Clocked'
  <2>1. Rendering(pc, r, ts).pc \notin {"insert", "justify"}
    BY <1>3 DEF Rendering
  <2> QED
    BY <1>0, <1>3, <2>1, ClockStands
<1>4. ASSUME Render(d) \/ RenderBlind(d)
      PROVE  Clocked'
  BY <1>3, <1>4 DEF Render, RenderBlind, SessionGoes
<1>5. ASSUME AppendRow(d) \/ CountFails(d)
      PROVE  Clocked'
  BY <1>3, <1>5 DEF AppendRow, CountFails, SessionGoes
<1>6. ASSUME Count(d)
      PROVE  Clocked'
  <2> DEFINE m == dreamer[d]
  <2>1. UNCHANGED <<marker, windows, stamps>>
    BY <1>6 DEF Count
  <2>2. CASE \E w \in windows : w.cycle = m.ts
    BY <1>3, <1>6, <2>1, <2>2 DEF Count, SessionGoes
  <2>3. CASE ~\E w \in windows : w.cycle = m.ts
    <3> DEFINE state == [pc |-> "insert", r |-> m.r, ts |-> m.ts, sequence |-> N + 1]
    <3>1. dreamer' = [dreamer EXCEPT ![d] = state]
      BY <1>6, <2>3 DEF Count, SessionGoes
    <3>2. state.pc = "insert" /\ state.sequence \in 1..(N + 1)
      BY <1>0
    <3> HIDE DEF state
    <3> QED
      BY <1>0, <2>1, <3>1, <3>2, ClockStands
  <2> QED
    BY <2>2, <2>3
<1>7. ASSUME AppendFails(d) \/ Heal(d) \/ HealFails(d) \/ DreamCrash(d)
      PROVE  Clocked'
  <2>1. dreamer' = [dreamer EXCEPT ![d] = Asleep] /\ UNCHANGED <<marker, windows, stamps>>
    BY <1>7 DEF AppendFails, Heal, HealFails, Finish, DreamCrash, SessionGoes
  <2>2. Asleep.pc = "asleep"
    BY DEF Asleep
  <2> QED
    BY <1>0, <2>1, <2>2, ClockStands
<1> QED
  BY <1>0, <1>1, <1>2, <1>4, <1>5, <1>6, <1>7, ClockInsert DEF Pass, Mishap

LEMMA ClockJustification ==
    ASSUME Clocked, NEW d \in Justifier, Justification(d)
    PROVE  Clocked'
<1> DEFINE N == Cardinality(windows)
<1>0. d \in Sitting /\ marker \in [ts : Nat, justify : SUBSET Nat]
      /\ marker.justify \subseteq 0..N /\ stamps \in Nat /\ N \in Nat
  BY FS_CardinalityType DEF Sitting, Clocked
<1>1. ASSUME NEW force \in BOOLEAN, JustifyBegin(d, force)
      PROVE  Clocked'
  <2> DEFINE state == [pc |-> "justify", sequence |-> N, quiet |-> Suppressed(marker.justify)]
  <2>1. dreamer' = [dreamer EXCEPT ![d] = state] /\ UNCHANGED <<marker, windows, stamps>>
    BY <1>1 DEF JustifyBegin, SessionGoes
  <2>2. state.pc = "justify" /\ state.sequence \in 0..N
    BY <1>0
  <2> HIDE DEF state
  <2> QED
    BY <1>0, <2>1, <2>2, ClockStands
<1>2. ASSUME Justify(d)
      PROVE  Clocked'
  <2>1. dreamer' = [dreamer EXCEPT ![d] = Asleep] /\ UNCHANGED <<windows, stamps>>
    BY <1>2 DEF Justify, SessionGoes
  <2>2. Asleep.pc = "asleep"
    BY DEF Asleep
  <2>3. dreamer[d].sequence \in 0..N
    BY <1>0, <1>2 DEF Justify, Clocked
  <2>4. marker' = marker \/ marker' = [marker EXCEPT !.justify = {dreamer[d].sequence}]
    BY <1>2 DEF Justify
  <2>5. marker' \in [ts : Nat, justify : SUBSET Nat] /\ marker'.justify \subseteq 0..N
    BY <1>0, <2>3, <2>4
  <2> QED
    BY <1>0, <2>1, <2>2, <2>5, ClockStands
<1> QED
  BY <1>1, <1>2 DEF Justification

LEMMA ClockStep == Clocked /\ [DreamNext]_dreamvars => Clocked'
<1> SUFFICES ASSUME Clocked, [DreamNext]_dreamvars
             PROVE  Clocked'
  OBVIOUS
<1>1. CASE UNCHANGED dreamvars
  BY <1>1 DEF Clocked, Distinct, dreamvars
<1> QED
  BY <1>1, ClockPass, ClockJustification DEF DreamNext

LEMMA ClockedHolds == DreamSpec => []Clocked
BY ClockInit, ClockStep, PTL DEF DreamSpec

\* What the counter of a cycle leaves behind when it is through.
LEMMA Counts ==
    ASSUME Clocked, DreamNext, NEW d \in Dreamer, dreamer[d].pc \in {"count", "insert"},
           dreamer'[d].pc = "heal"
    PROVE  \E w \in windows' : w.cycle = dreamer[d].ts
<1>0. d \in Sitting /\ DOMAIN dreamer = Sitting /\ dreamer[d].pc # "heal"
  BY DEF Sitting, Clocked
<1>1. dreamer'[d] # dreamer[d]
  BY <1>0
<1>2. ASSUME NEW e \in Sitting, NEW state, dreamer' = [dreamer EXCEPT ![e] = state]
      PROVE  e = d /\ state.pc = "heal"
  BY <1>0, <1>1, <1>2
<1>3. ASSUME Count(d)
      PROVE  \E w \in windows' : w.cycle = dreamer[d].ts
  <2>1. UNCHANGED windows
    BY <1>3 DEF Count
  <2>2. CASE ~\E w \in windows : w.cycle = dreamer[d].ts
    <3> DEFINE state == [pc |-> "insert", r |-> dreamer[d].r, ts |-> dreamer[d].ts,
                         sequence |-> Cardinality(windows) + 1]
    <3>1. dreamer' = [dreamer EXCEPT ![d] = state]
      BY <1>3, <2>2 DEF Count, SessionGoes
    <3>2. state.pc = "insert"
      OBVIOUS
    <3> HIDE DEF state
    <3> QED
      BY <1>0, <1>2, <3>1, <3>2
  <2> QED
    BY <2>1, <2>2
<1>4. ASSUME Insert(d)
      PROVE  \E w \in windows' : w.cycle = dreamer[d].ts
  <2>1. CASE Taken(dreamer[d])
    <3>1. dreamer' = [dreamer EXCEPT ![d] = Rendering("count", dreamer[d].r, dreamer[d].ts)]
      BY <1>4, <2>1 DEF Insert, SessionGoes
    <3>2. Rendering("count", dreamer[d].r, dreamer[d].ts).pc = "count"
      BY DEF Rendering
    <3> QED
      BY <1>0, <1>2, <3>1, <3>2
  <2>2. CASE ~Taken(dreamer[d])
    <3>1. PICK probative \in Worth :
             windows' = windows \cup {[cycle |-> dreamer[d].ts,
                            sequence |-> dreamer[d].sequence, probative |-> probative]}
      BY <1>4, <2>2 DEF Insert, InsertRow
    <3> DEFINE w == [cycle |-> dreamer[d].ts, sequence |-> dreamer[d].sequence,
                     probative |-> probative]
    <3>2. w \in windows' /\ w.cycle = dreamer[d].ts
      BY <3>1
    <3> HIDE DEF w
    <3> QED
      BY <3>2
  <2> QED
    BY <2>1, <2>2
<1>5. ASSUME NEW e \in Dreamer, Pass(e) \/ Mishap(e)
      PROVE  \E w \in windows' : w.cycle = dreamer[d].ts
  <2>0. e \in Sitting
    BY DEF Sitting
  <2>1. CASE Seed(e) \/ StampMarker(e) \/ \E duty \in Seeded : Fill(e, duty)
    BY <1>1, <2>1 DEF Seed, StampMarker, Fill
  <2>2. CASE Count(e)
    BY <1>2, <1>3, <2>0, <2>2 DEF Count, SessionGoes
  <2>3. CASE Insert(e)
    BY <1>2, <1>4, <2>0, <2>3 DEF Insert, SessionGoes
  <2>4. CASE Render(e) \/ RenderBlind(e)
    <3>1. e = d
      BY <1>2, <2>0, <2>4 DEF Render, RenderBlind, SessionGoes
    <3> QED
      BY <2>4, <3>1 DEF Render, RenderBlind, Asleep
  <2>5. CASE AppendRow(e) \/ CountFails(e)
    <3>1. PICK pc \in {"count", "uncounted"} :
              dreamer' = [dreamer EXCEPT ![e] = Rendering(pc, dreamer[e].r, dreamer[e].ts)]
      BY <2>5 DEF AppendRow, CountFails, SessionGoes
    <3> QED
      BY <1>2, <2>0, <3>1 DEF Rendering
  <2>6. CASE AppendFails(e) \/ Heal(e) \/ HealFails(e) \/ DreamCrash(e)
    <3>1. dreamer' = [dreamer EXCEPT ![e] = Asleep] /\ Asleep.pc = "asleep"
      BY <2>6 DEF AppendFails, Heal, HealFails, Finish, DreamCrash, SessionGoes, Asleep
    <3> QED
      BY <1>2, <2>0, <3>1
  <2> QED
    BY <1>5, <2>1, <2>2, <2>3, <2>4, <2>5, <2>6 DEF Pass, Mishap
<1>6. ASSUME NEW e \in Justifier, Justification(e)
      PROVE  FALSE
  <2>0. e \in Sitting
    BY DEF Sitting
  <2>1. ASSUME NEW force \in BOOLEAN, JustifyBegin(e, force)
        PROVE  FALSE
    <3> DEFINE state == [pc |-> "justify", sequence |-> Cardinality(windows),
                         quiet |-> Suppressed(marker.justify)]
    <3>1. dreamer' = [dreamer EXCEPT ![e] = state]
      BY <2>1 DEF JustifyBegin, SessionGoes
    <3>2. state.pc = "justify"
      OBVIOUS
    <3> HIDE DEF state
    <3> QED
      BY <1>2, <2>0, <3>1, <3>2
  <2>2. ASSUME Justify(e)
        PROVE  FALSE
    <3>1. dreamer' = [dreamer EXCEPT ![e] = Asleep] /\ Asleep.pc = "asleep"
      BY <2>2 DEF Justify, SessionGoes, Asleep
    <3> QED
      BY <1>2, <2>0, <3>1
  <2> QED
    BY <1>6, <2>1, <2>2 DEF Justification
<1> QED
  BY <1>5, <1>6 DEF DreamNext

\* CountsEachCycleOnce: however many sessions record their cycles at once, and whichever
\* of them die in between, a cycle is counted once, the sequences have no gap, and a
\* recorder that is through finds its cycle counted (record_usage_window).
THEOREM CountsEachCycleOnce == DreamSpec => WindowCounted
<1> DEFINE Body ==
        /\ \A w \in windows' : w.sequence \in 1..Cardinality(windows')
                 /\ \A v \in windows' \ {w} : v.cycle # w.cycle /\ v.sequence # w.sequence
        /\ \A d \in Dreamer : dreamer[d].pc \in {"count", "insert"} /\ dreamer'[d].pc = "heal"
                 => \E w \in windows' : w.cycle = dreamer[d].ts
<1>1. ASSUME Clocked, DreamNext
      PROVE  Body
  <2>1. Clocked'
    BY <1>1, ClockStep
  <2>2. \A w \in windows' : w.sequence \in 1..Cardinality(windows')
                 /\ \A v \in windows' \ {w} : v.cycle # w.cycle /\ v.sequence # w.sequence
    BY <2>1 DEF Clocked, Distinct
  <2> QED
    BY <1>1, <2>2, Counts
<1>2. Clocked /\ [DreamNext]_dreamvars => [Body]_dreamvars
  BY <1>1
<1> QED
  BY <1>2, ClockedHolds, PTL DEF DreamSpec, WindowCounted

\* StaysQuiet: whenever a session read the clock, and however many justify the same fact,
\* a fact that is quiet keeps its stamp, and no stamp is ahead of the clock
\* (apply_demotion_justify).
THEOREM StaysQuiet == DreamSpec => QuietUntilClock
<1> DEFINE Body ==
        /\ Suppressed(marker.justify) => marker'.justify = marker.justify
        /\ \A n \in marker'.justify : n <= Cardinality(windows')
<1>1. ASSUME Clocked, DreamNext
      PROVE  Body
  <2>1. Clocked'
    BY <1>1, ClockStep
  <2>2. marker'.justify \subseteq 0..Cardinality(windows') /\ Cardinality(windows') \in Nat
    BY <2>1, FS_CardinalityType DEF Clocked
  <2>3. ASSUME NEW e \in Dreamer, Pass(e) \/ Mishap(e)
        PROVE  marker'.justify = marker.justify
    <3>1. marker \in [ts : Nat, justify : SUBSET Nat]
      BY <1>1 DEF Clocked
    <3>2. marker' = marker \/ marker' = [marker EXCEPT !.ts = stamps']
      BY <2>3 DEF Pass, Mishap, Seed, StampMarker, Render, RenderBlind, AppendRow,
                  AppendFails, Count, Insert, CountFails, Heal, HealFails, Fill, DreamCrash
    <3> QED
      BY <3>1, <3>2
  <2>4. ASSUME NEW e \in Justifier, Justification(e), Suppressed(marker.justify)
        PROVE  marker' = marker
    BY <2>4 DEF Justification, Justify, JustifyBegin
  <2> QED
    BY <1>1, <2>2, <2>3, <2>4 DEF DreamNext
<1>2. Clocked /\ [DreamNext]_dreamvars => [Body]_dreamvars
  BY <1>1
<1> QED
  BY <1>2, ClockedHolds, PTL DEF DreamSpec, QuietUntilClock

-----------------------------------------------------------------------------
(* The cycle log of a project (DreamCycle).                                *)
(*                                                                         *)
(* A pass p nobody came in between is alone with the record while it lasts. *)
(* Its stamp is later than every stamp read before its seed, so that its   *)
(* row is the only one of the stamp, and the last as long as the record is *)
(* its own (Logged); until then it has no row and nobody else is about to  *)
(* write one of its stamp (Unlogged).                                      *)

RowTs(i) == cycleLog[i].ts
CycleRecords == [pass : 1..passes, owner : Dreamer, before : 0..stamps, ts : 0..stamps,
            open : SUBSET Seeded]
LogRows == [pass : 1..passes, ts : 1..stamps, open : SUBSET Seeded]

Numbered ==
    /\ stamps \in Nat /\ passes \in Nat /\ marker.ts = stamps
    /\ disturbed \subseteq 0..passes /\ clean \subseteq 1..passes /\ told \subseteq 1..passes
    /\ record = NoRecord \/ record \in CycleRecords
    /\ cycleLog \in Seq(LogRows)
    /\ \A e \in Dreamer :
          \/ dreamer[e] = Asleep
          \/ /\ dreamer[e].pc \in {"append", "count", "insert", "heal", "uncounted"}
             /\ dreamer[e].r \in CycleRecords /\ dreamer[e].ts \in 1..stamps

Busy(e, p) == dreamer[e] # Asleep /\ dreamer[e].r.pass = p

Held(p) == dreamer[record.owner] # Asleep /\ dreamer[record.owner].r.pass = p

\* The passes whose exit 0 is not that of a failed append.
Ended == clean \ told

\* The stamp a render finds.
StampNow(r) == IF r.ts = Unset /\ AdmitStamp(r) THEN marker.ts ELSE r.ts

\* The only session of a pass, which has the record as it is, and its stamp.
Alone(p) ==
    /\ \A e \in Dreamer : Busy(e, p) =>
          /\ record = dreamer[e].r /\ record.owner = e
          /\ dreamer[e].ts = StampNow(record)
    /\ record.pass = p => dreamer[record.owner] = Asleep \/ Held(p)

OnlyRow(p, i) ==
    /\ i \in DOMAIN cycleLog /\ cycleLog[i].pass = p
    /\ \A h \in DOMAIN cycleLog \ {i} : cycleLog[h].pass # p /\ RowTs(h) # RowTs(i)

LoggedAt(p, i) ==
    /\ OnlyRow(p, i)
    /\ \A e \in Dreamer : dreamer[e].pc = "append" =>
          dreamer[e].r.pass # p /\ dreamer[e].ts # RowTs(i)
    /\ record.pass = p =>
          /\ i = Len(cycleLog) /\ RowTs(i) = StampNow(record)
          /\ record.ts = Unset => Held(p)

Logged(p) == \E i \in DOMAIN cycleLog : LoggedAt(p, i)

Unlogged(p) ==
    /\ p \notin Ended
    /\ \A i \in DOMAIN cycleLog : cycleLog[i].pass # p
    /\ record.pass = p =>
          /\ record.ts = Unset
          /\ \A i \in DOMAIN cycleLog : RowTs(i) <= record.before
          /\ \A e \in Dreamer : dreamer[e] # Asleep =>
                IF dreamer[e].r.pass = p THEN dreamer[e].pc = "append"
                ELSE dreamer[e].ts <= record.before

Cleaned(p) ==
    p \in Ended /\ record.pass = p => record.ts # Unset /\ record.open \cap Gating = {}

Undisturbed == (1..passes) \ disturbed

PassInv(p) == Alone(p) /\ Cleaned(p) /\ (Unlogged(p) \/ Logged(p))
DreamInv == Clocked /\ Numbered /\ \A p \in Undisturbed : PassInv(p)

LEMMA RecordFields ==
    ASSUME Numbered, NEW r \in CycleRecords
    PROVE  /\ r.pass \in 1..passes /\ r.owner \in Dreamer /\ r.before \in 0..stamps
           /\ r.ts \in 0..stamps /\ r.open \in SUBSET Seeded
           /\ r = [pass |-> r.pass, owner |-> r.owner, before |-> r.before, ts |-> r.ts,
                   open |-> r.open]
BY DEF CycleRecords

LEMMA RecordsGrow ==
    ASSUME Numbered, stamps' \in Nat, passes' \in Nat, stamps <= stamps', passes <= passes'
    PROVE  /\ CycleRecords \subseteq CycleRecords'
           /\ LogRows \subseteq LogRows'
<1>1. 1..passes \subseteq 1..passes' /\ 0..stamps \subseteq 0..stamps' /\ 1..stamps \subseteq 1..stamps'
  BY DEF Numbered
<1> QED
  BY <1>1 DEF CycleRecords, LogRows

\* The stamp a record gets is the marker's, if the marker has moved since its seed.
LEMMA ReconciledIs ==
    ASSUME Numbered, NEW r \in CycleRecords
    PROVE  /\ Reconciled(r) \in CycleRecords
           /\ Reconciled(r).pass = r.pass /\ Reconciled(r).owner = r.owner
           /\ Reconciled(r).before = r.before /\ Reconciled(r).open = r.open
           /\ Reconciled(r).ts = StampNow(r)
<1>1. stamps \in Nat /\ marker.ts = stamps /\ r.before \in 0..stamps /\ r.ts \in 0..stamps
  BY RecordFields DEF Numbered
<1>2. CASE r.ts = Unset /\ AdmitStamp(r)
  <2>1. Reconciled(r) = [r EXCEPT !.ts = stamps]
    BY <1>1, <1>2 DEF Reconciled
  <2>2. StampNow(r) = stamps
    BY <1>1, <1>2 DEF StampNow
  <2>3. [r EXCEPT !.ts = stamps] \in CycleRecords /\ [r EXCEPT !.ts = stamps].ts = stamps
        /\ [r EXCEPT !.ts = stamps].pass = r.pass /\ [r EXCEPT !.ts = stamps].owner = r.owner
        /\ [r EXCEPT !.ts = stamps].before = r.before /\ [r EXCEPT !.ts = stamps].open = r.open
    BY <1>1 DEF CycleRecords
  <2> QED
    BY <1>2, <2>1, <2>2, <2>3
<1>3. CASE ~(r.ts = Unset /\ AdmitStamp(r))
  <2>1. Reconciled(r) = r /\ StampNow(r) = r.ts
    BY <1>3 DEF Reconciled, StampNow
  <2> QED
    BY <2>1
<1> QED
  BY <1>2, <1>3

\* It is none, the one the record has, or one later than its seed.
LEMMA StampIs ==
    ASSUME Numbered, NEW r \in CycleRecords
    PROVE  /\ StampNow(r) \in 0..stamps
           /\ r.ts # Unset => StampNow(r) = r.ts
           /\ r.ts = Unset => StampNow(r) = Unset \/ StampNow(r) > r.before
BY RecordFields DEF Numbered, StampNow, AdmitStamp, Unset

LEMMA NumberedStart == DreamInit => Numbered
BY DEF DreamInit, Numbered, Unset, Sitting

\* What a dreamer does with its own place.
LEMMA SessionMoves ==
    ASSUME Clocked, NEW d \in Dreamer, NEW state, SessionGoes(d, state)
    PROVE  /\ dreamer'[d] = state
           /\ \A e \in Dreamer \ {d} : dreamer'[e] = dreamer[e]
BY DEF Clocked, Sitting, SessionGoes

\* A step that leaves the numbers, the record and the log, and takes a dreamer on.
LEMMA NumberedGoes ==
    ASSUME Clocked, Numbered, NEW d \in Dreamer, NEW state, SessionGoes(d, state),
           \/ state = Asleep
           \/ /\ state.pc \in {"append", "count", "insert", "heal", "uncounted"}
              /\ state.r \in CycleRecords /\ state.ts \in 1..stamps,
           UNCHANGED <<stamps, passes>>, marker'.ts = marker.ts,
           record' = NoRecord \/ record' \in CycleRecords,
           cycleLog' \in Seq(LogRows),
           clean' \subseteq 1..passes, told' \subseteq 1..passes, disturbed' \subseteq 0..passes
    PROVE  Numbered'
<1>1. CycleRecords' = CycleRecords /\ LogRows' = LogRows
  BY DEF CycleRecords, LogRows
<1>2. \A e \in Dreamer :
          \/ dreamer'[e] = Asleep
          \/ /\ dreamer'[e].pc \in {"append", "count", "insert", "heal", "uncounted"}
             /\ dreamer'[e].r \in CycleRecords /\ dreamer'[e].ts \in 1..stamps
  <2>1. dreamer'[d] = state /\ \A e \in Dreamer \ {d} : dreamer'[e] = dreamer[e]
    BY SessionMoves
  <2> QED
    BY <2>1 DEF Numbered
<1> QED
  BY <1>1, <1>2 DEF Numbered

LEMMA OthersAre ==
    ASSUME Numbered, NEW d \in Dreamer
    PROVE  Others(d) \subseteq 0..passes
<1>1. record.pass \in 0..passes
  BY RecordFields DEF Numbered, NoRecord
<1>2. ASSUME NEW e \in Dreamer, dreamer[e] # Asleep
      PROVE  dreamer[e].r.pass \in 0..passes
  <2>1. dreamer[e].r \in CycleRecords
    BY <1>2 DEF Numbered
  <2> QED
    BY <2>1, RecordFields DEF Numbered
<1> QED
  BY <1>1, <1>2 DEF Others

LEMMA RenderingIs ==
    ASSUME NEW pc, NEW r, NEW ts
    PROVE  /\ Rendering(pc, r, ts).pc = pc /\ Rendering(pc, r, ts).r = r
           /\ Rendering(pc, r, ts).ts = ts
BY DEF Rendering

LEMMA AwakeIs ==
    ASSUME Numbered, NEW e \in Dreamer, dreamer[e].pc \in {"append", "count", "insert", "heal", "uncounted"}
    PROVE  /\ dreamer[e] # Asleep
           /\ dreamer[e].r \in CycleRecords /\ dreamer[e].ts \in 1..stamps
<1>1. dreamer[e] # Asleep
  BY DEF Asleep
<1> QED
  BY <1>1 DEF Numbered

LEMMA CountGoes ==
    ASSUME NEW d, Count(d)
    PROVE  \E state : /\ SessionGoes(d, state) /\ state.pc \in {"count", "insert", "heal"}
                      /\ state.r = dreamer[d].r /\ state.ts = dreamer[d].ts
<1> DEFINE m == dreamer[d]
           healing == Rendering("heal", m.r, m.ts)
           inserting == [pc |-> "insert", r |-> m.r, ts |-> m.ts,
                         sequence |-> Cardinality(windows) + 1]
<1>1. SessionGoes(d, healing) \/ SessionGoes(d, inserting)
  BY DEF Count
<1>2. healing.pc = "heal" /\ healing.r = m.r /\ healing.ts = m.ts
  BY RenderingIs
<1>3. inserting.pc = "insert" /\ inserting.r = m.r /\ inserting.ts = m.ts
  OBVIOUS
<1> HIDE DEF healing, inserting
<1> QED
  BY <1>1, <1>2, <1>3

LEMMA InsertGoes ==
    ASSUME NEW d, Insert(d)
    PROVE  \E state : /\ SessionGoes(d, state) /\ state.pc \in {"count", "insert", "heal"}
                      /\ state.r = dreamer[d].r /\ state.ts = dreamer[d].ts
<1> DEFINE m == dreamer[d]
           pc == IF Taken(m) THEN "count" ELSE "heal"
<1>1. SessionGoes(d, Rendering(pc, m.r, m.ts))
  BY DEF Insert
<1>2. pc \in {"count", "heal"}
  OBVIOUS
<1> HIDE DEF pc
<1> QED
  BY <1>1, <1>2, RenderingIs

LEMMA CountFailsGoes ==
    ASSUME NEW d, CountFails(d)
    PROVE  \E state : /\ SessionGoes(d, state) /\ state.pc \in {"count", "insert", "heal", "uncounted"}
                      /\ state.r = dreamer[d].r /\ state.ts = dreamer[d].ts
BY RenderingIs DEF CountFails

\* Whose pass a mishap is.
LEMMA MishapIs ==
    ASSUME Numbered, NEW d \in Dreamer, Mishap(d)
    PROVE  \E S \in SUBSET (1..passes) : disturbed' = disturbed \cup Others(d) \cup S
<1>1. CASE RenderBlind(d)
  <2>1. record \in CycleRecords
    BY <1>1 DEF RenderBlind, Numbered
  <2>2. \A i \in DOMAIN cycleLog : cycleLog[i].pass \in 1..passes
    <3>1. \A i \in DOMAIN cycleLog : cycleLog[i] \in LogRows
      BY DEF Numbered
    <3> QED
      BY <3>1 DEF LogRows
  <2> DEFINE S == {record.pass} \cup {cycleLog[i].pass : i \in OfStamp(Reconciled(record).ts)}
  <2>3. S \in SUBSET (1..passes)
    BY <2>1, <2>2, RecordFields DEF OfStamp
  <2>4. disturbed' = disturbed \cup Others(d) \cup S
    BY <1>1 DEF RenderBlind
  <2> QED
    BY <2>3, <2>4
<1>2. CASE ~RenderBlind(d)
  <2>1. dreamer[d].pc \in {"append", "count", "insert", "heal", "uncounted"}
        /\ disturbed' = disturbed \cup Others(d) \cup {dreamer[d].r.pass}
    BY <1>2 DEF Mishap, DreamCrash, HealFails, Heals
  <2>2. dreamer[d].r.pass \in 1..passes
    BY <2>1, AwakeIs, RecordFields
  <2> QED
    BY <2>1, <2>2
<1> QED
  BY <1>1, <1>2

LEMMA NumberedPass ==
    ASSUME Clocked, Numbered, NEW d \in Dreamer, Pass(d) \/ Mishap(d)
    PROVE  Numbered'
<1>0. /\ stamps \in Nat /\ passes \in Nat /\ marker.ts = stamps
      /\ disturbed \subseteq 0..passes /\ clean \subseteq 1..passes /\ told \subseteq 1..passes
      /\ marker \in [ts : Nat, justify : SUBSET Nat]
      /\ record = NoRecord \/ record \in CycleRecords
      /\ cycleLog \in Seq(LogRows)
  BY DEF Numbered, Clocked
<1>d. disturbed' \subseteq 0..passes
  <2>1. CASE Pass(d)
    BY <1>0, <2>1, OthersAre DEF Pass
  <2>2. CASE Mishap(d)
    <3>1. PICK S \in SUBSET (1..passes) : disturbed' = disturbed \cup Others(d) \cup S
      BY <2>2, MishapIs
    <3>2. 1..passes \subseteq 0..passes
      BY <1>0
    <3>3. Others(d) \subseteq 0..passes /\ disturbed \subseteq 0..passes
      BY <1>0, OthersAre
    <3> QED
      BY <3>1, <3>2, <3>3
  <2> QED
    BY <2>1, <2>2
<1>1. ASSUME stamps' \in Nat, passes' \in Nat, stamps <= stamps', passes <= passes',
             marker'.ts = stamps', record' \in CycleRecords', UNCHANGED <<cycleLog, dreamer, clean, told>>
      PROVE  Numbered'
  <2>1. CycleRecords \subseteq CycleRecords' /\ LogRows \subseteq LogRows'
    BY <1>1, RecordsGrow
  <2>2. cycleLog' \in Seq(LogRows')
    BY <1>0, <1>1, <2>1, SeqMonotonic
  <2>3. 0..passes \subseteq 0..passes' /\ 1..passes \subseteq 1..passes' /\ 1..stamps \subseteq 1..stamps'
    BY <1>0, <1>1
  <2>4. \A e \in Dreamer :
          \/ dreamer'[e] = Asleep
          \/ /\ dreamer'[e].pc \in {"append", "count", "insert", "heal", "uncounted"}
             /\ dreamer'[e].r \in CycleRecords' /\ dreamer'[e].ts \in 1..stamps'
    BY <1>1, <2>1, <2>3 DEF Numbered
  <2> QED
    BY <1>0, <1>1, <1>d, <2>2, <2>3, <2>4 DEF Numbered
<1>2. ASSUME Seed(d)
      PROVE  Numbered'
  <2>1. passes' = passes + 1 /\ UNCHANGED <<marker, cycleLog, dreamer, stamps, clean, told>>
        /\ record' = [pass |-> passes', owner |-> d, before |-> marker.ts, ts |-> Unset, open |-> Seeded]
    BY <1>2 DEF Seed
  <2>2. record' \in CycleRecords'
    BY <1>0, <2>1 DEF CycleRecords, Unset
  <2> QED
    BY <1>0, <1>1, <2>1, <2>2
<1>3. ASSUME NEW duty \in Seeded, Fill(d, duty)
      PROVE  Numbered'
  <2>1. UNCHANGED <<marker, cycleLog, dreamer, stamps, passes, clean, told>>
        /\ record' = [record EXCEPT !.open = @ \ {duty}] /\ duty \in record.open
    BY <1>3 DEF Fill
  <2>2. record \in CycleRecords
    BY <1>0, <2>1 DEF NoRecord
  <2>3. record' \in CycleRecords
    BY <2>1, <2>2 DEF CycleRecords
  <2>4. CycleRecords' = CycleRecords
    BY <2>1 DEF CycleRecords
  <2> QED
    BY <1>0, <1>1, <2>1, <2>3, <2>4
<1>4. ASSUME StampMarker(d)
      PROVE  Numbered'
  <2>1. stamps' = stamps + 1 /\ marker' = [marker EXCEPT !.ts = stamps']
        /\ UNCHANGED <<record, cycleLog, dreamer, passes, clean, told>>
    BY <1>4 DEF StampMarker
  <2>2. marker'.ts = stamps'
    BY <1>0, <2>1
  <2>3. CycleRecords \subseteq CycleRecords' /\ LogRows \subseteq LogRows'
    BY <1>0, <2>1, RecordsGrow
  <2>4. CASE record = NoRecord
    <3>1. 1..stamps \subseteq 1..stamps'
      BY <1>0, <2>1
    <3>2. cycleLog' \in Seq(LogRows')
      BY <1>0, <2>1, <2>3, SeqMonotonic
    <3>3. \A e \in Dreamer :
            \/ dreamer'[e] = Asleep
            \/ /\ dreamer'[e].pc \in {"append", "count", "insert", "heal", "uncounted"}
               /\ dreamer'[e].r \in CycleRecords' /\ dreamer'[e].ts \in 1..stamps'
      BY <2>1, <2>3, <3>1 DEF Numbered
    <3> QED
      BY <1>0, <1>d, <2>1, <2>2, <2>4, <3>2, <3>3 DEF Numbered
  <2>5. CASE record \in CycleRecords
    BY <1>0, <1>1, <2>1, <2>2, <2>3, <2>5
  <2> QED
    BY <1>0, <2>4, <2>5
<1>5. ASSUME Render(d) \/ RenderBlind(d)
      PROVE  Numbered'
  <2> DEFINE ts == Reconciled(record).ts
  <2>1. PICK pc \in {"append", "heal"} :
            /\ record # NoRecord /\ SessionGoes(d, Rendering(pc, record, ts))
            /\ ts # Unset \/ AlreadyLogged(ts)
            /\ UNCHANGED <<marker, record, cycleLog, stamps, passes, clean, told>>
    BY <1>5 DEF Render, RenderBlind
  <2>2. record \in CycleRecords /\ Reconciled(record) \in CycleRecords
    BY <1>0, <2>1, ReconciledIs
  <2>3. ts \in 1..stamps
    <3>1. ts \in 0..stamps
      BY <2>2, RecordFields
    <3>2. AlreadyLogged(ts) => ts # Unset
      <4>1. \A i \in DOMAIN cycleLog : cycleLog[i] \in LogRows
        BY <1>0
      <4> QED
        BY <1>0, <4>1 DEF AlreadyLogged, LogRows, Unset
    <3> QED
      BY <1>0, <2>1, <3>1, <3>2 DEF Unset
  <2> HIDE DEF ts
  <2> QED
    BY <1>0, <1>d, <2>1, <2>2, <2>3, NumberedGoes, RenderingIs
<1>6. ASSUME AppendRow(d)
      PROVE  Numbered'
  <2> DEFINE r == dreamer[d].r
             row == [CycleEntry(r) EXCEPT !.ts = dreamer[d].ts]
  <2>1. cycleLog' = Append(cycleLog, row)
        /\ SessionGoes(d, Rendering("count", r, dreamer[d].ts))
        /\ clean' \subseteq clean /\ told' \subseteq told
        /\ UNCHANGED <<marker, record, stamps, passes>>
    BY <1>6 DEF AppendRow
  <2>2. r \in CycleRecords /\ dreamer[d].ts \in 1..stamps
    BY <1>6, AwakeIs DEF AppendRow
  <2>3. r.pass \in 1..passes /\ r.open \in SUBSET Seeded
    BY <2>2, RecordFields
  <2>4. row \in LogRows
    BY <2>2, <2>3 DEF CycleEntry, LogRows
  <2> HIDE DEF row, r
  <2>5. cycleLog' \in Seq(LogRows)
    BY <1>0, <2>1, <2>4
  <2> QED
    BY <1>0, <1>d, <2>1, <2>2, <2>5, NumberedGoes, RenderingIs
<1>7. ASSUME Count(d) \/ Insert(d) \/ CountFails(d)
      PROVE  Numbered'
  <2>1. dreamer[d].r \in CycleRecords /\ dreamer[d].ts \in 1..stamps
    BY <1>7, AwakeIs DEF Count, Insert, CountFails
  <2>2. PICK state : /\ SessionGoes(d, state) /\ state.pc \in {"count", "insert", "heal", "uncounted"}
                     /\ state.r = dreamer[d].r /\ state.ts = dreamer[d].ts
    BY <1>7, CountGoes, InsertGoes, CountFailsGoes
  <2>3. UNCHANGED <<marker, record, cycleLog, stamps, passes, clean, told>>
    BY <1>7 DEF Count, Insert, CountFails
  <2> QED
    BY <1>0, <1>d, <2>1, <2>2, <2>3, NumberedGoes
<1>8. ASSUME AppendFails(d) \/ Heal(d) \/ HealFails(d)
      PROVE  Numbered'
  <2>1. /\ dreamer[d].r \in CycleRecords
        /\ record' \in {record, NoRecord, Reconciled(dreamer[d].r)}
        /\ SessionGoes(d, Asleep)
        /\ UNCHANGED <<marker, cycleLog, stamps, passes>>
    BY <1>8, AwakeIs DEF AppendFails, Heal, HealFails, Heals, Finish
  <2>2. clean' \subseteq clean \cup {dreamer[d].r.pass} /\ told' \subseteq told \cup {dreamer[d].r.pass}
    BY <1>8 DEF AppendFails, Heal, HealFails, Finish
  <2>3. clean' \subseteq 1..passes /\ told' \subseteq 1..passes
    BY <1>0, <2>1, <2>2, RecordFields
  <2> QED
    BY <1>0, <1>d, <2>1, <2>3, NumberedGoes, ReconciledIs
<1>9. ASSUME DreamCrash(d)
      PROVE  Numbered'
  BY <1>0, <1>9, <1>d, NumberedGoes DEF DreamCrash
<1> QED
  BY <1>2, <1>3, <1>4, <1>5, <1>6, <1>7, <1>8, <1>9 DEF Pass, Mishap

LEMMA NumberedJustification ==
    ASSUME Clocked, Numbered, NEW d \in Justifier, Justification(d)
    PROVE  /\ Numbered' /\ marker'.ts = marker.ts
           /\ \A e \in Dreamer : dreamer'[e] = dreamer[e]
           /\ UNCHANGED <<record, cycleLog, windows, stamps, passes, clean, told, disturbed>>
<1>1. PICK state : dreamer' = [dreamer EXCEPT ![d] = state]
  BY DEF Justification, Justify, JustifyBegin, SessionGoes
<1>2. d \notin Dreamer /\ d \in Sitting /\ DOMAIN dreamer = Sitting
  BY Roles DEF Sitting, Clocked
<1>3. \A e \in Dreamer : dreamer'[e] = dreamer[e]
  BY <1>1, <1>2
<1>4. UNCHANGED <<record, cycleLog, windows, stamps, passes, clean, told, disturbed>>
  BY DEF Justification, Justify, JustifyBegin
<1>5. marker'.ts = marker.ts
  <2>1. marker \in [ts : Nat, justify : SUBSET Nat]
    BY DEF Clocked
  <2>2. marker' = marker \/ marker' = [marker EXCEPT !.justify = {dreamer[d].sequence}]
    BY DEF Justification, Justify, JustifyBegin
  <2> QED
    BY <2>1, <2>2
<1>6. CycleRecords' = CycleRecords /\ LogRows' = LogRows
  BY <1>4 DEF CycleRecords, LogRows
<1> QED
  BY <1>3, <1>4, <1>5, <1>6 DEF Numbered

\* Who steps, if a pass stays undisturbed, is its own session.
LEMMA OwnSession ==
    ASSUME Numbered, NEW d \in Dreamer, NEW p \in 1..passes, p \notin Others(d), Alone(p)
    PROVE  /\ record.pass = p => /\ record \in CycleRecords /\ record.owner = d
                                 /\ dreamer[d] = Asleep \/ Busy(d, p)
           /\ \A e \in Dreamer : Busy(e, p) => e = d
<1>1. ASSUME record.pass = p
      PROVE  record \in CycleRecords /\ record.owner = d
  <2>1. record \in CycleRecords
    <3>1. p # 0
      OBVIOUS
    <3> QED
      BY <1>1, <3>1 DEF Numbered, NoRecord
  <2>2. record.owner \in Dreamer
    BY <2>1, RecordFields
  <2> QED
    BY <1>1, <2>1, <2>2 DEF Others
<1>2. ASSUME NEW e \in Dreamer, Busy(e, p)
      PROVE  e = d
  <2>1. dreamer[e].r.owner = e /\ dreamer[e].r.pass = p /\ dreamer[e] # Asleep
    BY <1>2 DEF Alone, Busy
  <2> QED
    BY <2>1 DEF Others
<1> QED
  BY <1>1, <1>2 DEF Alone, Held, Busy

\* A step far from a pass that has ended, whose record is gone.
LEMMA FarStep ==
    ASSUME NEW p, Unlogged(p) \/ Logged(p), record'.pass # p,
           \A e \in Dreamer : ~Busy(e, p)',
           p \in Ended' => p \in Ended, UNCHANGED cycleLog,
           \A e \in Dreamer : dreamer'[e].pc = "append" =>
              \/ dreamer[e].pc = "append" /\ dreamer'[e].ts = dreamer[e].ts
              \/ \A i \in DOMAIN cycleLog : cycleLog[i].pass = p => cycleLog[i].ts # dreamer'[e].ts
    PROVE  PassInv(p)'
<1>1. Alone(p)' /\ Cleaned(p)'
  BY DEF Alone, Cleaned
<1>2. CASE Unlogged(p)
  BY <1>1, <1>2 DEF PassInv, Unlogged
<1>3. ASSUME NEW i \in DOMAIN cycleLog, LoggedAt(p, i)
      PROVE  LoggedAt(p, i)' /\ i \in DOMAIN cycleLog'
  <2>1. OnlyRow(p, i)'
    BY <1>3 DEF LoggedAt, OnlyRow, RowTs
  <2>2. ASSUME NEW e \in Dreamer, dreamer'[e].pc = "append"
        PROVE  dreamer'[e].r.pass # p /\ dreamer'[e].ts # RowTs(i)'
    <3>1. dreamer'[e] # Asleep
      BY <2>2 DEF Asleep
    <3>2. dreamer'[e].r.pass # p
      BY <3>1 DEF Busy
    <3>3. CASE dreamer[e].pc = "append" /\ dreamer'[e].ts = dreamer[e].ts
      BY <1>3, <3>2, <3>3 DEF LoggedAt, RowTs
    <3>4. CASE \A h \in DOMAIN cycleLog : cycleLog[h].pass = p => cycleLog[h].ts # dreamer'[e].ts
      BY <1>3, <3>2, <3>4 DEF LoggedAt, OnlyRow, RowTs
    <3> QED
      BY <2>2, <3>3, <3>4
  <2> QED
    BY <1>3, <2>1, <2>2 DEF LoggedAt
<1>4. Logged(p) => Logged(p)'
  BY <1>3 DEF Logged
<1> QED
  BY <1>1, <1>2, <1>4 DEF PassInv

\* A step that only takes dreamers on, none of them to the log or to their end.
LEMMA StandStep ==
    ASSUME NEW p, PassInv(p), record'.pass = record.pass, record'.owner = record.owner,
           record'.before = record.before, record'.ts = record.ts,
           record'.open \subseteq record.open,
           UNCHANGED <<cycleLog, clean, told>>, marker'.ts = marker.ts,
           record.pass = p => record.owner \in Dreamer,
           \A e \in Dreamer :
              \/ dreamer'[e] = dreamer[e] /\ (Busy(e, p) => UNCHANGED record)
              \/ /\ dreamer[e] # Asleep /\ dreamer'[e] # Asleep
                 /\ dreamer[e].pc # "append" /\ dreamer'[e].pc # "append"
                 /\ dreamer'[e].r = dreamer[e].r /\ dreamer'[e].ts = dreamer[e].ts
                 /\ UNCHANGED record
    PROVE  PassInv(p)'
<1>1. StampNow(record)' = StampNow(record)
  BY DEF StampNow, AdmitStamp
<1>2. \A e \in Dreamer : Busy(e, p)' <=> Busy(e, p)
  BY DEF Busy
<1>3. Alone(p)'
  <2>1. ASSUME NEW e \in Dreamer, Busy(e, p)'
        PROVE  record' = dreamer'[e].r /\ record'.owner = e /\ dreamer'[e].ts = StampNow(record)'
    <3>1. Busy(e, p)
      BY <1>2, <2>1
    <3>2. record = dreamer[e].r /\ record.owner = e /\ dreamer[e].ts = StampNow(record)
      BY <3>1 DEF PassInv, Alone
    <3>3. UNCHANGED record /\ dreamer'[e].r = dreamer[e].r /\ dreamer'[e].ts = dreamer[e].ts
      BY <3>1
    <3> QED
      BY <1>1, <3>2, <3>3
  <2>2. ASSUME record'.pass = p
        PROVE  dreamer'[record'.owner] = Asleep \/ Held(p)'
    <3>1. record.owner \in Dreamer /\ (dreamer[record.owner] = Asleep \/ Held(p))
      BY <2>2 DEF PassInv, Alone
    <3> QED
      BY <3>1 DEF Held
  <2>3. \A e \in Dreamer : Busy(e, p)' =>
          record' = dreamer'[e].r /\ record'.owner = e /\ dreamer'[e].ts = StampNow(record)'
    BY <2>1
  <2> QED
    BY <2>2, <2>3 DEF Alone
<1>4. Cleaned(p)' /\ Ended' = Ended
  BY DEF PassInv, Cleaned, Ended
<1>5. CASE Unlogged(p)
  <2>1. ASSUME record.pass = p, NEW e \in Dreamer, dreamer'[e] # Asleep
        PROVE  IF dreamer'[e].r.pass = p THEN dreamer'[e].pc = "append"
               ELSE dreamer'[e].ts <= record.before
    BY <1>5, <2>1 DEF Unlogged
  <2> QED
    BY <1>3, <1>4, <1>5, <2>1 DEF PassInv, Unlogged, RowTs
<1>6. ASSUME NEW i \in DOMAIN cycleLog, LoggedAt(p, i)
      PROVE  LoggedAt(p, i)' /\ i \in DOMAIN cycleLog'
  <2>1. OnlyRow(p, i)' /\ RowTs(i)' = RowTs(i)
    BY <1>6 DEF LoggedAt, OnlyRow, RowTs
  <2>2. \A e \in Dreamer : dreamer'[e].pc = "append" =>
          dreamer'[e].r.pass # p /\ dreamer'[e].ts # RowTs(i)
    BY <1>6 DEF LoggedAt
  <2>3. record.pass = p => (record.ts = Unset => Held(p)')
    BY <1>6 DEF LoggedAt, Held
  <2>4. record.pass = p => i = Len(cycleLog) /\ RowTs(i) = StampNow(record)
    BY <1>6 DEF LoggedAt
  <2>5. record'.pass = p =>
          /\ i = Len(cycleLog') /\ RowTs(i)' = StampNow(record)'
          /\ record'.ts = Unset => Held(p)'
    BY <1>1, <2>1, <2>3, <2>4
  <2> QED
    BY <1>6, <2>1, <2>2, <2>5 DEF LoggedAt
<1>7. Logged(p) => Logged(p)'
  BY <1>6 DEF Logged
<1> QED
  BY <1>3, <1>4, <1>5, <1>7 DEF PassInv

LEMMA PassSeed ==
    ASSUME Clocked, Numbered, NEW d \in Dreamer, Seed(d), disturbed' = disturbed \cup Others(d),
           \A q \in Undisturbed : PassInv(q), NEW p \in Undisturbed'
    PROVE  PassInv(p)'
<1>0. passes \in Nat /\ passes' = passes + 1 /\ dreamer[d] = Asleep
      /\ UNCHANGED <<cycleLog, dreamer, clean, told>>
      /\ record' = [pass |-> passes', owner |-> d, before |-> marker.ts, ts |-> Unset, open |-> Seeded]
  BY DEF Seed, Numbered
<1>1. record'.pass = passes' /\ record'.owner = d /\ record'.ts = Unset /\ record'.before = marker.ts
  BY <1>0
<1>2. CASE p # passes'
  <2>1. p \in 1..passes /\ p \in Undisturbed /\ p \notin Others(d)
    BY <1>0, <1>2 DEF Undisturbed
  <2>2. \A e \in Dreamer : ~Busy(e, p)
    BY <1>0, <2>1, OwnSession DEF PassInv, Busy
  <2>3. \A e \in Dreamer : ~Busy(e, p)'
    BY <1>0, <2>2 DEF Busy
  <2> QED
    BY <1>0, <1>1, <1>2, <2>1, <2>3, FarStep DEF PassInv, Ended
<1>3. CASE p = passes'
  <2>1. p \notin 1..passes
    BY <1>0, <1>3
  <2>2. \A e \in Dreamer : ~Busy(e, p)
    <3> SUFFICES ASSUME NEW e \in Dreamer, Busy(e, p)
                 PROVE  FALSE
      OBVIOUS
    <3>1. dreamer[e].r \in CycleRecords /\ dreamer[e].r.pass = p
      BY DEF Busy, Numbered
    <3> QED
      BY <2>1, <3>1, RecordFields
  <2>3. \A e \in Dreamer : ~Busy(e, p)'
    BY <1>0, <2>2 DEF Busy
  <2>4. Alone(p)'
    BY <1>0, <1>1, <2>3 DEF Alone
  <2>5. p \notin clean /\ p \notin Ended'
    BY <1>0, <2>1 DEF Numbered, Ended
  <2>6. \A i \in DOMAIN cycleLog : cycleLog[i].pass # p /\ RowTs(i) <= stamps
    <3> SUFFICES ASSUME NEW i \in DOMAIN cycleLog
                 PROVE  cycleLog[i].pass # p /\ RowTs(i) <= stamps
      OBVIOUS
    <3>1. cycleLog[i] \in LogRows
      BY DEF Numbered
    <3>2. cycleLog[i].pass \in 1..passes /\ cycleLog[i].ts \in 1..stamps /\ stamps \in Nat
      BY <3>1 DEF LogRows, Numbered
    <3> QED
      BY <2>1, <3>2 DEF RowTs
  <2>7. \A e \in Dreamer : dreamer[e] # Asleep => dreamer[e].r.pass # p /\ dreamer[e].ts <= stamps
    BY <2>2 DEF Busy, Numbered
  <2>8. marker.ts = stamps
    BY DEF Numbered
  <2>9. Unlogged(p)'
    BY <1>0, <1>1, <2>5, <2>6, <2>7, <2>8 DEF Unlogged, RowTs
  <2>10. Cleaned(p)'
    BY <1>0, <2>5 DEF Cleaned
  <2> QED
    BY <2>4, <2>9, <2>10 DEF PassInv
<1> QED
  BY <1>2, <1>3

LEMMA PassFill ==
    ASSUME Numbered, NEW d \in Dreamer, NEW duty \in Seeded, Fill(d, duty),
           NEW p \in 1..passes, p \notin Others(d), PassInv(p)
    PROVE  PassInv(p)'
<1>0. dreamer[d] = Asleep /\ UNCHANGED <<marker, cycleLog, dreamer, clean, told>>
      /\ record' = [record EXCEPT !.open = @ \ {duty}] /\ duty \in record.open
  BY DEF Fill
<1>1. record \in CycleRecords
  BY <1>0 DEF Numbered, NoRecord
<1>2. record'.pass = record.pass /\ record'.owner = record.owner /\ record'.ts = record.ts
      /\ record'.before = record.before /\ record'.open = record.open \ {duty}
  BY <1>0, <1>1 DEF CycleRecords
<1>3. \A e \in Dreamer : ~Busy(e, p)
  BY <1>0, OwnSession DEF PassInv, Busy
<1>4. record.owner \in Dreamer
  BY <1>1, RecordFields
<1> QED
  BY <1>0, <1>2, <1>3, <1>4, StandStep

LEMMA PassStamp ==
    ASSUME Clocked, Numbered, NEW d \in Dreamer, StampMarker(d),
           NEW p \in 1..passes, p \notin Others(d), PassInv(p)
    PROVE  PassInv(p)'
<1>0. dreamer[d] = Asleep /\ UNCHANGED <<record, cycleLog, dreamer, clean, told>>
  BY DEF StampMarker
<1>1. \A e \in Dreamer : ~Busy(e, p)
  BY <1>0, OwnSession DEF PassInv, Busy
<1>2. \A e \in Dreamer : ~Busy(e, p)'
  BY <1>0, <1>1 DEF Busy
<1>3. CASE record.pass # p
  BY <1>0, <1>2, <1>3, FarStep DEF PassInv, Ended
<1>4. CASE record.pass = p
  <2>1. record.owner = d /\ record \in CycleRecords
    BY <1>4, OwnSession DEF PassInv
  <2>2. Alone(p)'
    BY <1>0, <1>2, <2>1 DEF Alone
  <2>3. Cleaned(p)' /\ Ended' = Ended
    BY <1>0 DEF PassInv, Cleaned, Ended
  <2>4. CASE Unlogged(p)
    BY <1>0, <2>2, <2>3, <2>4 DEF PassInv, Unlogged, RowTs
  <2>5. ASSUME NEW i \in DOMAIN cycleLog, LoggedAt(p, i)
        PROVE  LoggedAt(p, i)' /\ i \in DOMAIN cycleLog'
    <3>1. record.ts # Unset
      BY <1>1, <1>4, <2>1, <2>5 DEF LoggedAt, Held, Busy
    <3>2. StampNow(record) = record.ts /\ StampNow(record)' = record.ts
      BY <1>0, <3>1 DEF StampNow
    <3>3. OnlyRow(p, i)' /\ RowTs(i)' = RowTs(i)
      BY <1>0, <2>5 DEF LoggedAt, OnlyRow, RowTs
    <3> QED
      BY <1>0, <2>5, <3>1, <3>2, <3>3 DEF LoggedAt
  <2> QED
    BY <2>2, <2>3, <2>4, <2>5 DEF PassInv, Logged
<1> QED
  BY <1>3, <1>4

LEMMA PassCount ==
    ASSUME Clocked, Numbered, NEW d \in Dreamer, Count(d) \/ Insert(d) \/ CountFails(d),
           NEW p \in 1..passes, PassInv(p)
    PROVE  PassInv(p)'
<1>1. PICK state : /\ SessionGoes(d, state) /\ state.pc \in {"count", "insert", "heal", "uncounted"}
                   /\ state.r = dreamer[d].r /\ state.ts = dreamer[d].ts
  BY CountGoes, InsertGoes, CountFailsGoes
<1>2. UNCHANGED <<marker, record, cycleLog, clean, told>> /\ dreamer[d].pc \in {"count", "insert"}
  BY DEF Count, Insert, CountFails
<1>3. dreamer'[d] = state /\ \A e \in Dreamer \ {d} : dreamer'[e] = dreamer[e]
  BY <1>1, SessionMoves
<1>4. dreamer[d] # Asleep /\ state # Asleep
  BY <1>1, <1>2 DEF Asleep
<1>5. record.pass = p => record.owner \in Dreamer
  BY RecordFields DEF Numbered, NoRecord
<1> QED
  BY <1>1, <1>2, <1>3, <1>4, <1>5, StandStep

LEMMA PassRender ==
    ASSUME Clocked, Numbered, NEW d \in Dreamer, Render(d),
           NEW p \in 1..passes, p \notin Others(d), PassInv(p)
    PROVE  PassInv(p)'
<1> DEFINE ts == Reconciled(record).ts
           pc == IF AlreadyLogged(ts) THEN "heal" ELSE "append"
           state == Rendering(pc, record, ts)
<1>0. dreamer[d] = Asleep /\ record # NoRecord /\ ts # Unset /\ SessionGoes(d, state)
      /\ UNCHANGED <<marker, record, cycleLog, clean, told>>
  BY DEF Render
<1>1. record \in CycleRecords /\ ts = StampNow(record)
  BY <1>0, ReconciledIs DEF Numbered
<1>2. state.pc = pc /\ state.r = record /\ state.ts = ts
  BY RenderingIs
<1>3. pc \in {"append", "heal"} /\ (pc = "append" => ~AlreadyLogged(ts))
  OBVIOUS
<1>4. AlreadyLogged(ts) => pc = "heal"
  OBVIOUS
<1> HIDE DEF ts, pc, state
<1>5. dreamer'[d] = state /\ \A e \in Dreamer \ {d} : dreamer'[e] = dreamer[e]
  BY <1>0, SessionMoves
<1>6. state # Asleep
  BY <1>2, <1>3 DEF Asleep
<1>7. \A e \in Dreamer : ~Busy(e, p)
  BY <1>0, OwnSession DEF PassInv, Busy
<1>8. StampNow(record)' = StampNow(record)
  BY <1>0 DEF StampNow, AdmitStamp
<1>9. CASE record.pass # p
  <2>1. \A e \in Dreamer : ~Busy(e, p)'
    BY <1>2, <1>5, <1>7, <1>9 DEF Busy
  <2>2. \A e \in Dreamer : dreamer'[e].pc = "append" =>
              \/ dreamer[e].pc = "append" /\ dreamer'[e].ts = dreamer[e].ts
              \/ \A i \in DOMAIN cycleLog : cycleLog[i].pass = p => cycleLog[i].ts # dreamer'[e].ts
    BY <1>2, <1>3, <1>5 DEF AlreadyLogged
  <2> QED
    BY <1>0, <1>9, <2>1, <2>2, FarStep DEF PassInv, Ended
<1>10. CASE record.pass = p
  <2>1. record.owner = d
    BY <1>10, OwnSession DEF PassInv
  <2>2. Alone(p)'
    <3>1. ASSUME NEW e \in Dreamer, Busy(e, p)'
          PROVE  record' = dreamer'[e].r /\ record'.owner = e /\ dreamer'[e].ts = StampNow(record)'
      <4>1. e = d
        BY <1>5, <1>7, <3>1 DEF Busy
      <4> QED
        BY <1>0, <1>1, <1>2, <1>5, <1>8, <2>1, <4>1
    <3>2. Held(p)'
      BY <1>0, <1>2, <1>5, <1>6, <1>10, <2>1 DEF Held
    <3> QED
      BY <3>1, <3>2 DEF Alone
  <2>3. Cleaned(p)' /\ Ended' = Ended
    BY <1>0 DEF PassInv, Cleaned, Ended
  <2>4. CASE Unlogged(p)
    <3>1. record.ts = Unset /\ ts > record.before
      BY <1>0, <1>1, <1>10, <2>4, StampIs DEF Unlogged
    <3>2. ts \in Nat /\ record.before \in Nat
      BY <1>1, StampIs, RecordFields DEF Numbered
    <3>3. ~AlreadyLogged(ts)
      <4> SUFFICES ASSUME NEW i \in DOMAIN cycleLog, cycleLog[i].ts = ts
                   PROVE  FALSE
        BY DEF AlreadyLogged
      <4>1. RowTs(i) <= record.before
        BY <1>10, <2>4 DEF Unlogged
      <4> QED
        BY <3>1, <3>2, <4>1 DEF RowTs
    <3>4. state.pc = "append"
      BY <1>2, <3>3 DEF pc
    <3>5. \A e \in Dreamer : dreamer'[e] # Asleep =>
                IF dreamer'[e].r.pass = p THEN dreamer'[e].pc = "append"
                ELSE dreamer'[e].ts <= record.before
      BY <1>2, <1>5, <1>7, <1>10, <2>4, <3>4 DEF Unlogged, Busy
    <3>6. Unlogged(p)'
      BY <1>0, <2>3, <2>4, <3>5 DEF Unlogged, RowTs
    <3> QED
      BY <2>2, <2>3, <3>6 DEF PassInv
  <2>5. ASSUME NEW i \in DOMAIN cycleLog, LoggedAt(p, i)
        PROVE  LoggedAt(p, i)' /\ i \in DOMAIN cycleLog'
    <3>1. i = Len(cycleLog) /\ RowTs(i) = StampNow(record)
      BY <1>10, <2>5 DEF LoggedAt
    <3>2. state.pc = "heal"
      BY <1>1, <1>2, <1>4, <3>1 DEF AlreadyLogged, RowTs
    <3>3. OnlyRow(p, i)' /\ RowTs(i)' = RowTs(i)
      BY <1>0, <2>5 DEF LoggedAt, OnlyRow, RowTs
    <3>4. \A e \in Dreamer : dreamer'[e].pc = "append" =>
             dreamer'[e].r.pass # p /\ dreamer'[e].ts # RowTs(i)
      BY <1>5, <2>5, <3>2 DEF LoggedAt
    <3>5. Held(p)'
      BY <1>0, <1>2, <1>5, <1>6, <1>10, <2>1 DEF Held
    <3> QED
      BY <1>0, <1>8, <3>1, <3>3, <3>4, <3>5 DEF LoggedAt
  <2> QED
    BY <2>2, <2>3, <2>4, <2>5 DEF PassInv, Logged
<1> QED
  BY <1>9, <1>10

\* The session that is about to act on the record of another pass is not that of p.
LEMMA NotItsRecord ==
    ASSUME Numbered, NEW d \in Dreamer, NEW p \in 1..passes, p \notin Others(d), Alone(p),
           dreamer[d] # Asleep, dreamer[d].r.pass # p
    PROVE  record.pass # p /\ \A e \in Dreamer : ~Busy(e, p)
BY OwnSession DEF Busy

LEMMA PassAppend ==
    ASSUME Clocked, Numbered, NEW d \in Dreamer, AppendRow(d),
           NEW p \in 1..passes, p \notin Others(d), PassInv(p)
    PROVE  PassInv(p)'
<1> DEFINE r == dreamer[d].r
           ts == dreamer[d].ts
           row == [CycleEntry(r) EXCEPT !.ts = ts]
           state == Rendering("count", r, ts)
           n == Len(cycleLog)
<1>0. dreamer[d].pc = "append" /\ cycleLog' = Append(cycleLog, row) /\ SessionGoes(d, state)
      /\ clean' = clean \ {r.pass} /\ told' = told \ {r.pass}
      /\ UNCHANGED <<marker, record>>
  BY DEF AppendRow
<1>1. dreamer[d] # Asleep /\ r \in CycleRecords /\ ts \in 1..stamps
  BY <1>0, AwakeIs
<1>2. state.pc = "count" /\ state.r = r /\ state.ts = ts
  BY RenderingIs
<1>3. row.pass = r.pass /\ row.ts = ts
  BY DEF CycleEntry
<1> HIDE DEF row, state
<1>4. dreamer'[d] = state /\ \A e \in Dreamer \ {d} : dreamer'[e] = dreamer[e]
  BY <1>0, SessionMoves
<1>5. /\ n \in Nat /\ DOMAIN cycleLog = 1..n /\ DOMAIN cycleLog' = 1..(n + 1) /\ Len(cycleLog') = n + 1
      /\ cycleLog'[n + 1] = row /\ \A h \in 1..n : cycleLog'[h] = cycleLog[h]
      /\ 1..(n + 1) = 1..n \cup {n + 1} /\ n + 1 \notin 1..n
  <2>1. cycleLog \in Seq(LogRows)
    BY DEF Numbered
  <2> QED
    BY <1>0, <2>1
<1>6. state # Asleep
  BY <1>2 DEF Asleep
<1>7. \A e \in Dreamer : Busy(e, p)' <=> Busy(e, p)
  BY <1>1, <1>2, <1>4, <1>6 DEF Busy
<1>8. StampNow(record)' = StampNow(record)
  BY <1>0 DEF StampNow, AdmitStamp
<1>9. Cleaned(p)' /\ (p \in Ended' => p \in Ended)
  BY <1>0 DEF PassInv, Cleaned, Ended
<1> HIDE DEF n
<1>10. CASE r.pass # p
  <2>1. record.pass # p /\ \A e \in Dreamer : ~Busy(e, p)
    BY <1>1, <1>10, NotItsRecord DEF PassInv
  <2>2. Alone(p)'
    BY <1>0, <1>7, <2>1 DEF Alone
  <2>3. CASE Unlogged(p)
    BY <1>0, <1>3, <1>5, <1>9, <1>10, <2>1, <2>2, <2>3 DEF PassInv, Unlogged
  <2>4. ASSUME NEW i \in DOMAIN cycleLog, LoggedAt(p, i)
        PROVE  LoggedAt(p, i)' /\ i \in DOMAIN cycleLog'
    <3>1. ts # RowTs(i)
      BY <1>0, <2>4 DEF LoggedAt
    <3>2. i \in DOMAIN cycleLog' /\ RowTs(i)' = RowTs(i)
      BY <1>5, <2>4 DEF RowTs
    <3>3. OnlyRow(p, i)'
      BY <1>3, <1>5, <1>10, <2>4, <3>1, <3>2 DEF LoggedAt, OnlyRow, RowTs
    <3>4. \A e \in Dreamer : dreamer'[e].pc = "append" =>
             dreamer'[e].r.pass # p /\ dreamer'[e].ts # RowTs(i)
      BY <1>2, <1>4, <2>4 DEF LoggedAt
    <3> QED
      BY <1>0, <2>1, <3>2, <3>3, <3>4 DEF LoggedAt
  <2> QED
    BY <1>9, <2>2, <2>3, <2>4 DEF PassInv, Logged
<1>11. CASE r.pass = p
  <2>1. Busy(d, p)
    BY <1>1, <1>11 DEF Busy
  <2>2. record = r /\ record.owner = d /\ ts = StampNow(record) /\ record.pass = p
    BY <1>11, <2>1 DEF PassInv, Alone
  <2>3. \A e \in Dreamer : Busy(e, p) => e = d
    BY OwnSession DEF PassInv
  <2>4. Unlogged(p)
    BY <1>0, <1>11 DEF PassInv, Logged, LoggedAt
  <2>5. record.ts = Unset /\ (\A i \in DOMAIN cycleLog : cycleLog[i].pass # p /\ RowTs(i) <= record.before)
    BY <2>2, <2>4 DEF Unlogged
  <2>6. ts \in Nat /\ record.before \in Nat /\ ts > record.before
    <3>1. ts # Unset /\ ts \in Nat /\ record.before \in Nat
      BY <1>1, <2>2, RecordFields DEF Numbered, Unset
    <3> QED
      BY <1>1, <2>2, <2>5, <3>1, StampIs
  <2>7. \A i \in DOMAIN cycleLog : RowTs(i) # ts
    <3> SUFFICES ASSUME NEW i \in DOMAIN cycleLog, RowTs(i) = ts
                 PROVE  FALSE
      OBVIOUS
    <3> QED
      BY <2>5, <2>6
  <2>8. Alone(p)'
    <3>1. Held(p)'
      BY <1>0, <1>2, <1>4, <1>6, <1>11, <2>2 DEF Held
    <3>2. \A e \in Dreamer : Busy(e, p)' =>
            record' = dreamer'[e].r /\ record'.owner = e /\ dreamer'[e].ts = StampNow(record)'
      BY <1>0, <1>2, <1>4, <1>7, <1>8, <2>2, <2>3
    <3> QED
      BY <3>1, <3>2 DEF Alone
  <2> PICK m \in Nat : m = n + 1
    BY <1>5
  <2>9. RowTs(m)' = ts /\ cycleLog'[m].pass = p
    BY <1>3, <1>5, <1>11 DEF RowTs
  <2>10. OnlyRow(p, m)'
    <3>1. \A h \in 1..n : cycleLog'[h].pass # p /\ RowTs(h)' # ts
      BY <1>5, <2>5, <2>7 DEF RowTs
    <3>2. m \in DOMAIN cycleLog'
      BY <1>5
    <3>3. \A h \in DOMAIN cycleLog' \ {m} : cycleLog'[h].pass # p /\ RowTs(h)' # RowTs(m)'
      BY <1>5, <2>9, <3>1
    <3> QED
      BY <2>9, <3>2, <3>3 DEF OnlyRow
  <2>11. \A e \in Dreamer : dreamer'[e].pc = "append" =>
             dreamer'[e].r.pass # p /\ dreamer'[e].ts # ts
    <3> SUFFICES ASSUME NEW e \in Dreamer, dreamer'[e].pc = "append"
                 PROVE  dreamer'[e].r.pass # p /\ dreamer'[e].ts # ts
      OBVIOUS
    <3>1. e # d /\ dreamer'[e] = dreamer[e]
      BY <1>2, <1>4
    <3>2. dreamer[e] # Asleep /\ dreamer[e].ts \in Nat
      BY <3>1, AwakeIs DEF Numbered
    <3>3. dreamer[e].r.pass # p
      BY <2>3, <3>1, <3>2 DEF Busy
    <3>4. dreamer[e].ts <= record.before
      BY <2>2, <2>4, <3>2, <3>3 DEF Unlogged
    <3> QED
      BY <2>6, <3>1, <3>2, <3>3, <3>4
  <2>12. LoggedAt(p, m)' /\ m \in DOMAIN cycleLog'
    <3>1. Held(p)'
      BY <1>0, <1>2, <1>4, <1>6, <1>11, <2>2 DEF Held
    <3> QED
      BY <1>5, <1>8, <2>2, <2>9, <2>10, <2>11, <3>1 DEF LoggedAt
  <2>13. Logged(p)'
    BY <2>12 DEF Logged
  <2> QED
    BY <1>9, <2>8, <2>13 DEF PassInv
<1> QED
  BY <1>10, <1>11

LEMMA GatesClosed ==
    ASSUME NEW r, ExitCode(r) = 0
    PROVE  r.open \cap Gating = {}
BY DEF ExitCode, ProcedureHolds, ArcComplete, DutyAlert, Narrated, Gating

LEMMA PassHeal ==
    ASSUME Clocked, Numbered, NEW d \in Dreamer, Heal(d),
           NEW p \in 1..passes, p \notin Others(d), PassInv(p)
    PROVE  PassInv(p)'
<1> DEFINE r == dreamer[d].r
<1>0. dreamer[d].pc \in {"heal", "uncounted"} /\ record' = Reconciled(r) /\ SessionGoes(d, Asleep)
      /\ clean' = (IF ExitCode(r) = 0 THEN clean \cup {r.pass} ELSE clean)
      /\ UNCHANGED <<marker, cycleLog, told>>
  BY DEF Heal, Heals, Finish
<1>1. dreamer[d] # Asleep /\ r \in CycleRecords /\ dreamer[d].ts \in 1..stamps
  BY <1>0, AwakeIs
<1>2. /\ record'.pass = r.pass /\ record'.owner = r.owner /\ record'.open = r.open
      /\ record'.ts = StampNow(r)
  BY <1>0, <1>1, ReconciledIs
<1>3. dreamer'[d] = Asleep /\ \A e \in Dreamer \ {d} : dreamer'[e] = dreamer[e]
  BY <1>0, SessionMoves
<1>4. \A e \in Dreamer : Busy(e, p) => e = d
  BY OwnSession DEF PassInv
<1>5. \A e \in Dreamer : ~Busy(e, p)'
  BY <1>3, <1>4 DEF Busy
<1>6. \A e \in Dreamer : dreamer'[e].pc = "append" =>
              dreamer[e].pc = "append" /\ dreamer'[e] = dreamer[e]
  BY <1>3 DEF Asleep
<1>7. CASE r.pass # p
  BY <1>0, <1>2, <1>5, <1>6, <1>7, FarStep DEF PassInv, Ended
<1>8. CASE r.pass = p
  <2>1. Busy(d, p)
    BY <1>1, <1>8 DEF Busy
  <2>2. record = r /\ record.owner = d /\ dreamer[d].ts = StampNow(record) /\ record.pass = p
    BY <1>8, <2>1 DEF PassInv, Alone
  <2>3. ~Unlogged(p)
    BY <1>0, <1>1, <1>8, <2>2 DEF Unlogged
  <2>4. record'.ts # Unset
    BY <1>1, <1>2, <2>2 DEF Unset
  <2>5. Alone(p)'
    BY <1>2, <1>3, <1>5, <2>2 DEF Alone
  <2>6. Cleaned(p)'
    <3>1. ASSUME p \in Ended'
          PROVE  r.open \cap Gating = {}
      <4>1. CASE p \in Ended
        BY <2>2, <4>1 DEF PassInv, Cleaned
      <4>2. CASE p \notin Ended
        BY <1>0, <3>1, <4>2, GatesClosed DEF Ended
      <4> QED
        BY <4>1, <4>2
    <3> QED
      BY <1>2, <2>4, <3>1 DEF Cleaned
  <2>7. ASSUME NEW i \in DOMAIN cycleLog, LoggedAt(p, i)
        PROVE  LoggedAt(p, i)' /\ i \in DOMAIN cycleLog'
    <3>1. OnlyRow(p, i)' /\ RowTs(i)' = RowTs(i)
      BY <1>0, <2>7 DEF LoggedAt, OnlyRow, RowTs
    <3>2. i = Len(cycleLog) /\ RowTs(i) = StampNow(record)
      BY <2>2, <2>7 DEF LoggedAt
    <3>3. StampNow(record)' = StampNow(record)
      BY <1>2, <2>2, <2>4 DEF StampNow
    <3>4. \A e \in Dreamer : dreamer'[e].pc = "append" =>
             dreamer'[e].r.pass # p /\ dreamer'[e].ts # RowTs(i)
      BY <1>6, <2>7 DEF LoggedAt
    <3> QED
      BY <1>0, <2>4, <3>1, <3>2, <3>3, <3>4 DEF LoggedAt
  <2> QED
    BY <2>3, <2>5, <2>6, <2>7 DEF PassInv, Logged
<1> QED
  BY <1>7, <1>8

\* A failed append leaves its pass as a render found it, but for the exit code.
LEMMA PassAppendFails ==
    ASSUME Clocked, Numbered, NEW d \in Dreamer, AppendFails(d),
           NEW p \in 1..passes, p \notin Others(d), PassInv(p)
    PROVE  PassInv(p)'
<1> DEFINE r == dreamer[d].r
<1>0. dreamer[d].pc = "append" /\ SessionGoes(d, Asleep)
      /\ clean' = clean \cup {r.pass} /\ told' = told \cup {r.pass}
      /\ UNCHANGED <<marker, record, cycleLog>>
  BY DEF AppendFails
<1>1. dreamer[d] # Asleep /\ r \in CycleRecords
  BY <1>0, AwakeIs
<1>2. dreamer'[d] = Asleep /\ \A e \in Dreamer \ {d} : dreamer'[e] = dreamer[e]
  BY <1>0, SessionMoves
<1>3. \A e \in Dreamer : ~Busy(e, p)'
  BY <1>2, OwnSession DEF PassInv, Busy
<1>4. p \in Ended' => p \in Ended
  BY <1>0 DEF Ended
<1>5. CASE r.pass # p
  <2>1. record'.pass # p
    BY <1>0, <1>1, <1>5, NotItsRecord DEF PassInv
  <2>2. \A e \in Dreamer : dreamer'[e].pc = "append" => dreamer[e].pc = "append" /\ dreamer'[e] = dreamer[e]
    BY <1>2 DEF Asleep
  <2> QED
    BY <1>0, <1>3, <1>4, <2>1, <2>2, FarStep DEF PassInv
<1>6. CASE r.pass = p
  <2>1. record = r /\ record.owner = d /\ record.pass = p
    BY <1>1, <1>6 DEF PassInv, Alone, Busy
  <2>2. Unlogged(p)
    BY <1>0, <1>6 DEF PassInv, Logged, LoggedAt
  <2>3. Alone(p)'
    BY <1>0, <1>2, <1>3, <2>1 DEF Alone
  <2>4. p \notin Ended'
    BY <1>0, <1>6 DEF Ended
  <2>5. \A e \in Dreamer : dreamer'[e] # Asleep => dreamer'[e].r.pass # p /\ dreamer'[e].ts <= record.before
    BY <1>2, <1>3, <2>1, <2>2 DEF Unlogged, Busy
  <2>6. Unlogged(p)'
    BY <1>0, <2>2, <2>4, <2>5 DEF Unlogged, RowTs
  <2> QED
    BY <2>3, <2>4, <2>6 DEF PassInv, Cleaned
<1> QED
  BY <1>5, <1>6

\* A render that is killed, or that cannot write the cycle file.
LEMMA PassBroken ==
    ASSUME Clocked, Numbered, NEW d \in Dreamer, DreamCrash(d) \/ HealFails(d),
           NEW p \in 1..passes, p \notin Others(d), p # dreamer[d].r.pass, PassInv(p)
    PROVE  PassInv(p)'
<1>0. /\ SessionGoes(d, Asleep) /\ record' \in {record, NoRecord}
      /\ clean' \subseteq clean \cup {dreamer[d].r.pass}
      /\ UNCHANGED <<marker, cycleLog, told>>
      /\ dreamer[d].pc \in {"append", "count", "insert", "heal", "uncounted"}
  BY DEF DreamCrash, HealFails, Heals, Finish
<1>1. dreamer[d] # Asleep
  BY <1>0, AwakeIs
<1>2. record.pass # p /\ \A e \in Dreamer : ~Busy(e, p)
  BY <1>1, NotItsRecord DEF PassInv
<1>3. dreamer'[d] = Asleep /\ \A e \in Dreamer \ {d} : dreamer'[e] = dreamer[e]
  BY <1>0, SessionMoves
<1>4. record'.pass # p /\ \A e \in Dreamer : ~Busy(e, p)'
  <2>1. NoRecord.pass # p
    BY DEF NoRecord
  <2> QED
    BY <1>0, <1>2, <1>3, <2>1 DEF Busy
<1>5. \A e \in Dreamer : dreamer'[e].pc = "append" =>
              dreamer[e].pc = "append" /\ dreamer'[e] = dreamer[e]
  BY <1>3 DEF Asleep
<1>6. p \in Ended' => p \in Ended
  BY <1>0 DEF Ended
<1> QED
  BY <1>0, <1>4, <1>5, <1>6, FarStep DEF PassInv

\* A render that cannot read the log is about to write a second row of a stamp that the
\* pass has no row of.
LEMMA PassBlind ==
    ASSUME Clocked, Numbered, NEW d \in Dreamer, RenderBlind(d),
           NEW p \in 1..passes, p \notin disturbed', PassInv(p)
    PROVE  PassInv(p)'
<1> DEFINE ts == Reconciled(record).ts
           state == Rendering("append", record, ts)
<1>0. /\ dreamer[d] = Asleep /\ SessionGoes(d, state)
      /\ UNCHANGED <<marker, record, cycleLog, clean, told>>
      /\ disturbed' = disturbed \cup Others(d) \cup {record.pass} \cup {cycleLog[i].pass : i \in OfStamp(ts)}
  BY DEF RenderBlind
<1>1. p \notin Others(d) /\ record.pass # p
  BY <1>0
<1>2. \A i \in DOMAIN cycleLog : cycleLog[i].pass = p => cycleLog[i].ts # ts
  BY <1>0 DEF OfStamp
<1>3. state.r = record /\ state.ts = ts
  BY RenderingIs
<1> HIDE DEF ts, state
<1>4. dreamer'[d] = state /\ \A e \in Dreamer \ {d} : dreamer'[e] = dreamer[e]
  BY <1>0, SessionMoves
<1>5. \A e \in Dreamer : ~Busy(e, p)
  BY <1>0, <1>1, OwnSession DEF PassInv, Busy
<1>6. \A e \in Dreamer : ~Busy(e, p)'
  BY <1>1, <1>3, <1>4, <1>5 DEF Busy
<1>7. \A e \in Dreamer : dreamer'[e].pc = "append" =>
              \/ dreamer[e].pc = "append" /\ dreamer'[e].ts = dreamer[e].ts
              \/ \A i \in DOMAIN cycleLog : cycleLog[i].pass = p => cycleLog[i].ts # dreamer'[e].ts
  BY <1>2, <1>3, <1>4
<1>8. record'.pass # p /\ Ended' = Ended
  BY <1>0, <1>1 DEF Ended
<1> QED
  BY <1>0, <1>6, <1>7, <1>8, FarStep DEF PassInv

LEMMA PassJustified ==
    ASSUME Clocked, Numbered, NEW d \in Justifier, Justification(d),
           NEW p \in 1..passes, PassInv(p)
    PROVE  PassInv(p)'
<1>1. /\ marker'.ts = marker.ts /\ UNCHANGED <<record, cycleLog, clean, told>>
      /\ \A e \in Dreamer : dreamer'[e] = dreamer[e]
  BY NumberedJustification
<1>2. record.pass = p => record.owner \in Dreamer
  BY RecordFields DEF Numbered, NoRecord
<1> QED
  BY <1>1, <1>2, StandStep

LEMMA DreamInvStart == DreamInit => DreamInv
<1> SUFFICES ASSUME DreamInit
             PROVE  DreamInv
  OBVIOUS
<1>1. Undisturbed = {}
  BY DEF DreamInit, Undisturbed
<1> QED
  BY <1>1, ClockInit, NumberedStart DEF DreamInv

LEMMA DreamInvStep == DreamInv /\ [DreamNext]_dreamvars => DreamInv'
<1> SUFFICES ASSUME DreamInv, [DreamNext]_dreamvars
             PROVE  DreamInv'
  OBVIOUS
<1>0. Clocked /\ Numbered /\ Clocked' /\ \A p \in Undisturbed : PassInv(p)
  BY ClockStep DEF DreamInv
<1>1. CASE UNCHANGED dreamvars
  <2>1. Numbered'
    BY <1>0, <1>1 DEF Numbered, dreamvars, CycleRecords, LogRows
  <2>2. Undisturbed' = Undisturbed
    BY <1>1 DEF Undisturbed, dreamvars
  <2>3. ASSUME NEW p \in Undisturbed
        PROVE  PassInv(p)'
    <3>1. record.pass = p => record.owner \in Dreamer
      BY <1>0, RecordFields DEF Numbered, NoRecord, Undisturbed
    <3> QED
      BY <1>0, <1>1, <3>1, StandStep DEF dreamvars
  <2> QED
    BY <1>0, <2>1, <2>2, <2>3 DEF DreamInv
<1>2. ASSUME NEW d \in Justifier, Justification(d)
      PROVE  DreamInv'
  <2>1. Numbered' /\ UNCHANGED <<passes, disturbed>>
    BY <1>0, <1>2, NumberedJustification
  <2>2. Undisturbed' = Undisturbed
    BY <2>1 DEF Undisturbed
  <2>3. \A p \in Undisturbed : PassInv(p)'
    BY <1>0, <1>2, PassJustified DEF Undisturbed
  <2> QED
    BY <1>0, <2>1, <2>2, <2>3 DEF DreamInv
<1>3. ASSUME NEW d \in Dreamer, Mishap(d)
      PROVE  DreamInv'
  <2>1. Numbered'
    BY <1>0, <1>3, NumberedPass
  <2>2. ASSUME NEW p \in Undisturbed', passes' = passes, disturbed \subseteq disturbed'
        PROVE  p \in 1..passes /\ p \notin disturbed' /\ PassInv(p)
    BY <1>0, <2>2 DEF Undisturbed
  <2>3. ASSUME NEW p \in Undisturbed'
        PROVE  PassInv(p)'
    <3>1. CASE RenderBlind(d)
      <4>1. passes' = passes /\ disturbed \subseteq disturbed'
        BY <3>1 DEF RenderBlind
      <4> QED
        BY <1>0, <2>2, <2>3, <3>1, <4>1, PassBlind
    <3>2. CASE ~RenderBlind(d)
      <4>1. DreamCrash(d) \/ HealFails(d)
        BY <1>3, <3>2 DEF Mishap
      <4>2. passes' = passes /\ disturbed' = disturbed \cup Others(d) \cup {dreamer[d].r.pass}
        BY <1>3, <3>2 DEF Mishap, DreamCrash, HealFails
      <4> QED
        BY <1>0, <2>2, <2>3, <4>1, <4>2, PassBroken
    <3> QED
      BY <3>1, <3>2
  <2> QED
    BY <1>0, <2>1, <2>3 DEF DreamInv
<1>4. ASSUME NEW d \in Dreamer, Pass(d)
      PROVE  DreamInv'
  <2>1. Numbered'
    BY <1>0, <1>4, NumberedPass
  <2>2. disturbed' = disturbed \cup Others(d)
    BY <1>4 DEF Pass
  <2>3. ASSUME NEW p \in Undisturbed', Seed(d)
        PROVE  PassInv(p)'
    BY <1>0, <2>2, <2>3, PassSeed
  <2>4. ASSUME NEW p \in Undisturbed', passes' = passes
        PROVE  p \in 1..passes /\ p \notin Others(d) /\ PassInv(p)
    BY <1>0, <2>2, <2>4 DEF Undisturbed
  <2>5. ASSUME NEW p \in Undisturbed', NEW duty \in Seeded, Fill(d, duty)
        PROVE  PassInv(p)'
    <3>1. passes' = passes
      BY <2>5 DEF Fill
    <3> QED
      BY <1>0, <2>4, <2>5, <3>1, PassFill
  <2>6. ASSUME NEW p \in Undisturbed', StampMarker(d)
        PROVE  PassInv(p)'
    <3>1. passes' = passes
      BY <2>6 DEF StampMarker
    <3> QED
      BY <1>0, <2>4, <2>6, <3>1, PassStamp
  <2>7. ASSUME NEW p \in Undisturbed', Render(d)
        PROVE  PassInv(p)'
    <3>1. passes' = passes
      BY <2>7 DEF Render
    <3> QED
      BY <1>0, <2>4, <2>7, <3>1, PassRender
  <2>8. ASSUME NEW p \in Undisturbed', AppendRow(d)
        PROVE  PassInv(p)'
    <3>1. passes' = passes
      BY <2>8 DEF AppendRow
    <3> QED
      BY <1>0, <2>4, <2>8, <3>1, PassAppend
  <2>9. ASSUME NEW p \in Undisturbed', Count(d) \/ Insert(d) \/ CountFails(d)
        PROVE  PassInv(p)'
    <3>1. passes' = passes
      BY <2>9 DEF Count, Insert, CountFails
    <3> QED
      BY <1>0, <2>4, <2>9, <3>1, PassCount
  <2>10. ASSUME NEW p \in Undisturbed', Heal(d)
         PROVE  PassInv(p)'
    <3>1. passes' = passes
      BY <2>10 DEF Heal
    <3> QED
      BY <1>0, <2>4, <2>10, <3>1, PassHeal
  <2>11. ASSUME NEW p \in Undisturbed', AppendFails(d)
         PROVE  PassInv(p)'
    <3>1. passes' = passes
      BY <2>11 DEF AppendFails
    <3> QED
      BY <1>0, <2>4, <2>11, <3>1, PassAppendFails
  <2>12. \A p \in Undisturbed' : PassInv(p)'
    BY <1>4, <2>3, <2>5, <2>6, <2>7, <2>8, <2>9, <2>10, <2>11 DEF Pass
  <2> QED
    BY <1>0, <2>1, <2>12 DEF DreamInv
<1> QED
  BY <1>1, <1>2, <1>3, <1>4 DEF DreamNext

LEMMA Greatest ==
    ASSUME NEW n \in Nat, NEW S \in SUBSET (1..n), S # {}
    PROVE  \E i \in S : \A k \in S : k <= i
<1> DEFINE T == {b \in Nat : \A U \in SUBSET (1..b) :
                                U # {} => \E i \in U : \A k \in U : k <= i}
<1>1. 0 \in T
  <2>1. 1..0 = {}
    OBVIOUS
  <2>2. \A U \in SUBSET (1..0) : ~ (U # {})
    BY <2>1
  <2> QED
    BY <2>2
<1>2. ASSUME NEW b \in Nat, b \in T
      PROVE  b + 1 \in T
  <2> SUFFICES ASSUME NEW U \in SUBSET (1..(b + 1)), U # {}
               PROVE  \E i \in U : \A k \in U : k <= i
    OBVIOUS
  <2>1. CASE b + 1 \in U
    BY <2>1
  <2>2. CASE b + 1 \notin U
    <3>1. U \in SUBSET (1..b)
      BY <2>2
    <3> QED
      BY <1>2, <3>1
  <2> QED
    BY <2>1, <2>2
<1>3. n \in T
  <2> HIDE DEF T
  <2> QED
    BY <1>1, <1>2, Induction
<1> QED
  BY <1>3

\* The rows of one stamp have a last one.
LEMMA LastIsOfStamp ==
    ASSUME Numbered, NEW i \in DOMAIN cycleLog
    PROVE  /\ LastOfStamp(cycleLog[i].ts) \in DOMAIN cycleLog
           /\ cycleLog[LastOfStamp(cycleLog[i].ts)].ts = cycleLog[i].ts
<1> DEFINE S == OfStamp(cycleLog[i].ts)
<1>1. Len(cycleLog) \in Nat /\ DOMAIN cycleLog = 1..Len(cycleLog)
  BY DEF Numbered
<1>2. S \in SUBSET (1..Len(cycleLog)) /\ S # {}
  BY <1>1 DEF OfStamp
<1>3. \E k \in S : \A h \in S : h <= k
  <2> HIDE DEF S
  <2> QED
    BY <1>1, <1>2, Greatest
<1>4. LastOfStamp(cycleLog[i].ts) \in S
  BY <1>3 DEF LastOfStamp
<1> QED
  BY <1>4 DEF OfStamp

\* The archive shows the record in the place of the last row of the log, and the others
\* are of other passes.
LEMMA ArchiveShows ==
    ASSUME Numbered, NEW p \in 1..passes, record.pass = p, record.ts # Unset,
           NEW i, LoggedAt(p, i)
    PROVE  \E k \in DOMAIN Archive :
              /\ Archive[k].open = record.open
              /\ \A h \in DOMAIN Archive : Archive[h].pass = p <=> h = k
<1> DEFINE s == [h \in DOMAIN cycleLog |-> h]
           n == Len(cycleLog)
           m == Len(History)
           Read(h) == LastOfStamp(cycleLog[History[h]].ts)
<1>1. /\ i = n /\ RowTs(n) = record.ts /\ OnlyRow(p, n) /\ n \in DOMAIN cycleLog
  BY DEF LoggedAt, OnlyRow, StampNow
<1>2. /\ n \in Nat \ {0} /\ DOMAIN cycleLog = 1..n
  <2>1. cycleLog \in Seq(LogRows)
    BY DEF Numbered
  <2> QED
    BY <1>1, <2>1
<1>3. s \in Seq(Nat) /\ Len(s) = n /\ s # << >> /\ s[n] = n /\ \A h \in 1..n : s[h] = h
  <2> HIDE DEF n
  <2> QED
    BY <1>2
<1>4. OfStamp(RowTs(n)) = {n} /\ n \in FirstOfStamp
  <2> HIDE DEF n
  <2>1. \A k \in DOMAIN cycleLog : cycleLog[k].ts = cycleLog[n].ts => k = n
    BY <1>1 DEF OnlyRow, RowTs
  <2> QED
    BY <1>2, <2>1 DEF OfStamp, FirstOfStamp, RowTs
<1>5. History = Sifted(s, FirstOfStamp)
  BY DEF History
<1> HIDE DEF s, n, m
<1>6. /\ History \in Seq(Nat) /\ m \in Nat \ {0} /\ History[m] = n
      /\ \A h \in 1..(m - 1) : \E k \in 1..(n - 1) : History[h] = k
  <2>1. History \in Seq(Nat)
    BY <1>3, <1>5, SiftedRange
  <2>2. s[Len(s)] \in FirstOfStamp
    BY <1>3, <1>4
  <2>3. /\ m \in Nat \ {0} /\ History[m] = s[n]
        /\ \A h \in 1..(m - 1) : \E k \in 1..(n - 1) : History[h] = s[k]
    <3>1. /\ Len(History) \in Nat \ {0} /\ History[Len(History)] = s[Len(s)]
          /\ \A h \in 1..(Len(History) - 1) : \E k \in 1..(Len(s) - 1) : History[h] = s[k]
      <4>1. s \in Seq(Nat) /\ s # << >> /\ s[Len(s)] \in FirstOfStamp
        BY <1>3, <2>2
      <4>2. EndsAs(History, s)
        BY <1>5, <4>1, SiftedLast
      <4> QED
        BY <4>2 DEF EndsAs
    <3> QED
      BY <1>3, <3>1 DEF m
  <2>4. \A k \in 1..(n - 1) : k \in 1..n
    BY <1>2
  <2> QED
    BY <1>3, <2>1, <2>3, <2>4
<1>7. DOMAIN History = 1..m
  BY <1>6 DEF m
<1>8. \A h \in 1..(m - 1) : /\ Read(h) \in 1..n /\ Read(h) # n
  <2> SUFFICES ASSUME NEW h \in 1..(m - 1)
               PROVE  Read(h) \in 1..n /\ Read(h) # n
    OBVIOUS
  <2>1. PICK k \in 1..(n - 1) : History[h] = k
    BY <1>6
  <2>2. k \in 1..n /\ k # n
    BY <1>2
  <2>3. cycleLog[k].ts # cycleLog[n].ts
    BY <1>1, <1>2, <2>2 DEF OnlyRow, RowTs
  <2>4. Read(h) = LastOfStamp(cycleLog[k].ts)
    BY <2>1
  <2>5. LastOfStamp(cycleLog[k].ts) \in 1..n /\ cycleLog[LastOfStamp(cycleLog[k].ts)].ts = cycleLog[k].ts
    BY <1>2, <2>2, LastIsOfStamp
  <2> HIDE DEF Read
  <2> QED
    BY <2>3, <2>4, <2>5
<1>9. Read(m) = n
  <2>1. RowTs(n) = cycleLog[History[m]].ts
    BY <1>6 DEF RowTs
  <2> QED
    BY <1>4, <2>1 DEF LastOfStamp
<1> HIDE DEF Read
<1>10. /\ DOMAIN Rows = 1..m /\ Rows[m] = cycleLog[n] /\ m \in 1..m /\ Len(Rows) = m
       /\ \A h \in 1..m : Rows[h].pass = p <=> h = m
  <2>1. \A h \in 1..m : h = m \/ h \in 1..(m - 1)
    BY <1>6
  <2>2. n \in 1..n /\ m \in 1..m /\ \A h \in 1..m : Read(h) \in 1..n /\ (Read(h) = n <=> h = m)
    BY <1>2, <1>6, <1>8, <1>9, <2>1
  <2>3. Rows = [h \in 1..m |-> cycleLog[Read(h)]]
    BY <1>7 DEF Rows, Read
  <2>4. \A h \in 1..m : cycleLog[Read(h)] \in LogRows
    BY <1>2, <2>2 DEF Numbered
  <2>5. Rows \in Seq(LogRows)
    <3> HIDE DEF LogRows
    <3> QED
      BY <1>6, <2>3, <2>4
  <2>6. \A k \in 1..n : cycleLog[k].pass = p <=> k = n
    BY <1>1, <1>2 DEF OnlyRow
  <2>7. \A h \in 1..m : Rows[h] = cycleLog[Read(h)]
    BY <2>3
  <2>8. Len(Rows) = m /\ DOMAIN Rows = 1..m
    BY <1>6, <2>3, <2>5
  <2> HIDE DEF n, m
  <2> QED
    BY <1>9, <2>2, <2>6, <2>7, <2>8
<1>11. Archive = [Rows EXCEPT ![m] = CycleEntry(record)]
  <2>1. record # NoRecord
    <3>1. p # 0
      OBVIOUS
    <3> QED
      BY <3>1 DEF NoRecord
  <2>2. Rows[m].ts = record.ts /\ record.ts # Unset
    BY <1>1, <1>10 DEF RowTs
  <2>3. SameDream(Rows[m], record) /\ m # 0
    BY <1>6, <2>2 DEF SameDream
  <2> QED
    BY <1>10, <2>1, <2>2, <2>3 DEF Archive
<1>12. CycleEntry(record).pass = p /\ CycleEntry(record).open = record.open
  BY DEF CycleEntry
<1>13. /\ DOMAIN Archive = 1..m /\ Archive[m] = CycleEntry(record)
       /\ \A h \in 1..m : h # m => Archive[h] = Rows[h]
  BY <1>10, <1>11
<1> QED
  BY <1>10, <1>12, <1>13

\* LoggedWhenClean: whatever other sessions dream, stamp, render or crash before and
\* after, and whichever append or write of theirs fails, a pass that nobody came in between
\* and that ended with exit 0, other than with the note that its append failed, has its one
\* row, under its own stamp, and its archive page shows it with every gate closed (render
\* --persist).
THEOREM LoggedWhenClean == DreamSpec => []ExitZeroIsLogged
<1>1. ASSUME DreamInv
      PROVE  ExitZeroIsLogged
  <2> SUFFICES ASSUME NEW p \in clean \ (disturbed \cup told)
               PROVE  /\ \E i \in DOMAIN cycleLog :
                            /\ cycleLog[i].pass = p
                            /\ \A h \in DOMAIN cycleLog \ {i} :
                                  cycleLog[h].pass # p /\ cycleLog[h].ts # cycleLog[i].ts
                      /\ record.pass = p =>
                            \E i \in DOMAIN Archive :
                               /\ Archive[i].open \cap Gating = {}
                               /\ \A h \in DOMAIN Archive : Archive[h].pass = p <=> h = i
    BY DEF ExitZeroIsLogged
  <2>1. Numbered /\ p \in 1..passes /\ PassInv(p) /\ p \in Ended
    BY <1>1 DEF DreamInv, Numbered, Undisturbed, Ended
  <2>2. PICK i \in DOMAIN cycleLog : LoggedAt(p, i)
    BY <2>1 DEF PassInv, Unlogged, Logged
  <2>3. /\ cycleLog[i].pass = p
        /\ \A h \in DOMAIN cycleLog \ {i} : cycleLog[h].pass # p /\ cycleLog[h].ts # cycleLog[i].ts
    BY <2>2 DEF LoggedAt, OnlyRow, RowTs
  <2>4. ASSUME record.pass = p
        PROVE  \E k \in DOMAIN Archive :
                  /\ Archive[k].open \cap Gating = {}
                  /\ \A h \in DOMAIN Archive : Archive[h].pass = p <=> h = k
    <3>1. record.ts # Unset /\ record.open \cap Gating = {}
      BY <2>1, <2>4 DEF PassInv, Cleaned
    <3>2. PICK k \in DOMAIN Archive :
              /\ Archive[k].open = record.open
              /\ \A h \in DOMAIN Archive : Archive[h].pass = p <=> h = k
      BY <2>1, <2>2, <2>4, <3>1, ArchiveShows
    <3> QED
      BY <3>1, <3>2
  <2> QED
    BY <2>3, <2>4
<1> QED
  BY <1>1, DreamInvStart, DreamInvStep, PTL DEF DreamSpec

(* The types of a cycle.                                                   *)

DreamRanges ==
    /\ stamps \in 0..MaxStamps /\ passes \in 0..MaxPasses
    /\ windows \subseteq [cycle : 1..stamps, sequence : Nat, probative : BOOLEAN]
    /\ marker.justify = {} \/ \E n \in Nat : marker.justify = {n}
    /\ disturbed \subseteq 1..passes

LEMMA InitDreamRanges == DreamInit => DreamRanges
<1> SUFFICES ASSUME DreamInit PROVE DreamRanges
  OBVIOUS
<1>1. marker.justify = {}
  BY DEF DreamInit
<1>2. QED
  BY <1>1, CycleAssumption DEF DreamInit, DreamRanges

\* Whose pass it is that a session comes in between.
LEMMA OthersArePasses ==
    ASSUME Numbered, NEW d \in Dreamer
    PROVE  Others(d) \subseteq 1..passes
<1>1. record.owner \in Dreamer => record.pass \in 1..passes
  <2>1. CASE record = NoRecord
    BY <2>1, CycleAssumption DEF NoRecord
  <2>2. CASE record \in CycleRecords
    BY <2>2, RecordFields
  <2>3. QED
    BY <2>1, <2>2 DEF Numbered
<1>2. ASSUME NEW e \in Dreamer, dreamer[e] # Asleep
      PROVE  dreamer[e].r.pass \in 1..passes
  <2>1. dreamer[e].r \in CycleRecords
    BY <1>2 DEF Numbered
  <2>2. QED
    BY <2>1, RecordFields
<1>3. QED
  BY <1>1, <1>2 DEF Others

LEMMA StepDreamRanges ==
    Clocked /\ Numbered /\ DreamRanges /\ [DreamNext]_dreamvars => DreamRanges'
<1> SUFFICES ASSUME Clocked, Numbered, DreamRanges, [DreamNext]_dreamvars PROVE DreamRanges'
  OBVIOUS
<1>0. /\ stamps \in Nat /\ passes \in Nat /\ MaxStamps \in Nat /\ MaxPasses \in Nat
      /\ marker \in [ts : Nat, justify : SUBSET Nat]
      /\ Cardinality(windows) \in Nat /\ DOMAIN dreamer = Sitting
  BY CycleAssumption, FS_CardinalityType DEF Clocked, Numbered
<1>1. ASSUME NEW d \in Dreamer, Pass(d) \/ Mishap(d)
      PROVE  marker'.justify = marker.justify
  <2>1. marker' = marker \/ marker' = [marker EXCEPT !.ts = stamps']
    BY <1>1 DEF Pass, Mishap, Seed, StampMarker, Render, RenderBlind, AppendRow,
       AppendFails, Count, Insert, CountFails, Heal, HealFails, Fill, DreamCrash
  <2> QED
    BY <1>0, <2>1
<1>2. ASSUME NEW d \in Justifier, Justification(d)
      PROVE  marker'.justify \in {marker.justify} \/ \E n \in Nat : marker'.justify = {n}
  <2>1. CASE Justify(d)
    <3>1. dreamer[d].sequence \in Nat
      BY <1>0, <2>1 DEF Justify, Clocked, Sitting
    <3>2. marker' = marker \/ marker' = [marker EXCEPT !.justify = {dreamer[d].sequence}]
      BY <2>1 DEF Justify
    <3>3. QED
      BY <1>0, <3>1, <3>2
  <2>2. QED
    BY <1>2, <2>1 DEF Justification, JustifyBegin
<1>3. ASSUME NEW d \in Dreamer, NEW S \in SUBSET (1..passes),
             disturbed' = disturbed \cup Others(d) \cup S, passes' \in Nat, passes <= passes'
      PROVE  disturbed' \subseteq 1..passes'
  <2>1. disturbed \subseteq 1..passes /\ Others(d) \subseteq 1..passes
    BY OthersArePasses DEF DreamRanges
  <2>2. 1..passes \subseteq 1..passes'
    BY <1>0, <1>3
  <2>3. QED
    BY <1>3, <2>1, <2>2
<1>4. ASSUME NEW d \in Dreamer, Pass(d) \/ Mishap(d)
      PROVE  passes' \in 0..MaxPasses /\ passes <= passes' /\ stamps' \in 0..MaxStamps /\ stamps <= stamps'
  <2>1. \/ passes < MaxPasses /\ passes' = passes + 1
        \/ passes' = passes
    BY <1>4 DEF Pass, Mishap, Seed, StampMarker, Render, RenderBlind, AppendRow,
       AppendFails, Count, Insert, CountFails, Heal, HealFails, Fill, DreamCrash
  <2>2. \/ stamps < MaxStamps /\ stamps' = stamps + 1
        \/ stamps' = stamps
    BY <1>4 DEF Pass, Mishap, Seed, StampMarker, Render, RenderBlind, AppendRow,
       AppendFails, Count, Insert, CountFails, Heal, HealFails, Fill, DreamCrash
  <2>3. QED
    BY <1>0, <2>1, <2>2 DEF DreamRanges
<1>5. ASSUME NEW d \in Dreamer, Pass(d) \/ Mishap(d)
      PROVE  windows' \subseteq [cycle : 1..stamps', sequence : Nat, probative : BOOLEAN]
  <2>1. windows \subseteq [cycle : 1..stamps', sequence : Nat, probative : BOOLEAN]
    <3>1. 1..stamps \subseteq 1..stamps'
      BY <1>0, <1>4, <1>5
    <3>2. QED
      BY <3>1 DEF DreamRanges
  <2>2. CASE Insert(d)
    <3>1. dreamer[d].pc = "insert" /\ dreamer[d] # Asleep
      BY <2>2 DEF Insert, Asleep
    <3>2. dreamer[d].ts \in 1..stamps'
      BY <1>0, <1>4, <1>5, <3>1 DEF Numbered
    <3>3. dreamer[d].sequence \in Nat
      BY <1>0, <3>1 DEF Clocked, Sitting
    <3>4. \/ windows' = windows
          \/ \E probative \in Worth :
               windows' = windows \cup {[cycle |-> dreamer[d].ts, sequence |-> dreamer[d].sequence,
                                         probative |-> probative]}
      BY <2>2 DEF Insert, InsertRow
    <3>5. QED
      BY <2>1, <3>2, <3>3, <3>4, CycleAssumption
  <2>3. CASE ~Insert(d)
    <3>1. windows' = windows
      BY <1>5, <2>3 DEF Pass, Mishap, Seed, StampMarker, Render, RenderBlind, AppendRow,
         AppendFails, Count, CountFails, Heal, HealFails, Fill, DreamCrash
    <3>2. QED
      BY <2>1, <3>1
  <2>4. QED
    BY <2>2, <2>3
<1>6. ASSUME NEW d \in Dreamer, Pass(d) PROVE DreamRanges'
  <2>1. disturbed' \subseteq 1..passes'
    <3>1. disturbed' = disturbed \cup Others(d) \cup {}
      BY <1>6 DEF Pass
    <3>2. passes' \in Nat /\ passes <= passes'
      BY <1>0, <1>4, <1>6
    <3>3. QED
      BY <1>3, <3>1, <3>2
  <2>2. QED
    BY <1>1, <1>4, <1>5, <1>6, <2>1 DEF DreamRanges
<1>7. ASSUME NEW d \in Dreamer, Mishap(d) PROVE DreamRanges'
  <2>1. disturbed' \subseteq 1..passes'
    <3>1. PICK S \in SUBSET (1..passes) : disturbed' = disturbed \cup Others(d) \cup S
      BY <1>7, MishapIs
    <3>2. passes' \in Nat /\ passes <= passes'
      BY <1>0, <1>4, <1>7
    <3>3. QED
      BY <1>3, <3>1, <3>2
  <2>2. QED
    BY <1>1, <1>4, <1>5, <1>7, <2>1 DEF DreamRanges
<1>8. ASSUME NEW d \in Justifier, Justification(d) PROVE DreamRanges'
  <2>1. UNCHANGED <<stamps, passes, windows, disturbed>>
    BY <1>8 DEF Justification, Justify, JustifyBegin
  <2>2. QED
    BY <1>2, <1>8, <2>1 DEF DreamRanges
<1>9. CASE UNCHANGED dreamvars
  BY <1>9 DEF dreamvars, DreamRanges
<1>10. QED
  BY <1>6, <1>7, <1>8, <1>9 DEF DreamNext

\* No more windows are counted than stamps were set.
LEMMA WindowsStamped ==
    ASSUME Clocked, DreamRanges
    PROVE  Cardinality(windows) \in Nat /\ Cardinality(windows) <= stamps
<1> DEFINE f == [n \in windows |-> n.cycle]
<1>1. stamps \in Nat /\ IsFiniteSet(windows) /\ Cardinality(windows) \in Nat
  BY FS_CardinalityType DEF Clocked
<1>2. IsFiniteSet(1..stamps) /\ Cardinality(1..stamps) = stamps
  BY <1>1, FS_Interval
<1>3. f \in Injection(windows, 1..stamps)
  <2>1. \A n \in windows : n.cycle \in 1..stamps
    BY DEF DreamRanges
  <2>2. \A v, n \in windows : v.cycle = n.cycle => v = n
    BY DEF Clocked, Distinct
  <2>3. QED
    BY <2>1, <2>2 DEF Injection, IsInjective
<1> HIDE DEF f
<1>4. QED
  BY <1>1, <1>2, <1>3, FS_Injection

(* The marker, the record, the log and the windows of a project are of their types, and  *)
(* a fact is justified at one moment at most, whatever sessions dream and justify at     *)
(* once and wherever they are killed (memory_status.py, render_dashboard.py).            *)
THEOREM DreamTyped == DreamSpec => []DreamTypeOK
<1>1. ASSUME Clocked, Numbered, DreamRanges PROVE DreamTypeOK
  <2>1. /\ stamps \in Nat /\ passes \in Nat /\ stamps <= MaxStamps /\ passes <= MaxPasses
        /\ MaxStamps \in Nat /\ MaxPasses \in Nat
        /\ Cardinality(windows) \in Nat /\ Cardinality(windows) <= stamps
    BY <1>1, WindowsStamped, CycleAssumption DEF Numbered, DreamRanges
  <2>2. marker.ts \in 0..stamps
    BY <1>1, <2>1 DEF Numbered
  <2>3. marker.justify \subseteq 0..MaxStamps /\ Cardinality(marker.justify) <= 1
    <3>1. 0..Cardinality(windows) \subseteq 0..MaxStamps
      BY <2>1
    <3>2. marker.justify \subseteq 0..Cardinality(windows)
      BY <1>1 DEF Clocked
    <3>3. Cardinality({}) = 0 /\ \A n \in Nat : Cardinality({n}) = 1
      BY FS_EmptySet, FS_Singleton
    <3>4. QED
      BY <1>1, <3>1, <3>2, <3>3 DEF DreamRanges
  <2>4. record = NoRecord \/ record \in CycleRecords
    BY <1>1 DEF Numbered
  <2>5. \A i \in DOMAIN cycleLog : cycleLog[i] \in CycleRow
    <3>1. 1..passes \subseteq 1..MaxPasses /\ 1..stamps \subseteq 1..MaxStamps
      BY <2>1
    <3>2. LogRows \subseteq CycleRow
      BY <3>1 DEF LogRows, CycleRow
    <3>3. cycleLog \in Seq(LogRows)
      BY <1>1 DEF Numbered
    <3>4. QED
      BY <3>2, <3>3
  <2>6. windows \subseteq Window
    <3>1. 1..stamps \subseteq 1..MaxStamps /\ 1..Cardinality(windows) \subseteq 1..MaxStamps
      BY <2>1
    <3>2. ASSUME NEW n \in windows PROVE n \in Window
      <4>1. n \in [cycle : 1..stamps, sequence : Nat, probative : BOOLEAN]
        BY <1>1 DEF DreamRanges
      <4>2. n.sequence \in 1..Cardinality(windows)
        BY <1>1 DEF Clocked
      <4>3. QED
        BY <3>1, <4>1, <4>2 DEF Window
    <3>3. QED
      BY <3>2
  <2>7. disturbed \subseteq 1..passes /\ clean \subseteq 1..passes /\ told \subseteq 1..passes
    BY <1>1 DEF DreamRanges, Numbered
  <2>8. QED
    BY <2>2, <2>3, <2>4, <2>5, <2>6, <2>7 DEF DreamTypeOK, CycleRecords
<1>2. DreamInv => Clocked /\ Numbered
  BY DEF DreamInv
<1>3. QED
  BY <1>1, <1>2, DreamInvStart, DreamInvStep, InitDreamRanges, StepDreamRanges, PTL DEF DreamSpec

-----------------------------------------------------------------------------
(* The index of the native store (NativeStore).                            *)
(*                                                                         *)
(* A command decides from what it read; its transact pins the index and    *)
(* its fact, so that what it read of them is what is there when it writes. *)
(* What the properties need of it is that these readings are of the shape  *)
(* of a store, and that a rebuild was not blocked.                         *)

StoreShape(f, lines, a) ==
    /\ DOMAIN f = Stem /\ \A s \in Stem : f[s] \in Fact
    /\ lines \subseteq Line
    /\ a \in [readable : BOOLEAN, placed : SUBSET Stem]

CommandShape(m) ==
    /\ m.op \in {"upsert", "forget", "archive", "rebuild"}
    /\ StoreShape(m.fact, m.index, m.archive)
    /\ m.op = "rebuild" => ~Blocked(m)
    /\ m.op # "rebuild" => m.stem \in Stem
    /\ m.op = "upsert" => m.desc \in Desc

StoreInv ==
    /\ StoreShape(fact, index, archive)
    /\ DOMAIN command = Session
    /\ \A c \in Session : command[c] = NoCommand \/ CommandShape(command[c])

LEMMA LineShape ==
    ASSUME NEW l \in Line
    PROVE  /\ l.links[1] \in Links(l) /\ Links(l) \subseteq Stem
           /\ l.cue \in Cue
<1>1. CASE l \in [links : {<<s>> : s \in Stem}, cue : Cue]
  <2>1. PICK s \in Stem : l.links = <<s>>
    BY <1>1
  <2>2. DOMAIN l.links = {1} /\ l.links[1] = s
    BY <2>1
  <2> QED
    BY <1>1, <2>2 DEF Links
<1>2. CASE l \in [links : {<<s, t>> : s, t \in Stem}, cue : {Odd}]
  <2>1. PICK s \in Stem, t \in Stem : l.links = <<s, t>>
    BY <1>2
  <2>2. DOMAIN l.links = {1, 2} /\ l.links[1] = s /\ l.links[2] = t
    BY <2>1
  <2> QED
    BY <1>2, <2>2 DEF Links, Cue
<1> QED
  BY <1>1, <1>2 DEF Line

LEMMA PointerShape ==
    ASSUME NEW s \in Stem, NEW d \in Desc
    PROVE  /\ PointerLine(s, d) \in Line
           /\ PointerLine(s, d).links[1] = s /\ Links(PointerLine(s, d)) = {s}
           /\ ShowsDesc(PointerLine(s, d), d)
<1> DEFINE cue == [of |-> d, shape |-> "derived"]
           l == PointerLine(s, d)
<1>1. l.links = <<s>> /\ l.cue = cue /\ l = [links |-> <<s>>, cue |-> cue]
  BY DEF PointerLine
<1>2. cue \in Cue
  BY DEF Cue
<1>3. DOMAIN l.links = {1} /\ l.links[1] = s
  BY <1>1
<1>4. Links(l) = {s}
  BY <1>3 DEF Links
<1>5. l \in Line
  BY <1>1, <1>2 DEF Line
<1> QED
  BY <1>1, <1>3, <1>4, <1>5 DEF ShowsDesc

LEMMA MirrorShape ==
    ASSUME NEW s \in Stem
    PROVE  /\ MirrorLine(s) \in Line
           /\ MirrorLine(s).links[1] = s /\ Links(MirrorLine(s)) = {s}
<1> DEFINE l == MirrorLine(s)
<1>1. l.links = <<s>> /\ l.cue = Odd /\ l = [links |-> <<s>>, cue |-> Odd]
  BY DEF MirrorLine
<1>2. DOMAIN l.links = {1} /\ l.links[1] = s
  BY <1>1
<1>3. Links(l) = {s}
  BY <1>2 DEF Links
<1>4. l \in Line
  BY <1>1 DEF Line, Cue
<1> QED
  BY <1>2, <1>3, <1>4

\* The line of a stem, stored or derived: it shows the description it is written for.
LEMMA StoredShape ==
    ASSUME NEW lines \in SUBSET Line, NEW s \in Stem, NEW d \in Desc, NEW old,
           NEW l \in PointerOrStored(lines, s, old, d)
    PROVE  /\ l \in Line /\ l.links[1] = s /\ s \in Links(l)
           /\ ShowsDesc(l, d)
           /\ l \in lines \/ l = PointerLine(s, d)
<1>1. \/ l \in lines /\ l.links[1] = s /\ CueIsCurrent(l.cue, d)
      \/ l = PointerLine(s, d)
  BY DEF PointerOrStored
<1>2. CASE l \in lines /\ l.links[1] = s /\ CueIsCurrent(l.cue, d)
  <2>1. l \in Line /\ s \in Links(l) /\ l.cue \in Cue
    BY <1>2, LineShape
  <2>2. Odd.shape = "odd"
    BY DEF Odd
  <2>3. l.cue \in [of : Desc, shape : {"derived", "tight"}] /\ l.cue.of = d
    BY <1>2, <2>1, <2>2 DEF Cue, CueIsCurrent
  <2>4. l.cue \in {[of |-> d, shape |-> "derived"], [of |-> d, shape |-> "tight"]}
    BY <2>3
  <2> QED
    BY <1>2, <2>1, <2>4 DEF ShowsDesc
<1>3. CASE l = PointerLine(s, d)
  BY <1>3, PointerShape
<1> QED
  BY <1>1, <1>2, <1>3

\* What is in the index after a line has been put there.
LEMMA AppliedShape ==
    ASSUME NEW lines, NEW line, NEW s, NEW new \in ApplyPointer(lines, line, s)
    PROVE  /\ line \in new /\ new \subseteq lines \cup {line}
           /\ \A l \in lines : s \notin Links(l) => l \in new
BY DEF ApplyPointer

LEMMA FactDesc ==
    ASSUME NEW f \in Fact, f.kind = "own"
    PROVE  f.desc \in Desc
<1>1. NoFact.kind = "none" /\ MirrorFact.kind = "mirror" /\ Broken.kind = "broken"
      /\ Garbled.kind = "garbled"
  BY DEF NoFact, MirrorFact, Broken, Garbled
<1> QED
  BY <1>1 DEF Fact

\* The lines a rebuild may write, and where each comes from.
LEMMA FutureShape ==
    ASSUME NEW m, CommandShape(m), NEW new \in Future(m)
    PROVE  /\ \A l \in new : \/ l \in Carried(m)
                             \/ \E s \in Included(m) :
                                   /\ m.fact[s].desc \in Desc
                                   /\ l \in PointerOrStored(m.index, s, m.fact[s].desc, m.fact[s].desc)
                             \/ \E s \in Mirrors(m) : l = MirrorLine(s)
           /\ Carried(m) \subseteq new
           /\ \A s \in Included(m) \cup Mirrors(m) : s \in Named(new)
<1>0. DOMAIN m.fact = Stem /\ m.index \in SUBSET Line /\ \A s \in Stem : m.fact[s] \in Fact
  BY DEF CommandShape, StoreShape
<1>1. PICK line \in Derived(m) :
         new = Carried(m) \cup {line[s] : s \in DOMAIN line \ Named(Carried(m))}
                \cup {MirrorLine(s) : s \in Mirrors(m) \ Named(Carried(m))}
  BY DEF Future
<1>2. DOMAIN line = Included(m)
      /\ \A s \in Included(m) :
            line[s] \in PointerOrStored(m.index, s, m.fact[s].desc, m.fact[s].desc)
  BY DEF Derived
<1>3. \A s \in Included(m) : s \in Stem /\ m.fact[s].desc \in Desc
  BY <1>0, FactDesc DEF Included
<1>4. \A s \in Included(m) : s \in Links(line[s])
  BY <1>0, <1>2, <1>3, StoredShape
<1>5. \A s \in Mirrors(m) : s \in Links(MirrorLine(s))
  BY MirrorShape DEF Mirrors
<1>6. \A s \in Named(Carried(m)) : s \in Named(new)
  BY <1>1 DEF Named
<1>7. \A s \in Included(m) \ Named(Carried(m)) : s \in Named(new)
  BY <1>1, <1>2, <1>4 DEF Named
<1>8. \A s \in Mirrors(m) \ Named(Carried(m)) : s \in Named(new)
  BY <1>1, <1>5 DEF Named
<1> QED
  BY <1>1, <1>2, <1>3, <1>6, <1>7, <1>8

LEMMA FutureLines ==
    ASSUME NEW m, CommandShape(m), NEW new \in Future(m)
    PROVE  new \subseteq Line
<1>1. m.index \in SUBSET Line /\ Carried(m) \subseteq m.index
  BY DEF CommandShape, StoreShape, Carried
<1>2. \A s \in Included(m) \cup Mirrors(m) : s \in Stem
  BY DEF Included, Mirrors
<1> QED
  BY <1>1, <1>2, FutureShape, StoredShape, MirrorShape

-----------------------------------------------------------------------------
\* A command that begins has read the store.
LEMMA BeginsShaped ==
    ASSUME StoreInv, NEW c \in Session, NEW m, CommandShape(m), LocalBegin(c, m)
    PROVE  StoreInv'
BY DEF StoreInv, LocalBegin, storevars, StoreShape

LEMMA EndsShaped ==
    ASSUME StoreInv, NEW c \in Session, LocalEnd(c), StoreShape(fact, index, archive)'
    PROVE  StoreInv'
BY DEF StoreInv, LocalEnd

LEMMA CommandBegins ==
    ASSUME StoreInv, NEW c \in Session,
           \/ \E s \in Stem, d \in Desc, createOnly \in BOOLEAN : UpsertBegin(c, s, d, createOnly)
           \/ \E s \in Stem : ForgetBegin(c, s) \/ ArchiveBegin(c, s)
           \/ \E skip \in BOOLEAN : RebuildBegin(c, skip)
    PROVE  StoreInv'
<1>0. StoreShape(fact, index, archive)
  BY DEF StoreInv
<1>1. ASSUME NEW s \in Stem, NEW d \in Desc, NEW createOnly \in BOOLEAN,
             UpsertBegin(c, s, d, createOnly)
      PROVE  StoreInv'
  <2> DEFINE m == Upserting(s, d)
  <2>1. m.op = "upsert" /\ m.stem = s /\ m.desc = d /\ m.fact = fact /\ m.index = index
        /\ m.archive = archive
    BY DEF Upserting
  <2>2. LocalBegin(c, m)
    BY <1>1 DEF UpsertBegin
  <2> HIDE DEF m
  <2>3. CommandShape(m)
    BY <1>0, <2>1 DEF CommandShape
  <2> QED
    BY <2>2, <2>3, BeginsShaped
<1>2. ASSUME NEW s \in Stem, NEW op \in {"forget", "archive"}, LocalBegin(c, Removing(op, s))
      PROVE  StoreInv'
  <2> DEFINE m == Removing(op, s)
  <2>1. m.op = op /\ m.stem = s /\ m.fact = fact /\ m.index = index /\ m.archive = archive
    BY DEF Removing
  <2>2. LocalBegin(c, m)
    BY <1>2
  <2> HIDE DEF m
  <2>3. CommandShape(m)
    BY <1>0, <2>1 DEF CommandShape
  <2> QED
    BY <2>2, <2>3, BeginsShaped
<1>3. ASSUME NEW skip \in BOOLEAN, RebuildBegin(c, skip)
      PROVE  StoreInv'
  <2> DEFINE m == Rebuilding(skip)
  <2>1. m.op = "rebuild" /\ m.fact = fact /\ m.index = index /\ m.archive = archive
    BY DEF Rebuilding
  <2>2. LocalBegin(c, m) /\ ~Blocked(m)
    BY <1>3 DEF RebuildBegin
  <2> HIDE DEF m
  <2>3. CommandShape(m)
    BY <1>0, <2>1, <2>2 DEF CommandShape
  <2> QED
    BY <2>2, <2>3, BeginsShaped
<1> QED
  BY <1>1, <1>2, <1>3 DEF ForgetBegin, ArchiveBegin

\* A command that ends leaves a store.
LEMMA CommandCommits ==
    ASSUME StoreInv, NEW c \in Session,
           UpsertCommit(c) \/ ForgetCommit(c) \/ ArchiveCommit(c) \/ RebuildCommit(c) \/ Refused(c)
    PROVE  StoreInv'
<1> DEFINE m == command[c]
<1>0. StoreShape(fact, index, archive)
  BY DEF StoreInv
<1>1. ASSUME m.op # "none"
      PROVE  CommandShape(m)
  BY <1>1 DEF StoreInv, NoCommand
<1>2. ASSUME UpsertCommit(c)
      PROVE  StoreInv'
  <2>1. CommandShape(m) /\ m.op = "upsert" /\ m.stem \in Stem /\ m.desc \in Desc
    BY <1>1, <1>2 DEF UpsertCommit, CommandShape
  <2>2. OwnFact("valid", m.desc) \in Fact
    BY <2>1 DEF OwnFact, Fact
  <2>3. fact' = [fact EXCEPT ![m.stem] = OwnFact("valid", m.desc)] /\ UNCHANGED archive
    BY <1>2 DEF UpsertCommit
  <2>4. \/ index' = index
        \/ \E old : \E line \in PointerOrStored(index, m.stem, old, m.desc) :
              index' \in ApplyPointer(index, line, m.stem)
    BY <1>2 DEF UpsertCommit
  <2>5. index' \subseteq Line
    <3> HIDE DEF m
    <3> QED
      BY <1>0, <2>1, <2>4, StoredShape, AppliedShape DEF StoreShape
  <2>6. StoreShape(fact, index, archive)'
    BY <1>0, <2>2, <2>3, <2>5 DEF StoreShape
  <2> QED
    BY <1>2, <2>6, EndsShaped DEF UpsertCommit
<1>3. ASSUME ForgetCommit(c)
      PROVE  StoreInv'
  <2>1. fact' = [fact EXCEPT ![m.stem] = NoFact] /\ UNCHANGED archive /\ index' \subseteq index
    BY <1>3 DEF ForgetCommit, DropPointerLines
  <2>2. StoreShape(fact, index, archive)'
    BY <1>0, <2>1 DEF StoreShape, Fact
  <2> QED
    BY <1>3, <2>2, EndsShaped DEF ForgetCommit
<1>4. ASSUME ArchiveCommit(c)
      PROVE  StoreInv'
  <2>1. CommandShape(m) /\ m.stem \in Stem
    BY <1>1, <1>4 DEF ArchiveCommit, CommandShape
  <2>2. archive' = [archive EXCEPT !.placed = @ \cup {m.stem}] /\ UNCHANGED fact
        /\ index' \subseteq index
    BY <1>4 DEF ArchiveCommit, DropPointerLines
  <2>3. StoreShape(fact, index, archive)'
    BY <1>0, <2>1, <2>2 DEF StoreShape
  <2> QED
    BY <1>4, <2>3, EndsShaped DEF ArchiveCommit
<1>5. ASSUME RebuildCommit(c)
      PROVE  StoreInv'
  <2>1. CommandShape(m)
    BY <1>1, <1>5 DEF RebuildCommit
  <2>2. index' \in Future(m) /\ UNCHANGED <<fact, archive>>
    BY <1>5 DEF RebuildCommit
  <2>3. index' \subseteq Line
    <3> HIDE DEF m
    <3> QED
      BY <2>1, <2>2, FutureLines
  <2>4. StoreShape(fact, index, archive)'
    BY <1>0, <2>2, <2>3 DEF StoreShape
  <2> QED
    BY <1>5, <2>4, EndsShaped DEF RebuildCommit
<1>6. ASSUME Refused(c)
      PROVE  StoreInv'
  <2>1. StoreShape(fact, index, archive)'
    BY <1>0, <1>6 DEF Refused, storevars, StoreShape
  <2> QED
    BY <1>6, <2>1, EndsShaped DEF Refused
<1> QED
  BY <1>2, <1>3, <1>4, <1>5, <1>6

LEMMA UserEdits == StoreInv /\ UserEdit => StoreInv'
<1> SUFFICES ASSUME StoreInv, UserEdit
             PROVE  StoreInv'
  OBVIOUS
<1>0. StoreShape(fact, index, archive) /\ UNCHANGED command
  BY DEF StoreInv, UserEdit, EditFact, EditLine, ArchiveUnreadable, LocalEdit
<1>1. ASSUME NEW s \in Stem, NEW f \in Fact, EditFact(s, f)
      PROVE  StoreShape(fact, index, archive)'
  BY <1>0, <1>1 DEF EditFact, StoreShape
<1>2. ASSUME NEW old \in index, NEW new \in Line, EditLine(old, new)
      PROVE  StoreShape(fact, index, archive)'
  BY <1>0, <1>2 DEF EditLine, StoreShape
<1>3. ASSUME ArchiveUnreadable
      PROVE  StoreShape(fact, index, archive)'
  BY <1>0, <1>3 DEF ArchiveUnreadable, StoreShape
<1>4. StoreShape(fact, index, archive)'
  BY <1>1, <1>2, <1>3 DEF UserEdit
<1> QED
  BY <1>0, <1>4 DEF StoreInv

LEMMA StoreInit == LocalInit => StoreInv
<1> SUFFICES ASSUME LocalInit
             PROVE  StoreInv
  OBVIOUS
<1>1. PICK kept \in {{}, Stem}, d \in Desc :
        /\ fact = [s \in Stem |-> IF s \in kept THEN OwnFact("valid", d) ELSE NoFact]
        /\ index = {PointerLine(s, d) : s \in kept}
  BY DEF LocalInit
<1>2. OwnFact("valid", d) \in Fact /\ NoFact \in Fact
  BY DEF OwnFact, Fact
<1>3. DOMAIN fact = Stem /\ \A s \in Stem : fact[s] \in Fact
  BY <1>1, <1>2
<1>4. index \subseteq Line
  BY <1>1, PointerShape
<1>5. archive \in [readable : BOOLEAN, placed : SUBSET Stem]
  BY DEF LocalInit
<1> QED
  BY <1>3, <1>4, <1>5 DEF LocalInit, StoreInv, StoreShape

LEMMA StoreInvStep == StoreInv /\ [LocalNext]_localvars => StoreInv'
<1> SUFFICES ASSUME StoreInv, [LocalNext]_localvars
             PROVE  StoreInv'
  OBVIOUS
<1>1. CASE UNCHANGED localvars
  BY <1>1 DEF localvars, storevars, StoreInv, StoreShape
<1> QED
  BY <1>1, CommandBegins, CommandCommits, UserEdits DEF LocalNext, Command

LEMMA StoreInvHolds == LocalSpec => []StoreInv
BY StoreInit, StoreInvStep, PTL DEF LocalSpec

-----------------------------------------------------------------------------
\* A command that is over in this step has ended in one of five ways.
LEMMA Endings ==
    ASSUME StoreInv, LocalNext, NEW c \in Session, CommandEnds(c)
    PROVE  /\ CommandShape(command[c])
           /\ \/ UpsertCommit(c) \/ ForgetCommit(c) \/ ArchiveCommit(c) \/ RebuildCommit(c)
              \/ Refused(c)
<1>0. command[c] # NoCommand /\ command'[c] = NoCommand /\ DOMAIN command = Session
  BY DEF CommandEnds, StoreInv
<1>1. ASSUME NEW e \in Session, NEW m, LocalBegin(e, m)
      PROVE  FALSE
  BY <1>0, <1>1 DEF LocalBegin
<1>2. ASSUME NEW e \in Session, LocalEnd(e)
      PROVE  e = c
  BY <1>0, <1>2 DEF LocalEnd
<1>3. ~UserEdit
  BY <1>0 DEF UserEdit, EditFact, EditLine, ArchiveUnreadable, LocalEdit
<1>4. PICK e \in Session : Command(e)
  BY <1>3 DEF LocalNext
<1>5. \/ UpsertCommit(e) \/ ForgetCommit(e) \/ ArchiveCommit(e) \/ RebuildCommit(e) \/ Refused(e)
  BY <1>1, <1>4 DEF Command, UpsertBegin, ForgetBegin, ArchiveBegin, RebuildBegin
<1>6. e = c
  BY <1>2, <1>5 DEF UpsertCommit, ForgetCommit, ArchiveCommit, RebuildCommit, Refused
<1> QED
  BY <1>0, <1>5, <1>6 DEF StoreInv

\* What an upsert does to the index.
LEMMA Upserts ==
    ASSUME StoreInv, NEW c \in Session, UpsertCommit(c), ~Declined(command[c])
    PROVE  \E line \in Line :
              /\ line \in index' /\ command[c].stem \in Links(line)
              /\ line.links[1] = command[c].stem /\ ShowsDesc(line, command[c].desc)
              /\ line \in index \/ Links(line) = {command[c].stem}
              /\ index' \subseteq index \cup {line}
              /\ \A l \in index : command[c].stem \notin Links(l) => l \in index'
<1> DEFINE m == command[c]
<1>1. m.stem \in Stem /\ m.desc \in Desc /\ index \in SUBSET Line
  BY DEF StoreInv, StoreShape, CommandShape, UpsertCommit, NoCommand
<1>2. \E old : \E line \in PointerOrStored(index, m.stem, old, m.desc) :
              index' \in ApplyPointer(index, line, m.stem)
  BY DEF UpsertCommit
<1> HIDE DEF m
<1>21. PICK old : \E line \in PointerOrStored(index, m.stem, old, m.desc) :
              index' \in ApplyPointer(index, line, m.stem)
  BY <1>2
<1>3. PICK line \in PointerOrStored(index, m.stem, old, m.desc) :
              index' \in ApplyPointer(index, line, m.stem)
  BY <1>21
<1>4. /\ line \in Line /\ line.links[1] = m.stem /\ m.stem \in Links(line)
      /\ ShowsDesc(line, m.desc)
      /\ line \in index \/ line = PointerLine(m.stem, m.desc)
  BY <1>1, StoredShape
<1>5. line \in index \/ Links(line) = {m.stem}
  BY <1>1, <1>4, PointerShape
<1>6. /\ line \in index' /\ index' \subseteq index \cup {line}
      /\ \A l \in index : m.stem \notin Links(l) => l \in index'
  BY <1>3, AppliedShape
<1> QED
  BY <1>4, <1>5, <1>6 DEF m

\* A stem keeps a line of the index that the stem of the command does not share.
LEMMA KeptLine ==
    ASSUME NEW m, m.op # "rebuild", NEW s, s # m.stem, ~OnlyShared(m, s),
           NEW new, \A l \in index : m.stem \notin Links(l) => l \in new
    PROVE  s \in Named(new)
BY DEF OnlyShared, Named

LEMMA DroppedShape ==
    ASSUME NEW lines \in SUBSET Line, NEW s
    PROVE  /\ DropPointerLines(lines, s) \subseteq lines
           /\ \A l \in lines : s \notin Links(l) => l \in DropPointerLines(lines, s)
BY LineShape DEF DropPointerLines

\* NothingIsLost: no upsert, forget, archive or rebuild that commits makes a fact
\* unreachable which it read and left in place, whatever it could not evaluate and
\* whatever the user did to the index meanwhile (local_ingress.py).
THEOREM NothingIsLost == LocalSpec => StaysReachable
<1> DEFINE Body ==
        \A c \in Session, s \in Stem :
            /\ CommandEnds(c) /\ Reachable(s)
            /\ NoFact \notin {fact[s], fact'[s], command[c].fact[s]}
            /\ ~OnlyShared(command[c], s)
            => Reachable(s)'
<1>1. ASSUME StoreInv, LocalNext, NEW c \in Session, NEW s \in Stem,
             CommandEnds(c), Reachable(s),
             NoFact \notin {fact[s], fact'[s], command[c].fact[s]},
             ~OnlyShared(command[c], s)
      PROVE  Reachable(s)'
  <2> DEFINE m == command[c]
  <2>0. index \in SUBSET Line /\ DOMAIN fact = Stem
        /\ archive \in [readable : BOOLEAN, placed : SUBSET Stem]
    BY <1>1 DEF StoreInv, StoreShape
  <2>1. CommandShape(m)
    BY <1>1, Endings
  <2>2. ASSUME UpsertCommit(c)
        PROVE  Reachable(s)'
    <3>1. UNCHANGED archive /\ m.op = "upsert"
      BY <2>2 DEF UpsertCommit
    <3>2. CASE Declined(m)
      BY <1>1, <2>2, <3>1, <3>2 DEF UpsertCommit, Reachable, Named
    <3>3. CASE ~Declined(m)
      <4>1. PICK line \in Line :
              /\ line \in index' /\ m.stem \in Links(line)
              /\ \A l \in index : m.stem \notin Links(l) => l \in index'
        BY <1>1, <2>2, <3>3, Upserts
      <4>2. CASE s = m.stem
        BY <4>1, <4>2 DEF Reachable, Named
      <4>3. CASE s # m.stem
        <5> HIDE DEF m
        <5>1. ~OnlyShared(m, s)
          BY <1>1 DEF m
        <5>2. s \in Named(index')
          BY <3>1, <4>1, <4>3, <5>1, KeptLine
        <5> QED
          BY <5>2 DEF Reachable, Named
      <4> QED
        BY <4>2, <4>3
    <3> QED
      BY <3>2, <3>3
  <2>3. ASSUME ForgetCommit(c) \/ (ArchiveCommit(c) /\ s # m.stem)
        PROVE  Reachable(s)'
    <3>1. s # m.stem
      BY <1>1, <2>0, <2>3 DEF ForgetCommit
    <3>2. m.op # "rebuild" /\ index' = DropPointerLines(index, m.stem)
      BY <2>3 DEF ForgetCommit, ArchiveCommit
    <3>3. ~OnlyShared(m, s)
      BY <1>1
    <3> HIDE DEF m
    <3>4. \A l \in index : m.stem \notin Links(l) => l \in index'
      BY <2>0, <3>2, DroppedShape
    <3>5. s \in Named(index')
      BY <3>1, <3>2, <3>3, <3>4, KeptLine
    <3> QED
      BY <3>5 DEF Reachable, Named
  <2>4. ASSUME ArchiveCommit(c), s = m.stem
        PROVE  Reachable(s)'
    <3>1. archive' = [archive EXCEPT !.placed = @ \cup {m.stem}]
      BY <2>4 DEF ArchiveCommit
    <3>2. s \in archive'.placed
      BY <2>0, <2>4, <3>1
    <3> QED
      BY <3>2 DEF Reachable
  <2>5. ASSUME RebuildCommit(c)
        PROVE  Reachable(s)'
    <3>1. UNCHANGED archive /\ index = m.index /\ index' \in Future(m)
      BY <2>5 DEF RebuildCommit
    <3>2. CASE s \in archive.placed
      BY <3>1, <3>2 DEF Reachable
    <3>3. CASE s \in Named(index)
      <4>1. m.fact[s] \in Fact /\ m.fact[s] # NoFact
        BY <1>1, <2>1 DEF CommandShape, StoreShape
      <4> HIDE DEF m
      <4>2. s \notin Archived(m)
        BY <3>1, <3>3 DEF Archived
      <4>3. \/ s \in Included(m) \cup Mirrors(m)
            \/ s \in Unevaluated(m)
        BY <4>1, <4>2 DEF Included, Mirrors, Unevaluated, Unreadable, AbsentFiles, Invalid,
                          Fact, MirrorFact, Broken, Garbled
      <4>4. CASE s \in Included(m) \cup Mirrors(m)
        <5>1. s \in Named(index')
          BY <2>1, <3>1, <4>4, FutureShape
        <5> QED
          BY <5>1 DEF Reachable, Named
      <4>5. CASE s \in Unevaluated(m)
        <5>1. PICK l \in index : s \in Links(l)
          BY <3>3 DEF Named
        <5>2. l \in Carried(m)
          BY <3>1, <4>5, <5>1 DEF Carried
        <5>3. l \in index'
          BY <2>1, <3>1, <5>2, FutureShape
        <5> QED
          BY <5>1, <5>3 DEF Reachable, Named
      <4> QED
        BY <4>3, <4>4, <4>5
    <3> QED
      BY <1>1, <3>2, <3>3 DEF Reachable
  <2>6. ASSUME Refused(c)
        PROVE  Reachable(s)'
    BY <1>1, <2>6 DEF Refused, storevars, Reachable, Named
  <2> QED
    BY <1>1, <2>2, <2>3, <2>4, <2>5, <2>6, Endings
<1>2. StoreInv /\ [LocalNext]_localvars => [Body]_localvars
  BY <1>1
<1> QED
  BY <1>2, StoreInvHolds, PTL DEF LocalSpec, StaysReachable

\* EvictedStaysOut: no command that could read the archive, or was not told to go on
\* without it, brings back to the always-loaded index a fact that had been moved out of it
\* (_placement_decline, the rebuild plan).
THEOREM EvictedStaysOut == LocalSpec => EvictionSticks
<1> DEFINE Body ==
        \A c \in Session, s \in Stem :
            LET m == command[c]
            IN  CommandEnds(c) /\ s \in m.archive.placed \ Named(index) /\ s \in Named(index')
                  => m.op = "rebuild" /\ m.skip /\ ~m.archive.readable
<1>1. ASSUME StoreInv, LocalNext, NEW c \in Session, NEW s \in Stem, CommandEnds(c),
             s \in command[c].archive.placed, s \notin Named(index), s \in Named(index')
      PROVE  command[c].op = "rebuild" /\ command[c].skip /\ ~command[c].archive.readable
  <2> DEFINE m == command[c]
  <2>0. index \in SUBSET Line /\ CommandShape(m)
    BY <1>1, Endings DEF StoreInv, StoreShape
  <2>1. ~(index' \subseteq index)
    BY <1>1 DEF Named
  <2>2. ASSUME UpsertCommit(c)
        PROVE  FALSE
    <3>1. ~Declined(m) /\ index = m.index
      BY <2>1, <2>2 DEF UpsertCommit, Pinned
    <3>2. PICK line \in Line :
              /\ line \in index \/ Links(line) = {m.stem}
              /\ index' \subseteq index \cup {line}
      BY <1>1, <2>2, <3>1, Upserts
    <3>3. s = m.stem
      BY <1>1, <3>2 DEF Named
    <3> QED
      BY <1>1, <3>1, <3>3 DEF Declined
  <2>3. ASSUME ForgetCommit(c) \/ ArchiveCommit(c)
        PROVE  FALSE
    BY <2>1, <2>3 DEF ForgetCommit, ArchiveCommit, DropPointerLines
  <2>4. ASSUME RebuildCommit(c)
        PROVE  m.op = "rebuild" /\ m.skip /\ ~m.archive.readable
    <3>1. index = m.index /\ index' \in Future(m) /\ m.op = "rebuild"
      BY <2>4 DEF RebuildCommit
    <3>2. PICK l \in index' : s \in Links(l)
      BY <1>1 DEF Named
    <3>3. s \in m.archive.placed /\ ~Blocked(m)
      BY <1>1, <2>0, <3>1 DEF CommandShape
    <3> HIDE DEF m
    <3>4. l \notin m.index
      BY <1>1, <3>1, <3>2 DEF Named
    <3>5. \/ \E i \in Included(m) :
                 /\ m.fact[i].desc \in Desc
                 /\ l \in PointerOrStored(m.index, i, m.fact[i].desc, m.fact[i].desc)
          \/ \E i \in Mirrors(m) : l = MirrorLine(i)
      BY <2>0, <3>1, <3>2, <3>4, FutureShape DEF Carried
    <3>6. s \in Included(m) \cup Mirrors(m)
      <4>1. ASSUME NEW i \in Included(m), m.fact[i].desc \in Desc,
                   l \in PointerOrStored(m.index, i, m.fact[i].desc, m.fact[i].desc)
            PROVE  s = i
        <5>1. i \in Stem /\ m.index \in SUBSET Line
          BY <2>0, <3>1 DEF Included
        <5>2. l = PointerLine(i, m.fact[i].desc)
          BY <3>4, <4>1, <5>1, StoredShape
        <5> QED
          BY <3>2, <4>1, <5>1, <5>2, PointerShape
      <4>2. ASSUME NEW i \in Mirrors(m), l = MirrorLine(i)
            PROVE  s = i
        BY <3>2, <4>2, MirrorShape DEF Mirrors
      <4> QED
        BY <3>5, <4>1, <4>2
    <3>7. s \notin Archived(m)
      BY <3>6 DEF Included, Mirrors
    <3>8. ~m.archive.readable
      BY <1>1, <3>1, <3>3, <3>7 DEF Archived
    <3> QED
      BY <3>1, <3>3, <3>8 DEF Blocked
  <2>5. ~Refused(c)
    BY <2>1 DEF Refused, storevars
  <2> QED
    BY <1>1, <2>2, <2>3, <2>4, <2>5, Endings
<1>2. StoreInv /\ [LocalNext]_localvars => [Body]_localvars
  BY <1>1
<1> QED
  BY <1>2, StoreInvHolds, PTL DEF LocalSpec, EvictionSticks

\* CuesAreCurrent: a cue tightened by hand never survives the description it was tightened
\* from: neither a rebuild nor an upsert leaves a line that shows another one
\* (_pointer_or_stored, _cue_is_current).
THEOREM CuesAreCurrent == LocalSpec => CuesFresh
<1> DEFINE Body ==
        \A c \in Session :
            LET m == command[c]
            IN  /\ RebuildCommit(c) =>
                     \A l \in index' \ Carried(m) : l.links[1] \in Included(m)
                         => ShowsDesc(l, m.fact[l.links[1]].desc)
                /\ UpsertCommit(c) /\ ~Declined(m) =>
                     \E l \in index' : l.links[1] = m.stem /\ ShowsDesc(l, m.desc)
<1>1. ASSUME StoreInv, NEW c \in Session, RebuildCommit(c),
             NEW l \in index' \ Carried(command[c]), l.links[1] \in Included(command[c])
      PROVE  ShowsDesc(l, command[c].fact[l.links[1]].desc)
  <2> DEFINE m == command[c]
  <2>1. CommandShape(m) /\ index' \in Future(m)
    BY <1>1 DEF StoreInv, RebuildCommit, NoCommand
  <2>2. l \in index' \ Carried(m) /\ l.links[1] \in Included(m)
    BY <1>1
  <2> HIDE DEF m
  <2>3. m.index \in SUBSET Line
    BY <2>1 DEF CommandShape, StoreShape
  <2>4. \/ \E i \in Included(m) :
               /\ m.fact[i].desc \in Desc
               /\ l \in PointerOrStored(m.index, i, m.fact[i].desc, m.fact[i].desc)
        \/ \E i \in Mirrors(m) : l = MirrorLine(i)
    BY <2>1, <2>2, FutureShape
  <2>5. ASSUME NEW i \in Included(m), m.fact[i].desc \in Desc,
               l \in PointerOrStored(m.index, i, m.fact[i].desc, m.fact[i].desc)
        PROVE  ShowsDesc(l, m.fact[l.links[1]].desc)
    <3>1. i \in Stem
      BY DEF Included
    <3> QED
      BY <2>3, <2>5, <3>1, StoredShape
  <2>6. ASSUME NEW i \in Mirrors(m), l = MirrorLine(i)
        PROVE  FALSE
    <3>1. i = l.links[1]
      BY <2>6, MirrorShape DEF Mirrors
    <3> QED
      BY <2>2, <3>1 DEF Mirrors, Included
  <2> QED
    BY <2>4, <2>5, <2>6 DEF m
<1>2. ASSUME StoreInv, NEW c \in Session, UpsertCommit(c), ~Declined(command[c])
      PROVE  \E l \in index' : l.links[1] = command[c].stem /\ ShowsDesc(l, command[c].desc)
  BY <1>2, Upserts
<1>3. StoreInv => Body
  BY <1>1, <1>2
<1>4. StoreInv /\ [LocalNext]_localvars => [Body]_localvars
  BY <1>3
<1> QED
  BY <1>4, StoreInvHolds, PTL DEF LocalSpec, CuesFresh

(* The types of a store.                                                   *)

\* The files, as a function, and the count of what was done to them.
FilesTyped == fact \in [Stem -> Fact] /\ localOps \in 0..MaxLocal

LEMMA InitLocalTypes == LocalInit => FilesTyped
<1> SUFFICES ASSUME LocalInit PROVE FilesTyped
  OBVIOUS
<1>1. PICK kept \in {{}, Stem}, d \in Desc :
         fact = [s \in Stem |-> IF s \in kept THEN OwnFact("valid", d) ELSE NoFact]
  BY DEF LocalInit
<1>2. OwnFact("valid", d) \in Fact /\ NoFact \in Fact
  BY DEF OwnFact, Fact
<1>3. QED
  BY <1>1, <1>2, LocalAssumption DEF LocalInit, FilesTyped

LEMMA StepLocalTypes == StoreInv /\ FilesTyped /\ [LocalNext]_localvars => FilesTyped'
<1> SUFFICES ASSUME StoreInv, FilesTyped, [LocalNext]_localvars PROVE FilesTyped'
  OBVIOUS
<1>0. fact \in [Stem -> Fact] /\ localOps \in Nat /\ localOps <= MaxLocal /\ MaxLocal \in Nat
  BY LocalAssumption DEF FilesTyped
<1>1. ASSUME NEW c \in Session, NEW m, LocalBegin(c, m) PROVE FilesTyped'
  BY <1>0, <1>1 DEF LocalBegin, storevars, FilesTyped
<1>2. ASSUME NEW c \in Session, UpsertCommit(c) PROVE FilesTyped'
  <2>1. command[c].op = "upsert" /\ command[c] # NoCommand
    BY <1>2 DEF UpsertCommit, NoCommand
  <2>2. command[c].desc \in Desc
    BY <2>1 DEF StoreInv, CommandShape
  <2>3. OwnFact("valid", command[c].desc) \in Fact
    BY <2>2 DEF OwnFact, Fact
  <2>4. QED
    BY <1>0, <1>2, <2>3 DEF UpsertCommit, LocalEnd, FilesTyped
<1>3. ASSUME NEW c \in Session,
             ForgetCommit(c) \/ ArchiveCommit(c) \/ RebuildCommit(c) \/ Refused(c)
      PROVE  FilesTyped'
  <2>1. NoFact \in Fact
    BY DEF Fact
  <2>2. QED
    BY <1>0, <1>3, <2>1 DEF ForgetCommit, ArchiveCommit, RebuildCommit, Refused, LocalEnd, storevars, FilesTyped
<1>4. CASE UserEdit
  BY <1>0, <1>4 DEF UserEdit, EditFact, EditLine, ArchiveUnreadable, LocalEdit, FilesTyped
<1>5. CASE UNCHANGED localvars
  BY <1>5 DEF localvars, FilesTyped
<1>6. QED
  BY <1>1, <1>2, <1>3, <1>4, <1>5 DEF LocalNext, Command, UpsertBegin, ForgetBegin, ArchiveBegin, RebuildBegin

(* The files, the lines, the archive and the commands of a native store are of their     *)
(* types, whatever edits come in between a command's reads and its transact              *)
(* (local_ingress.py).                                                                   *)
THEOREM LocalTyped == LocalSpec => []LocalTypeOK
<1>1. StoreInv /\ FilesTyped => LocalTypeOK
  BY DEF StoreInv, StoreShape, CommandShape, NoCommand, FilesTyped, LocalTypeOK
<1>2. QED
  BY <1>1, StoreInvHolds, InitLocalTypes, StepLocalTypes, PTL DEF LocalSpec

-----------------------------------------------------------------------------
(* The operational log (OpsLog).                                           *)

Moved == {"slot", "pid"}
Relocation == [pc : {"append", "unlink", "read"}, place : Moved]

\* What a compaction, wherever it is killed, leaves readable.
LogInv ==
    /\ log \in [LogPlace -> Seq(Nat)]
    /\ rows \in Nat
    /\ DOMAIN writer = Writer
    /\ \A w \in Writer :
          writer[w] # Resting =>
             /\ writer[w].pc = "write"
             /\ writer[w].row \in 1..rows /\ writer[w].place \in Moved
    /\ \/ compactor = Resting
       \/ compactor \in Relocation
       \/ compactor.pc = "replace" /\ compactor.place \in Moved /\ compactor.kept \in Seq(Nat)
    /\ compactor.pc = "unlink" => ToSet(log["native"]) \subseteq ToSet(log[compactor.place])
    /\ compactor.pc = "replace" =>
          ToSet(log[compactor.place]) \subseteq ToSet(compactor.kept) \cup compactor.past \cup raced
    /\ RowsStay

\* A list of rows in front of another one.
LEMMA ConcatToSet ==
    ASSUME NEW X, NEW s \in Seq(X), NEW u \in Seq(X)
    PROVE  s \o u \in Seq(X) /\ ToSet(s \o u) = ToSet(s) \cup ToSet(u)
<1> DEFINE v == s \o u
           m == Len(s)
           n == Len(u)
<1>1. m \in Nat /\ n \in Nat /\ v \in Seq(X)
      /\ DOMAIN s = 1..m /\ DOMAIN u = 1..n /\ DOMAIN v = 1..(m + n)
  OBVIOUS
<1>2. /\ \A i \in 1..m : v[i] = s[i]
      /\ \A i \in 1..n : v[m + i] = u[i]
  OBVIOUS
<1>3. \A i \in 1..(m + n) : i \in 1..m \/ \E j \in 1..n : i = m + j
  <2> SUFFICES ASSUME NEW i \in 1..(m + n), i \notin 1..m
               PROVE  \E j \in 1..n : i = m + j
    OBVIOUS
  <2>1. i - m \in 1..n /\ i = m + (i - m)
    BY <1>1
  <2> QED
    BY <2>1
<1>4. (\A i \in 1..m : i \in 1..(m + n)) /\ (\A i \in 1..n : m + i \in 1..(m + n))
  BY <1>1
<1> HIDE DEF v, m, n
<1>5. ToSet(v) \subseteq ToSet(s) \cup ToSet(u)
  <2> SUFFICES ASSUME NEW i \in 1..(m + n)
               PROVE  v[i] \in ToSet(s) \cup ToSet(u)
    BY <1>1 DEF ToSet
  <2>1. CASE i \in 1..m
    BY <1>1, <1>2, <2>1 DEF ToSet
  <2>2. ASSUME NEW k \in 1..n, i = m + k
        PROVE  v[i] \in ToSet(u)
    BY <1>1, <1>2, <2>2 DEF ToSet
  <2> QED
    BY <1>3, <2>1, <2>2
<1>6. ToSet(s) \subseteq ToSet(v) /\ ToSet(u) \subseteq ToSet(v)
  BY <1>1, <1>2, <1>4 DEF ToSet
<1> QED
  BY <1>1, <1>5, <1>6 DEF v

\* The tail that is kept, and what is before it, are the log.
LEMMA TailKept ==
    ASSUME NEW s \in Seq(Nat)
    PROVE  /\ LastRows(s) \in Seq(Nat)
           /\ ToSet(s) \subseteq ToSet(LastRows(s)) \cup {s[i] : i \in 1..(Len(s) - Keep)}
<1> DEFINE n == Len(s)
           m == IF n > Keep THEN n - Keep + 1 ELSE 1
           u == SubSeq(s, m, n)
<1>1. n \in Nat /\ Keep \in Nat /\ DOMAIN s = 1..n /\ m \in 1..(n + 1)
  BY CapAssumption
<1>2. u \in Seq(Nat) /\ DOMAIN u = 1..(n - m + 1) /\ \A i \in 1..(n - m + 1) : u[i] = s[m + i - 1]
  <2> HIDE DEF m, n
  <2>1. m \in Int /\ n \in Int /\ \A i \in m..n : s[i] \in Nat
    BY <1>1
  <2>2. /\ u \in Seq(Nat) /\ Len(u) = IF m <= n THEN n - m + 1 ELSE 0
        /\ \A i \in 1..(n - m + 1) : u[i] = s[m + i - 1]
    BY <2>1, SubSeqProperties
  <2> HIDE DEF u
  <2>3. DOMAIN u = 1..(n - m + 1)
    BY <1>1, <2>2
  <2> QED
    BY <2>2, <2>3
<1>3. ASSUME NEW i \in 1..n
      PROVE  i \in 1..(n - Keep) \/ \E j \in 1..(n - m + 1) : i = m + j - 1
  <2>1. CASE i < m
    BY <1>1, <2>1
  <2>2. CASE i >= m
    <3>1. i - m + 1 \in 1..(n - m + 1) /\ i = m + (i - m + 1) - 1
      BY <1>1, <2>2
    <3> HIDE DEF m
    <3> QED
      BY <3>1
  <2> QED
    BY <1>1, <2>1, <2>2
<1>4. u = LastRows(s)
  BY DEF LastRows
<1> HIDE DEF m, u
<1>5. ASSUME NEW i \in 1..n
      PROVE  s[i] \in ToSet(u) \cup {s[k] : k \in 1..(n - Keep)}
  <2>1. CASE i \in 1..(n - Keep)
    BY <2>1
  <2>2. ASSUME NEW h \in 1..(n - m + 1), i = m + h - 1
        PROVE  s[i] \in ToSet(u)
    BY <1>2, <2>2 DEF ToSet
  <2> QED
    BY <1>3, <2>1, <2>2
<1>6. ToSet(s) \subseteq ToSet(u) \cup {s[k] : k \in 1..(n - Keep)}
  BY <1>1, <1>5 DEF ToSet
<1> QED
  BY <1>2, <1>4, <1>6

\* What the compaction read is kept, or past.
LEMMA RewriteKeeps ==
    ASSUME NEW s \in Seq(Nat), NEW oldest \in Nat
    PROVE  LET kept == Sifted(LastRows(s), {r \in ToSet(s) : r >= oldest})
           IN  /\ kept \in Seq(Nat)
               /\ ToSet(s) \subseteq ToSet(kept) \cup {s[i] : i \in 1..(Len(s) - Keep)}
                                                 \cup {r \in ToSet(s) : r < oldest}
<1> DEFINE young == {r \in ToSet(s) : r >= oldest}
           kept == Sifted(LastRows(s), young)
<1>1. LastRows(s) \in Seq(Nat)
      /\ ToSet(s) \subseteq ToSet(LastRows(s)) \cup {s[i] : i \in 1..(Len(s) - Keep)}
  BY TailKept
<1>2. kept \in Seq(Nat) /\ ToSet(kept) = ToSet(LastRows(s)) \cap young
  <2> HIDE DEF young
  <2> QED
    BY <1>1, SiftedRange
<1>3. \A r \in ToSet(s) : r \in young \/ r < oldest
  BY DEF ToSet
<1> HIDE DEF kept
<1>4. ToSet(s) \subseteq ToSet(kept) \cup {s[i] : i \in 1..(Len(s) - Keep)}
                                    \cup {r \in ToSet(s) : r < oldest}
  BY <1>1, <1>2, <1>3
<1> QED
  BY <1>2, <1>4 DEF kept

LEMMA LogStarts == OpsInit => LogInv
<1> SUFFICES ASSUME OpsInit
             PROVE  LogInv
  OBVIOUS
<1>1. log["native"] = <<1, 2>> /\ log["slot"] = << >> /\ log["pid"] = << >>
      /\ log \in [LogPlace -> Seq(Nat)]
  BY DEF OpsInit, LogPlace
<1>2. ToSet(log["native"]) = {1, 2}
  <2>1. ToSet(<<1, 2>>) = {1, 2}
    BY DEF ToSet
  <2> QED
    BY <1>1, <2>1
<1>3. \A r \in 1..rows : r \in Readable
  BY <1>2 DEF OpsInit, Readable, LogPlace
<1> QED
  BY <1>1, <1>3 DEF OpsInit, LogInv, Resting, RowsStay

\* A step that takes no row from the log.
LEMMA NothingTaken ==
    ASSUME RowsStay,
           rows' = rows, raced \subseteq raced', beyond \subseteq beyond',
           \A p \in LogPlace : \A r \in ToSet(log[p]) :
              r \in Readable' \cup raced' \cup beyond',
           \A w \in Writer : writer[w] # Resting =>
              \/ writer'[w] = writer[w]
              \/ writer[w].row \in Readable' \cup raced'
    PROVE  RowsStay'
<1> SUFFICES ASSUME NEW r \in 1..rows
             PROVE  r \in Readable' \cup raced' \cup beyond'
                    \/ \E w \in Writer : writer'[w] # Resting /\ writer'[w].row = r
  BY DEF RowsStay
<1>1. CASE r \in Readable
  BY <1>1 DEF Readable
<1>2. CASE r \in raced \cup beyond
  BY <1>2
<1>3. ASSUME NEW w \in Writer, writer[w] # Resting, writer[w].row = r
      PROVE  r \in Readable' \cup raced' \cup beyond'
                    \/ \E v \in Writer : writer'[v] # Resting /\ writer'[v].row = r
  BY <1>3
<1> QED
  BY <1>1, <1>2, <1>3 DEF RowsStay

LEMMA ReadableIn ==
    ASSUME NEW p \in LogPlace, NEW r \in ToSet(log[p])
    PROVE  r \in Readable
BY DEF Readable

LEMMA LogWriter ==
    ASSUME LogInv, NEW w \in Writer, Open(w) \/ WriteRow(w) \/ GiveUp(w)
    PROVE  LogInv'
<1>1. ASSUME Open(w)
      PROVE  LogInv'
  <2> DEFINE state == [pc |-> "write", row |-> rows', place |-> WritePlace,
                       inode |-> inode[WritePlace]]
  <2>1. writer' = [writer EXCEPT ![w] = state] /\ writer[w] = Resting /\ rows' = rows + 1
        /\ UNCHANGED <<log, compactor, raced, beyond>>
    BY <1>1 DEF Open
  <2>2. state.pc = "write" /\ state.row = rows' /\ state.place \in Moved /\ state # Resting
    <3>1. state.pc # Resting.pc
      BY DEF Resting
    <3> QED
      BY <3>1 DEF WritePlace, Moved
  <2> HIDE DEF state
  <2>3. rows' \in Nat /\ rows' \in 1..rows' /\ 1..rows' = 1..rows \cup {rows'}
    BY <2>1 DEF LogInv
  <2>4. DOMAIN writer' = Writer /\ writer'[w] = state /\ \A v \in Writer \ {w} : writer'[v] = writer[v]
    BY <2>1 DEF LogInv
  <2>5. Readable' = Readable
    BY <2>1 DEF Readable
  <2>6. RowsStay'
    <3> SUFFICES ASSUME NEW r \in 1..rows'
                 PROVE  r \in Readable' \cup raced' \cup beyond'
                        \/ \E v \in Writer : writer'[v] # Resting /\ writer'[v].row = r
      BY DEF RowsStay
    <3>1. CASE r = rows'
      BY <2>2, <2>4, <3>1
    <3>2. CASE r \in 1..rows
      <4>1. \/ r \in Readable \cup raced \cup beyond
            \/ \E v \in Writer : writer[v] # Resting /\ writer[v].row = r
        BY <3>2 DEF LogInv, RowsStay
      <4> QED
        BY <2>1, <2>4, <2>5, <4>1
    <3> QED
      BY <2>3, <3>1, <3>2
  <2>7. \A v \in Writer : writer'[v] # Resting =>
             /\ writer'[v].pc = "write"
             /\ writer'[v].row \in 1..rows' /\ writer'[v].place \in Moved
    BY <2>2, <2>3, <2>4 DEF LogInv
  <2> QED
    BY <2>1, <2>3, <2>4, <2>6, <2>7 DEF LogInv
<1>2. ASSUME NEW row \in Nat, NEW place \in Moved,
             writer[w] # Resting, writer[w].row = row, writer[w].place = place,
             writer' = [writer EXCEPT ![w] = Resting],
             UNCHANGED <<compactor, rows, beyond>>,
             raced \subseteq raced',
             \/ log' = log /\ row \in raced'
             \/ log' = [log EXCEPT ![place] = Append(log[place], row)],
             log' = log \/ (compactor.pc = "replace" /\ place = compactor.place => row \in raced')
      PROVE  LogInv'
  <2>1. DOMAIN writer' = Writer /\ writer'[w] = Resting
        /\ \A v \in Writer \ {w} : writer'[v] = writer[v]
    BY <1>2 DEF LogInv
  <2>2. place \in LogPlace /\ place # "native"
    BY DEF Moved, LogPlace
  <2>3. log[place] \in Seq(Nat)
    BY <2>2 DEF LogInv
  <2>4. Append(log[place], row) \in Seq(Nat)
        /\ ToSet(Append(log[place], row)) = ToSet(log[place]) \cup {row}
    BY <2>3, AppendToSet
  <2>5. /\ log' \in [LogPlace -> Seq(Nat)]
        /\ \A p \in LogPlace \ {place} : log'[p] = log[p]
        /\ ToSet(log[place]) \subseteq ToSet(log'[place])
        /\ ToSet(log'[place]) \subseteq ToSet(log[place]) \cup {row}
        /\ row \in ToSet(log'[place]) \/ row \in raced'
    <3>1. log \in [LogPlace -> Seq(Nat)]
      BY DEF LogInv
    <3>2. CASE log' = [log EXCEPT ![place] = Append(log[place], row)]
      <4>1. log' \in [LogPlace -> Seq(Nat)] /\ log'[place] = Append(log[place], row)
            /\ \A p \in LogPlace \ {place} : log'[p] = log[p]
        BY <2>2, <2>4, <3>1, <3>2
      <4> QED
        BY <2>4, <4>1
    <3> QED
      BY <1>2, <3>1, <3>2
  <2>6. \A p \in LogPlace : ToSet(log[p]) \subseteq Readable'
    BY <2>2, <2>5 DEF Readable
  <2>7. row \in Readable' \cup raced'
    BY <1>2, <2>2, <2>5 DEF Readable
  <2>8. RowsStay'
    <3>1. \A v \in Writer : writer[v] # Resting =>
              \/ writer'[v] = writer[v] \/ writer[v].row \in Readable' \cup raced'
      BY <1>2, <2>1, <2>7
    <3>2. RowsStay
      BY DEF LogInv
    <3> QED
      BY <1>2, <2>6, <3>1, <3>2, NothingTaken
  <2>9. compactor.pc = "unlink" => ToSet(log'["native"]) \subseteq ToSet(log'[compactor.place])
    <3> SUFFICES ASSUME compactor.pc = "unlink"
                 PROVE  ToSet(log'["native"]) \subseteq ToSet(log'[compactor.place])
      OBVIOUS
    <3>1. compactor.place \in LogPlace /\ "native" \in LogPlace
      BY DEF LogInv, Resting, Relocation, Moved, LogPlace
    <3>2. ToSet(log["native"]) \subseteq ToSet(log[compactor.place])
      BY DEF LogInv
    <3> QED
      BY <2>2, <2>5, <3>1, <3>2
  <2>10. compactor.pc = "replace" =>
          ToSet(log'[compactor.place]) \subseteq ToSet(compactor.kept) \cup compactor.past \cup raced'
    <3> SUFFICES ASSUME compactor.pc = "replace"
                 PROVE  ToSet(log'[compactor.place]) \subseteq
                           ToSet(compactor.kept) \cup compactor.past \cup raced'
      OBVIOUS
    <3>1. compactor.place \in LogPlace
      BY DEF LogInv, Resting, Relocation, Moved, LogPlace
    <3>2. ToSet(log[compactor.place]) \subseteq ToSet(compactor.kept) \cup compactor.past \cup raced
      BY DEF LogInv
    <3>3. CASE compactor.place = place
      <4>1. row \in raced' \/ log' = log
        BY <1>2, <3>3
      <4> QED
        BY <1>2, <2>5, <3>2, <3>3, <4>1
    <3>4. CASE compactor.place # place
      BY <1>2, <2>5, <3>1, <3>2, <3>4
    <3> QED
      BY <3>3, <3>4
  <2>11. \A v \in Writer : writer'[v] # Resting =>
             /\ writer'[v].pc = "write"
             /\ writer'[v].row \in 1..rows /\ writer'[v].place \in Moved
    BY <2>1 DEF LogInv
  <2> QED
    BY <1>2, <2>1, <2>5, <2>8, <2>9, <2>10, <2>11 DEF LogInv
<1>3. ASSUME writer[w].pc = "write"
      PROVE  writer[w] # Resting /\ writer[w].row \in Nat /\ writer[w].place \in Moved
  <2>1. writer[w] # Resting
    BY <1>3 DEF Resting
  <2> QED
    BY <2>1 DEF LogInv
<1>4. ASSUME WriteRow(w)
      PROVE  LogInv'
  <2> DEFINE row == writer[w].row
             place == writer[w].place
  <2>1. writer[w] # Resting /\ row \in Nat /\ place \in Moved
    BY <1>3, <1>4 DEF WriteRow
  <2>2. /\ log' = IF inode[place] = writer[w].inode
                  THEN [log EXCEPT ![place] = Append(log[place], row)] ELSE log
        /\ raced' = IF \/ inode[place] # writer[w].inode
                       \/ compactor.pc = "replace" /\ place = compactor.place
                    THEN raced \cup {row} ELSE raced
    BY <1>4 DEF WriteRow
  <2>3. writer' = [writer EXCEPT ![w] = Resting] /\ UNCHANGED <<compactor, rows, beyond>>
    BY <1>4 DEF WriteRow
  <2> HIDE DEF row, place
  <2>4. /\ raced \subseteq raced'
        /\ \/ log' = log /\ row \in raced'
           \/ log' = [log EXCEPT ![place] = Append(log[place], row)]
        /\ log' = log \/ (compactor.pc = "replace" /\ place = compactor.place => row \in raced')
    BY <2>2
  <2> QED
    BY <1>2, <2>1, <2>3, <2>4 DEF row, place
<1>5. ASSUME GiveUp(w)
      PROVE  LogInv'
  <2>1. writer[w] # Resting /\ writer[w].row \in Nat /\ writer[w].place \in Moved
    BY <1>3, <1>5 DEF GiveUp
  <2>2. writer' = [writer EXCEPT ![w] = Resting] /\ UNCHANGED <<log, compactor, rows, beyond>>
        /\ raced' = raced \cup {writer[w].row}
    BY <1>5 DEF GiveUp
  <2> QED
    BY <1>2, <2>1, <2>2
<1> QED
  BY <1>1, <1>4, <1>5

LEMMA LogCompactor ==
    ASSUME LogInv, Enroll \/ Compact \/ Relocate \/ Unlink \/ ReadTail \/ Replace \/ Kill
    PROVE  LogInv'
<1>0. RowsStay /\ log \in [LogPlace -> Seq(Nat)] /\ {"native", "slot", "pid"} = LogPlace
  BY DEF LogInv, LogPlace
<1>1. CASE Enroll
  BY <1>1 DEF Enroll, LogInv, RowsStay, Readable
<1>2. ASSUME NEW state \in {Resting} \cup Relocation, state.pc # "unlink",
             compactor' = state, UNCHANGED <<log, writer, rows, raced, beyond>>
      PROVE  LogInv'
  <2>1. compactor'.pc \notin {"unlink", "replace"}
    BY <1>2 DEF Resting, Relocation
  <2> QED
    BY <1>2, <2>1 DEF LogInv, RowsStay, Readable
<1>3. CASE Compact
  <2> DEFINE state == [pc |-> IF log["native"] = << >> THEN "read" ELSE "append",
                       place |-> WritePlace]
  <2>1. compactor' = state /\ UNCHANGED <<log, writer, rows, raced, beyond>>
    BY <1>3 DEF Compact
  <2>2. state \in Relocation /\ state.pc # "unlink"
    BY DEF Relocation, WritePlace, Moved
  <2> HIDE DEF state
  <2> QED
    BY <1>2, <2>1, <2>2
<1>4. CASE Relocate
  <2>1. compactor \in Relocation /\ compactor.place \in Moved
    BY <1>4 DEF Relocate, LogInv, Resting, Relocation
  <2>2. compactor' = [compactor EXCEPT !.pc = "unlink"] /\ UNCHANGED <<writer, rows, raced, beyond>>
    BY <1>4 DEF Relocate
  <2>3. compactor' \in Relocation /\ compactor'.pc = "unlink" /\ compactor'.place = compactor.place
    BY <2>1, <2>2 DEF Relocation
  <2> DEFINE place == compactor.place
  <2>4. place \in LogPlace /\ place # "native" /\ "native" \in LogPlace
    BY <2>1 DEF Moved, LogPlace
  <2>5. log' = [log EXCEPT ![place] = log[place] \o log["native"]]
    BY <1>4 DEF Relocate
  <2>6. log[place] \in Seq(Nat) /\ log["native"] \in Seq(Nat)
    BY <1>0, <2>4
  <2>7. log[place] \o log["native"] \in Seq(Nat)
        /\ ToSet(log[place] \o log["native"]) = ToSet(log[place]) \cup ToSet(log["native"])
    BY <2>6, ConcatToSet
  <2> HIDE DEF place
  <2>8. /\ log' \in [LogPlace -> Seq(Nat)] /\ log'["native"] = log["native"]
        /\ ToSet(log'[place]) = ToSet(log[place]) \cup ToSet(log["native"])
        /\ \A p \in LogPlace \ {place} : log'[p] = log[p]
    BY <1>0, <2>4, <2>5, <2>7
  <2>9. \A p \in LogPlace : ToSet(log[p]) \subseteq Readable'
    BY <2>8 DEF Readable
  <2>10. RowsStay'
    BY <1>0, <2>2, <2>9, NothingTaken
  <2>11. ToSet(log'["native"]) \subseteq ToSet(log'[compactor'.place])
    BY <2>3, <2>8 DEF place
  <2> QED
    BY <2>2, <2>3, <2>8, <2>10, <2>11 DEF LogInv
<1>5. CASE Unlink
  <2>1. compactor \in Relocation /\ compactor.place \in Moved
        /\ ToSet(log["native"]) \subseteq ToSet(log[compactor.place])
    BY <1>5 DEF Unlink, LogInv, Resting, Relocation
  <2>2. compactor' = [compactor EXCEPT !.pc = "read"] /\ UNCHANGED <<writer, rows, raced, beyond>>
        /\ log' = [log EXCEPT !["native"] = << >>]
    BY <1>5 DEF Unlink
  <2>3. compactor' \in Relocation /\ compactor'.pc = "read"
    BY <2>1, <2>2 DEF Relocation
  <2>4. compactor.place \in LogPlace \ {"native"}
    BY <2>1 DEF Moved, LogPlace
  <2>5. log' \in [LogPlace -> Seq(Nat)] /\ \A p \in LogPlace \ {"native"} : log'[p] = log[p]
    BY <1>0, <2>2
  <2>6. \A p \in LogPlace : ToSet(log[p]) \subseteq Readable'
    BY <2>1, <2>4, <2>5 DEF Readable
  <2>7. RowsStay'
    BY <1>0, <2>2, <2>6, NothingTaken
  <2> QED
    BY <2>2, <2>3, <2>5, <2>7 DEF LogInv
<1>6. CASE ReadTail
  <2>1. PICK oldest \in {1, 3} : Rewrite(oldest)
    BY <1>6 DEF ReadTail
  <2>2. UNCHANGED <<log, writer, rows, raced, beyond>>
    BY <1>6 DEF ReadTail
  <2>3. compactor.place \in Moved /\ compactor.place \in LogPlace
    BY <1>6 DEF ReadTail, LogInv, Resting, Relocation, Moved, LogPlace
  <2> DEFINE s == log[compactor.place]
             kept == Sifted(LastRows(s), {r \in ToSet(s) : r >= oldest})
             past == {s[i] : i \in 1..(Len(s) - Keep)} \cup {r \in ToSet(s) : r < oldest}
  <2>4. s \in Seq(Nat) /\ oldest \in Nat
    BY <1>0, <2>3
  <2>5. kept \in Seq(Nat) /\ ToSet(s) \subseteq ToSet(kept) \cup past
    <3> HIDE DEF s
    <3> QED
      BY <2>4, RewriteKeeps
  <2>6. compactor' = [pc |-> "replace", place |-> compactor.place, kept |-> kept, past |-> past]
    BY <2>1 DEF Rewrite
  <2> HIDE DEF kept, past
  <2>7. compactor'.pc = "replace" /\ compactor'.place = compactor.place
        /\ compactor'.kept = kept /\ compactor'.past = past
    BY <2>6
  <2> QED
    BY <2>2, <2>3, <2>5, <2>7 DEF LogInv, RowsStay, Readable
<1>7. CASE Replace
  <2> DEFINE place == compactor.place
             kept == compactor.kept
  <2>1. compactor.pc = "replace" /\ place \in Moved /\ kept \in Seq(Nat)
        /\ ToSet(log[place]) \subseteq ToSet(kept) \cup compactor.past \cup raced
    BY <1>7 DEF Replace, LogInv, Resting, Relocation
  <2>2. log' = [log EXCEPT ![place] = kept] /\ beyond' = beyond \cup compactor.past
        /\ compactor' = Resting /\ UNCHANGED <<writer, rows, raced>>
    BY <1>7 DEF Replace
  <2>3. place \in LogPlace
    BY <2>1 DEF Moved, LogPlace
  <2> HIDE DEF place, kept
  <2>4. log' \in [LogPlace -> Seq(Nat)] /\ log'[place] = kept
        /\ \A p \in LogPlace \ {place} : log'[p] = log[p]
    BY <1>0, <2>1, <2>2, <2>3
  <2>5. \A p \in LogPlace : \A r \in ToSet(log[p]) : r \in Readable' \cup raced' \cup beyond'
    BY <2>1, <2>2, <2>3, <2>4 DEF Readable
  <2>6. RowsStay'
    BY <1>0, <2>2, <2>5, NothingTaken
  <2>7. compactor'.pc = "resting"
    BY <2>2 DEF Resting
  <2> QED
    BY <2>2, <2>4, <2>6, <2>7 DEF LogInv
<1>8. CASE Kill
  <2>1. Resting.pc # "unlink"
    BY DEF Resting
  <2> QED
    BY <1>2, <1>8, <2>1 DEF Kill
<1> QED
  BY <1>1, <1>3, <1>4, <1>5, <1>6, <1>7, <1>8

LEMMA LogInvStep == LogInv /\ [OpsNext]_opsvars => LogInv'
<1> SUFFICES ASSUME LogInv, [OpsNext]_opsvars
             PROVE  LogInv'
  OBVIOUS
<1>1. CASE UNCHANGED opsvars
  BY <1>1 DEF LogInv, RowsStay, Readable, opsvars
<1> QED
  BY <1>1, LogWriter, LogCompactor DEF OpsNext

\* KeepsItsRows: wherever compactions are killed, however often they are repeated and
\* wherever the log of a project moves, a row that was written is read again, unless it
\* was dropped as the code says or written while its file was replaced (retention.py).
THEOREM KeepsItsRows == OpsSpec => []RowsStay
<1>1. LogInv => RowsStay
  BY DEF LogInv
<1> QED
  BY <1>1, LogStarts, LogInvStep, PTL DEF OpsSpec

(* The types of a log.                                                     *)

\* The rows of a file are rows that were written.
RowsOf(n) == \A p \in LogPlace : ToSet(log[p]) \subseteq 1..n

LogRanges ==
    /\ rows \in 0..MaxRows /\ compactions \in 0..MaxCompactions
    /\ RowsOf(rows)
    /\ inode \in [LogPlace -> 0..MaxCompactions]
    /\ raced \subseteq 1..rows /\ beyond \subseteq 1..rows
    /\ compactor.pc = "replace" =>
          ToSet(compactor.kept) \subseteq 1..rows /\ compactor.past \subseteq 1..rows

LEMMA InitLogRanges == OpsInit => LogRanges
<1> SUFFICES ASSUME OpsInit PROVE LogRanges
  OBVIOUS
<1>1. log["native"] = <<1, 2>> /\ log["slot"] = << >> /\ log["pid"] = << >> /\ rows = 2
  BY DEF OpsInit, LogPlace
<1>2. ToSet(<<1, 2>>) = {1, 2} /\ ToSet(<< >>) = {}
  BY DEF ToSet
<1>3. RowsOf(rows)
  BY <1>1, <1>2 DEF RowsOf, LogPlace
<1>4. QED
  BY <1>1, <1>3, LogAssumption DEF OpsInit, LogRanges, Resting

\* What a compaction keeps, and what it leaves, was in the file.
LEMMA RewriteTakes ==
    ASSUME NEW s \in Seq(Nat), NEW oldest \in Nat,
           NEW kept, kept = Sifted(LastRows(s), {r \in ToSet(s) : r >= oldest})
    PROVE  ToSet(kept) \subseteq ToSet(s)
<1> DEFINE young == {r \in ToSet(s) : r >= oldest}
<1>1. LastRows(s) \in Seq(Nat)
  BY TailKept
<1>2. ToSet(kept) = ToSet(LastRows(s)) \cap young
  <2> HIDE DEF young
  <2>1. kept = Sifted(LastRows(s), young)
    BY DEF young
  <2> QED
    BY <1>1, <2>1, SiftedRange
<1>3. young \subseteq ToSet(s)
  OBVIOUS
<1> QED
  BY <1>2, <1>3

LEMMA RewriteLeaves ==
    ASSUME NEW s \in Seq(Nat), NEW oldest \in Nat
    PROVE  {s[i] : i \in 1..(Len(s) - Keep)} \cup {r \in ToSet(s) : r < oldest} \subseteq ToSet(s)
<1>1. DOMAIN s = 1..Len(s) /\ Len(s) \in Nat /\ Keep \in Nat
  BY CapAssumption
<1>2. \A i \in 1..(Len(s) - Keep) : s[i] \in ToSet(s)
  BY <1>1 DEF ToSet
<1> QED
  BY <1>2

LEMMA StepLogRanges == LogInv /\ LogRanges /\ [OpsNext]_opsvars => LogRanges'
<1> SUFFICES ASSUME LogInv, LogRanges, [OpsNext]_opsvars PROVE LogRanges'
  OBVIOUS
<1>0. /\ rows \in Nat /\ compactions \in Nat /\ MaxRows \in Nat /\ MaxCompactions \in Nat
      /\ log \in [LogPlace -> Seq(Nat)] /\ DOMAIN writer = Writer
  BY LogAssumption DEF LogInv, LogRanges
<1>1. ASSUME NEW w \in Writer, writer[w].pc = "write"
      PROVE  writer[w].row \in 1..rows /\ writer[w].row \in Nat /\ writer[w].place \in LogPlace
  <2>1. writer[w] # Resting
    BY <1>1 DEF Resting
  <2>2. QED
    BY <2>1 DEF LogInv, Moved, LogPlace
<1>2. ASSUME NEW w \in Writer, Open(w) PROVE LogRanges'
  <2>1. rows' = rows + 1 /\ rows < MaxRows
        /\ UNCHANGED <<log, inode, compactor, compactions, raced, beyond>>
    BY <1>2 DEF Open
  <2>2. 1..rows \subseteq 1..rows' /\ rows' \in 0..MaxRows
    BY <1>0, <2>1
  <2>3. QED
    BY <2>1, <2>2 DEF LogRanges, RowsOf
<1>3. ASSUME NEW w \in Writer, WriteRow(w) PROVE LogRanges'
  <2> DEFINE row == writer[w].row
             place == writer[w].place
  <2>1. row \in 1..rows /\ row \in Nat /\ place \in LogPlace
    BY <1>1, <1>3 DEF WriteRow
  <2>2. log' \in {log, [log EXCEPT ![place] = Append(log[place], row)]}
    BY <1>3 DEF WriteRow
  <2>3. raced' \in {raced, raced \cup {row}}
        /\ UNCHANGED <<inode, compactor, rows, compactions, beyond>>
    BY <1>3 DEF WriteRow
  <2> HIDE DEF row, place
  <2>4. ToSet(Append(log[place], row)) = ToSet(log[place]) \cup {row}
    BY <1>0, <2>1, AppendToSet
  <2>5. RowsOf(rows)'
    BY <1>0, <2>1, <2>2, <2>3, <2>4 DEF RowsOf, LogRanges
  <2>6. QED
    BY <2>1, <2>3, <2>5 DEF LogRanges
<1>4. ASSUME NEW w \in Writer, GiveUp(w) PROVE LogRanges'
  BY <1>1, <1>4 DEF GiveUp, LogRanges, RowsOf
<1>5. CASE Enroll \/ UNCHANGED opsvars
  BY <1>5 DEF Enroll, opsvars, LogRanges, RowsOf
<1>6. CASE Compact
  <2>1. /\ compactions < MaxCompactions /\ compactions' = compactions + 1
        /\ compactor'.pc \in {"read", "append"}
        /\ UNCHANGED <<log, inode, rows, raced, beyond>>
    BY <1>6 DEF Compact
  <2>2. QED
    BY <1>0, <2>1 DEF LogRanges, RowsOf
<1>7. CASE Relocate
  <2> DEFINE place == compactor.place
  <2>1. compactor \in Relocation /\ place \in LogPlace
    BY <1>7 DEF Relocate, LogInv, Resting, Relocation, Moved, LogPlace
  <2>2. log' = [log EXCEPT ![place] = log[place] \o log["native"]]
        /\ compactor' = [compactor EXCEPT !.pc = "unlink"]
        /\ UNCHANGED <<inode, rows, compactions, raced, beyond>>
    BY <1>7 DEF Relocate
  <2>3. compactor'.pc = "unlink"
    BY <2>1, <2>2 DEF Relocation
  <2> HIDE DEF place
  <2>4. "native" \in LogPlace
    BY DEF LogPlace
  <2>5. ToSet(log[place] \o log["native"]) = ToSet(log[place]) \cup ToSet(log["native"])
    BY <1>0, <2>1, <2>4, ConcatToSet
  <2>6. RowsOf(rows)'
    BY <1>0, <2>1, <2>2, <2>4, <2>5 DEF RowsOf, LogRanges
  <2>7. QED
    BY <2>2, <2>3, <2>6 DEF LogRanges
<1>8. CASE Unlink
  <2>1. compactor \in Relocation
    BY <1>8 DEF Unlink, LogInv, Resting, Relocation
  <2>2. log' = [log EXCEPT !["native"] = << >>]
        /\ compactor' = [compactor EXCEPT !.pc = "read"]
        /\ UNCHANGED <<inode, rows, compactions, raced, beyond>>
    BY <1>8 DEF Unlink
  <2>3. compactor'.pc = "read"
    BY <2>1, <2>2 DEF Relocation
  <2>4. ToSet(<< >>) = {}
    BY DEF ToSet
  <2>5. RowsOf(rows)'
    BY <1>0, <2>2, <2>4 DEF RowsOf, LogRanges
  <2>6. QED
    BY <2>2, <2>3, <2>5 DEF LogRanges
<1>9. CASE ReadTail
  <2>1. PICK oldest \in {1, 3} : Rewrite(oldest)
    BY <1>9 DEF ReadTail
  <2>2. UNCHANGED <<log, inode, rows, compactions, raced, beyond>>
    BY <1>9 DEF ReadTail
  <2>3. compactor.place \in LogPlace
    BY <1>9 DEF ReadTail, LogInv, Resting, Relocation, Moved, LogPlace
  <2> DEFINE s == log[compactor.place]
             kept == Sifted(LastRows(s), {r \in ToSet(s) : r >= oldest})
             past == {s[i] : i \in 1..(Len(s) - Keep)} \cup {r \in ToSet(s) : r < oldest}
  <2>4. s \in Seq(Nat) /\ oldest \in Nat /\ ToSet(s) \subseteq 1..rows
    BY <1>0, <2>3 DEF LogRanges, RowsOf
  <2>5. compactor' = [pc |-> "replace", place |-> compactor.place, kept |-> kept, past |-> past]
    BY <2>1 DEF Rewrite
  <2>6. ToSet(kept) \subseteq ToSet(s) /\ past \subseteq ToSet(s)
    <3> HIDE DEF s
    <3>1. ToSet(kept) \subseteq ToSet(s)
      BY <2>4, RewriteTakes
    <3>2. past \subseteq ToSet(s)
      BY <2>4, RewriteLeaves
    <3> QED
      BY <3>1, <3>2
  <2> HIDE DEF kept, past, s
  <2>7. compactor'.kept = kept /\ compactor'.past = past
    BY <2>5
  <2>8. ToSet(compactor'.kept) \subseteq 1..rows /\ compactor'.past \subseteq 1..rows
    BY <2>4, <2>6, <2>7
  <2>9. QED
    BY <2>2, <2>8 DEF LogRanges, RowsOf
<1>10. CASE Replace
  <2>1. compactor.pc = "replace" /\ compactor.place \in LogPlace
    BY <1>10 DEF Replace, LogInv, Resting, Relocation, Moved, LogPlace
  <2>2. /\ log' = [log EXCEPT ![compactor.place] = compactor.kept]
        /\ inode' = [inode EXCEPT ![compactor.place] = compactions]
        /\ beyond' = beyond \cup compactor.past /\ compactor'.pc = "resting"
        /\ UNCHANGED <<rows, compactions, raced>>
    BY <1>10 DEF Replace, Resting
  <2>3. ToSet(compactor.kept) \subseteq 1..rows /\ compactor.past \subseteq 1..rows
    BY <2>1 DEF LogRanges
  <2>4. RowsOf(rows)'
    BY <1>0, <2>1, <2>2, <2>3 DEF RowsOf, LogRanges
  <2>5. inode' \in [LogPlace -> 0..MaxCompactions]
    BY <2>1, <2>2 DEF LogRanges
  <2>6. QED
    BY <2>2, <2>3, <2>4, <2>5 DEF LogRanges
<1>11. CASE Kill
  BY <1>11 DEF Kill, LogRanges, RowsOf, Resting
<1>12. QED
  BY <1>2, <1>3, <1>4, <1>5, <1>6, <1>7, <1>8, <1>9, <1>10, <1>11 DEF OpsNext

LEMMA RowsAreOf ==
    ASSUME NEW T, NEW s \in Seq(Nat), ToSet(s) \subseteq T
    PROVE  s \in Seq(T)
<1>1. Len(s) \in Nat /\ DOMAIN s = 1..Len(s)
  OBVIOUS
<1>2. \A i \in 1..Len(s) : s[i] \in T
  BY <1>1 DEF ToSet
<1>3. QED
  BY <1>1, <1>2

(* The files of an operational log hold rows that were written and no others, under the  *)
(* names they had before a compaction, during one and after one (retention.py).          *)
THEOREM LogTyped == OpsSpec => []OpsTypeOK
<1>1. ASSUME LogInv, LogRanges PROVE OpsTypeOK
  <2>1. 1..rows \subseteq 1..MaxRows
    BY <1>1, LogAssumption DEF LogRanges
  <2>2. ASSUME NEW p \in LogPlace PROVE log[p] \in Seq(1..MaxRows)
    <3>1. log[p] \in Seq(Nat) /\ ToSet(log[p]) \subseteq 1..MaxRows
      BY <1>1, <2>1 DEF LogInv, LogRanges, RowsOf
    <3>2. QED
      BY <3>1, RowsAreOf
  <2>4. log \in [LogPlace -> Seq(1..MaxRows)]
    BY <1>1, <2>2 DEF LogInv
  <2>5. QED
    BY <1>1, <2>4 DEF LogRanges, OpsTypeOK
<1>2. QED
  BY <1>1, LogStarts, LogInvStep, InitLogRanges, StepLogRanges, PTL DEF OpsSpec

-----------------------------------------------------------------------------
(* The room of an index (EvictToReceive): sums of costs.                   *)

\* Subsets one element at a time.
LEMMA SubsetInduction ==
    ASSUME NEW S, IsFiniteSet(S), NEW T,
           \A U \in SUBSET S : (\A x \in U : U \ {x} \in T) => U \in T
    PROVE  SUBSET S \subseteq T
<1> DEFINE N == {n \in Nat : \A U \in SUBSET S : Cardinality(U) = n => U \in T}
<1>1. \A U \in SUBSET S : IsFiniteSet(U) /\ Cardinality(U) \in Nat
  BY FS_Subset, FS_CardinalityType
<1>2. 0 \in N
  <2> SUFFICES ASSUME NEW U \in SUBSET S, Cardinality(U) = 0
               PROVE  U \in T
    OBVIOUS
  <2>1. U = {}
    BY <1>1, FS_EmptySet
  <2> QED
    BY <2>1
<1>3. ASSUME NEW n \in Nat, n \in N
      PROVE  n + 1 \in N
  <2> SUFFICES ASSUME NEW U \in SUBSET S, Cardinality(U) = n + 1
               PROVE  U \in T
    OBVIOUS
  <2>1. ASSUME NEW x \in U
        PROVE  U \ {x} \in SUBSET S /\ Cardinality(U \ {x}) = n
    <3>1. Cardinality(U \ {x}) = Cardinality(U) - 1
      BY <1>1, FS_RemoveElement
    <3> QED
      BY <3>1
  <2> QED
    BY <1>3, <2>1
<1>4. ASSUME NEW U \in SUBSET S
      PROVE  U \in T
  <2>1. Nat \subseteq N
    <3> HIDE DEF N
    <3> QED
      BY <1>2, <1>3, Induction
  <2> QED
    BY <1>1, <2>1
<1> QED
  BY <1>4

Picked(U) == CHOOSE x \in U : TRUE

AddsUp(sum, f, S) ==
    sum = [U \in SUBSET S |-> IF U = {} THEN 0 ELSE f[Picked(U)] + sum[U \ {Picked(U)}]]

\* The recursion of a sum is well founded.
LEMMA SumExists ==
    ASSUME NEW S, IsFiniteSet(S), NEW f
    PROVE  \E sum : AddsUp(sum, f, S)
<1> DEFINE Body(sum, U) == IF U = {} THEN 0 ELSE f[Picked(U)] + sum[U \ {Picked(U)}]
           Upto(sum, n) == \A U \in SUBSET S : Cardinality(U) <= n => sum[U] = Body(sum, U)
           N == {n \in Nat : \E sum : Upto(sum, n)}
<1>1. \A U \in SUBSET S : IsFiniteSet(U) /\ Cardinality(U) \in Nat
  BY FS_Subset, FS_CardinalityType
<1>2. \A U \in SUBSET S : U # {} =>
         /\ Picked(U) \in U /\ U \ {Picked(U)} \in SUBSET S
         /\ Cardinality(U \ {Picked(U)}) = Cardinality(U) - 1
  BY <1>1, FS_RemoveElement DEF Picked
<1>3. 0 \in N
  <2> DEFINE none == [U \in SUBSET S |-> 0]
  <2>1. Upto(none, 0)
    BY <1>1, FS_EmptySet
  <2> QED
    BY <2>1
<1>4. ASSUME NEW n \in Nat, n \in N
      PROVE  n + 1 \in N
  <2>1. PICK sum : Upto(sum, n)
    BY <1>4
  <2> DEFINE more == [U \in SUBSET S |-> Body(sum, U)]
  <2>2. ASSUME NEW U \in SUBSET S, Cardinality(U) <= n + 1
        PROVE  more[U] = Body(more, U)
    <3>1. CASE U = {}
      BY <3>1
    <3>2. CASE U # {}
      <4> DEFINE V == U \ {Picked(U)}
      <4>1. V \in SUBSET S /\ Cardinality(V) <= n
        BY <1>1, <1>2, <2>2, <3>2
      <4>2. more[V] = sum[V]
        BY <2>1, <4>1
      <4>3. more[U] = Body(sum, U)
        OBVIOUS
      <4> HIDE DEF more
      <4> QED
        BY <3>2, <4>2, <4>3
    <3> QED
      BY <3>1, <3>2
  <2>3. Upto(more, n + 1)
    <3> HIDE DEF more, Body
    <3> QED
      BY <2>2
  <2> QED
    <3> HIDE DEF more, Upto
    <3> QED
      BY <2>3
<1>5. PICK sum : Upto(sum, Cardinality(S))
  <2>1. Nat \subseteq N
    <3> HIDE DEF N
    <3> QED
      BY <1>3, <1>4, Induction
  <2> HIDE DEF Upto
  <2> QED
    BY <1>1, <2>1
<1> DEFINE whole == [U \in SUBSET S |-> sum[U]]
<1>6. ASSUME NEW U \in SUBSET S
      PROVE  whole[U] = Body(whole, U)
  <2>1. sum[U] = Body(sum, U)
    <3>1. Cardinality(U) <= Cardinality(S)
      BY FS_Subset
    <3> QED
      BY <1>5, <3>1
  <2>2. whole[U] = sum[U] /\ (U # {} => whole[U \ {Picked(U)}] = sum[U \ {Picked(U)}])
    BY <1>2
  <2> HIDE DEF whole
  <2> QED
    BY <2>1, <2>2
<1>7. AddsUp(whole, f, S)
  <2>1. whole = [U \in SUBSET S |-> whole[U]]
    OBVIOUS
  <2> HIDE DEF whole
  <2> QED
    BY <1>6, <2>1 DEF AddsUp
<1> QED
  BY <1>7

\* A sum is that of the rest and any one of its members.
SumOf(sum, f, S) ==
    /\ sum \in [SUBSET S -> Int]
    /\ sum[{}] = 0
    /\ \A U \in SUBSET S : \A x \in U : sum[U] = f[x] + sum[U \ {x}]

LEMMA AnyOrder ==
    ASSUME NEW S, IsFiniteSet(S), NEW f \in [S -> Int], NEW sum, AddsUp(sum, f, S)
    PROVE  SumOf(sum, f, S)
<1>1. \A U \in SUBSET S : U # {} => Picked(U) \in U
  BY DEF Picked
<1>2. sum[{}] = 0
  BY DEF AddsUp
<1>3. \A U \in SUBSET S : U # {} => sum[U] = f[Picked(U)] + sum[U \ {Picked(U)}]
  BY DEF AddsUp
<1>4. \A U \in SUBSET S : sum[U] \in Int
  <2> DEFINE T == {U \in SUBSET S : sum[U] \in Int}
  <2>1. ASSUME NEW U \in SUBSET S, \A x \in U : U \ {x} \in T
        PROVE  U \in T
    <3>1. CASE U = {}
      BY <1>2, <3>1
    <3>2. CASE U # {}
      <4>1. Picked(U) \in U /\ Picked(U) \in S
        BY <1>1, <3>2
      <4>2. f[Picked(U)] \in Int /\ sum[U \ {Picked(U)}] \in Int
        BY <2>1, <4>1
      <4> QED
        BY <1>3, <3>2, <4>2
    <3> QED
      BY <3>1, <3>2
  <2>2. SUBSET S \subseteq T
    <3> HIDE DEF T
    <3> QED
      BY <2>1, SubsetInduction
  <2> QED
    BY <2>2
<1>5. \A U \in SUBSET S : \A x \in U : sum[U] = f[x] + sum[U \ {x}]
  <2> DEFINE T == {U \in SUBSET S : \A x \in U : sum[U] = f[x] + sum[U \ {x}]}
  <2>1. ASSUME NEW U \in SUBSET S, \A x \in U : U \ {x} \in T
        PROVE  U \in T
    <3> SUFFICES ASSUME NEW x \in U
                 PROVE  sum[U] = f[x] + sum[U \ {x}]
      OBVIOUS
    <3> DEFINE c == Picked(U)
    <3>1. c \in U /\ sum[U] = f[c] + sum[U \ {c}]
      BY <1>1, <1>3
    <3> HIDE DEF c
    <3>2. CASE x = c
      BY <3>1, <3>2
    <3>3. CASE x # c
      <4>1. x \in U \ {c} /\ c \in U \ {x} /\ (U \ {c}) \ {x} = (U \ {x}) \ {c}
        BY <3>1, <3>3
      <4>2. sum[U \ {c}] = f[x] + sum[(U \ {c}) \ {x}]
        BY <2>1, <3>1, <4>1
      <4>3. sum[U \ {x}] = f[c] + sum[(U \ {x}) \ {c}]
        BY <2>1, <4>1
      <4>4. sum[(U \ {x}) \ {c}] \in Int /\ f[x] \in Int /\ f[c] \in Int
        BY <1>4, <3>1
      <4>5. sum[(U \ {c}) \ {x}] = sum[(U \ {x}) \ {c}]
        BY <4>1
      <4> QED
        BY <3>1, <4>2, <4>3, <4>4, <4>5
    <3> QED
      BY <3>2, <3>3
  <2>2. SUBSET S \subseteq T
    <3> HIDE DEF T
    <3> QED
      BY <2>1, SubsetInduction
  <2> QED
    BY <2>2
<1>6. sum \in [SUBSET S -> Int]
  <2>1. DOMAIN sum = SUBSET S /\ sum = [U \in DOMAIN sum |-> sum[U]]
    BY DEF AddsUp
  <2> QED
    BY <1>4, <2>1
<1> QED
  BY <1>2, <1>5, <1>6 DEF SumOf

LEMMA TotalSums ==
    ASSUME NEW f \in [Name -> Int]
    PROVE  \E sum : SumOf(sum, f, Name) /\ Total(f) = sum[Name]
<1>1. IsFiniteSet(Name)
  BY Room
<1> DEFINE sum == CHOOSE it : AddsUp(it, f, Name)
<1>2. AddsUp(sum, f, Name)
  BY <1>1, SumExists
<1>3. Total(f) = sum[Name]
  BY Zenon DEF Total, SumFunctionOnSet, FoldFunctionOnSet, MapThenFoldSet, AddsUp, Picked
<1> HIDE DEF sum
<1> QED
  BY <1>1, <1>2, <1>3, AnyOrder

\* Two functions that agree on a set have the same sum over it, and one that is nowhere
\* more has no more.
LEMMA SumsAgree ==
    ASSUME NEW S, IsFiniteSet(S), NEW f \in [S -> Int], NEW h \in [S -> Int],
           NEW sf, SumOf(sf, f, S), NEW sh, SumOf(sh, h, S), NEW U \in SUBSET S
    PROVE  /\ (\A x \in U : f[x] = h[x]) => sf[U] = sh[U]
           /\ (\A x \in U : f[x] <= h[x]) => sf[U] <= sh[U]
<1> DEFINE Agree(V) == (\A x \in V : f[x] = h[x]) => sf[V] = sh[V]
           Below(V) == (\A x \in V : f[x] <= h[x]) => sf[V] <= sh[V]
           T == {V \in SUBSET S : Agree(V) /\ Below(V)}
<1>1. ASSUME NEW V \in SUBSET S, \A x \in V : V \ {x} \in T
      PROVE  V \in T
  <2>1. CASE V = {}
    BY <2>1 DEF SumOf
  <2>2. CASE V # {}
    <3>1. PICK y \in V : TRUE
      BY <2>2
    <3>2. sf[V] = f[y] + sf[V \ {y}] /\ sh[V] = h[y] + sh[V \ {y}]
      BY <3>1 DEF SumOf
    <3>3. sf[V \ {y}] \in Int /\ sh[V \ {y}] \in Int /\ f[y] \in Int /\ h[y] \in Int
      BY <3>1 DEF SumOf
    <3>4. Agree(V \ {y}) /\ Below(V \ {y})
      BY <1>1, <3>1
    <3>5. Agree(V)
      <4> SUFFICES ASSUME \A x \in V : f[x] = h[x]
                   PROVE  sf[V] = sh[V]
        OBVIOUS
      <4>1. f[y] = h[y] /\ sf[V \ {y}] = sh[V \ {y}]
        BY <3>1, <3>4
      <4> QED
        BY <3>2, <4>1
    <3>6. Below(V)
      <4> SUFFICES ASSUME \A x \in V : f[x] <= h[x]
                   PROVE  sf[V] <= sh[V]
        OBVIOUS
      <4>1. f[y] <= h[y] /\ sf[V \ {y}] <= sh[V \ {y}]
        BY <3>1, <3>4
      <4> QED
        BY <3>2, <3>3, <4>1
    <3> QED
      BY <3>5, <3>6
  <2> QED
    BY <2>1, <2>2
<1>2. SUBSET S \subseteq T
  <2> HIDE DEF T
  <2> QED
    BY <1>1, SubsetInduction
<1> QED
  BY <1>2

\* What a line adds to its index.
LEMMA TotalChanges ==
    ASSUME NEW f \in [Name -> Int], NEW h \in [Name -> Int], NEW x \in Name,
           \A n \in Name \ {x} : f[n] = h[n]
    PROVE  /\ Total(f) \in Int /\ Total(h) \in Int
           /\ Total(h) - h[x] = Total(f) - f[x]
<1>1. PICK sf : SumOf(sf, f, Name) /\ Total(f) = sf[Name]
  BY TotalSums
<1>2. PICK sh : SumOf(sh, h, Name) /\ Total(h) = sh[Name]
  BY TotalSums
<1>3. sf[Name \ {x}] = sh[Name \ {x}]
  <2>1. IsFiniteSet(Name) /\ Name \ {x} \in SUBSET Name
    BY Room
  <2> QED
    BY <1>1, <1>2, <2>1, SumsAgree
<1>4. sf[Name] = f[x] + sf[Name \ {x}] /\ sh[Name] = h[x] + sh[Name \ {x}]
  BY <1>1, <1>2 DEF SumOf
<1>5. sf[Name \ {x}] \in Int /\ f[x] \in Int /\ h[x] \in Int
  BY <1>1 DEF SumOf
<1> QED
  BY <1>1, <1>2, <1>3, <1>4, <1>5

LEMMA TotalGrows ==
    ASSUME NEW f \in [Name -> Int], NEW h \in [Name -> Int], \A n \in Name : f[n] <= h[n]
    PROVE  Total(f) <= Total(h) /\ Total(f) \in Int /\ Total(h) \in Int
<1>1. PICK sf : SumOf(sf, f, Name) /\ Total(f) = sf[Name]
  BY TotalSums
<1>2. PICK sh : SumOf(sh, h, Name) /\ Total(h) = sh[Name]
  BY TotalSums
<1>3. sf[Name] <= sh[Name]
  <2>1. IsFiniteSet(Name) /\ Name \in SUBSET Name
    BY Room
  <2> QED
    BY <1>1, <1>2, <2>1, SumsAgree
<1> QED
  BY <1>1, <1>2, <1>3 DEF SumOf

\* An index with no line more, and none that costs more, is admitted too.
LEMMA AdmitsLess ==
    ASSUME NEW f \in [Name -> Nat], NEW h \in [Name -> Nat], \A n \in Name : f[n] <= h[n],
           IndexAdmits(h)
    PROVE  IndexAdmits(f)
<1>1. Total(f) <= Total(h) /\ Total(f) \in Int /\ Total(h) \in Int
  BY TotalGrows
<1>2. {n \in Name : f[n] > 0} \subseteq {n \in Name : h[n] > 0} /\ IsFiniteSet({n \in Name : h[n] > 0})
  BY FS_Subset, Room
<1>3. /\ Cardinality({n \in Name : f[n] > 0}) <= Cardinality({n \in Name : h[n] > 0})
      /\ Cardinality({n \in Name : f[n] > 0}) \in Nat /\ Cardinality({n \in Name : h[n] > 0}) \in Nat
  BY <1>2, FS_Subset, FS_CardinalityType
<1> QED
  BY <1>1, <1>3, Room DEF IndexAdmits

-----------------------------------------------------------------------------
(* The plan of a pull.                                                     *)

LEMMA Turns ==
    /\ Len(Order) \in Nat
    /\ \A i \in 1..Len(Order) : Order[i] \in Global /\ Turn(Order[i]) = i
    /\ \A g \in Global : Turn(g) \in 1..Len(Order) /\ Order[Turn(g)] = g
<1>1. Len(Order) \in Nat /\ DOMAIN Order = 1..Len(Order)
      /\ \A i \in 1..Len(Order) : Order[i] \in Global
  BY Room
<1>2. ASSUME NEW g \in Global
      PROVE  /\ Turn(g) \in 1..Len(Order) /\ Order[Turn(g)] = g
             /\ \A i \in 1..Len(Order) : Order[i] = g => Turn(g) = i
  <2>1. PICK i \in DOMAIN Order : \A h \in DOMAIN Order : Order[h] = g <=> h = i
    BY Room
  <2>2. Turn(g) = i
    BY <1>1, <2>1 DEF Turn
  <2> QED
    BY <2>1, <2>2
<1> QED
  BY <1>1, <1>2

\* What a pull reads.
Reading ==
    [file : [Name -> {"none", "own", "revised", "mirror", "edited"}], line : [Name -> Price \cup {0}],
     links : SUBSET (Native \X Native), hook : [Global -> Price], text : [Global -> Price \cup {0}]]

Planning(plan, n, start, grow, last) ==
    plan = [i \in 0..last |-> IF i = 0 THEN [idx |-> start, pull |-> {}]
                              ELSE PlanJob(n, grow, plan[i - 1], Order[i])]

\* The recursion of PlanPull is well founded.
LEMMA PlanExists ==
    ASSUME NEW n, NEW start, NEW grow, NEW N \in Nat
    PROVE  \E plan : Planning(plan, n, start, grow, N)
<1> DEFINE Is(plan, last) == Planning(plan, n, start, grow, last)
           T == {last \in Nat : \E plan : Is(plan, last)}
<1>1. 0 \in T
  <2> DEFINE none == [i \in 0..0 |-> [idx |-> start, pull |-> {}]]
  <2>1. Is(none, 0)
    BY DEF Planning
  <2> QED
    BY <2>1
<1>2. ASSUME NEW k \in Nat, k \in T
      PROVE  k + 1 \in T
  <2>1. PICK plan : Is(plan, k)
    BY <1>2
  <2> DEFINE last == PlanJob(n, grow, plan[k], Order[k + 1])
             more == [i \in 0..(k + 1) |-> IF i = k + 1 THEN last ELSE plan[i]]
             goal(i) == IF i = 0 THEN [idx |-> start, pull |-> {}]
                        ELSE PlanJob(n, grow, more[i - 1], Order[i])
  <2>2. ASSUME NEW i \in 0..k
        PROVE  more[i] = goal(i)
    <3>1. plan[i] = IF i = 0 THEN [idx |-> start, pull |-> {}]
                    ELSE PlanJob(n, grow, plan[i - 1], Order[i])
      BY <2>1 DEF Planning
    <3>2. more[i] = plan[i] /\ (i # 0 => more[i - 1] = plan[i - 1])
      OBVIOUS
    <3> HIDE DEF more
    <3> QED
      BY <3>1, <3>2
  <2>3. more[k + 1] = goal(k + 1)
    <3>1. more[k + 1] = last /\ more[k] = plan[k] /\ k + 1 # 0 /\ (k + 1) - 1 = k
      OBVIOUS
    <3> HIDE DEF more
    <3> QED
      BY <3>1
  <2>4. more = [i \in 0..(k + 1) |-> more[i]]
    OBVIOUS
  <2>5. \A i \in 0..(k + 1) : more[i] = goal(i)
    <3>1. \A i \in 0..(k + 1) : i \in 0..k \/ i = k + 1
      OBVIOUS
    <3> HIDE DEF goal
    <3> QED
      BY <2>2, <2>3, <3>1
  <2>6. Is(more, k + 1)
    <3> HIDE DEF more
    <3> QED
      BY <2>4, <2>5 DEF Planning
  <2> HIDE DEF Is
  <2> QED
    BY <2>6
<1>3. N \in T
  <2> HIDE DEF T
  <2> QED
    BY <1>1, <1>2, Induction
<1> QED
  BY <1>3

Plans(plan, n, start, grow) ==
    /\ plan[0] = [idx |-> start, pull |-> {}]
    /\ \A i \in 1..Len(Order) : plan[i] = PlanJob(n, grow, plan[i - 1], Order[i])

LEMMA PlanIs ==
    ASSUME NEW n, NEW start, NEW grow
    PROVE  \E plan : Plans(plan, n, start, grow) /\ PlanPull(n, start, grow) = plan[Len(Order)]
<1> DEFINE plan == CHOOSE it : Planning(it, n, start, grow, Len(Order))
<1>1. Len(Order) \in Nat
  BY Turns
<1>2. Planning(plan, n, start, grow, Len(Order))
  BY <1>1, PlanExists
<1>3. PlanPull(n, start, grow) = plan[Len(Order)]
  BY Zenon DEF PlanPull, Planning
<1> HIDE DEF plan
<1>4. \A i \in 0..Len(Order) :
         plan[i] = IF i = 0 THEN [idx |-> start, pull |-> {}]
                   ELSE PlanJob(n, grow, plan[i - 1], Order[i])
  BY <1>2 DEF Planning
<1>5. Plans(plan, n, start, grow)
  <2>1. 0 \in 0..Len(Order) /\ \A i \in 1..Len(Order) : i \in 0..Len(Order) /\ i # 0
    BY <1>1
  <2> QED
    BY <1>4, <2>1 DEF Plans
<1> QED
  BY <1>3, <1>5

\* The index once the jobs up to the i-th are done.
LinesAt(base, n, planned, i) ==
    [k \in Name |-> IF k \in Global /\ k \in planned \cup StaleIn(n) /\ Turn(k) <= i
                    THEN n.hook[k] ELSE base[k]]

Upto(planned, i) == {g \in planned : Turn(g) <= i}

LEMMA LinesShape ==
    ASSUME NEW n \in Reading, NEW base \in [Name -> Nat], NEW planned, NEW i
    PROVE  LinesAt(base, n, planned, i) \in [Name -> Nat]
<1>1. \A g \in Global : n.hook[g] \in Nat
  BY Room DEF Reading
<1> QED
  BY <1>1 DEF LinesAt

LEMMA Difference ==
    ASSUME NEW a \in Int, NEW b \in Int, NEW c \in Int, NEW d \in Int, b - d = a - c
    PROVE  b = a + (d - c)
OBVIOUS

\* One job of the plan.
LEMMA PlanJobDoes ==
    ASSUME NEW n \in Reading, NEW base \in [Name -> Nat], NEW grow \in BOOLEAN,
           \A g \in Global : base[g] = n.line[g],
           NEW i \in 1..Len(Order), NEW before,
           before.pull \subseteq {g \in MissingIn(n) : Turn(g) <= i - 1},
           before.idx = Total(LinesAt(base, n, before.pull, i - 1)),
           NEW g, g = Order[i], NEW after, after = PlanJob(n, grow, before, g)
    PROVE  /\ after.pull \subseteq {k \in MissingIn(n) : Turn(k) <= i}
           /\ after.idx = Total(LinesAt(base, n, after.pull, i))
           /\ Upto(after.pull, i - 1) = before.pull
           /\ g \in after.pull <=>
                 g \in MissingIn(n) /\ ~WouldNetGrow(before.idx, n.hook[g] - n.line[g], grow)
<1> DEFINE f == LinesAt(base, n, before.pull, i - 1)
           h == LinesAt(base, n, after.pull, i)
           grows == WouldNetGrow(before.idx, n.hook[g] - n.line[g], grow)
<1>1. /\ g \in Global /\ g \in Name /\ Turn(g) = i /\ i \in Nat
      /\ \A k \in Global : Turn(k) \in Nat /\ (k # g => Turn(k) # i)
      /\ ~ (i <= i - 1)
  BY Turns DEF Name
<1>2. f \in [Name -> Nat] /\ h \in [Name -> Nat] /\ n.hook[g] \in Nat /\ base[g] \in Nat
      /\ n.line[g] = base[g]
  BY <1>1, LinesShape, Room DEF Reading
<1>3. g \notin before.pull /\ (g \in MissingIn(n) => g \notin StaleIn(n))
  BY <1>1 DEF MissingIn, StaleIn
<1>4. /\ g \in MissingIn(n) /\ ~grows =>
            after.pull = before.pull \cup {g} /\ after.idx = before.idx + (n.hook[g] - n.line[g])
      /\ ~ (g \in MissingIn(n) /\ ~grows) => after.pull = before.pull
      /\ ~ (g \in MissingIn(n) /\ ~grows) /\ g \in StaleIn(n) =>
            after.idx = before.idx + (n.hook[g] - n.line[g])
      /\ ~ (g \in MissingIn(n) /\ ~grows) /\ g \notin StaleIn(n) => after.idx = before.idx
  BY Zenon DEF PlanJob
<1> HIDE DEF grows
<1>5. g \in after.pull <=> g \in MissingIn(n) /\ ~grows
  BY <1>3, <1>4
<1>6. \A k : k # g => (k \in after.pull <=> k \in before.pull)
  BY <1>4
<1>7. \A k \in Name \ {g} : f[k] = h[k]
  <2> SUFFICES ASSUME NEW k \in Name \ {g}
               PROVE  f[k] = h[k]
    OBVIOUS
  <2>1. k \in Global => (Turn(k) <= i <=> Turn(k) <= i - 1)
    BY <1>1
  <2>2. k \in before.pull \cup StaleIn(n) <=> k \in after.pull \cup StaleIn(n)
    BY <1>6
  <2> QED
    BY <2>1, <2>2 DEF LinesAt
<1>8. f[g] = base[g] /\ h[g] = IF g \in after.pull \cup StaleIn(n) THEN n.hook[g] ELSE base[g]
  BY <1>1 DEF LinesAt
<1>9. Total(f) \in Int /\ Total(h) \in Int /\ Total(h) - h[g] = Total(f) - f[g]
  <2>1. f \in [Name -> Int] /\ h \in [Name -> Int]
    BY <1>2
  <2> HIDE DEF f, h
  <2> QED
    BY <1>1, <1>7, <2>1, TotalChanges
<1>10. after.idx = Total(h)
  <2>1. before.idx = Total(f)
    OBVIOUS
  <2> HIDE DEF f, h
  <2>2. ASSUME h[g] = n.hook[g], after.idx = before.idx + (n.hook[g] - n.line[g])
        PROVE  after.idx = Total(h)
    <3>1. h[g] \in Nat /\ f[g] \in Nat /\ n.line[g] = f[g]
      BY <1>2, <1>8, <2>2
    <3>2. after.idx = Total(f) + (h[g] - f[g])
      BY <2>1, <2>2, <3>1
    <3> QED
      BY <1>9, <3>1, <3>2, Difference
  <2>3. CASE g \in MissingIn(n) /\ ~grows
    BY <1>4, <1>5, <1>8, <2>2, <2>3
  <2>4. CASE ~ (g \in MissingIn(n) /\ ~grows) /\ g \in StaleIn(n)
    BY <1>4, <1>8, <2>2, <2>4
  <2>5. CASE ~ (g \in MissingIn(n) /\ ~grows) /\ g \notin StaleIn(n)
    BY <1>2, <1>4, <1>5, <1>8, <1>9, <2>1, <2>5
  <2> QED
    BY <2>3, <2>4, <2>5
<1>11. after.pull \subseteq {k \in MissingIn(n) : Turn(k) <= i}
  <2>1. \A k \in MissingIn(n) : k \in Global
    BY DEF MissingIn
  <2>2. \A k \in Global : Turn(k) <= i - 1 => Turn(k) <= i
    BY <1>1
  <2> QED
    BY <1>1, <1>5, <1>6, <2>1, <2>2
<1>12. Upto(after.pull, i - 1) = before.pull
  <2>1. \A k \in before.pull : Turn(k) <= i - 1
    OBVIOUS
  <2> QED
    BY <1>1, <1>6, <1>3, <2>1 DEF Upto
<1> QED
  BY <1>5, <1>10, <1>11, <1>12 DEF grows

LEMMA PlanRuns ==
    ASSUME NEW n \in Reading, NEW base \in [Name -> Nat], NEW grow \in BOOLEAN,
           \A g \in Global : base[g] = n.line[g],
           NEW plan, Plans(plan, n, Total(base), grow), NEW last \in 0..Len(Order)
    PROVE  /\ plan[last].pull \subseteq {g \in MissingIn(n) : Turn(g) <= last}
           /\ plan[last].idx = Total(LinesAt(base, n, plan[last].pull, last))
           /\ \A i \in 0..last : Upto(plan[last].pull, i) = plan[i].pull
<1> DEFINE Good(k) ==
              /\ plan[k].pull \subseteq {g \in MissingIn(n) : Turn(g) <= k}
              /\ plan[k].idx = Total(LinesAt(base, n, plan[k].pull, k))
              /\ \A i \in 0..k : Upto(plan[k].pull, i) = plan[i].pull
           T == {k \in Nat : k <= Len(Order) => Good(k)}
<1>1. 0 \in T
  <2>1. plan[0].idx = Total(base) /\ plan[0].pull = {}
    BY DEF Plans
  <2>2. LinesAt(base, n, {}, 0) = base
    <3>1. \A k \in Global : ~ (Turn(k) <= 0)
      BY Turns
    <3>2. LinesAt(base, n, {}, 0) = [k \in Name |-> base[k]]
      BY <3>1 DEF LinesAt
    <3> QED
      BY <3>2
  <2>3. \A i \in 0..0 : Upto(plan[0].pull, i) = plan[i].pull
    <3>1. \A i \in 0..0 : i = 0
      OBVIOUS
    <3>2. Upto({}, 0) = {}
      BY DEF Upto
    <3> QED
      BY <2>1, <3>1, <3>2
  <2>4. plan[0].pull \subseteq {g \in MissingIn(n) : Turn(g) <= 0}
    BY <2>1
  <2> QED
    BY <2>1, <2>2, <2>3, <2>4
<1>2. ASSUME NEW k \in Nat, k \in T
      PROVE  k + 1 \in T
  <2> SUFFICES ASSUME k + 1 <= Len(Order)
               PROVE  Good(k + 1)
    OBVIOUS
  <2> DEFINE i == k + 1
  <2>1. i \in 1..Len(Order) /\ i - 1 = k /\ Len(Order) \in Nat
    BY Turns
  <2>2. Good(k)
    BY <1>2, <2>1
  <2>3. plan[i] = PlanJob(n, grow, plan[i - 1], Order[i])
    BY <2>1 DEF Plans
  <2>4. /\ plan[i].pull \subseteq {g \in MissingIn(n) : Turn(g) <= i}
        /\ plan[i].idx = Total(LinesAt(base, n, plan[i].pull, i))
        /\ Upto(plan[i].pull, i - 1) = plan[i - 1].pull
    <3>1. /\ plan[i - 1].pull \subseteq {g \in MissingIn(n) : Turn(g) <= i - 1}
          /\ plan[i - 1].idx = Total(LinesAt(base, n, plan[i - 1].pull, i - 1))
      BY <2>1, <2>2
    <3> HIDE DEF i, Good
    <3> QED
      BY <2>1, <2>3, <3>1, PlanJobDoes
  <2>5. \A h \in 0..i : Upto(plan[i].pull, h) = plan[h].pull
    <3> SUFFICES ASSUME NEW h \in 0..i
                 PROVE  Upto(plan[i].pull, h) = plan[h].pull
      OBVIOUS
    <3>1. CASE h = i
      BY <2>4, <3>1 DEF Upto
    <3>2. CASE h # i
      <4>1. h \in 0..k
        BY <3>2
      <4>2. Upto(plan[k].pull, h) = plan[h].pull
        BY <2>2, <4>1
      <4>3. Upto(plan[i].pull, h) = Upto(Upto(plan[i].pull, k), h)
        <5>1. \A g \in plan[i].pull : Turn(g) \in Nat
          BY <2>4, Turns DEF MissingIn
        <5>2. \A g \in plan[i].pull : Turn(g) <= h => Turn(g) <= k
          BY <4>1, <5>1
        <5> QED
          BY <5>2 DEF Upto
      <4> QED
        BY <2>1, <2>4, <4>2, <4>3
    <3> QED
      BY <3>1, <3>2
  <2> QED
    BY <2>4, <2>5
<1>3. last \in T
  <2>1. last \in Nat
    BY Turns
  <2> HIDE DEF T
  <2> QED
    BY <1>1, <1>2, <2>1, Induction
<1>4. last \in Nat /\ last <= Len(Order)
  BY Turns
<1> QED
  BY <1>3, <1>4

\* What has room, fact by fact, in an index without the line that is given up.
Chosen(base, n, planned) ==
    \A g \in MissingIn(n) :
        g \in planned <=>
            ~WouldNetGrow(Total(LinesAt(base, n, planned, Turn(g) - 1)), n.hook[g] - n.line[g], FALSE)

\* The index at a turn depends only on what was planned before.
LEMMA LinesUpto ==
    ASSUME NEW base, NEW n, NEW planned, NEW i
    PROVE  LinesAt(base, n, Upto(planned, i), i) = LinesAt(base, n, planned, i)
BY DEF LinesAt, Upto

LEMMA PlanMeans ==
    ASSUME NEW n \in Reading, NEW base \in [Name -> Nat],
           \A g \in Global : base[g] = n.line[g]
    PROVE  LET pull == PlanPull(n, Total(base), FALSE).pull
           IN  pull \in SUBSET MissingIn(n) /\ Chosen(base, n, pull)
<1>0. PICK grow : grow \in BOOLEAN /\ grow = FALSE
  OBVIOUS
<1>1. PICK plan : /\ Plans(plan, n, Total(base), grow)
                  /\ PlanPull(n, Total(base), grow) = plan[Len(Order)]
  BY PlanIs
<1> DEFINE N == Len(Order)
           pull == plan[N].pull
<1>2. N \in Nat /\ N \in 0..N
  BY Turns
<1>3. pull \subseteq {g \in MissingIn(n) : Turn(g) <= N} /\ \A i \in 0..N : Upto(pull, i) = plan[i].pull
  <2>1. Plans(plan, n, Total(base), grow)
    BY <1>1
  <2> QED
    BY <1>0, <1>2, <2>1, PlanRuns
<1>4. ASSUME NEW g \in MissingIn(n)
      PROVE  g \in pull <=>
               ~WouldNetGrow(Total(LinesAt(base, n, pull, Turn(g) - 1)), n.hook[g] - n.line[g], grow)
  <2> DEFINE i == Turn(g)
  <2>1. g \in Global /\ i \in 1..N /\ Order[i] = g /\ i - 1 \in 0..N /\ i \in 0..N
    BY <1>2, Turns DEF MissingIn
  <2>2. /\ plan[i - 1].pull \subseteq {k \in MissingIn(n) : Turn(k) <= i - 1}
        /\ plan[i - 1].idx = Total(LinesAt(base, n, plan[i - 1].pull, i - 1))
    BY <1>0, <1>1, <2>1, PlanRuns
  <2>3. plan[i] = PlanJob(n, grow, plan[i - 1], Order[i])
    BY <1>1, <2>1 DEF Plans
  <2>4. g \in plan[i].pull <=> ~WouldNetGrow(plan[i - 1].idx, n.hook[g] - n.line[g], grow)
    <3>1. plan[i] = PlanJob(n, grow, plan[i - 1], g) /\ i \in 1..Len(Order) /\ g = Order[i]
      BY <2>1, <2>3
    <3>2. g \in plan[i].pull <=>
             g \in MissingIn(n) /\ ~WouldNetGrow(plan[i - 1].idx, n.hook[g] - n.line[g], grow)
      BY <1>0, <2>2, <3>1, PlanJobDoes
    <3> QED
      BY <3>2
  <2>5. g \in pull <=> g \in plan[i].pull
    <3>1. i <= i
      BY <2>1
    <3>2. Upto(pull, i) = plan[i].pull
      BY <1>3, <2>1
    <3> QED
      BY <3>1, <3>2 DEF Upto
  <2>6. plan[i - 1].idx = Total(LinesAt(base, n, pull, i - 1))
    BY <1>3, <2>1, <2>2, LinesUpto
  <2> HIDE DEF pull
  <2> QED
    BY <2>4, <2>5, <2>6
<1> QED
  BY <1>0, <1>1, <1>3, <1>4 DEF Chosen

\* The room under the ceiling determines what is planned.
LEMMA Unique ==
    ASSUME NEW n \in Reading, NEW base,
           NEW planned \in SUBSET MissingIn(n), NEW other \in SUBSET MissingIn(n),
           Chosen(base, n, planned), Chosen(base, n, other)
    PROVE  planned = other
<1> DEFINE T == {i \in Nat : Upto(planned, i) = Upto(other, i)}
<1>1. \A g \in MissingIn(n) : g \in Global /\ Turn(g) \in 1..Len(Order) /\ Len(Order) \in Nat
  BY Turns DEF MissingIn
<1>2. 0 \in T
  <2>1. Upto(planned, 0) = {} /\ Upto(other, 0) = {}
    BY <1>1 DEF Upto
  <2> QED
    BY <2>1
<1>3. ASSUME NEW i \in Nat, i \in T
      PROVE  i + 1 \in T
  <2>1. Upto(planned, i) = Upto(other, i)
    BY <1>3
  <2>2. LinesAt(base, n, planned, i) = LinesAt(base, n, other, i)
    BY <2>1, LinesUpto
  <2>3. ASSUME NEW g \in MissingIn(n), Turn(g) = i + 1
        PROVE  g \in planned <=> g \in other
    <3>1. Turn(g) - 1 = i
      BY <2>3
    <3> QED
      BY <2>2, <3>1 DEF Chosen
  <2>4. ASSUME NEW g \in MissingIn(n), Turn(g) <= i
        PROVE  g \in planned <=> g \in other
    BY <2>1, <2>4 DEF Upto
  <2>5. \A g \in MissingIn(n) : Turn(g) <= i + 1 => Turn(g) = i + 1 \/ Turn(g) <= i
    BY <1>1
  <2>6. Upto(planned, i + 1) = Upto(other, i + 1)
    BY <2>3, <2>4, <2>5 DEF Upto
  <2> QED
    BY <2>6
<1>4. \A i \in Nat : Upto(planned, i) = Upto(other, i)
  <2>1. Nat \subseteq T
    <3> HIDE DEF T
    <3> QED
      BY <1>2, <1>3, Induction
  <2> QED
    BY <2>1
<1>5. ASSUME NEW g \in MissingIn(n)
      PROVE  g \in planned <=> g \in other
  <2>1. Turn(g) \in Nat /\ Turn(g) <= Turn(g)
    BY <1>1
  <2>2. Upto(planned, Turn(g)) = Upto(other, Turn(g))
    BY <1>4, <2>1
  <2> QED
    BY <2>1, <2>2 DEF Upto
<1> QED
  BY <1>5

LEMMA SeenShape ==
    ASSUME Seen \in Reading
    PROVE  pointer \in [Name -> Nat] /\ hook \in [Global -> Nat \ {0}]
<1>1. pointer \in [Name -> Price \cup {0}] /\ hook \in [Global -> Price]
  BY DEF Seen, Reading
<1>2. Price \cup {0} \subseteq Nat /\ Price \subseteq Nat \ {0}
  BY Room
<1> QED
  BY <1>1, <1>2

LEMMA WithoutShape ==
    ASSUME Seen \in Reading, NEW gone \in SUBSET Native
    PROVE  /\ Without(gone) \in [Name -> Nat]
           /\ \A g \in Global : Without(gone)[g] = pointer[g]
           /\ \A n \in Name : Without(gone)[n] = IF n \in gone THEN 0 ELSE pointer[n]
<1>1. \A g \in Global : g \in Name /\ g \notin gone
  BY Room DEF Name
<1>2. pointer \in [Name -> Nat]
  BY SeenShape
<1> QED
  BY <1>1, <1>2 DEF Without

\* What EvictPays says of a plan is what the plan is made of.
LEMMA FitsMeans ==
    ASSUME Seen \in Reading, NEW gone \in SUBSET Native, NEW planned
    PROVE  Fits(planned, gone) <=> Chosen(Without(gone), Seen, planned)
<1> DEFINE base == Without(gone)
<1>1. /\ base \in [Name -> Nat] /\ \A g \in Global : base[g] = pointer[g] /\ pointer[g] \in Nat
      /\ \A g \in Global : hook[g] \in Nat
  BY SeenShape, WithoutShape DEF Name
<1>2. ASSUME NEW g \in MissingIn(Seen)
      PROVE  (RunningAt(g, planned, gone) + hook[g] <= Ceiling)
             <=> ~WouldNetGrow(Total(LinesAt(base, Seen, planned, Turn(g) - 1)),
                               Seen.hook[g] - Seen.line[g], FALSE)
  <2> DEFINE f == LinesAt(base, Seen, planned, Turn(g) - 1)
             h == [n \in Name |->
                      IF n \in gone \cup {g} THEN 0
                      ELSE IF n \in Global /\ n \in planned \cup StaleIn(Seen) /\ Turn(n) < Turn(g)
                           THEN hook[n] ELSE pointer[n]]
  <2>1. g \in Global /\ g \in Name /\ g \notin gone
    BY Room DEF MissingIn, Name
  <2>2. \A n \in Global : Turn(n) \in Nat
    BY Turns
  <2>3. f \in [Name -> Nat]
    BY <1>1, LinesShape
  <2>4. \A n \in Name \ {g} : f[n] = h[n]
    <3>1. \A n \in Name : pointer[n] \in Nat
      BY SeenShape
    <3>2. \A n \in Global : Turn(n) < Turn(g) <=> Turn(n) <= Turn(g) - 1
      BY <2>1, <2>2
    <3>3. \A n \in Global : n \notin gone
      BY Room
    <3>4. Seen.hook = hook
      BY DEF Seen
    <3> SUFFICES ASSUME NEW n \in Name \ {g}
                 PROVE  f[n] = h[n]
      OBVIOUS
    <3>5. f[n] = IF n \in Global /\ n \in planned \cup StaleIn(Seen) /\ Turn(n) <= Turn(g) - 1
                 THEN hook[n] ELSE base[n]
      BY <3>4 DEF LinesAt
    <3>6. base[n] = IF n \in gone THEN 0 ELSE pointer[n]
      BY DEF Without
    <3>7. h[n] = IF n \in gone THEN 0
                 ELSE IF n \in Global /\ n \in planned \cup StaleIn(Seen) /\ Turn(n) < Turn(g)
                      THEN hook[n] ELSE pointer[n]
      OBVIOUS
    <3> HIDE DEF f, h, base
    <3> QED
      BY <3>2, <3>3, <3>5, <3>6, <3>7
  <2>5. h[g] = 0 /\ f[g] = pointer[g]
    <3>1. ~ (Turn(g) <= Turn(g) - 1)
      BY <2>1, <2>2
    <3> QED
      BY <1>1, <2>1, <3>1 DEF LinesAt
  <2>6. h \in [Name -> Nat]
    <3>1. \A n \in Name : h[n] \in Nat
      <4>1. \A n \in Name \ {g} : h[n] \in Nat
        <5> HIDE DEF f, h
        <5> QED
          BY <2>3, <2>4
      <4> HIDE DEF h
      <4> QED
        BY <2>5, <4>1
    <3>2. h = [n \in Name |-> h[n]]
      OBVIOUS
    <3> HIDE DEF h
    <3> QED
      BY <3>1, <3>2
  <2>7. Total(f) \in Int /\ Total(h) \in Int /\ Total(h) - h[g] = Total(f) - f[g]
    <3>1. f \in [Name -> Int] /\ h \in [Name -> Int]
      BY <2>3, <2>6
    <3> HIDE DEF f, h
    <3> QED
      BY <2>1, <2>4, <3>1, TotalChanges
  <2>8. RunningAt(g, planned, gone) = Total(h)
    BY DEF RunningAt
  <2>9. Seen.hook[g] = hook[g] /\ Seen.line[g] = pointer[g]
    BY DEF Seen
  <2>10. hook[g] \in Nat /\ pointer[g] \in Nat /\ Ceiling \in Nat
    BY <1>1, <2>1, Room
  <2> HIDE DEF f, h
  <2>11. Total(h) + hook[g] <= Ceiling <=> ~ (Total(f) + (hook[g] - pointer[g]) > Ceiling)
    BY <2>5, <2>7, <2>10
  <2>12. WouldNetGrow(Total(f), hook[g] - pointer[g], FALSE)
            <=> Total(f) + (hook[g] - pointer[g]) > Ceiling
    BY Zenon DEF WouldNetGrow
  <2> QED
    <3> HIDE DEF base
    <3>1. f = LinesAt(base, Seen, planned, Turn(g) - 1)
      BY DEF f
    <3> QED
      BY Zenon, <2>8, <2>9, <2>11, <2>12, <3>1
<1> QED
  BY <1>2 DEF Fits, Chosen

-----------------------------------------------------------------------------
(* The jobs of a pull.                                                     *)

Writing(w, m, last) ==
    w = [i \in 0..last |-> IF i = 0 THEN [line |-> Kept(m), put |-> {}]
                           ELSE WriteJob(m, w[i - 1], Order[i])]

\* The recursion of Written is well founded.
LEMMA WritingExists ==
    ASSUME NEW m, NEW N \in Nat
    PROVE  \E w : Writing(w, m, N)
<1> DEFINE Is(w, last) == Writing(w, m, last)
           T == {last \in Nat : \E w : Is(w, last)}
<1>1. 0 \in T
  <2> DEFINE none == [i \in 0..0 |-> [line |-> Kept(m), put |-> {}]]
  <2>1. Is(none, 0)
    BY DEF Writing
  <2> QED
    BY <2>1
<1>2. ASSUME NEW k \in Nat, k \in T
      PROVE  k + 1 \in T
  <2>1. PICK w : Is(w, k)
    BY <1>2
  <2> DEFINE last == WriteJob(m, w[k], Order[k + 1])
             more == [i \in 0..(k + 1) |-> IF i = k + 1 THEN last ELSE w[i]]
             goal(i) == IF i = 0 THEN [line |-> Kept(m), put |-> {}]
                        ELSE WriteJob(m, more[i - 1], Order[i])
  <2>2. ASSUME NEW i \in 0..k
        PROVE  more[i] = goal(i)
    <3>1. w[i] = IF i = 0 THEN [line |-> Kept(m), put |-> {}]
                 ELSE WriteJob(m, w[i - 1], Order[i])
      BY <2>1 DEF Writing
    <3>2. more[i] = w[i] /\ (i # 0 => more[i - 1] = w[i - 1])
      OBVIOUS
    <3> HIDE DEF more
    <3> QED
      BY <3>1, <3>2
  <2>3. more[k + 1] = goal(k + 1)
    <3>1. more[k + 1] = last /\ more[k] = w[k] /\ k + 1 # 0 /\ (k + 1) - 1 = k
      OBVIOUS
    <3> HIDE DEF more
    <3> QED
      BY <3>1
  <2>4. more = [i \in 0..(k + 1) |-> more[i]]
    OBVIOUS
  <2>5. \A i \in 0..(k + 1) : more[i] = goal(i)
    <3>1. \A i \in 0..(k + 1) : i \in 0..k \/ i = k + 1
      OBVIOUS
    <3> HIDE DEF goal
    <3> QED
      BY <2>2, <2>3, <3>1
  <2>6. Is(more, k + 1)
    <3> HIDE DEF more
    <3> QED
      BY <2>4, <2>5 DEF Writing
  <2> HIDE DEF Is
  <2> QED
    BY <2>6
<1>3. N \in T
  <2> HIDE DEF T
  <2> QED
    BY <1>1, <1>2, Induction
<1> QED
  BY <1>3

Writes(w, m) ==
    /\ w[0] = [line |-> Kept(m), put |-> {}]
    /\ \A i \in 1..Len(Order) : w[i] = WriteJob(m, w[i - 1], Order[i])

LEMMA WrittenIs ==
    ASSUME NEW m
    PROVE  \E w : Writes(w, m) /\ Written(m) = w[Len(Order)]
<1> DEFINE w == CHOOSE it : Writing(it, m, Len(Order))
<1>1. Len(Order) \in Nat
  BY Turns
<1>2. Writing(w, m, Len(Order))
  BY <1>1, WritingExists
<1>3. Written(m) = w[Len(Order)]
  BY Zenon DEF Written, Writing
<1> HIDE DEF w
<1>4. \A i \in 0..Len(Order) :
         w[i] = IF i = 0 THEN [line |-> Kept(m), put |-> {}]
                ELSE WriteJob(m, w[i - 1], Order[i])
  BY <1>2 DEF Writing
<1>5. Writes(w, m)
  <2>1. 0 \in 0..Len(Order) /\ \A i \in 1..Len(Order) : i \in 0..Len(Order) /\ i # 0
    BY <1>1
  <2> QED
    BY <1>4, <2>1 DEF Writes
<1> QED
  BY <1>3, <1>5

\* The lines with that of a job.
Lined(m, lines, g) == [lines EXCEPT ![g] = m.seen.hook[g]]

\* Whether a job is done, with the lines as they are by then.
Does(m, lines, g) ==
    \/ g \in m.pull /\ storeFile[g] = "none" /\ IndexAdmits(Lined(m, lines, g))
    \/ g \in StaleIn(m.seen) /\ storeFile[g] = "mirror"

\* What one job of the pull does.
JobDone(m, g, before, after) ==
    /\ after.line \in [Name -> Nat]
    /\ \A n \in Name \ {g} : after.line[n] = before.line[n]
    /\ Does(m, before.line, g) /\ IndexAdmits(Lined(m, before.line, g)) =>
          after.line = Lined(m, before.line, g)
    /\ ~ (Does(m, before.line, g) /\ IndexAdmits(Lined(m, before.line, g))) =>
          after.line = before.line
    /\ Does(m, before.line, g) => after.put = before.put \cup {g}
    /\ ~ Does(m, before.line, g) => after.put = before.put

LEMMA WriteJobDoes ==
    ASSUME NEW m, NEW g \in Global, m.seen.hook[g] \in Nat,
           NEW before, before.line \in [Name -> Nat],
           NEW after, after = WriteJob(m, before, g)
    PROVE  JobDone(m, g, before, after)
<1> DEFINE lines == Lined(m, before.line, g)
<1>1. g \in Name /\ lines \in [Name -> Nat] /\ \A n \in Name \ {g} : lines[n] = before.line[n]
  BY DEF Name, Lined
<1>2. after = IF Does(m, before.line, g)
              THEN [line |-> IF IndexAdmits(lines) THEN lines ELSE before.line,
                    put |-> before.put \cup {g}]
              ELSE before
  BY Zenon DEF WriteJob, Does, Lined
<1> HIDE DEF lines
<1>3. Does(m, before.line, g) =>
         after.line = (IF IndexAdmits(lines) THEN lines ELSE before.line) /\ after.put = before.put \cup {g}
  BY <1>2
<1>4. ~ Does(m, before.line, g) => after = before
  BY <1>2
<1>5. /\ Does(m, before.line, g) /\ IndexAdmits(lines) => after.line = lines
      /\ ~ (Does(m, before.line, g) /\ IndexAdmits(lines)) => after.line = before.line
  BY <1>3, <1>4
<1>6. after.line = lines \/ after.line = before.line
  BY <1>5
<1>7. after.line \in [Name -> Nat] /\ \A n \in Name \ {g} : after.line[n] = before.line[n]
  BY <1>1, <1>6
<1> QED
  BY <1>3, <1>4, <1>5, <1>7 DEF lines, JobDone

\* The jobs up to the i-th: what they leave, and what is as it was or as it will be.
LEMMA WritingRuns ==
    ASSUME NEW m, \A g \in Global : m.seen.hook[g] \in Nat,
           Kept(m) \in [Name -> Nat],
           NEW w, Writes(w, m), NEW last \in 0..Len(Order)
    PROVE  /\ w[last].line \in [Name -> Nat]
           /\ IndexAdmits(Kept(m)) => IndexAdmits(w[last].line)
           /\ w[last].put \subseteq {g \in Jobs(m) \cap Global : Turn(g) <= last}
           /\ \A n \in Name : (n \in Global => Turn(n) > last) => w[last].line[n] = Kept(m)[n]
           /\ \A n \in Name : w[last].line[n] = Kept(m)[n]
                              \/ (n \in Jobs(m) \cap Global /\ w[last].line[n] = m.seen.hook[n])
           /\ \A i \in 0..last, g \in Global : Turn(g) <= i =>
                 w[last].line[g] = w[i].line[g] /\ (g \in w[last].put <=> g \in w[i].put)
<1> DEFINE Sound(k) == w[k].line \in [Name -> Nat] /\ (IndexAdmits(Kept(m)) => IndexAdmits(w[k].line))
           Put(k) == w[k].put \subseteq {g \in Jobs(m) \cap Global : Turn(g) <= k}
           Ahead(k) == \A n \in Name : (n \in Global => Turn(n) > k) => w[k].line[n] = Kept(m)[n]
           Either(k) == \A n \in Name : w[k].line[n] = Kept(m)[n]
                              \/ (n \in Jobs(m) \cap Global /\ w[k].line[n] = m.seen.hook[n])
           Done(k) == \A i \in 0..k, g \in Global : Turn(g) <= i =>
                 w[k].line[g] = w[i].line[g] /\ (g \in w[k].put <=> g \in w[i].put)
           T == {k \in Nat : k <= Len(Order) => Sound(k) /\ Put(k) /\ Ahead(k) /\ Either(k) /\ Done(k)}
<1>0. Len(Order) \in Nat /\ \A g \in Global : Turn(g) \in 1..Len(Order)
  BY Turns
<1>1. 0 \in T
  <2>1. w[0].line = Kept(m) /\ w[0].put = {}
    BY DEF Writes
  <2>2. Sound(0) /\ Put(0) /\ Ahead(0) /\ Either(0)
    BY <2>1
  <2>3. Done(0)
    BY <1>0
  <2> QED
    BY <2>2, <2>3
<1>2. ASSUME NEW k \in Nat, k \in T
      PROVE  k + 1 \in T
  <2> SUFFICES ASSUME k + 1 <= Len(Order)
               PROVE  Sound(k + 1) /\ Put(k + 1) /\ Ahead(k + 1) /\ Either(k + 1) /\ Done(k + 1)
    OBVIOUS
  <2> DEFINE g == Order[k + 1]
             lines == Lined(m, w[k].line, g)
             writes == Does(m, w[k].line, g) /\ IndexAdmits(lines)
  <2>1. /\ k + 1 \in 1..Len(Order) /\ (k + 1) - 1 = k /\ g \in Global /\ g \in Name /\ Turn(g) = k + 1
        /\ \A h \in Global : Turn(h) \in Nat /\ (h # g => Turn(h) # k + 1)
    BY Turns DEF Name
  <2>2. Sound(k) /\ Put(k) /\ Ahead(k) /\ Either(k) /\ Done(k)
    BY <1>2, <1>0
  <2>3. w[k + 1] = WriteJob(m, w[k], g)
    BY <2>1 DEF Writes
  <2>4. m.seen.hook[g] \in Nat
    BY <2>1
  <2>5. /\ w[k + 1].line \in [Name -> Nat]
        /\ \A n \in Name \ {g} : w[k + 1].line[n] = w[k].line[n]
        /\ writes => w[k + 1].line = lines
        /\ ~ writes => w[k + 1].line = w[k].line
        /\ Does(m, w[k].line, g) => w[k + 1].put = w[k].put \cup {g}
        /\ ~ Does(m, w[k].line, g) => w[k + 1].put = w[k].put
    <3>1. w[k].line \in [Name -> Nat]
      BY <2>2
    <3>2. JobDone(m, g, w[k], w[k + 1])
      <4> HIDE DEF g, Sound
      <4> QED
        BY <2>1, <2>3, <2>4, <3>1, WriteJobDoes
    <3> QED
      BY <3>2 DEF JobDone
  <2>6. Does(m, w[k].line, g) => g \in Jobs(m)
    BY DEF Does, Jobs
  <2>7. lines[g] = m.seen.hook[g]
    BY <2>1, <2>2 DEF Lined
  <2>8. writes => IndexAdmits(lines) /\ Does(m, w[k].line, g)
    OBVIOUS
  <2> HIDE DEF g, lines, writes
  <2>9. Sound(k + 1)
    BY <2>2, <2>5, <2>8
  <2>10. Put(k + 1)
    <3>1. \A h \in Global : Turn(h) <= k => Turn(h) <= k + 1
      BY <2>1
    <3>2. k + 1 <= k + 1
      OBVIOUS
    <3> QED
      BY <2>1, <2>2, <2>5, <2>6, <3>1, <3>2
  <2>11. Ahead(k + 1)
    <3> SUFFICES ASSUME NEW n \in Name, n \in Global => Turn(n) > k + 1
                 PROVE  w[k + 1].line[n] = Kept(m)[n]
      OBVIOUS
    <3>1. n # g /\ (n \in Global => Turn(n) > k)
      BY <2>1
    <3> QED
      BY <2>2, <2>5, <3>1
  <2>12. Either(k + 1)
    <3> SUFFICES ASSUME NEW n \in Name
                 PROVE  w[k + 1].line[n] = Kept(m)[n]
                        \/ (n \in Jobs(m) \cap Global /\ w[k + 1].line[n] = m.seen.hook[n])
      OBVIOUS
    <3>1. CASE n # g
      BY <2>2, <2>5, <3>1
    <3>2. CASE n = g /\ writes
      BY <2>1, <2>5, <2>6, <2>7, <2>8, <3>2
    <3>3. CASE n = g /\ ~writes
      BY <2>2, <2>5, <3>3
    <3> QED
      BY <3>1, <3>2, <3>3
  <2>13. Done(k + 1)
    <3> SUFFICES ASSUME NEW i \in 0..(k + 1), NEW h \in Global, Turn(h) <= i
                 PROVE  w[k + 1].line[h] = w[i].line[h] /\ (h \in w[k + 1].put <=> h \in w[i].put)
      OBVIOUS
    <3>1. CASE i = k + 1
      BY <3>1
    <3>2. CASE i # k + 1
      <4>1. i \in 0..k /\ h # g /\ h \in Name
        BY <2>1, <3>2 DEF Name
      <4>2. w[k].line[h] = w[i].line[h] /\ (h \in w[k].put <=> h \in w[i].put)
        BY <2>2, <4>1
      <4>3. w[k + 1].line[h] = w[k].line[h] /\ (h \in w[k + 1].put <=> h \in w[k].put)
        BY <2>5, <4>1
      <4> QED
        BY <4>2, <4>3
    <3> QED
      BY <3>1, <3>2
  <2> QED
    BY <2>9, <2>10, <2>11, <2>12, <2>13
<1>3. last \in T /\ last <= Len(Order)
  <2>1. last \in Nat /\ last <= Len(Order)
    BY <1>0
  <2> HIDE DEF T
  <2> QED
    BY <1>1, <1>2, <2>1, Induction
<1> QED
  BY <1>3

-----------------------------------------------------------------------------
(* What a pull holds is what it planned from one reading.                  *)

GoneOf(m) == IF m.evict = NoEvict THEN {} ELSE {m.evict}
Freed(m) == IF m.evict = NoEvict THEN 0 ELSE m.seen.line[m.evict]

PlannedPull(m) ==
    /\ m.seen \in Reading /\ m.evict \in Native \cup {NoEvict} /\ m.grow \in BOOLEAN
    /\ m.evict # NoEvict => Approved(m.seen, m.evict, m.grow)
    /\ m.pull = PlanPull(m.seen, Total(m.seen.line) - Freed(m), m.grow).pull

EvictInv ==
    /\ EvictTypeOK
    /\ puller = [s \in Puller |-> puller[s]]
    /\ \A s \in Puller : puller[s] = Idle \/ PlannedPull(puller[s])

LEMMA SeenReads ==
    ASSUME EvictTypeOK
    PROVE  Seen \in Reading
BY DEF EvictTypeOK, Seen, Reading

LEMMA KeptShape ==
    ASSUME EvictTypeOK, NEW m, m.evict \in Native \cup {NoEvict}
    PROVE  /\ Kept(m) \in [Name -> Nat]
           /\ Kept(m) = Without(GoneOf(m)) /\ GoneOf(m) \in SUBSET Native
           /\ \A n \in Name : Kept(m)[n] \in Price \cup {0}
<1>1. /\ pointer \in [Name -> Price \cup {0}] /\ pointer \in [Name -> Nat]
      /\ \A n \in Name : pointer[n] \in Nat /\ pointer[n] \in Price \cup {0} /\ 0 <= pointer[n]
  BY SeenReads, SeenShape DEF EvictTypeOK
<1>2. GoneOf(m) \in SUBSET Native
  BY DEF GoneOf
<1>3. Kept(m) = Without(GoneOf(m))
  <2>1. pointer = [n \in Name |-> pointer[n]]
    BY <1>1
  <2>2. CASE m.evict = NoEvict
    BY <2>1, <2>2 DEF Kept, Without, GoneOf
  <2>3. CASE m.evict # NoEvict
    BY <2>1, <2>3 DEF Kept, Without, GoneOf
  <2> QED
    BY <2>2, <2>3
<1>4. /\ Kept(m) \in [Name -> Nat]
      /\ \A n \in Name : Kept(m)[n] = IF n \in GoneOf(m) THEN 0 ELSE pointer[n]
  BY <1>2, <1>3, SeenReads, WithoutShape
<1>5. \A n \in Name : Kept(m)[n] \in Price \cup {0}
  BY <1>1, <1>4
<1> QED
  BY <1>2, <1>3, <1>4, <1>5

LEMMA InitEvictInv == EvictInit => EvictInv
<1> SUFFICES ASSUME EvictInit
             PROVE  EvictInv
  OBVIOUS
<1>1. EvictTypeOK
  <2>1. storeFile \in [Name -> {"none", "own", "revised", "mirror", "edited"}]
    BY DEF EvictInit
  <2>2. delivered \in [Global -> Price \cup {0}]
    BY DEF EvictInit, Name
  <2>3. \A s \in Puller : puller[s].pc = "idle"
    BY DEF EvictInit, Idle
  <2>4. pulls \in 0..MaxPulls /\ touches \in 0..MaxTouches
    BY Room DEF EvictInit
  <2>5. /\ pointer \in [Name -> Price \cup {0}] /\ bodyLinks \subseteq Native \X Native
        /\ hook \in [Global -> Price]
    BY DEF EvictInit
  <2> QED
    BY <2>1, <2>2, <2>3, <2>4, <2>5 DEF EvictTypeOK
<1> QED
  BY <1>1 DEF EvictInit, EvictInv

\* What a pull writes when it does.
Delivers(s) == PinsHold(puller[s]) /\ (puller[s].evict # NoEvict => Evictable(puller[s]))

LEMMA WritePullKeeps ==
    ASSUME EvictInv, NEW s \in Puller, WritePull(s)
    PROVE  /\ storeFile' \in [Name -> {"none", "own", "revised", "mirror", "edited"}]
           /\ pointer' \in [Name -> Price \cup {0}]
           /\ delivered' \in [Global -> Price \cup {0}]
<1> DEFINE m == puller[s]
           result == Written(m)
<1>1. EvictTypeOK /\ PlannedPull(m)
  BY DEF EvictInv, WritePull, Idle
<1>2. CASE ~ Delivers(s)
  <2>1. UNCHANGED <<storeFile, pointer, delivered>>
    BY <1>2 DEF WritePull, Delivers
  <2> QED
    BY <1>1, <2>1 DEF EvictTypeOK
<1>3. CASE Delivers(s)
  <2>1. /\ storeFile' = [n \in Name |-> IF n = m.evict THEN "none"
                                        ELSE IF n \in result.put THEN "mirror" ELSE storeFile[n]]
        /\ pointer' = result.line
        /\ delivered' = [g \in Global |-> IF g \in result.put THEN m.seen.hook[g] ELSE delivered[g]]
    BY <1>3 DEF WritePull, Delivers
  <2>2. /\ Kept(m) \in [Name -> Nat]
        /\ \A n \in Name : Kept(m)[n] \in Price \cup {0}
    BY <1>1, KeptShape DEF PlannedPull
  <2>3. \A g \in Global : m.seen.hook[g] \in Price /\ m.seen.hook[g] \in Nat
    BY <1>1, Room DEF PlannedPull, Reading
  <2>4. PICK w : Writes(w, m) /\ result = w[Len(Order)]
    BY WrittenIs
  <2> HIDE DEF m, result
  <2>5. Len(Order) \in 0..Len(Order)
    BY Turns
  <2>6. /\ result.line \in [Name -> Nat]
        /\ \A n \in Name : result.line[n] = Kept(m)[n]
                           \/ (n \in Jobs(m) \cap Global /\ result.line[n] = m.seen.hook[n])
    BY <2>2, <2>3, <2>4, <2>5, WritingRuns
  <2>7. \A n \in Name : result.line[n] \in Price \cup {0}
    BY <2>2, <2>3, <2>6
  <2>8. result.line \in [Name -> Price \cup {0}]
    BY <2>6, <2>7
  <2>9. delivered \in [Global -> Price \cup {0}] /\ storeFile \in [Name -> {"none", "own", "revised", "mirror", "edited"}]
    BY <1>1 DEF EvictTypeOK
  <2> QED
    BY <2>1, <2>3, <2>6, <2>8, <2>9
<1> QED
  BY <1>2, <1>3

LEMMA PlanBeginKeeps ==
    ASSUME EvictInv, NEW s \in Puller, NEW e \in Native \cup {NoEvict}, NEW grow \in BOOLEAN,
           PlanBegin(s, e, grow)
    PROVE  puller'[s].pc = "planned" /\ PlannedPull(puller'[s])
<1> DEFINE freed == IF e = NoEvict THEN 0 ELSE pointer[e]
           m == [pc |-> "planned", seen |-> Seen, evict |-> e, grow |-> grow,
                 pull |-> PlanPull(Seen, Total(pointer) - freed, grow).pull]
<1>1. puller' = [puller EXCEPT ![s] = m] /\ (e # NoEvict => Approved(Seen, e, grow))
  BY DEF PlanBegin
<1>2. puller'[s] = m
  BY <1>1 DEF EvictInv
<1>3. Seen \in Reading /\ Seen.line = pointer
  BY SeenReads DEF EvictInv, Seen
<1>4. /\ m.pc = "planned" /\ m.seen = Seen /\ m.evict = e /\ m.grow = grow
      /\ m.pull = PlanPull(Seen, Total(pointer) - freed, grow).pull
  OBVIOUS
<1>5. Freed(m) = freed
  BY <1>3, <1>4 DEF Freed
<1> HIDE DEF m, freed
<1> QED
  BY <1>1, <1>2, <1>3, <1>4, <1>5 DEF PlannedPull

LEMMA PullPinKeeps ==
    ASSUME EvictInv, NEW s \in Puller, PullPin(s)
    PROVE  puller'[s].pc = "pinned" /\ PlannedPull(puller'[s])
<1> DEFINE m == puller[s]
           n == [pc |-> "pinned", seen |-> m.seen, evict |-> m.evict, grow |-> m.grow,
                 pull |-> m.pull, at |-> Seen]
<1>1. PlannedPull(m)
  BY DEF EvictInv, PullPin, Idle
<1>2. puller'[s] = n
  BY DEF EvictInv, PullPin
<1>3. /\ n.pc = "pinned" /\ n.seen = m.seen /\ n.evict = m.evict /\ n.grow = m.grow
      /\ n.pull = m.pull
  OBVIOUS
<1> HIDE DEF m, n
<1> QED
  BY <1>1, <1>2, <1>3 DEF PlannedPull, Freed

\* What was planned from what is there now is what has room, with the line of the
\* evicted fact or without.
LEMMA PlannedMeans ==
    ASSUME EvictInv, NEW m, PlannedPull(m), m.seen = Seen, ~m.grow
    PROVE  /\ m.pull \in SUBSET MissingIn(Seen) /\ Chosen(Kept(m), Seen, m.pull)
           /\ Fits(m.pull, GoneOf(m))
           /\ m.evict # NoEvict =>
                 /\ IsOwn(storeFile[m.evict]) /\ InboundLinks(Seen, m.evict) = {}
                 /\ \A planned \in SUBSET MissingIn(Seen) :
                       Fits(planned, {}) => Cardinality(planned) < Cardinality(m.pull)
<1>1. /\ Seen \in Reading /\ Seen.line = pointer /\ m.grow = FALSE
      /\ EvictTypeOK /\ m.evict \in Native \cup {NoEvict}
  BY SeenReads DEF EvictInv, PlannedPull, Seen
<1>2. /\ Kept(m) \in [Name -> Nat]
      /\ Kept(m) = Without(GoneOf(m)) /\ GoneOf(m) \in SUBSET Native
  BY <1>1, KeptShape
<1>3. \A g \in Global : Kept(m)[g] = Seen.line[g]
  BY <1>1, <1>2, WithoutShape
<1>4. Total(Seen.line) - Freed(m) = Total(Kept(m))
  <2>1. pointer \in [Name -> Nat]
    BY <1>1, SeenShape
  <2>2. CASE m.evict = NoEvict
    <3>1. Kept(m) = pointer /\ Freed(m) = 0
      BY <2>2 DEF Kept, Freed
    <3>2. pointer \in [Name -> Int] /\ \A n \in Name : pointer[n] <= pointer[n]
      BY <2>1
    <3>3. Total(pointer) \in Int
      BY <3>2, TotalGrows
    <3> QED
      BY <1>1, <3>1, <3>3
  <2>3. CASE m.evict # NoEvict
    <3>1. m.evict \in Name
      BY <1>1, <2>3 DEF Name
    <3>2. /\ Kept(m)[m.evict] = 0 /\ Freed(m) = pointer[m.evict]
          /\ \A n \in Name \ {m.evict} : pointer[n] = Kept(m)[n]
      BY <1>1, <2>1, <2>3, <3>1 DEF Kept, Freed, Seen
    <3>3. pointer \in [Name -> Int] /\ Kept(m) \in [Name -> Int]
      BY <1>2, <2>1
    <3>4. /\ Total(pointer) \in Int /\ Total(Kept(m)) \in Int
          /\ Total(Kept(m)) - Kept(m)[m.evict] = Total(pointer) - pointer[m.evict]
      BY <3>1, <3>2, <3>3, TotalChanges
    <3> QED
      BY <1>1, <3>2, <3>4
  <2> QED
    BY <2>2, <2>3
<1>5. m.pull = PlanPull(Seen, Total(Kept(m)), FALSE).pull
  BY <1>1, <1>4 DEF PlannedPull
<1>6. m.pull \in SUBSET MissingIn(Seen) /\ Chosen(Kept(m), Seen, m.pull)
  BY <1>1, <1>2, <1>3, <1>5, PlanMeans
<1>7. Fits(m.pull, GoneOf(m))
  BY <1>1, <1>2, <1>6, FitsMeans
<1>8. ASSUME m.evict # NoEvict
      PROVE  /\ IsOwn(storeFile[m.evict]) /\ InboundLinks(Seen, m.evict) = {}
             /\ \A planned \in SUBSET MissingIn(Seen) :
                   Fits(planned, {}) => Cardinality(planned) < Cardinality(m.pull)
  <2> DEFINE plan == PlanPull(Seen, Total(Seen.line), FALSE)
             replan == PlanPull(Seen, Total(Seen.line) - Seen.line[m.evict], FALSE)
  <2>1. /\ IsOwn(Seen.file[m.evict]) /\ InboundLinks(Seen, m.evict) = {}
        /\ Gains(plan, replan)
    BY <1>1, <1>8 DEF PlannedPull, Approved
  <2>2. m.pull = replan.pull
    BY <1>1, <1>8 DEF PlannedPull, Freed
  <2>3. pointer = Without({})
    BY <1>1 DEF Without, EvictTypeOK
  <2>4. plan.pull \in SUBSET MissingIn(Seen) /\ Chosen(Without({}), Seen, plan.pull)
    <3>1. Without({}) \in [Name -> Nat] /\ \A g \in Global : Without({})[g] = Seen.line[g]
      BY <1>1, WithoutShape
    <3>2. plan = PlanPull(Seen, Total(Without({})), FALSE)
      BY <1>1, <2>3
    <3> HIDE DEF plan
    <3> QED
      BY <1>1, <3>1, <3>2, PlanMeans
  <2>5. Cardinality(replan.pull) > Cardinality(plan.pull)
    BY <2>1 DEF Gains
  <2>6. ASSUME NEW planned \in SUBSET MissingIn(Seen), Fits(planned, {})
        PROVE  planned = plan.pull
    <3>1. {} \in SUBSET Native
      OBVIOUS
    <3>2. Chosen(Without({}), Seen, planned)
      BY <1>1, <2>6, <3>1, FitsMeans
    <3> HIDE DEF plan
    <3> QED
      BY <1>1, <2>4, <3>2, Unique
  <2>7. IsFiniteSet(m.pull) /\ IsFiniteSet(plan.pull)
    <3>1. MissingIn(Seen) \subseteq Name /\ IsFiniteSet(Name)
      BY Room DEF MissingIn, Name
    <3>2. \A it \in SUBSET MissingIn(Seen) : IsFiniteSet(it)
      BY <3>1, FS_Subset
    <3> HIDE DEF plan
    <3> QED
      BY <1>6, <2>4, <3>2
  <2>8. Cardinality(plan.pull) < Cardinality(m.pull)
    <3>1. Cardinality(m.pull) \in Nat /\ Cardinality(plan.pull) \in Nat
      BY <2>7, FS_CardinalityType
    <3> HIDE DEF plan, replan
    <3> QED
      BY <2>2, <2>5, <3>1
  <2>9. Seen.file[m.evict] = storeFile[m.evict]
    BY DEF Seen
  <2> HIDE DEF plan, replan
  <2> QED
    BY <2>1, <2>6, <2>8, <2>9
<1> QED
  BY <1>6, <1>7, <1>8

\* A pull that changes anything writes all its jobs.
LEMMA WritesAll ==
    ASSUME EvictInv, NEW s \in Puller, WritePull(s), disk' # disk
    PROVE  /\ Delivers(s)
           /\ \A n \in Native : storeFile[n] # "none" /\ storeFile'[n] = "none"
                                <=> n \in GoneOf(puller[s])
           /\ pointer' = Written(puller[s]).line
           /\ Landed = {g \in Global : storeFile[g] = "none" /\ g \in Written(puller[s]).put}
<1> DEFINE m == puller[s]
           result == Written(m)
<1>1. Delivers(s)
  <2>1. CASE ~ Delivers(s)
    BY <2>1 DEF WritePull, Delivers, disk
  <2> QED
    BY <2>1
<1>2. /\ storeFile' = [n \in Name |-> IF n = m.evict THEN "none"
                                      ELSE IF n \in result.put THEN "mirror" ELSE storeFile[n]]
      /\ pointer' = result.line
  BY <1>1 DEF WritePull, Delivers
<1>3. EvictTypeOK /\ PlannedPull(m)
  BY DEF EvictInv, WritePull, Idle
<1>4. result.put \subseteq Global
  <2>1. Kept(m) \in [Name -> Nat]
    BY <1>3, KeptShape DEF PlannedPull
  <2>2. \A g \in Global : m.seen.hook[g] \in Nat
    BY <1>3, Room DEF PlannedPull, Reading
  <2>3. PICK w : Writes(w, m) /\ result = w[Len(Order)]
    BY WrittenIs
  <2>4. Len(Order) \in 0..Len(Order)
    BY Turns
  <2> HIDE DEF m, result
  <2>5. result.put \subseteq {g \in Jobs(m) \cap Global : Turn(g) <= Len(Order)}
    BY <2>1, <2>2, <2>3, <2>4, WritingRuns
  <2> QED
    BY <2>5
<1>5. m.evict # NoEvict => m.evict \in Native /\ IsOwn(storeFile[m.evict])
  BY <1>1, <1>3 DEF Delivers, Evictable, PlannedPull
<1> HIDE DEF m, result
<1>6. ASSUME NEW n \in Native
      PROVE  storeFile[n] # "none" /\ storeFile'[n] = "none" <=> n \in GoneOf(m)
  <2>1. n \in Name /\ n \notin result.put /\ n # NoEvict
    BY <1>4, Room DEF Name
  <2>2. storeFile'[n] = IF n = m.evict THEN "none" ELSE storeFile[n]
    BY <1>2, <2>1
  <2> QED
    BY <1>5, <2>1, <2>2 DEF GoneOf, IsOwn
<1>7. ASSUME NEW g \in Global
      PROVE  storeFile[g] = "none" /\ storeFile'[g] = "mirror"
             <=> storeFile[g] = "none" /\ g \in result.put
  <2>1. g \in Name /\ g # m.evict
    BY <1>3, <1>5, Room DEF Name, PlannedPull
  <2>2. storeFile'[g] = IF g \in result.put THEN "mirror" ELSE storeFile[g]
    BY <1>2, <2>1
  <2> QED
    BY <2>2
<1> QED
  BY <1>1, <1>2, <1>6, <1>7 DEF Landed, m, result

\* The turn of one job of a pull that was planned from what is there now.
LEMMA AtItsTurn ==
    ASSUME EvictInv, NEW m, PlannedPull(m), m.seen = Seen, ~m.grow,
           NEW w, Writes(w, m), NEW g \in Global, NEW before, before = w[Turn(g) - 1].line
    PROVE  /\ before \in [Name -> Nat] /\ before[g] = Kept(m)[g]
           /\ IndexAdmits(Kept(m)) => IndexAdmits(before)
           /\ JobDone(m, g, w[Turn(g) - 1], w[Turn(g)])
           /\ g \in w[Turn(g)].put <=> Does(m, before, g)
           /\ \A n \in Name : (n \in Global => Turn(n) >= Turn(g)) => before[n] = Kept(m)[n]
           /\ \A n \in Global : Turn(n) < Turn(g) => before[n] = w[Len(Order)].line[n]
           /\ \A n \in Name : before[n] = Kept(m)[n]
                              \/ (n \in Jobs(m) \cap Global /\ before[n] = m.seen.hook[n])
<1> DEFINE i == Turn(g)
           N == Len(Order)
<1>1. /\ N \in Nat /\ i \in 1..N /\ i - 1 \in 0..N /\ N \in 0..N /\ Order[i] = g /\ g \in Name
      /\ \A n \in Global : Turn(n) \in 1..N
  BY Turns DEF Name
<1>2. Kept(m) \in [Name -> Nat]
  BY KeptShape DEF EvictInv, PlannedPull
<1>3. \A k \in Global : m.seen.hook[k] \in Nat
  BY Room DEF PlannedPull, Reading
<1>4. /\ before \in [Name -> Nat] /\ (IndexAdmits(Kept(m)) => IndexAdmits(before))
      /\ w[i - 1].put \subseteq {k \in Jobs(m) \cap Global : Turn(k) <= i - 1}
      /\ \A n \in Name : (n \in Global => Turn(n) > i - 1) => before[n] = Kept(m)[n]
      /\ \A n \in Name : before[n] = Kept(m)[n]
                         \/ (n \in Jobs(m) \cap Global /\ before[n] = m.seen.hook[n])
  BY <1>1, <1>2, <1>3, WritingRuns
<1>5. \A k \in 0..N, h \in Global : Turn(h) <= k => w[N].line[h] = w[k].line[h]
  <2>1. \A k \in 0..N, h \in Global : Turn(h) <= k =>
           w[N].line[h] = w[k].line[h] /\ (h \in w[N].put <=> h \in w[k].put)
    BY <1>1, <1>2, <1>3, WritingRuns
  <2> QED
    BY <2>1
<1>6. JobDone(m, g, w[i - 1], w[i])
  <2>1. w[i] = WriteJob(m, w[i - 1], g)
    BY <1>1 DEF Writes
  <2> HIDE DEF i
  <2> QED
    BY <1>1, <1>3, <1>4, <2>1, WriteJobDoes DEF i
<1>7. g \in w[i].put <=> Does(m, before, g)
  <2>1. g \notin w[i - 1].put
    BY <1>1, <1>4
  <2> QED
    BY <1>6, <2>1 DEF JobDone
<1>8. \A n \in Name : (n \in Global => Turn(n) >= i) => before[n] = Kept(m)[n]
  <2>1. \A n \in Global : Turn(n) >= i => Turn(n) > i - 1
    BY <1>1
  <2> QED
    BY <1>4, <2>1
<1>9. \A n \in Global : Turn(n) < i => before[n] = w[N].line[n]
  <2>1. \A n \in Global : Turn(n) < i => Turn(n) <= i - 1
    BY <1>1
  <2> QED
    BY <1>1, <1>5, <2>1
<1>10. before[g] = Kept(m)[g]
  BY <1>1, <1>8
<1> QED
  BY <1>4, <1>6, <1>7, <1>8, <1>9, <1>10

LEMMA JobLands ==
    ASSUME EvictInv, NEW m, PlannedPull(m), m.seen = Seen, ~m.grow,
           NEW w, Writes(w, m), pointer' = w[Len(Order)].line, NEW g \in Global
    PROVE  /\ IndexWith(g, GoneOf(m)) = Lined(m, w[Turn(g) - 1].line, g)
           /\ storeFile[g] = "none" /\ g \in w[Len(Order)].put
              <=> g \in m.pull /\ IndexAdmits(IndexWith(g, GoneOf(m)))
<1> DEFINE before == w[Turn(g) - 1].line
<1>1. /\ before \in [Name -> Nat] /\ (g \in w[Turn(g)].put <=> Does(m, before, g))
      /\ \A n \in Name : (n \in Global => Turn(n) >= Turn(g)) => before[n] = Kept(m)[n]
      /\ \A n \in Global : Turn(n) < Turn(g) => before[n] = pointer'[n]
  BY AtItsTurn
<1>2. /\ g \in Name /\ GoneOf(m) \in SUBSET Native
      /\ \A n \in Name : Kept(m)[n] = IF n \in GoneOf(m) THEN 0 ELSE pointer[n]
      /\ \A n \in Global : n \notin GoneOf(m)
  <2>1. GoneOf(m) \in SUBSET Native /\ Kept(m) = Without(GoneOf(m)) /\ Seen \in Reading
    BY KeptShape, SeenReads DEF EvictInv, PlannedPull
  <2> QED
    BY <2>1, WithoutShape, Room DEF Name
<1>3. hook[g] = m.seen.hook[g]
  BY DEF Seen
<1>4. \A n \in Global : Turn(n) \in Nat
  BY Turns
<1> HIDE DEF before
<1>5. ASSUME NEW n \in Name
      PROVE  Lined(m, before, g)[n] =
               IF n \in GoneOf(m) THEN 0
               ELSE IF n = g THEN hook[g]
               ELSE IF n \in Global /\ Turn(n) < Turn(g) THEN pointer'[n]
               ELSE pointer[n]
  <2>1. Lined(m, before, g)[n] = IF n = g THEN hook[g] ELSE before[n]
    BY <1>1, <1>3 DEF Lined
  <2>2. CASE n = g
    BY <1>2, <2>1, <2>2
  <2>3. CASE n # g /\ n \in Global /\ Turn(n) < Turn(g)
    BY <1>1, <1>2, <2>1, <2>3
  <2>4. CASE n # g /\ ~ (n \in Global /\ Turn(n) < Turn(g))
    <3>1. n \in Global => Turn(n) >= Turn(g)
      BY <1>4, <2>4
    <3> QED
      BY <1>1, <1>2, <2>1, <2>4, <3>1
  <2> QED
    BY <2>2, <2>3, <2>4
<1>6. IndexWith(g, GoneOf(m)) = Lined(m, before, g)
  <2>1. Lined(m, before, g) = [n \in Name |-> Lined(m, before, g)[n]]
    BY <1>1 DEF Lined
  <2> QED
    BY <1>5, <2>1 DEF IndexWith
<1>7. g \in w[Len(Order)].put <=> g \in w[Turn(g)].put
  <2>1. Kept(m) \in [Name -> Nat]
    BY KeptShape DEF EvictInv, PlannedPull
  <2>2. \A k \in Global : m.seen.hook[k] \in Nat
    BY Room DEF PlannedPull, Reading
  <2>3. Len(Order) \in 0..Len(Order) /\ Turn(g) \in 0..Len(Order) /\ Turn(g) <= Turn(g)
    BY Turns
  <2> QED
    BY <2>1, <2>2, <2>3, WritingRuns
<1>8. g \in m.pull => storeFile[g] = "none"
  BY PlannedMeans DEF MissingIn, Seen
<1> QED
  BY <1>1, <1>6, <1>7, <1>8 DEF Does, before

\* A line stays as its job has left it.
LEMMA LineStays ==
    ASSUME EvictInv, NEW m, PlannedPull(m), NEW w, Writes(w, m),
           NEW last \in 0..Len(Order), NEW g \in Global, Turn(g) <= last
    PROVE  w[last].line[g] = w[Turn(g)].line[g]
<1>1. Kept(m) \in [Name -> Nat]
  BY KeptShape DEF EvictInv, PlannedPull
<1>2. \A k \in Global : m.seen.hook[k] \in Nat
  BY Room DEF PlannedPull, Reading
<1>3. Turn(g) \in 0..last /\ Turn(g) <= Turn(g)
  BY Turns
<1> QED
  BY <1>1, <1>2, <1>3, WritingRuns

\* An eviction was only let through with room for every job in the index; unless the index
\* without the fact is still beyond its limits, that is room for each at its turn.
LEMMA EvictedForAll ==
    ASSUME EvictInv, NEW m, PlannedPull(m), m.seen = Seen, ~m.grow, m.evict # NoEvict, Evictable(m),
           IndexAdmits(Kept(m)), NEW w, Writes(w, m), NEW g \in m.pull
    PROVE  IndexAdmits(Lined(m, w[Turn(g) - 1].line, g))
<1> DEFINE before == w[Turn(g) - 1].line
           with == Lined(m, before, g)
           room == LinesAt(Kept(m), Seen, m.pull, Turn(g) - 1)
<1>1. /\ m.pull \in SUBSET MissingIn(Seen) /\ Chosen(Kept(m), Seen, m.pull)
      /\ g \in Global /\ g \in Name
  BY PlannedMeans DEF MissingIn, Name
<1>2. /\ Seen \in Reading /\ Seen.line = pointer /\ Seen.hook = hook
      /\ Kept(m) \in [Name -> Nat] /\ Kept(m) = Without(GoneOf(m)) /\ GoneOf(m) = {m.evict}
      /\ GoneOf(m) \in SUBSET Native
      /\ \A n \in Name : Kept(m)[n] = IF n = m.evict THEN 0 ELSE pointer[n]
  <2>1. Seen \in Reading /\ Kept(m) \in [Name -> Nat] /\ Kept(m) = Without(GoneOf(m)) /\ GoneOf(m) \in SUBSET Native
    BY KeptShape, SeenReads DEF EvictInv, PlannedPull
  <2>2. GoneOf(m) = {m.evict}
    BY DEF GoneOf
  <2> QED
    BY <2>1, <2>2, WithoutShape DEF Seen
<1>3. \A n \in Global : Turn(n) \in Nat /\ hook[n] \in Nat \ {0} /\ n \in Name
  BY <1>2, Turns, SeenShape DEF Name
<1>4. /\ before \in [Name -> Nat]
      /\ \A n \in Name : (n \in Global => Turn(n) >= Turn(g)) => before[n] = Kept(m)[n]
      /\ \A n \in Name : before[n] = Kept(m)[n]
                         \/ (n \in Jobs(m) \cap Global /\ before[n] = hook[n])
  <2>1. /\ before \in [Name -> Nat]
        /\ \A n \in Name : (n \in Global => Turn(n) >= Turn(g)) => before[n] = Kept(m)[n]
        /\ \A n \in Name : before[n] = Kept(m)[n]
                           \/ (n \in Jobs(m) \cap Global /\ before[n] = m.seen.hook[n])
    BY <1>1, AtItsTurn
  <2>2. m.seen.hook = hook
    BY <1>2
  <2> HIDE DEF before
  <2> QED
    BY <2>1, <2>2
<1>5. with \in [Name -> Nat] /\ \A n \in Name : with[n] = IF n = g THEN hook[g] ELSE before[n]
  BY <1>1, <1>2, <1>3, <1>4 DEF Lined
\* A line that was refused is longer than the one it would have replaced.
<1>6. ASSUME NEW n \in Global, n \in Jobs(m), before[n] # hook[n], Turn(n) < Turn(g)
      PROVE  before[n] <= hook[n]
  <2> DEFINE old == w[Turn(n) - 1].line
  <2>1. /\ old \in [Name -> Nat] /\ IndexAdmits(old) /\ old[n] = Kept(m)[n]
        /\ JobDone(m, n, w[Turn(n) - 1], w[Turn(n)])
    BY AtItsTurn
  <2>2. w[Turn(n)].line[n] = before[n]
    <3>1. Turn(n) <= Turn(g) - 1 /\ Turn(g) - 1 \in 0..Len(Order)
      BY <1>1, <1>6, Turns
    <3> QED
      BY <3>1, LineStays
  <2>3. Lined(m, old, n) \in [Name -> Nat] /\ \A k \in Name : Lined(m, old, n)[k] = IF k = n THEN hook[n] ELSE old[k]
    BY <1>2, <1>3, <2>1 DEF Lined
  <2>4. ~ (Does(m, old, n) /\ IndexAdmits(Lined(m, old, n)))
    BY <1>3, <1>6, <2>1, <2>2, <2>3 DEF JobDone
  <2>5. ~ IndexAdmits(Lined(m, old, n))
    <3>1. n \in m.pull => storeFile[n] = "none"
      BY <1>1 DEF MissingIn, Seen
    <3>2. n \in StaleIn(m.seen) => storeFile[n] = "mirror"
      BY DEF StaleIn, Seen
    <3> QED
      BY <1>6, <2>4, <3>1, <3>2 DEF Does, Jobs
  <2>6. before[n] = old[n]
    BY <1>3, <1>6, <2>1, <2>2, <2>4 DEF JobDone
  <2>7. CASE hook[n] <= old[n]
    <3>1. \A k \in Name : Lined(m, old, n)[k] <= old[k]
      BY <2>1, <2>3, <2>7
    <3> HIDE DEF old
    <3> QED
      BY <2>1, <2>3, <2>5, <3>1, AdmitsLess
  <2> HIDE DEF old, before
  <2> QED
    BY <1>3, <2>1, <2>6, <2>7
<1>7. room \in [Name -> Nat] /\ room[g] = Kept(m)[g]
  <2>1. ~ (Turn(g) <= Turn(g) - 1)
    BY <1>1, <1>3
  <2> QED
    BY <1>1, <1>2, <2>1, LinesShape DEF LinesAt
<1>8. ASSUME NEW n \in Name \ {g}
      PROVE  before[n] <= room[n]
  <2>1. room[n] = IF n \in Global /\ n \in Jobs(m) /\ Turn(n) <= Turn(g) - 1 THEN hook[n] ELSE Kept(m)[n]
    BY <1>2 DEF LinesAt, Jobs
  <2>2. CASE n \in Global /\ n \in Jobs(m) /\ Turn(n) <= Turn(g) - 1
    <3>1. Turn(n) < Turn(g) /\ room[n] = hook[n] /\ hook[n] \in Nat
      BY <1>1, <1>3, <2>1, <2>2
    <3> HIDE DEF room, before
    <3> QED
      BY <1>6, <2>2, <3>1
  <2>3. CASE ~ (n \in Global /\ n \in Jobs(m) /\ Turn(n) <= Turn(g) - 1)
    <3>1. n \in Global /\ n \in Jobs(m) => Turn(n) >= Turn(g)
      BY <1>1, <1>3, <2>3
    <3>2. before[n] = Kept(m)[n]
      BY <1>4, <3>1
    <3>3. room[n] = Kept(m)[n] /\ Kept(m)[n] \in Nat
      BY <1>2, <2>1, <2>3
    <3> HIDE DEF room, before
    <3> QED
      BY <3>2, <3>3
  <2> QED
    BY <2>2, <2>3
\* The sum.
<1> DEFINE full == [room EXCEPT ![g] = hook[g]]
<1>9. full \in [Name -> Nat] /\ full[g] = hook[g] /\ \A n \in Name \ {g} : full[n] = room[n]
  BY <1>1, <1>3, <1>7
<1>10. Total(full) <= Ceiling /\ Total(full) \in Int
  <2>1. ~WouldNetGrow(Total(room), hook[g] - pointer[g], FALSE)
    BY <1>1, <1>2 DEF Chosen
  <2>2. Total(room) + (hook[g] - pointer[g]) > Ceiling
        <=> WouldNetGrow(Total(room), hook[g] - pointer[g], FALSE)
    BY Zenon DEF WouldNetGrow
  <2>3. pointer[g] = Kept(m)[g] /\ Kept(m)[g] \in Nat /\ hook[g] \in Nat
    <3>1. g # m.evict
      BY <1>1, Room DEF PlannedPull
    <3> QED
      BY <1>1, <1>2, <1>3, <3>1
  <2>4. Total(room) \in Int /\ Total(full) \in Int /\ Total(full) - full[g] = Total(room) - room[g]
    <3>1. room \in [Name -> Int] /\ full \in [Name -> Int] /\ \A n \in Name \ {g} : room[n] = full[n]
      BY <1>7, <1>9
    <3> HIDE DEF room, full
    <3> QED
      BY <1>1, <3>1, TotalChanges
  <2> HIDE DEF room, full
  <2>5. ~ (Total(room) + (hook[g] - pointer[g]) > Ceiling)
    BY Zenon, <2>1, <2>2
  <2>6. room[g] = pointer[g] /\ full[g] = hook[g] /\ Ceiling \in Int
    BY <1>7, <1>9, <2>3, Room
  <2> QED
    BY <2>3, <2>4, <2>5, <2>6
<1>11. \A n \in Name : with[n] <= full[n]
  <2>1. with[g] <= full[g]
    BY <1>1, <1>3, <1>5, <1>9
  <2> HIDE DEF with, full, room, before
  <2>2. \A n \in Name \ {g} : with[n] <= full[n]
    BY <1>5, <1>8, <1>9
  <2> QED
    BY <2>1, <2>2
<1>12. Total(with) <= Cliff
  <2>1. with \in [Name -> Int] /\ full \in [Name -> Int]
    BY <1>5, <1>9
  <2> HIDE DEF with, full
  <2>2. Total(with) <= Total(full) /\ Total(with) \in Int
    BY <1>11, <2>1, TotalGrows
  <2> QED
    BY <1>10, <2>2, Room
\* The lines.
<1> DEFINE all == [n \in Name |-> IF n = m.evict THEN 0
                                  ELSE IF n \in Jobs(m) THEN m.seen.hook[n] ELSE pointer[n]]
<1>13. Cardinality({n \in Name : all[n] > 0}) <= MaxLines
  BY DEF Evictable, IndexAdmits
<1>14. {n \in Name : with[n] > 0} \subseteq {n \in Name : all[n] > 0}
  <2> SUFFICES ASSUME NEW n \in Name, with[n] > 0
               PROVE  all[n] > 0
    OBVIOUS
  <2>1. all[n] = IF n = m.evict THEN 0 ELSE IF n \in Jobs(m) THEN hook[n] ELSE pointer[n]
    BY <1>2
  <2>2. Jobs(m) \subseteq Global /\ g \in Jobs(m) /\ m.evict \notin Global
    BY <1>1, Room DEF Jobs, MissingIn, StaleIn, PlannedPull
  <2> HIDE DEF with, all, before
  <2>3. CASE n = m.evict
    <3>1. with[n] = Kept(m)[n] /\ Kept(m)[n] = 0
      BY <1>1, <1>2, <1>4, <1>5, <2>2, <2>3
    <3> QED
      BY <3>1
  <2>4. CASE n # m.evict /\ n \in Jobs(m)
    BY <1>3, <2>1, <2>2, <2>4
  <2>5. CASE n # m.evict /\ n \notin Jobs(m)
    <3>1. n # g /\ before[n] = Kept(m)[n]
      BY <1>4, <2>2, <2>5
    <3> QED
      BY <1>2, <1>5, <2>1, <2>5, <3>1
  <2> QED
    BY <2>3, <2>4, <2>5
<1>15. Cardinality({n \in Name : with[n] > 0}) <= MaxLines
  <2> HIDE DEF with, all
  <2>1. IsFiniteSet({n \in Name : all[n] > 0})
    BY FS_Subset, Room
  <2>2. /\ Cardinality({n \in Name : with[n] > 0}) <= Cardinality({n \in Name : all[n] > 0})
        /\ Cardinality({n \in Name : with[n] > 0}) \in Nat /\ Cardinality({n \in Name : all[n] > 0}) \in Nat
    BY <1>14, <2>1, FS_Subset, FS_CardinalityType
  <2> QED
    BY <1>13, <2>2, Room
<1> QED
  BY <1>12, <1>15 DEF IndexAdmits

LEMMA MeanwhileKeeps ==
    ASSUME EvictInv, Meanwhile
    PROVE  EvictTypeOK' /\ UNCHANGED puller
<1>1. EvictTypeOK
  BY DEF EvictInv
<1>2. ASSUME NEW n \in Name, Revise(n)
      PROVE  EvictTypeOK' /\ UNCHANGED puller
  <2>1. storeFile' \in [Name -> {"none", "own", "revised", "mirror", "edited"}] /\ touches' \in 0..MaxTouches
    BY <1>1, <1>2, Room DEF Revise, Touch, EvictTypeOK
  <2> QED
    BY <1>1, <1>2, <2>1 DEF Revise, EvictTypeOK
<1>3. ASSUME NEW n \in Name, NEW cost \in Price \cup {0}, WriteOwnFact(n, cost)
      PROVE  EvictTypeOK' /\ UNCHANGED puller
  <2>1. /\ storeFile' \in [Name -> {"none", "own", "revised", "mirror", "edited"}]
        /\ touches' \in 0..MaxTouches /\ pointer' \in [Name -> Price \cup {0}]
    BY <1>1, <1>3, Room DEF WriteOwnFact, Touch, EvictTypeOK
  <2> QED
    BY <1>1, <1>3, <2>1 DEF WriteOwnFact, EvictTypeOK
<1>4. ASSUME NEW a \in Native, NEW b \in Native, Link(a, b)
      PROVE  EvictTypeOK' /\ UNCHANGED puller
  <2>1. bodyLinks' \subseteq Native \X Native /\ touches' \in 0..MaxTouches
    BY <1>1, <1>4, Room DEF Link, Touch, EvictTypeOK
  <2> QED
    BY <1>1, <1>4, <2>1 DEF Link, EvictTypeOK
<1>5. ASSUME NEW g \in Global, NEW cost \in Price, Describe(g, cost)
      PROVE  EvictTypeOK' /\ UNCHANGED puller
  <2>1. hook' \in [Global -> Price] /\ touches' \in 0..MaxTouches
    BY <1>1, <1>5, Room DEF Describe, Touch, EvictTypeOK
  <2> QED
    BY <1>1, <1>5, <2>1 DEF Describe, EvictTypeOK
<1> QED
  BY <1>2, <1>3, <1>4, <1>5 DEF Meanwhile

\* What a puller does to what the pulls hold.
LEMMA PullerKeeps ==
    ASSUME EvictInv, NEW s \in Puller, NEW held, puller' = [puller EXCEPT ![s] = held],
           held = Idle \/ (PlannedPull(held) /\ held.pc \in {"planned", "pinned"})
    PROVE  /\ puller' = [t \in Puller |-> puller'[t]]
           /\ \A t \in Puller : puller'[t] = Idle \/ PlannedPull(puller'[t])
           /\ \A t \in Puller : puller'[t].pc \in {"idle", "planned", "pinned"}
<1>1. /\ puller = [t \in Puller |-> puller[t]]
      /\ \A t \in Puller : puller[t] = Idle \/ PlannedPull(puller[t])
      /\ \A t \in Puller : puller[t].pc \in {"idle", "planned", "pinned"}
  BY DEF EvictInv, EvictTypeOK
<1>2. \A t \in Puller : puller'[t] = IF t = s THEN held ELSE puller[t]
  BY <1>1
<1>3. puller' = [t \in Puller |-> puller'[t]]
  BY <1>1
<1>4. held.pc \in {"idle", "planned", "pinned"}
  BY DEF Idle
<1> QED
  BY <1>1, <1>2, <1>3, <1>4

LEMMA EvictInvStep ==
    ASSUME EvictInv, EvictNext
    PROVE  EvictInv'
<1>0. EvictTypeOK
  BY DEF EvictInv
<1>1. ASSUME NEW s \in Puller, NEW e \in Native \cup {NoEvict}, NEW grow \in BOOLEAN, PlanBegin(s, e, grow)
      PROVE  EvictInv'
  <2>1. puller'[s].pc = "planned" /\ PlannedPull(puller'[s])
    BY <1>1, PlanBeginKeeps
  <2>2. PICK held : puller' = [puller EXCEPT ![s] = held]
    BY <1>1 DEF PlanBegin
  <2>3. puller'[s] = held
    BY <2>2 DEF EvictInv
  <2>4. /\ puller' = [t \in Puller |-> puller'[t]]
        /\ \A t \in Puller : puller'[t] = Idle \/ PlannedPull(puller'[t])
        /\ \A t \in Puller : puller'[t].pc \in {"idle", "planned", "pinned"}
    BY <2>1, <2>2, <2>3, PullerKeeps
  <2>5. UNCHANGED <<storeFile, pointer, bodyLinks, hook, delivered, touches>> /\ pulls' \in 0..MaxPulls
    BY <1>0, <1>1, Room DEF PlanBegin, disk, EvictTypeOK
  <2>6. EvictTypeOK'
    BY <1>0, <2>4, <2>5 DEF EvictTypeOK
  <2> QED
    BY <2>4, <2>6 DEF EvictInv, PlannedPull
<1>2. ASSUME NEW s \in Puller, PullPin(s)
      PROVE  EvictInv'
  <2>1. puller'[s].pc = "pinned" /\ PlannedPull(puller'[s])
    BY <1>2, PullPinKeeps
  <2>2. PICK held : puller' = [puller EXCEPT ![s] = held]
    BY <1>2 DEF PullPin
  <2>3. puller'[s] = held
    BY <2>2 DEF EvictInv
  <2>4. /\ puller' = [t \in Puller |-> puller'[t]]
        /\ \A t \in Puller : puller'[t] = Idle \/ PlannedPull(puller'[t])
        /\ \A t \in Puller : puller'[t].pc \in {"idle", "planned", "pinned"}
    BY <2>1, <2>2, <2>3, PullerKeeps
  <2>5. UNCHANGED <<storeFile, pointer, bodyLinks, hook, delivered, touches, pulls>>
    BY <1>2 DEF PullPin, disk
  <2>6. EvictTypeOK'
    BY <1>0, <2>4, <2>5 DEF EvictTypeOK
  <2> QED
    BY <2>4, <2>6 DEF EvictInv, PlannedPull
<1>3. ASSUME NEW s \in Puller, WritePull(s)
      PROVE  EvictInv'
  <2>1. puller' = [puller EXCEPT ![s] = Idle] /\ UNCHANGED <<bodyLinks, hook, pulls, touches>>
    BY <1>3 DEF WritePull
  <2>2. /\ puller' = [t \in Puller |-> puller'[t]]
        /\ \A t \in Puller : puller'[t] = Idle \/ PlannedPull(puller'[t])
        /\ \A t \in Puller : puller'[t].pc \in {"idle", "planned", "pinned"}
    BY <2>1, PullerKeeps
  <2>3. /\ storeFile' \in [Name -> {"none", "own", "revised", "mirror", "edited"}]
        /\ pointer' \in [Name -> Price \cup {0}]
        /\ delivered' \in [Global -> Price \cup {0}]
    BY <1>3, WritePullKeeps
  <2>4. EvictTypeOK'
    BY <1>0, <2>1, <2>2, <2>3 DEF EvictTypeOK
  <2> QED
    BY <2>2, <2>4 DEF EvictInv, PlannedPull
<1>4. ASSUME NEW s \in Puller, PullCrash(s)
      PROVE  EvictInv'
  <2>1. puller' = [puller EXCEPT ![s] = Idle]
        /\ UNCHANGED <<storeFile, pointer, bodyLinks, hook, delivered, pulls, touches>>
    BY <1>4 DEF PullCrash, disk
  <2>2. /\ puller' = [t \in Puller |-> puller'[t]]
        /\ \A t \in Puller : puller'[t] = Idle \/ PlannedPull(puller'[t])
        /\ \A t \in Puller : puller'[t].pc \in {"idle", "planned", "pinned"}
    BY <2>1, PullerKeeps
  <2>3. EvictTypeOK'
    BY <1>0, <2>1, <2>2 DEF EvictTypeOK
  <2> QED
    BY <2>2, <2>3 DEF EvictInv, PlannedPull
<1>5. ASSUME Meanwhile
      PROVE  EvictInv'
  <2>1. EvictTypeOK' /\ UNCHANGED puller
    BY <1>5, MeanwhileKeeps
  <2> QED
    BY <2>1 DEF EvictInv, PlannedPull
<1> QED
  BY <1>1, <1>2, <1>3, <1>4, <1>5 DEF EvictNext

LEMMA OnlyAWriteCommits ==
    ASSUME EvictInv, EvictNext, NEW s \in Puller, CommitsUndisturbed(s)
    PROVE  WritePull(s)
<1>1. puller[s].pc = "pinned" /\ puller'[s] = Idle /\ disk' # disk /\ puller'[s] # puller[s]
  BY DEF CommitsUndisturbed, Idle
<1>2. \A t \in Puller, e \in Native \cup {NoEvict}, grow \in BOOLEAN : ~ PlanBegin(t, e, grow)
  BY <1>1 DEF PlanBegin
<1>3. \A t \in Puller : ~ PullPin(t) /\ ~ PullCrash(t)
  BY <1>1 DEF PullPin, PullCrash
<1>4. ~ Meanwhile
  BY <1>1, MeanwhileKeeps
<1>5. PICK t \in Puller : WritePull(t)
  BY <1>2, <1>3, <1>4 DEF EvictNext
<1>6. t = s
  BY <1>1, <1>5 DEF WritePull
<1> QED
  BY <1>5, <1>6

\* What a pull that gives up gone has to show for it.
Pays(gone) ==
    /\ \E planned \in SUBSET MissingIn(Seen) :
          Fits(planned, gone) /\ Landed = {g \in planned : IndexAdmits(IndexWith(g, gone))}
    /\ gone # {} =>
         /\ IndexAdmits(Without(gone)) =>
              \A planned \in SUBSET MissingIn(Seen) :
                 Fits(planned, {}) => Cardinality(planned) < Cardinality(Landed)
         /\ \A e \in gone : IsOwn(storeFile[e]) /\ InboundLinks(Seen, e) = {}

LEMMA UndisturbedPays ==
    ASSUME EvictInv, NEW s \in Puller, WritePull(s), CommitsUndisturbed(s),
           NEW gone, gone = {n \in Native : storeFile[n] # "none" /\ storeFile'[n] = "none"}
    PROVE  Pays(gone)
<1> DEFINE m == puller[s]
<1>1. PlannedPull(m) /\ m.seen = Seen /\ ~m.grow
  BY DEF CommitsUndisturbed, EvictInv, Idle
<1>2. disk' # disk
  BY DEF CommitsUndisturbed
<1>3. /\ Delivers(s) /\ pointer' = Written(m).line
      /\ Landed = {g \in Global : storeFile[g] = "none" /\ g \in Written(m).put}
      /\ \A n \in Native : storeFile[n] # "none" /\ storeFile'[n] = "none" <=> n \in GoneOf(m)
  BY <1>2, WritesAll
<1>4. gone = GoneOf(m)
  <2>1. GoneOf(m) \subseteq Native
    BY <1>1 DEF PlannedPull, GoneOf
  <2> QED
    BY <1>3, <2>1
<1>5. m.evict # NoEvict => Evictable(m)
  BY <1>3 DEF Delivers
<1>6. PICK w : Writes(w, m) /\ Written(m) = w[Len(Order)]
  BY WrittenIs
<1> HIDE DEF m
<1>7. /\ m.pull \in SUBSET MissingIn(Seen) /\ Fits(m.pull, GoneOf(m))
      /\ m.evict # NoEvict =>
            /\ IsOwn(storeFile[m.evict]) /\ InboundLinks(Seen, m.evict) = {}
            /\ \A planned \in SUBSET MissingIn(Seen) :
                  Fits(planned, {}) => Cardinality(planned) < Cardinality(m.pull)
  BY <1>1, PlannedMeans
<1>8. \A g \in Global : /\ IndexWith(g, GoneOf(m)) = Lined(m, w[Turn(g) - 1].line, g)
                        /\ storeFile[g] = "none" /\ g \in w[Len(Order)].put
                           <=> g \in m.pull /\ IndexAdmits(IndexWith(g, GoneOf(m)))
  BY <1>1, <1>3, <1>6, JobLands
<1>9. \A g \in m.pull : g \in Global
  BY <1>7 DEF MissingIn
<1>10. Landed = {g \in m.pull : IndexAdmits(IndexWith(g, GoneOf(m)))}
  BY <1>3, <1>6, <1>8, <1>9
<1>11. m.evict # NoEvict /\ IndexAdmits(Without(GoneOf(m))) => Landed = m.pull
  <2> SUFFICES ASSUME m.evict # NoEvict, IndexAdmits(Without(GoneOf(m))), NEW g \in m.pull
               PROVE  IndexAdmits(IndexWith(g, GoneOf(m)))
    BY <1>10
  <2>0. IndexAdmits(Kept(m))
    BY <1>1, KeptShape DEF PlannedPull, EvictInv
  <2>1. IndexAdmits(Lined(m, w[Turn(g) - 1].line, g))
    BY <1>1, <1>5, <1>6, <2>0, EvictedForAll
  <2> QED
    BY <1>8, <1>9, <2>1
<1>12. gone # {} => m.evict # NoEvict /\ gone = {m.evict}
  BY <1>4 DEF GoneOf
<1> QED
  BY <1>4, <1>7, <1>10, <1>11, <1>12 DEF Pays

LEMMA EvictInvHolds == EvictSpec => []EvictInv
<1>1. EvictInit => EvictInv
  BY InitEvictInv
<1>2. EvictInv /\ [EvictNext]_evictvars => EvictInv'
  <2>1. EvictInv /\ UNCHANGED evictvars => EvictInv'
    BY DEF evictvars, EvictInv, EvictTypeOK, PlannedPull
  <2> QED
    BY <2>1, EvictInvStep
<1> QED
  BY <1>1, <1>2, PTL DEF EvictSpec

(* The store, the index, the counts and the pulls that are under way are of their types, *)
(* whatever the user edits between a plan and its transact (sync_global.py).             *)
THEOREM RoomTyped == EvictSpec => []EvictTypeOK
<1>1. EvictInv => EvictTypeOK
  BY DEF EvictInv
<1> QED
  BY <1>1, EvictInvHolds, PTL

\* An undisturbed pull lands what has room, and evicts only for more (EvictPays).
THEOREM PullPays == EvictSpec => EvictPays
<1>1. EvictInv /\ [EvictNext]_evictvars =>
        [\A s \in Puller :
           CommitsUndisturbed(s) =>
             LET gone == {n \in Native : storeFile[n] # "none" /\ storeFile'[n] = "none"} IN
             /\ \E planned \in SUBSET MissingIn(Seen) :
                   /\ Fits(planned, gone)
                   /\ Landed = {g \in planned : IndexAdmits(IndexWith(g, gone))}
             /\ gone # {} =>
                  /\ IndexAdmits(Without(gone)) =>
                       \A planned \in SUBSET MissingIn(Seen) :
                          Fits(planned, {}) => Cardinality(planned) < Cardinality(Landed)
                  /\ \A e \in gone : IsOwn(storeFile[e]) /\ InboundLinks(Seen, e) = {}]_evictvars
  <2> SUFFICES ASSUME EvictInv, EvictNext, NEW s \in Puller, CommitsUndisturbed(s)
               PROVE  LET gone == {n \in Native : storeFile[n] # "none" /\ storeFile'[n] = "none"} IN
                      /\ \E planned \in SUBSET MissingIn(Seen) :
                            /\ Fits(planned, gone)
                            /\ Landed = {g \in planned : IndexAdmits(IndexWith(g, gone))}
                      /\ gone # {} =>
                           /\ IndexAdmits(Without(gone)) =>
                                \A planned \in SUBSET MissingIn(Seen) :
                                   Fits(planned, {}) => Cardinality(planned) < Cardinality(Landed)
                           /\ \A e \in gone : IsOwn(storeFile[e]) /\ InboundLinks(Seen, e) = {}
    BY Zenon
  <2> DEFINE gone == {n \in Native : storeFile[n] # "none" /\ storeFile'[n] = "none"}
  <2>1. WritePull(s)
    BY OnlyAWriteCommits
  <2>2. gone = {n \in Native : storeFile[n] # "none" /\ storeFile'[n] = "none"}
    OBVIOUS
  <2> HIDE DEF gone
  <2>3. Pays(gone)
    BY <2>1, <2>2, UndisturbedPays
  <2> QED
    BY Zenon, <2>2, <2>3 DEF Pays
<1> QED
  BY <1>1, EvictInvHolds, PTL DEF EvictSpec, EvictPays
=============================================================================
