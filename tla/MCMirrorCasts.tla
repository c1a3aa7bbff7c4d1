---------------------------- MODULE MCMirrorCasts ---------------------------
(***************************************************************************)
(* Three casts in one run: two projects that share one fact; one project   *)
(* with two facts, whose index holds one pointer; one project with one     *)
(* fact and a text that differs from another in its description only.  All *)
(* together are too large, and what crosses projects needs no second fact. *)
(***************************************************************************)
EXTENDS MCMirrorSync

VARIABLE cast
castvars == <<vars, cast>>

Cast(P, S, T, n) == [projects |-> P, stems |-> S, texts |-> T, ops |-> n]
Pair == {Cast({p1, p2}, {a}, {t1, t3}, 3)}
Alone == {Cast({p}, {a, b}, {t1, t3}, 4) : p \in Project}
Single == {Cast({p}, {a}, {t1, t2, t3}, 4) : p \in Project}

Projects == Permutations({p1, p2})   \* no constant, text or fact depends on a project

CastInit == Init /\ cast \in Pair \cup Alone \cup Single

CastNext ==
    /\ Step(cast.projects, cast.stems, cast.texts)
    /\ ops' <= cast.ops
    /\ UNCHANGED cast

CastSpec == CastInit /\ [][CastNext]_castvars

=============================================================================
