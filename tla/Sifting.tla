------------------------------- MODULE Sifting -------------------------------
(***************************************************************************)
(* Filters of a sequence, as the readers of a log apply them.  The recursion *)
(* is written out where SelectSeq would do, so that proofs can follow it.    *)
(***************************************************************************)
EXTENDS Naturals, Sequences

\* The members of s that are in S, in their order.
Sifted(s, S) ==
    LET kept[i \in 0..Len(s)] ==
            IF i = 0 THEN << >>
            ELSE IF s[i] \in S THEN Append(kept[i - 1], s[i]) ELSE kept[i - 1]
    IN  kept[Len(s)]
=============================================================================
