------------------------------- MODULE Arrays -------------------------------
(***************************************************************************)
(* Array.prototype.filter and sort, defined so that they can be proved     *)
(* about: SelectSeq and SortSeq are built into the provers, which know     *)
(* next to nothing of them.                                                *)
(***************************************************************************)
EXTENDS Integers, Sequences, FiniteSets

\* the elements of seq that are in S, in their order
Only(seq, S) ==
    LET kept[n \in 0 .. Len(seq)] ==
            IF n = 0 THEN <<>>
            ELSE IF seq[n] \in S THEN Append(kept[n - 1], seq[n]) ELSE kept[n - 1]
    IN kept[Len(seq)]

\* the elements of S as the linear order puts them, a set of pairs <<x, y>>
\* of which x comes before y
Ranked(S, order) ==
    [k \in 1 .. Cardinality(S) |->
        CHOOSE x \in S : Cardinality({y \in S : <<y, x>> \in order}) = k - 1]
=============================================================================
