------------------------------ MODULE Counting ------------------------------
(* How many elements of a queue are of a kind, and what numbers add up to. *)
EXTENDS Naturals, FiniteSets, Sequences, Functions

Count(s, T) == Cardinality({i \in DOMAIN s : s[i] \in T})

(* The sum of a function's values.                                         *)
Total(f) == FoldFunction(+, 0, f)
=============================================================================
