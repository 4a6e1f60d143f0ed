------------------------------ MODULE SortedSets ------------------------------
(***************************************************************************)
(* A finite set of numbers in increasing order, and what is left of a      *)
(* sequence when only some positions stay: the filters that keep the order *)
(* of a list or an ordered dictionary.  (SelectSeq and SortSeq say the     *)
(* same; these are in the form that the proofs can work with.)             *)
(***************************************************************************)
EXTENDS Naturals, FiniteSets

\* The i-th number is the one with i numbers up to it.
Sorted(S) ==
    [i \in 1 .. Cardinality(S) |->
        CHOOSE n \in S : Cardinality({m \in S : m <= n}) = i]

\* The elements of s at the positions in P, in their order.
Selected(s, P) == [i \in 1 .. Cardinality(P) |-> s[Sorted(P)[i]]]
=============================================================================
