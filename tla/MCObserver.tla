----------------------------- MODULE MCObserver ------------------------------
(***************************************************************************)
(* An instance of Observer for TLC: two pairs, three rows, two texts that  *)
(* are quotes of both pairs and one of neither.  Rows and pairs are        *)
(* ordered, so that nothing is symmetric.                                  *)
(***************************************************************************)
EXTENDS Observer

\* A moved row may come first, last or between the others.
MCOrders == Bijection(Row, 1 .. Cardinality(Row))

MCText == 1 .. 3
MCValid == [p \in Pair |-> {1, 2}]

Shows(label, text) == [label |-> label, text |-> text, look |-> "shown"]

\* A pair that appears twice, once after and once before it is complete, a
\* conflict, and a page that has no table yet.
MCPages ==
    {<<Shows(1, 1), Shows(2, 1), Shows(1, 1)>>,
     <<Shows(1, 1), Shows(2, 1), None>>,
     <<Shows(1, 1), Shows(2, 1), Shows(2, 2)>>,
     <<None, None, None>>}
=============================================================================
