----------------------------- MODULE FifoGroups -----------------------------
(***************************************************************************)
(* What ARCHITECTURE.md promises of the extension's outbox and of the      *)
(* collector's queue alike: "reserves capacity per pair, keeps FIFO order  *)
(* within a pair, never bypasses a retrying pair head, and services pair   *)
(* groups"; "A failing or high-rate pair cannot prevent another pair from  *)
(* being attempted".                                                       *)
(*                                                                         *)
(* Each group is a bounded queue of its own: an item enters at the end     *)
(* while there is room, only the first item leaves, and items move in no   *)
(* other way, whatever is refused, timed out, retried, killed or restarted *)
(* around them.                                                            *)
(***************************************************************************)
EXTENDS Naturals, Sequences

CONSTANTS
    Group,
    Item,
    Room      \* slots of a group

VARIABLE contents   \* the items of each group, oldest first

Init == contents = [g \in Group |-> <<>>]

Enqueue(g) ==
    /\ Len(contents[g]) < Room
    /\ \E i \in Item : contents' = [contents EXCEPT ![g] = Append(@, i)]

Dequeue(g) ==
    /\ contents[g] # <<>>
    /\ contents' = [contents EXCEPT ![g] = Tail(@)]

Next == \E g \in Group : Enqueue(g) \/ Dequeue(g)

Spec == Init /\ [][Next]_contents

\* Every group is served, not only the queue as a whole: a group that stays
\* non-empty loses its head, whatever the others do.
FairSpec == Spec /\ \A g \in Group : WF_contents(Dequeue(g))
=============================================================================
