------------------------------ MODULE Delivery ------------------------------
(***************************************************************************)
(* At-least-once delivery of one pair's observations to the collector, as  *)
(* DATA_FLOW.md promises it: events are handed over in the order they were *)
(* made, each is forgotten by the browser only when the collector has its  *)
(* raw row, and none is lost or skipped.  Of requests, retries, queues and *)
(* crashes nothing is to be seen here.                                     *)
(***************************************************************************)
EXTENDS Naturals

CONSTANT Last     \* number of events

VARIABLES
    head,    \* the oldest event the browser still has to deliver
    kept     \* events with a raw row

Init == head = 1 /\ kept = {}

\* The collector stores the event that is due, before or after the browser
\* asks again.
Keep ==
    /\ head <= Last
    /\ kept' = kept \cup {head}
    /\ UNCHANGED head

Acknowledge ==
    /\ head \in kept
    /\ head' = head + 1
    /\ UNCHANGED kept

Next == Keep \/ Acknowledge

Spec == Init /\ [][Next]_<<head, kept>>

\* At least once: every event is stored and acknowledged in the end.
FairSpec ==
    /\ Spec
    /\ WF_<<head, kept>>(Keep)
    /\ WF_<<head, kept>>(Acknowledge)
=============================================================================
