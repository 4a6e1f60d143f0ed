------------------------------ MODULE MCOutbox ------------------------------
(***************************************************************************)
(* Instances of Outbox for TLC, and what the documents promise of a        *)
(* restarted extension, which Outbox checks only without worker kills.     *)
(***************************************************************************)
EXTENDS Outbox

\* "Extension service-worker and collector restarts therefore preserve
\* at-least-once delivery" (docs/DATA_FLOW.md), "pending must return to zero"
\* (docs/OPERATIONS.md): whatever is stored, the outbox empties again, also
\* after the browser has stopped the service worker in the middle of a drain.
PendingReturnsToZero == stored.events # {} ~> stored.events = {}
=============================================================================
