----------------------------- MODULE FeedHealth ------------------------------
(***************************************************************************)
(* What the collector reports of the feed: the status of each pair and the *)
(* state of the adapter (bridge_health, pair_health, current_adapter_state *)
(* of main.py), over the sessions and leases of SourceLease and the time   *)
(* of each pair's last valid tick.                                         *)
(*                                                                         *)
(* One call computes everything without an await, so that a report is a    *)
(* function of the state; only the choice among sessions of equal priority *)
(* (the first one inserted) is left open, and reports are sets.            *)
(***************************************************************************)
EXTENDS SourceLease

CONSTANT QuoteStaleAfter   \* stale_after_seconds, in intervals

ASSUME QuoteAssumption == QuoteStaleAfter \in Nat

VARIABLE quiet             \* intervals since last_tick of each pair, or Never

feedVars == <<bridge, admitted, quiet>>

Never == -1
Quiet == {Never} \cup 0 .. QuoteStaleAfter + 1

-----------------------------------------------------------------------------
Priority(status) ==
    CASE status = "MISSING"           -> 0
      [] status = "FOUND"             -> 1
      [] status \in {"READY", "STALE"} -> 2
      [] status = "AMBIGUOUS"         -> 3

\* Mutant: any session's word counts, also one that has gone quiet.
TargetsOfAll(b, p) ==
    LET said == {b.status[d][p] : d \in b.known}
    IN  IF said = {} THEN {"MISSING"}
        ELSE {s \in said : \A t \in said : Priority(s) >= Priority(t)}

\* target_status of a pair: the fresh session of highest priority decides.
Targets(b, p) ==
    LET said == {b.status[d][p] : d \in Fresh(b)}
    IN  IF said = {} THEN {"MISSING"}
        ELSE {s \in said : \A t \in said : Priority(s) >= Priority(t)}

\* Mutant: the age of the last tick is not looked at.
StatusOfTarget(target, age) ==
    CASE target \in {"AMBIGUOUS", "MISSING"} -> target
      [] target \in Serving /\ age = Never   -> "INITIALIZING"
      [] target = "STALE" /\ age # Never     -> "STALE"
      [] OTHER                               -> "HEALTHY"

\* pair_health's status
PairStatus(target, age) ==
    CASE target \in {"AMBIGUOUS", "MISSING"} -> target
      [] target \in Serving /\ age = Never   -> "INITIALIZING"
      [] /\ target \in Serving
         /\ age # Never
         /\ target = "STALE" \/ age > QuoteStaleAfter -> "STALE"
      [] OTHER                               -> "HEALTHY"

PairStatuses(b) == {[p \in Pair |-> PairStatus(target[p], quiet[p])] :
    target \in {f \in [Pair -> Status] : \A p \in Pair : f[p] \in Targets(b, p)}}

MultipleSources(b) == {p \in Pair : Cardinality(Eligible(b, p)) > 1}

Connected(b) == \E d \in Fresh(b) : b.ready[d]

\* current_adapter_state, of a refreshed bridge and one report of its pairs
AdapterState(b, report) ==
    CASE ~Connected(b) -> "DISCONNECTED"
      [] Connected(b) /\ \A p \in Pair : report[p] \in {"MISSING", "INITIALIZING"}
            -> "INITIALIZING"
      [] /\ Connected(b)
         /\ \A p \in Pair : report[p] = "HEALTHY"
         /\ MultipleSources(b) = {} -> "CONNECTED"
      [] OTHER -> "DEGRADED"

-----------------------------------------------------------------------------
FeedInit ==
    /\ Init
    /\ quiet = [p \in Pair |-> Never]

\* Mutant: the time the browser gave, which may be ahead of the collector's.
BrowserTimed(p, tick) == quiet' = [quiet EXCEPT ![p] = IF tick THEN -2 ELSE @]

\* The request waiting for the result of a processed observation stores the
\* time of a valid tick.
Ticked(p, tick) == quiet' = [quiet EXCEPT ![p] = IF tick THEN 0 ELSE @]

Passed ==
    quiet' = [p \in Pair |-> IF quiet[p] \in 0 .. QuoteStaleAfter
                             THEN quiet[p] + 1 ELSE quiet[p]]

FeedNext ==
    \/ /\ \/ \E d \in Doc, ready \in BOOLEAN, status \in [Pair -> Reports] :
                Heartbeat(d, ready, status)
          \/ \E d \in Doc, p \in Pair : Observe(d, p)
          \/ Poll
       /\ UNCHANGED quiet
    \/ \E d \in Doc, p \in Pair, tick \in BOOLEAN : Process(d, p, tick) /\ Ticked(p, tick)
    \/ Tick /\ Passed

FeedSpec == FeedInit /\ [][FeedNext]_feedVars

-----------------------------------------------------------------------------
\* The state is of the types main.py gives it; no tick lies in the future.
FeedTypeOK == TypeOK /\ quiet \in [Pair -> Quiet]

\* CONNECTED is never reported on the word of a document that is gone: every
\* pair then has exactly one eligible document, that document has the lease,
\* and a valid tick of the pair is no older than stale_after_seconds.
ConnectedIsServed ==
    LET b == Refreshed(bridge) IN
    \A report \in PairStatuses(b) :
        AdapterState(b, report) = "CONNECTED" =>
            \A p \in Pair : /\ Eligible(b, p) = {b.lease[p]}
                            /\ quiet[p] \in 0 .. QuoteStaleAfter

\* "An iframe reporting MISSING cannot overwrite a healthy terminal document",
\* "DISCONNECTED: authenticated browser heartbeat is not fresh"
\* (docs/MULTI_PAIR_HEALTH.md:22, 27): pairs are judged by all fresh documents,
\* leases by the eligible and the connection by the ready ones, and the three
\* agree after any failover, expiry or eviction.  A pair reported MISSING has no
\* active source to lose, one reported HEALTHY, STALE or INITIALIZING has one,
\* and DISCONNECTED is said only when no pair has either.
ReportsMatchLease ==
    LET b == Refreshed(bridge) IN
    \A report \in PairStatuses(b), p \in Pair :
        /\ report[p] = "MISSING" => b.lease[p] = None
        /\ report[p] \in {"HEALTHY", "STALE", "INITIALIZING"} => b.lease[p] # None
        /\ AdapterState(b, report) = "DISCONNECTED"
              => report[p] \in {"MISSING", "AMBIGUOUS"} /\ b.lease[p] = None

\* "CONNECTED: All four pairs are HEALTHY" (docs/MULTI_PAIR_HEALTH.md:24).
\* The code asks in addition that no pair has two eligible documents.
ConnectedWhenHealthy ==
    LET b == Refreshed(bridge) IN
    \A report \in PairStatuses(b) :
        Connected(b) /\ (\A p \in Pair : report[p] = "HEALTHY")
            => AdapterState(b, report) = "CONNECTED"
=============================================================================
