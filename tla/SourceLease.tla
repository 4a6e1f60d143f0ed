----------------------------- MODULE SourceLease -----------------------------
(***************************************************************************)
(* Which open terminal document feeds a pair: bridge_sessions and          *)
(* active_sources of main.py, as heartbeats, observations and health polls *)
(* change them.                                                            *)
(*                                                                         *)
(* A request handler runs these functions without an await, so that it is  *)
(* one step up to has_raw; what it has admitted is processed later, when   *)
(* the lease may have moved on.  Documents are numbered in the order of    *)
(* their session ids, which min() compares.  Age counts intervals since a  *)
(* session's last_message.  Totals and counters that only health views     *)
(* show are left out.                                                      *)
(***************************************************************************)
EXTENDS Integers, FiniteSets, FiniteSetsExt

CONSTANTS
    Doc,           \* session ids of documents, naturals above 0
    Pair,          \* SUPPORTED_INSTRUMENTS
    StaleAfter,    \* bridge_stale_after_seconds, in intervals
    ExpireAfter,   \* bridge_session_expiry_seconds, in intervals
    MaxSessions,   \* sessions kept (100 in the code)
    Reports,       \* bound: the target statuses heartbeats are taken to carry
    MaxAdmitted    \* bound: admitted observations not yet processed

ASSUME DocAssumption == Doc \subseteq Nat \ {0} /\ IsFiniteSet(Doc)
ASSUME AgeAssumption ==
    StaleAfter \in Nat /\ ExpireAfter \in Nat /\ StaleAfter <= ExpireAfter
ASSUME BoundsAssumption == MaxSessions \in Nat \ {0} /\ MaxAdmitted \in Nat

Serving == {"FOUND", "READY", "STALE"}
Status == Serving \cup {"MISSING", "AMBIGUOUS"}

ASSUME ReportsAssumption == Reports \subseteq Status

None == 0
Age == 0 .. ExpireAfter + 1       \* anything older has expired as well

VARIABLES
    bridge,     \* the sessions, the leases, and whom the adapter remembers
    admitted    \* observations that passed the lease check, not yet processed

vars == <<bridge, admitted>>

Bridge == [known : SUBSET Doc, age : [Doc -> Age], ready : [Doc -> BOOLEAN],
           status : [Doc -> [Pair -> Status]], lease : [Pair -> Doc \cup {None}],
           remembered : SUBSET Doc]

NoPairs == [p \in Pair |-> "MISSING"]
EmptyBridge ==
    [known |-> {}, age |-> [d \in Doc |-> 0], ready |-> [d \in Doc |-> FALSE],
     status |-> [d \in Doc |-> NoPairs], lease |-> [p \in Pair |-> None],
     remembered |-> {}]

-----------------------------------------------------------------------------
Fresh(b) == {d \in b.known : b.age[d] <= StaleAfter}

\* eligible_source_sessions
Eligible(b, p) == {d \in Fresh(b) : b.ready[d] /\ b.status[d][p] \in Serving}

\* active_sources entries of these sessions go back to None.
Unleased(b, docs) ==
    [b EXCEPT !.lease = [p \in Pair |-> IF @[p] \in docs THEN None ELSE @[p]]]

\* Mutant: on_disconnect is not called.
KeptByAdapter(b, docs) ==
    [b EXCEPT
        !.known = @ \ docs,
        !.age = [d \in Doc |-> IF d \in docs THEN 0 ELSE @[d]],
        !.ready = [d \in Doc |-> @[d] /\ d \notin docs],
        !.status = [d \in Doc |-> IF d \in docs THEN NoPairs ELSE @[d]]]

\* adapter.on_disconnect and del bridge_sessions[...]; the other fields get
\* what a missing session reads as.
Forgotten(b, docs) ==
    [b EXCEPT
        !.known = @ \ docs,
        !.remembered = @ \ docs,
        !.age = [d \in Doc |-> IF d \in docs THEN 0 ELSE @[d]],
        !.ready = [d \in Doc |-> @[d] /\ d \notin docs],
        !.status = [d \in Doc |-> IF d \in docs THEN NoPairs ELSE @[d]]]

\* Mutant: the lease always goes to the first eligible session.
FirstEligible(b, p) ==
    IF Eligible(b, p) = {} THEN None ELSE Min(Eligible(b, p))

\* Mutant: a lost lease is only cleared; the next call gives it on.
ClearsFirst(b, p) ==
    IF b.lease[p] \in Eligible(b, p) THEN b.lease[p]
    ELSE IF Eligible(b, p) = {} \/ b.lease[p] # None THEN None
    ELSE Min(Eligible(b, p))

\* An eligible holder keeps the lease, else min(eligible) gets it.
Holder(b, p) ==
    LET eligible == Eligible(b, p)
    IN  IF b.lease[p] \in eligible THEN b.lease[p]
        ELSE IF eligible = {} THEN None ELSE Min(eligible)

\* expire_bridge_sessions
Expired(b) ==
    LET old == {d \in b.known : b.age[d] > ExpireAfter}
    IN  Unleased(Forgotten(b, old), old)

\* refresh_active_sources
Refreshed(b) ==
    LET left == Expired(b)
    IN  [left EXCEPT !.lease = [p \in Pair |-> Holder(left, p)]]

\* The record a request writes for its session.
Touched(b, d, ready, status) ==
    [b EXCEPT !.known = @ \cup {d}, !.age[d] = 0, !.ready[d] = ready,
              !.status[d] = status]

\* What an observation says about its session's pairs.
Observed(b, d, p) == [b.status[d] EXCEPT ![p] = "READY"]

\* Mutant: off by one.
EvictedLate(b, d) ==
    IF Cardinality(b.known) <= MaxSessions + 1 THEN {{}}
    ELSE {{o} : o \in {c \in b.known \ {d} :
                         \A e \in b.known : b.age[c] >= b.age[e]}}

\* When d's message makes the table too large, the session with the oldest
\* last_message goes; sessions heard of in one interval may be in any order,
\* but d is the latest.
Evicted(b, d) ==
    IF Cardinality(b.known) <= MaxSessions THEN {{}}
    ELSE {{o} : o \in {c \in b.known \ {d} :
                         \A e \in b.known : b.age[c] >= b.age[e]}}

\* Mutant: no bridge_health after the eviction.
TouchedLast(d, ready, status) ==
    LET b == Touched(Refreshed(bridge), d, ready, status)
    IN  {Forgotten(b, docs) : docs \in Evicted(b, d)}

\* touch_bridge_session, between two calls of bridge_health
TouchResults(d, ready, status) ==
    LET b == Touched(Refreshed(bridge), d, ready, status)
    IN  {Refreshed(Forgotten(b, docs)) : docs \in Evicted(b, d)}

-----------------------------------------------------------------------------
Init ==
    /\ bridge = EmptyBridge
    /\ admitted = {}

\* ingest_bridge_heartbeat of a document that is not ready (any more).
Stopped(b, d) == Refreshed([Unleased(b, {d}) EXCEPT !.remembered = @ \ {d}])

\* What a document can send: OBSERVER_READY and OBSERVER_STOPPED carry no
\* statuses, and content.ts is ready when any pair is served, or once a quote
\* was read.
Reportable(ready, status) == ready \/ \A p \in Pair : status[p] \notin Serving

\* ingest_bridge_heartbeat
Heartbeat(d, ready, status) ==
    /\ Reportable(ready, status)
    /\ \E b \in TouchResults(d, ready, status) :
          bridge' = IF ready THEN b ELSE Stopped(b, d)
    /\ UNCHANGED admitted

\* ingest, up to its first await: the session counts as ready and the pair as
\* READY; the observation of a standby document is acknowledged and dropped.
Observe(d, p) ==
    \E b \in TouchResults(d, TRUE, Observed(Refreshed(bridge), d, p)) :
        /\ bridge' = b
        /\ IF b.lease[p] = d
           THEN /\ Cardinality(admitted \cup {<<d, p>>}) <= MaxAdmitted
                /\ admitted' = admitted \cup {<<d, p>>}
           ELSE UNCHANGED admitted

\* The worker is done with an admitted observation: the adapter remembers the
\* session if it made a tick.
Process(d, p, tick) ==
    /\ <<d, p>> \in admitted
    /\ admitted' = admitted \ {<<d, p>>}
    /\ bridge' = [bridge EXCEPT !.remembered =
                     IF tick THEN @ \cup {d} ELSE @]

\* bridge_health, called by /health/components and the heartbeat worker.
Poll ==
    /\ bridge' = Refreshed(bridge)
    /\ UNCHANGED admitted

\* An interval passes.
Tick ==
    /\ bridge' = [bridge EXCEPT !.age =
          [d \in Doc |-> IF d \in bridge.known /\ @[d] <= ExpireAfter
                         THEN @[d] + 1 ELSE @[d]]]
    /\ UNCHANGED admitted

Next ==
    \/ \E d \in Doc, ready \in BOOLEAN, status \in [Pair -> Reports] :
          Heartbeat(d, ready, status)
    \/ \E d \in Doc, p \in Pair : Observe(d, p)
    \/ \E d \in Doc, p \in Pair, tick \in BOOLEAN : Process(d, p, tick)
    \/ Poll
    \/ Tick

Spec == Init /\ [][Next]_vars

-----------------------------------------------------------------------------
\* The session table, the leases and the admitted observations are of the
\* types main.py gives them (with the limit of the table, TableOK).
TypeOK ==
    /\ bridge \in Bridge
    /\ admitted \in SUBSET (Doc \X Pair)

\* A pair's active source is a session that exists, is ready and serves the
\* pair, also after the expiry or eviction of a session and after documents
\* stopped; only time can have made it stale since the last request.
HolderServes ==
    \A p \in Pair : bridge.lease[p] # None =>
        /\ bridge.lease[p] \in bridge.known
        /\ bridge.ready[bridge.lease[p]]
        /\ bridge.status[bridge.lease[p]][p] \in Serving

\* The table of sessions stays within its limit, whatever documents come, and
\* keeps its types.
SessionsBounded == Cardinality(bridge.known) <= MaxSessions
TableOK == TypeOK /\ SessionsBounded

\* Deterministic failover: a document keeps a lease as long as it is eligible;
\* the messages of other documents, and the ones it sends for other pairs,
\* never take it away.
LeaseIsSticky ==
    [][\A p \in Pair :
          /\ bridge.lease[p] \in Eligible(bridge, p)
          /\ bridge'.lease[p] # bridge.lease[p]
          => bridge.lease[p] \notin Eligible(bridge', p)]_vars

\* A request never leaves a pair without a source that some document could
\* serve: after every heartbeat, observation and poll one of the eligible
\* documents has the lease.  (Process, no request, removes from admitted.)
NoIdlePair ==
    [][~Tick /\ admitted \subseteq admitted' => \A p \in Pair :
          Eligible(bridge', p) # {} => bridge'.lease[p] \in Eligible(bridge', p)]_vars

\* "Deduplication ... is cleared with expired document sessions"
\* (docs/MILESTONE_2_REPORT.md): a session that leaves the table, for its age
\* or to make room, takes the adapter's memory of it along.  (Only then: an
\* observation processed later brings it back.)
ClearedWithSession ==
    [][\A d \in bridge.known \ bridge'.known : d \notin bridge'.remembered]_vars
=============================================================================
