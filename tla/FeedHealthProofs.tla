--------------------------- MODULE FeedHealthProofs ---------------------------
(***************************************************************************)
(* Theorems about FeedHealth.  The feed takes the steps of SourceLease, so *)
(* that all its invariants hold here too.  Statuses are judged by all fresh*)
(* documents, leases by the ready ones: the two agree because no document  *)
(* ever serves a pair without being ready (ServingIsReady), which every    *)
(* touch, eviction, expiry and stop has to preserve.                       *)
(***************************************************************************)
EXTENDS FeedHealth, SourceLeaseProofs

\* A document that says it serves a pair counts as ready.
ServingIsReady(b) ==
    \A d \in Doc, p \in Pair : b.status[d][p] \in Serving => b.ready[d]

LEMMA MissingIsNotServing == "MISSING" \notin Serving
BY DEF Serving

LEMMA ForgottenServing ==
    ASSUME NEW b \in Bridge, NEW docs \in SUBSET Doc, ServingIsReady(b)
    PROVE  ServingIsReady(Forgotten(b, docs))
<1> DEFINE f == Forgotten(b, docs)
<1>1. \A d \in Doc \ docs : f.ready[d] = b.ready[d] /\ f.status[d] = b.status[d]
  BY ForgottenFacts
<1>2. \A d \in docs : f.status[d] = NoPairs
  BY DEF Forgotten, Bridge
<1>3. \A d \in docs, p \in Pair : f.status[d][p] \notin Serving
  BY <1>2, MissingIsNotServing DEF NoPairs
<1> HIDE DEF f
<1>4. ServingIsReady(f)
  BY <1>1, <1>3 DEF ServingIsReady
<1> QED BY <1>4 DEF f

LEMMA UnleasedServing ==
    ASSUME NEW b \in Bridge, NEW docs \in SUBSET Doc, ServingIsReady(b)
    PROVE  ServingIsReady(Unleased(b, docs))
<1> DEFINE u == Unleased(b, docs)
<1>1. u.ready = b.ready /\ u.status = b.status
  BY UnleasedFacts
<1> HIDE DEF u
<1>2. ServingIsReady(u)
  BY <1>1 DEF ServingIsReady
<1> QED BY <1>2 DEF u

LEMMA RefreshedServing ==
    ASSUME NEW b \in Bridge, ServingIsReady(b)
    PROVE  ServingIsReady(Refreshed(b))
<1> DEFINE f == Forgotten(b, Old(b))
           e == Expired(b)
           r == Refreshed(b)
<1>1. Old(b) \in SUBSET Doc
  BY DEF Old, Bridge
<1>2. f \in Bridge
  BY <1>1, ForgottenFacts
<1>3. ServingIsReady(f)
  BY <1>1, ForgottenServing
<1>4. e = Unleased(f, Old(b))
  BY DEF Expired, Old
<1> HIDE DEF f
<1>5. ServingIsReady(e)
  BY <1>1, <1>2, <1>3, <1>4, UnleasedServing
<1>6. e \in Bridge
  BY ExpiredFacts
<1>7. r = [e EXCEPT !.lease = [p \in Pair |-> Holder(e, p)]]
  BY DEF Refreshed
<1> HIDE DEF e, r
<1>8. r.ready = e.ready /\ r.status = e.status
  BY <1>6, <1>7 DEF Bridge
<1>9. ServingIsReady(r)
  BY <1>5, <1>8 DEF ServingIsReady
<1> QED BY <1>9 DEF r

LEMMA TouchResultsServing ==
    ASSUME bridge \in Bridge, ServingIsReady(bridge),
           NEW d \in Doc, NEW ready \in BOOLEAN, NEW status \in [Pair -> Status],
           Reportable(ready, status), NEW b \in TouchResults(d, ready, status)
    PROVE  ServingIsReady(b)
<1> DEFINE r == Refreshed(bridge)
           t == Touched(r, d, ready, status)
<1>1. r \in Bridge
  BY RefreshedFacts
<1>2. ServingIsReady(r)
  BY RefreshedServing
<1>3. PICK docs \in Evicted(t, d) : b = Refreshed(Forgotten(t, docs))
  BY DEF TouchResults
<1> HIDE DEF r
<1>4. t \in Bridge
  BY <1>1, TouchedFacts
<1>5. t.ready = [r.ready EXCEPT ![d] = ready] /\ t.status = [r.status EXCEPT ![d] = status]
  BY <1>1 DEF Touched, Bridge
<1> HIDE DEF t
<1>6. ServingIsReady(t)
  <2> SUFFICES ASSUME NEW c \in Doc, NEW p \in Pair, t.status[c][p] \in Serving
               PROVE  t.ready[c]
    BY DEF ServingIsReady
  <2>1. CASE c = d
    <3>1. t.status[c] = status /\ t.ready[c] = ready
      BY <1>1, <1>5, <2>1 DEF Bridge
    <3>2. ready
      BY <3>1 DEF Reportable
    <3> QED BY <3>1, <3>2
  <2>2. CASE c # d
    <3>1. t.status[c] = r.status[c] /\ t.ready[c] = r.ready[c]
      BY <1>1, <1>5, <2>2 DEF Bridge
    <3> QED BY <1>2, <3>1 DEF ServingIsReady
  <2> QED BY <2>1, <2>2
<1>7. docs \in SUBSET Doc
  BY <1>4 DEF Evicted, Bridge
<1>8. Forgotten(t, docs) \in Bridge
  BY <1>4, <1>7, ForgottenFacts
<1>9. ServingIsReady(Forgotten(t, docs))
  BY <1>4, <1>6, <1>7, ForgottenServing
<1> QED BY <1>3, <1>8, <1>9, RefreshedServing

LEMMA StoppedServing ==
    ASSUME NEW b \in Bridge, NEW d \in Doc, ServingIsReady(b)
    PROVE  ServingIsReady(Stopped(b, d))
<1> DEFINE u == Unleased(b, {d})
           v == [u EXCEPT !.remembered = @ \ {d}]
<1>1. u \in Bridge
  BY UnleasedFacts
<1>2. ServingIsReady(u)
  BY UnleasedServing
<1>3. Stopped(b, d) = Refreshed(v)
  BY DEF Stopped
<1> HIDE DEF u
<1>4. v \in Bridge /\ v.ready = u.ready /\ v.status = u.status
  BY <1>1 DEF Bridge
<1> HIDE DEF v
<1>5. ServingIsReady(v)
  BY <1>2, <1>4 DEF ServingIsReady
<1> QED BY <1>3, <1>4, <1>5, RefreshedServing

\* What a document says in an observation or a heartbeat is never that it
\* serves a pair without being ready.
LEMMA NextServing ==
    ASSUME TypeOK, ServingIsReady(bridge), [Next]_vars
    PROVE  ServingIsReady(bridge')
<1>1. bridge \in Bridge
  BY DEF TypeOK
<1>2. ASSUME NEW d \in Doc, NEW ready \in BOOLEAN, NEW status \in [Pair -> Reports],
             Heartbeat(d, ready, status)
      PROVE  ServingIsReady(bridge')
  <2>1. status \in [Pair -> Status]
    BY ReportsAssumption
  <2>2. PICK b \in TouchResults(d, ready, status) :
          bridge' = IF ready THEN b ELSE Stopped(b, d)
    BY <1>2 DEF Heartbeat
  <2>3. Reportable(ready, status)
    BY <1>2 DEF Heartbeat
  <2>4. b \in Bridge
    BY <1>1, <2>1, TouchResultsFacts
  <2>5. ServingIsReady(b)
    BY <1>1, <2>1, <2>3, TouchResultsServing
  <2>6. ServingIsReady(Stopped(b, d))
    BY <2>4, <2>5, StoppedServing
  <2> QED BY <2>2, <2>5, <2>6
<1>3. ASSUME NEW d \in Doc, NEW p \in Pair, Observe(d, p)
      PROVE  ServingIsReady(bridge')
  <2> DEFINE status == Observed(Refreshed(bridge), d, p)
  <2>1. bridge' \in TouchResults(d, TRUE, status)
    BY <1>3 DEF Observe
  <2>2. Refreshed(bridge) \in Bridge
    BY <1>1, RefreshedFacts
  <2>3. status \in [Pair -> Status]
    BY <2>2 DEF Observed, Bridge, Status, Serving
  <2> HIDE DEF status
  <2>4. Reportable(TRUE, status)
    BY DEF Reportable
  <2> QED BY <1>1, <2>1, <2>3, <2>4, TouchResultsServing
<1>4. CASE Poll
  BY <1>1, <1>4, RefreshedServing DEF Poll
<1>5. ASSUME NEW d \in Doc, NEW p \in Pair, NEW tick \in BOOLEAN, Process(d, p, tick)
      PROVE  ServingIsReady(bridge')
  BY <1>5, ProcessFacts DEF ServingIsReady
<1>6. CASE Tick
  BY <1>6, TickFacts DEF ServingIsReady
<1>7. CASE UNCHANGED vars
  BY <1>7 DEF vars
<1> QED BY <1>2, <1>3, <1>4, <1>5, <1>6, <1>7 DEF Next

-----------------------------------------------------------------------------
\* Every step of the feed is one of the sessions and leases, or leaves them.
LEMMA FeedSteps ==
    ASSUME [FeedNext]_feedVars
    PROVE  [Next]_vars
BY DEF FeedNext, feedVars, Next, vars

\* Nothing else touches bridge_sessions and active_sources: whatever holds of
\* SourceLease's behaviours holds of the feed's, its action properties too.
THEOREM FeedTakesLeaseSteps == FeedSpec => Spec
<1>1. FeedInit => Init
  BY DEF FeedInit
<1> QED BY <1>1, FeedSteps, PTL DEF FeedSpec, Spec

\* The inductive invariant of the feed.
FeedIInv == TypeOK /\ ServingIsReady(bridge) /\ quiet \in [Pair -> Quiet]

LEMMA InitFeedIInv == FeedInit => FeedIInv
<1> SUFFICES ASSUME FeedInit PROVE FeedIInv
  OBVIOUS
<1>1. TypeOK
  BY InitIInv DEF FeedInit, IInv
<1>2. ServingIsReady(bridge)
  BY MissingIsNotServing DEF FeedInit, Init, EmptyBridge, NoPairs, ServingIsReady
<1>3. quiet \in [Pair -> Quiet]
  BY DEF FeedInit, Quiet
<1> QED BY <1>1, <1>2, <1>3 DEF FeedIInv

LEMMA NextFeedIInv == FeedIInv /\ IInv /\ [FeedNext]_feedVars => FeedIInv'
<1> SUFFICES ASSUME FeedIInv, IInv, [FeedNext]_feedVars PROVE FeedIInv'
  OBVIOUS
<1>1. [Next]_vars
  BY FeedSteps
<1>2. TypeOK'
  BY <1>1, NextIInv DEF IInv
<1>3. ServingIsReady(bridge)'
  BY <1>1, NextServing DEF FeedIInv
<1>4. quiet \in [Pair -> Quiet]
  BY DEF FeedIInv
<1>5. (quiet \in [Pair -> Quiet])'
  <2>1. ASSUME NEW p \in Pair, NEW tick \in BOOLEAN, Ticked(p, tick)
        PROVE  quiet' \in [Pair -> Quiet]
    BY <1>4, <2>1, QuoteAssumption DEF Ticked, Quiet
  <2>2. CASE Passed
    BY <1>4, <2>2, QuoteAssumption DEF Passed, Quiet, Never
  <2>3. CASE UNCHANGED quiet
    BY <1>4, <2>3
  <2> QED BY <2>1, <2>2, <2>3 DEF FeedNext, feedVars
<1> QED BY <1>2, <1>3, <1>5 DEF FeedIInv

\* Every report is computed from types, leases and statuses that fit together,
\* also while messages of several documents cross.
THEOREM FeedInvariant == FeedSpec => [](IInv /\ FeedIInv)
<1>1. FeedInit => IInv
  BY InitIInv DEF FeedInit
<1>2. IInv /\ [FeedNext]_feedVars => IInv'
  BY FeedSteps, NextIInv
<1> QED BY <1>1, <1>2, InitFeedIInv, NextFeedIInv, PTL DEF FeedSpec

\* The times of the last ticks keep their types: no tick lies in the future.
THEOREM FeedTypeCorrect == FeedSpec => []FeedTypeOK
<1>1. FeedIInv => FeedTypeOK
  BY DEF FeedIInv, FeedTypeOK
<1> QED BY <1>1, FeedInvariant, PTL

-----------------------------------------------------------------------------
\* What a report of a pair says of the pair's target.
LEMMA PairStatusFacts ==
    ASSUME NEW target \in Status, NEW age \in Quiet
    PROVE  /\ PairStatus(target, age) \in {"MISSING", "AMBIGUOUS"}
                => target = PairStatus(target, age)
           /\ PairStatus(target, age) \notin {"MISSING", "AMBIGUOUS"}
                => target \in Serving
           /\ PairStatus(target, age) = "HEALTHY" => age \in 0 .. QuoteStaleAfter
<1>1. CASE target \in {"AMBIGUOUS", "MISSING"}
  BY <1>1 DEF PairStatus
<1>2. CASE target \notin {"AMBIGUOUS", "MISSING"}
  <2>1. target \in Serving
    BY <1>2 DEF Status
  <2>2. CASE age = Never
    BY <1>2, <2>1, <2>2 DEF PairStatus
  <2>3. CASE age # Never
    <3>1. CASE target = "STALE" \/ age > QuoteStaleAfter
      BY <1>2, <2>1, <2>3, <3>1 DEF PairStatus
    <3>2. CASE ~(target = "STALE" \/ age > QuoteStaleAfter)
      <4>1. PairStatus(target, age) = "HEALTHY"
        BY <1>2, <2>1, <2>3, <3>2 DEF PairStatus
      <4>2. age \in 0 .. QuoteStaleAfter
        BY <2>3, <3>2, QuoteAssumption DEF Quiet, Never
      <4> QED BY <2>1, <4>1, <4>2
    <3> QED BY <3>1, <3>2
  <2> QED BY <2>2, <2>3
<1> QED BY <1>1, <1>2

\* Where statuses and leases meet: fresh documents that serve a pair are the
\* eligible ones, so that MISSING means none is and a served target means one is.
LEMMA TargetsFacts ==
    ASSUME NEW b \in Bridge, ServingIsReady(b), NEW p \in Pair,
           NEW target \in Targets(b, p)
    PROVE  /\ target \in Status
           /\ target = "MISSING" => Eligible(b, p) = {}
           /\ target \in Serving => Eligible(b, p) # {}
<1> DEFINE said == {b.status[d][p] : d \in Fresh(b)}
<1>1. Fresh(b) \subseteq Doc
  BY DEF Fresh, Bridge
<1>2. said \subseteq Status
  BY <1>1 DEF Bridge
<1>3. Eligible(b, p) = {d \in Fresh(b) : b.status[d][p] \in Serving}
  BY <1>1 DEF Eligible, ServingIsReady
<1>4. CASE said = {}
  <2>1. target = "MISSING"
    BY <1>4 DEF Targets
  <2>2. Eligible(b, p) = {}
    BY <1>3, <1>4
  <2> QED BY <2>1, <2>2, MissingIsNotServing DEF Status
<1>5. CASE said # {}
  <2>1. target \in said /\ \A t \in said : Priority(target) >= Priority(t)
    BY <1>5 DEF Targets
  <2>2. target \in Serving => Eligible(b, p) # {}
    BY <1>3, <2>1
  <2>3. ASSUME target = "MISSING", NEW d \in Eligible(b, p)
        PROVE  FALSE
    <3>1. b.status[d][p] \in said /\ b.status[d][p] \in Serving
      BY <1>3
    <3>2. Priority(b.status[d][p]) \in {1, 2}
      BY <3>1 DEF Priority, Serving
    <3>3. Priority("MISSING") = 0
      BY DEF Priority
    <3> QED BY <2>1, <2>3, <3>1, <3>2, <3>3
  <2> QED BY <1>2, <2>1, <2>2, <2>3
<1> QED BY <1>4, <1>5

\* The report of one pair of a refreshed bridge.
LEMMA ReportFacts ==
    ASSUME FeedIInv, NEW b, b = Refreshed(bridge),
           NEW report \in PairStatuses(b), NEW p \in Pair
    PROVE  /\ report[p] = "MISSING" => Eligible(b, p) = {}
           /\ report[p] \notin {"MISSING", "AMBIGUOUS"} => Eligible(b, p) # {}
           /\ report[p] = "HEALTHY" => quiet[p] \in 0 .. QuoteStaleAfter
<1>1. b \in Bridge /\ ServingIsReady(b)
  BY RefreshedFacts, RefreshedServing DEF FeedIInv, TypeOK
<1>2. PICK target \in [Pair -> Status] :
        /\ target[p] \in Targets(b, p)
        /\ report = [q \in Pair |-> PairStatus(target[q], quiet[q])]
  BY DEF PairStatuses
<1>3. report[p] = PairStatus(target[p], quiet[p])
  BY <1>2
<1>4. quiet[p] \in Quiet /\ target[p] \in Status
  BY <1>2 DEF FeedIInv
<1>5. /\ target[p] = "MISSING" => Eligible(b, p) = {}
      /\ target[p] \in Serving => Eligible(b, p) # {}
  BY <1>1, <1>2, TargetsFacts
<1> QED BY <1>3, <1>4, <1>5, PairStatusFacts

LEMMA RefreshedIsFed ==
    ASSUME FeedIInv
    PROVE  Refreshed(bridge) \in Bridge /\ Fed(Refreshed(bridge))
BY RefreshedFacts DEF FeedIInv, TypeOK

LEMMA Reported == FeedIInv => ReportsMatchLease
<1> SUFFICES ASSUME FeedIInv, NEW b, b = Refreshed(bridge),
                    NEW report \in PairStatuses(b), NEW p \in Pair
             PROVE  /\ report[p] = "MISSING" => b.lease[p] = None
                    /\ report[p] \in {"HEALTHY", "STALE", "INITIALIZING"}
                         => b.lease[p] # None
                    /\ AdapterState(b, report) = "DISCONNECTED"
                         => report[p] \in {"MISSING", "AMBIGUOUS"} /\ b.lease[p] = None
  BY DEF ReportsMatchLease
<1>1. b \in Bridge /\ Fed(b)
  BY RefreshedIsFed
<1>2. /\ report[p] = "MISSING" => Eligible(b, p) = {}
      /\ report[p] \notin {"MISSING", "AMBIGUOUS"} => Eligible(b, p) # {}
  BY ReportFacts
<1>3. Eligible(b, p) = {} => b.lease[p] = None
  BY <1>1 DEF Fed
<1>4. Eligible(b, p) # {} => b.lease[p] # None
  BY <1>1, EligibleIsDoc DEF Fed
<1>5. ASSUME AdapterState(b, report) = "DISCONNECTED"
      PROVE  Eligible(b, p) = {}
  <2>1. ~Connected(b)
    BY <1>5 DEF AdapterState
  <2> QED BY <2>1 DEF Connected, Eligible
<1> QED BY <1>2, <1>3, <1>4, <1>5

LEMMA ServedWhenConnected == FeedIInv => ConnectedIsServed
<1> SUFFICES ASSUME FeedIInv, NEW b, b = Refreshed(bridge),
                    NEW report \in PairStatuses(b),
                    AdapterState(b, report) = "CONNECTED", NEW p \in Pair
             PROVE  /\ Eligible(b, p) = {b.lease[p]}
                    /\ quiet[p] \in 0 .. QuoteStaleAfter
  BY DEF ConnectedIsServed
<1>1. b \in Bridge /\ Fed(b)
  BY RefreshedIsFed
<1>2. report[p] = "HEALTHY" /\ MultipleSources(b) = {}
  BY DEF AdapterState
<1>3. Eligible(b, p) # {} /\ quiet[p] \in 0 .. QuoteStaleAfter
  BY <1>2, ReportFacts
<1>4. b.lease[p] \in Eligible(b, p)
  BY <1>1, <1>3 DEF Fed
<1>5. IsFiniteSet(Eligible(b, p))
  BY <1>1, EligibleIsDoc, DocAssumption, FS_Subset
<1>6. ~(Cardinality(Eligible(b, p)) > 1)
  BY <1>2 DEF MultipleSources
<1> DEFINE others == Eligible(b, p) \ {b.lease[p]}
<1>7. /\ IsFiniteSet(others)
      /\ Cardinality(others) = Cardinality(Eligible(b, p)) - 1
  BY <1>4, <1>5, FS_RemoveElement
<1>8. Cardinality(others) = 0
  BY <1>5, <1>6, <1>7, FS_CardinalityType
<1>9. others = {}
  BY <1>7, <1>8, FS_EmptySet
<1> QED BY <1>3, <1>4, <1>9

\* Pairs are judged by all fresh documents, leases by the eligible ones, the
\* connection by the ready ones: after any heartbeats, failovers, expiries and
\* evictions, of any documents, pair_health and the leases tell one story.
THEOREM ReportsTellOfLeases == FeedSpec => []ReportsMatchLease
BY Reported, FeedInvariant, PTL

\* CONNECTED is only said when each pair's one eligible document has the lease
\* and its last valid tick is recent.
THEOREM ConnectedMeansServed == FeedSpec => []ConnectedIsServed
BY ServedWhenConnected, FeedInvariant, PTL
=============================================================================
