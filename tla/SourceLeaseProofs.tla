-------------------------- MODULE SourceLeaseProofs --------------------------
(***************************************************************************)
(* Theorems about SourceLease.  Every request ends in a refresh; what the  *)
(* refresh does (RefreshedFacts) carries the argument, together with what  *)
(* a request does to the holder of a lease before its last refresh.        *)
(***************************************************************************)
EXTENDS SourceLease, TLAPS, WellFoundedInduction, FiniteSetTheorems

\* min() of a non-empty set of session ids is one of them.
LEMMA MinIsMember ==
    ASSUME NEW S \in SUBSET (Nat \ {0}), S # {}
    PROVE  Min(S) \in S
<1> DEFINE R == OpToRel(<, Nat)
<1>1. IsWellFoundedOn(R, Nat)
  BY NatLessThanWellFounded
<1>2. S \subseteq Nat
  OBVIOUS
<1>3. \E x \in S : \A y \in S : ~(<<y, x>> \in R)
  <2> HIDE DEF R
  <2> QED BY <1>1, <1>2, WFMin
<1>4. PICK x \in S : \A y \in S : ~(<<y, x>> \in R)
  BY <1>3
<1>5. \A y \in S : x =< y
  <2> TAKE y \in S
  <2>1. ~(<<y, x>> \in R)
    BY <1>4
  <2>2. x \in Nat /\ y \in Nat
    BY <1>2, <1>4
  <2>3. ~(y < x)
    BY <2>1, <2>2 DEF OpToRel
  <2> QED BY <2>2, <2>3
<1>6. \E m \in S : \A y \in S : m =< y
  BY <1>5
<1> QED BY <1>6 DEF Min

-----------------------------------------------------------------------------
Old(b) == {d \in b.known : b.age[d] > ExpireAfter}

LEMMA ForgottenFacts ==
    ASSUME NEW b \in Bridge, NEW docs \in SUBSET Doc
    PROVE  LET f == Forgotten(b, docs) IN
           /\ f \in Bridge
           /\ f.known = b.known \ docs
           /\ f.remembered = b.remembered \ docs
           /\ f.lease = b.lease
           /\ \A d \in Doc \ docs : /\ f.age[d] = b.age[d]
                                    /\ f.ready[d] = b.ready[d]
                                    /\ f.status[d] = b.status[d]
<1> DEFINE f == Forgotten(b, docs)
<1>1. 0 \in Age
  BY AgeAssumption DEF Age
<1>2. NoPairs \in [Pair -> Status]
  BY DEF NoPairs, Status
<1>3. f.age \in [Doc -> Age]
  BY <1>1 DEF Forgotten, Bridge
<1>4. f.ready \in [Doc -> BOOLEAN]
  BY DEF Forgotten, Bridge
<1>5. f.status \in [Doc -> [Pair -> Status]]
  BY <1>2 DEF Forgotten, Bridge
<1>6. f \in Bridge
  BY <1>3, <1>4, <1>5 DEF Forgotten, Bridge
<1>7. \A d \in Doc \ docs : f.age[d] = b.age[d] /\ f.status[d] = b.status[d]
  BY DEF Forgotten, Bridge
<1>8. \A d \in Doc \ docs : f.ready[d] = b.ready[d]
  BY DEF Forgotten, Bridge
<1> QED BY <1>6, <1>7, <1>8 DEF Forgotten, Bridge

LEMMA UnleasedFacts ==
    ASSUME NEW b \in Bridge, NEW docs \in SUBSET Doc
    PROVE  LET u == Unleased(b, docs) IN
           /\ u \in Bridge
           /\ u.known = b.known /\ u.age = b.age /\ u.ready = b.ready
           /\ u.status = b.status /\ u.remembered = b.remembered
           /\ \A p \in Pair :
                u.lease[p] = IF b.lease[p] \in docs THEN None ELSE b.lease[p]
BY DEF Unleased, Bridge

LEMMA EligibleIsDoc ==
    ASSUME NEW b \in Bridge, NEW p \in Pair
    PROVE  /\ Eligible(b, p) \subseteq Doc
           /\ Eligible(b, p) \subseteq b.known
           /\ None \notin Eligible(b, p)
BY DocAssumption DEF Eligible, Fresh, Bridge, None

\* Eligibility is about the session, whatever the lease.
LEMMA SameEligible ==
    ASSUME NEW b \in Bridge, NEW c \in Bridge, NEW p \in Pair, NEW d \in Doc,
           d \in b.known <=> d \in c.known,
           b.age[d] = c.age[d], b.ready[d] = c.ready[d], b.status[d] = c.status[d]
    PROVE  d \in Eligible(b, p) <=> d \in Eligible(c, p)
BY DEF Eligible, Fresh, Bridge

LEMMA ExpiredFacts ==
    ASSUME NEW b \in Bridge
    PROVE  LET e == Expired(b) IN
           /\ e \in Bridge
           /\ e.known \subseteq b.known
           /\ e.remembered \subseteq b.remembered
           /\ \A d \in b.known \ e.known : d \notin e.remembered
           /\ \A p \in Pair : Eligible(e, p) = Eligible(b, p)
           /\ \A p \in Pair : b.lease[p] \in Eligible(b, p) => e.lease[p] = b.lease[p]
<1> DEFINE f == Forgotten(b, Old(b))
           e == Expired(b)
<1>1. Old(b) \in SUBSET Doc
  BY DEF Old, Bridge
<1>2. e = Unleased(f, Old(b))
  BY DEF Expired, Old
<1>3. /\ f \in Bridge /\ f.known = b.known \ Old(b)
      /\ f.remembered = b.remembered \ Old(b) /\ f.lease = b.lease
      /\ \A d \in Doc \ Old(b) : /\ f.age[d] = b.age[d] /\ f.ready[d] = b.ready[d]
                                 /\ f.status[d] = b.status[d]
  BY <1>1, ForgottenFacts
<1>4. /\ e \in Bridge /\ e.known = f.known /\ e.age = f.age /\ e.ready = f.ready
      /\ e.status = f.status /\ e.remembered = f.remembered
      /\ \A p \in Pair :
            e.lease[p] = IF f.lease[p] \in Old(b) THEN None ELSE f.lease[p]
  BY <1>1, <1>2, <1>3, UnleasedFacts
<1> HIDE DEF e, f
<1>5. ASSUME NEW p \in Pair, NEW d \in Eligible(b, p)
      PROVE  d \notin Old(b)
  <2>1. d \in Doc /\ b.age[d] <= StaleAfter
    BY DEF Eligible, Fresh, Bridge
  <2>2. b.age[d] \in Int /\ StaleAfter \in Int /\ ExpireAfter \in Int
    BY <2>1, AgeAssumption DEF Bridge, Age
  <2> QED BY <2>1, <2>2, AgeAssumption DEF Old
<1>6. ASSUME NEW p \in Pair
      PROVE  Eligible(e, p) = Eligible(b, p)
  <2>1. ASSUME NEW d \in Doc, d \notin Old(b)
        PROVE  d \in Eligible(e, p) <=> d \in Eligible(b, p)
    BY <1>3, <1>4, <2>1, SameEligible
  <2>2. Old(b) \cap Eligible(e, p) = {}
    BY <1>3, <1>4, EligibleIsDoc
  <2>3. Eligible(e, p) \subseteq Doc /\ Eligible(b, p) \subseteq Doc
    BY <1>4, EligibleIsDoc
  <2> QED BY <1>5, <2>1, <2>2, <2>3
<1> QED BY <1>3, <1>4, <1>5, <1>6 DEF e

-----------------------------------------------------------------------------
\* What a refresh establishes: each pair that can be served is.
Fed(b) ==
    \A p \in Pair : IF Eligible(b, p) = {} THEN b.lease[p] = None
                    ELSE b.lease[p] \in Eligible(b, p)

\* From b to c no holder that stays eligible loses its lease.
Keeps(b, c) ==
    \A p \in Pair : b.lease[p] \in Eligible(b, p) /\ b.lease[p] \in Eligible(c, p)
                    => c.lease[p] = b.lease[p]

\* From b to c whoever leaves the table is not remembered.
Sheds(b, c) ==
    /\ c.remembered \subseteq b.remembered
    /\ \A d \in b.known \ c.known : d \notin c.remembered

LEMMA ShedsTwice ==
    ASSUME NEW a, NEW b, NEW c, Sheds(a, b), Sheds(b, c)
    PROVE  Sheds(a, c)
BY DEF Sheds

LEMMA HolderFacts ==
    ASSUME NEW b \in Bridge, NEW p \in Pair
    PROVE  /\ IF Eligible(b, p) = {} THEN Holder(b, p) = None
              ELSE Holder(b, p) \in Eligible(b, p)
           /\ b.lease[p] \in Eligible(b, p) => Holder(b, p) = b.lease[p]
<1>1. Eligible(b, p) \in SUBSET (Nat \ {0})
  BY EligibleIsDoc, DocAssumption
<1>2. Eligible(b, p) # {} => Min(Eligible(b, p)) \in Eligible(b, p)
  BY <1>1, MinIsMember
<1> QED BY <1>2 DEF Holder

LEMMA RefreshedFacts ==
    ASSUME NEW b \in Bridge
    PROVE  LET r == Refreshed(b) IN
           /\ r \in Bridge /\ Fed(r) /\ Sheds(b, r)
           /\ r.known \subseteq b.known
           /\ \A p \in Pair : Eligible(r, p) = Eligible(b, p)
           /\ \A p \in Pair : b.lease[p] \in Eligible(b, p) => r.lease[p] = b.lease[p]
<1> DEFINE e == Expired(b)
           r == Refreshed(b)
<1>1. /\ e \in Bridge /\ e.known \subseteq b.known /\ Sheds(b, e)
      /\ \A p \in Pair : Eligible(e, p) = Eligible(b, p)
      /\ \A p \in Pair : b.lease[p] \in Eligible(b, p) => e.lease[p] = b.lease[p]
  BY ExpiredFacts DEF Sheds
<1>2. r = [e EXCEPT !.lease = [p \in Pair |-> Holder(e, p)]]
  BY DEF Refreshed
<1> HIDE DEF e, r
<1>3. \A p \in Pair : Holder(e, p) \in Doc \cup {None}
  BY <1>1, HolderFacts, EligibleIsDoc
<1>4. /\ r \in Bridge /\ r.known = e.known /\ r.age = e.age /\ r.ready = e.ready
      /\ r.status = e.status /\ r.remembered = e.remembered
      /\ \A p \in Pair : r.lease[p] = Holder(e, p)
  BY <1>1, <1>2, <1>3 DEF Bridge
<1>5. \A p \in Pair : Eligible(r, p) = Eligible(e, p)
  BY <1>4 DEF Eligible, Fresh
<1>6. Fed(r)
  BY <1>1, <1>4, <1>5, HolderFacts DEF Fed
<1>7. \A p \in Pair : b.lease[p] \in Eligible(b, p) => r.lease[p] = b.lease[p]
  BY <1>1, <1>4, HolderFacts
<1>8. Sheds(b, r)
  BY <1>1, <1>4 DEF Sheds
<1> QED BY <1>1, <1>4, <1>5, <1>6, <1>7, <1>8 DEF r

LEMMA TouchedFacts ==
    ASSUME NEW b \in Bridge, NEW d \in Doc, NEW ready \in BOOLEAN,
           NEW status \in [Pair -> Status]
    PROVE  LET t == Touched(b, d, ready, status) IN
           /\ t \in Bridge /\ t.known = b.known \cup {d}
           /\ t.ready[d] = ready /\ t.lease = b.lease
           /\ t.remembered = b.remembered
<1>1. 0 \in Age
  BY AgeAssumption DEF Age
<1> QED BY <1>1 DEF Touched, Bridge

\* The tables that touch_bridge_session refreshes at its end.
LEMMA TouchResultsFacts ==
    ASSUME bridge \in Bridge, NEW d \in Doc, NEW ready \in BOOLEAN,
           NEW status \in [Pair -> Status],
           NEW b \in TouchResults(d, ready, status)
    PROVE  /\ b \in Bridge /\ Fed(b) /\ Keeps(bridge, b) /\ Sheds(bridge, b)
           /\ ~ready => \A p \in Pair : d \notin Eligible(b, p)
           /\ Cardinality(bridge.known) <= MaxSessions
                => Cardinality(b.known) <= MaxSessions
<1> DEFINE r == Refreshed(bridge)
           t == Touched(r, d, ready, status)
<1>1. /\ r \in Bridge /\ Sheds(bridge, r) /\ r.known \subseteq bridge.known
      /\ \A p \in Pair : bridge.lease[p] \in Eligible(bridge, p)
                          => r.lease[p] = bridge.lease[p]
  BY RefreshedFacts
<1>2. /\ t \in Bridge /\ t.known = r.known \cup {d} /\ t.ready[d] = ready
      /\ t.lease = r.lease /\ t.remembered = r.remembered
  <2> HIDE DEF r
  <2> QED BY <1>1, TouchedFacts
<1>3. PICK docs \in Evicted(t, d) : b = Refreshed(Forgotten(t, docs))
  BY DEF TouchResults
<1> DEFINE f == Forgotten(t, docs)
<1> HIDE DEF r, t
<1>4. docs \in SUBSET Doc
  BY <1>2 DEF Evicted, Bridge
<1>5. /\ f \in Bridge /\ f.known = t.known \ docs
      /\ f.remembered = t.remembered \ docs /\ f.lease = t.lease
  BY <1>2, <1>4, ForgottenFacts
<1>6. ~ready => ~f.ready[d]
  BY <1>2 DEF Forgotten, Bridge
<1> HIDE DEF f
<1>7. /\ b \in Bridge /\ Fed(b) /\ Sheds(f, b) /\ b.known \subseteq f.known
      /\ \A p \in Pair : Eligible(b, p) = Eligible(f, p)
      /\ \A p \in Pair : f.lease[p] \in Eligible(f, p) => b.lease[p] = f.lease[p]
  BY <1>3, <1>5, RefreshedFacts DEF f
<1>8. Keeps(bridge, b)
  BY <1>1, <1>2, <1>5, <1>7 DEF Keeps
<1>9. Sheds(bridge, b)
  <2>1. Sheds(r, f)
    BY <1>2, <1>5 DEF Sheds
  <2> QED BY <1>1, <1>7, <2>1, ShedsTwice
<1>10. ~ready => \A p \in Pair : d \notin Eligible(b, p)
  BY <1>6, <1>7 DEF Eligible
<1>11. ASSUME Cardinality(bridge.known) <= MaxSessions
       PROVE  Cardinality(b.known) <= MaxSessions
  <2>1. IsFiniteSet(t.known) /\ IsFiniteSet(r.known) /\ IsFiniteSet(bridge.known)
    BY <1>1, <1>2, DocAssumption, FS_Subset DEF Bridge
  <2>2. /\ Cardinality(r.known) \in Nat /\ Cardinality(t.known) \in Nat
        /\ Cardinality(bridge.known) \in Nat
    BY <2>1, FS_CardinalityType
  <2>3. Cardinality(r.known) <= Cardinality(bridge.known)
    BY <1>1, <2>1, FS_Subset
  <2>4. Cardinality(t.known) <= Cardinality(r.known) + 1
    <3>1. CASE d \in r.known
      <4>1. t.known = r.known
        BY <1>2, <3>1
      <4> QED BY <2>2, <4>1
    <3>2. CASE d \notin r.known
      <4>1. Cardinality(r.known \cup {d}) = Cardinality(r.known) + 1
        BY <2>1, <3>2, FS_AddElement
      <4> QED BY <1>2, <2>2, <4>1
    <3> QED BY <3>1, <3>2
  <2>5. IsFiniteSet(f.known)
    BY <1>5, <2>1, FS_Subset
  <2>6. /\ Cardinality(b.known) <= Cardinality(f.known)
        /\ Cardinality(b.known) \in Nat /\ Cardinality(f.known) \in Nat
    BY <1>7, <2>5, FS_Subset, FS_CardinalityType
  <2>7. Cardinality(f.known) <= MaxSessions
    <3>1. CASE Cardinality(t.known) <= MaxSessions
      <4>1. docs = {}
        BY <3>1 DEF Evicted
      <4>2. f.known = t.known
        BY <1>5, <4>1
      <4> QED BY <3>1, <4>2
    <3>2. CASE ~(Cardinality(t.known) <= MaxSessions)
      <4>1. PICK o \in t.known : docs = {o}
        BY <3>2 DEF Evicted
      <4>2. f.known = t.known \ {o}
        BY <1>5, <4>1
      <4>3. Cardinality(f.known) = Cardinality(t.known) - 1
        BY <2>1, <4>2, FS_RemoveElement
      <4> QED BY <1>11, <2>2, <2>3, <2>4, <4>3, BoundsAssumption
    <3> QED BY <3>1, <3>2
  <2> QED BY <2>6, <2>7, BoundsAssumption
<1> QED BY <1>7, <1>8, <1>9, <1>10, <1>11

\* A document that is not ready gives its leases up.
LEMMA StoppedFacts ==
    ASSUME NEW b \in Bridge, NEW d \in Doc,
           \A p \in Pair : d \notin Eligible(b, p)
    PROVE  LET s == Stopped(b, d) IN
           /\ s \in Bridge /\ Fed(s) /\ Sheds(b, s) /\ s.known \subseteq b.known
           /\ \A p \in Pair : Eligible(s, p) = Eligible(b, p)
           /\ \A p \in Pair : b.lease[p] \in Eligible(b, p) => s.lease[p] = b.lease[p]
<1> DEFINE u == Unleased(b, {d})
           v == [u EXCEPT !.remembered = @ \ {d}]
           s == Stopped(b, d)
<1>1. /\ u \in Bridge /\ u.known = b.known /\ u.age = b.age /\ u.ready = b.ready
      /\ u.status = b.status /\ u.remembered = b.remembered
      /\ \A p \in Pair : u.lease[p] = IF b.lease[p] = d THEN None ELSE b.lease[p]
  BY UnleasedFacts
<1> HIDE DEF u
<1>2. /\ v \in Bridge /\ v.known = b.known /\ v.age = b.age /\ v.ready = b.ready
      /\ v.status = b.status /\ v.lease = u.lease
      /\ v.remembered = b.remembered \ {d}
  BY <1>1 DEF Bridge
<1>3. s = Refreshed(v)
  BY DEF Stopped, u
<1> HIDE DEF v, s
<1>4. \A p \in Pair : Eligible(v, p) = Eligible(b, p)
  BY <1>2 DEF Eligible, Fresh
<1>5. /\ s \in Bridge /\ Fed(s) /\ Sheds(v, s) /\ s.known \subseteq v.known
      /\ \A p \in Pair : Eligible(s, p) = Eligible(v, p)
      /\ \A p \in Pair : v.lease[p] \in Eligible(v, p) => s.lease[p] = v.lease[p]
  BY <1>2, <1>3, RefreshedFacts
<1>6. Sheds(b, s)
  BY <1>2, <1>5 DEF Sheds
<1>7. ASSUME NEW p \in Pair, b.lease[p] \in Eligible(b, p)
      PROVE  s.lease[p] = b.lease[p]
  BY <1>1, <1>2, <1>4, <1>5, <1>7
<1> QED BY <1>2, <1>4, <1>5, <1>6, <1>7 DEF s

-----------------------------------------------------------------------------
\* What every request does to the bridge.
Served ==
    /\ bridge' \in Bridge /\ Fed(bridge')
    /\ Keeps(bridge, bridge') /\ Sheds(bridge, bridge')
    /\ Cardinality(bridge.known) <= MaxSessions
         => Cardinality(bridge'.known) <= MaxSessions

LEMMA HeartbeatServes ==
    ASSUME bridge \in Bridge, NEW d \in Doc, NEW ready \in BOOLEAN,
           NEW status \in [Pair -> Status], Heartbeat(d, ready, status)
    PROVE  Served
<1>1. PICK b \in TouchResults(d, ready, status) :
         bridge' = IF ready THEN b ELSE Stopped(b, d)
  BY DEF Heartbeat
<1>2. /\ b \in Bridge /\ Fed(b) /\ Keeps(bridge, b) /\ Sheds(bridge, b)
      /\ ~ready => \A p \in Pair : d \notin Eligible(b, p)
      /\ Cardinality(bridge.known) <= MaxSessions
           => Cardinality(b.known) <= MaxSessions
  BY TouchResultsFacts
<1>3. CASE ready
  BY <1>1, <1>2, <1>3 DEF Served
<1>4. CASE ~ready
  <2>1. bridge' = Stopped(b, d)
    BY <1>1, <1>4
  <2>2. /\ bridge' \in Bridge /\ Fed(bridge') /\ Sheds(b, bridge')
        /\ bridge'.known \subseteq b.known
        /\ \A p \in Pair : Eligible(bridge', p) = Eligible(b, p)
        /\ \A p \in Pair :
             b.lease[p] \in Eligible(b, p) => bridge'.lease[p] = b.lease[p]
    BY <1>2, <1>4, <2>1, StoppedFacts
  <2>3. Keeps(bridge, bridge')
    BY <1>2, <2>2 DEF Keeps
  <2>4. Sheds(bridge, bridge')
    BY <1>2, <2>2, ShedsTwice
  <2>5. Cardinality(bridge'.known) <= Cardinality(b.known)
    <3>1. IsFiniteSet(b.known)
      BY <1>2, DocAssumption, FS_Subset DEF Bridge
    <3> QED BY <2>2, <3>1, FS_Subset
  <2>6. Cardinality(bridge'.known) \in Nat /\ Cardinality(b.known) \in Nat
    BY <1>2, <2>2, DocAssumption, FS_Subset, FS_CardinalityType DEF Bridge
  <2>7. Cardinality(bridge.known) <= MaxSessions
          => Cardinality(bridge'.known) <= MaxSessions
    BY <1>2, <2>5, <2>6, BoundsAssumption
  <2> QED BY <2>2, <2>3, <2>4, <2>7 DEF Served
<1> QED BY <1>3, <1>4

LEMMA ObserveServes ==
    ASSUME TypeOK, NEW d \in Doc, NEW p \in Pair, Observe(d, p)
    PROVE  Served /\ admitted' \in SUBSET (Doc \X Pair)
<1> DEFINE status == Observed(Refreshed(bridge), d, p)
<1>1. PICK b \in TouchResults(d, TRUE, status) :
         /\ bridge' = b
         /\ \/ admitted' = admitted \cup {<<d, p>>}
            \/ admitted' = admitted
  BY DEF Observe
<1>2. bridge \in Bridge
  BY DEF TypeOK
<1>3. Refreshed(bridge) \in Bridge
  BY <1>2, RefreshedFacts
<1>4. status \in [Pair -> Status]
  BY <1>3 DEF Observed, Bridge, Status, Serving
<1> HIDE DEF status
<1>5. Served
  BY <1>1, <1>2, <1>4, TouchResultsFacts DEF Served
<1> QED BY <1>1, <1>5 DEF TypeOK

LEMMA PollServes ==
    ASSUME bridge \in Bridge, Poll
    PROVE  Served
<1>1. /\ bridge' \in Bridge /\ Fed(bridge') /\ Sheds(bridge, bridge')
      /\ bridge'.known \subseteq bridge.known
      /\ \A p \in Pair : bridge.lease[p] \in Eligible(bridge, p)
                          => bridge'.lease[p] = bridge.lease[p]
  BY RefreshedFacts DEF Poll
<1>2. Keeps(bridge, bridge')
  BY <1>1 DEF Keeps
<1>3. IsFiniteSet(bridge.known)
  BY DocAssumption, FS_Subset DEF Bridge
<1>4. /\ Cardinality(bridge'.known) <= Cardinality(bridge.known)
      /\ Cardinality(bridge'.known) \in Nat /\ Cardinality(bridge.known) \in Nat
  BY <1>1, <1>3, FS_Subset, FS_CardinalityType
<1> QED BY <1>1, <1>2, <1>4, BoundsAssumption DEF Served

\* The steps of Next: a request, the worker's Process, or time.
LEMMA Steps ==
    ASSUME TypeOK, Next
    PROVE  \/ Served /\ admitted' \in SUBSET (Doc \X Pair)
           \/ \E d \in Doc, p \in Pair, tick \in BOOLEAN : Process(d, p, tick)
           \/ Tick
<1>1. ASSUME NEW d \in Doc, NEW ready \in BOOLEAN, NEW status \in [Pair -> Reports],
             Heartbeat(d, ready, status)
      PROVE  Served /\ admitted' \in SUBSET (Doc \X Pair)
  <2>1. status \in [Pair -> Status]
    BY ReportsAssumption
  <2>2. Served
    BY <1>1, <2>1, HeartbeatServes DEF TypeOK
  <2> QED BY <1>1, <2>2 DEF Heartbeat, TypeOK
<1>2. ASSUME NEW d \in Doc, NEW p \in Pair, Observe(d, p)
      PROVE  Served /\ admitted' \in SUBSET (Doc \X Pair)
  BY <1>2, ObserveServes
<1>3. ASSUME Poll
      PROVE  Served /\ admitted' \in SUBSET (Doc \X Pair)
  <2>1. Served
    BY <1>3, PollServes DEF TypeOK
  <2> QED BY <1>3, <2>1 DEF Poll, TypeOK
<1> QED BY <1>1, <1>2, <1>3 DEF Next

LEMMA ProcessFacts ==
    ASSUME TypeOK, NEW d \in Doc, NEW p \in Pair, NEW tick \in BOOLEAN,
           Process(d, p, tick)
    PROVE  /\ bridge' \in Bridge /\ admitted' \in SUBSET (Doc \X Pair)
           /\ <<d, p>> \in admitted /\ <<d, p>> \notin admitted'
           /\ bridge'.known = bridge.known /\ bridge'.ready = bridge.ready
           /\ bridge'.status = bridge.status /\ bridge'.lease = bridge.lease
BY DEF Process, TypeOK, Bridge

LEMMA TickFacts ==
    ASSUME TypeOK, Tick
    PROVE  /\ bridge' \in Bridge /\ admitted' = admitted
           /\ bridge'.known = bridge.known /\ bridge'.ready = bridge.ready
           /\ bridge'.status = bridge.status /\ bridge'.lease = bridge.lease
<1> DEFINE age == [d \in Doc |-> IF d \in bridge.known /\ bridge.age[d] <= ExpireAfter
                                THEN bridge.age[d] + 1 ELSE bridge.age[d]]
<1>1. age \in [Doc -> Age]
  BY AgeAssumption DEF TypeOK, Bridge, Age
<1>2. bridge' = [bridge EXCEPT !.age = age]
  BY DEF Tick, TypeOK, Bridge
<1> HIDE DEF age
<1> QED BY <1>1, <1>2 DEF Tick, TypeOK, Bridge

LEMMA FedServes ==
    ASSUME bridge' \in Bridge, Fed(bridge')
    PROVE  HolderServes'
BY DEF Fed, HolderServes, Eligible, Fresh

\* The inductive invariant: no part of it needs another but the types.
IInv == TypeOK /\ HolderServes /\ SessionsBounded

LEMMA InitIInv == Init => IInv
<1> SUFFICES ASSUME Init PROVE IInv
  OBVIOUS
<1>1. 0 \in Age
  BY AgeAssumption DEF Age
<1>2. NoPairs \in [Pair -> Status]
  BY DEF NoPairs, Status
<1>3. TypeOK
  BY <1>1, <1>2 DEF Init, TypeOK, EmptyBridge, Bridge
<1>4. HolderServes
  BY DEF Init, EmptyBridge, HolderServes
<1>5. SessionsBounded
  BY FS_EmptySet, BoundsAssumption DEF Init, EmptyBridge, SessionsBounded
<1> QED BY <1>3, <1>4, <1>5 DEF IInv

LEMMA NextIInv == IInv /\ [Next]_vars => IInv'
<1> SUFFICES ASSUME IInv, [Next]_vars PROVE IInv'
  OBVIOUS
<1>1. TypeOK /\ HolderServes /\ SessionsBounded
  BY DEF IInv
<1>2. CASE Served /\ admitted' \in SUBSET (Doc \X Pair)
  <2>1. TypeOK'
    BY <1>2 DEF Served, TypeOK
  <2>2. HolderServes'
    BY <1>2, FedServes DEF Served
  <2>3. SessionsBounded'
    BY <1>1, <1>2 DEF Served, SessionsBounded
  <2> QED BY <2>1, <2>2, <2>3 DEF IInv
<1>3. ASSUME NEW d \in Doc, NEW p \in Pair, NEW tick \in BOOLEAN, Process(d, p, tick)
      PROVE  IInv'
  <2>1. /\ bridge' \in Bridge /\ admitted' \in SUBSET (Doc \X Pair)
        /\ bridge'.known = bridge.known /\ bridge'.ready = bridge.ready
        /\ bridge'.status = bridge.status /\ bridge'.lease = bridge.lease
    BY <1>1, <1>3, ProcessFacts
  <2> QED BY <1>1, <2>1 DEF IInv, TypeOK, HolderServes, SessionsBounded
<1>4. CASE Tick
  <2>1. /\ bridge' \in Bridge /\ admitted' = admitted
        /\ bridge'.known = bridge.known /\ bridge'.ready = bridge.ready
        /\ bridge'.status = bridge.status /\ bridge'.lease = bridge.lease
    BY <1>1, <1>4, TickFacts
  <2> QED BY <1>1, <2>1 DEF IInv, TypeOK, HolderServes, SessionsBounded
<1>5. CASE UNCHANGED vars
  BY <1>1, <1>5 DEF vars, IInv, TypeOK, HolderServes, SessionsBounded
<1> QED BY <1>1, <1>2, <1>3, <1>4, <1>5, Steps

\* Types, leases with ready sessions that serve, and the bound of the table
\* survive every request, expiry and eviction.
THEOREM Invariant == Spec => []IInv
BY InitIInv, NextIInv, PTL DEF Spec

\* The types of main.py's tables hold for any documents, pairs and ages.
THEOREM TypeCorrect == Spec => []TypeOK
<1>1. IInv => TypeOK
  BY DEF IInv
<1> QED BY <1>1, Invariant, PTL

\* A pair's active source is always a session that exists, is ready and serves
\* the pair: expiry, eviction and stops never leave a dangling lease.
THEOREM HoldersServe == Spec => []HolderServes
<1>1. IInv => HolderServes
  BY DEF IInv
<1> QED BY <1>1, Invariant, PTL

\* The session table keeps its types, and touch_bridge_session keeps it within
\* its limit.
THEOREM Bounded == Spec => []TableOK
<1>1. IInv => TableOK
  BY DEF IInv, TableOK
<1> QED BY <1>1, Invariant, PTL

\* Failover is sticky: an eligible holder never loses its lease to another
\* document, whatever requests, expiries and evictions come.
THEOREM Sticky == Spec => LeaseIsSticky
<1> DEFINE Kept == \A p \in Pair :
          /\ bridge.lease[p] \in Eligible(bridge, p)
          /\ bridge'.lease[p] # bridge.lease[p]
          => bridge.lease[p] \notin Eligible(bridge', p)
<1>1. ASSUME IInv, Next
      PROVE  Kept
  <2>1. TypeOK
    BY <1>1 DEF IInv
  <2>2. CASE Served
    BY <2>2 DEF Served, Keeps
  <2>3. ASSUME NEW d \in Doc, NEW p \in Pair, NEW tick \in BOOLEAN, Process(d, p, tick)
        PROVE  bridge'.lease = bridge.lease
    BY <2>1, <2>3, ProcessFacts
  <2>4. CASE Tick
    BY <2>1, <2>4, TickFacts
  <2> QED BY <1>1, <2>1, <2>2, <2>3, <2>4, Steps
<1>2. IInv /\ [Next]_vars => [Kept]_vars
  BY <1>1
<1> QED BY <1>2, Invariant, PTL DEF Spec, LeaseIsSticky

\* A request never leaves a pair without a source that a document could serve.
THEOREM NeverIdle == Spec => NoIdlePair
<1> DEFINE Requested == ~Tick /\ admitted \subseteq admitted' => \A p \in Pair :
          Eligible(bridge', p) # {} => bridge'.lease[p] \in Eligible(bridge', p)
<1>1. ASSUME IInv, Next
      PROVE  Requested
  <2>1. TypeOK
    BY <1>1 DEF IInv
  <2>2. CASE Served
    BY <2>2 DEF Served, Fed
  <2>3. ASSUME NEW d \in Doc, NEW p \in Pair, NEW tick \in BOOLEAN, Process(d, p, tick)
        PROVE  ~(admitted \subseteq admitted')
    BY <2>1, <2>3, ProcessFacts
  <2> QED BY <1>1, <2>1, <2>2, <2>3, Steps
<1>2. IInv /\ [Next]_vars => [Requested]_vars
  BY <1>1
<1> QED BY <1>2, Invariant, PTL DEF Spec, NoIdlePair

\* A session that leaves the table takes the adapter's memory of it along.
THEOREM Cleared == Spec => ClearedWithSession
<1> DEFINE Gone == \A d \in bridge.known \ bridge'.known : d \notin bridge'.remembered
<1>1. ASSUME IInv, Next
      PROVE  Gone
  <2>1. TypeOK
    BY <1>1 DEF IInv
  <2>2. CASE Served
    BY <2>2 DEF Served, Sheds
  <2>3. ASSUME NEW d \in Doc, NEW p \in Pair, NEW tick \in BOOLEAN, Process(d, p, tick)
        PROVE  bridge'.known = bridge.known
    BY <2>1, <2>3, ProcessFacts
  <2>4. CASE Tick
    BY <2>1, <2>4, TickFacts
  <2> QED BY <1>1, <2>1, <2>2, <2>3, <2>4, Steps
<1>2. IInv /\ [Next]_vars => [Gone]_vars
  BY <1>1
<1> QED BY <1>2, Invariant, PTL DEF Spec, ClearedWithSession
=============================================================================
