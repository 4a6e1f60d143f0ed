---------------------------- MODULE OutboxProofs ----------------------------
(***************************************************************************)
(* Theorems about Outbox, for every number of groups, every capacity and   *)
(* any number of kills, restarts and faults.                               *)
(*                                                                         *)
(* OutboxInv is inductive.  Reconciled alone is not: a save is only as     *)
(* good as the load it rests on, which is NoStaleOperation, and a head     *)
(* stays a head because arrival numbers grow, which is Numbered.           *)
(***************************************************************************)
EXTENDS Outbox, SequenceLemmas, FiniteSetTheorems, TLAPS

USE GroupsAssumption, SizeAssumption

-----------------------------------------------------------------------------
\* The cursor walks through the groups and distances from it are below N.
LEMMA CursorType ==
    ASSUME NEW g \in Group
    PROVE  CursorAfter(g) \in Group
BY DEF Group, CursorAfter

LEMMA DistanceType ==
    ASSUME cursor \in Group, NEW g \in Group
    PROVE  Distance(g) \in 0 .. N - 1
BY DEF Group, Distance

\* Increment adds one to one field of the rows the event counts in.
LEMMA IncrementType ==
    ASSUME NEW s \in Stats, NEW g \in Group, NEW f \in Field
    PROVE  Increment(s, g, f) \in Stats
BY DEF Stats, Increment, Row, Field

LEMMA IncrementValue ==
    ASSUME NEW s \in Stats, NEW g \in Group, NEW f \in Field, NEW r \in Row
    PROVE  /\ Increment(s, g, f)[r] \in [Field -> Nat]
           /\ \A h \in Field :
                 Increment(s, g, f)[r][h] =
                     IF h = f /\ r \in RowsOf(g) THEN s[r][h] + 1 ELSE s[r][h]
BY DEF Stats, Increment, Row, Field

LEMMA EmptyStatsType == EmptyStats \in Stats
BY DEF EmptyStats, Stats, Row, Field

\* Storing one event more, or one less, moves the pending count of exactly
\* the rows that event counts in.
LEMMA PendingAdd ==
    ASSUME NEW E, IsFiniteSet(E), NEW e, e \notin E, NEW r
    PROVE  /\ IsFiniteSet(Pending(E, r))
           /\ Cardinality(Pending(E, r)) \in Nat
           /\ Cardinality(Pending(E \cup {e}, r)) =
                 IF r \in RowsOf(e.group) THEN Cardinality(Pending(E, r)) + 1
                 ELSE Cardinality(Pending(E, r))
<1>1. IsFiniteSet(Pending(E, r))
  BY FS_Subset DEF Pending
<1>2. e \notin Pending(E, r)
  BY DEF Pending
<1>3. CASE r \in RowsOf(e.group)
  <2>1. Pending(E \cup {e}, r) = Pending(E, r) \cup {e}
    BY <1>3 DEF Pending
  <2> QED BY <1>1, <1>2, <1>3, <2>1, FS_AddElement, FS_CardinalityType
<1>4. CASE r \notin RowsOf(e.group)
  <2>1. Pending(E \cup {e}, r) = Pending(E, r)
    BY <1>4 DEF Pending
  <2> QED BY <1>1, <1>4, <2>1, FS_CardinalityType
<1> QED BY <1>3, <1>4

LEMMA PendingRemove ==
    ASSUME NEW E, IsFiniteSet(E), NEW e \in E, NEW r
    PROVE  /\ Cardinality(Pending(E, r)) \in Nat
           /\ Cardinality(Pending(E \ {e}, r)) \in Nat
           /\ Cardinality(Pending(E, r)) =
                 IF r \in RowsOf(e.group)
                 THEN Cardinality(Pending(E \ {e}, r)) + 1
                 ELSE Cardinality(Pending(E \ {e}, r))
<1>1. IsFiniteSet(E \ {e})
  BY FS_RemoveElement
<1>2. (E \ {e}) \cup {e} = E
  OBVIOUS
<1>3. Cardinality(Pending(E, r)) \in Nat
  BY FS_Subset, FS_CardinalityType DEF Pending
<1>4. e \notin E \ {e}
  OBVIOUS
<1>5. /\ Cardinality(Pending(E \ {e}, r)) \in Nat
      /\ Cardinality(Pending((E \ {e}) \cup {e}, r)) =
            IF r \in RowsOf(e.group) THEN Cardinality(Pending(E \ {e}, r)) + 1
            ELSE Cardinality(Pending(E \ {e}, r))
  BY ONLY <1>1, <1>4, PendingAdd
<1> QED BY <1>2, <1>3, <1>5

-----------------------------------------------------------------------------
LEMMA SettledType ==
    ASSUME NEW s \in Storage, NEW e \in Event, NEW answer
    PROVE  Settled(s, e, answer) \in Storage
<1>1. \A f \in Field : Increment(s.stats, e.group, f) \in Stats
  BY IncrementType DEF Storage, Event
<1>2. Increment(Increment(s.stats, e.group, "dropped"), e.group, "rejected")
        \in Stats
  BY <1>1, IncrementType DEF Event, Field
<1> QED BY <1>1, <1>2 DEF Settled, Storage, Field

LEMMA InitType == Init => TypeOK
BY EmptyStatsType DEF Init, TypeOK, Storage, Group, Caller, Event, NoAlarm

LEMMA TypeStep == TypeOK /\ [Next]_vars => TypeOK'
<1> SUFFICES ASSUME TypeOK, [Next]_vars PROVE TypeOK'
  OBVIOUS
<1> USE DEF TypeOK
<1>1. ASSUME NEW g \in Group, EnqueueLoad(g) PROVE TypeOK'
  BY <1>1 DEF EnqueueLoad, Event, Caller, drainVars
<1>2. ASSUME NEW s \in seen["enqueue"], NEW e \in arriving,
             EnqueueSave(s, e)
      PROVE  TypeOK'
  <2>1. s \in Storage /\ e \in Event
    BY DEF Caller
  <2>2. Increment(s.stats, e.group, "produced") \in Stats
    BY <2>1, IncrementType DEF Storage, Event, Field
  <2>3. Increment(Increment(s.stats, e.group, "produced"), e.group, "dropped")
          \in Stats
    BY <2>1, <2>2, IncrementType DEF Event, Field
  <2>4. stored' \in Storage
    BY <1>2, <2>1, <2>2, <2>3 DEF EnqueueSave, Storage
  <2> QED BY <1>2, <2>4 DEF EnqueueSave, StartDrain, Caller
<1>3. ASSUME NEW e \in stored.events, DrainSelect(e) PROVE TypeOK'
  <2>1. e \in Event
    BY DEF Storage
  <2>2. cursor' \in Group
    BY <1>3, <2>1, CursorType DEF DrainSelect, Event
  <2>3. bypassed' \in [Group -> Nat]
    BY <1>3 DEF DrainSelect, PassOver
  <2>4. current' \in SUBSET Event /\ attempted' \in SUBSET Nat
    BY <1>3, <2>1 DEF DrainSelect, Event
  <2> QED BY <1>3, <2>2, <2>3, <2>4 DEF DrainSelect
<1>4. CASE DrainEmpty
  BY <1>4 DEF DrainEmpty
<1>5. CASE DrainNothingDue
  BY <1>5 DEF DrainNothingDue, WakeFor, Storage, Event
<1>6. CASE DrainSchedule
  BY <1>6 DEF DrainSchedule, SetAlarm
<1>7. ASSUME NEW answer \in Answer, DrainAnswer(answer) PROVE TypeOK'
  BY <1>7 DEF DrainAnswer
<1>8. CASE SettleLoad
  BY <1>8 DEF SettleLoad, drainVars, Caller
<1>9. ASSUME NEW s \in seen["drain"], NEW e \in current, SettleSave(s, e)
      PROVE  TypeOK'
  <2>1. s \in Storage /\ e \in Event
    BY DEF Caller
  <2>2. stored' \in Storage
    BY <1>9, <2>1, SettledType DEF SettleSave
  <2> QED BY <1>9, <2>1, <2>2 DEF SettleSave, Event, Caller
<1>10. ASSUME NEW id \in backoff, Ripen(id) PROVE TypeOK'
  BY <1>10 DEF Ripen
<1>11. CASE AlarmFires
  BY <1>11 DEF AlarmFires, StartDrain, NoAlarm
<1>12. CASE WorkerKilled
  BY <1>12 DEF WorkerKilled, FreshWorker, Group
<1>13. CASE BrowserStart
  <2>1. alarm' \in [set : BOOLEAN, awaits : SUBSET Nat]
    <3>1. NoAlarm \in [set : BOOLEAN, awaits : SUBSET Nat]
      BY DEF NoAlarm
    <3>2. alarm' = alarm \/ alarm' = NoAlarm
      BY <1>13 DEF BrowserStart
    <3>3. CASE alarm' = alarm
      BY <3>3
    <3>4. CASE alarm' = NoAlarm
      BY <3>1, <3>4
    <3> QED BY <3>2, <3>3, <3>4
  <2>2. trouble' \in [kills : Nat, restarts : Nat, faults : Nat]
    BY <1>13 DEF BrowserStart
  <2> QED BY <1>13, <2>1, <2>2 DEF BrowserStart, FreshWorker, Group
<1>14. CASE EnqueueThrows
  BY <1>14 DEF EnqueueThrows, drainVars, Caller
<1>15. CASE DrainThrows
  BY <1>15 DEF DrainThrows, Caller
<1>16. CASE UNCHANGED vars
  BY <1>16 DEF vars
<1> QED
  BY <1>1, <1>2, <1>3, <1>4, <1>5, <1>6, <1>7, <1>8, <1>9, <1>10, <1>11,
     <1>12, <1>13, <1>14, <1>15, <1>16 DEF Next

\* Every variable keeps its type: what is loaded, stored and saved is always a
\* set of events with a full table of natural counters.
THEOREM TypeCorrect == Spec => []TypeOK
<1> QED BY InitType, TypeStep, PTL DEF Spec

-----------------------------------------------------------------------------
(* One lemma per conjunct of OutboxInv. *)

LEMMA StepNoStaleOperation == OutboxInv /\ [Next]_vars => NoStaleOperation'
<1> SUFFICES ASSUME OutboxInv, [Next]_vars PROVE NoStaleOperation'
  OBVIOUS
<1> USE DEF OutboxInv, NoStaleOperation, TypeOK, Caller
<1>1. ASSUME NEW g \in Group, EnqueueLoad(g) PROVE NoStaleOperation'
  BY <1>1 DEF EnqueueLoad, SerialFree, drainVars
<1>2. ASSUME NEW s \in seen["enqueue"], NEW e \in arriving,
             EnqueueSave(s, e)
      PROVE  NoStaleOperation'
  BY <1>2 DEF EnqueueSave
<1>3. ASSUME NEW e \in stored.events, DrainSelect(e)
      PROVE  NoStaleOperation'
  BY <1>3 DEF DrainSelect, SerialFree
<1>4. CASE DrainEmpty
  BY <1>4 DEF DrainEmpty, SerialFree
<1>5. CASE DrainNothingDue
  BY <1>5 DEF DrainNothingDue, SerialFree
<1>6. CASE DrainSchedule
  BY <1>6 DEF DrainSchedule
<1>7. ASSUME NEW answer \in Answer, DrainAnswer(answer)
      PROVE  NoStaleOperation'
  BY <1>7 DEF DrainAnswer
<1>8. CASE SettleLoad
  BY <1>8 DEF SettleLoad, SerialFree, drainVars
<1>9. ASSUME NEW s \in seen["drain"], NEW e \in current, SettleSave(s, e)
      PROVE  NoStaleOperation'
  BY <1>9 DEF SettleSave
<1>10. ASSUME NEW id \in backoff, Ripen(id) PROVE NoStaleOperation'
  BY <1>10 DEF Ripen
<1>11. CASE AlarmFires
  BY <1>11 DEF AlarmFires, StartDrain
<1>12. CASE WorkerKilled \/ BrowserStart
  BY <1>12 DEF WorkerKilled, BrowserStart, FreshWorker
<1>13. CASE EnqueueThrows
  BY <1>13 DEF EnqueueThrows, drainVars
<1>14. CASE DrainThrows
  BY <1>14 DEF DrainThrows
<1>15. CASE UNCHANGED vars
  BY <1>15 DEF vars
<1> QED
  BY <1>1, <1>2, <1>3, <1>4, <1>5, <1>6, <1>7, <1>8, <1>9, <1>10, <1>11,
     <1>12, <1>13, <1>14, <1>15 DEF Next

\* Steps that neither store nor remove an event leave what is said of the
\* stored events alone.
LEMMA QuietSteps ==
    ASSUME [Next]_vars
    PROVE  \/ UNCHANGED stored
           \/ \E s \in seen["enqueue"], e \in arriving : EnqueueSave(s, e)
           \/ \E s \in seen["drain"], e \in current : SettleSave(s, e)
BY DEF Next, EnqueueLoad, DrainSelect, DrainEmpty, DrainNothingDue,
       DrainSchedule, DrainAnswer, SettleLoad, Ripen, AlarmFires,
       WorkerKilled, BrowserStart, EnqueueThrows, DrainThrows, vars

\* An enqueue stores at most its own, newest event; the settlement of a
\* delivery removes at most the head it delivered.
LEMMA EnqueueEvents ==
    ASSUME OutboxInv, NEW s \in seen["enqueue"], NEW e \in arriving,
           EnqueueSave(s, e)
    PROVE  /\ s = stored
           /\ e \in Event /\ e \notin stored.events
           /\ stored'.events \in {stored.events, stored.events \cup {e}}
BY DEF OutboxInv, NoStaleOperation, Numbered, TypeOK, EnqueueSave, Caller,
       Event, Storage

LEMMA SettleEvents ==
    ASSUME OutboxInv, NEW s \in seen["drain"], NEW e \in current,
           SettleSave(s, e)
    PROVE  /\ s = stored
           /\ e \in Event /\ e \in stored.events
           /\ stored'.events \in {stored.events, stored.events \ {e}}
BY DEF OutboxInv, NoStaleOperation, HeadOfLine, IsHead, TypeOK, SettleSave,
       Settled, Caller, Storage

LEMMA StepNumbered == OutboxInv /\ [Next]_vars => Numbered'
<1> SUFFICES ASSUME OutboxInv, [Next]_vars PROVE Numbered'
  OBVIOUS
<1> USE DEF Numbered
<1>1. TypeOK /\ Numbered
  BY DEF OutboxInv
<1>2. ASSUME NEW g \in Group, EnqueueLoad(g) PROVE Numbered'
  BY <1>1, <1>2 DEF EnqueueLoad, TypeOK, Storage, Event
<1>3. ASSUME NEW s \in seen["enqueue"], NEW e \in arriving,
             EnqueueSave(s, e)
      PROVE  Numbered'
  <2>1. stored'.events \subseteq stored.events \cup {e}
    BY <1>3, EnqueueEvents
  <2>2. IsFiniteSet(stored'.events)
    BY <1>1, <2>1, FS_AddElement, FS_Subset
  <2> QED BY <1>1, <1>3, <2>1, <2>2 DEF EnqueueSave
<1>4. ASSUME NEW s \in seen["drain"], NEW e \in current, SettleSave(s, e)
      PROVE  Numbered'
  <2>1. stored'.events \subseteq stored.events
    BY <1>4, SettleEvents
  <2>2. IsFiniteSet(stored'.events)
    BY <1>1, <2>1, FS_Subset
  <2> QED BY <1>1, <1>4, <2>1, <2>2 DEF SettleSave
<1>5. CASE WorkerKilled \/ BrowserStart \/ EnqueueThrows
  BY <1>1, <1>5
     DEF WorkerKilled, BrowserStart, FreshWorker, EnqueueThrows, drainVars
<1>6. CASE UNCHANGED <<stored, nextId, arriving>>
  BY <1>1, <1>6
<1> QED
  BY <1>2, <1>3, <1>4, <1>5, <1>6
     DEF Next, DrainSelect, DrainEmpty, DrainNothingDue, DrainSchedule,
         DrainAnswer, SettleLoad, Ripen, AlarmFires, DrainThrows, vars

LEMMA StepHeadOfLine == OutboxInv /\ [Next]_vars => HeadOfLine'
<1> SUFFICES ASSUME OutboxInv, [Next]_vars PROVE HeadOfLine'
  OBVIOUS
<1> USE DEF HeadOfLine
<1>1. TypeOK /\ Numbered /\ HeadOfLine
  BY DEF OutboxInv
<1>2. ASSUME NEW s \in seen["enqueue"], NEW e \in arriving,
             EnqueueSave(s, e)
      PROVE  HeadOfLine'
  <2>1. stored'.events \in {stored.events, stored.events \cup {e}}
    BY <1>2, EnqueueEvents
  <2>2. \A h \in stored.events : h \in Event /\ h.id < e.id
    BY <1>1 DEF Numbered, TypeOK, Storage
  <2>3. e \in Event
    BY <1>1 DEF TypeOK
  <2>4. ASSUME NEW h \in current PROVE IsHead(stored'.events, h)
    <3>1. IsHead(stored.events, h)
      BY <1>1
    <3> QED BY <2>1, <2>2, <2>3, <3>1 DEF IsHead, InGroup, Event
  <2> QED BY <1>2, <2>4 DEF EnqueueSave
<1>3. ASSUME NEW e \in stored.events, DrainSelect(e) PROVE HeadOfLine'
  BY <1>3 DEF DrainSelect, Selectable
<1>4. ASSUME NEW s \in seen["drain"], NEW e \in current, SettleSave(s, e)
      PROVE  HeadOfLine'
  BY <1>4 DEF SettleSave
<1>5. CASE WorkerKilled \/ BrowserStart \/ DrainThrows
  BY <1>5 DEF WorkerKilled, BrowserStart, FreshWorker, DrainThrows
<1>6. CASE UNCHANGED <<stored, current>>
  BY <1>1, <1>6
<1> QED
  BY <1>2, <1>3, <1>4, <1>5, <1>6
     DEF Next, EnqueueLoad, DrainEmpty, DrainNothingDue, DrainSchedule,
         DrainAnswer, SettleLoad, Ripen, AlarmFires, EnqueueThrows,
         drainVars, vars

LEMMA StepReconciled == OutboxInv /\ [Next]_vars => Reconciled'
<1> SUFFICES ASSUME OutboxInv, [Next]_vars PROVE Reconciled'
  OBVIOUS
<1>1. TypeOK /\ Numbered /\ Reconciled
  BY DEF OutboxInv
<1>2. IsFiniteSet(stored.events) /\ stored.stats \in Stats
  BY <1>1 DEF Numbered, TypeOK, Storage
<1>3. \A r \in Row : Cardinality(Pending(stored.events, r)) \in Nat
  BY <1>2, FS_Subset, FS_CardinalityType DEF Pending
<1>4. ASSUME NEW s \in seen["enqueue"], NEW e \in arriving,
             EnqueueSave(s, e)
      PROVE  Reconciled'
  <2> DEFINE one == Increment(stored.stats, e.group, "produced")
             two == Increment(one, e.group, "dropped")
  <2>1. s = stored /\ e \in Event /\ e \notin stored.events
    BY <1>4, EnqueueEvents
  <2>2. e.group \in Group
    BY <2>1 DEF Event
  <2>3. one \in Stats /\ two \in Stats
    BY <1>2, <2>2, IncrementType DEF Field
  <2>4. \/ stored' = [events |-> stored.events, stats |-> two]
        \/ stored' = [events |-> stored.events \cup {e}, stats |-> one]
    BY <1>4, <2>1 DEF EnqueueSave
  <2>5. ASSUME NEW r \in Row
        PROVE  LET t == stored'.stats[r] IN
               /\ t["produced"] = t["acknowledged"] + t["dropped"]
                                  + Cardinality(Pending(stored'.events, r))
               /\ t["rejected"] <= t["dropped"]
    <3> DEFINE t == stored.stats[r]
    <3>1. /\ t \in [Field -> Nat]
          /\ t["produced"] = t["acknowledged"] + t["dropped"]
                             + Cardinality(Pending(stored.events, r))
          /\ t["rejected"] <= t["dropped"]
      BY <1>1, <1>2 DEF Reconciled, Stats
    <3>2. \A f \in Field : one[r][f] =
            IF f = "produced" /\ r \in RowsOf(e.group) THEN t[f] + 1 ELSE t[f]
      BY <1>2, <2>2, IncrementValue DEF Field
    <3>3. \A f \in Field : two[r][f] =
            IF f = "dropped" /\ r \in RowsOf(e.group)
            THEN one[r][f] + 1 ELSE one[r][f]
      BY <2>2, <2>3, IncrementValue DEF Field
    <3>4. Cardinality(Pending(stored.events \cup {e}, r)) =
            IF r \in RowsOf(e.group)
            THEN Cardinality(Pending(stored.events, r)) + 1
            ELSE Cardinality(Pending(stored.events, r))
      BY <1>2, <2>1, PendingAdd
    <3> HIDE DEF one, two
    <3>5. CASE stored' = [events |-> stored.events, stats |-> two]
      BY <1>3, <3>1, <3>2, <3>3, <3>5 DEF Field
    <3>6. CASE stored' = [events |-> stored.events \cup {e}, stats |-> one]
      BY <1>3, <3>1, <3>2, <3>4, <3>6 DEF Field
    <3> QED BY <2>4, <3>5, <3>6
  <2> QED BY <2>5 DEF Reconciled
<1>5. ASSUME NEW s \in seen["drain"], NEW e \in current, SettleSave(s, e)
      PROVE  Reconciled'
  <2> DEFINE acked == Increment(stored.stats, e.group, "acknowledged")
             dropped == Increment(stored.stats, e.group, "dropped")
             rejected == Increment(dropped, e.group, "rejected")
             retried == Increment(stored.stats, e.group, "retries")
  <2>1. s = stored /\ e \in Event /\ e \in stored.events
    BY <1>5, SettleEvents
  <2>2. e.group \in Group
    BY <2>1 DEF Event
  <2>3. dropped \in Stats
    BY <1>2, <2>2, IncrementType DEF Field
  <2>4. \/ stored' = [events |-> stored.events \ {e}, stats |-> acked]
        \/ stored' = [events |-> stored.events \ {e}, stats |-> rejected]
        \/ stored' = [events |-> stored.events, stats |-> retried]
    BY <1>1, <1>5, <2>1 DEF SettleSave, Settled, TypeOK, Storage
  <2>5. ASSUME NEW r \in Row
        PROVE  LET t == stored'.stats[r] IN
               /\ t["produced"] = t["acknowledged"] + t["dropped"]
                                  + Cardinality(Pending(stored'.events, r))
               /\ t["rejected"] <= t["dropped"]
    <3> DEFINE t == stored.stats[r]
    <3>1. /\ t \in [Field -> Nat]
          /\ t["produced"] = t["acknowledged"] + t["dropped"]
                             + Cardinality(Pending(stored.events, r))
          /\ t["rejected"] <= t["dropped"]
      BY <1>1, <1>2 DEF Reconciled, Stats
    <3>2. \A f \in Field : acked[r][f] =
            IF f = "acknowledged" /\ r \in RowsOf(e.group)
            THEN t[f] + 1 ELSE t[f]
      BY <1>2, <2>2, IncrementValue DEF Field
    <3>3. \A f \in Field : retried[r][f] =
            IF f = "retries" /\ r \in RowsOf(e.group) THEN t[f] + 1 ELSE t[f]
      BY <1>2, <2>2, IncrementValue DEF Field
    <3>4. \A f \in Field : dropped[r][f] =
            IF f = "dropped" /\ r \in RowsOf(e.group) THEN t[f] + 1 ELSE t[f]
      BY <1>2, <2>2, IncrementValue DEF Field
    <3>5. \A f \in Field : rejected[r][f] =
            IF f = "rejected" /\ r \in RowsOf(e.group)
            THEN dropped[r][f] + 1 ELSE dropped[r][f]
      BY <2>2, <2>3, IncrementValue DEF Field
    <3>6. /\ Cardinality(Pending(stored.events \ {e}, r)) \in Nat
          /\ Cardinality(Pending(stored.events, r)) =
               IF r \in RowsOf(e.group)
               THEN Cardinality(Pending(stored.events \ {e}, r)) + 1
               ELSE Cardinality(Pending(stored.events \ {e}, r))
      BY <1>2, <2>1, PendingRemove
    <3> HIDE DEF acked, dropped, rejected, retried
    <3>7. CASE stored' = [events |-> stored.events \ {e}, stats |-> acked]
      BY <3>1, <3>2, <3>6, <3>7 DEF Field
    <3>8. CASE stored' = [events |-> stored.events \ {e}, stats |-> rejected]
      BY <3>1, <3>4, <3>5, <3>6, <3>8 DEF Field
    <3>9. CASE stored' = [events |-> stored.events, stats |-> retried]
      BY <1>3, <3>1, <3>3, <3>9 DEF Field
    <3> QED BY <2>4, <3>7, <3>8, <3>9
  <2> QED BY <2>5 DEF Reconciled
<1>6. CASE UNCHANGED stored
  BY <1>1, <1>6 DEF Reconciled
<1> QED BY <1>4, <1>5, <1>6, QuietSteps

LEMMA StepNearCursor == OutboxInv /\ [Next]_vars => NearCursor'
<1> SUFFICES ASSUME OutboxInv, [Next]_vars PROVE NearCursor'
  OBVIOUS
<1>1. TypeOK /\ NearCursor
  BY DEF OutboxInv
<1>2. ASSUME NEW e \in stored.events, DrainSelect(e) PROVE NearCursor'
  <2>1. /\ e.group \in Group
        /\ cursor \in Group
        /\ bypassed \in [Group -> Nat]
    BY <1>1 DEF TypeOK, Storage, Event
  <2>2. cursor' = CursorAfter(e.group) /\ cursor' \in Group
    BY <1>2, <2>1, CursorType DEF DrainSelect
  <2>3. ASSUME NEW g \in Group PROVE bypassed'[g] + Distance(g)' <= N - 1
    <3>1. CASE /\ g # e.group
               /\ \E o \in InGroup(stored.events, g) :
                     Selectable(stored.events, o)
      <4>1. bypassed'[g] = bypassed[g] + 1
        BY <1>2, <3>1 DEF DrainSelect, PassOver
      <4>2. Distance(e.group) <= Distance(g)
        BY <1>2, <3>1 DEF DrainSelect, InGroup
      <4>3. bypassed[g] + Distance(g) <= N - 1
        BY <1>1 DEF NearCursor
      <4>4. Distance(g)' <= Distance(g) - 1
        <5> DEFINE h == e.group
        <5>1. Distance(g)' = IF g >= cursor' THEN g - cursor'
                             ELSE g + N - cursor'
          BY DEF Distance
        <5>2. Distance(g) = IF g >= cursor THEN g - cursor ELSE g + N - cursor
          BY DEF Distance
        <5>3. Distance(h) = IF h >= cursor THEN h - cursor ELSE h + N - cursor
          BY DEF Distance
        <5>4. cursor' = IF h = N - 1 THEN 0 ELSE h + 1
          BY <2>2 DEF CursorAfter
        <5>5. h \in Group /\ g # h /\ Distance(h) <= Distance(g)
          BY <2>1, <3>1, <4>2
        <5> HIDE DEF h
        <5> QED BY <2>1, <2>2, <5>1, <5>2, <5>3, <5>4, <5>5 DEF Group
      <4>5. Distance(g) \in Int /\ Distance(g)' \in Int
        <5>1. g \in Int /\ N \in Int /\ cursor \in Int /\ cursor' \in Int
          BY <2>1, <2>2 DEF Group
        <5>2. Distance(g) \in Int
          BY <5>1 DEF Distance
        <5>3. Distance(g)' \in Int
          BY <5>1 DEF Distance
        <5> QED BY <5>2, <5>3
      <4> QED BY <2>1, <4>1, <4>3, <4>4, <4>5
    <3>2. CASE ~ (/\ g # e.group
                  /\ \E o \in InGroup(stored.events, g) :
                        Selectable(stored.events, o))
      <4>1. bypassed'[g] = 0
        BY <1>2, <3>2 DEF DrainSelect, PassOver
      <4> QED BY <2>2, <4>1 DEF Distance, Group
    <3> QED BY <3>1, <3>2
  <2> QED BY <2>3 DEF NearCursor
<1>3. CASE WorkerKilled \/ BrowserStart
  BY <1>3 DEF WorkerKilled, BrowserStart, FreshWorker, NearCursor, Distance,
     Group
<1>4. CASE UNCHANGED <<bypassed, cursor>>
  BY <1>1, <1>4 DEF NearCursor, Distance
<1> QED
  BY <1>2, <1>3, <1>4
     DEF Next, EnqueueLoad, EnqueueSave, DrainEmpty, DrainNothingDue,
         DrainSchedule, DrainAnswer, SettleLoad, SettleSave, Ripen,
         AlarmFires, EnqueueThrows, DrainThrows, drainVars, vars

LEMMA StepNoStrandedEvent == OutboxInv /\ [Next]_vars => NoStrandedEvent'
<1> SUFFICES ASSUME OutboxInv, [Next]_vars PROVE NoStrandedEvent'
  OBVIOUS
<1> USE DEF NoStrandedEvent
<1>1. TypeOK /\ NoStrandedEvent
  BY DEF OutboxInv
<1>2. ASSUME NEW s \in seen["enqueue"], NEW e \in arriving,
             EnqueueSave(s, e)
      PROVE  NoStrandedEvent'
  <2>1. s = stored
    BY <1>2, EnqueueEvents
  <2> QED BY <1>1, <1>2, <2>1 DEF EnqueueSave, StartDrain
<1>3. CASE DrainSchedule
  BY <1>3 DEF DrainSchedule, SetAlarm
<1>4. CASE AlarmFires
  BY <1>1, <1>4 DEF AlarmFires, StartDrain, TypeOK
<1>5. ASSUME NEW id \in backoff, Ripen(id) PROVE NoStrandedEvent'
  BY <1>1, <1>5 DEF Ripen, TypeOK
<1>6. CASE WorkerKilled \/ EnqueueThrows \/ DrainThrows
  <2>1. trouble'.kills > 0 \/ trouble'.faults > 0
    BY <1>1, <1>6 DEF WorkerKilled, EnqueueThrows, DrainThrows, TypeOK
  <2> QED BY <2>1
<1>7. CASE pc' # "idle" \/ stored'.events = {}
  BY <1>7
<1>8. CASE UNCHANGED <<stored, pc, alarm, trouble>>
  BY <1>1, <1>8
<1> QED
  BY <1>2, <1>3, <1>4, <1>5, <1>6, <1>7, <1>8
     DEF Next, EnqueueLoad, DrainSelect, DrainEmpty, DrainNothingDue,
         DrainAnswer, SettleLoad, SettleSave, BrowserStart, drainVars, vars

-----------------------------------------------------------------------------
LEMMA InitInv == Init => OutboxInv
<1> SUFFICES ASSUME Init PROVE OutboxInv
  OBVIOUS
<1>1. TypeOK
  BY InitType
<1>2. NoStaleOperation /\ NearCursor /\ NoStrandedEvent
  BY DEF Init, NoStaleOperation, NearCursor, NoStrandedEvent, Distance,
         Group, Caller
<1>3. Numbered /\ HeadOfLine
  BY FS_EmptySet DEF Init, Numbered, HeadOfLine
<1>4. Reconciled
  <2>1. \A r \in Row : Pending({}, r) = {}
    BY DEF Pending
  <2>2. \A r \in Row, f \in Field : stored.stats[r][f] = 0
    BY DEF Init, EmptyStats
  <2>3. stored.events = {}
    BY DEF Init
  <2> QED BY <2>1, <2>2, <2>3, FS_EmptySet DEF Reconciled, Field
<1> QED BY <1>1, <1>2, <1>3, <1>4 DEF OutboxInv

LEMMA StepInv == OutboxInv /\ [Next]_vars => OutboxInv'
BY TypeStep, StepNoStaleOperation, StepNumbered, StepHeadOfLine,
   StepReconciled, StepNearCursor, StepNoStrandedEvent DEF OutboxInv

LEMMA Inductive == Spec => []OutboxInv
<1> QED BY InitInv, StepInv, PTL DEF Spec

\* No operation of the outbox ever saves a stale copy of the store: while one
\* is between its load and its save, no other runs.
THEOREM SerialOperations == Spec => []NoStaleOperation
<1>1. OutboxInv => NoStaleOperation
  BY DEF OutboxInv
<1> QED BY <1>1, Inductive, PTL

\* The reconciliation of DATA_FLOW.md, produced = acknowledged + pending +
\* dropped, holds per pair and in total after every step, whatever is killed
\* or fails in between.
THEOREM Reconciliation == Spec => []Reconciled
<1>1. OutboxInv => Reconciled
  BY DEF OutboxInv
<1> QED BY <1>1, Inductive, PTL

\* The event in delivery stays the head of its group until it is settled.
THEOREM FifoDelivery == Spec => []HeadOfLine
<1>1. OutboxInv => HeadOfLine
  BY DEF OutboxInv
<1> QED BY <1>1, Inductive, PTL

\* Round-robin: a due head waits for at most N - 1 other deliveries.
THEOREM RoundRobin == Spec => []BoundedBypass
<1>1. OutboxInv => BoundedBypass
  BY DistanceType DEF OutboxInv, NearCursor, BoundedBypass, TypeOK, Group
<1> QED BY <1>1, Inductive, PTL

\* Without kills and failing chrome calls, stored events are always either
\* being drained or covered by an alarm.
THEOREM AlwaysWoken == Spec => []NoStrandedEvent
<1>1. OutboxInv => NoStrandedEvent
  BY DEF OutboxInv
<1> QED BY <1>1, Inductive, PTL

-----------------------------------------------------------------------------
(* What IsFifo and OnlyFullGroupRefuses need on top of OutboxInv.          *)

Ids(g) == {e.id : e \in InGroup(stored.events, g)}

\* One frame arrives at a time, numbered as the last one, and no group ever
\* holds more than its share.
ArrivalInv ==
    /\ nextId # 0
    /\ \A e, o \in arriving : e = o
    /\ \A e \in arriving : e.id \in 1 .. MaxEvents
    /\ \A g \in Group : Cardinality(InGroup(stored.events, g)) <= GroupCapacity

LEMMA CapacityType == GroupCapacity \in Nat \ {0} /\ N * GroupCapacity <= MaxSize
<1>1. /\ MaxSize \div N \in Nat
      /\ N * (MaxSize \div N) <= MaxSize
      /\ MaxSize < N * (MaxSize \div N) + N
  OBVIOUS
<1>2. MaxSize \div N # 0
  BY <1>1
<1> QED BY <1>1, <1>2 DEF GroupCapacity

\* In a group an event is its number.
LEMMA GroupIds ==
    ASSUME NEW E \in SUBSET Event, IsFiniteSet(E), NEW g \in Group
    PROVE  /\ {e.id : e \in InGroup(E, g)} \in SUBSET Nat
           /\ IsFiniteSet({e.id : e \in InGroup(E, g)})
           /\ IsFiniteSet(InGroup(E, g))
           /\ Cardinality({e.id : e \in InGroup(E, g)})
                 = Cardinality(InGroup(E, g))
<1> DEFINE G == InGroup(E, g)
           ids == {e.id : e \in G}
           number == [e \in G |-> e.id]
<1>1. IsFiniteSet(G)
  BY FS_Subset DEF InGroup
<1>2. \A e \in G : e.id \in Nat /\ e = [id |-> e.id, group |-> g]
  BY DEF InGroup, Event
<1>3. number \in Surjection(G, ids)
  BY DEF Surjection
<1>4. number \in Injection(G, ids)
  <2>1. \A e, o \in G : number[e] = number[o] => e = o
    <3>1. \A e, o \in G : e.id = o.id => e = o
      BY <1>2
    <3> QED BY <3>1
  <2>2. number \in [G -> ids]
    OBVIOUS
  <2> QED BY <2>1, <2>2 DEF Injection, IsInjective
<1>5. IsFiniteSet(ids) /\ Cardinality(ids) = Cardinality(G)
  BY <1>1, <1>3, <1>4, FS_Surjection
<1> QED BY <1>1, <1>2, <1>5

\* If one group has room, the store has: there is a place for every event,
\* the one its rank gives it in its group.
LEMMA RoomInTotal ==
    ASSUME NEW E \in SUBSET Event, IsFiniteSet(E), NEW g \in Group,
           \A h \in Group : Cardinality(InGroup(E, h)) <= GroupCapacity,
           Cardinality(InGroup(E, g)) < GroupCapacity
    PROVE  Cardinality(E) < MaxSize
<1> DEFINE places == Group \X (1 .. GroupCapacity)
           ids(h) == {e.id : e \in InGroup(E, h)}
           place == [e \in E |-> <<e.group, Rank(ids(e.group), e.id)>>]
<1>1. GroupCapacity \in Nat \ {0} /\ N * GroupCapacity <= MaxSize
  BY CapacityType
<1>2. \A h \in Group : /\ ids(h) \in SUBSET Nat
                       /\ IsFiniteSet(ids(h))
                       /\ Cardinality(ids(h)) = Cardinality(InGroup(E, h))
  BY GroupIds
<1>3. ASSUME NEW e \in E
      PROVE  /\ e.group \in Group /\ e.id \in ids(e.group) /\ e.id \in Nat
             /\ Rank(ids(e.group), e.id) \in 1 .. GroupCapacity
             /\ Rank(ids(e.group), e.id) <= Cardinality(InGroup(E, e.group))
  <2>1. e.group \in Group /\ e.id \in ids(e.group) /\ e.id \in Nat
    BY DEF InGroup, Event
  <2>2. /\ Rank(ids(e.group), e.id) \in Nat \ {0}
        /\ Rank(ids(e.group), e.id) <= Cardinality(InGroup(E, e.group))
    BY <1>2, <2>1, RankType
  <2>3. Cardinality(InGroup(E, e.group)) \in Nat
    BY <1>2, <2>1, FS_CardinalityType
  <2>4. Cardinality(InGroup(E, e.group)) <= GroupCapacity
    BY <2>1
  <2> QED BY <1>1, <2>1, <2>2, <2>3, <2>4
<1>4. place \in [E -> places]
  BY <1>3
<1>5. ASSUME NEW e \in E, NEW o \in E, place[e] = place[o]
      PROVE  e = o
  <2>1. e.group = o.group
        /\ Rank(ids(e.group), e.id) = Rank(ids(e.group), o.id)
    BY <1>5
  <2>2. e.id = o.id
    <3>1. o.id \in ids(e.group) /\ e.id \in ids(e.group)
      BY <1>3, <2>1
    <3>2. ids(e.group) \in SUBSET Nat /\ IsFiniteSet(ids(e.group))
      BY <1>2, <1>3
    <3> HIDE DEF ids
    <3> QED BY <2>1, <3>1, <3>2, RankUnique
  <2> QED BY <2>1, <2>2 DEF Event
<1>6. place \in Injection(E, places)
  BY <1>4, <1>5 DEF Injection, IsInjective
<1>7. IsFiniteSet(places) /\ Cardinality(places) = N * GroupCapacity
  <2>1. /\ IsFiniteSet(Group) /\ Cardinality(Group) = N
        /\ IsFiniteSet(1 .. GroupCapacity)
        /\ Cardinality(1 .. GroupCapacity) = GroupCapacity
    BY <1>1, FS_Interval DEF Group
  <2> QED BY <2>1, FS_Product
<1>8. /\ Cardinality(E) <= Cardinality(places)
      /\ Cardinality(E) = Cardinality(places)
            => place \in Surjection(E, places)
  BY <1>6, <1>7, FS_Injection
<1>9. \A e \in E : place[e] # <<g, GroupCapacity>>
  <2>1. SUFFICES ASSUME NEW e \in E, e.group = g,
                        Rank(ids(g), e.id) = GroupCapacity
                 PROVE  FALSE
    OBVIOUS
  <2>2. GroupCapacity <= Cardinality(InGroup(E, g))
    BY <1>3, <2>1
  <2>3. Cardinality(InGroup(E, g)) \in Nat
    BY <1>2, FS_CardinalityType
  <2> QED BY <1>1, <2>2, <2>3
<1>10. <<g, GroupCapacity>> \in places
  BY <1>1
<1>11. place \notin Surjection(E, places)
  BY <1>9, <1>10 DEF Surjection
<1>12. Cardinality(E) \in Nat /\ N * GroupCapacity \in Nat
  BY <1>1, FS_CardinalityType
<1>13. Cardinality(E) # N * GroupCapacity /\ Cardinality(E) <= N * GroupCapacity
  BY <1>7, <1>8, <1>11
<1> HIDE DEF places, place
<1> QED BY <1>1, <1>12, <1>13

\* What an enqueue and a settlement do to the groups.
LEMMA EnqueueGroups ==
    ASSUME OutboxInv, ArrivalInv, NEW s \in seen["enqueue"],
           NEW e \in arriving, EnqueueSave(s, e)
    PROVE  \/ /\ stored'.events = stored.events
              /\ Cardinality(InGroup(stored.events, e.group)) >= GroupCapacity
           \/ /\ stored'.events = stored.events \cup {e}
              /\ stored'.stats[Total]["dropped"]
                    = stored.stats[Total]["dropped"]
              /\ Cardinality(InGroup(stored.events, e.group)) < GroupCapacity
<1>1. s = stored /\ e \in Event
  BY EnqueueEvents
<1>2. stored.events \in SUBSET Event /\ IsFiniteSet(stored.events)
      /\ stored.stats \in Stats /\ e.group \in Group
  BY <1>1 DEF OutboxInv, TypeOK, Storage, Numbered, Event
<1>3. Cardinality(InGroup(stored.events, e.group)) \in Nat
  BY <1>2, GroupIds, FS_CardinalityType
<1>4. GroupCapacity \in Nat /\ Cardinality(stored.events) \in Nat
      /\ MaxSize \in Nat
  BY <1>2, CapacityType, FS_CardinalityType
<1>5. CASE Refused(stored.events, e.group)
  <2>1. stored'.events = stored.events
    BY <1>1, <1>5 DEF EnqueueSave
  <2>2. ~ (Cardinality(InGroup(stored.events, e.group)) < GroupCapacity)
    <3>1. SUFFICES ASSUME Cardinality(InGroup(stored.events, e.group))
                             < GroupCapacity
                   PROVE  FALSE
      OBVIOUS
    <3>2. Cardinality(stored.events) < MaxSize
      BY <1>2, <3>1, RoomInTotal DEF ArrivalInv
    <3> QED BY <1>3, <1>4, <1>5, <3>1, <3>2 DEF Refused
  <2> QED BY <1>3, <1>4, <2>1, <2>2
<1>6. CASE ~Refused(stored.events, e.group)
  <2>1. stored' = [events |-> stored.events \cup {e},
                   stats |-> Increment(stored.stats, e.group, "produced")]
    BY <1>1, <1>6 DEF EnqueueSave
  <2>2. Increment(stored.stats, e.group, "produced")[Total]["dropped"]
           = stored.stats[Total]["dropped"]
    BY <1>2, IncrementValue DEF Row, Field
  <2> QED BY <1>3, <1>4, <1>6, <2>1, <2>2 DEF Refused
<1> QED BY <1>5, <1>6

LEMMA StepArrival == OutboxInv /\ ArrivalInv /\ [Next]_vars => ArrivalInv'
<1> SUFFICES ASSUME OutboxInv, ArrivalInv, [Next]_vars PROVE ArrivalInv'
  OBVIOUS
<1> USE DEF ArrivalInv
<1>1. nextId \in Nat /\ arriving \in SUBSET Event
      /\ stored.events \in SUBSET Event /\ IsFiniteSet(stored.events)
      /\ MaxEvents \in Nat
  BY BoundsAssumption DEF OutboxInv, TypeOK, Storage, Numbered
<1>2. GroupCapacity' = GroupCapacity
  BY DEF GroupCapacity
<1>3. ASSUME NEW g \in Group, EnqueueLoad(g) PROVE ArrivalInv'
  BY <1>1, <1>2, <1>3 DEF EnqueueLoad
<1>4. ASSUME NEW s \in seen["enqueue"], NEW e \in arriving,
             EnqueueSave(s, e)
      PROVE  ArrivalInv'
  <2>1. arriving' = {} /\ nextId' = nextId
    BY <1>4 DEF EnqueueSave
  <2>2. ASSUME NEW g \in Group
        PROVE  Cardinality(InGroup(stored'.events, g)) <= GroupCapacity
    <3>1. CASE stored'.events = stored.events
      BY <3>1
    <3>2. CASE /\ stored'.events = stored.events \cup {e}
               /\ Cardinality(InGroup(stored.events, e.group)) < GroupCapacity
      <4>1. CASE g = e.group
        <5>1. InGroup(stored'.events, g) = InGroup(stored.events, g) \cup {e}
          BY <3>2, <4>1 DEF InGroup
        <5>2. IsFiniteSet(InGroup(stored.events, g))
          BY <1>1, GroupIds
        <5>3. Cardinality(InGroup(stored.events, g)) \in Nat
          BY <5>2, FS_CardinalityType
        <5>4. Cardinality(InGroup(stored'.events, g)) \in
                 {Cardinality(InGroup(stored.events, g)),
                  Cardinality(InGroup(stored.events, g)) + 1}
          BY <5>1, <5>2, FS_AddElement
        <5> QED BY <3>2, <4>1, <5>3, <5>4, CapacityType
      <4>2. CASE g # e.group
        <5>1. InGroup(stored'.events, g) = InGroup(stored.events, g)
          BY <3>2, <4>2 DEF InGroup
        <5> QED BY <5>1
      <4> QED BY <4>1, <4>2
    <3> QED BY <1>4, <3>1, <3>2, EnqueueGroups
  <2> QED BY <1>2, <2>1, <2>2
<1>5. ASSUME NEW s \in seen["drain"], NEW e \in current, SettleSave(s, e)
      PROVE  ArrivalInv'
  <2>1. UNCHANGED <<arriving, nextId>>
    BY <1>5 DEF SettleSave
  <2>2. stored'.events \subseteq stored.events
    BY <1>5, SettleEvents
  <2>3. ASSUME NEW g \in Group
        PROVE  Cardinality(InGroup(stored'.events, g)) <= GroupCapacity
    <3>1. InGroup(stored'.events, g) \subseteq InGroup(stored.events, g)
      BY <2>2 DEF InGroup
    <3>2. IsFiniteSet(InGroup(stored.events, g))
      BY <1>1, GroupIds
    <3>3. /\ Cardinality(InGroup(stored'.events, g)) \in Nat
          /\ Cardinality(InGroup(stored.events, g)) \in Nat
          /\ Cardinality(InGroup(stored'.events, g))
                <= Cardinality(InGroup(stored.events, g))
      BY <3>1, <3>2, FS_Subset, FS_CardinalityType
    <3>4. Cardinality(InGroup(stored.events, g)) <= GroupCapacity
      OBVIOUS
    <3> QED BY <3>3, <3>4, CapacityType
  <2> QED BY <1>2, <2>1, <2>3
<1>6. CASE WorkerKilled \/ BrowserStart \/ EnqueueThrows
  BY <1>2, <1>6
     DEF WorkerKilled, BrowserStart, FreshWorker, EnqueueThrows
<1>7. CASE UNCHANGED <<stored, nextId, arriving>>
  BY <1>2, <1>7
<1> QED
  BY <1>3, <1>4, <1>5, <1>6, <1>7
     DEF Next, DrainSelect, DrainEmpty, DrainNothingDue, DrainSchedule,
         DrainAnswer, SettleLoad, Ripen, AlarmFires, DrainThrows, vars

LEMMA InitArrival == Init => ArrivalInv
<1> SUFFICES ASSUME Init PROVE ArrivalInv
  OBVIOUS
<1>1. nextId = 1 /\ arriving = {} /\ stored.events = {}
  BY DEF Init
<1>2. \A g \in Group : InGroup({}, g) = {}
  BY DEF InGroup
<1>3. \A g \in Group : Cardinality(InGroup(stored.events, g)) = 0
  BY <1>1, <1>2, FS_EmptySet
<1>4. \A g \in Group : Cardinality(InGroup(stored.events, g)) <= GroupCapacity
  BY <1>3, CapacityType
<1> QED BY <1>1, <1>4 DEF ArrivalInv

\* An event is refused only when its own group is full: as long as it is not,
\* the whole outbox is not either, since no other group can hold more than its
\* share.
THEOREM ReservedCapacity == Spec => OnlyFullGroupRefuses
<1>1. ASSUME OutboxInv, ArrivalInv, [Next]_vars
      PROVE  [\A e \in arriving :
                 /\ arriving' = {}
                 /\ stored'.stats[Total]["dropped"]
                       > stored.stats[Total]["dropped"]
                 => Cardinality(InGroup(stored.events, e.group))
                       >= GroupCapacity]_vars
  <2>1. stored.stats[Total]["dropped"] \in Nat
    BY <1>1 DEF OutboxInv, TypeOK, Storage, Stats, Row, Field
  <2>2. SUFFICES ASSUME NEW e \in arriving, arriving' = {},
                        stored'.stats[Total]["dropped"]
                           > stored.stats[Total]["dropped"]
                 PROVE  Cardinality(InGroup(stored.events, e.group))
                           >= GroupCapacity
    OBVIOUS
  <2>3. stored' # stored
    BY <2>1, <2>2
  <2>4. ASSUME NEW s \in seen["enqueue"], NEW o \in arriving,
               EnqueueSave(s, o)
        PROVE  Cardinality(InGroup(stored.events, e.group)) >= GroupCapacity
    <3>1. o = e
      BY <1>1 DEF ArrivalInv
    <3> QED BY <1>1, <2>1, <2>2, <2>4, <3>1, EnqueueGroups
  <2>5. ASSUME NEW s \in seen["drain"], NEW o \in current, SettleSave(s, o)
        PROVE  FALSE
    BY <2>2, <2>5 DEF SettleSave
  <2> QED BY <1>1, <2>3, <2>4, <2>5, QuietSteps
<1> QED BY <1>1, InitInv, StepInv, InitArrival, StepArrival, PTL
     DEF Spec, OnlyFullGroupRefuses

-----------------------------------------------------------------------------
LEMMA ArrivalOrder ==
    ASSUME NEW g
    PROVE  InArrivalOrder(g) = Sorted(Ids(g))
BY DEF InArrivalOrder, Sorted, Ids

\* An event stored in a group enters its queue at the end, ...
LEMMA EnqueueIsFifo ==
    ASSUME OutboxInv, ArrivalInv, NEW e \in arriving,
           stored'.events = stored.events \cup {e},
           Cardinality(InGroup(stored.events, e.group)) < GroupCapacity
    PROVE  Fifo!Enqueue(e.group)
<1>1. e \in Event /\ stored.events \in SUBSET Event
      /\ IsFiniteSet(stored.events) /\ e.group \in Group
  BY DEF OutboxInv, TypeOK, Storage, Numbered, Event
<1>2. e.id \in 1 .. MaxEvents /\ e.id \in Nat
  BY <1>1 DEF ArrivalInv, Event
<1>3. ASSUME NEW g \in Group
      PROVE  Ids(g) \in SUBSET Nat /\ IsFiniteSet(Ids(g))
             /\ Cardinality(Ids(g)) = Cardinality(InGroup(stored.events, g))
  BY <1>1, GroupIds DEF Ids
<1>4. \A o \in Ids(e.group) : o < e.id
  BY DEF OutboxInv, Numbered, Ids, InGroup
<1>5. Ids(e.group)' = Ids(e.group) \cup {e.id}
  BY DEF Ids, InGroup
<1>6. \A g \in Group : g # e.group => Ids(g)' = Ids(g)
  BY DEF Ids, InGroup
<1>7. Sorted(Ids(e.group)) \in Seq(Ids(e.group))
      /\ Len(Sorted(Ids(e.group))) < GroupCapacity
  BY <1>1, <1>3, SortedElements
<1>8. Sorted(Ids(e.group))' = Append(Sorted(Ids(e.group)), e.id)
  <2>1. Sorted(Ids(e.group) \cup {e.id})
           = Append(Sorted(Ids(e.group)), e.id)
    BY <1>1, <1>2, <1>3, <1>4, SortedAdd
  <2>2. Sorted(Ids(e.group))' = Sorted(Ids(e.group)')
    BY DEF Sorted
  <2> QED BY <1>5, <2>1, <2>2
<1>9. \A g \in Group : g # e.group => Sorted(Ids(g))' = Sorted(Ids(g))
  <2>1. \A g : Sorted(Ids(g))' = Sorted(Ids(g)')
    BY DEF Sorted
  <2> QED BY <1>6, <2>1
<1>10. \A g : InArrivalOrder(g) = Sorted(Ids(g))
             /\ InArrivalOrder(g)' = Sorted(Ids(g))'
  BY DEF InArrivalOrder, Sorted, Ids
<1>11. [g \in Group |-> InArrivalOrder(g)]'
          = [[g \in Group |-> InArrivalOrder(g)] EXCEPT
                ![e.group] = Append(@, e.id)]
  BY <1>1, <1>8, <1>9, <1>10
<1> QED BY <1>1, <1>2, <1>7, <1>10, <1>11 DEF Fifo!Enqueue

\* ... and the head of a group, when it is settled, leaves at the front.
LEMMA SettleIsFifo ==
    ASSUME OutboxInv, NEW e \in stored.events, IsHead(stored.events, e),
           stored'.events = stored.events \ {e}
    PROVE  Fifo!Dequeue(e.group)
<1>1. e \in Event /\ stored.events \in SUBSET Event
      /\ IsFiniteSet(stored.events) /\ e.group \in Group
  BY DEF OutboxInv, TypeOK, Storage, Numbered, Event
<1>2. ASSUME NEW g \in Group
      PROVE  Ids(g) \in SUBSET Nat /\ IsFiniteSet(Ids(g))
  BY <1>1, GroupIds DEF Ids
<1>3. e.id \in Ids(e.group) /\ \A o \in Ids(e.group) : e.id <= o
  BY DEF IsHead, Ids, InGroup
<1>4. Ids(e.group)' = Ids(e.group) \ {e.id}
  <2>1. \A o \in InGroup(stored.events, e.group) : o.id = e.id => o = e
    BY <1>1 DEF InGroup, Event
  <2> QED BY <2>1 DEF Ids, InGroup
<1>5. \A g \in Group : g # e.group => Ids(g)' = Ids(g)
  BY DEF Ids, InGroup
<1>6. Sorted(Ids(e.group)) # <<>>
      /\ Sorted(Ids(e.group))' = Tail(Sorted(Ids(e.group)))
  <2>1. /\ Sorted(Ids(e.group)) # <<>>
        /\ Sorted(Ids(e.group) \ {e.id}) = Tail(Sorted(Ids(e.group)))
    BY <1>1, <1>2, <1>3, SortedRemove
  <2>2. Sorted(Ids(e.group))' = Sorted(Ids(e.group)')
    BY DEF Sorted
  <2> QED BY <1>4, <2>1, <2>2
<1>7. \A g \in Group : g # e.group => Sorted(Ids(g))' = Sorted(Ids(g))
  <2>1. \A g : Sorted(Ids(g))' = Sorted(Ids(g)')
    BY DEF Sorted
  <2> QED BY <1>5, <2>1
<1>8. \A g : InArrivalOrder(g) = Sorted(Ids(g))
             /\ InArrivalOrder(g)' = Sorted(Ids(g))'
  BY DEF InArrivalOrder, Sorted, Ids
<1>9. [g \in Group |-> InArrivalOrder(g)]'
          = [[g \in Group |-> InArrivalOrder(g)] EXCEPT ![e.group] = Tail(@)]
  BY <1>1, <1>6, <1>7, <1>8
<1> QED BY <1>1, <1>6, <1>8, <1>9 DEF Fifo!Dequeue

\* The outbox implements one bounded FIFO of GroupCapacity slots per group
\* (ARCHITECTURE.md): whatever is retried, killed or refused, every step lets
\* one event in at the end, lets the head of one group out, or moves none.
THEOREM ImplementsFifo == Spec => IsFifo
<1>1. Init => Fifo!Init
  <2> SUFFICES ASSUME Init PROVE Fifo!Init
    OBVIOUS
  <2>1. ASSUME NEW g \in Group PROVE InArrivalOrder(g) = <<>>
    <3>1. Ids(g) = {}
      BY DEF Init, Ids, InGroup
    <3>2. Sorted({}) \in Seq({}) /\ Len(Sorted({})) = 0
      BY SortedElements, FS_EmptySet
    <3> QED BY <3>1, <3>2, EmptySeq, ArrivalOrder
  <2> QED BY <2>1 DEF Fifo!Init
<1>2. ASSUME OutboxInv, ArrivalInv, [Next]_vars
      PROVE  [Fifo!Next]_([g \in Group |-> InArrivalOrder(g)])
  <2>1. CASE stored'.events = stored.events
    <3>1. [g \in Group |-> InArrivalOrder(g)]'
             = [g \in Group |-> InArrivalOrder(g)]
      BY <2>1 DEF InArrivalOrder, InGroup
    <3> QED BY <3>1
  <2>2. ASSUME NEW s \in seen["enqueue"], NEW e \in arriving,
               EnqueueSave(s, e), stored'.events # stored.events
        PROVE  Fifo!Next
    <3>1. e.group \in Group
      BY <1>2, <2>2, EnqueueEvents DEF Event
    <3>2. Fifo!Enqueue(e.group)
      BY <1>2, <2>2, EnqueueGroups, EnqueueIsFifo
    <3> QED BY <3>1, <3>2 DEF Fifo!Next
  <2>3. ASSUME NEW s \in seen["drain"], NEW e \in current,
               SettleSave(s, e), stored'.events # stored.events
        PROVE  Fifo!Next
    <3>1. /\ e.group \in Group /\ e \in stored.events
          /\ stored'.events = stored.events \ {e}
      BY <1>2, <2>3, SettleEvents DEF Event
    <3>2. IsHead(stored.events, e)
      BY <1>2, <2>3 DEF OutboxInv, HeadOfLine
    <3>3. Fifo!Dequeue(e.group)
      BY <1>2, <3>1, <3>2, SettleIsFifo
    <3> QED BY <3>1, <3>3 DEF Fifo!Next
  <2> QED BY <1>2, <2>1, <2>2, <2>3, QuietSteps
<1> QED BY <1>1, <1>2, InitInv, StepInv, InitArrival, StepArrival, PTL
     DEF Spec, IsFifo, Fifo!Spec
=============================================================================
