--------------------------- MODULE FairQueueProofs ---------------------------
(***************************************************************************)
(* Theorems about FairQueue, for every number of pairs, every capacity and *)
(* any set of handlers.  QueueInv, about the items and the cursor, is      *)
(* inductive; HandlerInv adds where every handler is, and on it rest       *)
(* SlotsOffered (no lost slot) and JoinCountsAll.                          *)
(***************************************************************************)
EXTENDS FairQueue, SequenceLemmas, FiniteSetTheorems

USE PairsAssumption, CapacityAssumption

QueueInv == TypeOK /\ DepthBounded /\ NoLostWakeup /\ NearCursor

-----------------------------------------------------------------------------
LEMMA CursorType ==
    ASSUME NEW p \in Pair
    PROVE  CursorAfter(p) \in Pair
BY DEF Pair, CursorAfter

LEMMA DistanceType ==
    ASSUME cursor \in Pair, NEW p \in Pair
    PROVE  Distance(p) \in 0 .. N - 1
BY DEF Pair, Distance

LEMMA PerPairType == PerPair \in Nat \ {0}
<1>1. Capacity \div N \in Int
  OBVIOUS
<1> QED BY <1>1 DEF PerPair

\* Waking the oldest sleeper touches no item.
LEMMA WakeNextType ==
    ASSUME NEW p \in Pair, putters \in [Pair -> Seq(Task)],
           NEW newPc \in [Task -> {"idle", "blocked", "woken", "queued"}],
           WakeNext(p, newPc)
    PROVE  /\ pc' \in [Task -> {"idle", "blocked", "woken", "queued"}]
           /\ putters' \in [Pair -> Seq(Task)]
<1>1. CASE putters[p] = <<>>
  BY <1>1 DEF WakeNext
<1>2. CASE putters[p] # <<>>
  <2>1. Tail(putters[p]) \in Seq(Task)
    BY <1>2, HeadTailProperties
  <2> QED BY <1>2, <2>1 DEF WakeNext
<1> QED BY <1>1, <1>2

LEMMA EnqueueType ==
    ASSUME TypeOK, NEW t \in Task, NEW p \in Pair, Enqueue(t, p)
    PROVE  /\ queue' \in [Pair -> Seq(Task)]
           /\ queue'[p] # <<>>
           /\ Len(queue'[p]) = Len(queue[p]) + 1
           /\ \A q \in Pair : q # p => queue'[q] = queue[q]
           /\ unfinished' \in [Pair -> Int]
           /\ pc' \in [Task -> {"idle", "blocked", "woken", "queued"}]
           /\ available' = TRUE
<1>1. queue \in [Pair -> Seq(Task)]
  BY DEF TypeOK
<1>2. /\ Append(queue[p], t) \in Seq(Task)
      /\ Append(queue[p], t) # <<>>
      /\ Len(Append(queue[p], t)) = Len(queue[p]) + 1
  BY <1>1, AppendProperties
<1>3. queue' = [queue EXCEPT ![p] = Append(queue[p], t)]
  BY DEF Enqueue
<1>4. /\ unfinished' \in [Pair -> Int]
      /\ pc' \in [Task -> {"idle", "blocked", "woken", "queued"}]
      /\ available' = TRUE
  BY DEF Enqueue, TypeOK
<1> QED BY <1>1, <1>2, <1>3, <1>4

LEMMA GetQueue ==
    ASSUME TypeOK, NEW p \in Pair, Get(p)
    PROVE  /\ queue' \in [Pair -> Seq(Task)]
           /\ Len(queue'[p]) = Len(queue[p]) - 1
           /\ \A q \in Pair : q # p => queue'[q] = queue[q]
           /\ Head(queue[p]) \in Task
<1>1. queue \in [Pair -> Seq(Task)] /\ queue[p] # <<>>
  BY DEF TypeOK, Get
<1>2. /\ Tail(queue[p]) \in Seq(Task)
      /\ Len(Tail(queue[p])) = Len(queue[p]) - 1
      /\ Head(queue[p]) \in Task
  BY <1>1, HeadTailProperties
<1>3. queue' = [queue EXCEPT ![p] = Tail(queue[p])]
  BY DEF Get
<1> QED BY <1>1, <1>2, <1>3

-----------------------------------------------------------------------------
LEMMA InitInv == Init => QueueInv
<1> SUFFICES ASSUME Init PROVE QueueInv
  OBVIOUS
<1>1. <<>> \in Seq(Task) /\ Len(<<>>) = 0
  BY EmptySeq
<1>2. TypeOK
  <2>1. queue \in [Pair -> Seq(Task)] /\ putters \in [Pair -> Seq(Task)]
    BY <1>1 DEF Init
  <2>2. 0 \in Pair
    BY DEF Pair
  <2>3. /\ pc \in [Task -> {"idle", "blocked", "woken", "queued"}]
        /\ wants \in [Task -> Pair]
        /\ unfinished \in [Pair -> Int]
        /\ bypassed \in [Pair -> Nat]
    BY <2>2 DEF Init
  <2>4. /\ available \in BOOLEAN
        /\ cursor \in Pair
        /\ worker \in {"scan", "wait", "busy"}
        /\ serving \in SUBSET Task
    BY <2>2 DEF Init
  <2> QED BY <2>1, <2>3, <2>4 DEF TypeOK
<1>3. DepthBounded
  BY <1>1, PerPairType DEF Init, DepthBounded
<1>4. NoLostWakeup
  BY DEF Init, NoLostWakeup, Empty
<1>5. NearCursor
  BY DEF Init, NearCursor, Distance, Pair
<1> QED BY <1>2, <1>3, <1>4, <1>5 DEF QueueInv

LEMMA TypeStep == TypeOK /\ [Next]_vars => TypeOK'
<1> SUFFICES ASSUME TypeOK, [Next]_vars PROVE TypeOK'
  OBVIOUS
<1>1. ASSUME NEW t \in Task, NEW p \in Pair, Put(t, p) PROVE TypeOK'
  <2>1. Enqueue(t, p)
    BY <1>1 DEF Put
  <2> QED BY <1>1, <2>1, EnqueueType DEF Put, workerVars, TypeOK
<1>2. ASSUME NEW t \in Task, NEW p \in Pair, Block(t, p) PROVE TypeOK'
  <2>1. Append(putters[p], t) \in Seq(Task)
    BY AppendProperties DEF TypeOK
  <2> QED BY <1>2, <2>1 DEF Block, workerVars, TypeOK
<1>3. ASSUME NEW t \in Task, Resume(t) PROVE TypeOK'
  <2>1. wants[t] \in Pair
    BY DEF TypeOK
  <2>2. CASE Full(wants[t])
    <3>1. Append(putters[wants[t]], t) \in Seq(Task)
      BY <2>1, AppendProperties DEF TypeOK
    <3>2. /\ pc' = [pc EXCEPT ![t] = "blocked"]
          /\ putters' = [putters EXCEPT ![wants[t]] =
                           Append(putters[wants[t]], t)]
          /\ UNCHANGED <<queue, wants, available, unfinished, workerVars>>
      BY <1>3, <2>2 DEF Resume
    <3>3. /\ pc' \in [Task -> {"idle", "blocked", "woken", "queued"}]
          /\ putters' \in [Pair -> Seq(Task)]
      BY <2>1, <3>1, <3>2 DEF TypeOK
    <3> QED BY <3>2, <3>3 DEF workerVars, TypeOK
  <2>3. CASE ~Full(wants[t])
    <3>1. Enqueue(t, wants[t])
      BY <1>3, <2>3 DEF Resume
    <3> QED BY <1>3, <2>1, <2>3, <3>1, EnqueueType
         DEF Resume, workerVars, TypeOK
  <2> QED BY <2>2, <2>3
<1>4. ASSUME NEW t \in Task, Timeout(t) PROVE TypeOK'
  <2> DEFINE idle == [pc EXCEPT ![t] = "idle"]
  <2>1. /\ wants[t] \in Pair
        /\ idle \in [Task -> {"idle", "blocked", "woken", "queued"}]
    BY DEF TypeOK
  <2>2. /\ pc' \in [Task -> {"idle", "blocked", "woken", "queued"}]
        /\ putters' \in [Pair -> Seq(Task)]
    <3>1. CASE pc[t] = "blocked"
      <4>1. pc' = idle /\ LeavesPutters(t)
        BY <1>4, <3>1 DEF Timeout
      <4>2. PICK i \in 1 .. Len(putters[wants[t]]) :
              putters' = [putters EXCEPT ![wants[t]] =
                            RemoveAt(putters[wants[t]], i)]
        BY <4>1 DEF LeavesPutters
      <4>3. RemoveAt(putters[wants[t]], i) \in Seq(Task)
        BY <2>1, RemoveAtProperties DEF TypeOK
      <4> QED BY <2>1, <4>1, <4>2, <4>3 DEF TypeOK
    <3>2. CASE pc[t] = "woken"
      <4>1. PassesWakeupOn(t)
        BY <1>4, <3>2 DEF Timeout
      <4>2. CASE Full(wants[t])
        BY <2>1, <4>1, <4>2 DEF PassesWakeupOn, TypeOK
      <4>3. CASE ~Full(wants[t])
        <5>1. WakeNext(wants[t], idle)
          BY <4>1, <4>3 DEF PassesWakeupOn
        <5> QED BY <2>1, <5>1, WakeNextType DEF TypeOK
      <4> QED BY <4>2, <4>3
    <3> QED BY <1>4, <3>1, <3>2 DEF Timeout
  <2> QED BY <1>4, <2>2 DEF Timeout, workerVars, TypeOK
<1>5. ASSUME NEW p \in Pair, Get(p) PROVE TypeOK'
  <2>1. WakeNext(p, pc)
    BY <1>5 DEF Get
  <2>2. /\ pc' \in [Task -> {"idle", "blocked", "woken", "queued"}]
        /\ putters' \in [Pair -> Seq(Task)]
    BY <2>1, WakeNextType DEF TypeOK
  <2>3. available' \in BOOLEAN
    BY <1>5 DEF Get, AvailableAfter, TypeOK
  <2>4. cursor' \in Pair
    BY <1>5, CursorType DEF Get
  <2>5. bypassed' \in [Pair -> Nat]
    <3>1. bypassed' = [q \in Pair |->
            IF q # p /\ queue[q] # <<>> THEN bypassed[q] + 1 ELSE 0]
      BY <1>5 DEF Get
    <3>2. bypassed \in [Pair -> Nat]
      BY DEF TypeOK
    <3> QED BY <3>1, <3>2
  <2>6. queue' \in [Pair -> Seq(Task)] /\ serving' \in SUBSET Task
    BY <1>5, GetQueue DEF Get
  <2> QED BY <1>5, <2>2, <2>3, <2>4, <2>5, <2>6 DEF Get, TypeOK
<1>6. CASE GetWaits \/ GetWakes
  BY <1>6 DEF GetWaits, GetWakes, TypeOK
<1>7. ASSUME NEW t \in serving, Finish(t) PROVE TypeOK'
  BY <1>7 DEF Finish, TaskDone, TypeOK
<1>8. CASE UNCHANGED vars
  BY <1>8 DEF vars, TypeOK
<1> QED
  BY <1>1, <1>2, <1>3, <1>4, <1>5, <1>6, <1>7, <1>8 DEF Next, WorkerStep

\* What a step does to the items: one enters a pair with room, the worker
\* takes the first of one pair, or all stay.
LEMMA ItemSteps ==
    ASSUME TypeOK, [Next]_vars
    PROVE  \/ \E t \in Task, p \in Pair :
                 ~Full(p) /\ Enqueue(t, p) /\ UNCHANGED workerVars
           \/ \E p \in Pair : Get(p)
           \/ Empty /\ UNCHANGED <<queue, cursor, bypassed>>
           \/ UNCHANGED <<queue, available, cursor, bypassed>>
BY DEF TypeOK, Next, Put, Block, Resume, Timeout, WorkerStep, GetWaits,
       GetWakes, Finish, vars, workerVars

LEMMA StepDepthBounded == QueueInv /\ [Next]_vars => DepthBounded'
<1> SUFFICES ASSUME QueueInv, [Next]_vars PROVE DepthBounded'
  OBVIOUS
<1>1. TypeOK /\ DepthBounded /\ \A p \in Pair : Len(queue[p]) \in Nat
  BY LenProperties DEF QueueInv, TypeOK
<1>2. ASSUME NEW t \in Task, NEW p \in Pair, ~Full(p), Enqueue(t, p)
      PROVE  DepthBounded'
  <2>1. ASSUME NEW q \in Pair PROVE Len(queue'[q]) <= PerPair
    <3>1. CASE q = p
      <4>1. Len(queue'[p]) = Len(queue[p]) + 1
        BY <1>1, <1>2, EnqueueType
      <4>2. ~(Len(queue[p]) >= PerPair)
        BY <1>2 DEF Full
      <4> QED BY <1>1, <3>1, <4>1, <4>2, PerPairType
    <3>2. CASE q # p
      <4>1. queue'[q] = queue[q]
        BY <1>1, <1>2, <3>2, EnqueueType
      <4> QED BY <1>1, <4>1 DEF DepthBounded
    <3> QED BY <3>1, <3>2
  <2> QED BY <2>1 DEF DepthBounded
<1>3. ASSUME NEW p \in Pair, Get(p) PROVE DepthBounded'
  BY <1>1, <1>3, GetQueue, PerPairType DEF DepthBounded
<1>4. CASE UNCHANGED queue
  BY <1>1, <1>4 DEF DepthBounded
<1> QED BY <1>1, <1>2, <1>3, <1>4, ItemSteps

LEMMA StepNoLostWakeup == QueueInv /\ [Next]_vars => NoLostWakeup'
<1> SUFFICES ASSUME QueueInv, [Next]_vars PROVE NoLostWakeup'
  OBVIOUS
<1>1. TypeOK /\ NoLostWakeup
  BY DEF QueueInv
<1>2. ASSUME NEW t \in Task, NEW p \in Pair, Enqueue(t, p)
      PROVE  NoLostWakeup'
  BY <1>2 DEF Enqueue, NoLostWakeup
<1>3. ASSUME NEW p \in Pair, Get(p) PROVE NoLostWakeup'
  <2>1. available
    BY <1>1, <1>3 DEF Get, NoLostWakeup, Empty
  <2>2. available' = AvailableAfter(p, queue')
    BY <1>3 DEF Get
  <2> QED BY <2>1, <2>2 DEF AvailableAfter, NoLostWakeup, Empty
<1>4. CASE Empty /\ UNCHANGED queue
  BY <1>4 DEF NoLostWakeup, Empty
<1>5. CASE UNCHANGED <<queue, available>>
  BY <1>1, <1>5 DEF NoLostWakeup, Empty
<1> QED BY <1>1, <1>2, <1>3, <1>4, <1>5, ItemSteps

LEMMA StepNearCursor == QueueInv /\ [Next]_vars => NearCursor'
<1> SUFFICES ASSUME QueueInv, [Next]_vars PROVE NearCursor'
  OBVIOUS
<1>1. TypeOK /\ NearCursor
  BY DEF QueueInv
<1>2. ASSUME NEW p \in Pair, Get(p) PROVE NearCursor'
  <2>1. cursor \in Pair /\ bypassed \in [Pair -> Nat]
    BY <1>1 DEF TypeOK
  <2>2. cursor' = CursorAfter(p) /\ cursor' \in Pair
    BY <1>2, CursorType DEF Get
  <2>3. ASSUME NEW q \in Pair PROVE bypassed'[q] + Distance(q)' <= N - 1
    <3>1. Distance(q)' = IF q >= cursor' THEN q - cursor' ELSE q + N - cursor'
      BY DEF Distance
    <3>2. CASE q # p /\ queue[q] # <<>>
      <4>1. bypassed'[q] = bypassed[q] + 1 /\ Distance(p) <= Distance(q)
        BY <1>2, <3>2 DEF Get
      <4>2. bypassed[q] + Distance(q) <= N - 1
        BY <1>1 DEF NearCursor
      <4>3. Distance(q) = IF q >= cursor THEN q - cursor ELSE q + N - cursor
        BY DEF Distance
      <4>4. Distance(p) = IF p >= cursor THEN p - cursor ELSE p + N - cursor
        BY DEF Distance
      <4>5. cursor' = IF p = N - 1 THEN 0 ELSE p + 1
        BY <2>2 DEF CursorAfter
      <4>6. Distance(q)' <= Distance(q) - 1
        BY <2>1, <3>1, <3>2, <4>1, <4>3, <4>4, <4>5 DEF Pair
      <4>7. Distance(q) \in Int /\ Distance(q)' \in Int
        <5>1. q \in Int /\ N \in Int /\ cursor \in Int /\ cursor' \in Int
          BY <2>1, <2>2 DEF Pair
        <5>2. Distance(q) \in Int
          BY <4>3, <5>1
        <5>3. Distance(q)' \in Int
          BY <3>1, <5>1
        <5> QED BY <5>2, <5>3
      <4> QED BY <2>1, <4>1, <4>2, <4>6, <4>7
    <3>3. CASE ~(q # p /\ queue[q] # <<>>)
      <4>1. bypassed'[q] = 0
        BY <1>2, <3>3 DEF Get
      <4> QED BY <2>2, <3>1, <4>1 DEF Pair
    <3> QED BY <3>2, <3>3
  <2> QED BY <2>3 DEF NearCursor
<1>3. CASE UNCHANGED <<cursor, bypassed>>
  BY <1>1, <1>3 DEF NearCursor, Distance
<1> QED BY <1>1, <1>2, <1>3, ItemSteps DEF workerVars

LEMMA Inductive == Spec => []QueueInv
<1>1. QueueInv /\ [Next]_vars => QueueInv'
  BY TypeStep, StepDepthBounded, StepNoLostWakeup, StepNearCursor
     DEF QueueInv
<1> QED BY InitInv, <1>1, PTL DEF Spec

\* Every variable keeps its type.
THEOREM TypeCorrect == Spec => []TypeOK
<1>1. QueueInv => TypeOK
  BY DEF QueueInv
<1> QED BY <1>1, Inductive, PTL

\* A handler that was woken for a slot and lost it to another never pushes a
\* pair over its share.
THEOREM Bounded == Spec => []DepthBounded
<1>1. QueueInv => DepthBounded
  BY DEF QueueInv
<1> QED BY <1>1, Inductive, PTL

\* The worker never sleeps on items.
THEOREM NoSleepingWorker == Spec => []NoLostWakeup
<1>1. QueueInv => NoLostWakeup
  BY DEF QueueInv
<1> QED BY <1>1, Inductive, PTL

\* Round-robin: no pair is passed over more than N - 1 times.
THEOREM RoundRobin == Spec => []BoundedBypass
<1>1. ASSUME QueueInv, NEW p \in Pair PROVE bypassed[p] <= N - 1
  <2>1. cursor \in Pair /\ bypassed[p] \in Nat
    BY <1>1 DEF QueueInv, TypeOK
  <2>2. Distance(p) \in 0 .. N - 1
    BY <2>1, DistanceType
  <2>3. bypassed[p] + Distance(p) <= N - 1
    BY <1>1 DEF QueueInv, NearCursor
  <2> QED BY <2>1, <2>2, <2>3
<1>2. QueueInv => BoundedBypass
  BY <1>1 DEF BoundedBypass
<1> QED BY <1>2, Inductive, PTL

-----------------------------------------------------------------------------
\* Where each handler is: asleep on its pair's queue, waiting in it, being
\* served, or about to look again.  Every pc says so of exactly one place.
AtOf(c, w, where, p) == {t \in Task : c[t] = where /\ w[t] = p}
At(where, p) == AtOf(pc, wants, where, p)

Placed ==
    \A p \in Pair :
        /\ IsInjective(queue[p]) /\ IsInjective(putters[p])
        /\ ToSet(putters[p]) = At("blocked", p)
        /\ ToSet(queue[p]) = At("queued", p) \ serving

ServesOne ==
    /\ \A t \in serving : pc[t] = "queued"
    /\ IF worker = "busy" THEN \E t \in Task : serving = {t} ELSE serving = {}

\* While handlers sleep on a pair, each of its free slots has been offered to
\* a handler that has not looked yet: what keeps NoLostSlot true when two slots
\* are free and one of the handlers woken for them takes its own or gives up.
SlotsOffered ==
    \A p \in Pair :
        /\ IsFiniteSet(At("woken", p))
        /\ putters[p] # <<>> =>
              PerPair - Len(queue[p]) <= Cardinality(At("woken", p))

HandlerInv == QueueInv /\ Placed /\ ServesOne

Places == {"idle", "blocked", "woken", "queued"}

\* Put, and Resume of a handler that finds room.
Joins(t, p) ==
    /\ pc[t] = "idle" \/ (pc[t] = "woken" /\ wants[t] = p)
    /\ ~Full(p)
    /\ Enqueue(t, p)
    /\ wants' = [wants EXCEPT ![t] = p]
    /\ UNCHANGED <<putters, workerVars>>

\* Block, and Resume of a handler that finds none.
Sleeps(t, p) ==
    /\ pc[t] = "idle" \/ (pc[t] = "woken" /\ wants[t] = p)
    /\ Full(p)
    /\ pc' = [pc EXCEPT ![t] = "blocked"]
    /\ putters' = [putters EXCEPT ![p] = Append(@, t)]
    /\ wants' = [wants EXCEPT ![t] = p]
    /\ UNCHANGED <<queue, unfinished, workerVars>>

LEMMA HandlerSteps ==
    ASSUME TypeOK, [Next]_vars
    PROVE  \/ \E t \in Task, p \in Pair : Joins(t, p) \/ Sleeps(t, p)
           \/ \E t \in Task : Timeout(t)
           \/ \E p \in Pair : Get(p)
           \/ \E t \in serving : Finish(t)
           \/ /\ UNCHANGED <<queue, putters, pc, wants, serving, unfinished>>
              /\ worker = "busy" <=> worker' = "busy"
<1>1. ASSUME NEW t \in Task, NEW p \in Pair, Put(t, p) PROVE Joins(t, p)
  BY <1>1 DEF Put, Joins, workerVars
<1>2. ASSUME NEW t \in Task, NEW p \in Pair, Block(t, p) PROVE Sleeps(t, p)
  BY <1>2 DEF Block, Sleeps, workerVars
<1>3. ASSUME NEW t \in Task, Resume(t)
      PROVE  Joins(t, wants[t]) \/ Sleeps(t, wants[t])
  <2>1. [wants EXCEPT ![t] = wants[t]] = wants
    BY DEF TypeOK
  <2> QED BY <1>3, <2>1 DEF Resume, Joins, Sleeps
<1>4. \A t \in Task : wants[t] \in Pair
  BY DEF TypeOK
<1>5. CASE GetWaits \/ GetWakes
  BY <1>5 DEF GetWaits, GetWakes
<1>6. CASE UNCHANGED vars
  BY <1>6 DEF vars
<1> QED BY <1>1, <1>2, <1>3, <1>4, <1>5, <1>6 DEF Next, WorkerStep

\* What the moves do to who is where.
LEMMA JoinsFacts ==
    ASSUME HandlerInv, NEW t \in Task, NEW p \in Pair, Joins(t, p)
    PROVE  /\ t \notin serving /\ pc[t] # "queued" /\ pc'[t] = "queued"
           /\ \A u \in Task \ {t} : pc'[u] = pc[u]
           /\ \A q \in Pair : At("blocked", q)' = At("blocked", q)
           /\ At("queued", p)' = At("queued", p) \cup {t}
           /\ At("woken", p)' = At("woken", p) \ {t}
           /\ \A q \in Pair \ {p} : /\ At("queued", q)' = At("queued", q)
                                    /\ At("woken", q)' = At("woken", q)
           /\ queue' = [queue EXCEPT ![p] = Append(queue[p], t)]
           /\ putters' = putters /\ worker' = worker /\ serving' = serving
           /\ unfinished' = [unfinished EXCEPT ![p] = @ + 1]
<1>1. pc \in [Task -> Places] /\ wants \in [Task -> Pair]
  BY DEF HandlerInv, QueueInv, TypeOK, Places
<1>2. pc' = [pc EXCEPT ![t] = "queued"] /\ wants' = [wants EXCEPT ![t] = p]
  BY DEF Joins, Enqueue
<1>3. pc[t] \in {"idle", "woken"} /\ (pc[t] = "woken" => wants[t] = p)
  BY DEF Joins
<1>4. t \notin serving /\ pc[t] # "queued"
  BY DEF HandlerInv, ServesOne, Joins
<1>5. pc'[t] = "queued" /\ \A u \in Task \ {t} : pc'[u] = pc[u]
  BY <1>1, <1>2
<1>6. /\ \A q \in Pair : At("blocked", q)' = At("blocked", q)
      /\ At("queued", p)' = At("queued", p) \cup {t}
      /\ At("woken", p)' = At("woken", p) \ {t}
      /\ \A q \in Pair \ {p} : /\ At("queued", q)' = At("queued", q)
                               /\ At("woken", q)' = At("woken", q)
  <2>1. \A q \in Pair : At("blocked", q)' = At("blocked", q)
    BY <1>1, <1>2, <1>3 DEF At, AtOf
  <2>2. At("queued", p)' = At("queued", p) \cup {t}
    BY <1>1, <1>2, <1>3 DEF At, AtOf
  <2>3. At("woken", p)' = At("woken", p) \ {t}
    BY <1>1, <1>2, <1>3 DEF At, AtOf
  <2>4. \A q \in Pair \ {p} : At("queued", q)' = At("queued", q)
    BY <1>1, <1>2, <1>3 DEF At, AtOf
  <2>5. \A q \in Pair \ {p} : At("woken", q)' = At("woken", q)
    BY <1>1, <1>2, <1>3 DEF At, AtOf
  <2> QED BY <2>1, <2>2, <2>3, <2>4, <2>5
<1> QED BY <1>4, <1>5, <1>6 DEF Joins, Enqueue, workerVars

LEMMA SleepsFacts ==
    ASSUME HandlerInv, NEW t \in Task, NEW p \in Pair, Sleeps(t, p)
    PROVE  /\ t \notin serving /\ pc[t] \notin {"queued", "blocked"}
           /\ \A u \in Task \ {t} : pc'[u] = pc[u]
           /\ At("blocked", p)' = At("blocked", p) \cup {t}
           /\ At("woken", p)' = At("woken", p) \ {t}
           /\ \A q \in Pair : At("queued", q)' = At("queued", q)
           /\ \A q \in Pair \ {p} : /\ At("blocked", q)' = At("blocked", q)
                                    /\ At("woken", q)' = At("woken", q)
           /\ putters' = [putters EXCEPT ![p] = Append(putters[p], t)]
           /\ queue' = queue /\ worker' = worker /\ serving' = serving
           /\ unfinished' = unfinished
<1>1. pc \in [Task -> Places] /\ wants \in [Task -> Pair]
  BY DEF HandlerInv, QueueInv, TypeOK, Places
<1>2. pc' = [pc EXCEPT ![t] = "blocked"] /\ wants' = [wants EXCEPT ![t] = p]
  BY DEF Sleeps
<1>3. pc[t] \in {"idle", "woken"} /\ (pc[t] = "woken" => wants[t] = p)
  BY DEF Sleeps
<1>4. t \notin serving /\ pc[t] \notin {"queued", "blocked"}
  BY DEF HandlerInv, ServesOne, Sleeps
<1>5. \A u \in Task \ {t} : pc'[u] = pc[u]
  BY <1>1, <1>2
<1>6. /\ At("blocked", p)' = At("blocked", p) \cup {t}
      /\ At("woken", p)' = At("woken", p) \ {t}
      /\ \A q \in Pair : At("queued", q)' = At("queued", q)
      /\ \A q \in Pair \ {p} : /\ At("blocked", q)' = At("blocked", q)
                               /\ At("woken", q)' = At("woken", q)
  <2>1. At("blocked", p)' = At("blocked", p) \cup {t}
    BY <1>1, <1>2, <1>3 DEF At, AtOf
  <2>2. At("woken", p)' = At("woken", p) \ {t}
    BY <1>1, <1>2, <1>3 DEF At, AtOf
  <2>3. \A q \in Pair : At("queued", q)' = At("queued", q)
    BY <1>1, <1>2, <1>3 DEF At, AtOf
  <2>4. \A q \in Pair \ {p} : At("blocked", q)' = At("blocked", q)
    BY <1>1, <1>2, <1>3 DEF At, AtOf
  <2>5. \A q \in Pair \ {p} : At("woken", q)' = At("woken", q)
    BY <1>1, <1>2, <1>3 DEF At, AtOf
  <2> QED BY <2>1, <2>2, <2>3, <2>4, <2>5
<1> QED BY <1>4, <1>5, <1>6 DEF Sleeps, workerVars

\* The oldest sleeper of a pair is blocked there.
LEMMA HeadSleeps ==
    ASSUME HandlerInv, NEW p \in Pair, putters[p] # <<>>
    PROVE  LET h == Head(putters[p]) IN
           /\ h \in Task /\ pc[h] = "blocked" /\ wants[h] = p
           /\ Tail(putters[p]) \in Seq(Task)
           /\ IsInjective(Tail(putters[p]))
           /\ ToSet(Tail(putters[p])) = At("blocked", p) \ {h}
<1>1. putters[p] \in Seq(Task)
  BY DEF HandlerInv, QueueInv, TypeOK
<1>2. IsInjective(putters[p]) /\ ToSet(putters[p]) = At("blocked", p)
  BY DEF HandlerInv, Placed
<1>3. Head(putters[p]) \in At("blocked", p)
  BY <1>1, <1>2, TailElements
<1> QED BY <1>1, <1>2, <1>3, TailElements, HeadTailProperties DEF At, AtOf

\* get() wakes the oldest sleeper of the pair it takes from, if there is one.
LEMMA GetFacts ==
    ASSUME HandlerInv, NEW p \in Pair, Get(p)
    PROVE  LET item == Head(queue[p])
               h == Head(putters[p]) IN
           /\ item \in Task /\ pc[item] = "queued" /\ wants[item] = p
           /\ serving = {} /\ serving' = {item} /\ worker' = "busy"
           /\ queue' = [queue EXCEPT ![p] = Tail(queue[p])]
           /\ wants' = wants /\ unfinished' = unfinished
           /\ IF putters[p] = <<>>
              THEN pc' = pc /\ putters' = putters
              ELSE /\ pc' = [pc EXCEPT ![h] = "woken"]
                   /\ putters' = [putters EXCEPT ![p] = Tail(putters[p])]
           /\ IsInjective(Tail(queue[p]))
           /\ ToSet(Tail(queue[p])) = At("queued", p) \ {item}
<1>1. serving = {}
  BY DEF HandlerInv, ServesOne, Get
<1>2. queue[p] \in Seq(Task) /\ queue[p] # <<>>
  BY DEF HandlerInv, QueueInv, TypeOK, Get
<1>3. IsInjective(queue[p]) /\ ToSet(queue[p]) = At("queued", p)
  BY <1>1 DEF HandlerInv, Placed
<1>4. Head(queue[p]) \in At("queued", p)
  BY <1>2, <1>3, TailElements
<1>5. /\ IsInjective(Tail(queue[p]))
      /\ ToSet(Tail(queue[p])) = At("queued", p) \ {Head(queue[p])}
  BY <1>2, <1>3, TailElements
<1>6. WakeNext(p, pc)
  BY DEF Get
<1> QED BY <1>1, <1>4, <1>5, <1>6 DEF Get, WakeNext, At, AtOf

\* Waking the head of a pair's sleepers: it is the only one that moves.
LEMMA WakeFacts ==
    ASSUME HandlerInv, NEW p \in Pair, putters[p] # <<>>,
           wants' = wants, pc' = [pc EXCEPT ![Head(putters[p])] = "woken"]
    PROVE  LET h == Head(putters[p]) IN
           /\ At("woken", p)' = At("woken", p) \cup {h} /\ h \notin At("woken", p)
           /\ At("blocked", p)' = At("blocked", p) \ {h}
           /\ \A q \in Pair : At("queued", q)' = At("queued", q)
           /\ \A q \in Pair \ {p} : /\ At("blocked", q)' = At("blocked", q)
                                    /\ At("woken", q)' = At("woken", q)
<1> DEFINE h == Head(putters[p])
<1>1. pc \in [Task -> Places] /\ wants \in [Task -> Pair]
  BY DEF HandlerInv, QueueInv, TypeOK, Places
<1>2. h \in Task /\ pc[h] = "blocked" /\ wants[h] = p
  BY HeadSleeps
<1>3. pc' = [pc EXCEPT ![h] = "woken"]
  OBVIOUS
<1> HIDE DEF h
<1>4. wants' = [wants EXCEPT ![h] = p]
  BY <1>1, <1>2
<1>5. /\ At("woken", p)' = At("woken", p) \cup {h} /\ h \notin At("woken", p)
      /\ At("blocked", p)' = At("blocked", p) \ {h}
      /\ \A q \in Pair : At("queued", q)' = At("queued", q)
      /\ \A q \in Pair \ {p} : /\ At("blocked", q)' = At("blocked", q)
                               /\ At("woken", q)' = At("woken", q)
  <2>1. At("woken", p)' = At("woken", p) \cup {h} /\ h \notin At("woken", p)
    BY <1>1, <1>2, <1>3, <1>4 DEF At, AtOf
  <2>2. At("blocked", p)' = At("blocked", p) \ {h}
    BY <1>1, <1>2, <1>3, <1>4 DEF At, AtOf
  <2>3. \A q \in Pair : At("queued", q)' = At("queued", q)
    BY <1>1, <1>2, <1>3, <1>4 DEF At, AtOf
  <2>4. \A q \in Pair \ {p} : At("blocked", q)' = At("blocked", q)
    BY <1>1, <1>2, <1>3, <1>4 DEF At, AtOf
  <2>5. \A q \in Pair \ {p} : At("woken", q)' = At("woken", q)
    BY <1>1, <1>2, <1>3, <1>4 DEF At, AtOf
  <2> QED BY <2>1, <2>2, <2>3, <2>4, <2>5
<1> QED BY <1>5 DEF h

\* A handler that gives up: it slept, it was woken for a slot that is gone or
\* that nobody else sleeps for, or it hands its slot on to the oldest sleeper.
GivesUpSleeping(t) ==
    LET p == wants[t] IN
    /\ pc[t] = "blocked"
    /\ pc' = [pc EXCEPT ![t] = "idle"]
    /\ \E i \in 1 .. Len(putters[p]) :
          putters[p][i] = t /\ putters' = [putters EXCEPT ![p] = RemoveAt(@, i)]

GivesUpWoken(t) ==
    /\ pc[t] = "woken"
    /\ pc' = [pc EXCEPT ![t] = "idle"]
    /\ putters' = putters
    /\ Full(wants[t]) \/ putters[wants[t]] = <<>>

HandsOn(t) ==
    LET p == wants[t]
        h == Head(putters[p])
    IN  /\ pc[t] = "woken"
        /\ ~Full(p)
        /\ putters[p] # <<>>
        /\ pc' = [[pc EXCEPT ![t] = "idle"] EXCEPT ![h] = "woken"]
        /\ putters' = [putters EXCEPT ![p] = Tail(@)]

LEMMA TimeoutFacts ==
    ASSUME HandlerInv, NEW t \in Task, Timeout(t)
    PROVE  /\ GivesUpSleeping(t) \/ GivesUpWoken(t) \/ HandsOn(t)
           /\ wants[t] \in Pair /\ t \notin serving
           /\ UNCHANGED <<queue, wants, unfinished, worker, serving>>
<1>1. wants[t] \in Pair
  BY DEF HandlerInv, QueueInv, TypeOK
<1>2. t \notin serving
  BY DEF HandlerInv, ServesOne, Timeout
<1>3. CASE pc[t] = "blocked"
  BY <1>1, <1>2, <1>3 DEF Timeout, LeavesPutters, GivesUpSleeping, workerVars
<1>4. CASE pc[t] = "woken"
  BY <1>1, <1>2, <1>4
     DEF Timeout, PassesWakeupOn, WakeNext, GivesUpWoken, HandsOn, workerVars
<1> QED BY <1>3, <1>4 DEF Timeout

LEMMA GivesUpFacts ==
    ASSUME HandlerInv, NEW t \in Task, wants' = wants,
           pc' = [pc EXCEPT ![t] = "idle"]
    PROVE  \A q \in Pair :
             /\ At("blocked", q)' = At("blocked", q) \ {t}
             /\ At("woken", q)' = At("woken", q) \ {t}
             /\ At("queued", q)' = At("queued", q) \ {t}
<1>1. pc \in [Task -> Places] /\ wants \in [Task -> Pair]
  BY DEF HandlerInv, QueueInv, TypeOK, Places
<1>2. \A q \in Pair : At("blocked", q)' = At("blocked", q) \ {t}
  BY <1>1 DEF At, AtOf
<1>3. \A q \in Pair : At("woken", q)' = At("woken", q) \ {t}
  BY <1>1 DEF At, AtOf
<1>4. \A q \in Pair : At("queued", q)' = At("queued", q) \ {t}
  BY <1>1 DEF At, AtOf
<1> QED BY <1>2, <1>3, <1>4

LEMMA HandsOnFacts ==
    ASSUME HandlerInv, NEW t \in Task, wants' = wants, HandsOn(t)
    PROVE  LET p == wants[t]
               h == Head(putters[p])
           IN  /\ t \in At("woken", p) /\ h \notin At("woken", p)
               /\ At("woken", p)' = (At("woken", p) \ {t}) \cup {h}
               /\ At("blocked", p)' = At("blocked", p) \ {h}
               /\ \A q \in Pair : At("queued", q)' = At("queued", q)
               /\ \A q \in Pair \ {p} : /\ At("blocked", q)' = At("blocked", q)
                                        /\ At("woken", q)' = At("woken", q)
<1> DEFINE p == wants[t]
           h == Head(putters[p])
<1>1. pc \in [Task -> Places] /\ wants \in [Task -> Pair]
  BY DEF HandlerInv, QueueInv, TypeOK, Places
<1>2. p \in Pair /\ putters[p] # <<>> /\ pc[t] = "woken"
  BY <1>1 DEF HandsOn
<1>3. h \in Task /\ pc[h] = "blocked" /\ wants[h] = p
  BY <1>2, HeadSleeps
<1>4. pc' = [[pc EXCEPT ![t] = "idle"] EXCEPT ![h] = "woken"]
  BY DEF HandsOn
<1>5. p = wants[t] /\ p' = p
  OBVIOUS
<1> HIDE DEF h, p
<1>6. t \in At("woken", p) /\ h \notin At("woken", p)
  BY <1>1, <1>2, <1>3, <1>5 DEF At, AtOf
<1>7. At("woken", p)' = (At("woken", p) \ {t}) \cup {h}
  BY <1>1, <1>2, <1>3, <1>4, <1>5 DEF At, AtOf
<1>8. At("blocked", p)' = At("blocked", p) \ {h}
  BY <1>1, <1>2, <1>3, <1>4, <1>5 DEF At, AtOf
<1>9. \A q \in Pair : At("queued", q)' = At("queued", q)
  BY <1>1, <1>2, <1>3, <1>4, <1>5 DEF At, AtOf
<1>10. \A q \in Pair \ {p} : At("blocked", q)' = At("blocked", q)
  BY <1>1, <1>2, <1>3, <1>4, <1>5 DEF At, AtOf
<1>11. \A q \in Pair \ {p} : At("woken", q)' = At("woken", q)
  BY <1>1, <1>2, <1>3, <1>4, <1>5 DEF At, AtOf
<1> QED BY <1>6, <1>7, <1>8, <1>9, <1>10, <1>11 DEF h, p

LEMMA ServesOneStep == HandlerInv /\ [Next]_vars => ServesOne'
<1> SUFFICES ASSUME HandlerInv, [Next]_vars PROVE ServesOne'
  OBVIOUS
<1>1. TypeOK /\ ServesOne
  BY DEF HandlerInv, QueueInv
<1>2. pc \in [Task -> Places] /\ serving \subseteq Task
  BY <1>1 DEF TypeOK, Places
<1>3. ASSUME NEW t \in Task, NEW p \in Pair, Joins(t, p) PROVE ServesOne'
  <2>1. /\ t \notin serving /\ \A u \in Task \ {t} : pc'[u] = pc[u]
        /\ worker' = worker /\ serving' = serving
    BY <1>3, JoinsFacts
  <2> QED BY <1>1, <1>2, <2>1 DEF ServesOne
<1>4. ASSUME NEW t \in Task, NEW p \in Pair, Sleeps(t, p) PROVE ServesOne'
  <2>1. /\ t \notin serving /\ \A u \in Task \ {t} : pc'[u] = pc[u]
        /\ worker' = worker /\ serving' = serving
    BY <1>4, SleepsFacts
  <2> QED BY <1>1, <1>2, <2>1 DEF ServesOne
<1>5. ASSUME NEW t \in Task, Timeout(t) PROVE ServesOne'
  <2>1. /\ GivesUpSleeping(t) \/ GivesUpWoken(t) \/ HandsOn(t)
        /\ wants[t] \in Pair /\ t \notin serving
        /\ worker' = worker /\ serving' = serving
    BY <1>5, TimeoutFacts
  <2>2. CASE GivesUpSleeping(t) \/ GivesUpWoken(t)
    BY <1>1, <1>2, <2>1, <2>2 DEF ServesOne, GivesUpSleeping, GivesUpWoken
  <2>3. CASE HandsOn(t)
    <3>1. PICK h \in Task : /\ pc[h] = "blocked"
                            /\ pc' = [[pc EXCEPT ![t] = "idle"] EXCEPT ![h] = "woken"]
      BY <2>1, <2>3, HeadSleeps DEF HandsOn
    <3> QED BY <1>1, <1>2, <2>1, <3>1 DEF ServesOne
  <2> QED BY <2>1, <2>2, <2>3
<1>6. ASSUME NEW p \in Pair, Get(p) PROVE ServesOne'
  <2>1. PICK item \in Task : /\ pc[item] = "queued" /\ serving' = {item}
                             /\ worker' = "busy"
    BY <1>6, GetFacts
  <2>2. CASE putters[p] = <<>>
    <3>1. pc' = pc
      BY <1>6, <2>2, GetFacts
    <3> QED BY <2>1, <3>1 DEF ServesOne
  <2>3. CASE putters[p] # <<>>
    <3>1. PICK h \in Task : pc[h] = "blocked" /\ pc' = [pc EXCEPT ![h] = "woken"]
      BY <1>6, <2>3, GetFacts, HeadSleeps
    <3> QED BY <1>2, <2>1, <3>1 DEF ServesOne
  <2> QED BY <2>2, <2>3
<1>7. ASSUME NEW t \in serving, Finish(t) PROVE ServesOne'
  BY <1>7 DEF Finish, ServesOne
<1>8. CASE UNCHANGED <<pc, serving>> /\ (worker = "busy" <=> worker' = "busy")
  BY <1>1, <1>8 DEF ServesOne
<1> QED BY <1>1, <1>3, <1>4, <1>5, <1>6, <1>7, <1>8, HandlerSteps

LEMMA PlacedStep == HandlerInv /\ [Next]_vars => Placed'
<1> SUFFICES ASSUME HandlerInv, [Next]_vars PROVE Placed'
  OBVIOUS
<1>1. /\ TypeOK /\ Placed /\ ServesOne
      /\ queue \in [Pair -> Seq(Task)] /\ putters \in [Pair -> Seq(Task)]
  BY DEF HandlerInv, QueueInv, TypeOK
<1>2. ASSUME NEW t \in Task, NEW p \in Pair, Joins(t, p) PROVE Placed'
  <2>1. /\ t \notin serving /\ pc[t] # "queued"
        /\ \A q \in Pair : At("blocked", q)' = At("blocked", q)
        /\ At("queued", p)' = At("queued", p) \cup {t}
        /\ \A q \in Pair \ {p} : At("queued", q)' = At("queued", q)
        /\ queue' = [queue EXCEPT ![p] = Append(queue[p], t)]
        /\ putters' = putters /\ serving' = serving
    BY <1>2, JoinsFacts
  <2>2. t \notin ToSet(queue[p])
    BY <1>1, <2>1 DEF Placed, At, AtOf
  <2>3. /\ ToSet(Append(queue[p], t)) = ToSet(queue[p]) \cup {t}
        /\ IsInjective(Append(queue[p], t))
    BY <1>1, <2>2, AppendElements DEF Placed
  <2>4. queue'[p] = Append(queue[p], t) /\ \A q \in Pair \ {p} : queue'[q] = queue[q]
    BY <1>1, <2>1
  <2>5. ToSet(queue'[p]) = At("queued", p)' \ serving'
    BY <1>1, <2>1, <2>3, <2>4 DEF Placed
  <2> QED BY <1>1, <2>1, <2>3, <2>4, <2>5 DEF Placed
<1>3. ASSUME NEW t \in Task, NEW p \in Pair, Sleeps(t, p) PROVE Placed'
  <2>1. /\ pc[t] # "blocked"
        /\ At("blocked", p)' = At("blocked", p) \cup {t}
        /\ \A q \in Pair : At("queued", q)' = At("queued", q)
        /\ \A q \in Pair \ {p} : At("blocked", q)' = At("blocked", q)
        /\ putters' = [putters EXCEPT ![p] = Append(putters[p], t)]
        /\ queue' = queue /\ serving' = serving
    BY <1>3, SleepsFacts
  <2>2. t \notin ToSet(putters[p])
    BY <1>1, <2>1 DEF Placed, At, AtOf
  <2>3. /\ ToSet(Append(putters[p], t)) = ToSet(putters[p]) \cup {t}
        /\ IsInjective(Append(putters[p], t))
    BY <1>1, <2>2, AppendElements DEF Placed
  <2>4. /\ putters'[p] = Append(putters[p], t)
        /\ \A q \in Pair \ {p} : putters'[q] = putters[q]
    BY <1>1, <2>1
  <2>5. ToSet(putters'[p]) = At("blocked", p)'
    BY <1>1, <2>1, <2>3, <2>4 DEF Placed
  <2> QED BY <1>1, <2>1, <2>3, <2>4, <2>5 DEF Placed
<1>4. ASSUME NEW t \in Task, Timeout(t) PROVE Placed'
  <2>1. /\ GivesUpSleeping(t) \/ GivesUpWoken(t) \/ HandsOn(t)
        /\ wants[t] \in Pair /\ t \notin serving
        /\ UNCHANGED <<queue, wants, serving>>
    BY <1>4, TimeoutFacts
  <2>2. CASE GivesUpSleeping(t)
    <3> DEFINE p == wants[t]
    <3>1. PICK i \in 1 .. Len(putters[p]) :
            putters[p][i] = t /\ putters' = [putters EXCEPT ![p] = RemoveAt(@, i)]
      BY <2>2 DEF GivesUpSleeping
    <3>2. \A q \in Pair : /\ At("blocked", q)' = At("blocked", q) \ {t}
                          /\ At("queued", q)' = At("queued", q) \ {t}
      BY <2>1, <2>2, GivesUpFacts DEF GivesUpSleeping
    <3>3. /\ IsInjective(RemoveAt(putters[p], i))
          /\ ToSet(RemoveAt(putters[p], i)) = ToSet(putters[p]) \ {t}
      BY <1>1, <2>1, <3>1, RemoveAtElements DEF Placed
    <3>4. \A q \in Pair : t \notin At("queued", q)
      BY <2>2 DEF GivesUpSleeping, At, AtOf
    <3>5. \A q \in Pair \ {p} : t \notin At("blocked", q)
      BY DEF At, AtOf
    <3>6. /\ putters'[p] = RemoveAt(putters[p], i)
          /\ \A q \in Pair \ {p} : putters'[q] = putters[q]
      BY <1>1, <2>1, <3>1
    <3>7. p \in Pair
      BY <2>1
    <3> HIDE DEF p
    <3>8. ToSet(putters'[p]) = At("blocked", p) \ {t} /\ IsInjective(putters'[p])
      BY <1>1, <3>3, <3>6, <3>7 DEF Placed
    <3>9. \A q \in Pair : ToSet(putters'[q]) = At("blocked", q) \ {t} /\ IsInjective(putters'[q])
      BY <1>1, <3>5, <3>6, <3>8 DEF Placed
    <3> QED BY <1>1, <2>1, <3>2, <3>4, <3>9 DEF Placed
  <2>3. CASE GivesUpWoken(t)
    <3>1. \A q \in Pair : /\ At("blocked", q)' = At("blocked", q) \ {t}
                          /\ At("queued", q)' = At("queued", q) \ {t}
      BY <2>1, <2>3, GivesUpFacts DEF GivesUpWoken
    <3>2. \A q \in Pair : t \notin At("blocked", q) /\ t \notin At("queued", q)
      BY <2>3 DEF GivesUpWoken, At, AtOf
    <3>3. \A q \in Pair : /\ At("blocked", q)' = At("blocked", q)
                          /\ At("queued", q)' = At("queued", q)
      BY <3>1, <3>2
    <3> QED BY <1>1, <2>1, <2>3, <3>3 DEF Placed, GivesUpWoken
  <2>4. CASE HandsOn(t)
    <3>1. PICK p \in Pair, h \in Task :
            /\ putters[p] # <<>> /\ p = wants[t] /\ h = Head(putters[p])
            /\ putters' = [putters EXCEPT ![p] = Tail(putters[p])]
      BY <2>1, <2>4, HeadSleeps DEF HandsOn
    <3>2. /\ At("blocked", p)' = At("blocked", p) \ {h}
          /\ \A q \in Pair : At("queued", q)' = At("queued", q)
          /\ \A q \in Pair \ {p} : At("blocked", q)' = At("blocked", q)
      BY <2>1, <2>4, <3>1, HandsOnFacts
    <3>3. /\ IsInjective(Tail(putters[p]))
          /\ ToSet(Tail(putters[p])) = At("blocked", p) \ {h}
      BY <3>1, HeadSleeps
    <3>4. /\ putters'[p] = Tail(putters[p])
          /\ \A q \in Pair \ {p} : putters'[q] = putters[q]
      BY <1>1, <3>1
    <3> QED BY <1>1, <2>1, <3>2, <3>3, <3>4 DEF Placed
  <2> QED BY <2>1, <2>2, <2>3, <2>4
<1>5. ASSUME NEW p \in Pair, Get(p) PROVE Placed'
  <2>1. PICK item \in Task :
          /\ item = Head(queue[p]) /\ wants[item] = p
          /\ serving = {} /\ serving' = {item}
          /\ queue' = [queue EXCEPT ![p] = Tail(queue[p])] /\ wants' = wants
          /\ IsInjective(Tail(queue[p]))
          /\ ToSet(Tail(queue[p])) = At("queued", p) \ {item}
    BY <1>5, GetFacts
  <2>2. /\ \A q \in Pair : /\ At("queued", q)' = At("queued", q)
                           /\ IsInjective(putters'[q])
                           /\ ToSet(putters'[q]) = At("blocked", q)'
    <3>1. CASE putters[p] = <<>>
      <4>1. pc' = pc /\ putters' = putters
        BY <1>5, <3>1, GetFacts
      <4> QED BY <1>1, <2>1, <4>1 DEF Placed, At
    <3>2. CASE putters[p] # <<>>
      <4>1. PICK h \in Task :
              /\ h = Head(putters[p])
              /\ pc' = [pc EXCEPT ![h] = "woken"]
              /\ putters' = [putters EXCEPT ![p] = Tail(putters[p])]
        BY <1>5, <3>2, GetFacts, HeadSleeps
      <4>2. /\ At("blocked", p)' = At("blocked", p) \ {h}
            /\ \A q \in Pair : At("queued", q)' = At("queued", q)
            /\ \A q \in Pair \ {p} : At("blocked", q)' = At("blocked", q)
        BY <2>1, <3>2, <4>1, WakeFacts
      <4>3. /\ IsInjective(Tail(putters[p]))
            /\ ToSet(Tail(putters[p])) = At("blocked", p) \ {h}
        BY <3>2, <4>1, HeadSleeps
      <4>4. /\ putters'[p] = Tail(putters[p])
            /\ \A q \in Pair \ {p} : putters'[q] = putters[q]
        BY <1>1, <4>1
      <4> QED BY <1>1, <4>2, <4>3, <4>4 DEF Placed
    <3> QED BY <3>1, <3>2
  <2>3. queue'[p] = Tail(queue[p]) /\ \A q \in Pair \ {p} : queue'[q] = queue[q]
    BY <1>1, <2>1
  <2>4. \A q \in Pair \ {p} : item \notin At("queued", q)
    BY <2>1 DEF At, AtOf
  <2>5. \A q \in Pair \ {p} : ToSet(queue'[q]) = At("queued", q) \ {item}
    BY <1>1, <2>1, <2>3, <2>4 DEF Placed
  <2>6. \A q \in Pair : IsInjective(queue'[q])
    BY <1>1, <2>1, <2>3 DEF Placed
  <2> QED BY <2>1, <2>2, <2>3, <2>5, <2>6 DEF Placed
<1>6. ASSUME NEW t \in serving, Finish(t) PROVE Placed'
  <2>1. t \in Task /\ pc[t] = "queued" /\ serving = {t}
    BY <1>1, <1>6 DEF ServesOne, Finish, TypeOK
  <2>2. \A q \in Pair : /\ At("blocked", q)' = At("blocked", q) \ {t}
                        /\ At("queued", q)' = At("queued", q) \ {t}
    BY <1>6, <2>1, GivesUpFacts DEF Finish
  <2>3. \A q \in Pair : t \notin At("blocked", q)
    BY <2>1 DEF At, AtOf
  <2>4. serving' = {} /\ UNCHANGED <<queue, putters>>
    BY <1>6 DEF Finish
  <2>5. \A q \in Pair : At("blocked", q)' = At("blocked", q)
    BY <2>2, <2>3
  <2>6. \A q \in Pair : At("queued", q)' \ serving' = At("queued", q) \ serving
    BY <2>1, <2>2, <2>4
  <2> QED BY <1>1, <2>4, <2>5, <2>6 DEF Placed
<1>7. CASE UNCHANGED <<queue, putters, pc, wants, serving>>
  BY <1>1, <1>7 DEF Placed, At
<1> QED BY <1>1, <1>2, <1>3, <1>4, <1>5, <1>6, <1>7, HandlerSteps

LEMMA InitHandlers == Init => HandlerInv
<1> SUFFICES ASSUME Init PROVE HandlerInv
  OBVIOUS
<1>1. QueueInv
  BY InitInv
<1>2. ServesOne
  BY DEF Init, ServesOne
<1>3. Placed
  <2>1. IsInjective(<<>>) /\ ToSet(<<>>) = {}
    BY DEF IsInjective, ToSet
  <2> QED BY <2>1 DEF Init, Placed, At, AtOf
<1> QED BY <1>1, <1>2, <1>3 DEF HandlerInv

LEMMA HandlersPlaced == Spec => []HandlerInv
<1>1. QueueInv /\ [Next]_vars => QueueInv'
  BY TypeStep, StepDepthBounded, StepNoLostWakeup, StepNearCursor DEF QueueInv
<1>2. HandlerInv /\ [Next]_vars => HandlerInv'
  BY <1>1, ServesOneStep, PlacedStep DEF HandlerInv
<1> QED BY InitHandlers, <1>2, PTL DEF Spec

\* One free slot more is offered once more; one that is used or handed on is
\* still offered as often as it is free.
LEMMA SlotsOfferedStep ==
    HandlerInv /\ SlotsOffered /\ [Next]_vars => SlotsOffered'
<1> SUFFICES ASSUME HandlerInv, SlotsOffered, [Next]_vars PROVE SlotsOffered'
  OBVIOUS
<1>1. /\ TypeOK /\ Placed /\ PerPair \in Nat
      /\ queue \in [Pair -> Seq(Task)] /\ putters \in [Pair -> Seq(Task)]
      /\ \A q \in Pair : Len(queue[q]) \in Nat
  BY PerPairType, LenProperties DEF HandlerInv, QueueInv, TypeOK
<1>2. \A q \in Pair : /\ IsFiniteSet(At("woken", q))
                      /\ Cardinality(At("woken", q)) \in Nat
  BY FS_CardinalityType DEF SlotsOffered
<1> DEFINE Offered(q) ==
             /\ IsFiniteSet(At("woken", q))
             /\ putters[q] # <<>> =>
                   PerPair - Len(queue[q]) <= Cardinality(At("woken", q))
<1>3. \A q \in Pair : Offered(q)
  BY DEF SlotsOffered
<1>4. SUFFICES \A q \in Pair : Offered(q)'
  BY DEF SlotsOffered
<1>5. ASSUME NEW q \in Pair, At("woken", q)' = At("woken", q),
             queue'[q] = queue[q], putters'[q] = putters[q]
      PROVE  Offered(q)'
  BY <1>3, <1>5
<1>6. ASSUME NEW q \in Pair, NEW S, At("woken", q)' = S, IsFiniteSet(S),
              NEW n \in Int, putters'[q] # <<>> => n <= Cardinality(S),
              PerPair - Len(queue'[q]) = n
       PROVE  Offered(q)'
  BY <1>6
<1>7. ASSUME NEW t \in Task, NEW p \in Pair, Joins(t, p), NEW q \in Pair
      PROVE  Offered(q)'
  <2>1. /\ At("woken", p)' = At("woken", p) \ {t}
        /\ q # p => At("woken", q)' = At("woken", q)
        /\ queue' = [queue EXCEPT ![p] = Append(queue[p], t)]
        /\ putters' = putters
    BY <1>7, JoinsFacts
  <2>2. CASE q = p
    <3>1. Len(queue'[p]) = Len(queue[p]) + 1
      BY <1>1, <2>1, AppendProperties
    <3>2. /\ IsFiniteSet(At("woken", p) \ {t})
          /\ Cardinality(At("woken", p) \ {t}) >= Cardinality(At("woken", p)) - 1
      BY <1>2, FS_RemoveElement
    <3>3. Cardinality(At("woken", p) \ {t}) \in Nat
      BY <3>2, FS_CardinalityType
    <3>4. putters[p] # <<>> => PerPair - Len(queue[p]) <= Cardinality(At("woken", p))
      BY <1>3
    <3>5. putters'[p] # <<>> =>
            PerPair - Len(queue'[p]) <= Cardinality(At("woken", p) \ {t})
      BY <1>1, <1>2, <2>1, <3>1, <3>2, <3>3, <3>4
    <3>6. PerPair - Len(queue'[p]) \in Int
      BY <1>1, <3>1
    <3> QED BY <1>6, <2>1, <2>2, <3>2, <3>5, <3>6
  <2>3. CASE q # p
    BY <1>1, <1>5, <2>1, <2>3
  <2> QED BY <2>2, <2>3
<1>8. ASSUME NEW t \in Task, NEW p \in Pair, Sleeps(t, p), NEW q \in Pair
      PROVE  Offered(q)'
  <2>1. /\ At("woken", p)' = At("woken", p) \ {t}
        /\ q # p => At("woken", q)' = At("woken", q)
        /\ putters' = [putters EXCEPT ![p] = Append(putters[p], t)]
        /\ queue' = queue
    BY <1>8, SleepsFacts
  <2>2. CASE q = p
    <3>1. Len(queue[p]) >= PerPair
      BY <1>8 DEF Sleeps, Full
    <3>2. IsFiniteSet(At("woken", p) \ {t}) /\ Cardinality(At("woken", p) \ {t}) \in Nat
      BY <1>2, FS_RemoveElement, FS_CardinalityType
    <3>3. PerPair - Len(queue[p]) \in Int /\ PerPair - Len(queue[p]) <= 0
      BY <1>1, <3>1
    <3>4. PerPair - Len(queue'[p]) <= Cardinality(At("woken", p) \ {t})
      BY <2>1, <3>2, <3>3
    <3> QED BY <1>6, <2>1, <2>2, <3>2, <3>3, <3>4
  <2>3. CASE q # p
    BY <1>1, <1>5, <2>1, <2>3
  <2> QED BY <2>2, <2>3
<1>9. ASSUME NEW t \in Task, Timeout(t), NEW q \in Pair
      PROVE  Offered(q)'
  <2>1. /\ GivesUpSleeping(t) \/ GivesUpWoken(t) \/ HandsOn(t)
        /\ wants[t] \in Pair /\ queue' = queue /\ wants' = wants
    BY <1>9, TimeoutFacts
  <2>2. CASE GivesUpSleeping(t)
    <3>1. At("woken", q)' = At("woken", q) \ {t} /\ t \notin At("woken", q)
      BY <2>1, <2>2, GivesUpFacts DEF GivesUpSleeping, At, AtOf
    <3>2. At("woken", q)' = At("woken", q)
      BY <3>1
    <3>3. putters[q] = <<>> => putters'[q] = <<>>
      <4>1. PICK i \in 1 .. Len(putters[wants[t]]) :
              putters' = [putters EXCEPT ![wants[t]] = RemoveAt(@, i)]
        BY <2>2 DEF GivesUpSleeping
      <4>2. putters[wants[t]] # <<>>
        BY <4>1
      <4> QED BY <1>1, <2>1, <4>1, <4>2
    <3> QED BY <1>3, <2>1, <3>2, <3>3
  <2>3. CASE GivesUpWoken(t)
    <3>1. At("woken", q)' = At("woken", q) \ {t}
      BY <2>1, <2>3, GivesUpFacts DEF GivesUpWoken
    <3>2. IsFiniteSet(At("woken", q) \ {t}) /\ Cardinality(At("woken", q) \ {t}) \in Nat
      BY <1>2, FS_RemoveElement, FS_CardinalityType
    <3>3. CASE q = wants[t]
      <4>1. Len(queue[q]) >= PerPair \/ putters'[q] = <<>>
        BY <2>3, <3>3 DEF GivesUpWoken, Full
      <4>2. PerPair - Len(queue'[q]) \in Int
        BY <1>1, <2>1
      <4>3. putters'[q] # <<>> =>
              PerPair - Len(queue'[q]) <= Cardinality(At("woken", q) \ {t})
        BY <1>1, <2>1, <3>2, <4>1
      <4> QED BY <1>6, <3>1, <3>2, <4>2, <4>3
    <3>4. CASE q # wants[t]
      <4>1. t \notin At("woken", q)
        BY <3>4 DEF At, AtOf
      <4>2. At("woken", q)' = At("woken", q)
        BY <3>1, <4>1
      <4> QED BY <1>5, <2>1, <2>3, <4>2 DEF GivesUpWoken
    <3> QED BY <3>3, <3>4
  <2>4. CASE HandsOn(t)
    <3>1. PICK p \in Pair, h \in Task :
            /\ putters[p] # <<>> /\ p = wants[t] /\ h = Head(putters[p])
            /\ putters' = [putters EXCEPT ![p] = Tail(putters[p])]
      BY <2>1, <2>4, HeadSleeps DEF HandsOn
    <3>2. /\ t \in At("woken", p) /\ h \notin At("woken", p)
          /\ At("woken", p)' = (At("woken", p) \ {t}) \cup {h}
          /\ q # p => At("woken", q)' = At("woken", q)
      BY <2>1, <2>4, <3>1, HandsOnFacts
    <3>3. CASE q = p
      <4>1. /\ IsFiniteSet(At("woken", p) \ {t})
            /\ Cardinality(At("woken", p) \ {t}) = Cardinality(At("woken", p)) - 1
        BY <1>2, <3>2, FS_RemoveElement
      <4>2. h \notin At("woken", p) \ {t}
        BY <3>2
      <4>3. /\ IsFiniteSet((At("woken", p) \ {t}) \cup {h})
            /\ Cardinality((At("woken", p) \ {t}) \cup {h}) =
                 Cardinality(At("woken", p) \ {t}) + 1
        BY <4>1, <4>2, FS_AddElement
      <4>4. Cardinality(At("woken", p)') = Cardinality(At("woken", p))
        BY <1>2, <3>2, <4>1, <4>3
      <4> QED BY <1>3, <2>1, <3>1, <3>2, <3>3, <4>3, <4>4
    <3>4. CASE q # p
      BY <1>1, <1>5, <2>1, <3>1, <3>2, <3>4
    <3> QED BY <3>3, <3>4
  <2> QED BY <2>1, <2>2, <2>3, <2>4
<1>10. ASSUME NEW p \in Pair, Get(p), NEW q \in Pair
      PROVE  Offered(q)'
  <2>1. queue' = [queue EXCEPT ![p] = Tail(queue[p])] /\ wants' = wants
    BY <1>10, GetFacts
  <2>2. Len(queue'[p]) = Len(queue[p]) - 1
    BY <1>1, <1>10, GetQueue
  <2>3. CASE putters[p] = <<>>
    <3>1. pc' = pc /\ putters' = putters
      BY <1>10, <2>3, GetFacts
    <3>2. At("woken", q)' = At("woken", q)
      BY <2>1, <3>1 DEF At
    <3> QED BY <1>1, <1>3, <2>1, <2>3, <3>1, <3>2
  <2>4. CASE putters[p] # <<>>
    <3>1. PICK h \in Task :
            /\ h = Head(putters[p])
            /\ pc' = [pc EXCEPT ![h] = "woken"]
            /\ putters' = [putters EXCEPT ![p] = Tail(putters[p])]
      BY <1>10, <2>4, GetFacts, HeadSleeps
    <3>2. /\ At("woken", p)' = At("woken", p) \cup {h} /\ h \notin At("woken", p)
          /\ q # p => At("woken", q)' = At("woken", q)
      BY <2>1, <2>4, <3>1, WakeFacts
    <3>3. CASE q = p
      <4>1. /\ IsFiniteSet(At("woken", p) \cup {h})
            /\ Cardinality(At("woken", p) \cup {h}) = Cardinality(At("woken", p)) + 1
        BY <1>2, <3>2, FS_AddElement
      <4>2. PerPair - Len(queue[p]) <= Cardinality(At("woken", p))
        BY <1>3, <2>4
      <4>3. /\ PerPair - Len(queue'[p]) \in Int
            /\ PerPair - Len(queue'[p]) <= Cardinality(At("woken", p) \cup {h})
        BY <1>1, <1>2, <2>2, <4>1, <4>2
      <4> QED BY <1>6, <3>2, <3>3, <4>1, <4>3
    <3>4. CASE q # p
      BY <1>1, <1>5, <2>1, <3>1, <3>2, <3>4
    <3> QED BY <3>3, <3>4
  <2> QED BY <2>3, <2>4
<1>11. ASSUME NEW t \in serving, Finish(t), NEW q \in Pair
       PROVE  Offered(q)'
  <2>1. t \in Task /\ pc[t] = "queued"
    BY <1>1, <1>11 DEF HandlerInv, ServesOne, TypeOK
  <2>2. At("woken", q)' = At("woken", q) \ {t} /\ t \notin At("woken", q)
    BY <1>11, <2>1, GivesUpFacts DEF Finish, At, AtOf
  <2>3. At("woken", q)' = At("woken", q)
    BY <2>2
  <2> QED BY <1>5, <1>11, <2>3 DEF Finish
<1>12. CASE UNCHANGED <<queue, putters, pc, wants>>
  <2>1. \A q \in Pair : At("woken", q)' = At("woken", q)
    BY <1>12 DEF At
  <2> QED BY <1>3, <1>12, <2>1
<1> HIDE DEF Offered
<1> QED BY <1>1, <1>7, <1>8, <1>9, <1>10, <1>11, <1>12, HandlerSteps

\* An item is counted from its put to its task_done, wherever it is between.
LEMMA JoinCountsStep ==
    HandlerInv /\ JoinCountsAll /\ [Next]_vars => JoinCountsAll'
<1> SUFFICES ASSUME HandlerInv, JoinCountsAll, [Next]_vars PROVE JoinCountsAll'
  OBVIOUS
<1>1. /\ TypeOK /\ ServesOne
      /\ queue \in [Pair -> Seq(Task)] /\ unfinished \in [Pair -> Int]
      /\ wants \in [Task -> Pair] /\ serving \subseteq Task
      /\ \A q \in Pair : Len(queue[q]) \in Nat
  BY LenProperties DEF HandlerInv, QueueInv, TypeOK
<1> DEFINE Busy(q) == \E t \in serving : wants[t] = q
           Counted(q) == unfinished[q] = Len(queue[q]) + IF Busy(q) THEN 1 ELSE 0
<1>2. \A q \in Pair : Counted(q)
  BY DEF JoinCountsAll
<1>3. SUFFICES ASSUME NEW q \in Pair PROVE Counted(q)'
  BY DEF JoinCountsAll
<1>4. ASSUME Busy(q)' <=> Busy(q), queue'[q] = queue[q], unfinished'[q] = unfinished[q]
      PROVE  Counted(q)'
  <2> HIDE DEF Busy
  <2> QED BY <1>2, <1>4
<1>5. ASSUME NEW t \in Task, NEW p \in Pair, Joins(t, p) PROVE Counted(q)'
  <2>1. /\ t \notin serving /\ serving' = serving
        /\ queue' = [queue EXCEPT ![p] = Append(queue[p], t)]
        /\ unfinished' = [unfinished EXCEPT ![p] = @ + 1]
    BY <1>5, JoinsFacts
  <2>2. Busy(q)' <=> Busy(q)
    BY <1>1, <1>5, <2>1 DEF Joins
  <2>3. CASE q = p
    <3>1. Len(queue'[p]) = Len(queue[p]) + 1
      BY <1>1, <2>1, AppendProperties
    <3>2. unfinished'[p] = unfinished[p] + 1
      BY <1>1, <2>1
    <3> HIDE DEF Busy
    <3> QED BY <1>1, <1>2, <2>2, <2>3, <3>1, <3>2
  <2>4. CASE q # p
    BY <1>1, <1>4, <2>1, <2>2, <2>4
  <2> QED BY <2>3, <2>4
<1>6. ASSUME NEW t \in Task, NEW p \in Pair, Sleeps(t, p) PROVE Counted(q)'
  <2>1. /\ t \notin serving /\ serving' = serving
        /\ queue' = queue /\ unfinished' = unfinished
    BY <1>6, SleepsFacts
  <2>2. Busy(q)' <=> Busy(q)
    BY <1>1, <1>6, <2>1 DEF Sleeps
  <2> QED BY <1>4, <2>1, <2>2
<1>7. ASSUME NEW t \in Task, Timeout(t) PROVE Counted(q)'
  BY <1>4, <1>7, TimeoutFacts
<1>8. ASSUME NEW p \in Pair, Get(p) PROVE Counted(q)'
  <2>1. PICK item \in Task :
          /\ wants[item] = p /\ serving = {} /\ serving' = {item}
          /\ queue' = [queue EXCEPT ![p] = Tail(queue[p])]
          /\ wants' = wants /\ unfinished' = unfinished
    BY <1>8, GetFacts
  <2>2. ~Busy(q) /\ (Busy(q)' <=> q = p)
    BY <2>1
  <2>3. CASE q = p
    <3>1. Len(queue'[p]) = Len(queue[p]) - 1
      BY <1>1, <1>8, GetQueue
    <3>2. unfinished[p] = Len(queue[p]) + 0
      BY <1>2, <2>2, <2>3
    <3> HIDE DEF Busy
    <3> QED BY <1>1, <2>1, <2>2, <2>3, <3>1, <3>2
  <2>4. CASE q # p
    BY <1>1, <1>4, <2>1, <2>2, <2>4
  <2> QED BY <2>3, <2>4
<1>9. ASSUME NEW t \in serving, Finish(t) PROVE Counted(q)'
  <2>1. serving = {t} /\ wants[t] \in Pair
    BY <1>1, <1>9 DEF ServesOne, Finish
  <2>2. /\ unfinished' = [unfinished EXCEPT ![wants[t]] = @ - 1]
        /\ serving' = {} /\ queue' = queue
    BY <1>9 DEF Finish, TaskDone
  <2>3. ~Busy(q)' /\ (Busy(q) <=> q = wants[t])
    BY <2>1, <2>2
  <2>4. CASE q = wants[t]
    <3>1. unfinished[q] = Len(queue[q]) + 1
      BY <1>2, <2>3, <2>4
    <3>2. unfinished'[q] = unfinished[q] - 1
      BY <1>1, <2>1, <2>2, <2>4
    <3> HIDE DEF Busy
    <3> QED BY <1>1, <2>2, <2>3, <3>1, <3>2
  <2>5. CASE q # wants[t]
    BY <1>1, <1>4, <2>1, <2>2, <2>3, <2>5
  <2> QED BY <2>4, <2>5
<1>10. CASE UNCHANGED <<queue, wants, serving, unfinished>>
  BY <1>4, <1>10
<1> HIDE DEF Counted
<1> QED BY <1>1, <1>5, <1>6, <1>7, <1>8, <1>9, <1>10, HandlerSteps

\* While handlers sleep on a pair with room, one of its handlers has been woken
\* and not yet looked: no timeout between a wake-up and its turn, and no
\* overtaking, leaves them asleep beside a free slot.
THEOREM SlotsAreOffered == Spec => []NoLostSlot
<1>1. Init => SlotsOffered
  BY FS_EmptySet DEF Init, SlotsOffered, At, AtOf
<1>2. ASSUME HandlerInv, SlotsOffered, NEW p \in Pair,
             putters[p] # <<>>, ~Full(p)
      PROVE  \E t \in Task : pc[t] = "woken" /\ wants[t] = p
  <2>1. Len(queue[p]) \in Nat /\ PerPair \in Nat
    BY <1>2, LenProperties, PerPairType DEF HandlerInv, QueueInv, TypeOK
  <2>2. PerPair - Len(queue[p]) > 0
    BY <1>2, <2>1 DEF Full
  <2>3. /\ PerPair - Len(queue[p]) <= Cardinality(At("woken", p))
        /\ IsFiniteSet(At("woken", p))
    BY <1>2 DEF SlotsOffered
  <2>4. Cardinality(At("woken", p)) # 0
    BY <2>1, <2>2, <2>3
  <2>5. At("woken", p) # {}
    BY <2>4, FS_EmptySet
  <2> QED BY <2>5 DEF At, AtOf
<1>3. HandlerInv /\ SlotsOffered => NoLostSlot
  BY <1>2 DEF NoLostSlot
<1> QED BY <1>1, <1>3, HandlersPlaced, SlotsOfferedStep, PTL DEF Spec

\* join() returns exactly when every item put has been finished: each pair's
\* count is its queue and the item being served.
THEOREM JoinCounts == Spec => []JoinCountsAll
<1>1. Init => JoinCountsAll
  BY EmptySeq DEF Init, JoinCountsAll
<1> QED BY <1>1, HandlersPlaced, JoinCountsStep, PTL DEF Spec

\* The queue implements a bounded FIFO of PerPair slots for every pair: every
\* step puts one item at the end of a pair with room, takes the first of one, or
\* moves none (the safety part of IsFairFifo).
THEOREM ImplementsFifo == Spec => Fifo!Spec
<1>1. Init => Fifo!Init
  BY DEF Init, Fifo!Init
<1>2. ASSUME QueueInv, [Next]_vars PROVE [Fifo!Next]_queue
  <2>1. TypeOK
    BY <1>2 DEF QueueInv
  <2>2. ASSUME NEW t \in Task, NEW p \in Pair, ~Full(p), Enqueue(t, p)
        PROVE  Fifo!Enqueue(p)
    <3>1. Len(queue[p]) \in Nat
      BY <2>1, LenProperties DEF TypeOK
    <3>2. queue' = [queue EXCEPT ![p] = Append(queue[p], t)]
      BY <2>2 DEF Enqueue
    <3>3. Len(queue[p]) < PerPair
      BY <2>2, <3>1, PerPairType DEF Full
    <3> QED BY <3>2, <3>3 DEF Fifo!Enqueue
  <2>3. ASSUME NEW p \in Pair, Get(p) PROVE Fifo!Dequeue(p)
    BY <2>3 DEF Get, Fifo!Dequeue
  <2> QED BY <1>2, <2>1, <2>2, <2>3, ItemSteps DEF Fifo!Next
<1> QED BY <1>1, <1>2, Inductive, PTL DEF Spec, Fifo!Spec
=============================================================================
