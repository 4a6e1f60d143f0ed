---------------------------- MODULE IngestProofs ----------------------------
(***************************************************************************)
(* Theorems about Ingest, for every number of events, every set of         *)
(* handlers, every queue size and any number of timeouts, failing calls,   *)
(* crashes and disconnects.  IngestInv is inductive.                       *)
(***************************************************************************)
EXTENDS Ingest, SequenceTheorems, TLAPS

USE EventsAssumption, QueueAssumption, BoundsAssumption

-----------------------------------------------------------------------------
LEMMA LargestTickType ==
    ASSUME ticks \in Seq(Nat)
    PROVE  LargestTick \in Nat
<1>1. Ticked \subseteq Nat
  BY LenProperties DEF Ticked
<1> QED BY <1>1 DEF LargestTick, None

\* max(observation_sequence) is at or above every row.
LEMMA LargestTickIsLargest ==
    ASSUME ticks \in Seq(Nat), StrictlyIncreasing
    PROVE  \A e \in Ticked : e <= LargestTick
<1>1. CASE Ticked = {}
  BY <1>1
<1>2. CASE Ticked # {}
  <2> DEFINE top == {e \in Ticked : \A f \in Ticked : f <= e}
  <2>1. Len(ticks) \in Nat /\ DOMAIN ticks = 1 .. Len(ticks)
    BY LenProperties
  <2>2. Len(ticks) \in DOMAIN ticks
    BY <1>2, <2>1 DEF Ticked
  <2>3. \A i \in DOMAIN ticks : ticks[i] \in Nat
    BY LenProperties
  <2>4. \A i \in DOMAIN ticks : ticks[i] <= ticks[Len(ticks)]
    BY <2>1, <2>2, <2>3 DEF StrictlyIncreasing
  <2>5. ticks[Len(ticks)] \in top
    BY <2>2, <2>4 DEF Ticked
  <2>6. LargestTick = CHOOSE e \in top : TRUE
    BY <2>5 DEF LargestTick
  <2>7. LargestTick \in top
    BY <2>5, <2>6
  <2> QED BY <2>7
<1> QED BY <1>1, <1>2

\* One more row.
LEMMA AppendTick ==
    ASSUME ticks \in Seq(Nat), NEW e \in Nat, ticks' = Append(ticks, e)
    PROVE  /\ ticks' \in Seq(Nat)
           /\ Ticked' = Ticked \cup {e}
<1>1. /\ Len(ticks) \in Nat
      /\ DOMAIN ticks = 1 .. Len(ticks)
      /\ DOMAIN ticks' = 1 .. Len(ticks) + 1
      /\ \A i \in 1 .. Len(ticks) : ticks'[i] = ticks[i]
      /\ ticks'[Len(ticks) + 1] = e
      /\ ticks' \in Seq(Nat)
  BY AppendProperties, LenProperties
<1>2. Ticked' \subseteq Ticked \cup {e}
  BY <1>1 DEF Ticked
<1>3. Ticked \subseteq Ticked'
  BY <1>1 DEF Ticked
<1>4. e \in Ticked'
  BY <1>1 DEF Ticked
<1> QED BY <1>1, <1>2, <1>3, <1>4

LEMMA AppendKeepsIncreasing ==
    ASSUME ticks \in Seq(Nat), NEW e \in Nat, ticks' = Append(ticks, e),
           StrictlyIncreasing, \A f \in Ticked : f < e
    PROVE  StrictlyIncreasing'
<1>1. /\ Len(ticks) \in Nat
      /\ DOMAIN ticks = 1 .. Len(ticks)
      /\ DOMAIN ticks' = 1 .. Len(ticks) + 1
      /\ \A i \in 1 .. Len(ticks) : ticks'[i] = ticks[i]
      /\ ticks'[Len(ticks) + 1] = e
  BY AppendProperties, LenProperties
<1>2. \A i \in 1 .. Len(ticks) : ticks[i] < e
  BY <1>1 DEF Ticked
<1>3. SUFFICES ASSUME NEW i \in DOMAIN ticks', NEW j \in DOMAIN ticks', i < j
               PROVE  ticks'[i] < ticks'[j]
  BY DEF StrictlyIncreasing
<1>4. CASE j = Len(ticks) + 1
  BY <1>1, <1>2, <1>3, <1>4
<1>5. CASE j # Len(ticks) + 1
  BY <1>1, <1>3, <1>5 DEF StrictlyIncreasing
<1> QED BY <1>4, <1>5

\* queue.get returns the head and keeps the others in order.
LEMMA TakeQueue ==
    ASSUME queue \in Seq(Slot), queue # <<>>
    PROVE  /\ Head(queue) \in Slot
           /\ Head(queue) = queue[1]
           /\ 1 \in DOMAIN queue
           /\ Tail(queue) \in Seq(Slot)
           /\ \A i \in DOMAIN Tail(queue) :
                 i + 1 \in DOMAIN queue /\ Tail(queue)[i] = queue[i + 1]
           /\ DOMAIN Tail(queue) \subseteq Nat \ {0}
<1>1. /\ Head(queue) \in Slot
      /\ Tail(queue) \in Seq(Slot)
      /\ Len(Tail(queue)) = Len(queue) - 1
      /\ \A i \in 1 .. Len(Tail(queue)) : Tail(queue)[i] = queue[i + 1]
  BY HeadTailProperties
<1>2. /\ Len(queue) \in Nat
      /\ DOMAIN queue = 1 .. Len(queue)
      /\ DOMAIN Tail(queue) = 1 .. Len(Tail(queue))
  BY <1>1, LenProperties
<1>3. Len(queue) # 0
  BY EmptySeq
<1>4. Head(queue) = queue[1]
  BY <1>3 DEF Head
<1> QED BY <1>1, <1>2, <1>3, <1>4

\* queue.put puts at the end.
LEMMA PutQueue ==
    ASSUME queue \in Seq(Slot), NEW s \in Slot, queue' = Append(queue, s)
    PROVE  /\ queue' \in Seq(Slot)
           /\ DOMAIN queue' = DOMAIN queue \cup {Len(queue) + 1}
           /\ Len(queue) + 1 \notin DOMAIN queue
           /\ \A i \in DOMAIN queue : queue'[i] = queue[i]
           /\ queue'[Len(queue) + 1] = s
BY AppendProperties, LenProperties

-----------------------------------------------------------------------------
Trouble == [timeouts : Nat, failures : Nat, crashes : Nat, disconnects : Nat]

LEMMA InitType == Init => TypeOK
<1> SUFFICES ASSUME Init
             PROVE  TypeOK
  OBVIOUS
<1>1. queue \in Seq(Slot) /\ ticks \in Seq(Nat)
  BY EmptySeq DEF Init
<1>2. trouble \in Trouble
  BY DEF Init, Trouble
<1>3. /\ pc \in [Slot -> HandlerState]
      /\ event \in [Slot -> Nat]
      /\ persisted \in [Slot -> Nat]
  BY DEF Init, None, HandlerState
<1>4. /\ next \in Nat \ {0}
      /\ awaiting \in SUBSET Slot
      /\ stage \in Stages \cup {"idle"}
      /\ job \in SUBSET Slot
      /\ lastSequence \in Nat
      /\ raw \in SUBSET Nat
      /\ latest \in Nat
  BY DEF Init, None
<1>5. makesTick \in BOOLEAN
  BY DEF Init
<1> QED BY <1>1, <1>2, <1>3, <1>4, <1>5 DEF TypeOK, Trouble

LEMMA TroubleType ==
    ASSUME trouble \in Trouble,
           \/ trouble' = [trouble EXCEPT !.timeouts = @ + 1]
           \/ trouble' = [trouble EXCEPT !.failures = @ + 1]
           \/ trouble' = [trouble EXCEPT !.crashes = @ + 1]
           \/ trouble' = [trouble EXCEPT !.disconnects = @ + 1]
    PROVE  trouble' \in Trouble
BY DEF Trouble

LEMMA TypeStep == TypeOK /\ [Next]_vars => TypeOK'
<1> SUFFICES ASSUME TypeOK, [Next]_vars
             PROVE  TypeOK'
  OBVIOUS
<1> USE DEF TypeOK, HandlerState, Reading, Answered, Stages, None,
            browser, worker, stores
<1>1. ASSUME NEW s \in Slot, Send(s)
      PROVE  TypeOK'
  BY <1>1 DEF Send, Event
<1>2. ASSUME NEW s \in Slot, Receive(s)
      PROVE  TypeOK'
  BY <1>2 DEF Receive
<1>3. CASE GiveUp
  <2>1. trouble' \in Trouble
    BY <1>3, TroubleType DEF GiveUp, Trouble
  <2> QED BY <1>3, <2>1 DEF GiveUp, Trouble
<1>4. ASSUME NEW s \in Slot, CheckRaw(s)
      PROVE  TypeOK'
  BY <1>4 DEF CheckRaw
<1>5. ASSUME NEW s \in Slot, ReadLastSequence(s)
      PROVE  TypeOK'
  <2>1. LargestTick \in Nat
    BY LargestTickType
  <2> QED BY <1>5, <2>1 DEF ReadLastSequence
<1>6. ASSUME NEW s \in Slot, Put(s)
      PROVE  TypeOK'
  <2>1. CASE Len(queue) < QueueSize
    <3>1. queue' \in Seq(Slot)
      BY <1>6, <2>1, PutQueue DEF Put
    <3> QED BY <1>6, <2>1, <3>1 DEF Put
  <2>2. CASE ~(Len(queue) < QueueSize)
    BY <1>6, <2>2 DEF Put
  <2> QED BY <2>1, <2>2
<1>7. ASSUME NEW s \in Slot, Discard(s)
      PROVE  TypeOK'
  BY <1>7 DEF Discard
<1>8. ASSUME NEW s \in Slot, ReadFails(s)
      PROVE  TypeOK'
  <2>1. trouble' \in Trouble
    BY <1>8, TroubleType DEF ReadFails, Trouble
  <2> QED BY <1>8, <2>1 DEF ReadFails, Trouble
<1>9. ASSUME NEW s \in Slot, Take(s)
      PROVE  TypeOK'
  <2>1. queue' \in Seq(Slot)
    <3>1. queue # <<>> /\ queue' = Tail(queue)
      BY <1>9 DEF Take
    <3>2. queue \in Seq(Slot)
      OBVIOUS
    <3> QED BY <3>1, <3>2, TakeQueue
  <2>2. Accepts(s) \in BOOLEAN
    <3>1. CASE lastSequence = None
      BY <3>1 DEF Accepts, AbovePersisted
    <3>2. CASE lastSequence # None
      BY <3>2 DEF Accepts, AbovePersisted
    <3> QED BY <3>1, <3>2
  <2> QED BY <1>9, <2>1, <2>2 DEF Take
<1>10. ASSUME NEW s \in Slot, StoreRaw(s)
       PROVE  TypeOK'
  BY <1>10 DEF StoreRaw
<1>11. CASE PublishRaw
  BY <1>11 DEF PublishRaw
<1>12. ASSUME NEW s \in Slot, StoreQuality(s)
       PROVE  TypeOK'
  BY <1>12 DEF StoreQuality, Finish
<1>13. ASSUME NEW s \in Slot, StoreTick(s)
       PROVE  TypeOK'
  <2>1. ticks' \in Seq(Nat)
    BY <1>13, AppendTick DEF StoreTick
  <2> QED BY <1>13, <2>1 DEF StoreTick
<1>14. CASE PublishTick
  BY <1>14 DEF PublishTick
<1>15. ASSUME NEW s \in Slot, SetLatest(s)
       PROVE  TypeOK'
  BY <1>15 DEF SetLatest, Finish
<1>16. ASSUME NEW s \in Slot, StageFails(s)
       PROVE  TypeOK'
  <2>1. trouble' \in Trouble
    BY <1>16, TroubleType DEF StageFails, Trouble
  <2> QED BY <1>16, <2>1 DEF StageFails, Finish, Trouble
<1>17. CASE Disconnect
  <2>1. trouble' \in Trouble
    BY <1>17, TroubleType DEF Disconnect, Trouble
  <2> QED BY <1>17, <2>1 DEF Disconnect, Trouble
<1>18. CASE Crash
  <2>1. trouble' \in Trouble
    BY <1>18, TroubleType DEF Crash, Trouble
  <2>2. queue' \in Seq(Slot)
    BY <1>18, EmptySeq DEF Crash
  <2> QED BY <1>18, <2>1, <2>2 DEF Crash, Trouble
<1>19. CASE UNCHANGED vars
  BY <1>19 DEF vars
<1> QED
  BY <1>1, <1>2, <1>3, <1>4, <1>5, <1>6, <1>7, <1>8, <1>9, <1>10, <1>11,
     <1>12, <1>13, <1>14, <1>15, <1>16, <1>17, <1>18, <1>19
  DEF Next, HandlerStep, WorkerStep

\* Every variable keeps its type: in particular a sequence "no rows yet" is
\* None and never compares as a sequence below the first.
THEOREM TypeCorrect == Spec => []TypeOK
<1>1. Init => TypeOK
  BY InitType
<1>2. TypeOK /\ [Next]_vars => TypeOK'
  BY TypeStep
<1> QED BY <1>1, <1>2, PTL DEF Spec

-----------------------------------------------------------------------------
(* One lemma per part of IngestInv. *)

LEMMA StepPlaced == IngestInv /\ [Next]_vars => Placed'
<1> SUFFICES ASSUME IngestInv, [Next]_vars
             PROVE  Placed'
  OBVIOUS
<1> USE DEF IngestInv, Placed, browser, worker, stores
<1>0. /\ pc \in [Slot -> HandlerState]
      /\ queue \in Seq(Slot)
      /\ \A i \in DOMAIN queue : queue[i] \in Slot
      /\ job \in SUBSET Slot
  BY LenProperties DEF TypeOK
<1>1. ASSUME NEW s \in Slot, Send(s)
      PROVE  Placed'
  BY <1>0, <1>1 DEF Send
<1>2. ASSUME NEW s \in Slot, Receive(s)
      PROVE  Placed'
  BY <1>0, <1>2 DEF Receive, Answered
<1>3. CASE GiveUp
  BY <1>3 DEF GiveUp
<1>4. ASSUME NEW s \in Slot, CheckRaw(s)
      PROVE  Placed'
  BY <1>0, <1>4 DEF CheckRaw
<1>5. ASSUME NEW s \in Slot, ReadLastSequence(s)
      PROVE  Placed'
  BY <1>0, <1>5 DEF ReadLastSequence
<1>6. ASSUME NEW s \in Slot, Put(s)
      PROVE  Placed'
  <2>1. CASE Len(queue) < QueueSize
    <3>1. /\ DOMAIN queue' = DOMAIN queue \cup {Len(queue) + 1}
          /\ Len(queue) + 1 \notin DOMAIN queue
          /\ \A i \in DOMAIN queue : queue'[i] = queue[i]
          /\ queue'[Len(queue) + 1] = s
      BY <1>0, <1>6, <2>1, PutQueue DEF Put
    <3>2. /\ pc[s] = "put"
          /\ pc' = [pc EXCEPT ![s] = "queued"]
          /\ UNCHANGED <<job, stage, makesTick>>
      BY <1>6, <2>1 DEF Put
    <3> QED BY <1>0, <3>1, <3>2
  <2>2. CASE ~(Len(queue) < QueueSize)
    BY <1>0, <1>6, <2>2 DEF Put
  <2> QED BY <2>1, <2>2
<1>7. ASSUME NEW s \in Slot, Discard(s)
      PROVE  Placed'
  BY <1>0, <1>7 DEF Discard, Answered
<1>8. ASSUME NEW s \in Slot, ReadFails(s)
      PROVE  Placed'
  BY <1>0, <1>8 DEF ReadFails, Reading
<1>9. ASSUME NEW s \in Slot, Take(s)
      PROVE  Placed'
  <2>1. /\ queue # <<>>
        /\ queue' = Tail(queue)
        /\ s = Head(queue)
        /\ job' = {s}
        /\ stage' = "storeRaw"
        /\ UNCHANGED pc
    BY <1>9 DEF Take
  <2>2. /\ Head(queue) = queue[1]
        /\ 1 \in DOMAIN queue
        /\ \A i \in DOMAIN Tail(queue) :
              i + 1 \in DOMAIN queue /\ Tail(queue)[i] = queue[i + 1]
        /\ DOMAIN Tail(queue) \subseteq Nat \ {0}
    BY <1>0, <2>1, TakeQueue
  <2>3. \A i \in DOMAIN queue' : queue'[i] # s
    BY <2>1, <2>2
  <2> QED BY <2>1, <2>2, <2>3
<1>10. ASSUME NEW s \in Slot, StoreRaw(s)
       PROVE  Placed'
  BY <1>10 DEF StoreRaw
<1>11. CASE PublishRaw
  BY <1>11 DEF PublishRaw
<1>12. ASSUME NEW s \in Slot, StoreQuality(s)
       PROVE  Placed'
  BY <1>0, <1>12 DEF StoreQuality, Finish
<1>13. ASSUME NEW s \in Slot, StoreTick(s)
       PROVE  Placed'
  BY <1>13 DEF StoreTick
<1>14. CASE PublishTick
  BY <1>14 DEF PublishTick
<1>15. ASSUME NEW s \in Slot, SetLatest(s)
       PROVE  Placed'
  BY <1>0, <1>15 DEF SetLatest, Finish
<1>16. ASSUME NEW s \in Slot, StageFails(s)
       PROVE  Placed'
  BY <1>0, <1>16 DEF StageFails, Finish
<1>17. CASE Disconnect
  BY <1>17 DEF Disconnect
<1>18. CASE Crash
  BY <1>18, EmptySeq DEF Crash
<1>19. CASE UNCHANGED vars
  BY <1>19 DEF vars
<1> QED
  BY <1>1, <1>2, <1>3, <1>4, <1>5, <1>6, <1>7, <1>8, <1>9, <1>10, <1>11,
     <1>12, <1>13, <1>14, <1>15, <1>16, <1>17, <1>18, <1>19
  DEF Next, HandlerStep, WorkerStep

LEMMA StepDurable == IngestInv /\ [Next]_vars => Durable'
<1> SUFFICES ASSUME IngestInv, [Next]_vars
             PROVE  Durable'
  OBVIOUS
<1> USE DEF IngestInv, Durable, browser, worker, stores
<1>0. /\ pc \in [Slot -> HandlerState]
      /\ event \in [Slot -> Nat]
      /\ job \in SUBSET Slot
      /\ awaiting \in SUBSET Slot
  BY DEF TypeOK
<1>a. \A s \in job : pc[s] = "queued" /\ \A t \in job : s = t
  BY DEF Placed
<1>1. ASSUME NEW s \in Slot, Send(s)
      PROVE  Durable'
  BY <1>0, <1>a, <1>1 DEF Send, Ticked
<1>2. ASSUME NEW s \in Slot, Receive(s)
      PROVE  Durable'
  BY <1>0, <1>2 DEF Receive, Ticked
<1>3. CASE GiveUp
  BY <1>3 DEF GiveUp, Ticked
<1>4. ASSUME NEW s \in Slot, CheckRaw(s)
      PROVE  Durable'
  BY <1>0, <1>4 DEF CheckRaw, Ticked
<1>5. ASSUME NEW s \in Slot, ReadLastSequence(s)
      PROVE  Durable'
  BY <1>0, <1>5 DEF ReadLastSequence, Ticked
<1>6. ASSUME NEW s \in Slot, Put(s)
      PROVE  Durable'
  BY <1>0, <1>6 DEF Put, Ticked
<1>7. ASSUME NEW s \in Slot, Discard(s)
      PROVE  Durable'
  BY <1>0, <1>7 DEF Discard, Ticked
<1>8. ASSUME NEW s \in Slot, ReadFails(s)
      PROVE  Durable'
  BY <1>0, <1>8 DEF ReadFails, Ticked
<1>9. ASSUME NEW s \in Slot, Take(s)
      PROVE  Durable'
  BY <1>9 DEF Take, Ticked
<1>10. ASSUME NEW s \in Slot, StoreRaw(s)
       PROVE  Durable'
  BY <1>0, <1>a, <1>10 DEF StoreRaw, Ticked
<1>11. CASE PublishRaw
  BY <1>11 DEF PublishRaw, Ticked
<1>12. ASSUME NEW s \in Slot, StoreQuality(s)
       PROVE  Durable'
  BY <1>0, <1>12 DEF StoreQuality, Finish, Ticked
<1>13. ASSUME NEW s \in Slot, StoreTick(s)
       PROVE  Durable'
  <2>1. Ticked' = Ticked \cup {event[s]}
    BY <1>0, <1>13, AppendTick DEF StoreTick, TypeOK
  <2> QED BY <1>0, <1>a, <1>13, <2>1 DEF StoreTick
<1>14. CASE PublishTick
  BY <1>14 DEF PublishTick, Ticked
<1>15. ASSUME NEW s \in Slot, SetLatest(s)
       PROVE  Durable'
  BY <1>0, <1>15 DEF SetLatest, Finish, Ticked
<1>16. ASSUME NEW s \in Slot, StageFails(s)
       PROVE  Durable'
  BY <1>0, <1>16 DEF StageFails, Finish, Ticked
<1>17. CASE Disconnect
  BY <1>17 DEF Disconnect, Ticked
<1>18. CASE Crash
  BY <1>18 DEF Crash
<1>19. CASE UNCHANGED vars
  BY <1>19 DEF vars, Ticked
<1> QED
  BY <1>1, <1>2, <1>3, <1>4, <1>5, <1>6, <1>7, <1>8, <1>9, <1>10, <1>11,
     <1>12, <1>13, <1>14, <1>15, <1>16, <1>17, <1>18, <1>19
  DEF Next, HandlerStep, WorkerStep

\* A 200 is the only answer that moves the browser on.
LEMMA StepAcknowledged == IngestInv /\ [Next]_vars => AcknowledgedIsDurable'
<1> SUFFICES ASSUME IngestInv, [Next]_vars
             PROVE  AcknowledgedIsDurable'
  OBVIOUS
<1>1. next \in Nat \ {0} /\ pc \in [Slot -> HandlerState]
  BY DEF IngestInv, TypeOK
<1>2. ASSUME NEW s \in Slot, Receive(s)
      PROVE  AcknowledgedIsDurable'
  <2>1. CASE pc[s] = "failed"
    BY <1>2, <2>1 DEF IngestInv, AcknowledgedIsDurable, Receive, stores
  <2>2. CASE pc[s] # "failed"
    <3>1. event[s] = next /\ next \in raw
      BY <1>2, <2>2 DEF IngestInv, Durable, Receive, Answered
    <3>2. next' = next + 1 /\ raw' = raw
      BY <1>2, <2>2 DEF Receive, stores
    <3> QED BY <1>1, <3>1, <3>2 DEF IngestInv, AcknowledgedIsDurable
  <2> QED BY <2>1, <2>2
<1>3. CASE \A s \in Slot : ~Receive(s)
  <2>1. UNCHANGED next /\ raw \subseteq raw'
    BY <1>3 DEF Next, HandlerStep, WorkerStep, Send, GiveUp, CheckRaw,
       ReadLastSequence, Put, Discard, ReadFails, Take, StoreRaw, PublishRaw,
       StoreQuality, StoreTick, PublishTick, SetLatest, StageFails,
       Disconnect, Crash, vars, browser, stores
  <2> QED BY <2>1 DEF IngestInv, AcknowledgedIsDurable
<1> QED BY <1>2, <1>3

LEMMA StepRawBeforeTick == IngestInv /\ [Next]_vars => RawBeforeTick'
<1> SUFFICES ASSUME IngestInv, [Next]_vars
             PROVE  RawBeforeTick'
  OBVIOUS
<1> USE DEF RawBeforeTick
<1>0. /\ ticks \in Seq(Nat)
      /\ event \in [Slot -> Nat]
  BY DEF IngestInv, TypeOK
<1>1. ASSUME NEW s \in Slot, StoreTick(s)
      PROVE  RawBeforeTick'
  <2>1. Ticked' = Ticked \cup {event[s]}
    BY <1>0, <1>1, AppendTick DEF StoreTick
  <2>2. event[s] \in raw
    BY <1>1 DEF IngestInv, Durable, StoreTick
  <2> QED BY <1>1, <2>1, <2>2 DEF IngestInv, StoreTick
<1>2. ASSUME NEW s \in Slot, SetLatest(s)
      PROVE  RawBeforeTick'
  <2>1. event[s] \in Ticked
    BY <1>2 DEF IngestInv, Durable, SetLatest
  <2> QED BY <1>2, <2>1 DEF IngestInv, SetLatest, Ticked
<1>3. CASE \A s \in Slot : ~StoreTick(s) /\ ~SetLatest(s)
  <2>1. UNCHANGED <<ticks, latest>> /\ raw \subseteq raw'
    BY <1>3 DEF Next, HandlerStep, WorkerStep, Send, Receive, GiveUp,
       CheckRaw, ReadLastSequence, Put, Discard, ReadFails, Take, StoreRaw,
       PublishRaw, StoreQuality, PublishTick, StageFails, Disconnect, Crash,
       vars, stores
  <2> QED BY <2>1 DEF IngestInv, Ticked
<1> QED BY <1>1, <1>2, <1>3

\* Rows are appended in order because the worker's tick, if it has one, is
\* above every row.
LEMMA StepStrict == IngestInv /\ [Next]_vars => StrictWhileConnected'
<1> SUFFICES ASSUME IngestInv, [Next]_vars, trouble.disconnects' = 0
             PROVE  StrictlyIncreasing'
  BY DEF StrictWhileConnected
<1>0. /\ ticks \in Seq(Nat)
      /\ event \in [Slot -> Nat]
      /\ trouble \in Trouble
  BY DEF IngestInv, TypeOK, Trouble
<1>1. trouble.disconnects = 0
  BY <1>0 DEF Next, HandlerStep, WorkerStep, Send, Receive, GiveUp, CheckRaw,
     ReadLastSequence, Put, Discard, ReadFails, Take, StoreRaw, PublishRaw,
     StoreQuality, StoreTick, PublishTick, SetLatest, StageFails, Disconnect,
     Crash, vars, Trouble
<1>2. StrictlyIncreasing
  BY <1>1 DEF IngestInv, StrictWhileConnected
<1>3. ASSUME NEW s \in Slot, StoreTick(s)
      PROVE  StrictlyIncreasing'
  <2>1. makesTick /\ stage = "storeTick" /\ s \in job
    BY <1>3 DEF IngestInv, Placed, StoreTick
  <2>2. \A e \in Ticked : e < event[s]
    BY <1>1, <2>1 DEF IngestInv, UpToDate
  <2> QED BY <1>0, <1>2, <1>3, <2>2, AppendKeepsIncreasing DEF StoreTick
<1>4. CASE \A s \in Slot : ~StoreTick(s)
  <2>1. UNCHANGED ticks
    BY <1>4 DEF Next, HandlerStep, WorkerStep, Send, Receive, GiveUp,
       CheckRaw, ReadLastSequence, Put, Discard, ReadFails, Take, StoreRaw,
       PublishRaw, StoreQuality, PublishTick, SetLatest, StageFails,
       Disconnect, Crash, vars, stores
  <2> QED BY <1>2, <2>1 DEF StrictlyIncreasing
<1> QED BY <1>3, <1>4

LEMMA StepUpToDate == IngestInv /\ [Next]_vars => UpToDate'
<1> SUFFICES ASSUME IngestInv, [Next]_vars, trouble.disconnects' = 0
             PROVE  UpToDate'
  BY DEF UpToDate
<1> USE DEF browser, worker, stores, None
<1>0. /\ pc \in [Slot -> HandlerState]
      /\ event \in [Slot -> Nat]
      /\ persisted \in [Slot -> Nat]
      /\ job \in SUBSET Slot
      /\ lastSequence \in Nat
      /\ makesTick \in BOOLEAN
      /\ ticks \in Seq(Nat)
      /\ Ticked \subseteq Nat
      /\ trouble \in Trouble
  BY LenProperties DEF IngestInv, TypeOK, Trouble, Ticked
<1>a. trouble.disconnects = 0
  BY <1>0 DEF Next, HandlerStep, WorkerStep, Send, Receive, GiveUp, CheckRaw,
     ReadLastSequence, Put, Discard, ReadFails, Take, StoreRaw, PublishRaw,
     StoreQuality, StoreTick, PublishTick, SetLatest, StageFails, Disconnect,
     Crash, vars, Trouble
<1>b. /\ lastSequence # None => \A e \in Ticked : e <= lastSequence
      /\ lastSequence = None =>
            /\ ~makesTick
            /\ \A s \in Slot : pc[s] \in {"put", "queued"}
                  => \A e \in Ticked : e <= persisted[s]
      /\ \A s \in job : makesTick =>
            /\ event[s] = lastSequence
            /\ stage \notin {"publishTick", "setLatest"}
                  => \A e \in Ticked : e < event[s]
  BY <1>a DEF IngestInv, UpToDate
<1>c. \A s \in job : pc[s] = "queued" /\ \A t \in job : s = t
  BY DEF IngestInv, Placed
<1>1. ASSUME NEW s \in Slot, Send(s)
      PROVE  UpToDate'
  BY <1>0, <1>b, <1>c, <1>1 DEF UpToDate, Send, Ticked
<1>2. ASSUME NEW s \in Slot, Receive(s)
      PROVE  UpToDate'
  BY <1>0, <1>b, <1>2 DEF UpToDate, Receive, Ticked
<1>3. CASE GiveUp
  BY <1>b, <1>3 DEF UpToDate, GiveUp, Ticked
<1>4. ASSUME NEW s \in Slot, CheckRaw(s)
      PROVE  UpToDate'
  BY <1>0, <1>b, <1>4 DEF UpToDate, CheckRaw, Ticked
<1>5. ASSUME NEW s \in Slot, ReadLastSequence(s)
      PROVE  UpToDate'
  <2>1. \A e \in Ticked : e <= LargestTick
    BY <1>0, <1>a, LargestTickIsLargest DEF IngestInv, StrictWhileConnected
  <2>2. /\ persisted' = [persisted EXCEPT ![s] = LargestTick]
        /\ pc' = [pc EXCEPT ![s] = "put"]
        /\ UNCHANGED <<event, stage, job, makesTick, lastSequence, ticks>>
    BY <1>5 DEF ReadLastSequence
  <2>3. Ticked' = Ticked
    BY <2>2 DEF Ticked
  <2> QED BY <1>0, <1>b, <2>1, <2>2, <2>3 DEF UpToDate
<1>6. ASSUME NEW s \in Slot, Put(s)
      PROVE  UpToDate'
  <2>1. /\ pc[s] = "put"
        /\ \E c \in {"queued", "failed"} : pc' = [pc EXCEPT ![s] = c]
        /\ UNCHANGED <<event, persisted, stage, job, makesTick, lastSequence,
                       ticks>>
    BY <1>6 DEF Put
  <2>2. Ticked' = Ticked
    BY <2>1 DEF Ticked
  <2> QED BY <1>0, <1>b, <2>1, <2>2 DEF UpToDate
<1>7. ASSUME NEW s \in Slot, Discard(s)
      PROVE  UpToDate'
  BY <1>0, <1>b, <1>7 DEF UpToDate, Discard, Ticked
<1>8. ASSUME NEW s \in Slot, ReadFails(s)
      PROVE  UpToDate'
  BY <1>0, <1>b, <1>8 DEF UpToDate, ReadFails, Ticked
<1>9. ASSUME NEW s \in Slot, Take(s)
      PROVE  UpToDate'
  <2>1. /\ job' = {s}
        /\ stage' = "storeRaw"
        /\ UNCHANGED <<pc, event, persisted, ticks>>
        /\ makesTick' = Accepts(s)
        /\ lastSequence' = IF Accepts(s) THEN event[s] ELSE lastSequence
    BY <1>9 DEF Take
  <2>2. Ticked' = Ticked
    BY <2>1 DEF Ticked
  <2>3. pc[s] = "queued"
    <3>1. queue # <<>> /\ s = Head(queue)
      BY <1>9 DEF Take
    <3>2. s = queue[1] /\ 1 \in DOMAIN queue
      BY <3>1, TakeQueue DEF IngestInv, TypeOK
    <3> QED BY <3>2 DEF IngestInv, Placed
  <2>4. CASE Accepts(s)
    <3>1. \A e \in Ticked : e < event[s]
      <4>1. CASE lastSequence = None
        <5>1. event[s] > persisted[s]
          BY <2>4, <4>1 DEF Accepts, AbovePersisted
        <5>2. \A e \in Ticked : e <= persisted[s]
          BY <1>b, <2>3, <4>1
        <5> QED BY <1>0, <5>1, <5>2
      <4>2. CASE lastSequence # None
        <5>1. event[s] > lastSequence
          BY <2>4, <4>2 DEF Accepts, AbovePersisted
        <5>2. \A e \in Ticked : e <= lastSequence
          BY <1>b, <4>2
        <5> QED BY <1>0, <5>1, <5>2
      <4> QED BY <4>1, <4>2
    <3>2. event[s] # None
      <4>1. CASE lastSequence = None
        BY <1>0, <2>4, <4>1 DEF Accepts, AbovePersisted
      <4>2. CASE lastSequence # None
        BY <1>0, <2>4, <4>2 DEF Accepts, AbovePersisted
      <4> QED BY <4>1, <4>2
    <3> QED BY <1>0, <2>1, <2>2, <2>4, <3>1, <3>2 DEF UpToDate
  <2>5. CASE ~Accepts(s)
    <3>1. ~makesTick' /\ lastSequence' = lastSequence
      BY <2>1, <2>5
    <3> QED BY <1>b, <2>1, <2>2, <3>1 DEF UpToDate
  <2> QED BY <2>4, <2>5
<1>10. ASSUME NEW s \in Slot, StoreRaw(s)
       PROVE  UpToDate'
  BY <1>b, <1>10 DEF UpToDate, StoreRaw, Ticked
<1>11. CASE PublishRaw
  BY <1>b, <1>11 DEF UpToDate, PublishRaw, Ticked
<1>12. ASSUME NEW s \in Slot, StoreQuality(s)
       PROVE  UpToDate'
  BY <1>0, <1>b, <1>12 DEF UpToDate, StoreQuality, Finish, Ticked
<1>13. ASSUME NEW s \in Slot, StoreTick(s)
       PROVE  UpToDate'
  <2>1. Ticked' = Ticked \cup {event[s]}
    BY <1>0, <1>13, AppendTick DEF StoreTick
  <2>2. makesTick
    BY <1>13 DEF IngestInv, Placed, StoreTick
  <2>3. /\ s \in job
        /\ stage' = "publishTick"
        /\ UNCHANGED <<pc, event, persisted, job, makesTick, lastSequence>>
    BY <1>13 DEF StoreTick
  <2>4. event[s] = lastSequence /\ lastSequence # None
    BY <1>b, <2>2, <2>3
  <2> QED BY <1>0, <1>b, <2>1, <2>3, <2>4 DEF UpToDate
<1>14. CASE PublishTick
  BY <1>b, <1>14 DEF UpToDate, PublishTick, Ticked, Stages
<1>15. ASSUME NEW s \in Slot, SetLatest(s)
       PROVE  UpToDate'
  BY <1>0, <1>b, <1>15 DEF UpToDate, SetLatest, Finish, Ticked
<1>16. ASSUME NEW s \in Slot, StageFails(s)
       PROVE  UpToDate'
  BY <1>0, <1>b, <1>16 DEF UpToDate, StageFails, Finish, Ticked
<1>17. CASE Disconnect
  BY <1>0, <1>a, <1>17 DEF Disconnect, Trouble
<1>18. CASE Crash
  BY <1>18 DEF UpToDate, Crash, Ticked
<1>19. CASE UNCHANGED vars
  BY <1>b, <1>19 DEF UpToDate, vars, Ticked
<1> QED
  BY <1>1, <1>2, <1>3, <1>4, <1>5, <1>6, <1>7, <1>8, <1>9, <1>10, <1>11,
     <1>12, <1>13, <1>14, <1>15, <1>16, <1>17, <1>18, <1>19
  DEF Next, HandlerStep, WorkerStep

LEMMA InitInv == Init => IngestInv
<1> SUFFICES ASSUME Init
             PROVE  IngestInv
  OBVIOUS
<1>1. TypeOK
  BY InitType
<1>2. DOMAIN queue = {} /\ DOMAIN ticks = {} /\ Ticked = {}
  BY DEF Init, Ticked
<1>3. Placed /\ Durable /\ RawBeforeTick
  BY <1>2 DEF Init, Placed, Durable, RawBeforeTick, None
<1>4. AcknowledgedIsDurable
  BY DEF Init, AcknowledgedIsDurable
<1>5. StrictWhileConnected /\ UpToDate
  BY <1>2 DEF Init, StrictWhileConnected, StrictlyIncreasing, UpToDate, None
<1> QED BY <1>1, <1>3, <1>4, <1>5 DEF IngestInv

LEMMA StepInv == IngestInv /\ [Next]_vars => IngestInv'
BY TypeStep, StepPlaced, StepDurable, StepAcknowledged, StepRawBeforeTick,
   StepStrict, StepUpToDate DEF IngestInv

LEMMA Inductive == Spec => []IngestInv
BY InitInv, StepInv, PTL DEF Spec

-----------------------------------------------------------------------------
\* Whatever fails, crashes, times out or is retried in between, an event that
\* the browser removed from its outbox has its raw row.
THEOREM Durability == Spec => []AcknowledgedIsDurable
<1>1. IngestInv => AcknowledgedIsDurable
  BY DEF IngestInv
<1> QED BY <1>1, Inductive, PTL

\* No normalized row without its raw row, and Redis shows only stored quotes.
THEOREM RawFirst == Spec => []RawBeforeTick
<1>1. IngestInv => RawBeforeTick
  BY DEF IngestInv
<1> QED BY <1>1, Inductive, PTL

\* While the session stays connected no event gets a second normalized row
\* and the rows are in the order of observation, for any number of retries
\* and restarts.
THEOREM OrderedRows == Spec => []StrictWhileConnected
<1>1. IngestInv => StrictWhileConnected
  BY DEF IngestInv
<1> QED BY <1>1, Inductive, PTL

-----------------------------------------------------------------------------
\* A request is for the browser's head, which only grows while it is handled.
LEMMA StepDue == IngestInv /\ Due /\ [Next]_vars => Due'
<1> SUFFICES ASSUME IngestInv, Due, [Next]_vars
             PROVE  Due'
  OBVIOUS
<1> USE DEF Due
<1>0. /\ next \in Nat \ {0}
      /\ pc \in [Slot -> HandlerState]
      /\ event \in [Slot -> Nat]
      /\ \A s \in job : s \in Slot /\ pc[s] = "queued"
  BY DEF IngestInv, TypeOK, Placed
<1>1. ASSUME NEW s \in Slot, Send(s) PROVE Due'
  BY <1>0, <1>1 DEF Send
<1>2. ASSUME NEW s \in Slot, Receive(s) PROVE Due'
  <2>1. next' \in {next, next + 1}
    BY <1>2 DEF Receive
  <2>2. \A t \in Slot : pc'[t] # "free" => pc[t] # "free"
    BY <1>0, <1>2 DEF Receive, Answered
  <2>3. event' = event
    BY <1>2 DEF Receive
  <2> QED BY <1>0, <2>1, <2>2, <2>3 DEF Event
<1>3. ASSUME NEW s \in Slot, CheckRaw(s) \/ ReadLastSequence(s) \/ Put(s)
                              \/ Discard(s) \/ ReadFails(s)
      PROVE  Due'
  <2>1. \A t \in Slot : pc'[t] # "free" => pc[t] # "free"
    BY <1>0, <1>3 DEF CheckRaw, ReadLastSequence, Put, Discard, ReadFails,
       Reading, Answered
  <2>2. event' = event /\ next' = next
    BY <1>3 DEF CheckRaw, ReadLastSequence, Put, Discard, ReadFails, browser
  <2> QED BY <2>1, <2>2
<1>4. ASSUME NEW s \in Slot, StoreQuality(s) \/ SetLatest(s) \/ StageFails(s)
      PROVE  Due'
  <2>1. \A t \in Slot : pc'[t] # "free" => pc[t] # "free"
    BY <1>0, <1>4 DEF StoreQuality, SetLatest, StageFails, Finish
  <2>2. event' = event /\ next' = next
    BY <1>4 DEF StoreQuality, SetLatest, StageFails, browser
  <2> QED BY <2>1, <2>2
<1>5. CASE \/ \E s \in Slot : Take(s) \/ StoreRaw(s) \/ StoreTick(s)
           \/ GiveUp \/ PublishRaw \/ PublishTick \/ Disconnect
           \/ UNCHANGED vars
  BY <1>5 DEF Take, StoreRaw, StoreTick, GiveUp, PublishRaw, PublishTick,
     Disconnect, vars, browser
<1>6. CASE Crash
  BY <1>6 DEF Crash
<1> QED BY <1>1, <1>2, <1>3, <1>4, <1>5, <1>6 DEF Next, HandlerStep, WorkerStep

\* The deliveries of a pair implement an ordered channel that forgets an event
\* only when its raw row is there (the safety part of IsAtLeastOnce).  A handler
\* that stores a raw row does so for the head or for an event that has one.
THEOREM ImplementsDelivery == Spec => Channel!Spec
<1>1. Init => Channel!Init
  BY DEF Init, Channel!Init
<1>2. ASSUME IngestInv, Due, [Next]_vars
      PROVE  [Channel!Next]_<<next, raw>>
  <2>0. next \in Nat \ {0} /\ pc \in [Slot -> HandlerState]
    BY <1>2 DEF IngestInv, TypeOK
  <2>1. ASSUME NEW s \in Slot, Receive(s)
        PROVE  [Channel!Next]_<<next, raw>>
    <3>1. CASE pc[s] = "failed"
      BY <2>1, <3>1 DEF Receive, stores
    <3>2. CASE pc[s] # "failed"
      <4>1. event[s] = next /\ event[s] \in raw
        BY <1>2, <2>1, <3>2 DEF IngestInv, Durable, Receive, Answered
      <4>2. next' = next + 1 /\ raw' = raw
        BY <2>1, <3>2 DEF Receive, stores
      <4> QED BY <4>1, <4>2 DEF Channel!Next, Channel!Acknowledge
    <3> QED BY <3>1, <3>2
  <2>2. ASSUME NEW s \in Slot, StoreRaw(s)
        PROVE  [Channel!Next]_<<next, raw>>
    <3>1. raw' = raw \cup {event[s]} /\ next' = next
      BY <2>2 DEF StoreRaw, browser
    <3>2. event[s] \in Event /\ event[s] <= next
      BY <1>2, <2>2 DEF IngestInv, Placed, Due, StoreRaw
    <3>3. CASE event[s] = next
      BY <3>1, <3>2, <3>3 DEF Event, Channel!Next, Channel!Keep
    <3>4. CASE event[s] # next
      <4>1. event[s] \in 1 .. next - 1
        BY <2>0, <3>2, <3>4 DEF Event
      <4>2. event[s] \in raw
        BY <1>2, <4>1 DEF IngestInv, AcknowledgedIsDurable
      <4> QED BY <3>1, <4>2
    <3> QED BY <3>3, <3>4
  <2>3. CASE \A s \in Slot : ~Receive(s) /\ ~StoreRaw(s)
    <3>1. UNCHANGED <<next, raw>>
      BY <1>2, <2>3 DEF Next, HandlerStep, WorkerStep, Send, GiveUp, CheckRaw,
         ReadLastSequence, Put, Discard, ReadFails, Take, PublishRaw,
         StoreQuality, StoreTick, PublishTick, SetLatest, StageFails,
         Disconnect, Crash, vars, browser, stores
    <3> QED BY <3>1
  <2> QED BY <2>1, <2>2, <2>3
<1>3. Init => Due
  BY DEF Init, Due
<1> QED BY <1>1, <1>2, <1>3, InitInv, StepInv, StepDue, PTL
     DEF Spec, Channel!Spec
-----------------------------------------------------------------------------
(* The strengthening AcknowledgedIsTicked needs on top of IngestInv and Due. *)

\* An event that has its normalized row, or whose tick the worker carries.
Handled(e) == e \in Ticked \/ (makesTick /\ \E s \in job : event[s] = e)

\* As long as no call fails and nobody crashes, what adapter and handlers know
\* comes from rows that exist or are about to, so that an event the adapter
\* turns down has its row, also after a disconnect made it forget.
Kept ==
    /\ Ticked \subseteq 1 .. next
    /\ stage = "idle" => job = {}
    /\ lastSequence <= next
    /\ lastSequence # None => Handled(lastSequence)
    /\ \A s \in Slot : pc[s] \in {"put", "queued"}
          => persisted[s] \in Ticked \cup {None}
    /\ \A s \in job : ~makesTick => event[s] \in Ticked
    /\ \A e \in raw : Handled(e)
    /\ \A s \in Slot : pc[s] \in {"accepted", "duplicate"}
          => Handled(event[s])
    /\ \A e \in 1 .. next - 1 : Handled(e)

TickedInv == trouble.failures = 0 /\ trouble.crashes = 0 => Kept

LEMMA LargestTickFound == LargestTick \in Ticked \cup {None}
BY DEF LargestTick

\* An event that a step leaves with its row, or with the worker, stays handled.
LEMMA HandledStays ==
    ASSUME UNCHANGED <<makesTick, job, ticks>>,
           \A s \in job : event'[s] = event[s],
           NEW e, Handled(e)
    PROVE  Handled(e)'
BY DEF Handled, Ticked

\* A history without failures and crashes has none before its last step, and
\* that step is neither.
LEMMA Untroubled ==
    ASSUME TypeOK, [Next]_vars, trouble'.failures = 0, trouble'.crashes = 0
    PROVE  /\ trouble.failures = 0 /\ trouble.crashes = 0
           /\ \A s \in Slot : ~ReadFails(s) /\ ~StageFails(s)
           /\ ~Crash
<1>1. trouble \in Trouble
  BY DEF TypeOK, Trouble
<1>2. /\ \A s \in Slot : ~ReadFails(s) /\ ~StageFails(s)
      /\ ~Crash
  BY <1>1 DEF ReadFails, StageFails, Crash, Trouble
<1>3. \/ UNCHANGED trouble
      \/ trouble' = [trouble EXCEPT !.timeouts = @ + 1]
      \/ trouble' = [trouble EXCEPT !.disconnects = @ + 1]
  BY <1>2 DEF Next, HandlerStep, WorkerStep, Send, Receive, GiveUp, CheckRaw,
     ReadLastSequence, Put, Discard, Take, StoreRaw, PublishRaw, StoreQuality,
     StoreTick, PublishTick, SetLatest, Disconnect, vars
<1> QED BY <1>1, <1>2, <1>3 DEF Trouble

\* An event that the adapter turns down has its row already.
LEMMA TurnedDown ==
    ASSUME IngestInv, Due, Kept, NEW s \in Slot, pc[s] = "queued", job = {},
           ~Accepts(s)
    PROVE  event[s] \in Ticked
<1>1. /\ next \in Nat
      /\ event[s] \in Nat
      /\ persisted[s] \in Nat
      /\ lastSequence \in Nat
  BY DEF IngestInv, TypeOK
<1>2. 1 <= event[s] /\ event[s] <= next
  BY DEF Due, Event
<1>3. \A e : Handled(e) => e \in Ticked
  BY DEF Handled
<1>4. \E known \in Nat : known \in Ticked /\ known <= next
                         /\ event[s] <= known
  <2>1. CASE lastSequence = None
    <3>1. event[s] <= persisted[s]
      BY <1>1, <2>1 DEF Accepts, AbovePersisted
    <3>2. persisted[s] \in Ticked
      BY <1>1, <1>2, <3>1 DEF Kept, None
    <3>3. persisted[s] <= next
      BY <1>1, <3>2 DEF Kept
    <3> QED BY <1>1, <3>1, <3>2, <3>3
  <2>2. CASE lastSequence # None
    <3>1. event[s] <= lastSequence
      BY <1>1, <2>2 DEF Accepts, AbovePersisted
    <3>2. lastSequence \in Ticked /\ lastSequence <= next
      BY <1>3, <2>2 DEF Kept
    <3> QED BY <1>1, <3>1, <3>2
  <2> QED BY <2>1, <2>2
<1>5. PICK known \in Nat : known \in Ticked /\ known <= next
                           /\ event[s] <= known
  BY <1>4
<1>6. CASE event[s] = known
  BY <1>5, <1>6
<1>7. CASE event[s] # known
  <2>1. event[s] \in 1 .. next - 1
    BY <1>1, <1>2, <1>5, <1>7
  <2> QED BY <1>3, <2>1 DEF Kept
<1> QED BY <1>6, <1>7

LEMMA StepTicked == IngestInv /\ Due /\ TickedInv /\ [Next]_vars => TickedInv'
<1> SUFFICES ASSUME IngestInv, Due, TickedInv, [Next]_vars,
                    trouble'.failures = 0, trouble'.crashes = 0
             PROVE  Kept'
  BY DEF TickedInv
<1> USE DEF browser, worker, stores, None
<1>0. /\ next \in Nat \ {0}
      /\ pc \in [Slot -> HandlerState]
      /\ event \in [Slot -> Nat]
      /\ persisted \in [Slot -> Nat]
      /\ job \in SUBSET Slot
      /\ lastSequence \in Nat
      /\ makesTick \in BOOLEAN
      /\ ticks \in Seq(Nat)
  BY DEF IngestInv, TypeOK
<1>a. /\ trouble.failures = 0 /\ trouble.crashes = 0
      /\ \A s \in Slot : ~ReadFails(s) /\ ~StageFails(s)
      /\ ~Crash
  BY Untroubled DEF IngestInv
<1>b. Kept
  BY <1>a DEF TickedInv
<1>c. \A s \in job : pc[s] = "queued" /\ \A t \in job : s = t
  BY DEF IngestInv, Placed
<1>1. ASSUME NEW s \in Slot, Send(s)
      PROVE  Kept'
  <2>1. /\ UNCHANGED <<next, persisted, stage, job, makesTick, lastSequence,
                       raw, ticks>>
        /\ pc[s] = "free"
        /\ pc' = [pc EXCEPT ![s] = "hasRaw"]
        /\ event' = [event EXCEPT ![s] = next]
    BY <1>1 DEF Send
  <2>2. Ticked' = Ticked /\ \A t \in job : event'[t] = event[t]
    BY <1>0, <1>c, <2>1 DEF Ticked
  <2>3. \A e : Handled(e) => Handled(e)'
    BY <2>1, <2>2, HandledStays
  <2> QED BY <1>0, <1>b, <2>1, <2>2, <2>3 DEF Kept
<1>2. ASSUME NEW s \in Slot, Receive(s)
      PROVE  Kept'
  <2>1. /\ UNCHANGED <<event, persisted, stage, job, makesTick, lastSequence,
                       raw, ticks>>
        /\ s \in awaiting
        /\ pc[s] \in Answered
        /\ pc' = [pc EXCEPT ![s] = "free"]
        /\ next' = IF pc[s] = "failed" THEN next ELSE next + 1
    BY <1>2 DEF Receive
  <2>2. Ticked' = Ticked
    BY <2>1 DEF Ticked
  <2>3. \A e : Handled(e) => Handled(e)'
    BY <2>1, HandledStays
  <2>4. \A e \in 1 .. next' - 1 : Handled(e)
    <3>1. CASE pc[s] = "failed"
      BY <1>b, <2>1, <3>1 DEF Kept
    <3>2. CASE pc[s] # "failed"
      <4>1. event[s] = next
        BY <2>1 DEF IngestInv, Durable
      <4>2. Handled(next)
        BY <1>b, <2>1, <3>2, <4>1 DEF Kept, Answered
      <4> QED BY <1>0, <1>b, <2>1, <4>2 DEF Kept
    <3> QED BY <3>1, <3>2
  <2>5. next <= next' /\ next' \in Nat
    BY <1>0, <2>1
  <2>6. Ticked \subseteq 1 .. next' /\ lastSequence <= next'
    BY <1>0, <1>b, <2>5 DEF Kept
  <2> QED BY <1>0, <1>b, <2>1, <2>2, <2>3, <2>4, <2>6 DEF Kept
<1>3. CASE GiveUp
  <2>1. UNCHANGED <<next, pc, event, persisted, stage, job, makesTick,
                    lastSequence, raw, ticks>>
    BY <1>3 DEF GiveUp
  <2> QED BY <1>b, <2>1 DEF Kept, Handled, Ticked
<1>4. ASSUME NEW s \in Slot, CheckRaw(s)
      PROVE  Kept'
  <2>1. /\ UNCHANGED <<next, event, persisted, stage, job, makesTick,
                       lastSequence, raw, ticks>>
        /\ pc' = [pc EXCEPT ![s] = IF event[s] \in raw THEN "duplicate"
                                   ELSE "lastSequence"]
    BY <1>4 DEF CheckRaw
  <2>2. \A t \in Slot : pc'[t] \in {"accepted", "duplicate"}
           => Handled(event[t])
    BY <1>0, <1>b, <2>1 DEF Kept
  <2>3. \A t \in Slot : pc'[t] \in {"put", "queued"}
           => pc[t] \in {"put", "queued"}
    BY <1>0, <2>1
  <2>4. Ticked' = Ticked /\ \A e : Handled(e) => Handled(e)'
    BY <2>1, HandledStays DEF Ticked
  <2> QED BY <1>b, <2>1, <2>2, <2>3, <2>4 DEF Kept
<1>5. ASSUME NEW s \in Slot, ReadLastSequence(s)
      PROVE  Kept'
  <2>1. /\ UNCHANGED <<next, event, stage, job, makesTick, lastSequence, raw,
                       ticks>>
        /\ persisted' = [persisted EXCEPT ![s] = LargestTick]
        /\ pc' = [pc EXCEPT ![s] = "put"]
    BY <1>5 DEF ReadLastSequence
  <2>2. LargestTick \in Ticked \cup {0}
    BY LargestTickFound
  <2>3. \A t \in Slot : pc'[t] \in {"put", "queued"}
           => persisted'[t] \in Ticked \cup {0}
    BY <1>0, <1>b, <2>1, <2>2 DEF Kept
  <2>4. \A t \in Slot : pc'[t] \in {"accepted", "duplicate"} => pc'[t] = pc[t]
    BY <1>0, <2>1
  <2>5. Ticked' = Ticked /\ \A e : Handled(e) => Handled(e)'
    BY <2>1, HandledStays DEF Ticked
  <2> QED BY <1>b, <2>1, <2>3, <2>4, <2>5 DEF Kept
<1>6. ASSUME NEW s \in Slot, Put(s) \/ Discard(s)
      PROVE  Kept'
  <2>1. /\ UNCHANGED <<next, event, persisted, stage, job, makesTick,
                       lastSequence, raw, ticks>>
        /\ \A t \in Slot : pc'[t] \in {"put", "queued"}
              => pc[t] \in {"put", "queued"}
        /\ \A t \in Slot : pc'[t] \in {"accepted", "duplicate"}
              => pc'[t] = pc[t]
    BY <1>0, <1>6 DEF Put, Discard
  <2>2. Ticked' = Ticked /\ \A e : Handled(e) => Handled(e)'
    BY <2>1, HandledStays DEF Ticked
  <2> QED BY <1>b, <2>1, <2>2 DEF Kept
<1>7. ASSUME NEW s \in Slot, Take(s)
      PROVE  Kept'
  <2>1. /\ stage = "idle"
        /\ job' = {s}
        /\ stage' = "storeRaw"
        /\ makesTick' = Accepts(s)
        /\ lastSequence' = IF Accepts(s) THEN event[s] ELSE lastSequence
        /\ UNCHANGED <<next, pc, event, persisted, raw, ticks>>
    BY <1>7 DEF Take
  <2>2. pc[s] = "queued"
    <3>1. queue # <<>> /\ s = Head(queue)
      BY <1>7 DEF Take
    <3>2. s = queue[1] /\ 1 \in DOMAIN queue
      BY <3>1, TakeQueue DEF IngestInv, TypeOK
    <3> QED BY <3>2 DEF IngestInv, Placed
  <2>3. job = {} /\ Ticked' = Ticked
    BY <1>b, <2>1 DEF Kept, Ticked
  <2>4. \A e : Handled(e) => Handled(e)'
    BY <2>3 DEF Handled
  <2>5. ~Accepts(s) => event[s] \in Ticked
    BY <1>b, <2>2, <2>3, TurnedDown
  <2>6. Accepts(s) => Handled(event[s])'
    BY <2>1 DEF Handled
  <2>7. event[s] <= next
    BY <2>2 DEF Due
  <2>8. lastSequence' <= next /\ (lastSequence' # 0 => Handled(lastSequence)')
    BY <1>b, <2>1, <2>4, <2>6, <2>7 DEF Kept
  <2> QED BY <1>b, <2>1, <2>3, <2>4, <2>5, <2>8 DEF Kept
<1>8. ASSUME NEW s \in Slot, StoreRaw(s)
      PROVE  Kept'
  <2>1. /\ UNCHANGED <<next, pc, event, persisted, job, makesTick,
                       lastSequence, ticks>>
        /\ s \in job
        /\ stage' = "publishRaw"
        /\ raw' = raw \cup {event[s]}
    BY <1>8 DEF StoreRaw
  <2>2. Ticked' = Ticked /\ \A e : Handled(e) => Handled(e)'
    BY <2>1, HandledStays DEF Ticked
  <2>3. Handled(event[s])
    BY <1>b, <2>1 DEF Kept, Handled
  <2> QED BY <1>b, <2>1, <2>2, <2>3 DEF Kept
<1>9. CASE PublishRaw \/ PublishTick
  <2>1. /\ UNCHANGED <<next, pc, event, persisted, job, makesTick,
                       lastSequence, raw, ticks>>
        /\ stage' # "idle"
    BY <1>9 DEF PublishRaw, PublishTick
  <2> QED BY <1>b, <2>1 DEF Kept, Handled, Ticked
<1>10. ASSUME NEW s \in Slot, StoreQuality(s)
       PROVE  Kept'
  <2>1. UNCHANGED <<next, event, persisted, lastSequence, raw, ticks>>
    BY <1>10 DEF StoreQuality
  <2>2. Ticked' = Ticked
    BY <2>1 DEF Ticked
  <2>3. CASE makesTick
    <3>1. UNCHANGED <<pc, job, makesTick>> /\ stage' = "storeTick"
      BY <1>10, <2>3 DEF StoreQuality
    <3>2. \A e : Handled(e) => Handled(e)'
      BY <2>1, <3>1, HandledStays
    <3> QED BY <1>b, <2>1, <2>2, <3>1, <3>2 DEF Kept
  <2>4. CASE ~makesTick
    <3>1. /\ pc' = [pc EXCEPT ![s] = "accepted"]
          /\ job' = {}
          /\ s \in job
      BY <1>10, <2>4 DEF StoreQuality, Finish
    <3>2. \A e : Handled(e) => Handled(e)'
      BY <2>2, <2>4 DEF Handled
    <3>3. Handled(event[s])
      BY <1>b, <2>4, <3>1 DEF Kept, Handled
    <3> QED BY <1>0, <1>b, <2>1, <2>2, <3>1, <3>2, <3>3 DEF Kept
  <2> QED BY <2>3, <2>4
<1>11. ASSUME NEW s \in Slot, StoreTick(s)
       PROVE  Kept'
  <2>1. /\ UNCHANGED <<next, pc, event, persisted, job, makesTick,
                       lastSequence, raw>>
        /\ s \in job
        /\ stage' = "publishTick"
        /\ ticks' = Append(ticks, event[s])
    BY <1>11 DEF StoreTick
  <2>2. Ticked' = Ticked \cup {event[s]}
    BY <1>0, <2>1, AppendTick
  <2>3. \A e : Handled(e) => Handled(e)'
    BY <2>1, <2>2 DEF Handled
  <2>4. event[s] \in 1 .. next
    BY <1>0, <1>c, <2>1 DEF Due, Event
  <2> QED BY <1>0, <1>b, <2>1, <2>2, <2>3, <2>4 DEF Kept
<1>12. ASSUME NEW s \in Slot, SetLatest(s)
       PROVE  Kept'
  <2>1. /\ UNCHANGED <<next, event, persisted, lastSequence, raw, ticks>>
        /\ s \in job
        /\ pc' = [pc EXCEPT ![s] = "accepted"]
        /\ job' = {}
    BY <1>12 DEF SetLatest, Finish
  <2>2. Ticked' = Ticked
    BY <2>1 DEF Ticked
  <2>3. event[s] \in Ticked
    BY <1>12 DEF IngestInv, Durable, SetLatest
  <2>4. \A e : Handled(e) => e \in Ticked
    BY <1>c, <2>1, <2>3 DEF Handled
  <2>5. \A e : e \in Ticked => Handled(e)'
    BY <2>2 DEF Handled
  <2> QED BY <1>0, <1>b, <2>1, <2>2, <2>3, <2>4, <2>5 DEF Kept
<1>13. CASE Disconnect
  <2>1. /\ UNCHANGED <<next, pc, event, persisted, stage, job, makesTick, raw,
                       ticks>>
        /\ lastSequence' = 0
    BY <1>13 DEF Disconnect
  <2>2. Ticked' = Ticked /\ \A e : Handled(e) => Handled(e)'
    BY <2>1, HandledStays DEF Ticked
  <2> QED BY <1>0, <1>b, <2>1, <2>2 DEF Kept
<1>14. CASE UNCHANGED vars
  BY <1>b, <1>14 DEF Kept, Handled, Ticked, vars
<1> QED
  BY <1>a, <1>1, <1>2, <1>3, <1>4, <1>5, <1>6, <1>7, <1>8, <1>9, <1>10,
     <1>11, <1>12, <1>13, <1>14
  DEF Next, HandlerStep, WorkerStep

\* Unless a call fails or the collector dies, the browser's outbox drops only
\* events whose normalized row is there or under way, although handlers of
\* several attempts overlap, answers come late and on_disconnect makes the
\* adapter forget the session between two of them.
THEOREM AcknowledgedHasRow == Spec => []AcknowledgedIsTicked
<1>1. Init => Due
  BY DEF Init, Due
<1>2. Init => TickedInv
  <2> SUFFICES ASSUME Init
               PROVE  Kept
    BY DEF TickedInv
  <2>1. Ticked = {}
    BY DEF Init, Ticked
  <2> QED BY <2>1 DEF Init, Kept, None
<1>3. TickedInv => AcknowledgedIsTicked
  BY DEF TickedInv, Kept, Handled, AcknowledgedIsTicked
<1> QED BY <1>1, <1>2, <1>3, InitInv, StepInv, StepDue, StepTicked, PTL
     DEF Spec
=============================================================================
