------------------------------ MODULE FairQueue ------------------------------
(***************************************************************************)
(* The collector's FairInstrumentQueue (fair_queue.py): one bounded        *)
(* asyncio.Queue per pair, emptied round-robin by the single queue_worker  *)
(* of main.py and filled by the request handlers, each of which gives up   *)
(* after wait_for's 0.25 s.                                                *)
(*                                                                         *)
(* An action is what a task does between two awaits.  A handler that finds *)
(* its queue full sleeps on a future ("blocked"); get_nowait completes the *)
(* oldest such future, but its task runs only later ("woken") and looks    *)
(* again, for another handler may have taken the slot meanwhile.  The      *)
(* asyncio.Queue part is the library's, CPython 3.12.                      *)
(***************************************************************************)
EXTENDS Integers, Sequences, SequencesExt

CONSTANTS
    N,            \* number of pairs, len(SUPPORTED_INSTRUMENTS)
    Capacity,     \* total_capacity
    Task          \* the request handlers; a task's item is named after it

ASSUME PairsAssumption == N \in Nat \ {0}
\* The constructor's ValueError.
ASSUME CapacityAssumption == Capacity \in Nat /\ Capacity >= N

Pair == 0 .. N - 1
PerPair == IF Capacity \div N >= 1 THEN Capacity \div N ELSE 1

VARIABLES
    queue,      \* items of each pair, oldest first
    putters,    \* handlers asleep on each pair's queue, oldest first
    pc,         \* where each handler is
    wants,      \* the pair it puts into
    available,  \* the asyncio.Event
    cursor,     \* pair at which the next get starts
    worker,     \* the consumer: "scan", "wait" or "busy"
    serving,    \* the item it is busy with, if any
    unfinished, \* _unfinished_tasks of each pair, what join() waits for
    bypassed    \* history: gets that passed over a non-empty pair

vars == <<queue, putters, pc, wants, available, cursor, worker, serving,
          unfinished, bypassed>>
workerVars == <<cursor, worker, serving, bypassed>>

-----------------------------------------------------------------------------
Full(p) == Len(queue[p]) >= PerPair
Empty == \A p \in Pair : queue[p] = <<>>

\* Mutant: always from the first pair.
FixedPriority(p) == p

\* The pairs are scanned upwards from cursor, cyclically.
Distance(p) == IF p >= cursor THEN p - cursor ELSE p + N - cursor

\* Mutant: the modulus is missing.
CursorRunsOff(p) == p + 1
CursorAfter(p) == IF p = N - 1 THEN 0 ELSE p + 1

\* _wakeup_next: completes the future of the oldest sleeping handler.
WakeNext(p, newPc) ==
    IF putters[p] = <<>>
    THEN pc' = newPc /\ UNCHANGED putters
    ELSE /\ pc' = [newPc EXCEPT ![Head(putters[p])] = "woken"]
         /\ putters' = [putters EXCEPT ![p] = Tail(@)]

\* Mutant: the event is not set.
SilentEnqueue(t, p) ==
    /\ queue' = [queue EXCEPT ![p] = Append(@, t)]
    /\ unfinished' = [unfinished EXCEPT ![p] = @ + 1]
    /\ pc' = [pc EXCEPT ![t] = "queued"]
    /\ UNCHANGED available

\* put_nowait, then available.set() without an await between them.
Enqueue(t, p) ==
    /\ queue' = [queue EXCEPT ![p] = Append(@, t)]
    /\ unfinished' = [unfinished EXCEPT ![p] = @ + 1]
    /\ pc' = [pc EXCEPT ![t] = "queued"]
    /\ available' = TRUE

Init ==
    /\ queue = [p \in Pair |-> <<>>]
    /\ putters = [p \in Pair |-> <<>>]
    /\ pc = [t \in Task |-> "idle"]
    /\ wants = [t \in Task |-> 0]
    /\ available = FALSE
    /\ cursor = 0
    /\ worker = "scan"
    /\ serving = {}
    /\ unfinished = [p \in Pair |-> 0]
    /\ bypassed = [p \in Pair |-> 0]

\* A handler calls put: there is room, even if others still wait for it, ...
Put(t, p) ==
    /\ pc[t] = "idle"
    /\ ~Full(p)
    /\ wants' = [wants EXCEPT ![t] = p]
    /\ Enqueue(t, p)
    /\ UNCHANGED <<putters, workerVars>>

\* ... or there is none.
Block(t, p) ==
    /\ pc[t] = "idle"
    /\ Full(p)
    /\ wants' = [wants EXCEPT ![t] = p]
    /\ pc' = [pc EXCEPT ![t] = "blocked"]
    /\ putters' = [putters EXCEPT ![p] = Append(@, t)]
    /\ UNCHANGED <<queue, available, unfinished, workerVars>>

\* Mutant: if self.full() instead of while.
PutsUnchecked(t) ==
    /\ pc[t] = "woken"
    /\ Enqueue(t, wants[t])
    /\ UNCHANGED <<putters, wants, workerVars>>

\* A woken handler looks again: while self.full().
Resume(t) ==
    /\ pc[t] = "woken"
    /\ IF Full(wants[t])
       THEN /\ pc' = [pc EXCEPT ![t] = "blocked"]
            /\ putters' = [putters EXCEPT ![wants[t]] = Append(@, t)]
            /\ UNCHANGED <<queue, available, unfinished>>
       ELSE /\ Enqueue(t, wants[t])
            /\ UNCHANGED putters
    /\ UNCHANGED <<wants, workerVars>>

\* The cancelled handler leaves the list of sleepers.
LeavesPutters(t) ==
    \E i \in 1 .. Len(putters[wants[t]]) :
        /\ putters[wants[t]][i] = t
        /\ putters' = [putters EXCEPT ![wants[t]] = RemoveAt(@, i)]

\* Mutant: the wake-up is lost with the handler.
KeepsWakeup(t) == pc' = [pc EXCEPT ![t] = "idle"] /\ UNCHANGED putters

\* One that had been woken already hands the free slot on.
PassesWakeupOn(t) ==
    IF Full(wants[t])
    THEN pc' = [pc EXCEPT ![t] = "idle"] /\ UNCHANGED putters
    ELSE WakeNext(wants[t], [pc EXCEPT ![t] = "idle"])

\* wait_for's timeout cancels the sleep: the handler answers 503.
Timeout(t) ==
    /\ \/ /\ pc[t] = "blocked"
          /\ pc' = [pc EXCEPT ![t] = "idle"]
          /\ LeavesPutters(t)
       \/ /\ pc[t] = "woken"
          /\ PassesWakeupOn(t)
    /\ UNCHANGED <<queue, wants, available, unfinished, workerVars>>

\* Mutant: the event is cleared when the served pair is empty.
ClearOnPair(p, rest) == IF rest[p] = <<>> THEN FALSE ELSE available

\* get() clears the event when nothing is left in any pair.
AvailableAfter(p, rest) ==
    IF \A q \in Pair : rest[q] = <<>> THEN FALSE ELSE available

\* get() finds an item: the first non-empty pair from cursor.
Get(p) ==
    LET rest == [queue EXCEPT ![p] = Tail(@)] IN
    /\ worker = "scan"
    /\ queue[p] # <<>>
    /\ \A q \in Pair : queue[q] # <<>> => Distance(p) <= Distance(q)
    /\ queue' = rest
    /\ available' = AvailableAfter(p, rest)
    /\ cursor' = CursorAfter(p)
    /\ serving' = {Head(queue[p])}
    /\ worker' = "busy"
    /\ bypassed' = [q \in Pair |->
          IF q # p /\ queue[q] # <<>> THEN bypassed[q] + 1 ELSE 0]
    /\ WakeNext(p, pc)
    /\ UNCHANGED <<wants, unfinished>>

\* get() finds none: clear the event and sleep on it.
GetWaits ==
    /\ worker = "scan"
    /\ Empty
    /\ available' = FALSE
    /\ worker' = "wait"
    /\ UNCHANGED <<queue, putters, pc, wants, cursor, serving, unfinished,
                   bypassed>>

GetWakes ==
    /\ worker = "wait"
    /\ available
    /\ worker' = "scan"
    /\ UNCHANGED <<queue, putters, pc, wants, available, cursor, serving,
                   unfinished, bypassed>>

\* Mutant: task_done is forgotten.
NeverDone(p) == unfinished' = unfinished

\* queue_worker's finally: task_done, whatever became of the item; its
\* handler answers.
TaskDone(p) == unfinished' = [unfinished EXCEPT ![p] = @ - 1]
Finish(t) ==
    /\ worker = "busy"
    /\ t \in serving
    /\ TaskDone(wants[t])
    /\ pc' = [pc EXCEPT ![t] = "idle"]
    /\ serving' = {}
    /\ worker' = "scan"
    /\ UNCHANGED <<queue, putters, wants, available, cursor, bypassed>>

WorkerStep ==
    \/ \E p \in Pair : Get(p)
    \/ GetWaits
    \/ GetWakes
    \/ \E t \in serving : Finish(t)

Next ==
    \/ \E t \in Task, p \in Pair : Put(t, p) \/ Block(t, p)
    \/ \E t \in Task : Resume(t) \/ Timeout(t)
    \/ WorkerStep

Spec == Init /\ [][Next]_vars

\* The event loop runs every task that is ready.  Requests are never owed.
FairSpec ==
    /\ Spec
    /\ WF_vars(WorkerStep)
    /\ \A t \in Task : WF_vars(Resume(t))

-----------------------------------------------------------------------------
\* Queues, sleepers and the worker hold what fair_queue.py can put there;
\* cursor stays an index of SUPPORTED_INSTRUMENTS.
TypeOK ==
    /\ queue \in [Pair -> Seq(Task)]
    /\ putters \in [Pair -> Seq(Task)]
    /\ pc \in [Task -> {"idle", "blocked", "woken", "queued"}]
    /\ wants \in [Task -> Pair]
    /\ available \in BOOLEAN
    /\ cursor \in Pair
    /\ worker \in {"scan", "wait", "busy"}
    /\ serving \in SUBSET Task
    /\ unfinished \in [Pair -> Int]
    /\ bypassed \in [Pair -> Nat]

\* No pair ever holds more than its share, although a handler woken for a
\* free slot may find it taken by one that never slept.
DepthBounded == \A p \in Pair : Len(queue[p]) <= PerPair

\* No lost wake-up: the event is clear only when every pair is empty, so the
\* worker never sleeps on items.
NoLostWakeup == ~available => Empty

\* No lost slot: if a pair has room while handlers sleep on it, one of its
\* handlers has been woken and not yet looked, also when a handler times out
\* between its wake-up and its turn.
NoLostSlot ==
    \A p \in Pair :
        putters[p] # <<>> /\ ~Full(p)
            => \E t \in Task : pc[t] = "woken" /\ wants[t] = p

\* join() waits for exactly the items put and not yet finished.
JoinCountsAll ==
    \A p \in Pair :
        unfinished[p] = Len(queue[p]) +
            IF \E t \in serving : wants[t] = p THEN 1 ELSE 0

\* Round-robin: a non-empty pair is passed over at most N - 1 times, whatever
\* the rates of the others.
BoundedBypass == \A p \in Pair : bypassed[p] <= N - 1

\* Every accepted item is eventually processed and answered, however many
\* requests keep arriving for the other pairs.
EventuallyServed == \A t \in Task : pc[t] = "queued" ~> pc[t] = "idle"

-----------------------------------------------------------------------------
Fifo == INSTANCE FifoGroups
            WITH Group <- Pair, Item <- Task, Room <- PerPair, contents <- queue

\* The queue implements one bounded FIFO per pair, each of which is served: no
\* handler's retry, timeout or wake-up moves an item in another way, puts one
\* above a pair's share, or keeps a pair from the worker.
IsFairFifo == Fifo!FairSpec

-----------------------------------------------------------------------------
\* What makes BoundedBypass inductive: a pair that was passed over k times is
\* at most N - 1 - k pairs ahead of the cursor.
NearCursor == \A p \in Pair : bypassed[p] + Distance(p) <= N - 1

=============================================================================
