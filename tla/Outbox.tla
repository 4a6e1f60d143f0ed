------------------------------- MODULE Outbox -------------------------------
(***************************************************************************)
(* The extension's persistent outbox: class PersistentOutbox of            *)
(* apps/browser_bridge/src/outbox.ts, as service-worker.ts drives it.      *)
(*                                                                         *)
(* Frames enter one of N groups (the pairs in GROUPS order, then           *)
(* DISCOVERY), are written to chrome.storage, and leave it when the        *)
(* collector acknowledges or rejects them.  Every operation is a load      *)
(* followed, one IPC round trip later, by a save; runSerial keeps the      *)
(* operations of all callers apart.                                        *)
(*                                                                         *)
(* The stored array is a set of events numbered in arrival order: push     *)
(* gives the next number and the first element of a group is the one with  *)
(* the least.  Wall-clock time is kept only as far as it decides something *)
(* here: backoff holds the events whose nextAttemptAt is still ahead, and  *)
(* the alarm remembers which of those it was set for.                      *)
(***************************************************************************)
EXTENDS Integers, FiniteSets, SortedSets

CONSTANTS
    N,            \* number of groups, GROUPS.length
    MaxSize,      \* options.maxSize
    MaxEvents,    \* bound: events produced
    MaxRetries,   \* bound: retryable answers of the collector
    MaxKills,     \* bound: service-worker kills
    MaxRestarts,  \* bound: browser starts and extension reloads
    MaxFaults     \* bound: rejected chrome.storage or chrome.alarms calls

ASSUME GroupsAssumption == N \in Nat \ {0}
ASSUME SizeAssumption == MaxSize \in Nat /\ MaxSize >= N
ASSUME BoundsAssumption ==
    {MaxEvents, MaxRetries, MaxKills, MaxRestarts, MaxFaults} \subseteq Nat

Group == 0 .. N - 1
Discovery == N - 1
Instrument == Group \ {Discovery}
Total == N                        \* the aggregate row of the statistics
Row == Instrument \cup {Total}
Field == {"produced", "acknowledged", "retries", "dropped", "rejected"}
Event == [id : Nat, group : Group]
Stats == [Row -> [Field -> Nat]]
Storage == [events : SUBSET Event, stats : Stats]
Caller == {"enqueue", "drain"}
Answer == {"acknowledged", "rejected", "retry"}

VARIABLES
    stored,     \* chrome.storage: the outbox array and its statistics
    nextId,     \* arrival number of the next event
    seen,       \* what each caller's running operation has loaded, if one runs
    arriving,   \* the event an enqueue is about to store
    pc,         \* where the drain loop is; "idle" when draining === null
    current,    \* the event the drain loop has selected
    result,     \* the answer to its delivery
    attempted,  \* ids this drain has already tried
    cursor,     \* group at which selectNext starts
    backoff,    \* ids whose nextAttemptAt is in the future
    wake,       \* ids an issued schedule() call waits for; {} when it is past
    alarm,      \* the retry alarm, and the ids it waits for
    bypassed,   \* history: selections that passed over a selectable group
    trouble     \* history: how often each kind of disruption happened

vars == <<stored, nextId, seen, arriving, pc, current, result, attempted,
          cursor, backoff, wake, alarm, bypassed, trouble>>
drainVars == <<pc, current, result, attempted, cursor, wake, bypassed>>

-----------------------------------------------------------------------------
\* The statistics rows an event counts in: its pair's, and the aggregate.
RowsOf(g) == IF g = Discovery THEN {Total} ELSE {g, Total}

Increment(stats, g, field) ==
    [r \in Row |-> IF r \in RowsOf(g)
                   THEN [stats[r] EXCEPT ![field] = @ + 1]
                   ELSE stats[r]]

EmptyStats == [r \in Row |-> [f \in Field |-> 0]]

GroupCapacity == IF MaxSize \div N >= 1 THEN MaxSize \div N ELSE 1

InGroup(events, g) == {e \in events : e.group = g}

IsHead(events, e) ==
    /\ e \in events
    /\ \A o \in InGroup(events, e.group) : e.id <= o.id

\* Mutant: the depth of the group counts the events of all groups.
RefusedForOthers(events, g) == Cardinality(events) >= GroupCapacity

Refused(events, g) ==
    \/ Cardinality(events) >= MaxSize
    \/ Cardinality(InGroup(events, g)) >= GroupCapacity

\* Mutant: operations of different callers may interleave.
NoSerialQueue == TRUE

\* runSerial: an operation starts when no other one runs.
SerialFree == \A c \in Caller : seen[c] = {}

-----------------------------------------------------------------------------
\* Mutant: always from the first group.
FixedPriority(g) == g

\* selectNext: groups are scanned upwards from cursor, cyclically.
Distance(g) == IF g >= cursor THEN g - cursor ELSE g + N - cursor

\* Mutant: the modulus is missing.
CursorRunsOff(g) == g + 1
CursorAfter(g) == IF g = N - 1 THEN 0 ELSE g + 1

\* Mutant: any due event of a group, not only its head.
SelectableAnywhere(events, e) ==
    e \in events /\ e.id \notin backoff /\ e.id \notin attempted

\* A head that is due and that this drain has not tried yet.
Selectable(events, e) ==
    /\ IsHead(events, e)
    /\ e.id \notin backoff
    /\ e.id \notin attempted

\* The instant schedule() is asked for: the head that is due first, or now.
WakeFor(events) ==
    LET heads == {e.id : e \in {o \in events : IsHead(events, o)}}
    IN  IF heads \subseteq backoff THEN heads ELSE {}

\* Mutant: a rejected event is removed and not counted as dropped.
RejectedUncounted(s, e, answer) ==
    IF e \notin s.events THEN s
    ELSE IF answer \in {"acknowledged", "rejected"}
    THEN [events |-> s.events \ {e},
          stats |-> Increment(s.stats, e.group, answer)]
    ELSE [s EXCEPT !.stats = Increment(@, e.group, "retries")]

\* What the operation after a delivery saves, from what it loaded.
Settled(s, e, answer) ==
    IF e \notin s.events THEN s
    ELSE IF answer = "acknowledged"
    THEN [events |-> s.events \ {e},
          stats |-> Increment(s.stats, e.group, "acknowledged")]
    ELSE IF answer = "rejected"
    THEN [events |-> s.events \ {e},
          stats |-> Increment(Increment(s.stats, e.group, "dropped"),
                              e.group, "rejected")]
    ELSE [s EXCEPT !.stats = Increment(@, e.group, "retries")]

NoAlarm == [set |-> FALSE, awaits |-> {}]

-----------------------------------------------------------------------------
Init ==
    /\ stored = [events |-> {}, stats |-> EmptyStats]
    /\ nextId = 1
    /\ seen = [c \in Caller |-> {}]
    /\ arriving = {}
    /\ pc = "idle"
    /\ current = {}
    /\ result = "none"
    /\ attempted = {}
    /\ cursor = 0
    /\ backoff = {}
    /\ wake = {}
    /\ alarm = NoAlarm
    /\ bypassed = [g \in Group |-> 0]
    /\ trouble = [kills |-> 0, restarts |-> 0, faults |-> 0]

\* queueCapturedFrame makes the event of a valid frame and calls enqueue,
\* whose serial operation reads the store.  (Frames that are refused before
\* never become events.)
EnqueueLoad(g) ==
    /\ SerialFree
    /\ nextId <= MaxEvents
    /\ seen' = [seen EXCEPT !["enqueue"] = {stored}]
    /\ arriving' = {[id |-> nextId, group |-> g]}
    /\ nextId' = nextId + 1
    /\ UNCHANGED <<stored, drainVars, backoff, alarm, trouble>>

\* Mutant: an accepted frame starts no drain.
IgnoresDrain == UNCHANGED <<pc, attempted>>

\* drain(): a second call joins the drain that is running.
StartDrain ==
    /\ pc' = IF pc = "idle" THEN "load" ELSE pc
    /\ attempted' = IF pc = "idle" THEN {} ELSE attempted

\* ... and writes it: a full group refuses the event and counts it dropped;
\* only an accepted event makes queueCapturedFrame call drain().
EnqueueSave(s, e) ==
    LET counted == Increment(s.stats, e.group, "produced") IN
    /\ s \in seen["enqueue"]
    /\ e \in arriving
    /\ IF Refused(s.events, e.group)
       THEN /\ stored' = [events |-> s.events,
                          stats |-> Increment(counted, e.group, "dropped")]
            /\ UNCHANGED <<pc, attempted>>
       ELSE /\ stored' = [events |-> s.events \cup {e}, stats |-> counted]
            /\ StartDrain
    /\ seen' = [seen EXCEPT !["enqueue"] = {}]
    /\ arriving' = {}
    /\ UNCHANGED <<nextId, current, result, cursor, backoff, wake, alarm,
                   bypassed, trouble>>

\* The history of round-robin: who could have been selected and was not.
PassOver(chosen) ==
    bypassed' = [g \in Group |->
        IF g # chosen /\ \E e \in InGroup(stored.events, g) :
                             Selectable(stored.events, e)
        THEN bypassed[g] + 1 ELSE 0]

\* One turn of drainLoop: load, then deliver the first selectable head, ...
DrainSelect(e) ==
    /\ pc = "load"
    /\ SerialFree
    /\ Selectable(stored.events, e)
    /\ \A o \in stored.events :
          Selectable(stored.events, o)
              => Distance(e.group) <= Distance(o.group)
    /\ current' = {e}
    /\ attempted' = attempted \cup {e.id}
    /\ cursor' = CursorAfter(e.group)
    /\ PassOver(e.group)
    /\ pc' = "deliver"
    /\ UNCHANGED <<stored, nextId, seen, arriving, result, backoff, wake,
                   alarm, trouble>>

\* ... return when nothing is stored, ...
DrainEmpty ==
    /\ pc = "load"
    /\ SerialFree
    /\ stored.events = {}
    /\ pc' = "idle"
    /\ attempted' = {}
    /\ UNCHANGED <<stored, nextId, seen, arriving, current, result, cursor,
                   backoff, wake, alarm, bypassed, trouble>>

\* ... or, with no head to try, call schedule() for the earliest one.
DrainNothingDue ==
    /\ pc = "load"
    /\ SerialFree
    /\ stored.events # {}
    /\ \A e \in stored.events : ~Selectable(stored.events, e)
    /\ wake' = WakeFor(stored.events)
    /\ pc' = "schedule"
    /\ UNCHANGED <<stored, nextId, seen, arriving, current, result, attempted,
                   cursor, backoff, alarm, bypassed, trouble>>

\* Mutant: no alarm for the next attempt.
AlarmForgotten == alarm' = alarm

\* chrome.alarms.create replaces an alarm of the same name; the drain ends.
SetAlarm == alarm' = [set |-> TRUE, awaits |-> wake]
DrainSchedule ==
    /\ pc = "schedule"
    /\ SetAlarm
    /\ wake' = {}
    /\ pc' = "idle"
    /\ attempted' = {}
    /\ UNCHANGED <<stored, nextId, seen, arriving, current, result, cursor,
                   backoff, bypassed, trouble>>

\* deliver(event): the collector answers, or the fetch fails or times out,
\* which counts as a retryable answer.
DrainAnswer(answer) ==
    /\ pc = "deliver"
    /\ answer = "retry" => stored.stats[Total]["retries"] < MaxRetries
    /\ result' = answer
    /\ pc' = "settle"
    /\ UNCHANGED <<stored, nextId, seen, arriving, current, attempted, cursor,
                   backoff, wake, alarm, bypassed, trouble>>

SettleLoad ==
    /\ pc = "settle"
    /\ SerialFree
    /\ seen' = [seen EXCEPT !["drain"] = {stored}]
    /\ UNCHANGED <<stored, nextId, arriving, drainVars, backoff, alarm,
                   trouble>>

SettleSave(s, e) ==
    /\ s \in seen["drain"]
    /\ e \in current
    /\ stored' = Settled(s, e, result)
    /\ backoff' = IF result = "retry" /\ e \in s.events
                  THEN backoff \cup {e.id} ELSE backoff
    /\ seen' = [seen EXCEPT !["drain"] = {}]
    /\ pc' = "load"
    /\ current' = {}
    /\ result' = "none"
    /\ UNCHANGED <<nextId, arriving, attempted, cursor, wake, alarm, bypassed,
                   trouble>>

-----------------------------------------------------------------------------
\* Time passes the nextAttemptAt of one event.
Ripen(id) ==
    /\ id \in backoff
    /\ backoff' = backoff \ {id}
    /\ wake' = IF id \in wake THEN {} ELSE wake
    /\ alarm' = [alarm EXCEPT !.awaits = IF id \in @ THEN {} ELSE @]
    /\ UNCHANGED <<stored, nextId, seen, arriving, pc, current, result,
                   attempted, cursor, bypassed, trouble>>

\* onAlarm: the browser fires a past alarm once and removes it.
AlarmFires ==
    /\ alarm.set
    /\ alarm.awaits = {}
    /\ alarm' = NoAlarm
    /\ StartDrain
    /\ UNCHANGED <<stored, nextId, seen, arriving, current, result, cursor,
                   backoff, wake, bypassed, trouble>>

\* What a new service worker starts from; storage and alarms outlive it.
FreshWorker ==
    /\ seen' = [c \in Caller |-> {}]
    /\ arriving' = {}
    /\ current' = {}
    /\ result' = "none"
    /\ attempted' = {}
    /\ cursor' = 0
    /\ wake' = {}
    /\ bypassed' = [g \in Group |-> 0]

\* The browser stops the worker; the next event it handles starts a new one.
WorkerKilled ==
    /\ trouble.kills < MaxKills
    /\ trouble' = [trouble EXCEPT !.kills = @ + 1]
    /\ FreshWorker
    /\ pc' = "idle"
    /\ UNCHANGED <<stored, nextId, backoff, alarm>>

\* onStartup and onInstalled drain; the alarm may not survive.
BrowserStart ==
    /\ trouble.restarts < MaxRestarts
    /\ trouble' = [trouble EXCEPT !.restarts = @ + 1]
    /\ FreshWorker
    /\ pc' = "load"
    /\ alarm' = alarm \/ alarm' = NoAlarm
    /\ UNCHANGED <<stored, nextId, backoff>>

\* A chrome API call of the enqueue rejects: the frame is lost, uncounted.
EnqueueThrows ==
    /\ trouble.faults < MaxFaults
    /\ seen["enqueue"] # {}
    /\ trouble' = [trouble EXCEPT !.faults = @ + 1]
    /\ seen' = [seen EXCEPT !["enqueue"] = {}]
    /\ arriving' = {}
    /\ UNCHANGED <<stored, nextId, drainVars, backoff, alarm>>

\* One made by the drain loop, outside deliver's try: drain() rejects and
\* draining is null again.
DrainThrows ==
    /\ trouble.faults < MaxFaults
    /\ pc \in {"load", "settle", "schedule"}
    /\ trouble' = [trouble EXCEPT !.faults = @ + 1]
    /\ seen' = [seen EXCEPT !["drain"] = {}]
    /\ pc' = "idle"
    /\ current' = {}
    /\ result' = "none"
    /\ attempted' = {}
    /\ wake' = {}
    /\ UNCHANGED <<stored, nextId, arriving, cursor, backoff, alarm, bypassed>>

Next ==
    \/ \E g \in Group : EnqueueLoad(g)
    \/ \E s \in seen["enqueue"], e \in arriving : EnqueueSave(s, e)
    \/ \E e \in stored.events : DrainSelect(e)
    \/ DrainEmpty
    \/ DrainNothingDue
    \/ DrainSchedule
    \/ \E answer \in Answer : DrainAnswer(answer)
    \/ SettleLoad
    \/ \E s \in seen["drain"], e \in current : SettleSave(s, e)
    \/ \E id \in backoff : Ripen(id)
    \/ AlarmFires
    \/ WorkerKilled
    \/ BrowserStart
    \/ EnqueueThrows
    \/ DrainThrows

Spec == Init /\ [][Next]_vars

\* A running worker finishes what it has begun, every fetch is cut off after
\* FETCH_TIMEOUT_MS, time passes and the browser fires past alarms.  Frames,
\* kills, restarts and faults are never owed.
Fairness ==
    /\ WF_vars(\E s \in seen["enqueue"], e \in arriving : EnqueueSave(s, e))
    /\ WF_vars(\/ \E e \in stored.events : DrainSelect(e)
               \/ DrainEmpty \/ DrainNothingDue \/ DrainSchedule)
    /\ WF_vars(\E answer \in Answer : DrainAnswer(answer))
    /\ WF_vars(\/ SettleLoad
               \/ \E s \in seen["drain"], e \in current : SettleSave(s, e))
    /\ WF_vars(\E id \in backoff : Ripen(id))
    /\ WF_vars(AlarmFires)

FairSpec == Spec /\ Fairness

-----------------------------------------------------------------------------
\* The store, the running operations, the drain loop and the alarm hold what
\* outbox.ts can put there; cursor stays an index of GROUPS.
TypeOK ==
    /\ stored \in Storage
    /\ nextId \in Nat
    /\ seen \in [Caller -> SUBSET Storage]
    /\ arriving \in SUBSET Event
    /\ pc \in {"idle", "load", "deliver", "settle", "schedule"}
    /\ current \in SUBSET Event
    /\ result \in Answer \cup {"none"}
    /\ attempted \in SUBSET Nat
    /\ cursor \in Group
    /\ backoff \in SUBSET Nat
    /\ wake \in SUBSET Nat
    /\ alarm \in [set : BOOLEAN, awaits : SUBSET Nat]
    /\ bypassed \in [Group -> Nat]
    /\ trouble \in [kills : Nat, restarts : Nat, faults : Nat]

\* Events a statistics row is about.
Pending(events, r) == {e \in events : r \in RowsOf(e.group)}

\* Per pair and in total, every event ever produced is acknowledged, dropped
\* or still stored, and every rejection is one of the drops, whatever
\* operations interleave and wherever the worker dies (DATA_FLOW.md's
\* produced = acknowledged + pending + dropped).
Reconciled ==
    \A r \in Row :
        LET s == stored.stats[r] IN
        /\ s["produced"] = s["acknowledged"] + s["dropped"]
                           + Cardinality(Pending(stored.events, r))
        /\ s["rejected"] <= s["dropped"]

\* Reserved capacity: an event is refused only when its own group is full; a
\* flood in the other groups never costs a pair its slots.
OnlyFullGroupRefuses ==
    [][\A e \in arriving :
          /\ arriving' = {}
          /\ stored'.stats[Total]["dropped"] > stored.stats[Total]["dropped"]
          => Cardinality(InGroup(stored.events, e.group)) >= GroupCapacity]_vars

\* The stored array of a group: numbers are in the order of push.
InArrivalOrder(g) == Sorted({e.id : e \in InGroup(stored.events, g)})

Fifo == INSTANCE FifoGroups
            WITH Item <- 1 .. MaxEvents, Room <- GroupCapacity,
                 contents <- [g \in Group |-> InArrivalOrder(g)]

\* The outbox implements one bounded FIFO per group: retries, settlements, lost
\* answers, kills and failing chrome calls let an event in at the end of its
\* group and out at the front, one at a time, and in no other way.
IsFifo == Fifo!Spec

\* FIFO within a group: what the drain loop is delivering or settling is
\* still stored and is the oldest event of its group, so that nothing
\* overtakes a retrying head even across the awaits of a delivery.
HeadOfLine == \A e \in current : IsHead(stored.events, e)

\* Round-robin: while a group has a due head that this drain has not tried,
\* at most N - 1 other events are selected before it.
BoundedBypass == \A g \in Group : bypassed[g] <= N - 1

\* As long as no worker was killed and no chrome call failed, stored events
\* never lie with neither a running drain nor an alarm to start one.
NoStrandedEvent ==
    trouble.kills = 0 /\ trouble.faults = 0
        => (stored.events # {} /\ pc = "idle" => alarm.set)

\* Every stored event is eventually acknowledged, rejected or dropped, once
\* the collector stops giving retryable answers.
EventuallySettled ==
    \A id \in 1 .. MaxEvents :
        (\E e \in stored.events : e.id = id)
            ~> ~(\E e \in stored.events : e.id = id)

-----------------------------------------------------------------------------
(* The inductive strengthening OutboxProofs works with. *)

\* runSerial: at most one operation runs, and what it has loaded is still
\* what is stored; nobody ever saves a stale copy.
NoStaleOperation ==
    /\ \A c \in Caller : seen[c] \subseteq {stored}
    /\ seen["enqueue"] = {} \/ seen["drain"] = {}
    /\ seen["drain"] # {} => pc = "settle"

\* Arrival numbers grow, so that the newest event never becomes a head while
\* an older one of its group is stored.
Numbered ==
    /\ IsFiniteSet(stored.events)
    /\ \A e \in stored.events \cup arriving : e.id < nextId
    /\ \A e \in arriving : \A o \in stored.events : o.id < e.id

\* A group that was passed over k times is at most N - 1 - k groups ahead of
\* the cursor.
NearCursor == \A g \in Group : bypassed[g] + Distance(g) <= N - 1

OutboxInv ==
    /\ TypeOK
    /\ NoStaleOperation
    /\ Numbered
    /\ HeadOfLine
    /\ Reconciled
    /\ NearCursor
    /\ NoStrandedEvent
=============================================================================
