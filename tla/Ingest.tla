------------------------------- MODULE Ingest -------------------------------
(***************************************************************************)
(* From the outbox to the database: the deliveries of one pair's events,   *)
(* the collector's /ingest/provider handler (main.py), its queue_worker    *)
(* and Pipeline.process (pipeline.py), the adapter's sequence check        *)
(* (adapter.py) and the rows of postgres.py.                               *)
(*                                                                         *)
(* One document session observes one pair; event e is its observation      *)
(* with observation_sequence e, and its event_id.  Quotes are valid and    *)
(* new, and the session holds the pair's lease throughout: what the        *)
(* handler does for a standby document, a 200 without a row, is            *)
(* SourceLease's.  An action is what runs between two awaits, with the     *)
(* database or Redis call it awaited.                                      *)
(*                                                                         *)
(* The browser sends the oldest event only, and gives up on an answer      *)
(* after FETCH_TIMEOUT_MS; the handler runs on, so that several handlers   *)
(* can be at work on the same event.                                       *)
(***************************************************************************)
EXTENDS Integers, Sequences, FiniteSets

CONSTANTS
    Events,          \* number of observations
    Slot,            \* handlers that can be in flight
    QueueSize,       \* slots of the pair's queue
    MaxTimeouts,     \* bound: answers the browser gives up on
    MaxFailures,     \* bound: database and Redis calls that raise
    MaxCrashes,      \* bound: collector crashes, each followed by a restart
    MaxDisconnects   \* bound: calls of adapter.on_disconnect

ASSUME EventsAssumption == Events \in Nat
ASSUME QueueAssumption == QueueSize \in Nat \ {0}
ASSUME BoundsAssumption ==
    {MaxTimeouts, MaxFailures, MaxCrashes, MaxDisconnects} \subseteq Nat

Event == 1 .. Events
None == 0                 \* no sequence known

VARIABLES
    next,         \* head of the browser's outbox; those before are acknowledged
    awaiting,     \* the handler whose answer the browser awaits, if any
    pc,           \* where each handler is
    event,        \* the event it handles
    persisted,    \* its persisted_last_sequence
    queue,        \* handlers whose envelopes wait for the worker
    stage,        \* the await at which queue_worker is
    job,          \* the handler it works for, if any
    makesTick,    \* whether the adapter's output has a tick
    lastSequence, \* the adapter's QuoteState.sequence, None without a state
    raw,          \* events with a row in raw_provider_events
    ticks,        \* rows of price_ticks, by event, oldest first
    latest,       \* event of the latest quote in Redis
    trouble       \* history: how often each kind of disruption happened

vars == <<next, awaiting, pc, event, persisted, queue, stage, job, makesTick,
          lastSequence, raw, ticks, latest, trouble>>
browser == <<next, awaiting>>
worker == <<stage, job, makesTick, lastSequence>>
stores == <<raw, ticks, latest>>

Reading == {"hasRaw", "lastSequence"}
Answered == {"accepted", "duplicate", "failed"}
HandlerState == {"free", "put", "queued"} \cup Reading \cup Answered
Stages == {"storeRaw", "publishRaw", "quality", "storeTick", "publishTick",
           "setLatest"}
Ticked == {ticks[i] : i \in DOMAIN ticks}

-----------------------------------------------------------------------------
Init ==
    /\ next = 1
    /\ awaiting = {}
    /\ pc = [s \in Slot |-> "free"]
    /\ event = [s \in Slot |-> 1]
    /\ persisted = [s \in Slot |-> None]
    /\ queue = <<>>
    /\ stage = "idle"
    /\ job = {}
    /\ makesTick = FALSE
    /\ lastSequence = None
    /\ raw = {}
    /\ ticks = <<>>
    /\ latest = None
    /\ trouble = [timeouts |-> 0, failures |-> 0, crashes |-> 0,
                  disconnects |-> 0]

\* The outbox delivers its head: POST /ingest/provider reaches a handler, whose
\* session has the lease, and which stops at its first await, has_raw.
Send(s) ==
    /\ awaiting = {}
    /\ next \in Event
    /\ pc[s] = "free"
    /\ awaiting' = {s}
    /\ pc' = [pc EXCEPT ![s] = "hasRaw"]
    /\ event' = [event EXCEPT ![s] = next]
    /\ UNCHANGED <<next, persisted, queue, worker, stores, trouble>>

\* Mutant: an error answer acknowledges as well.
AnyAnswerAcknowledges(s) ==
    /\ s \in awaiting
    /\ pc[s] \in Answered
    /\ next' = next + 1
    /\ awaiting' = {}
    /\ pc' = [pc EXCEPT ![s] = "free"]
    /\ UNCHANGED <<event, persisted, queue, worker, stores, trouble>>

\* Any 200 acknowledges the event, duplicate or not; a 5xx keeps it at the
\* head of the outbox for a retry.
Receive(s) ==
    /\ s \in awaiting
    /\ pc[s] \in Answered
    /\ next' = IF pc[s] = "failed" THEN next ELSE next + 1
    /\ awaiting' = {}
    /\ pc' = [pc EXCEPT ![s] = "free"]
    /\ UNCHANGED <<event, persisted, queue, worker, stores, trouble>>

\* The fetch is aborted, or the service worker killed: the event will be
\* sent again while this handler runs on.
GiveUp ==
    /\ awaiting # {}
    /\ trouble.timeouts < MaxTimeouts
    /\ trouble' = [trouble EXCEPT !.timeouts = @ + 1]
    /\ awaiting' = {}
    /\ UNCHANGED <<next, pc, event, persisted, queue, worker, stores>>

\* An answer nobody awaits any more.
Discard(s) ==
    /\ pc[s] \in Answered
    /\ s \notin awaiting
    /\ pc' = [pc EXCEPT ![s] = "free"]
    /\ UNCHANGED <<browser, event, persisted, queue, worker, stores, trouble>>

-----------------------------------------------------------------------------
\* has_raw(event_id)
CheckRaw(s) ==
    /\ pc[s] = "hasRaw"
    /\ pc' = [pc EXCEPT ![s] = IF event[s] \in raw THEN "duplicate"
                               ELSE "lastSequence"]
    /\ UNCHANGED <<browser, event, persisted, queue, worker, stores, trouble>>

\* Mutant: no row reads as a number.
NoRowIsMinusOne == IF ticks = <<>> THEN -1 ELSE ticks[Len(ticks)]

\* last_observation_sequence(document_session_id, instrument): the largest of
\* the rows, as the SQL says, not the last one written.
LargestTick ==
    LET top == {e \in Ticked : \A f \in Ticked : f <= e}
    IN  IF top = {} THEN None ELSE CHOOSE e \in top : TRUE
ReadLastSequence(s) ==
    /\ pc[s] = "lastSequence"
    /\ persisted' = [persisted EXCEPT ![s] = LargestTick]
    /\ pc' = [pc EXCEPT ![s] = "put"]
    /\ UNCHANGED <<browser, event, queue, worker, stores, trouble>>

\* Mutant: the handler answers without awaiting the worker's result.
AnswersEarly(s) ==
    /\ pc[s] = "put"
    /\ Len(queue) < QueueSize
    /\ queue' = Append(queue, s)
    /\ pc' = [pc EXCEPT ![s] = "accepted"]
    /\ UNCHANGED <<browser, event, persisted, worker, stores, trouble>>

\* wait_for(queue.put(...), 0.25): the envelope is queued, or the queue stays
\* full and the handler answers 503.
Put(s) ==
    /\ pc[s] = "put"
    /\ IF Len(queue) < QueueSize
       THEN /\ queue' = Append(queue, s)
            /\ pc' = [pc EXCEPT ![s] = "queued"]
       ELSE /\ pc' = [pc EXCEPT ![s] = "failed"]
            /\ UNCHANGED queue
    /\ UNCHANGED <<browser, event, persisted, worker, stores, trouble>>

\* A database read raises: 500.
ReadFails(s) ==
    /\ pc[s] \in Reading
    /\ trouble.failures < MaxFailures
    /\ trouble' = [trouble EXCEPT !.failures = @ + 1]
    /\ pc' = [pc EXCEPT ![s] = "failed"]
    /\ UNCHANGED <<browser, event, persisted, queue, worker, stores>>

-----------------------------------------------------------------------------
\* Mutant: the comparison lets an equal sequence pass.
AcceptsRepeats(s) == event[s] >= lastSequence

\* The sequence rules of adapter.process: without a state the event must be above
\* the persisted sequence, ...
AbovePersisted(s) == lastSequence = None => event[s] > persisted[s]

\* ... and with one above the last sequence of that, to make a tick.
Accepts(s) == AbovePersisted(s) /\ (lastSequence # None => event[s] > lastSequence)

\* Mutant: the raw row comes after the normalized one, or never.
NormalizesFirst(s) ==
    /\ stage = "idle"
    /\ queue # <<>>
    /\ s = Head(queue)
    /\ queue' = Tail(queue)
    /\ job' = {s}
    /\ stage' = "quality"
    /\ makesTick' = Accepts(s)
    /\ lastSequence' = IF Accepts(s) THEN event[s] ELSE lastSequence
    /\ UNCHANGED <<browser, pc, event, persisted, stores, trouble>>

\* queue.get, and adapter.process before the first await.
Take(s) ==
    /\ stage = "idle"
    /\ queue # <<>>
    /\ s = Head(queue)
    /\ queue' = Tail(queue)
    /\ job' = {s}
    /\ stage' = "storeRaw"
    /\ makesTick' = Accepts(s)
    /\ lastSequence' = IF Accepts(s) THEN event[s] ELSE lastSequence
    /\ UNCHANGED <<browser, pc, event, persisted, stores, trouble>>

StoreRaw(s) ==
    /\ stage = "storeRaw"
    /\ s \in job
    /\ raw' = raw \cup {event[s]}
    /\ stage' = "publishRaw"
    /\ UNCHANGED <<browser, pc, event, persisted, queue, job, makesTick,
                   lastSequence, ticks, latest, trouble>>

PublishRaw ==
    /\ stage = "publishRaw"
    /\ stage' = "quality"
    /\ UNCHANGED <<browser, pc, event, persisted, queue, job, makesTick,
                   lastSequence, stores, trouble>>

\* Mutant: the future is never completed.
ForgetsFuture(s, answer) ==
    stage' = "idle" /\ job' = {} /\ makesTick' = FALSE /\ UNCHANGED pc

\* future.set_result and task_done.
Finish(s, answer) ==
    /\ pc' = [pc EXCEPT ![s] = answer]
    /\ stage' = "idle"
    /\ job' = {}
    /\ makesTick' = FALSE

\* store_quality and publish, for every quality event of the output; a
\* display quote always has one, for the missing provider time.
StoreQuality(s) ==
    /\ stage = "quality"
    /\ s \in job
    /\ IF makesTick
       THEN stage' = "storeTick" /\ UNCHANGED <<pc, job, makesTick>>
       ELSE Finish(s, "accepted")
    /\ UNCHANGED <<browser, event, persisted, queue, lastSequence, stores,
                   trouble>>

\* A fresh tick id: ON CONFLICT never finds an earlier row of the event.
StoreTick(s) ==
    /\ stage = "storeTick"
    /\ s \in job
    /\ ticks' = Append(ticks, event[s])
    /\ stage' = "publishTick"
    /\ UNCHANGED <<browser, pc, event, persisted, queue, job, makesTick,
                   lastSequence, raw, latest, trouble>>

PublishTick ==
    /\ stage = "publishTick"
    /\ stage' = "setLatest"
    /\ UNCHANGED <<browser, pc, event, persisted, queue, job, makesTick,
                   lastSequence, stores, trouble>>

SetLatest(s) ==
    /\ stage = "setLatest"
    /\ s \in job
    /\ latest' = event[s]
    /\ Finish(s, "accepted")
    /\ UNCHANGED <<browser, event, persisted, queue, lastSequence, raw, ticks,
                   trouble>>

\* The awaited call raises: future.set_exception, and the handler answers
\* 500.  What the adapter has learned from the event stays.
StageFails(s) ==
    /\ stage \in Stages
    /\ s \in job
    /\ trouble.failures < MaxFailures
    /\ trouble' = [trouble EXCEPT !.failures = @ + 1]
    /\ Finish(s, "failed")
    /\ UNCHANGED <<browser, event, persisted, queue, lastSequence, stores>>

-----------------------------------------------------------------------------
\* A heartbeat whose observer is not ready, or the expiry of the session,
\* makes the adapter forget it.
Disconnect ==
    /\ trouble.disconnects < MaxDisconnects
    /\ trouble' = [trouble EXCEPT !.disconnects = @ + 1]
    /\ lastSequence' = None
    /\ UNCHANGED <<browser, pc, event, persisted, queue, stage, job, makesTick,
                   stores>>

\* The collector dies, connections break, and it starts again.
Crash ==
    /\ trouble.crashes < MaxCrashes
    /\ trouble' = [trouble EXCEPT !.crashes = @ + 1]
    /\ awaiting' = {}
    /\ pc' = [s \in Slot |-> "free"]
    /\ queue' = <<>>
    /\ stage' = "idle"
    /\ job' = {}
    /\ makesTick' = FALSE
    /\ lastSequence' = None
    /\ UNCHANGED <<next, event, persisted, stores>>

HandlerStep(s) == CheckRaw(s) \/ ReadLastSequence(s) \/ Put(s) \/ Discard(s)
WorkerStep(s) ==
    \/ Take(s) \/ StoreRaw(s) \/ PublishRaw \/ StoreQuality(s)
    \/ StoreTick(s) \/ PublishTick \/ SetLatest(s)

Next ==
    \/ \E s \in Slot : Send(s) \/ Receive(s)
    \/ GiveUp
    \/ \E s \in Slot : HandlerStep(s) \/ ReadFails(s)
    \/ \E s \in Slot : WorkerStep(s) \/ StageFails(s)
    \/ Disconnect
    \/ Crash

Spec == Init /\ [][Next]_vars

\* The event loop runs what is ready, the outbox retries (module Outbox) and
\* answers arrive.
FairSpec ==
    /\ Spec
    /\ WF_vars(\E s \in Slot : Send(s))
    /\ \A s \in Slot : WF_vars(Receive(s))
    /\ \A s \in Slot : WF_vars(HandlerStep(s))
    /\ WF_vars(\E s \in Slot : WorkerStep(s))

-----------------------------------------------------------------------------
\* Browser, handlers, worker and stores hold what their code can put there.
TypeOK ==
    /\ next \in Nat \ {0}
    /\ awaiting \in SUBSET Slot
    /\ pc \in [Slot -> HandlerState]
    /\ event \in [Slot -> Nat]
    /\ persisted \in [Slot -> Nat]
    /\ queue \in Seq(Slot)
    /\ stage \in Stages \cup {"idle"}
    /\ job \in SUBSET Slot
    /\ makesTick \in BOOLEAN
    /\ lastSequence \in Nat
    /\ raw \in SUBSET Nat
    /\ ticks \in Seq(Nat)
    /\ latest \in Nat
    /\ trouble \in [timeouts : Nat, failures : Nat, crashes : Nat,
                    disconnects : Nat]

\* An event the browser was told to forget, of a session that holds the lease,
\* has its raw row, whatever fails, crashes or is given up in between.
AcknowledgedIsDurable == \A e \in 1 .. next - 1 : e \in raw

\* Raw input is stored before normalized output (ARCHITECTURE.md), and what
\* Redis shows as the latest quote is stored.
RawBeforeTick ==
    /\ Ticked \subseteq raw
    /\ latest \in Ticked \cup {None}

\* observation_sequence is strictly increasing in the rows of a session and
\* pair (PRICE_TICK_v0.2.md); in particular no event has two rows.
StrictlyIncreasing ==
    \A i, j \in DOMAIN ticks : i < j => ticks[i] < ticks[j]

\* The same as long as the adapter was never told to forget the session.
StrictWhileConnected == trouble.disconnects = 0 => StrictlyIncreasing

\* Unless a call failed or the collector died, every acknowledged event has its
\* normalized row, or the worker is about to write it, whatever timed out, was
\* sent twice, or met an adapter that forgot the session.
AcknowledgedIsTicked ==
    trouble.failures = 0 /\ trouble.crashes = 0 =>
        \A e \in 1 .. next - 1 :
            \/ e \in Ticked
            \/ makesTick /\ \E s \in job : event[s] = e

Channel == INSTANCE Delivery WITH Last <- Events, head <- next, kept <- raw

\* The deliveries implement the documented at-least-once channel: raw rows come
\* in the order of observation, an event is acknowledged after its own is there,
\* also when a late handler of an earlier attempt stores it or answers, and
\* every event gets there once the browser stops giving up and the calls stop
\* failing.
IsAtLeastOnce == Channel!FairSpec

\* Once everything is acknowledged and the worker is idle, every event has
\* exactly one normalized row: "SQL must retain one raw/normalized row per
\* event ID" (OPERATIONS.md, restart recovery).
OneRowPerEvent ==
    next > Events /\ stage = "idle" /\ queue = <<>>
        => \A e \in Event : Cardinality({i \in DOMAIN ticks : ticks[i] = e}) = 1

-----------------------------------------------------------------------------
(* The inductive strengthening IngestProofs works with. *)

\* A handler's envelope is in one place only: in the queue, once, or with the
\* worker, which has one at a time; meanwhile its slot is not used for another
\* request.
Placed ==
    /\ \A s, t \in job : s = t
    /\ stage \in {"storeTick", "publishTick", "setLatest"} => makesTick
    /\ \A i \in DOMAIN queue : pc[queue[i]] = "queued" /\ queue[i] \notin job
    /\ \A i, j \in DOMAIN queue : queue[i] = queue[j] => i = j
    /\ \A s \in job : pc[s] = "queued"

\* The browser awaits an answer for its head, and a 200 is only given for an
\* event whose raw row exists.
Durable ==
    /\ \A s \in awaiting : event[s] = next
    /\ \A s \in Slot : pc[s] \in {"accepted", "duplicate"} => event[s] \in raw
    /\ \A s \in job : stage \notin {"idle", "storeRaw"} => event[s] \in raw
    /\ \A s \in job : stage \in {"publishTick", "setLatest"}
                         => event[s] \in Ticked

\* While no disconnect happens the adapter's state, or without one each
\* handler's persisted sequence, is up to date with the rows.
UpToDate ==
    trouble.disconnects = 0 =>
        /\ lastSequence # None => \A e \in Ticked : e <= lastSequence
        /\ lastSequence = None =>
              /\ ~makesTick
              /\ \A s \in Slot : pc[s] \in {"put", "queued"}
                    => \A e \in Ticked : e <= persisted[s]
        /\ \A s \in job : makesTick =>
              /\ event[s] = lastSequence
              /\ stage \notin {"publishTick", "setLatest"}
                    => \A e \in Ticked : e < event[s]

\* No handler works on an event that the browser has not reached yet.
Due == \A s \in Slot : pc[s] # "free" => event[s] \in Event /\ event[s] <= next

IngestInv ==
    /\ TypeOK
    /\ Placed
    /\ Durable
    /\ AcknowledgedIsDurable
    /\ RawBeforeTick
    /\ StrictWhileConnected
    /\ UpToDate
=============================================================================
