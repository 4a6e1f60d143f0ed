------------------------------- MODULE Adapter -------------------------------
(***************************************************************************)
(* IcMarketsAdapter (adapter.py): which envelope becomes a tick.  process  *)
(* is synchronous, so that each call is one step.                          *)
(*                                                                         *)
(* A key is a session and a pair.  The sessions in Visible are documents   *)
(* observed by the browser: main.py lets only snapshots with a collector   *)
(* time in.  The others are provider feeds, as replay.py and load_test.py  *)
(* play them, with or without sequences.  Checks that refuse an envelope   *)
(* on its own data (size, syntax, instrument, price range) and warnings    *)
(* that publish anyway (spread, jump) are left out: both leave the state   *)
(* as it is.  Connections are one to one with sessions.                    *)
(***************************************************************************)
EXTENDS Integers, Sequences, FiniteSets, SortedSets

CONSTANTS
    Session, Pair,
    Visible,       \* sessions of visible-DOM documents
    Sequenced,     \* provider feeds that number their messages
    MaxEntries,    \* dedup_cache_max_entries, at least 1
    Ttl,           \* dedup_cache_ttl
    StateMaxAge,   \* partial_state_max_age
    MaxSkew,       \* max_future_skew
    MaxDelay,      \* max_browser_to_collector_delay
    Policies,      \* sets of reject_... settings that a run may start with
    Time,          \* instants the envelopes carry, in any order
    Price,
    MaxSequence,   \* bound: sequences are 1 .. MaxSequence
    MaxTicks       \* bound: ticks

ASSUME SessionAssumption == Visible \cup Sequenced \subseteq Session
ASSUME CacheAssumption == MaxEntries \in Nat \ {0} /\ Ttl \in Nat
ASSUME ValuesAssumption ==
    /\ Time \subseteq Nat /\ Price \subseteq Nat \ {0}
    /\ {StateMaxAge, MaxSkew, MaxDelay, MaxSequence, MaxTicks} \subseteq Nat
    /\ \A policy \in Policies : policy \subseteq {"negative", "excessive", "adjusted"}

None == 0                      \* no side, no sequence
Key == Session \X Pair
Side == {"bid", "ask"}
Sequence == 0 .. MaxSequence
Prices == [Side -> Price]
Identity == [key : Key, order : Time, claimed : BOOLEAN, prices : Prices,
             sequence : Sequence]
Entry == [id : Identity, at : Time]
Quote == [prices : Prices, updated : Time, order : Time, sequence : Sequence]

\* received is envelope.received_at, collected collector_received_at (or
\* received_at), order what event_order_time becomes, claimed whether that is
\* a provider's time; prices of sides that a partial leaves out are None.
Envelope == [key : Key, snapshot : BOOLEAN, prices : [Side -> Price \cup {None}],
             order : Time, claimed : BOOLEAN, received : Time, collected : Time,
             sequence : Sequence, persisted : Sequence]

VARIABLES
    quote,      \* _state: the quote of each key, if it has one
    seen,       \* _seen: identities of ticks, the next one to go first
    policy,     \* the reject_... settings
    published,  \* history: identities of the ticks since the session connected
    made,       \* history: how many ticks there were at all
    carried,    \* history: the price last carried for each side since then
    newest      \* history: the last tick's entry while nothing may remove it

vars == <<quote, seen, policy, published, made, carried, newest>>

Rejects(what) == what \in policy
IsVisible(e) == e.key[1] \in Visible

-----------------------------------------------------------------------------
\* Mutant: only age removes entries.
Unlimited(cache) == cache

\* The second loop of _purge_seen leaves room for one entry.
KeepNewest(cache) ==
    IF Len(cache) < MaxEntries THEN cache
    ELSE SubSeq(cache, Len(cache) - MaxEntries + 2, Len(cache))

\* The first one stops at an entry that is young enough.
DropExpired(cache, now) ==
    LET young == {i \in DOMAIN cache : cache[i].at >= now - Ttl}
    IN  IF young = {} THEN <<>>
        ELSE SubSeq(cache, CHOOSE i \in young : \A j \in young : i <= j, Len(cache))

\* _purge_seen
Purged(cache, now) == KeepNewest(DropExpired(cache, now))

Without(cache, id) == Selected(cache, {i \in DOMAIN cache : cache[i].id # id})
Remembered(cache) == {cache[i].id : i \in DOMAIN cache}

\* Mutant: the new entry is put where the next one to go is.
PutFirst(cache, entry) == <<entry>> \o Without(cache, entry.id)

\* move_to_end, and an assignment to a new key
PutLast(cache, entry) == Append(Without(cache, entry.id), entry)

-----------------------------------------------------------------------------
\* Mutant: a partial is published as it came.
Unmerged(e) == e.prices

\* The quote an envelope makes with the side it leaves out.
Merged(e) ==
    [side \in Side |-> IF e.prices[side] # None THEN e.prices[side]
        ELSE (CHOOSE q \in quote[e.key] : TRUE).prices[side]]

IdOf(e) == [key |-> e.key, order |-> e.order, claimed |-> e.claimed,
            prices |-> Merged(e), sequence |-> e.sequence]

\* A snapshot carries both sides; a partial needs a quote of its session, not
\* too old, for the other one.
Complete(e) ==
    ~e.snapshot =>
        \E q \in quote[e.key] : e.received - q.updated <= StateMaxAge

\* A document's observation has a sequence; as long as the adapter has none
\* to compare it with, it is above the persisted one.
Numbered(e) ==
    IsVisible(e) =>
        /\ e.sequence # None
        /\ e.persisted # None /\ (\A q \in quote[e.key] : q.sequence = None)
              => e.sequence > e.persisted

\* The checks before the identity is looked up.
Admissible(e) ==
    /\ ~IsVisible(e) /\ e.claimed => e.order <= e.received + MaxSkew
    /\ Numbered(e)
    /\ Complete(e)
    /\ Merged(e)["bid"] <= Merged(e)["ask"]

\* Mutant: a sequence may be repeated.
FollowsLoosely(e) ==
    \A q \in quote[e.key] :
        /\ e.sequence # None /\ q.sequence # None => e.sequence >= q.sequence
        /\ e.order < q.order => IsVisible(e) /\ e.sequence # None /\ ~Rejects("adjusted")

\* The checks against the quote before: sequences increase, times do not go
\* back, except for a browser's clock.
Follows(e) ==
    \A q \in quote[e.key] :
        /\ e.sequence # None /\ q.sequence # None => e.sequence > q.sequence
        /\ e.order < q.order => IsVisible(e) /\ e.sequence # None /\ ~Rejects("adjusted")

\* The policy on the delay from browser to collector.
InTime(e) ==
    IsVisible(e) =>
        /\ Rejects("negative") => e.collected >= e.order
        /\ Rejects("excessive") => e.collected - e.order <= MaxDelay

-----------------------------------------------------------------------------
Init ==
    /\ quote = [k \in Key |-> {}]
    /\ seen = <<>>
    /\ policy \in Policies
    /\ published = [k \in Key |-> {}]
    /\ made = 0
    /\ carried = [k \in Key |-> [side \in Side |-> None]]
    /\ newest = {}

\* The history of the last tick, when process is called at this time.
Outlived(now) == newest' = {entry \in newest : entry.at >= now - Ttl}

\* process: no tick, for one of the checks.
Reject(e) ==
    LET cache == Purged(seen, e.collected) IN
    /\ \/ ~Admissible(e)
       \/ /\ Admissible(e)
          /\ IdOf(e) \notin Remembered(cache)
          /\ ~(Follows(e) /\ InTime(e))
    /\ seen' = cache
    /\ Outlived(e.collected)
    /\ UNCHANGED <<quote, policy, published, made, carried>>

\* process: no tick, because it has been made already.
Suppress(e) ==
    LET cache == Purged(seen, e.collected) IN
    /\ Admissible(e)
    /\ \E i \in DOMAIN cache :
          /\ cache[i].id = IdOf(e)
          /\ seen' = PutLast(cache, cache[i])
    /\ Outlived(e.collected)
    /\ UNCHANGED <<quote, policy, published, made, carried>>

\* process: a tick.
Publish(e) ==
    LET cache == Purged(seen, e.collected)
        entry == [id |-> IdOf(e), at |-> e.collected]
    IN
    /\ made < MaxTicks
    /\ Admissible(e)
    /\ IdOf(e) \notin Remembered(cache)
    /\ Follows(e)
    /\ InTime(e)
    /\ seen' = Purged(PutLast(cache, entry), e.collected)
    /\ quote' = [quote EXCEPT ![e.key] =
          {[prices |-> Merged(e), updated |-> e.received, order |-> e.order,
            sequence |-> e.sequence]}]
    /\ published' = [published EXCEPT ![e.key] = @ \cup {IdOf(e)}]
    /\ made' = made + 1
    /\ carried' = [carried EXCEPT ![e.key] =
          [side \in Side |-> IF e.prices[side] # None THEN e.prices[side] ELSE @[side]]]
    /\ newest' = {entry}
    /\ UNCHANGED policy

\* The dedup entries on_disconnect keeps.
OfOthers(s) == Selected(seen, {i \in DOMAIN seen : seen[i].id.key[1] # s})

\* Mutant: only the dedup entries go.
KeepsQuotes(s) == quote

\* The quotes on_disconnect keeps.
QuotesWithout(s) == [k \in Key |-> IF k[1] = s THEN {} ELSE quote[k]]

\* on_disconnect
Disconnect(s) ==
    /\ quote' = QuotesWithout(s)
    /\ seen' = OfOthers(s)
    /\ published' = [k \in Key |-> IF k[1] = s THEN {} ELSE published[k]]
    /\ carried' = [k \in Key |-> IF k[1] = s THEN [side \in Side |-> None]
                                 ELSE carried[k]]
    /\ newest' = {entry \in newest : entry.id.key[1] # s}
    /\ UNCHANGED <<policy, made>>

\* What the callers of process can make of an envelope that its own data does
\* not refuse.
Possible(e) ==
    /\ e.snapshot <=> None \notin {e.prices[side] : side \in Side}
    /\ e.snapshot => e.prices["bid"] <= e.prices["ask"]
    /\ \E side \in Side : e.prices[side] # None
    /\ IF IsVisible(e)
       THEN e.snapshot /\ ~e.claimed /\ e.received = e.order
       ELSE /\ e.collected = e.received
            /\ ~e.claimed => e.order = e.received
            /\ e.sequence # None <=> e.key[1] \in Sequenced
            /\ e.persisted = None

Input == {e \in Envelope : Possible(e)}

Next ==
    \/ \E e \in Input : Reject(e) \/ Suppress(e) \/ Publish(e)
    \/ \E s \in Session : Disconnect(s)

Spec == Init /\ [][Next]_vars

-----------------------------------------------------------------------------
\* The adapter's two tables hold what process puts there.
TypeOK ==
    /\ quote \in [Key -> SUBSET Quote]
    /\ \A k \in Key : Cardinality(quote[k]) <= 1
    /\ seen \in Seq(Entry)
    /\ policy \in Policies
    /\ published \in [Key -> SUBSET Identity]
    /\ made \in 0 .. MaxTicks
    /\ carried \in [Key -> [Side -> Price \cup {None}]]
    /\ newest \in SUBSET Entry

\* "Deduplication is a bounded TTL/LRU cache" (docs/MILESTONE_2_REPORT.md): it
\* stays under its limit and has one entry per identity, whatever order the
\* clocks of callers and the purges come in.
CacheBounded ==
    /\ Len(seen) < MaxEntries
    /\ Cardinality(Remembered(seen)) = Len(seen)

\* What is suppressed as a duplicate was published: an envelope that a check
\* or a policy refused leaves no entry that would suppress it the next time,
\* nor does a session that was disconnected since.
SuppressedWasPublished ==
    \A id \in Remembered(seen) : id \in published[id.key]

\* The dedup cache is sound: bounded, and with no entry for what was refused.
CacheSound == CacheBounded /\ SuppressedWasPublished

\* The last tick is recognised for dedup_cache_ttl after it was collected,
\* unless its session disconnects: other sessions, refused envelopes and
\* duplicates that move to the end never push it out.
NewestRemembered ==
    MaxEntries > 1 => newest \subseteq {seen[i] : i \in DOMAIN seen}

\* While a session stays connected its ticks come in order, also when the cache
\* has forgotten them: a new one has a larger sequence than all before, and,
\* where the browser's clock may not or must not decide, no earlier time.
OrderedTicks ==
    [][made' > made =>
          \A entry \in newest' : \A old \in published[entry.id.key] :
              /\ entry.id.sequence # None => entry.id.sequence > old.sequence
              /\ entry.id.key[1] \notin Visible \/ Rejects("adjusted")
                    => entry.id.order >= old.order]_vars

\* "A partial is published only after safe same-session reconstruction"
\* (docs/contracts/PRICE_TICK_v0.1.md): each side of the quote is the one the
\* session carried last since it connected, in a tick that was published.
SidesCarried ==
    \A k \in Key : \A q \in quote[k] : q.prices = carried[k]
=============================================================================
