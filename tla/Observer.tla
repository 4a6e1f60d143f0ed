------------------------------ MODULE Observer -------------------------------
(***************************************************************************)
(* The part of the bridge that runs in the terminal's document:            *)
(* MultiQuoteObserver (dom-observer.ts) finds one row per pair in the      *)
(* tables of the page, reads it whenever the page changes, and posts       *)
(* quotes and statuses (page-observer.ts) to the content script            *)
(* (content.ts), which forwards quotes and puts the statuses in its        *)
(* heartbeats.                                                             *)
(*                                                                         *)
(* The page belongs to somebody else: it writes, renders anew, removes,    *)
(* restores, moves, shows and hides rows as it likes.  Mutation observers  *)
(* tell of all but the last two, after the task that made them and before  *)
(* the next timer or message; of shown and hidden rows, which are          *)
(* attributes, nobody tells.  Rows are the row elements, numbered in the   *)
(* order in which the document has them at first.                          *)
(***************************************************************************)
EXTENDS Naturals, Sequences, FiniteSets, SortedSets, Functions

CONSTANTS
    Pairs,          \* number of SUPPORTED_INSTRUMENTS, in their order
    Row,            \* row elements
    Orders,         \* the orders that they can come to have in the document
    Text,           \* what the bid and ask cells of a row can say
    Valid,          \* the texts quoteFromCells accepts, of each pair
    None,           \* no row, no text
    InitialPages,   \* the page when the observer starts
    MaxChanges,     \* bound: changes of the page
    MaxPosted       \* bound: the page and the stale timer wait for so many messages

Pair == 1 .. Pairs
Looks == {"shown", "hidden", "inHiddenTable"}
Cell == [label : Pair, text : Text, look : Looks]

ASSUME ObserverAssumption ==
    /\ Pairs \in Nat \ {0}
    /\ Row \subseteq Nat
    /\ Orders \subseteq Injection(Row, Nat)
    /\ None \notin Row \cup Text /\ None \notin Cell
    /\ Valid \in [Pair -> SUBSET Text]
    /\ InitialPages \subseteq [Row -> Cell \cup {None}]
    /\ {MaxChanges, MaxPosted} \subseteq Nat

VARIABLES
    page,           \* each row's symbol, text and looks; None: not in the document
    target,         \* targets: the row read for each pair
    last,           \* lastQuotes
    status,         \* states
    watched,        \* rows the target observer sees the changes of for sure
    replaced,       \* rows whose cells are no longer those last acquired
    unseen,         \* rows shown or hidden since the last acquisition
    place,          \* the order of the rows in the document
    moved,          \* rows in another table than at the last acquisition ...
    orphaned,       \* ... which is no longer in the document
    records,        \* mutation records: none, some, or some of a watched row
    acquireTimer,   \* acquireTimer is set
    posted,         \* window messages not yet delivered
    ready,          \* observerReady of the content script
    pairStatuses,   \* pairStatuses of the content script
    captured,       \* history: the last quote forwarded of each pair
    steady,         \* history: pairs read as displayed and untouched since
    changes         \* bound: changes so far

layout   == <<place, moved, orphaned>>
element  == <<page, watched, replaced, unseen, layout, records, changes>>
observer == <<target, last, status, acquireTimer, posted>>
content  == <<ready, pairStatuses, captured>>
vars == <<element, observer, content, steady>>

Served == {"FOUND", "READY", "STALE"}
PairTargetStatus == Served \cup {"MISSING", "AMBIGUOUS"}

-----------------------------------------------------------------------------
(* Discovery and reading.                                                  *)

\* findQuoteTargets: the visible rows with the pair's symbol and a quote in range
Candidates(p) == {r \in Row : /\ page[r] # None
                              /\ page[r].look = "shown"
                              /\ page[r].label = p
                              /\ page[r].text \in Valid[p]}

Agree(p) == \A r, s \in Candidates(p) : page[r].text = page[s].text

Found(p) == Candidates(p) # {} /\ Agree(p)

\* candidates[0]
First(p) == CHOOSE r \in Candidates(p) : \A s \in Candidates(p) : place[r] <= place[s]

DiscoveryStatus(p) ==
    CASE Candidates(p) = {} -> "MISSING"
      [] Found(p)           -> "FOUND"
      [] OTHER              -> "AMBIGUOUS"

\* Mutant: the format and range of the text are not looked at again.
ReadableOrGone(t, old, p) == t[p] # None /\ page[t[p]] # None

\* readQuote: the row and the cells that were acquired, in the document and
\* visible; the row's symbol and the table's visibility are not looked at again.
Readable(t, old, p) ==
    /\ t[p] # None
    /\ t[p] \notin old
    /\ page[t[p]] # None
    /\ page[t[p]].look # "hidden"
    /\ page[t[p]].text \in Valid[p]

Quote(p, text) == [type |-> "quote", pair |-> p, text |-> text]
PairStatusFrame(s) == [type |-> "status", pairs |-> s]

\* What emitCurrent makes of the targets, quotes and statuses it starts from
Reading(t, old, l, s) ==
    LET lost == {p \in Pair : t[p] # None /\ ~Readable(t, old, p)}
        new  == {p \in Pair : Readable(t, old, p) /\ page[t[p]].text # l[p]}
    IN  [target |-> t,
         lost   |-> lost,
         new    |-> Sorted(new),
         last   |-> [p \in Pair |-> CASE p \in lost -> None
                                      [] p \in new  -> page[t[p]].text
                                      [] OTHER      -> l[p]],
         status |-> [p \in Pair |-> CASE p \in lost -> "MISSING"
                                      [] p \in new  -> "READY"
                                      [] OTHER      -> s[p]],
         steady |-> {p \in Pair : /\ Readable(t, old, p)
                                  /\ Found(p)
                                  /\ t[p] = First(p)}]

\* emitCurrent: the quotes that changed, then the statuses of all pairs
EmitCurrent(reading) ==
    /\ target' = reading.target
    /\ last' = reading.last
    /\ status' = reading.status
    /\ steady' = steady \cup reading.steady
    /\ posted' = posted
          \o [i \in DOMAIN reading.new |-> Quote(reading.new[i], reading.last[reading.new[i]])]
          \o <<PairStatusFrame(reading.status)>>

-----------------------------------------------------------------------------
(* The page.                                                               *)

\* start() is the first acquisition, which is still to come.
Init ==
    /\ page \in InitialPages
    /\ target = [p \in Pair |-> None]
    /\ last = [p \in Pair |-> None]
    /\ status = [p \in Pair |-> "MISSING"]
    /\ watched = {} /\ replaced = {} /\ unseen = {}
    /\ place = [r \in Row |-> r] /\ moved = {} /\ orphaned = {}
    /\ records = "none"
    /\ acquireTimer = TRUE
    /\ posted = <<>>
    /\ ready = FALSE
    /\ pairStatuses = [p \in Pair |-> "MISSING"]
    /\ captured = [p \in Pair |-> None]
    /\ steady = {}
    /\ changes = 0

\* The page replaces row r by cell; pairs shown in r before or after are touched.
Change(r, cell) ==
    /\ changes < MaxChanges
    /\ Len(posted) <= MaxPosted
    /\ page' = [page EXCEPT ![r] = cell]
    /\ changes' = changes + 1
    /\ steady' = {p \in steady : /\ target[p] # r
                                 /\ page[r] # None => page[r].label # p
                                 /\ cell # None => cell.label # p}
    /\ UNCHANGED <<observer, content>>

\* Mutant: text written into a row is noticed only if a target is watched there.
ChildListOnly(r) == IF r \in watched THEN "watched" ELSE records

Recorded(r) ==
    CASE r \in watched -> "watched"
      [] r \notin watched /\ records = "none" -> "some"
      [] OTHER -> records

\* Text is written in place, or the row gets new cells; it may be reused for
\* another symbol.
Write(r, label, text, anew) ==
    /\ page[r] # None
    /\ Change(r, [page[r] EXCEPT !.label = label, !.text = text])
    /\ replaced' = IF anew THEN replaced \cup {r} ELSE replaced
    /\ unseen' = unseen \ {r}
    /\ records' = Recorded(r)
    /\ UNCHANGED <<watched, layout>>

\* The row goes, alone or with an ancestor; what is observed may go with it.
Detach(r) ==
    /\ page[r] # None
    /\ Change(r, None)
    /\ unseen' = unseen \ {r}
    /\ records' = IF records = "none" THEN "some" ELSE records
    /\ UNCHANGED <<watched, replaced, layout>>

\* A row comes, or comes back, to the root it was observed under or elsewhere,
\* in its table; in another one if it is moved in the same task.
Insert(r, cell, elsewhere) ==
    /\ page[r] = None
    /\ Change(r, cell)
    /\ watched' = IF elsewhere THEN watched \ {r} ELSE watched
    /\ records' = IF elsewhere
                  THEN IF records = "none" THEN "some" ELSE records
                  ELSE Recorded(r)
    /\ UNCHANGED <<replaced, unseen, layout>>

\* Under the same root a row moves to another place, in its table, in another one
\* or back.
Move(r, other, order) ==
    /\ page[r] # None
    /\ \A s, u \in Row \ {r} : order[s] < order[u] <=> place[s] < place[u]
    /\ Change(r, page[r])
    /\ place' = order
    /\ moved' = IF other THEN moved \cup {r} ELSE moved \ {r}
    /\ orphaned' = IF other THEN orphaned ELSE orphaned \ {r}
    /\ records' = Recorded(r)
    /\ UNCHANGED <<watched, replaced, unseen>>

\* The table that row r has left goes as well, or comes back.
OldTable(r) ==
    /\ r \in moved
    /\ Change(r, page[r])
    /\ orphaned' = IF r \in orphaned THEN orphaned \ {r} ELSE orphaned \cup {r}
    /\ records' = IF records = "none" THEN "some" ELSE records
    /\ UNCHANGED <<watched, replaced, unseen, place, moved>>

\* An attribute or a style shows or hides the row, or its table: no record.
Show(r, look) ==
    /\ page[r] # None
    /\ look # page[r].look
    /\ Change(r, [page[r] EXCEPT !.look = look])
    /\ unseen' = unseen \cup {r}
    /\ UNCHANGED <<watched, replaced, layout, records>>

-----------------------------------------------------------------------------
(* The observer.                                                           *)

\* The row of a target, or the table it was in, is not in the document.
TargetRemoved == \E p \in Pair :
    target[p] # None /\ (page[target[p]] = None \/ target[p] \in orphaned)

\* Mutant: a conflict is not looked into again.
OnlyMissing == \E p \in Pair : status[p] = "MISSING"

Incomplete == \E p \in Pair : status[p] \notin Served

\* The callbacks of both mutation observers, in one microtask.  The records may
\* be of a root the target observer watches even when no target row has one.
\* Their order does not matter: a pair that is missing but still has a target
\* has set the timer already.
Notified ==
    /\ records # "none"
    /\ records' = "none"
    /\ \/ /\ \E p \in Pair : target[p] # None
          /\ \E reading \in {Reading(target, replaced, last, status)} :
                /\ EmitCurrent(reading)
                /\ acquireTimer' = \/ acquireTimer \/ reading.lost # {}
                                   \/ TargetRemoved \/ Incomplete
       \/ /\ records = "some"
          /\ acquireTimer' = (acquireTimer \/ TargetRemoved \/ Incomplete)
          /\ UNCHANGED <<target, last, status, posted, steady>>
    /\ UNCHANGED <<page, watched, replaced, unseen, layout, changes, content>>

\* Mutant: one pair that cannot be found keeps the others from being used.
AllOrNothing == IF \A p \in Pair : Found(p) THEN Pair ELSE {}

Usable == {p \in Pair : Found(p)}

\* Mutant: every acquisition forgets what was already emitted.
KeepsNothing(t) == {}

\* The pairs whose row, cells and table are those of before and that were served
Kept(t) == {p \in Pair : /\ t[p] = target[p]
                         /\ t[p] \notin replaced \cup moved
                         /\ status[p] \in Served}

\* The acquire timer, or start(): discovery, new targets, their observation, a
\* first reading.
Acquire ==
    /\ acquireTimer
    /\ records = "none"
    /\ \E t \in {[p \in Pair |-> IF p \in Usable THEN First(p) ELSE None]} :
          LET l == [p \in Pair |-> IF t[p] # None /\ p \in Kept(t) THEN last[p] ELSE None]
              s == [p \in Pair |-> IF t[p] # None THEN "FOUND" ELSE DiscoveryStatus(p)]
          IN  /\ \E reading \in {Reading(t, {}, l, s)} :
                    EmitCurrent(reading) /\ acquireTimer' = (reading.lost # {})
              /\ watched' = {t[p] : p \in Pair} \ {None}
    /\ replaced' = {} /\ unseen' = {} /\ moved' = {} /\ orphaned' = {}
    /\ UNCHANGED <<page, place, records, changes, content>>

\* markStale: pairs whose last observation is older than staleAfterMs
MarkStale ==
    /\ records = "none"
    /\ Len(posted) <= MaxPosted
    /\ \E old \in SUBSET {p \in Pair : status[p] = "READY"} \ {{}} :
          status' = [p \in Pair |-> IF p \in old THEN "STALE" ELSE status[p]]
    /\ posted' = Append(posted, PairStatusFrame(status'))
    /\ UNCHANGED <<element, target, last, acquireTimer, content, steady>>

-----------------------------------------------------------------------------
(* The content script.                                                     *)

Receive ==
    /\ posted # <<>>
    /\ records = "none"
    /\ LET frame == Head(posted) IN
       \/ /\ frame.type = "quote"
          /\ ready' = TRUE
          /\ captured' = [captured EXCEPT ![frame.pair] = frame.text]
          /\ UNCHANGED pairStatuses
       \/ /\ frame.type = "status"
          /\ pairStatuses' = frame.pairs
          /\ ready' = \E p \in Pair : frame.pairs[p] \in Served
          /\ UNCHANGED captured
    /\ posted' = Tail(posted)
    /\ UNCHANGED <<element, target, last, status, acquireTimer, steady>>

Next ==
    \/ \E r \in Row, label \in Pair, text \in Text, anew \in BOOLEAN :
          Write(r, label, text, anew)
    \/ \E r \in Row : Detach(r)
    \/ \E r \in Row, cell \in Cell, elsewhere \in BOOLEAN : Insert(r, cell, elsewhere)
    \/ \E r \in Row, other \in BOOLEAN, order \in Orders : Move(r, other, order)
    \/ \E r \in Row : OldTable(r)
    \/ \E r \in Row, look \in Looks : Show(r, look)
    \/ Notified
    \/ Acquire
    \/ MarkStale
    \/ Receive

Spec == Init /\ [][Next]_vars

\* The event loop runs callbacks, timers that are due and delivers messages; the
\* page need not change, nor a pair become stale.
FairSpec == Spec /\ WF_vars(Notified) /\ WF_vars(Acquire) /\ WF_vars(Receive)

-----------------------------------------------------------------------------
(* Properties.                                                             *)

Frame == {Quote(p, text) : p \in Pair, text \in Text}
            \cup [type : {"status"}, pairs : [Pair -> PairTargetStatus]]

\* Every variable keeps its type; nothing but a quote of the pair, in its format
\* and range, is remembered or forwarded for it.
ObserverTypeOK ==
    /\ page \in [Row -> Cell \cup {None}]
    /\ target \in [Pair -> Row \cup {None}]
    /\ \A p \in Pair : {last[p], captured[p]} \subseteq Valid[p] \cup {None}
    /\ {status, pairStatuses} \subseteq [Pair -> PairTargetStatus]
    /\ {watched, replaced, unseen, moved} \subseteq SUBSET Row
    /\ place \in Injection(Row, Nat) /\ orphaned \subseteq moved
    /\ records \in {"none", "some", "watched"}
    /\ {acquireTimer, ready} \subseteq BOOLEAN
    /\ \A i \in DOMAIN posted : posted[i] \in Frame
    /\ steady \subseteq Pair
    /\ changes \in 0 .. MaxChanges

Settled == records = "none" /\ ~acquireTimer /\ posted = <<>>

\* The pair's rows have not been shown or hidden behind the observer's back.
InSight(p) == \A r \in unseen :
    target[p] # r /\ (page[r] # None => page[r].label # p)

\* What a heartbeat says is true of the page.  At any time a heartbeat that
\* serves a pair says that the observer is ready; once nothing is under way, its
\* statuses are the observer's, MISSING means that there is no row, AMBIGUOUS
\* that rows disagree, and a served pair has a row that can be read and whose
\* text is the last quote forwarded (emitCurrent and acquire, dom-observer.ts).
HeartbeatTruth ==
    /\ (\E p \in Pair : pairStatuses[p] \in Served) => ready
    /\ Settled => /\ pairStatuses = status
                  /\ ready => \E p \in Pair : status[p] \in Served
    /\ \A p \in Pair : Settled /\ InSight(p) =>
          CASE status[p] = "MISSING"   -> Candidates(p) = {}
            [] status[p] = "AMBIGUOUS" -> Candidates(p) # {} /\ ~Agree(p)
            [] OTHER -> target[p] \in watched =>
                           /\ Readable(target, replaced, p)
                           /\ captured[p] = page[target[p]].text

\* "Conflicting duplicates mark only that pair AMBIGUOUS.  Missing/malformed rows
\* do not block other pairs" (docs/providers/ic_markets/PROVIDER_DISCOVERY.md:23):
\* a pair whose rows agree and are left alone stays served and read through every
\* loss, conflict and acquisition of the others.
Isolated == \A p \in steady : status[p] \in Served /\ Readable(target, replaced, p)

QuotesOf(p, frames) ==
    Cardinality({i \in DOMAIN frames :
                    frames[i].type = "quote" /\ frames[i].pair = p})

\* "emits only when the displayed bid/ask changes"
\* (docs/adr/ADR-001-ic-markets-collection-method.md:22): a pair whose rows were
\* not touched since they were read emits nothing, whatever acquisitions the
\* other pairs cause.  A row that moved to another table is read there without
\* an acquisition; the next one, whoever causes it, takes it for a new target
\* and emits its quote again.
EmitsOnlyItsOwnChanges ==
    [][\A p \in steady : target[p] \notin moved =>
          QuotesOf(p, posted') <= QuotesOf(p, posted)]_vars

\* The page shows one text for pair p, and the row being read is one of p's,
\* where the observer sees it.
Displayed(p) ==
    /\ Found(p)
    /\ InSight(p)
    /\ target[p] # None /\ page[target[p]] # None
          => /\ target[p] \in watched
             /\ page[target[p]].label = p
             /\ page[target[p]].look # "inHiddenTable"

Forwarded(p) ==
    /\ pairStatuses[p] \in Served
    /\ \A r \in Candidates(p) : captured[p] = page[r].text

\* "Row/table/document replacement triggers bounded reacquisition"
\* (docs/providers/ic_markets/PROVIDER_DISCOVERY.md:25): when the page has come
\* to show a quote for a pair (its changes are bounded), the quote is forwarded
\* and the pair served for good, whatever was removed, rendered anew or written
\* before.
Reacquired == \A p \in Pair : <>[]Displayed(p) => <>[]Forwarded(p)
=============================================================================
