---------------------------- MODULE ObserverProofs ----------------------------
(***************************************************************************)
(* Theorems about Observer, for every number of pairs, any rows and texts, *)
(* and whatever the page does, however often.                              *)
(*                                                                         *)
(* ObserverInv is inductive.  Its parts say what a heartbeat depends on    *)
(* while something is still under way: which quote and status the posted   *)
(* messages will leave behind, what a pair without a row waits for, and    *)
(* what the row of a served pair shows until a record or a timer tells.    *)
(***************************************************************************)
EXTENDS Observer, SequenceLemmas, FiniteSetTheorems

USE ObserverAssumption

-----------------------------------------------------------------------------
(* The invariant.                                                          *)

QuoteFrame == UNION {{Quote(p, text) : text \in Valid[p]} : p \in Pair}
StatusFrame == [type : {"status"}, pairs : [Pair -> PairTargetStatus]]

\* Types, in the form that a step needs: a posted quote is valid for its pair.
Types ==
    /\ page \in [Row -> Cell \cup {None}]
    /\ target \in [Pair -> Row \cup {None}]
    /\ last \in [Pair -> Text \cup {None}]
    /\ captured \in [Pair -> Text \cup {None}]
    /\ \A p \in Pair : {last[p], captured[p]} \subseteq Valid[p] \cup {None}
    /\ status \in [Pair -> PairTargetStatus]
    /\ pairStatuses \in [Pair -> PairTargetStatus]
    /\ watched \in SUBSET Row /\ replaced \in SUBSET Row /\ unseen \in SUBSET Row
    /\ place \in Injection(Row, Nat)
    /\ moved \in SUBSET Row /\ orphaned \subseteq moved
    /\ records \in {"none", "some", "watched"}
    /\ acquireTimer \in BOOLEAN /\ ready \in BOOLEAN
    /\ posted \in Seq(QuoteFrame \cup StatusFrame)
    /\ steady \in SUBSET Pair
    /\ changes \in 0 .. MaxChanges

\* The content script will end up with the observer's statuses.
StatusesArrive ==
    /\ (\E p \in Pair : pairStatuses[p] \in Served) => ready
    /\ IF posted = <<>>
       THEN /\ pairStatuses = status
            /\ ready => \E p \in Pair : status[p] \in Served
       ELSE posted[Len(posted)] = PairStatusFrame(status)

\* From frame i on, or from what is captured (0), the texts of pair p are this one.
Leaves(p, text, i) ==
    /\ IF i = 0 THEN captured[p] = text ELSE posted[i] = Quote(p, text)
    /\ \A j \in 1 .. Len(posted) :
          j > i /\ posted[j].type = "quote" /\ posted[j].pair = p
             => posted[j].text = text

\* ... and with the quote it remembers of each pair.
QuotesArrive ==
    \A p \in Pair : last[p] # None
        => \E i \in 0 .. Len(posted) : Leaves(p, last[p], i)

\* A target whose quote was forgotten is the one that is not served.
ForgottenIsLost ==
    \A p \in Pair : target[p] # None /\ status[p] \notin Served => last[p] = None

\* Without a record or a timer that would cause an acquisition, pairs are without
\* a row for the reason that their status says.
UnservedHasReason ==
    records = "none" /\ ~acquireTimer =>
        \A p \in Pair : InSight(p) =>
            /\ status[p] = "MISSING" => Candidates(p) = {}
            /\ status[p] = "AMBIGUOUS" => Candidates(p) # {} /\ ~Agree(p)

ReadAsShown(p) ==
    /\ Readable(target, replaced, p)
    /\ last[p] = page[target[p]].text

\* Unless a record of a watched row or a timer tells, the row of a served pair
\* shows what was last read, or has gone and left a record.
ServedIsShown ==
    records # "watched" /\ ~acquireTimer =>
        \A p \in Pair :
            status[p] \in Served /\ target[p] \in watched \ unseen =>
                \/ ReadAsShown(p)
                \/ records = "some" /\ page[target[p]] = None

\* A steady pair would be given the row it has, and if that is in the same table,
\* would emit nothing.
SteadyStays ==
    \A p \in steady :
        /\ status[p] \in Served
        /\ ReadAsShown(p)
        /\ Found(p)
        /\ target[p] = First(p)

ObserverInv ==
    /\ Types
    /\ StatusesArrive
    /\ QuotesArrive
    /\ ForgottenIsLost
    /\ UnservedHasReason
    /\ ServedIsShown
    /\ SteadyStays

-----------------------------------------------------------------------------
(* The operators.                                                          *)

LEMMA FrameFacts ==
    /\ \A p \in Pair : \A text \in Valid[p] : Quote(p, text) \in QuoteFrame
    /\ \A f \in QuoteFrame : /\ f.type = "quote" /\ f.pair \in Pair
                             /\ f.text \in Valid[f.pair]
                             /\ f = Quote(f.pair, f.text)
    /\ \A s \in [Pair -> PairTargetStatus] : PairStatusFrame(s) \in StatusFrame
    /\ \A f \in StatusFrame : /\ f.type = "status"
                              /\ f.pairs \in [Pair -> PairTargetStatus]
                              /\ f = PairStatusFrame(f.pairs)
<1>1. \A p \in Pair : \A text \in Valid[p] : Quote(p, text) \in QuoteFrame
  BY DEF QuoteFrame
<1>2. ASSUME NEW f \in QuoteFrame
      PROVE  /\ f.type = "quote" /\ f.pair \in Pair
             /\ f.text \in Valid[f.pair]
             /\ f = Quote(f.pair, f.text)
  <2>1. PICK p \in Pair : \E text \in Valid[p] : f = Quote(p, text)
    BY DEF QuoteFrame
  <2>2. PICK text \in Valid[p] : f = Quote(p, text)
    BY <2>1
  <2>3. f.type = "quote" /\ f.pair = p /\ f.text = text
    BY <2>2 DEF Quote
  <2> QED BY <2>2, <2>3
<1>3. \A s \in [Pair -> PairTargetStatus] : PairStatusFrame(s) \in StatusFrame
  BY DEF StatusFrame, PairStatusFrame
<1>4. ASSUME NEW f \in StatusFrame
      PROVE  /\ f.type = "status"
             /\ f.pairs \in [Pair -> PairTargetStatus]
             /\ f = PairStatusFrame(f.pairs)
  BY DEF StatusFrame, PairStatusFrame
<1> QED BY <1>1, <1>2, <1>3, <1>4

LEMMA TextFacts ==
    /\ \A p \in Pair : Valid[p] \subseteq Text
    /\ None \notin Text /\ None \notin Row
OBVIOUS

\* The first row of some in document order, which is the only one.
LEMMA FirstRow ==
    ASSUME NEW rows \in SUBSET Row, rows # {}, NEW order \in Injection(Row, Nat)
    PROVE  \E r \in rows : \A s \in rows : order[r] <= order[s]
<1>1. PICK r \in rows : TRUE
  OBVIOUS
<1> DEFINE places == {order[s] : s \in rows}
           upTo == {o \in places : o <= order[r]}
<1>2. order \in [Row -> Nat]
  BY DEF Injection
<1>3. places \subseteq Nat /\ order[r] \in places /\ order[r] \in Nat
  BY <1>2
<1> HIDE DEF places
<1>4. upTo \in SUBSET Nat /\ IsFiniteSet(upTo) /\ order[r] \in upTo
  <2>1. IsFiniteSet(0 .. order[r])
    <3>1. \A n \in Nat : IsFiniteSet(0 .. n)
      BY FS_Interval
    <3> QED BY <1>3, <3>1
  <2>2. \A o \in Nat : o <= order[r] => o \in 0 .. order[r]
    BY <1>3
  <2>3. upTo \subseteq 0 .. order[r]
    BY <1>3, <2>2
  <2> QED BY <1>3, <2>1, <2>3, FS_Subset
<1>5. PICK least \in upTo : \A o \in upTo : least <= o
  BY <1>4, LeastElement
<1>6. \A o \in places : least <= o
  BY <1>3, <1>4, <1>5
<1>7. PICK f \in rows : order[f] = least
  BY <1>5 DEF places
<1> QED BY <1>6, <1>7 DEF places

LEMMA OnlyFirst ==
    ASSUME NEW rows \in SUBSET Row, NEW order \in Injection(Row, Nat),
           NEW f \in rows, \A s \in rows : order[f] <= order[s]
    PROVE  (CHOOSE r \in rows : \A s \in rows : order[r] <= order[s]) = f
<1> DEFINE c == CHOOSE r \in rows : \A s \in rows : order[r] <= order[s]
<1>1. c \in rows /\ \A s \in rows : order[c] <= order[s]
  OBVIOUS
<1> HIDE DEF c
<1>2. order[c] = order[f]
  BY <1>1 DEF Injection
<1>3. c = f
  BY <1>1, <1>2 DEF Injection, IsInjective
<1> QED BY <1>3 DEF c

LEMMA FirstCandidate ==
    ASSUME Types, NEW p \in Pair, Found(p)
    PROVE  /\ First(p) \in Candidates(p)
           /\ \A s \in Candidates(p) : place[First(p)] <= place[s]
           /\ First(p) \in Row /\ First(p) # None
<1>1. Candidates(p) \in SUBSET Row /\ Candidates(p) # {}
  BY DEF Found, Candidates
<1>2. \E r \in Candidates(p) : \A s \in Candidates(p) : place[r] <= place[s]
  BY <1>1, FirstRow DEF Types
<1>3. /\ First(p) \in Candidates(p)
      /\ \A s \in Candidates(p) : place[First(p)] <= place[s]
  BY <1>2 DEF First
<1> QED BY <1>1, <1>3, TextFacts

\* A text that was read is a quote of its pair.
LEMMA ReadText ==
    ASSUME Types, NEW p \in Pair, NEW t, NEW old, Readable(t, old, p)
    PROVE  /\ page[t[p]].text \in Valid[p] /\ page[t[p]].text \in Text
           /\ page[t[p]].text # None
           /\ t[p] # None
BY TextFacts DEF Readable

\* The page is the same, and so is all that is found and read in it.
LEMMA SamePage ==
    ASSUME page' = page, NEW p \in Pair
    PROVE  /\ Candidates(p)' = Candidates(p)
           /\ Agree(p)' <=> Agree(p)
           /\ Found(p)' <=> Found(p)
           /\ \A t, old : Readable(t, old, p)' <=> Readable(t, old, p)
<1>1. Candidates(p)' = Candidates(p)
  BY DEF Candidates
<1>2. Agree(p)' <=> Agree(p)
  BY <1>1 DEF Agree
<1>3. Found(p)' <=> Found(p)
  BY <1>1, <1>2 DEF Found
<1>4. \A t, old : Readable(t, old, p)' <=> Readable(t, old, p)
  BY DEF Readable
<1> QED BY <1>1, <1>2, <1>3, <1>4

LEMMA SameFirst ==
    ASSUME page' = page, place' = place, NEW p \in Pair
    PROVE  First(p)' = First(p)
<1>1. Candidates(p)' = Candidates(p)
  BY SamePage
<1> QED BY <1>1 DEF First

LEMMA SameReading ==
    ASSUME page' = page, target' = target, replaced' = replaced, last' = last,
           NEW p \in Pair
    PROVE  ReadAsShown(p)' <=> ReadAsShown(p)
BY DEF ReadAsShown, Readable

LEMMA SteadySame ==
    ASSUME Types, SteadyStays,
           page' = page, place' = place, target' = target, replaced' = replaced,
           last' = last, steady' = steady,
           \A p \in Pair : status[p] \in Served => status'[p] \in Served
    PROVE  SteadyStays'
<1>1. SUFFICES ASSUME NEW p \in steady
               PROVE  /\ status'[p] \in Served
                      /\ ReadAsShown(p)'
                      /\ Found(p)'
                      /\ target'[p] = First(p)'
  BY DEF SteadyStays
<1>2. p \in Pair
  BY DEF Types
<1>3. status[p] \in Served /\ ReadAsShown(p) /\ Found(p)
      /\ target[p] = First(p)
  BY DEF SteadyStays
<1>4. ReadAsShown(p)'
  BY <1>2, <1>3, SameReading
<1>5. Found(p)' /\ First(p)' = First(p)
  BY <1>2, <1>3, SamePage, SameFirst
<1> QED BY <1>2, <1>3, <1>4, <1>5

-----------------------------------------------------------------------------
(* What emitCurrent does.                                                  *)

Lost(t, old) == {p \in Pair : t[p] # None /\ ~Readable(t, old, p)}
New(t, old, l) == {p \in Pair : Readable(t, old, p) /\ page[t[p]].text # l[p]}

\* Quotes and statuses after it, from targets, quotes and statuses before.
LEMMA Emission ==
    ASSUME Types,
           NEW t \in [Pair -> Row \cup {None}], NEW old \in SUBSET Row,
           NEW l \in [Pair -> Text \cup {None}],
           \A p \in Pair : l[p] \in Valid[p] \cup {None},
           NEW s \in [Pair -> PairTargetStatus],
           EmitCurrent(Reading(t, old, l, s))
    PROVE  /\ target' = t
           /\ last' \in [Pair -> Text \cup {None}]
           /\ status' \in [Pair -> PairTargetStatus]
           /\ steady' = steady \cup {p \in Pair : /\ Readable(t, old, p)
                                                /\ Found(p)
                                                /\ t[p] = First(p)}
           /\ \A p \in Lost(t, old) : last'[p] = None /\ status'[p] = "MISSING"
           /\ \A p \in New(t, old, l) :
                 last'[p] = page[t[p]].text /\ status'[p] = "READY"
           /\ \A p \in Pair \ (Lost(t, old) \cup New(t, old, l)) :
                 last'[p] = l[p] /\ status'[p] = s[p]
           /\ \A p \in Pair : last'[p] \in Valid[p] \cup {None}
<1> DEFINE lost == Lost(t, old)
           new == New(t, old, l)
<1>1. /\ target' = t
      /\ last' = [p \in Pair |-> CASE p \in lost -> None
                                   [] p \in new  -> page[t[p]].text
                                   [] OTHER      -> l[p]]
      /\ status' = [p \in Pair |-> CASE p \in lost -> "MISSING"
                                     [] p \in new  -> "READY"
                                     [] OTHER      -> s[p]]
      /\ steady' = steady \cup {p \in Pair : /\ Readable(t, old, p)
                                           /\ Found(p)
                                           /\ t[p] = First(p)}
  BY DEF EmitCurrent, Reading, Lost, New
<1>2. lost \cap new = {}
  BY DEF Lost, New
<1>3. \A p \in new : page[t[p]].text \in Valid[p] /\ page[t[p]].text \in Text
  BY ReadText DEF New
<1>4. \A p \in Pair : s[p] \in PairTargetStatus
  OBVIOUS
<1>5. {"MISSING", "READY"} \subseteq PairTargetStatus
  BY DEF PairTargetStatus, Served
<1> HIDE DEF lost, new
<1>6. \A p \in lost \cap Pair : last'[p] = None /\ status'[p] = "MISSING"
  BY <1>1, <1>2
<1>7. \A p \in new \cap Pair :
         last'[p] = page[t[p]].text /\ status'[p] = "READY"
  BY <1>1, <1>2
<1>8. \A p \in Pair \ (lost \cup new) : last'[p] = l[p] /\ status'[p] = s[p]
  BY <1>1, <1>2
<1>9. \A p \in Pair : last'[p] \in Valid[p] \cup {None}
  BY <1>3, <1>6, <1>7, <1>8
<1>10. \A p \in Pair : last'[p] \in Text \cup {None}
  BY <1>9, TextFacts
<1>11. \A p \in Pair : status'[p] \in PairTargetStatus
  BY <1>4, <1>5, <1>6, <1>7, <1>8
<1>12. last' \in [Pair -> Text \cup {None}]
  BY <1>1, <1>10
<1>13. status' \in [Pair -> PairTargetStatus]
  BY <1>1, <1>11
<1>14. lost \subseteq Pair /\ new \subseteq Pair
  BY DEF lost, new, Lost, New
<1> QED BY <1>1, <1>6, <1>7, <1>8, <1>9, <1>12, <1>13, <1>14 DEF lost, new

\* The frames it posts: n quotes, of the pairs with a new one, then the statuses.
Emitted(n, new) ==
    /\ posted' \in Seq(QuoteFrame \cup StatusFrame)
    /\ Len(posted') = Len(posted) + n + 1
    /\ \A i \in 1 .. Len(posted) : posted'[i] = posted[i]
    /\ \A i \in Len(posted) + 1 .. Len(posted) + n :
          \E p \in new : posted'[i] = Quote(p, last'[p])
    /\ \A p \in new : \E i \in Len(posted) + 1 .. Len(posted) + n :
          posted'[i] = Quote(p, last'[p])
    /\ posted'[Len(posted) + n + 1] = PairStatusFrame(status')

LEMMA EmittedFrames ==
    ASSUME Types,
           NEW t \in [Pair -> Row \cup {None}], NEW old \in SUBSET Row,
           NEW l \in [Pair -> Text \cup {None}],
           \A p \in Pair : l[p] \in Valid[p] \cup {None},
           NEW s \in [Pair -> PairTargetStatus],
           EmitCurrent(Reading(t, old, l, s))
    PROVE  \E n \in Nat : Emitted(n, New(t, old, l))
<1> DEFINE new == New(t, old, l)
           n == Cardinality(new)
           F == QuoteFrame \cup StatusFrame
           quotes == [i \in DOMAIN Sorted(new) |->
                         Quote(Sorted(new)[i], last'[Sorted(new)[i]])]
           status1 == <<PairStatusFrame(status')>>
<1>1. new \in SUBSET Nat /\ IsFiniteSet(new) /\ new \subseteq Pair
  <2>1. Pairs \in Nat /\ IsFiniteSet(1 .. Pairs)
    BY IntervalSize
  <2>2. new \subseteq 1 .. Pairs
    BY DEF New, Pair
  <2>3. IsFiniteSet(new)
    BY <2>1, <2>2, FS_Subset
  <2> QED BY <2>1, <2>2, <2>3 DEF Pair
<1>2. posted' = posted \o quotes \o status1
  <2> DEFINE reading == Reading(t, old, l, s)
  <2>1. reading.new = Sorted(new)
    BY DEF Reading, New
  <2>2. /\ last' = reading.last /\ status' = reading.status
        /\ posted' = posted
              \o [i \in DOMAIN reading.new |->
                     Quote(reading.new[i], reading.last[reading.new[i]])]
              \o <<PairStatusFrame(reading.status)>>
    BY DEF EmitCurrent
  <2> HIDE DEF reading, new
  <2> QED BY <2>1, <2>2
<1>3. /\ \A p \in new : last'[p] \in Valid[p]
      /\ status' \in [Pair -> PairTargetStatus]
  <2>1. \A p \in new : page[t[p]].text \in Valid[p]
    BY ReadText DEF New
  <2>2. \A p \in New(t, old, l) :
           last'[p] = page[t[p]].text /\ status'[p] = "READY"
    BY Emission
  <2>3. status' \in [Pair -> PairTargetStatus]
    BY Emission
  <2> QED BY <2>1, <2>2, <2>3
<1>4. posted \in Seq(F)
  BY DEF Types
<1> HIDE DEF new
<1>5. /\ n \in Nat
      /\ Sorted(new) \in Seq(new) /\ Len(Sorted(new)) = n
      /\ \A i \in 1 .. n : Sorted(new)[i] \in new
  BY <1>1, SortedElements
<1>6. \A p \in new : \E i \in 1 .. n : Sorted(new)[i] = p
  BY <1>1, SortedOnto
<1>7. DOMAIN Sorted(new) = 1 .. n
  BY <1>5, LenProperties
<1>8. \A i \in 1 .. n :
         quotes[i] = Quote(Sorted(new)[i], last'[Sorted(new)[i]])
  BY <1>7
<1> DEFINE list == Sorted(new)
<1> HIDE DEF n, list
<1>9. \A i \in 1 .. n : quotes[i] \in F
  <2>1. ASSUME NEW i \in 1 .. n
        PROVE  quotes[i] \in F
    <3>1. PICK p \in new : p = Sorted(new)[i]
      BY <1>5
    <3>2. Quote(p, last'[p]) \in QuoteFrame
      BY <1>1, <1>3, FrameFacts
    <3> QED BY <1>8, <3>1, <3>2
  <2> QED BY <2>1
<1>10. DOMAIN quotes = 1 .. n
  BY <1>7
<1>11. quotes = [i \in 1 .. n |-> quotes[i]]
  BY <1>7
<1> HIDE DEF quotes
<1>12. quotes \in Seq(F) /\ Len(quotes) = n
  <2> HIDE DEF F
  <2>1. quotes \in [1 .. n -> F]
    BY <1>9, <1>11
  <2>2. quotes \in Seq(F)
    BY <1>5, <2>1
  <2> QED BY <1>5, <1>10, <2>2, LenProperties
<1>13. status1 \in Seq(F) /\ Len(status1) = 1 /\ status1[1] = PairStatusFrame(status')
  <2>1. PairStatusFrame(status') \in F
    BY <1>3, FrameFacts
  <2> DEFINE f == PairStatusFrame(status')
  <2> HIDE DEF f, F
  <2>2. <<f>> \in Seq(F) /\ Len(<<f>>) = 1 /\ <<f>>[1] = f
    BY <2>1 DEF f
  <2> QED BY <2>2 DEF f
<1> HIDE DEF status1, F
<1>14. /\ posted \o quotes \in Seq(F)
       /\ Len(posted \o quotes) = Len(posted) + n
       /\ \A i \in 1 .. Len(posted) : (posted \o quotes)[i] = posted[i]
       /\ \A i \in 1 .. n : (posted \o quotes)[Len(posted) + i] = quotes[i]
  <2>1. Len(posted) \in Nat
    BY <1>4, LenProperties
  <2>2. /\ posted \o quotes \in Seq(F)
        /\ Len(posted \o quotes) = Len(posted) + Len(quotes)
        /\ \A i \in 1 .. Len(posted) + Len(quotes) :
              (posted \o quotes)[i] = IF i <= Len(posted) THEN posted[i]
                                      ELSE quotes[i - Len(posted)]
    BY <1>4, <1>12, ConcatProperties
  <2>3. \A i \in 1 .. n : /\ Len(posted) + i \in 1 .. Len(posted) + n
                          /\ ~ (Len(posted) + i <= Len(posted))
                          /\ Len(posted) + i - Len(posted) = i
    BY <1>5, <2>1
  <2>4. \A i \in 1 .. Len(posted) :
           i \in 1 .. Len(posted) + n /\ i <= Len(posted)
    BY <1>5, <2>1
  <2> QED BY <1>12, <2>2, <2>3, <2>4
<1> DEFINE before == posted \o quotes
<1> HIDE DEF before
<1>15. /\ posted' \in Seq(F)
       /\ Len(posted') = Len(posted) + n + 1
       /\ \A i \in 1 .. Len(posted) + n : posted'[i] = before[i]
       /\ posted'[Len(posted) + n + 1] = PairStatusFrame(status')
  <2>1. Len(posted) \in Nat
    BY <1>4, LenProperties
  <2>2. before \in Seq(F) /\ Len(before) = Len(posted) + n /\ posted' = before \o status1
    BY <1>2, <1>14 DEF before
  <2>3. /\ before \o status1 \in Seq(F)
        /\ Len(before \o status1) = Len(before) + 1
        /\ \A i \in 1 .. Len(before) + 1 :
              (before \o status1)[i] = IF i <= Len(before) THEN before[i]
                                       ELSE status1[i - Len(before)]
    <3>1. /\ before \o status1 \in Seq(F)
          /\ Len(before \o status1) = Len(before) + Len(status1)
          /\ \A i \in 1 .. Len(before) + Len(status1) :
                (before \o status1)[i] = IF i <= Len(before) THEN before[i]
                                         ELSE status1[i - Len(before)]
      <4>1. before \in Seq(F) /\ status1 \in Seq(F)
        BY <1>13, <2>2
      <4> QED BY <4>1, ConcatProperties
    <3> QED BY <1>13, <3>1
  <2>4. /\ \A i \in 1 .. Len(before) : i \in 1 .. Len(before) + 1 /\ i <= Len(before)
        /\ Len(before) + 1 \in 1 .. Len(before) + 1
        /\ ~ (Len(before) + 1 <= Len(before))
        /\ Len(before) + 1 - Len(before) = 1
    BY <1>5, <2>1, <2>2
  <2> QED BY <1>13, <2>2, <2>3, <2>4
<1>16. ASSUME NEW i \in Len(posted) + 1 .. Len(posted) + n
       PROVE  \E p \in new : posted'[i] = Quote(p, last'[p])
  <2>1. /\ Len(posted) \in Nat
        /\ i - Len(posted) \in 1 .. n
        /\ i = Len(posted) + (i - Len(posted))
        /\ i \in 1 .. Len(posted) + n
    BY <1>4, <1>5, LenProperties
  <2>2. posted'[i] = quotes[i - Len(posted)]
    BY <1>14, <1>15, <2>1 DEF before
  <2> QED BY <1>5, <1>8, <2>1, <2>2
<1>17. ASSUME NEW p \in new
       PROVE  \E i \in Len(posted) + 1 .. Len(posted) + n :
                 posted'[i] = Quote(p, last'[p])
  <2>1. PICK i \in 1 .. n : Sorted(new)[i] = p
    BY <1>6
  <2>2. /\ Len(posted) + i \in Len(posted) + 1 .. Len(posted) + n
        /\ Len(posted) + i \in 1 .. Len(posted) + n
    BY <1>4, <1>5, LenProperties
  <2>3. posted'[Len(posted) + i] = Quote(p, last'[p])
    BY <1>8, <1>14, <1>15, <2>1, <2>2 DEF before
  <2> QED BY <2>2, <2>3
<1>18. \A i \in 1 .. Len(posted) : posted'[i] = posted[i]
  <2>1. Len(posted) \in Nat
    BY <1>4, LenProperties
  <2>2. \A i \in 1 .. Len(posted) : i \in 1 .. Len(posted) + n
    BY <1>5, <2>1
  <2> QED BY <1>14, <1>15, <2>2 DEF before
<1>19. Emitted(n, new)
  BY <1>15, <1>16, <1>17, <1>18 DEF Emitted, F
<1> QED BY <1>5, <1>19 DEF new

-----------------------------------------------------------------------------
(* emitCurrent, in an acquisition or after a record.                       *)

\* What both callers give it: quotes that are the last ones or forgotten, and
\* for a steady pair the row that it has.
Consistent(t, old, l, s) ==
    /\ t \in [Pair -> Row \cup {None}]
    /\ old \in SUBSET Row
    /\ l \in [Pair -> Text \cup {None}]
    /\ s \in [Pair -> PairTargetStatus]
    /\ \A p \in Pair :
          /\ l[p] \in {last[p], None}
          /\ t[p] # None /\ s[p] \notin Served => l[p] = None
    /\ \A p \in steady : /\ t[p] = target[p]
                         /\ Readable(t, old, p)
                         /\ s[p] \in Served

\* A target that was not lost is served and was read as it is shown; a steady
\* pair is not lost, and has no new quote if the last one was not forgotten.
LEMMA EmissionReads ==
    ASSUME ObserverInv, NEW t, NEW old, NEW l, NEW s, Consistent(t, old, l, s),
           EmitCurrent(Reading(t, old, l, s))
    PROVE  /\ \A p \in Pair : l[p] \in Valid[p] \cup {None}
           /\ \A p \in Pair : t[p] # None /\ p \notin Lost(t, old) =>
                 /\ Readable(t, old, p)
                 /\ last'[p] = page[t[p]].text
                 /\ status'[p] \in Served
           /\ \A p \in steady : /\ p \notin Lost(t, old)
                                /\ l[p] = last[p] => p \notin New(t, old, l)
<1>1. Types
  BY DEF ObserverInv
<1>2. /\ t \in [Pair -> Row \cup {None}] /\ old \in SUBSET Row
      /\ l \in [Pair -> Text \cup {None}]
      /\ s \in [Pair -> PairTargetStatus]
  BY DEF Consistent
<1>3. \A p \in Pair : l[p] \in Valid[p] \cup {None}
  BY <1>1 DEF Consistent, Types
<1>4. ASSUME NEW p \in Pair, t[p] # None, p \notin Lost(t, old)
      PROVE  /\ Readable(t, old, p)
             /\ last'[p] = page[t[p]].text
             /\ status'[p] \in Served
  <2>1. Readable(t, old, p)
    BY <1>4 DEF Lost
  <2>2. CASE p \in New(t, old, l)
    <3>1. last'[p] = page[t[p]].text /\ status'[p] = "READY"
      BY <1>1, <1>2, <1>3, <2>2, Emission
    <3> QED BY <2>1, <3>1 DEF Served
  <2>3. CASE p \notin New(t, old, l)
    <3>1. p \in Pair \ (Lost(t, old) \cup New(t, old, l))
      BY <1>4, <2>3
    <3>2. last'[p] = l[p] /\ status'[p] = s[p]
      BY <1>1, <1>2, <1>3, <3>1, Emission
    <3>3. page[t[p]].text = l[p]
      BY <2>1, <2>3 DEF New
    <3>4. l[p] # None
      BY <1>1, <2>1, <3>3, ReadText
    <3>5. s[p] \in Served
      BY <1>4, <3>4 DEF Consistent
    <3> QED BY <2>1, <3>2, <3>3, <3>5
  <2> QED BY <2>2, <2>3
<1>5. ASSUME NEW p \in steady
      PROVE  /\ p \notin Lost(t, old)
             /\ l[p] = last[p] => p \notin New(t, old, l)
  <2>1. Readable(t, old, p) /\ t[p] = target[p]
    BY DEF Consistent
  <2>2. last[p] = page[target[p]].text
    BY DEF ObserverInv, SteadyStays, ReadAsShown
  <2> QED BY <2>1, <2>2 DEF New, Lost
<1> QED BY <1>3, <1>4, <1>5

LEMMA EmissionArrives ==
    ASSUME ObserverInv, NEW t, NEW old, NEW l, NEW s, Consistent(t, old, l, s),
           EmitCurrent(Reading(t, old, l, s)), UNCHANGED content
    PROVE  StatusesArrive' /\ QuotesArrive'
<1>1. Types
  BY DEF ObserverInv
<1>2. /\ t \in [Pair -> Row \cup {None}] /\ old \in SUBSET Row
      /\ l \in [Pair -> Text \cup {None}]
      /\ s \in [Pair -> PairTargetStatus]
      /\ \A p \in Pair : l[p] \in Valid[p] \cup {None}
  BY EmissionReads DEF Consistent
<1>3. ready' = ready /\ pairStatuses' = pairStatuses /\ captured' = captured
  BY DEF content
<1>4. PICK n \in Nat : Emitted(n, New(t, old, l))
  BY <1>1, <1>2, EmittedFrames
<1> DEFINE new == New(t, old, l)
<1>5. /\ posted' \in Seq(QuoteFrame \cup StatusFrame)
      /\ Len(posted') = Len(posted) + n + 1
      /\ \A i \in 1 .. Len(posted) : posted'[i] = posted[i]
      /\ \A i \in Len(posted) + 1 .. Len(posted) + n :
            \E p \in new : posted'[i] = Quote(p, last'[p])
      /\ \A p \in new : \E i \in Len(posted) + 1 .. Len(posted) + n :
            posted'[i] = Quote(p, last'[p])
      /\ posted'[Len(posted) + n + 1] = PairStatusFrame(status')
  BY <1>4 DEF Emitted
<1>6. Len(posted) \in Nat
  BY <1>1, LenProperties DEF Types
<1>7. posted' # <<>> /\ posted'[Len(posted')] = PairStatusFrame(status')
  <2>1. Len(posted') # 0
    BY <1>5, <1>6
  <2> QED BY <1>5, <2>1, EmptySeq
<1>8. StatusesArrive'
  BY <1>3, <1>7 DEF ObserverInv, StatusesArrive
<1>9. ASSUME NEW p \in Pair, NEW j \in 1 .. Len(posted'), j > Len(posted),
             posted'[j].type = "quote", posted'[j].pair = p
      PROVE  p \in New(t, old, l) /\ posted'[j].text = last'[p]
  <2>1. j # Len(posted) + n + 1
    BY <1>5, <1>9 DEF PairStatusFrame
  <2>2. j \in Len(posted) + 1 .. Len(posted) + n
    BY <1>5, <1>6, <1>9, <2>1
  <2>3. PICK q \in New(t, old, l) : posted'[j] = Quote(q, last'[q])
    BY <1>5, <2>2
  <2> QED BY <1>9, <2>3 DEF Quote
<1>10. ASSUME NEW p \in Pair, last'[p] # None
      PROVE  \E i \in 0 .. Len(posted') : Leaves(p, last[p], i)'
  <2>1. CASE p \in New(t, old, l)
    <3>1. PICK i \in Len(posted) + 1 .. Len(posted) + n :
             posted'[i] = Quote(p, last'[p])
      BY <1>5, <2>1
    <3>2. i \in 0 .. Len(posted') /\ i # 0 /\ i > Len(posted)
      BY <1>5, <1>6
    <3>3. \A j \in 1 .. Len(posted') : j > i => j > Len(posted)
      BY <1>5, <1>6, <3>2
    <3>4. Leaves(p, last[p], i)'
      BY <1>9, <3>1, <3>2, <3>3 DEF Leaves
    <3> QED BY <3>2, <3>4
  <2>2. CASE p \notin New(t, old, l)
    <3>1. p \notin Lost(t, old)
      BY <1>1, <1>2, <1>10, Emission
    <3>2. p \in Pair \ (Lost(t, old) \cup New(t, old, l))
      BY <2>2, <3>1
    <3>3. last'[p] = l[p]
      BY <1>1, <1>2, <3>2, Emission
    <3>4. last'[p] = last[p]
      BY <1>10, <3>3 DEF Consistent
    <3>5. PICK i \in 0 .. Len(posted) : Leaves(p, last[p], i)
      BY <1>10, <3>4 DEF ObserverInv, QuotesArrive
    <3>6. i \in 0 .. Len(posted')
      BY <1>5, <1>6
    <3>7. IF i = 0 THEN captured'[p] = last'[p]
          ELSE posted'[i] = Quote(p, last'[p])
      BY <1>3, <1>5, <3>4, <3>5 DEF Leaves
    <3>8. ASSUME NEW j \in 1 .. Len(posted'), j > i,
                 posted'[j].type = "quote", posted'[j].pair = p
          PROVE  posted'[j].text = last'[p]
      <4>1. CASE j > Len(posted)
        BY <1>9, <3>8, <4>1
      <4>2. CASE ~ (j > Len(posted))
        <5>1. j \in 1 .. Len(posted) /\ posted'[j] = posted[j]
          BY <1>5, <1>6, <3>8, <4>2
        <5> QED BY <3>4, <3>5, <3>8, <5>1 DEF Leaves
      <4> QED BY <4>1, <4>2
    <3>9. Leaves(p, last[p], i)'
      BY <3>7, <3>8 DEF Leaves
    <3> QED BY <3>6, <3>9
  <2> QED BY <2>1, <2>2
<1>11. QuotesArrive'
  BY <1>10 DEF QuotesArrive
<1> QED BY <1>8, <1>11

\* The parts about targets that nothing but emitCurrent decides.
LEMMA EmissionKeeps ==
    ASSUME ObserverInv, NEW t, NEW old, NEW l, NEW s, Consistent(t, old, l, s),
           EmitCurrent(Reading(t, old, l, s)),
           page' = page, place' = place, replaced' = old
    PROVE  /\ ForgottenIsLost'
           /\ \A p \in Pair : t[p] # None /\ p \notin Lost(t, old) =>
                 ReadAsShown(p)' /\ status'[p] \in Served
           /\ SteadyStays'
<1>1. Types
  BY DEF ObserverInv
<1>2. /\ t \in [Pair -> Row \cup {None}] /\ old \in SUBSET Row
      /\ l \in [Pair -> Text \cup {None}]
      /\ s \in [Pair -> PairTargetStatus]
      /\ \A p \in Pair : l[p] \in Valid[p] \cup {None}
  BY EmissionReads DEF Consistent
<1>3. target' = t
      /\ steady' = steady \cup {p \in Pair : /\ Readable(t, old, p)
                                           /\ Found(p)
                                           /\ t[p] = First(p)}
  BY <1>1, <1>2, Emission
<1>4. ASSUME NEW p \in Pair, t[p] # None, p \notin Lost(t, old)
      PROVE  ReadAsShown(p)' /\ status'[p] \in Served
  <2>1. /\ Readable(t, old, p) /\ last'[p] = page[t[p]].text
        /\ status'[p] \in Served
    BY <1>4, EmissionReads
  <2>2. Readable(target, replaced, p)' <=> Readable(t, old, p)
    BY <1>3 DEF Readable
  <2> QED BY <1>3, <2>1, <2>2 DEF ReadAsShown, Readable
<1>5. ASSUME NEW p \in Pair, target'[p] # None, status'[p] \notin Served
      PROVE  last'[p] = None
  <2>1. p \in Lost(t, old)
    BY <1>3, <1>4, <1>5
  <2> QED BY <1>1, <1>2, <2>1, Emission
<1>6. ForgottenIsLost'
  BY <1>5 DEF ForgottenIsLost
<1>7. ASSUME NEW p \in steady'
      PROVE  /\ status'[p] \in Served
             /\ ReadAsShown(p)'
             /\ Found(p)'
             /\ target'[p] = First(p)'
  <2>1. p \in Pair /\ Readable(t, old, p)
    BY <1>1, <1>3, <1>7 DEF Consistent, Types
  <2>2. Found(p) /\ t[p] = First(p)
    BY <1>3, <1>7 DEF ObserverInv, SteadyStays, Consistent
  <2>3. t[p] # None /\ p \notin Lost(t, old)
    BY <2>1 DEF Readable, Lost
  <2>4. First(p)' = First(p) /\ (Found(p)' <=> Found(p))
    BY <2>1, SamePage, SameFirst
  <2> QED BY <1>3, <1>4, <2>1, <2>2, <2>3, <2>4
<1>8. SteadyStays'
  BY <1>7 DEF SteadyStays
<1> QED BY <1>4, <1>6, <1>8

-----------------------------------------------------------------------------
(* The page.                                                               *)

PageChange(r) ==
    \/ \E label \in Pair, text \in Text, anew \in BOOLEAN : Write(r, label, text, anew)
    \/ Detach(r)
    \/ \E cell \in Cell, elsewhere \in BOOLEAN : Insert(r, cell, elsewhere)
    \/ \E other \in BOOLEAN, order \in Orders : Move(r, other, order)
    \/ OldTable(r)
    \/ \E look \in Looks : Show(r, look)

\* What nobody tells of is only that a row with a symbol is shown or hidden ...
Untold(r, cell) ==
    /\ records' = records /\ unseen' = unseen \cup {r} /\ watched' = watched
    /\ page[r] # None /\ cell # None /\ cell.label = page[r].label

\* ... a record of something else is left when only the row's old table goes or
\* comes back, ...
Beside(r, cell) ==
    /\ records' # "none" /\ (records = "watched" => records' = "watched")
    /\ unseen' = unseen /\ watched' = watched /\ replaced' = replaced
    /\ cell = page[r]

\* ... and otherwise a watched row leaves a record of itself unless it is gone.
Told(r, cell) ==
    /\ records' # "none" /\ (records = "watched" => records' = "watched")
    /\ unseen \ {r} \subseteq unseen'
    /\ watched' \subseteq watched
    /\ r \in watched' => records' = "watched" \/ cell = None

\* The other rows keep their order.
OthersInOrder(r) ==
    \A s, u \in Row \ {r} : place'[s] < place'[u] <=> place[s] < place[u]

\* Every change of the page is one of a row's cell and of where rows are.
Changed(r, cell) ==
    /\ Change(r, cell)
    /\ Untold(r, cell) \/ Beside(r, cell) \/ Told(r, cell)
    /\ replaced' \in {replaced, replaced \cup {r}}
    /\ watched' \in SUBSET Row /\ unseen' \in SUBSET Row
    /\ records' \in {"none", "some", "watched"}
    /\ place' \in Injection(Row, Nat) /\ OthersInOrder(r)
    /\ moved' \in SUBSET Row /\ orphaned' \subseteq moved'

LEMMA PageChanges ==
    ASSUME Types, NEW r \in Row, PageChange(r)
    PROVE  \E cell \in Cell \cup {None} : Changed(r, cell)
<1>1. /\ page \in [Row -> Cell \cup {None}]
      /\ page[r] \in Cell \cup {None}
      /\ watched \in SUBSET Row /\ unseen \in SUBSET Row
      /\ records \in {"none", "some", "watched"}
  BY DEF Types
<1>2. /\ Recorded(r) \in {"some", "watched"}
      /\ r \in watched => Recorded(r) = "watched"
      /\ records = "watched" => Recorded(r) = "watched"
  <2>1. CASE r \in watched
    BY <2>1 DEF Recorded
  <2>2. CASE r \notin watched
    BY <1>1, <2>2 DEF Recorded
  <2> QED BY <2>1, <2>2
<1>3. ASSUME UNCHANGED layout
      PROVE  /\ place' \in Injection(Row, Nat) /\ OthersInOrder(r)
             /\ moved' \in SUBSET Row /\ orphaned' \subseteq moved'
  BY <1>3 DEF layout, Types, OthersInOrder
<1>4. ASSUME NEW label \in Pair, NEW text \in Text, NEW anew \in BOOLEAN,
             Write(r, label, text, anew)
      PROVE  \E cell \in Cell \cup {None} : Changed(r, cell)
  <2> DEFINE cell == [page[r] EXCEPT !.label = label, !.text = text]
  <2>1. cell \in Cell
    BY <1>1, <1>4 DEF Write, Cell
  <2>2. Change(r, cell) /\ records' = Recorded(r) /\ unseen' = unseen \ {r}
        /\ watched' = watched /\ replaced' \in {replaced, replaced \cup {r}}
        /\ UNCHANGED layout
    BY <1>4 DEF Write
  <2> HIDE DEF cell
  <2>3. Told(r, cell)
    BY <1>2, <2>2 DEF Told
  <2> QED BY <1>1, <1>2, <1>3, <2>1, <2>2, <2>3 DEF Changed
<1>5. ASSUME Detach(r)
      PROVE  Changed(r, None)
  <2>1. /\ Change(r, None) /\ Told(r, None)
        /\ replaced' = replaced
        /\ watched' \in SUBSET Row /\ unseen' \in SUBSET Row
        /\ records' \in {"none", "some", "watched"}
        /\ UNCHANGED layout
    BY <1>1, <1>5 DEF Detach, Told
  <2> QED BY <1>3, <2>1 DEF Changed
<1>6. ASSUME NEW cell \in Cell, NEW elsewhere \in BOOLEAN,
             Insert(r, cell, elsewhere)
      PROVE  Changed(r, cell)
  <2>1. /\ Change(r, cell) /\ Told(r, cell)
        /\ replaced' = replaced
        /\ watched' \in SUBSET Row /\ unseen' \in SUBSET Row
        /\ records' \in {"none", "some", "watched"}
        /\ UNCHANGED layout
    BY <1>1, <1>2, <1>6 DEF Insert, Told
  <2> QED BY <1>3, <2>1 DEF Changed
<1>7. ASSUME NEW other \in BOOLEAN, NEW order \in Orders, Move(r, other, order)
      PROVE  Changed(r, page[r])
  <2>1. /\ Change(r, page[r]) /\ records' = Recorded(r)
        /\ unseen' = unseen /\ watched' = watched /\ replaced' = replaced
        /\ place' = order
        /\ \A s, u \in Row \ {r} : order[s] < order[u] <=> place[s] < place[u]
        /\ moved' = IF other THEN moved \cup {r} ELSE moved \ {r}
        /\ orphaned' = IF other THEN orphaned ELSE orphaned \ {r}
    BY <1>7 DEF Move
  <2>2. Told(r, page[r])
    BY <1>2, <2>1 DEF Told
  <2>3. order \in Injection(Row, Nat)
    OBVIOUS
  <2>4. moved' \in SUBSET Row /\ orphaned' \subseteq moved'
    BY <2>1 DEF Types
  <2> QED BY <1>1, <1>2, <2>1, <2>2, <2>3, <2>4 DEF Changed, OthersInOrder
<1>8. ASSUME OldTable(r)
      PROVE  Changed(r, page[r])
  <2>1. /\ Change(r, page[r]) /\ r \in moved
        /\ records' = IF records = "none" THEN "some" ELSE records
        /\ unseen' = unseen /\ watched' = watched /\ replaced' = replaced
        /\ place' = place /\ moved' = moved
        /\ orphaned' \subseteq orphaned \cup {r}
    BY <1>8 DEF OldTable
  <2>2. Beside(r, page[r])
    BY <1>1, <2>1 DEF Beside
  <2>3. /\ place' \in Injection(Row, Nat) /\ OthersInOrder(r)
        /\ moved' \in SUBSET Row /\ orphaned' \subseteq moved'
    BY <2>1 DEF Types, OthersInOrder
  <2> QED BY <1>1, <2>1, <2>2, <2>3 DEF Changed
<1>9. ASSUME NEW look \in Looks, Show(r, look)
      PROVE  \E cell \in Cell \cup {None} : Changed(r, cell)
  <2> DEFINE cell == [page[r] EXCEPT !.look = look]
  <2>1. page[r] \in Cell /\ page[r] # None
    BY <1>1, <1>9 DEF Show
  <2>2. cell \in Cell /\ cell.label = page[r].label
    BY <2>1 DEF Cell
  <2>3. Change(r, cell) /\ records' = records /\ unseen' = unseen \cup {r}
        /\ watched' = watched /\ replaced' = replaced /\ UNCHANGED layout
    BY <1>9 DEF Show
  <2> HIDE DEF cell
  <2>4. Untold(r, cell)
    BY <2>1, <2>2, <2>3 DEF Untold
  <2> QED BY <1>1, <1>3, <2>2, <2>3, <2>4 DEF Changed
<1> QED BY <1>1, <1>4, <1>5, <1>6, <1>7, <1>8, <1>9 DEF PageChange

\* Pairs that a change does not touch: those with other targets, ...
LEMMA OtherTarget ==
    ASSUME Types, NEW r \in Row, NEW cell \in Cell \cup {None}, Change(r, cell),
           replaced' \in {replaced, replaced \cup {r}},
           NEW p \in Pair, target[p] # r
    PROVE  /\ Readable(target, replaced, p)' <=> Readable(target, replaced, p)
           /\ target[p] # None => page'[target[p]] = page[target[p]]
           /\ ReadAsShown(p)' <=> ReadAsShown(p)
<1>1. /\ page \in [Row -> Cell \cup {None}]
      /\ page' = [page EXCEPT ![r] = cell]
      /\ target' = target /\ last' = last
      /\ target[p] \in Row \cup {None}
  BY DEF Types, Change, observer
<1>2. target[p] # None => page'[target[p]] = page[target[p]]
  BY <1>1
<1>3. target[p] \in replaced' <=> target[p] \in replaced
  OBVIOUS
<1>4. Readable(target, replaced, p)' <=> Readable(target, replaced, p)
  BY <1>1, <1>2, <1>3 DEF Readable
<1>5. ReadAsShown(p)' <=> ReadAsShown(p)
  <2>1. CASE target[p] = None
    BY <1>1, <2>1 DEF ReadAsShown, Readable
  <2>2. CASE target[p] # None
    BY <1>1, <1>2, <1>4, <2>2 DEF ReadAsShown
  <2> QED BY <2>1, <2>2
<1> QED BY <1>2, <1>4, <1>5

\* ... and those with another symbol.
LEMMA OtherLabel ==
    ASSUME Types, NEW r \in Row, NEW cell \in Cell \cup {None}, Change(r, cell),
           place' \in Injection(Row, Nat), OthersInOrder(r),
           NEW p \in Pair,
           page[r] # None => page[r].label # p,
           cell # None => cell.label # p
    PROVE  /\ Candidates(p)' = Candidates(p)
           /\ Agree(p)' <=> Agree(p)
           /\ Found(p)' <=> Found(p)
           /\ Found(p) => First(p)' = First(p)
<1>1. /\ page \in [Row -> Cell \cup {None}]
      /\ page' = [page EXCEPT ![r] = cell]
  BY DEF Types, Change
<1>2. \A o \in Row : page'[o] = IF o = r THEN cell ELSE page[o]
  BY <1>1
<1>3. r \notin Candidates(p) /\ r \notin Candidates(p)'
  BY <1>2 DEF Candidates
<1>4. \A o \in Row \ {r} : o \in Candidates(p)' <=> o \in Candidates(p)
  BY <1>2 DEF Candidates
<1>5. Candidates(p) \subseteq Row /\ Candidates(p)' \subseteq Row
  BY DEF Candidates
<1>6. Candidates(p)' = Candidates(p)
  <2> DEFINE now == Candidates(p)
             after == Candidates(p)'
  <2>1. now \subseteq Row /\ after \subseteq Row /\ r \notin now /\ r \notin after
        /\ \A o \in Row \ {r} : o \in after <=> o \in now
    BY <1>3, <1>4, <1>5
  <2> HIDE DEF now, after
  <2>2. \A o : o \in now <=> o \in after
    BY <2>1
  <2>3. now = after
    BY <2>2
  <2> QED BY <2>3 DEF now, after
<1>7. \A o \in Candidates(p) : page'[o] = page[o]
  BY <1>2, <1>3, <1>5
<1>8. Agree(p)' <=> Agree(p)
  BY <1>6, <1>7 DEF Agree
<1>9. ASSUME Found(p)
      PROVE  First(p)' = First(p)
  <2> DEFINE f == First(p)
  <2>1. f \in Candidates(p) /\ \A o \in Candidates(p) : place[f] <= place[o]
    BY <1>9, FirstCandidate
  <2> HIDE DEF f
  <2>2. \A o \in Candidates(p) : place'[f] <= place'[o]
    <3>1. ASSUME NEW o \in Candidates(p)
          PROVE  place'[f] <= place'[o]
      <4>1. o \in Row \ {r} /\ f \in Row \ {r}
        BY <1>3, <1>5, <2>1
      <4>2. /\ place[f] \in Nat /\ place[o] \in Nat
            /\ place'[f] \in Nat /\ place'[o] \in Nat
        BY <4>1 DEF Types, Injection
      <4>3. ~(place[o] < place[f])
        BY <2>1, <4>2
      <4>4. ~(place'[o] < place'[f])
        BY <4>1, <4>3 DEF OthersInOrder
      <4> QED BY <4>2, <4>4
    <3> QED BY <3>1
  <2>3. (CHOOSE o \in Candidates(p) : \A u \in Candidates(p) : place'[o] <= place'[u]) = f
    <3> DEFINE rows == Candidates(p)
               order == place'
    <3>1. rows \in SUBSET Row /\ order \in Injection(Row, Nat) /\ f \in rows
          /\ \A o \in rows : order[f] <= order[o]
      BY <1>5, <2>1, <2>2
    <3> HIDE DEF rows, order
    <3>2. (CHOOSE o \in rows : \A u \in rows : order[o] <= order[u]) = f
      BY <3>1, OnlyFirst
    <3> QED BY <3>2 DEF rows, order
  <2>4. First(p)' = CHOOSE o \in Candidates(p)' :
                       \A u \in Candidates(p)' : place'[o] <= place'[u]
    BY DEF First
  <2>5. First(p)' = f
    BY <1>6, <2>3, <2>4
  <2> QED BY <2>5 DEF f
<1> QED BY <1>6, <1>8, <1>9 DEF Found

LEMMA PageTypes ==
    ASSUME Types, NEW r \in Row, PageChange(r)
    PROVE  Types'
<1>1. PICK cell \in Cell \cup {None} :
         /\ Change(r, cell)
         /\ replaced' \in {replaced, replaced \cup {r}}
         /\ watched' \in SUBSET Row /\ unseen' \in SUBSET Row
         /\ records' \in {"none", "some", "watched"}
         /\ place' \in Injection(Row, Nat)
         /\ moved' \in SUBSET Row /\ orphaned' \subseteq moved'
  BY PageChanges DEF Changed
<1>2. /\ page' = [page EXCEPT ![r] = cell]
      /\ changes < MaxChanges /\ changes' = changes + 1
      /\ steady' \subseteq steady
      /\ target' = target /\ last' = last /\ status' = status
      /\ acquireTimer' = acquireTimer /\ posted' = posted
      /\ ready' = ready /\ pairStatuses' = pairStatuses
      /\ captured' = captured
  BY <1>1 DEF Change, observer, content
<1>3. page' \in [Row -> Cell \cup {None}]
  BY <1>2 DEF Types
<1>4. changes' \in 0 .. MaxChanges
  BY <1>2 DEF Types
<1>5. replaced' \in SUBSET Row /\ steady' \in SUBSET Pair
  BY <1>1, <1>2 DEF Types
<1> QED BY <1>1, <1>2, <1>3, <1>4, <1>5 DEF Types

\* Whatever the page does, records tell of it or it is not in sight.
LEMMA PageKeeps ==
    ASSUME ObserverInv, NEW r \in Row, PageChange(r)
    PROVE  ObserverInv'
<1>1. Types /\ Types'
  BY PageTypes DEF ObserverInv
<1>2. PICK cell \in Cell \cup {None} :
         /\ Change(r, cell)
         /\ Untold(r, cell) \/ Beside(r, cell) \/ Told(r, cell)
         /\ replaced' \in {replaced, replaced \cup {r}}
         /\ place' \in Injection(Row, Nat) /\ OthersInOrder(r)
  BY <1>1, PageChanges DEF Changed
<1>3. /\ target' = target /\ last' = last /\ status' = status
      /\ acquireTimer' = acquireTimer /\ posted' = posted
      /\ ready' = ready /\ pairStatuses' = pairStatuses
      /\ captured' = captured
      /\ page' = [page EXCEPT ![r] = cell]
      /\ steady' = {p \in steady : /\ target[p] # r
                                   /\ page[r] # None => page[r].label # p
                                   /\ cell # None => cell.label # p}
  BY <1>2 DEF Change, observer, content
<1>4. page'[r] = cell
  BY <1>1, <1>3 DEF Types
<1>5. StatusesArrive'
  BY <1>3 DEF ObserverInv, StatusesArrive
<1>6. QuotesArrive'
  BY <1>3 DEF ObserverInv, QuotesArrive, Leaves
<1>7. ForgottenIsLost'
  BY <1>3 DEF ObserverInv, ForgottenIsLost
<1>8. UnservedHasReason'
  <2>1. SUFFICES ASSUME records' = "none", ~acquireTimer',
                        NEW p \in Pair, InSight(p)'
                 PROVE  /\ status'[p] = "MISSING" => Candidates(p)' = {}
                        /\ status'[p] = "AMBIGUOUS"
                              => Candidates(p)' # {} /\ ~Agree(p)'
    BY DEF UnservedHasReason
  <2>2. Untold(r, cell)
    BY <1>2, <2>1 DEF Told, Beside
  <2>3. target[p] # r /\ page[r].label # p /\ cell.label # p
    BY <1>3, <1>4, <2>1, <2>2 DEF InSight, Untold
  <2>4. ASSUME NEW o \in unseen
        PROVE  target[p] # o /\ (page[o] # None => page[o].label # p)
    <3>1. CASE o = r
      BY <2>3, <3>1
    <3>2. CASE o # r
      <4>1. o \in unseen' /\ o \in Row
        BY <1>1, <2>2 DEF Untold, Types
      <4>2. page'[o] = page[o]
        BY <1>1, <1>3, <3>2, <4>1 DEF Types
      <4> QED BY <1>3, <2>1, <4>1, <4>2 DEF InSight
    <3> QED BY <3>1, <3>2
  <2>5. InSight(p)
    BY <2>4 DEF InSight
  <2>6. Candidates(p)' = Candidates(p) /\ (Agree(p)' <=> Agree(p))
    BY <1>1, <1>2, <2>3, OtherLabel
  <2>7. records = "none" /\ ~acquireTimer
    BY <1>3, <2>1, <2>2 DEF Untold
  <2> QED BY <1>3, <2>5, <2>6, <2>7 DEF ObserverInv, UnservedHasReason
<1>9. ServedIsShown'
  <2>1. SUFFICES ASSUME records' # "watched", ~acquireTimer', NEW p \in Pair,
                        status'[p] \in Served, target'[p] \in watched' \ unseen'
                 PROVE  \/ ReadAsShown(p)'
                        \/ records' = "some" /\ page'[target'[p]] = None
    BY DEF ServedIsShown
  <2>2. CASE target[p] = r
    <3>1. CASE Told(r, cell)
      <4>1. cell = None
        BY <1>3, <2>1, <2>2, <3>1 DEF Told
      <4>2. records' = "some"
        BY <1>1, <2>1, <3>1 DEF Told, Types
      <4> QED BY <1>3, <1>4, <2>2, <4>1, <4>2
    <3>2. CASE Beside(r, cell)
      <4>1. page' = page /\ replaced' = replaced /\ records' = "some"
        BY <1>1, <1>3, <2>1, <3>2 DEF Beside, Types
      <4>2. /\ records # "watched" /\ ~acquireTimer
            /\ status[p] \in Served /\ target[p] \in watched \ unseen
        BY <1>3, <2>1, <3>2 DEF Beside
      <4>3. \/ ReadAsShown(p)
            \/ records = "some" /\ page[target[p]] = None
        BY <4>2 DEF ObserverInv, ServedIsShown
      <4> QED BY <1>3, <4>1, <4>3, SameReading
    <3>3. CASE Untold(r, cell)
      BY <1>3, <2>1, <2>2, <3>3 DEF Untold
    <3> QED BY <1>2, <3>1, <3>2, <3>3
  <2>3. CASE target[p] # r
    <3>1. /\ records # "watched" /\ ~acquireTimer
          /\ target[p] \in watched \ unseen
          /\ records = "some" => records' = "some"
      BY <1>1, <1>2, <1>3, <2>1, <2>3 DEF Told, Untold, Beside, Types
    <3>2. \/ ReadAsShown(p)
          \/ records = "some" /\ page[target[p]] = None
      BY <1>3, <2>1, <3>1 DEF ObserverInv, ServedIsShown
    <3>3. target[p] # None
      BY <1>1, <3>1, TextFacts DEF Types
    <3> QED BY <1>1, <1>2, <1>3, <2>3, <3>1, <3>2, <3>3, OtherTarget
  <2> QED BY <2>2, <2>3
<1>10. SteadyStays'
  <2>1. SUFFICES ASSUME NEW p \in steady'
                 PROVE  /\ status'[p] \in Served
                        /\ ReadAsShown(p)'
                        /\ Found(p)'
                        /\ target'[p] = First(p)'
    BY DEF SteadyStays
  <2>2. /\ p \in steady /\ p \in Pair
        /\ target[p] # r
        /\ page[r] # None => page[r].label # p
        /\ cell # None => cell.label # p
    BY <1>1, <1>3 DEF Types
  <2>3. status[p] \in Served /\ ReadAsShown(p) /\ Found(p)
        /\ target[p] = First(p)
    BY <2>2 DEF ObserverInv, SteadyStays
  <2>4. First(p)' = First(p) /\ Found(p)'
    BY <1>1, <1>2, <2>2, <2>3, OtherLabel
  <2>5. ReadAsShown(p)'
    BY <1>1, <1>2, <2>2, <2>3, OtherTarget
  <2> QED BY <1>3, <2>3, <2>4, <2>5
<1> QED BY <1>1, <1>5, <1>6, <1>7, <1>8, <1>9, <1>10 DEF ObserverInv

-----------------------------------------------------------------------------
(* The callbacks and timers of the observer.                               *)

LEMMA NotifiedKeeps ==
    ASSUME ObserverInv, Notified
    PROVE  ObserverInv'
<1>1. Types
  BY DEF ObserverInv
<1>2. /\ records' = "none" /\ page' = page /\ watched' = watched
      /\ replaced' = replaced /\ unseen' = unseen /\ changes' = changes
      /\ place' = place /\ moved' = moved /\ orphaned' = orphaned
      /\ UNCHANGED content
      /\ ready' = ready /\ pairStatuses' = pairStatuses /\ captured' = captured
  BY DEF Notified, content, layout
<1>3. CASE /\ EmitCurrent(Reading(target, replaced, last, status))
           /\ acquireTimer' = \/ acquireTimer
                              \/ Reading(target, replaced, last, status).lost # {}
                              \/ TargetRemoved \/ Incomplete
  <2>1. Consistent(target, replaced, last, status)
    BY <1>1 DEF Consistent, Types, ObserverInv, ForgottenIsLost, SteadyStays,
       ReadAsShown
  <2>2. /\ target \in [Pair -> Row \cup {None}] /\ replaced \in SUBSET Row
        /\ last \in [Pair -> Text \cup {None}]
        /\ status \in [Pair -> PairTargetStatus]
        /\ \A p \in Pair : last[p] \in Valid[p] \cup {None}
    BY <1>1 DEF Types
  <2>3. /\ target' = target
        /\ last' \in [Pair -> Text \cup {None}]
        /\ status' \in [Pair -> PairTargetStatus]
        /\ steady' \subseteq steady \cup Pair
        /\ \A p \in Pair : last'[p] \in Valid[p] \cup {None}
    BY <1>1, <1>3, <2>2, Emission
  <2>4. posted' \in Seq(QuoteFrame \cup StatusFrame)
    <3>1. PICK n \in Nat : Emitted(n, New(target, replaced, last))
      BY <1>1, <1>3, <2>2, EmittedFrames
    <3> QED BY <3>1 DEF Emitted
  <2>5. acquireTimer' \in BOOLEAN
    BY <1>1, <1>3 DEF Types, TargetRemoved, Incomplete
  <2>6. Types'
    BY <1>1, <1>2, <2>3, <2>4, <2>5 DEF Types
  <2>7. StatusesArrive' /\ QuotesArrive'
    BY <1>2, <1>3, <2>1, EmissionArrives
  <2>8. /\ ForgottenIsLost' /\ SteadyStays'
        /\ \A p \in Pair : target[p] # None /\ p \notin Lost(target, replaced) =>
              ReadAsShown(p)' /\ status'[p] \in Served
    BY <1>2, <1>3, <2>1, EmissionKeeps
  <2>9. ASSUME ~acquireTimer', NEW p \in Pair
        PROVE  p \notin Lost(target, replaced) /\ status'[p] \in Served
    <3>1. Reading(target, replaced, last, status).lost = Lost(target, replaced)
      BY DEF Reading, Lost
    <3>2. p \notin Lost(target, replaced) /\ status[p] \in Served
      BY <1>3, <2>9, <3>1 DEF Incomplete
    <3>3. CASE target[p] # None
      BY <2>8, <3>2, <3>3
    <3>4. CASE target[p] = None
      <4>1. p \notin New(target, replaced, last)
        BY <3>4 DEF New, Readable
      <4>2. p \in Pair \ (Lost(target, replaced) \cup New(target, replaced, last))
        BY <3>2, <4>1
      <4>3. status'[p] = status[p]
        BY <1>1, <1>3, <2>2, <4>2, Emission
      <4> QED BY <3>2, <4>3
    <3> QED BY <3>2, <3>3, <3>4
  <2>10. UnservedHasReason'
    BY <2>9 DEF UnservedHasReason, Served
  <2>11. ServedIsShown'
    <3>1. ASSUME ~acquireTimer', NEW p \in Pair, target'[p] \in watched'
          PROVE  ReadAsShown(p)'
      <4>1. target[p] # None
        BY <1>1, <1>2, <2>3, <3>1, TextFacts DEF Types
      <4> QED BY <2>8, <2>9, <3>1, <4>1
    <3> QED BY <3>1 DEF ServedIsShown
  <2> QED BY <2>6, <2>7, <2>8, <2>10, <2>11 DEF ObserverInv
<1>4. CASE /\ records = "some"
           /\ acquireTimer' = (acquireTimer \/ TargetRemoved \/ Incomplete)
           /\ UNCHANGED <<target, last, status, posted, steady>>
  <2>1. /\ target' = target /\ last' = last /\ status' = status
        /\ posted' = posted /\ steady' = steady
    BY <1>4
  <2>2. acquireTimer' \in BOOLEAN
    BY <1>1, <1>4 DEF Types, TargetRemoved, Incomplete
  <2>3. Types'
    BY <1>1, <1>2, <2>1, <2>2 DEF Types
  <2>4. StatusesArrive' /\ ForgottenIsLost'
    BY <1>2, <2>1 DEF ObserverInv, StatusesArrive, ForgottenIsLost
  <2>5. QuotesArrive'
    BY <1>2, <2>1 DEF ObserverInv, QuotesArrive, Leaves
  <2>6. SteadyStays'
    BY <1>1, <1>2, <2>1, SteadySame DEF ObserverInv
  <2>7. ASSUME ~acquireTimer', NEW p \in Pair
        PROVE  status'[p] \in Served
    BY <1>4, <2>1, <2>7 DEF Incomplete
  <2>8. UnservedHasReason'
    BY <2>7 DEF UnservedHasReason, Served
  <2>9. ASSUME ~acquireTimer', NEW p \in Pair, status'[p] \in Served,
                target'[p] \in watched' \ unseen'
         PROVE  ReadAsShown(p)'
    <3>1. ~acquireTimer /\ ~TargetRemoved
      BY <1>4, <2>9
    <3>2. target[p] # None
      BY <1>1, <1>2, <2>1, <2>9, TextFacts DEF Types
    <3>3. page[target[p]] # None
      BY <3>1, <3>2 DEF TargetRemoved
    <3>4. ReadAsShown(p)
      BY <1>2, <1>4, <2>1, <2>9, <3>1, <3>3 DEF ObserverInv, ServedIsShown
    <3> QED BY <1>2, <2>1, <3>4, SameReading
  <2>10. ServedIsShown'
    BY <2>9 DEF ServedIsShown
  <2> QED BY <2>3, <2>4, <2>5, <2>6, <2>8, <2>10 DEF ObserverInv
<1> QED BY <1>3, <1>4 DEF Notified

\* What an acquisition starts from.
Targets == [p \in Pair |-> IF p \in Usable THEN First(p) ELSE None]
KeptQuotes ==
    [p \in Pair |-> IF Targets[p] # None /\ p \in Kept(Targets) THEN last[p] ELSE None]
Discovered ==
    [p \in Pair |-> IF Targets[p] # None THEN "FOUND" ELSE DiscoveryStatus(p)]

LEMMA AcquireIsConsistent ==
    ASSUME ObserverInv
    PROVE  /\ Consistent(Targets, {}, KeptQuotes, Discovered)
           /\ \A p \in steady : target[p] \notin moved => KeptQuotes[p] = last[p]
<1>1. Types
  BY DEF ObserverInv
<1>2. \A p \in Pair : Targets[p] \in Row \cup {None}
  BY <1>1, FirstCandidate DEF Targets, Usable
<1>3. Targets \in [Pair -> Row \cup {None}]
  BY <1>2 DEF Targets
<1>4. KeptQuotes \in [Pair -> Text \cup {None}]
      /\ \A p \in Pair : KeptQuotes[p] \in {last[p], None}
  BY <1>1 DEF KeptQuotes, Types
<1>5. \A p \in Pair : DiscoveryStatus(p) \in PairTargetStatus
  <2>1. ASSUME NEW p \in Pair
        PROVE  DiscoveryStatus(p) \in {"MISSING", "FOUND", "AMBIGUOUS"}
    <3>1. CASE Candidates(p) = {}
      BY <3>1 DEF DiscoveryStatus, Found
    <3>2. CASE Candidates(p) # {}
      BY <3>2 DEF DiscoveryStatus, Found
    <3> QED BY <3>1, <3>2
  <2> QED BY <2>1 DEF PairTargetStatus, Served
<1>6. /\ Discovered \in [Pair -> PairTargetStatus]
      /\ \A p \in Pair : Targets[p] # None => Discovered[p] \in Served
  BY <1>5 DEF Discovered, PairTargetStatus, Served
<1>7. ASSUME NEW p \in steady
      PROVE  /\ Targets[p] = target[p]
             /\ target[p] \notin moved => KeptQuotes[p] = last[p]
             /\ Readable(Targets, {}, p)
             /\ Discovered[p] \in Served
  <2>1. p \in Pair
    BY <1>1 DEF Types
  <2>2. /\ Readable(target, replaced, p) /\ status[p] \in Served
        /\ Found(p) /\ target[p] = First(p)
    BY DEF ObserverInv, SteadyStays, ReadAsShown
  <2>3. Targets[p] = target[p]
    BY <2>1, <2>2 DEF Targets, Usable
  <2>4. Targets[p] # None /\ Targets[p] \notin replaced /\ Readable(Targets, {}, p)
    BY <2>2, <2>3 DEF Readable
  <2>5. target[p] \notin moved => KeptQuotes[p] = last[p]
    BY <2>1, <2>2, <2>3, <2>4 DEF KeptQuotes, Kept
  <2> QED BY <1>6, <2>1, <2>3, <2>4, <2>5
<1> QED BY <1>3, <1>4, <1>6, <1>7 DEF Consistent

LEMMA AcquireKeeps ==
    ASSUME ObserverInv, Acquire
    PROVE  ObserverInv'
<1> DEFINE t == Targets
           l == KeptQuotes
           s == Discovered
<1>1. Types
  BY DEF ObserverInv
<1>2. /\ records = "none"
      /\ EmitCurrent(Reading(t, {}, l, s))
      /\ acquireTimer' = (Reading(t, {}, l, s).lost # {})
      /\ watched' = {t[p] : p \in Pair} \ {None}
      /\ replaced' = {} /\ unseen' = {} /\ moved' = {} /\ orphaned' = {}
      /\ page' = page /\ place' = place /\ records' = records /\ changes' = changes
      /\ UNCHANGED content
      /\ ready' = ready /\ pairStatuses' = pairStatuses /\ captured' = captured
  BY DEF Acquire, Targets, KeptQuotes, Discovered, content
<1>3. Consistent(t, {}, l, s)
  BY AcquireIsConsistent
<1>4. s = [p \in Pair |-> IF t[p] # None THEN "FOUND" ELSE DiscoveryStatus(p)]
  BY DEF Discovered
<1> HIDE DEF t, l, s
<1>5. /\ t \in [Pair -> Row \cup {None}] /\ {} \in SUBSET Row
      /\ l \in [Pair -> Text \cup {None}]
      /\ s \in [Pair -> PairTargetStatus]
      /\ \A p \in Pair : l[p] \in Valid[p] \cup {None}
  BY <1>2, <1>3, EmissionReads DEF Consistent
<1>6. /\ target' = t
      /\ last' \in [Pair -> Text \cup {None}]
      /\ status' \in [Pair -> PairTargetStatus]
      /\ steady' \subseteq steady \cup Pair
      /\ \A p \in Pair : last'[p] \in Valid[p] \cup {None}
  BY <1>1, <1>2, <1>5, Emission
<1>7. posted' \in Seq(QuoteFrame \cup StatusFrame)
  <2>1. PICK n \in Nat : Emitted(n, New(t, {}, l))
    BY <1>1, <1>2, <1>5, EmittedFrames
  <2> QED BY <2>1 DEF Emitted
<1>8. Types'
  <2>1. watched' \in SUBSET Row
    BY <1>2, <1>5
  <2> QED BY <1>1, <1>2, <1>5, <1>6, <1>7, <2>1 DEF Types
<1>9. StatusesArrive' /\ QuotesArrive'
  BY <1>2, <1>3, EmissionArrives
<1>10. /\ ForgottenIsLost' /\ SteadyStays'
       /\ \A p \in Pair : t[p] # None /\ p \notin Lost(t, {}) =>
             ReadAsShown(p)' /\ status'[p] \in Served
  BY <1>2, <1>3, EmissionKeeps
<1>11. ASSUME ~acquireTimer', NEW p \in Pair
       PROVE  p \notin Lost(t, {})
  BY <1>2, <1>11 DEF Reading, Lost
<1>12. ASSUME ~acquireTimer', NEW p \in Pair
       PROVE  /\ status'[p] = "MISSING" => Candidates(p)' = {}
              /\ status'[p] = "AMBIGUOUS" => Candidates(p)' # {} /\ ~Agree(p)'
  <2>1. CASE t[p] # None
    <3>1. status'[p] \in Served
      BY <1>10, <1>11, <1>12, <2>1
    <3> QED BY <3>1 DEF Served
  <2>2. CASE t[p] = None
    <3>1. p \in Pair \ (Lost(t, {}) \cup New(t, {}, l))
      BY <1>11, <1>12, <2>2 DEF New, Readable
    <3>2. status'[p] = s[p]
      BY <1>1, <1>2, <1>5, <3>1, Emission
    <3>3. status'[p] = DiscoveryStatus(p)
      BY <1>4, <2>2, <3>2
    <3>4. /\ status'[p] = "MISSING" => Candidates(p) = {}
          /\ status'[p] = "AMBIGUOUS" => Candidates(p) # {} /\ ~Agree(p)
      <4>1. CASE Candidates(p) = {}
        <5>1. status'[p] = "MISSING"
          BY <3>3, <4>1 DEF DiscoveryStatus, Found
        <5> QED BY <4>1, <5>1
      <4>2. CASE Found(p)
        <5>1. status'[p] = "FOUND"
          BY <3>3, <4>2 DEF DiscoveryStatus, Found
        <5> QED BY <5>1
      <4>3. CASE Candidates(p) # {} /\ ~Found(p)
        <5>1. status'[p] = "AMBIGUOUS"
          BY <3>3, <4>3 DEF DiscoveryStatus
        <5> QED BY <4>3, <5>1 DEF Found
      <4> QED BY <4>1, <4>2, <4>3
    <3> QED BY <1>2, <3>4, SamePage
  <2> QED BY <2>1, <2>2
<1>13. UnservedHasReason'
  BY <1>12 DEF UnservedHasReason
<1>14. ASSUME ~acquireTimer', NEW p \in Pair, target'[p] \in watched'
       PROVE  ReadAsShown(p)'
  <2>1. t[p] # None
    BY <1>2, <1>6, <1>14
  <2> QED BY <1>10, <1>11, <1>14, <2>1
<1>15. ServedIsShown'
  BY <1>14 DEF ServedIsShown
<1> QED BY <1>8, <1>9, <1>10, <1>13, <1>15 DEF ObserverInv

LEMMA MarkStaleKeeps ==
    ASSUME ObserverInv, MarkStale
    PROVE  ObserverInv'
<1>1. Types
  BY DEF ObserverInv
<1>2. /\ page' = page /\ watched' = watched /\ replaced' = replaced
      /\ unseen' = unseen /\ records' = records /\ changes' = changes
      /\ place' = place /\ moved' = moved /\ orphaned' = orphaned
      /\ target' = target /\ last' = last /\ acquireTimer' = acquireTimer
      /\ ready' = ready /\ pairStatuses' = pairStatuses /\ captured' = captured
      /\ steady' = steady
      /\ posted' = Append(posted, PairStatusFrame(status'))
  BY DEF MarkStale, element, layout, content
<1>3. PICK old \in SUBSET {p \in Pair : status[p] = "READY"} :
         status' = [p \in Pair |-> IF p \in old THEN "STALE" ELSE status[p]]
  BY DEF MarkStale
<1>4. \A p \in Pair : \/ status'[p] = status[p]
                      \/ status[p] = "READY" /\ status'[p] = "STALE"
  BY <1>3
<1>5. status' \in [Pair -> PairTargetStatus]
  BY <1>1, <1>3 DEF Types, PairTargetStatus, Served
<1>6. /\ posted' \in Seq(QuoteFrame \cup StatusFrame)
      /\ Len(posted') = Len(posted) + 1
      /\ \A i \in 1 .. Len(posted) : posted'[i] = posted[i]
      /\ posted'[Len(posted) + 1] = PairStatusFrame(status')
  <2>1. PairStatusFrame(status') \in QuoteFrame \cup StatusFrame
    BY <1>5, FrameFacts
  <2>2. posted \in Seq(QuoteFrame \cup StatusFrame)
    BY <1>1 DEF Types
  <2> QED BY <1>2, <2>1, <2>2, AppendProperties
<1>7. Len(posted) \in Nat
  BY <1>1, LenProperties DEF Types
<1>8. Types'
  BY <1>1, <1>2, <1>5, <1>6 DEF Types
<1>9. StatusesArrive'
  <2>1. posted' # <<>> /\ posted'[Len(posted')] = PairStatusFrame(status')
    <3>1. Len(posted') # 0
      BY <1>6, <1>7
    <3> QED BY <1>6, <3>1, EmptySeq
  <2> QED BY <1>2, <2>1 DEF ObserverInv, StatusesArrive
<1>10. QuotesArrive'
  <2>1. SUFFICES ASSUME NEW p \in Pair, last'[p] # None
                 PROVE  \E i \in 0 .. Len(posted') : Leaves(p, last[p], i)'
    BY DEF QuotesArrive
  <2>2. PICK i \in 0 .. Len(posted) : Leaves(p, last[p], i)
    BY <1>2, <2>1 DEF ObserverInv, QuotesArrive
  <2>3. i \in 0 .. Len(posted')
    BY <1>6, <1>7
  <2>4. IF i = 0 THEN captured'[p] = last'[p] ELSE posted'[i] = Quote(p, last'[p])
    BY <1>2, <1>6, <2>2 DEF Leaves
  <2>5. ASSUME NEW j \in 1 .. Len(posted'), j > i,
               posted'[j].type = "quote", posted'[j].pair = p
        PROVE  posted'[j].text = last'[p]
    <3>1. j # Len(posted) + 1
      BY <1>6, <2>5 DEF PairStatusFrame
    <3>2. j \in 1 .. Len(posted) /\ posted'[j] = posted[j]
      BY <1>6, <1>7, <2>5, <3>1
    <3> QED BY <1>2, <2>2, <2>5, <3>2 DEF Leaves
  <2>6. Leaves(p, last[p], i)'
    BY <2>4, <2>5 DEF Leaves
  <2> QED BY <2>3, <2>6
<1>11. ForgottenIsLost'
  BY <1>2, <1>4 DEF ObserverInv, ForgottenIsLost, Served
<1>12. UnservedHasReason'
  <2>1. SUFFICES ASSUME records = "none", ~acquireTimer, NEW p \in Pair, InSight(p)'
                 PROVE  /\ status'[p] = "MISSING" => Candidates(p)' = {}
                        /\ status'[p] = "AMBIGUOUS"
                              => Candidates(p)' # {} /\ ~Agree(p)'
    BY <1>2 DEF UnservedHasReason
  <2>2. InSight(p)
    BY <1>2, <2>1 DEF InSight
  <2>3. /\ status[p] = "MISSING" => Candidates(p) = {}
        /\ status[p] = "AMBIGUOUS" => Candidates(p) # {} /\ ~Agree(p)
    BY <2>1, <2>2 DEF ObserverInv, UnservedHasReason
  <2> QED BY <1>2, <1>4, <2>3, SamePage
<1>13. ServedIsShown'
  <2>1. SUFFICES ASSUME records # "watched", ~acquireTimer, NEW p \in Pair,
                        status'[p] \in Served, target[p] \in watched \ unseen
                 PROVE  \/ ReadAsShown(p)'
                        \/ records = "some" /\ page[target[p]] = None
    BY <1>2 DEF ServedIsShown
  <2>2. \/ ReadAsShown(p)
        \/ records = "some" /\ page[target[p]] = None
    BY <1>4, <2>1 DEF ObserverInv, ServedIsShown, Served
  <2> QED BY <1>2, <2>2, SameReading
<1>14. SteadyStays'
  <2>1. \A p \in Pair : status[p] \in Served => status'[p] \in Served
    BY <1>4 DEF Served
  <2> QED BY <1>1, <1>2, <2>1, SteadySame DEF ObserverInv
<1> QED BY <1>8, <1>9, <1>10, <1>11, <1>12, <1>13, <1>14 DEF ObserverInv

-----------------------------------------------------------------------------
(* The content script.                                                     *)

LEMMA ReceiveKeeps ==
    ASSUME ObserverInv, Receive
    PROVE  ObserverInv'
<1> DEFINE frame == Head(posted)
<1>1. Types
  BY DEF ObserverInv
<1>2. /\ page' = page /\ watched' = watched /\ replaced' = replaced
      /\ unseen' = unseen /\ records' = records /\ changes' = changes
      /\ place' = place /\ moved' = moved /\ orphaned' = orphaned
      /\ target' = target /\ last' = last /\ acquireTimer' = acquireTimer
      /\ status' = status /\ steady' = steady
      /\ posted # <<>> /\ posted' = Tail(posted)
  BY DEF Receive, element, layout
<1>3. \/ /\ frame.type = "quote"
         /\ ready' = TRUE
         /\ captured' = [captured EXCEPT ![frame.pair] = frame.text]
         /\ pairStatuses' = pairStatuses
      \/ /\ frame.type = "status"
         /\ pairStatuses' = frame.pairs
         /\ ready' = \E p \in Pair : frame.pairs[p] \in Served
         /\ captured' = captured
  BY DEF Receive
<1>4. /\ frame = posted[1] /\ frame \in QuoteFrame \cup StatusFrame
      /\ Len(posted) \in Nat /\ Len(posted) # 0
      /\ posted' \in Seq(QuoteFrame \cup StatusFrame)
      /\ Len(posted') = Len(posted) - 1
      /\ \A i \in 1 .. Len(posted') : posted'[i] = posted[i + 1]
  <2>1. posted \in Seq(QuoteFrame \cup StatusFrame) /\ posted # <<>>
    BY <1>1, <1>2 DEF Types
  <2>2. Len(posted) \in Nat /\ Len(posted) # 0
    BY <2>1, LenProperties, EmptySeq
  <2>3. /\ Head(posted) \in QuoteFrame \cup StatusFrame
        /\ Tail(posted) \in Seq(QuoteFrame \cup StatusFrame)
        /\ Len(Tail(posted)) = Len(posted) - 1
        /\ \A i \in 1 .. Len(Tail(posted)) : Tail(posted)[i] = posted[i + 1]
    BY <2>1, HeadTailProperties
  <2>4. Head(posted) = posted[1]
    OBVIOUS
  <2> QED BY <1>2, <2>2, <2>3, <2>4
<1> HIDE DEF frame
<1>5. /\ frame.type = "quote" => /\ frame.pair \in Pair
                                 /\ frame.text \in Valid[frame.pair]
                                 /\ frame.text \in Text
      /\ frame.type = "status" => /\ frame.pairs \in [Pair -> PairTargetStatus]
  <2>1. CASE frame \in QuoteFrame
    BY <2>1, FrameFacts, TextFacts
  <2>2. CASE frame \in StatusFrame
    BY <2>2, FrameFacts
  <2> QED BY <1>4, <2>1, <2>2
<1>6. \A p \in Pair :
         \/ /\ frame.type = "quote" /\ frame.pair = p
            /\ captured'[p] = frame.text
         \/ /\ ~ (frame.type = "quote" /\ frame.pair = p)
            /\ captured'[p] = captured[p]
  BY <1>1, <1>3 DEF Types
<1>7. Types'
  <2>1. captured' \in [Pair -> Text \cup {None}]
    BY <1>1, <1>3, <1>5 DEF Types
  <2>2. \A p \in Pair : captured'[p] \in Valid[p] \cup {None}
    BY <1>1, <1>5, <1>6 DEF Types
  <2>3. pairStatuses' \in [Pair -> PairTargetStatus] /\ ready' \in BOOLEAN
    BY <1>1, <1>3, <1>5 DEF Types
  <2> QED BY <1>1, <1>2, <1>4, <2>1, <2>2, <2>3 DEF Types
<1>8. StatusesArrive'
  <2>1. (\E p \in Pair : pairStatuses'[p] \in Served) => ready'
    BY <1>3
  <2>2. posted[Len(posted)] = PairStatusFrame(status)
    BY <1>2 DEF ObserverInv, StatusesArrive
  <2>3. CASE Len(posted) = 1
    <3>1. frame = PairStatusFrame(status) /\ posted' = <<>>
      BY <1>4, <2>2, <2>3, EmptySeq
    <3>2. pairStatuses' = status /\ (ready' = \E p \in Pair : status[p] \in Served)
      BY <1>3, <3>1 DEF PairStatusFrame
    <3> QED BY <1>2, <2>1, <3>1, <3>2 DEF StatusesArrive
  <2>4. CASE Len(posted) # 1
    <3>1. posted' # <<>> /\ Len(posted') \in 1 .. Len(posted')
          /\ Len(posted') + 1 = Len(posted)
      <4>1. Len(posted') # 0
        BY <1>4, <2>4
      <4> QED BY <1>4, <4>1, EmptySeq
    <3>2. posted'[Len(posted')] = PairStatusFrame(status)
      BY <1>4, <2>2, <3>1
    <3> QED BY <1>2, <2>1, <3>1, <3>2 DEF StatusesArrive
  <2> QED BY <2>3, <2>4
<1>9. QuotesArrive'
  <2>1. SUFFICES ASSUME NEW p \in Pair, last'[p] # None
                 PROVE  \E i \in 0 .. Len(posted') : Leaves(p, last[p], i)'
    BY DEF QuotesArrive
  <2>2. PICK i \in 0 .. Len(posted) : Leaves(p, last[p], i)
    BY <1>2, <2>1 DEF ObserverInv, QuotesArrive
  <2>3. ASSUME NEW k \in Nat, k + 1 >= i, NEW j \in 1 .. Len(posted'), j > k,
               posted'[j].type = "quote", posted'[j].pair = p
        PROVE  posted'[j].text = last'[p]
    <3>1. j + 1 \in 1 .. Len(posted) /\ j + 1 > i /\ posted'[j] = posted[j + 1]
      BY <1>4, <2>2, <2>3
    <3> QED BY <1>2, <2>2, <2>3, <3>1 DEF Leaves
  <2>4. CASE i \in {0, 1}
    <3>1. captured'[p] = last'[p]
      <4>1. CASE frame.type = "quote" /\ frame.pair = p
        <5>1. frame.text = last[p]
          <6>1. CASE i = 0
            <7>1. 1 \in 1 .. Len(posted) /\ 1 > i
              BY <1>4, <6>1
            <7> QED BY <1>4, <2>2, <4>1, <7>1 DEF Leaves
          <6>2. CASE i = 1
            BY <1>4, <2>2, <6>2 DEF Leaves, Quote
          <6> QED BY <2>4, <6>1, <6>2
        <5> QED BY <1>2, <1>6, <4>1, <5>1
      <4>2. CASE ~ (frame.type = "quote" /\ frame.pair = p)
        <5>1. i = 0
          BY <1>4, <2>2, <2>4, <4>2 DEF Leaves, Quote
        <5> QED BY <1>2, <1>6, <2>2, <4>2, <5>1 DEF Leaves
      <4> QED BY <4>1, <4>2
    <3>2. \A j \in 1 .. Len(posted') :
             j > 0 /\ posted'[j].type = "quote" /\ posted'[j].pair = p
                => posted'[j].text = last'[p]
      <4>1. 0 \in Nat /\ 0 + 1 >= i
        BY <2>4
      <4> QED BY <2>3, <4>1
    <3>3. Leaves(p, last[p], 0)'
      BY <3>1, <3>2 DEF Leaves
    <3>4. 0 \in 0 .. Len(posted')
      BY <1>4
    <3> QED BY <3>3, <3>4
  <2>5. CASE i \notin {0, 1}
    <3> DEFINE k == i - 1
    <3>1. k \in 1 .. Len(posted') /\ k \in 0 .. Len(posted') /\ k \in Nat
          /\ k # 0 /\ k + 1 = i /\ i # 0 /\ k + 1 >= i
      BY <1>4, <2>2, <2>5
    <3> HIDE DEF k
    <3>2. posted'[k] = Quote(p, last'[p])
      BY <1>2, <1>4, <2>2, <3>1 DEF Leaves
    <3>3. \A j \in 1 .. Len(posted') :
             j > k /\ posted'[j].type = "quote" /\ posted'[j].pair = p
                => posted'[j].text = last'[p]
      BY <2>3, <3>1
    <3>4. Leaves(p, last[p], k)'
      BY <3>1, <3>2, <3>3 DEF Leaves
    <3> QED BY <3>1, <3>4
  <2> QED BY <2>4, <2>5
<1>10. ForgottenIsLost'
  BY <1>2 DEF ObserverInv, ForgottenIsLost
<1>11. UnservedHasReason'
  <2>1. SUFFICES ASSUME records = "none", ~acquireTimer, NEW p \in Pair, InSight(p)'
                 PROVE  /\ status[p] = "MISSING" => Candidates(p)' = {}
                        /\ status[p] = "AMBIGUOUS"
                              => Candidates(p)' # {} /\ ~Agree(p)'
    BY <1>2 DEF UnservedHasReason
  <2>2. InSight(p)
    BY <1>2, <2>1 DEF InSight
  <2>3. /\ status[p] = "MISSING" => Candidates(p) = {}
        /\ status[p] = "AMBIGUOUS" => Candidates(p) # {} /\ ~Agree(p)
    BY <2>1, <2>2 DEF ObserverInv, UnservedHasReason
  <2> QED BY <1>2, <2>3, SamePage
<1>12. ServedIsShown'
  <2>1. SUFFICES ASSUME records # "watched", ~acquireTimer, NEW p \in Pair,
                        status[p] \in Served, target[p] \in watched \ unseen
                 PROVE  \/ ReadAsShown(p)'
                        \/ records = "some" /\ page[target[p]] = None
    BY <1>2 DEF ServedIsShown
  <2>2. \/ ReadAsShown(p)
        \/ records = "some" /\ page[target[p]] = None
    BY <2>1 DEF ObserverInv, ServedIsShown
  <2> QED BY <1>2, <2>2, SameReading
<1>13. SteadyStays'
  BY <1>1, <1>2, SteadySame DEF ObserverInv
<1> QED BY <1>7, <1>8, <1>9, <1>10, <1>11, <1>12, <1>13 DEF ObserverInv

-----------------------------------------------------------------------------
LEMMA InitObserver == Init => ObserverInv
<1> SUFFICES ASSUME Init PROVE ObserverInv
  OBVIOUS
<1>1. posted = <<>> /\ posted \in Seq(QuoteFrame \cup StatusFrame)
  BY EmptySeq DEF Init
<1>2. \A p \in Pair : last[p] = None /\ captured[p] = None /\ target[p] = None
  BY DEF Init
<1>3. /\ status \in [Pair -> PairTargetStatus]
      /\ pairStatuses \in [Pair -> PairTargetStatus]
  BY DEF Init, PairTargetStatus
<1>4. /\ page \in [Row -> Cell \cup {None}] /\ changes \in 0 .. MaxChanges
      /\ place \in Injection(Row, Nat)
  BY DEF Init, Injection, IsInjective
<1>5. Types
  BY <1>1, <1>2, <1>3, <1>4 DEF Init, Types
<1>6. StatusesArrive
  BY <1>1 DEF Init, StatusesArrive, Served
<1>7. QuotesArrive /\ ForgottenIsLost
  BY <1>2 DEF QuotesArrive, ForgottenIsLost
<1>8. UnservedHasReason /\ ServedIsShown /\ SteadyStays
  BY DEF Init, UnservedHasReason, ServedIsShown, SteadyStays
<1> QED BY <1>5, <1>6, <1>7, <1>8 DEF ObserverInv

LEMMA StepObserver == ObserverInv /\ [Next]_vars => ObserverInv'
<1> SUFFICES ASSUME ObserverInv, [Next]_vars PROVE ObserverInv'
  OBVIOUS
<1>1. CASE UNCHANGED vars
  <2>1. Types /\ SteadyStays
    BY DEF ObserverInv
  <2>2. /\ page' = page /\ target' = target /\ last' = last /\ status' = status
        /\ watched' = watched /\ replaced' = replaced /\ unseen' = unseen
        /\ place' = place /\ moved' = moved /\ orphaned' = orphaned
        /\ records' = records /\ acquireTimer' = acquireTimer
        /\ posted' = posted /\ ready' = ready /\ pairStatuses' = pairStatuses
        /\ captured' = captured /\ steady' = steady /\ changes' = changes
    BY <1>1 DEF vars, element, layout, observer, content
  <2>3. Types'
    BY <2>1, <2>2 DEF Types
  <2>4. StatusesArrive' /\ QuotesArrive' /\ ForgottenIsLost'
    BY <2>2 DEF ObserverInv, StatusesArrive, QuotesArrive, Leaves, ForgottenIsLost
  <2>5. UnservedHasReason'
    BY <2>2 DEF ObserverInv, UnservedHasReason, InSight, Candidates, Agree
  <2>6. ServedIsShown'
    BY <2>2 DEF ObserverInv, ServedIsShown, ReadAsShown, Readable
  <2>7. SteadyStays'
    BY <2>1, <2>2, SteadySame
  <2> QED BY <2>3, <2>4, <2>5, <2>6, <2>7 DEF ObserverInv
<1>2. CASE \E r \in Row : PageChange(r)
  BY <1>2, PageKeeps
<1>3. CASE Notified
  BY <1>3, NotifiedKeeps
<1>4. CASE Acquire
  BY <1>4, AcquireKeeps
<1>5. CASE MarkStale
  BY <1>5, MarkStaleKeeps
<1>6. CASE Receive
  BY <1>6, ReceiveKeeps
<1>7. Next => \/ \E r \in Row : PageChange(r)
              \/ Notified \/ Acquire \/ MarkStale \/ Receive
  BY DEF Next, PageChange
<1> QED BY <1>1, <1>2, <1>3, <1>4, <1>5, <1>6, <1>7

LEMMA Inductive == Spec => []ObserverInv
BY InitObserver, StepObserver, PTL DEF Spec

-----------------------------------------------------------------------------
\* Every variable keeps its type: nothing but a quote of the pair, in its format
\* and range, is ever remembered or forwarded for it.
THEOREM ObserverTypeCorrect == Spec => []ObserverTypeOK
<1>1. ObserverInv => ObserverTypeOK
  <2>1. \A f \in QuoteFrame \cup StatusFrame : f \in Frame
    BY TextFacts DEF QuoteFrame, StatusFrame, Frame
  <2>2. ASSUME Types
        PROVE  \A i \in DOMAIN posted : posted[i] \in Frame
    <3>1. \A i \in DOMAIN posted : posted[i] \in QuoteFrame \cup StatusFrame
      BY <2>2, LenProperties DEF Types
    <3> QED BY <2>1, <3>1
  <2> QED BY <2>2 DEF ObserverInv, Types, ObserverTypeOK
<1> QED BY <1>1, Inductive, PTL

\* What a heartbeat says is true of the page, whenever nothing is under way.
THEOREM HeartbeatsAreTrue == Spec => []HeartbeatTruth
<1>1. ASSUME ObserverInv
      PROVE  HeartbeatTruth
  <2>1. Types /\ StatusesArrive
    BY <1>1 DEF ObserverInv
  <2>2. ASSUME Settled
        PROVE  pairStatuses = status /\ (ready => \E p \in Pair : status[p] \in Served)
    BY <2>1, <2>2 DEF Settled, StatusesArrive
  <2>3. ASSUME NEW p \in Pair, Settled, InSight(p)
        PROVE  CASE status[p] = "MISSING"   -> Candidates(p) = {}
                 [] status[p] = "AMBIGUOUS" -> Candidates(p) # {} /\ ~Agree(p)
                 [] OTHER -> target[p] \in watched =>
                                /\ Readable(target, replaced, p)
                                /\ captured[p] = page[target[p]].text
    <3>1. /\ status[p] = "MISSING" => Candidates(p) = {}
          /\ status[p] = "AMBIGUOUS" => Candidates(p) # {} /\ ~Agree(p)
      BY <1>1, <2>3 DEF ObserverInv, UnservedHasReason, Settled
    <3>2. ASSUME status[p] \notin {"MISSING", "AMBIGUOUS"}, target[p] \in watched
          PROVE  /\ Readable(target, replaced, p)
                 /\ captured[p] = page[target[p]].text
      <4>1. status[p] \in Served
        BY <2>1, <3>2 DEF Types, PairTargetStatus
      <4>2. target[p] \notin unseen
        BY <2>3 DEF InSight
      <4>3. ReadAsShown(p)
        BY <1>1, <2>3, <3>2, <4>1, <4>2 DEF ObserverInv, ServedIsShown, Settled
      <4>4. last[p] = page[target[p]].text /\ last[p] # None
            /\ Readable(target, replaced, p)
        BY <2>1, <4>3, ReadText DEF ReadAsShown
      <4>5. PICK i \in 0 .. Len(posted) : Leaves(p, last[p], i)
        BY <1>1, <4>4 DEF ObserverInv, QuotesArrive
      <4>6. i = 0
        <5>1. Len(posted) = 0
          BY <2>3, EmptySeq DEF Settled
        <5> QED BY <4>5, <5>1
      <4> QED BY <4>4, <4>5, <4>6 DEF Leaves
    <3>3. CASE status[p] = "MISSING"
      BY <3>1, <3>3
    <3>4. CASE status[p] = "AMBIGUOUS"
      BY <3>1, <3>4
    <3>5. CASE status[p] \notin {"MISSING", "AMBIGUOUS"}
      BY <3>2, <3>5
    <3> QED BY <3>3, <3>4, <3>5
  <2> QED BY <2>1, <2>2, <2>3 DEF HeartbeatTruth, StatusesArrive
<1> QED BY <1>1, Inductive, PTL

\* A pair that is left alone stays served and readable, whatever happens to the
\* other pairs.
THEOREM PairsAreIsolated == Spec => []Isolated
<1>1. ObserverInv => Isolated
  BY DEF ObserverInv, SteadyStays, ReadAsShown, Isolated
<1> QED BY <1>1, Inductive, PTL

LEMMA SizesOfPositions ==
    ASSUME NEW n \in Nat, NEW P \in SUBSET (1 .. n)
    PROVE  IsFiniteSet(P) /\ Cardinality(P) \in Nat
<1>1. IsFiniteSet(1 .. n)
  BY IntervalSize
<1>2. IsFiniteSet(P)
  BY <1>1, FS_Subset
<1> QED BY <1>2, FS_CardinalityType

\* Acquisitions that other pairs cause, and statuses, post no quote of a pair
\* that was left alone, if its row has not moved to another table.
THEOREM OthersEmitNothing == Spec => EmitsOnlyItsOwnChanges
<1>1. ASSUME ObserverInv, NEW p \in steady, target[p] \notin moved, [Next]_vars
      PROVE  QuotesOf(p, posted') <= QuotesOf(p, posted)
  <2> DEFINE before == {i \in DOMAIN posted :
                           posted[i].type = "quote" /\ posted[i].pair = p}
             after == {i \in DOMAIN posted' :
                           posted'[i].type = "quote" /\ posted'[i].pair = p}
  <2>1. Types /\ p \in Pair
    BY <1>1 DEF ObserverInv, Types
  <2>2. /\ posted \in Seq(QuoteFrame \cup StatusFrame)
        /\ Len(posted) \in Nat /\ DOMAIN posted = 1 .. Len(posted)
    BY <2>1, LenProperties DEF Types
  <2>3. IsFiniteSet(before) /\ Cardinality(before) \in Nat
    BY <2>2, SizesOfPositions
  <2>4. QuotesOf(p, posted) = Cardinality(before)
        /\ QuotesOf(p, posted') = Cardinality(after)
    BY DEF QuotesOf
  <2>5. posted' = posted => after = before
    OBVIOUS
  <2>6. after = before => QuotesOf(p, posted') <= QuotesOf(p, posted)
    <3> HIDE DEF after, before
    <3> QED BY <2>3, <2>4
  <2>7. ASSUME NEW t, NEW old, NEW l, NEW s, Consistent(t, old, l, s),
               EmitCurrent(Reading(t, old, l, s)), l[p] = last[p]
        PROVE  after = before
    <3>1. p \notin New(t, old, l)
      BY <1>1, <2>7, EmissionReads
    <3>2. /\ t \in [Pair -> Row \cup {None}] /\ old \in SUBSET Row
          /\ l \in [Pair -> Text \cup {None}]
          /\ s \in [Pair -> PairTargetStatus]
          /\ \A q \in Pair : l[q] \in Valid[q] \cup {None}
      BY <1>1, <2>7, EmissionReads DEF Consistent
    <3>3. PICK n \in Nat : Emitted(n, New(t, old, l))
      BY <2>1, <2>7, <3>2, EmittedFrames
    <3>4. /\ posted' \in Seq(QuoteFrame \cup StatusFrame)
          /\ Len(posted') = Len(posted) + n + 1
          /\ \A i \in 1 .. Len(posted) : posted'[i] = posted[i]
          /\ \A i \in Len(posted) + 1 .. Len(posted) + n :
                \E q \in New(t, old, l) : posted'[i] = Quote(q, last'[q])
          /\ posted'[Len(posted) + n + 1] = PairStatusFrame(status')
      BY <3>3 DEF Emitted
    <3>5. DOMAIN posted' = 1 .. Len(posted) + n + 1
      BY <3>4, LenProperties
    <3>6. ASSUME NEW i \in after
          PROVE  i \in before
      <4>1. i \in 1 .. Len(posted) + n + 1 /\ posted'[i].type = "quote"
            /\ posted'[i].pair = p
        BY <3>5
      <4>2. i # Len(posted) + n + 1
        BY <3>4, <4>1 DEF PairStatusFrame
      <4>3. i \notin Len(posted) + 1 .. Len(posted) + n
        <5>1. SUFFICES ASSUME i \in Len(posted) + 1 .. Len(posted) + n
                       PROVE  FALSE
          OBVIOUS
        <5>2. PICK q \in New(t, old, l) : posted'[i] = Quote(q, last'[q])
          BY <3>4, <5>1
        <5>3. q = p
          BY <4>1, <5>2 DEF Quote
        <5> QED BY <3>1, <5>2, <5>3
      <4>4. i \in 1 .. Len(posted)
        BY <2>2, <4>1, <4>2, <4>3
      <4> QED BY <2>2, <3>4, <4>1, <4>4
    <3>7. ASSUME NEW i \in before
          PROVE  i \in after
      <4>1. i \in 1 .. Len(posted) /\ i \in 1 .. Len(posted) + n + 1
        BY <2>2
      <4> QED BY <3>4, <3>5, <4>1
    <3> QED BY <3>6, <3>7
  <2>8. CASE Notified
    <3>1. CASE EmitCurrent(Reading(target, replaced, last, status))
      <4>1. Consistent(target, replaced, last, status)
        BY <1>1, <2>1 DEF Consistent, Types, ObserverInv, ForgottenIsLost,
           SteadyStays, ReadAsShown
      <4> QED BY <2>7, <2>6, <3>1, <4>1
    <3>2. CASE posted' = posted
      BY <2>5, <2>6, <3>2
    <3> QED BY <2>8, <3>1, <3>2 DEF Notified
  <2>9. CASE Acquire
    <3>1. EmitCurrent(Reading(Targets, {}, KeptQuotes, Discovered))
      BY <2>9 DEF Acquire, Targets, KeptQuotes, Discovered
    <3>2. Consistent(Targets, {}, KeptQuotes, Discovered) /\ KeptQuotes[p] = last[p]
      BY <1>1, AcquireIsConsistent
    <3> QED BY <2>7, <2>6, <3>1, <3>2
  <2>10. CASE MarkStale
    <3> DEFINE f == PairStatusFrame(status')
    <3>1. posted' = Append(posted, f)
      BY <2>10 DEF MarkStale
    <3>2. f.type # "quote"
      BY DEF PairStatusFrame
    <3> HIDE DEF f
    <3>3. /\ DOMAIN posted' = 1 .. Len(posted) + 1
          /\ \A i \in 1 .. Len(posted) : posted'[i] = posted[i]
          /\ posted'[Len(posted) + 1] = f
      BY <2>2, <3>1
    <3>4. ASSUME NEW i \in after
          PROVE  i \in before
      <4>1. i # Len(posted) + 1 /\ i \in 1 .. Len(posted) + 1
        BY <3>2, <3>3
      <4>2. i \in 1 .. Len(posted)
        BY <2>2, <4>1
      <4> QED BY <2>2, <3>3, <4>2
    <3>5. ASSUME NEW i \in before
          PROVE  i \in after
      <4>1. i \in 1 .. Len(posted) /\ i \in 1 .. Len(posted) + 1
        BY <2>2
      <4> QED BY <3>3, <4>1
    <3>6. after = before
      BY <3>4, <3>5
    <3> QED BY <2>6, <3>6
  <2>11. CASE Receive
    <3>1. posted # <<>> /\ posted' = Tail(posted)
      BY <2>11 DEF Receive
    <3>2. /\ posted' \in Seq(QuoteFrame \cup StatusFrame)
          /\ Len(posted') = Len(posted) - 1 /\ Len(posted') \in Nat
          /\ \A i \in 1 .. Len(posted') : posted'[i] = posted[i + 1]
      BY <2>2, <3>1, HeadTailProperties, LenProperties
    <3>3. DOMAIN posted' = 1 .. Len(posted')
      BY <3>2, LenProperties
    <3>4. \A i \in after : i \in Nat /\ i + 1 \in before
      <4>1. ASSUME NEW i \in after
            PROVE  i \in Nat /\ i + 1 \in before
        <5>1. i \in 1 .. Len(posted') /\ i + 1 \in 1 .. Len(posted)
          BY <2>2, <3>2, <3>3
        <5> QED BY <2>2, <3>2, <5>1
      <4> QED BY <4>1
    <3> DEFINE earlier == [i \in after |-> i + 1]
    <3> HIDE DEF before, after
    <3>5. earlier \in Injection(after, before)
      <4>1. earlier \in [after -> before]
        BY <3>4
      <4>2. \A i, j \in after : earlier[i] = earlier[j] => i = j
        BY <3>4
      <4> QED BY <4>1, <4>2 DEF Injection, IsInjective
    <3>6. Cardinality(after) <= Cardinality(before)
      BY <2>3, <3>5, FS_Injection
    <3> QED BY <2>4, <3>6
  <2>12. CASE posted' = posted
    BY <2>5, <2>12, <2>6
  <2>13. CASE \E r \in Row : PageChange(r)
    <3>1. PICK r \in Row : PageChange(r)
      BY <2>13
    <3>2. posted' = posted
      BY <2>1, <3>1, PageChanges DEF Changed, Change, observer
    <3> QED BY <2>12, <3>2
  <2>14. CASE UNCHANGED vars
    BY <2>12, <2>14 DEF vars, observer
  <2>15. Next => \/ \E r \in Row : PageChange(r)
                \/ Notified \/ Acquire \/ MarkStale \/ Receive
    BY DEF Next, PageChange
  <2> QED BY <1>1, <2>8, <2>9, <2>10, <2>11, <2>13, <2>14, <2>15
<1>2. ObserverInv /\ [Next]_vars
         => [\A p \in steady : target[p] \notin moved =>
                QuotesOf(p, posted') <= QuotesOf(p, posted)]_vars
  BY <1>1
<1> QED BY <1>2, Inductive, PTL DEF Spec, EmitsOnlyItsOwnChanges
=============================================================================
