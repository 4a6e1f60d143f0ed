---------------------------- MODULE AdapterProofs ----------------------------
(***************************************************************************)
(* Theorems about Adapter, for all sessions and pairs, every size and age  *)
(* limit of the dedup cache, every policy and all prices and instants.     *)
(*                                                                         *)
(* AdapterInv is inductive.  What it says of the cache rests on the lemmas *)
(* about the operations on it, which hold for any sequence of entries.     *)
(***************************************************************************)
EXTENDS Adapter, SequenceLemmas, FiniteSetTheorems

USE CacheAssumption, ValuesAssumption, SessionAssumption

-----------------------------------------------------------------------------
(* The cache.                                                              *)

Elements(cache) == {cache[i] : i \in DOMAIN cache}

\* One entry per identity.
Distinct(cache) ==
    \A i, j \in DOMAIN cache : cache[i].id = cache[j].id => i = j

\* What every operation keeps: the limit on the entries does not count here.
LEMMA CacheDomain ==
    ASSUME NEW cache \in Seq(Entry)
    PROVE  /\ Len(cache) \in Nat
           /\ DOMAIN cache = 1 .. Len(cache)
           /\ Elements(cache) = {cache[i] : i \in 1 .. Len(cache)}
           /\ \A i \in 1 .. Len(cache) :
                 /\ cache[i] \in Entry
                 /\ cache[i].id \in Identity /\ cache[i].at \in Nat
<1>1. /\ Len(cache) \in Nat
      /\ DOMAIN cache = 1 .. Len(cache)
      /\ \A i \in 1 .. Len(cache) : cache[i] \in Entry
  BY LenProperties
<1>2. \A x \in Entry : x.id \in Identity /\ x.at \in Nat
  BY DEF Entry
<1> QED BY <1>1, <1>2 DEF Elements

LEMMA IdentityTypes ==
    ASSUME NEW id \in Identity
    PROVE  id.key \in Key /\ id.order \in Nat /\ id.sequence \in Nat
<1>1. id.key \in Key /\ id.order \in Time /\ id.sequence \in Sequence
  BY DEF Identity
<1>2. Sequence \subseteq Nat
  BY DEF Sequence
<1> QED BY <1>1, <1>2

LEMMA ElementTypes ==
    ASSUME NEW cache \in Seq(Entry), NEW x \in Elements(cache)
    PROVE  x \in Entry /\ x.id \in Identity /\ x.id.key \in Key
<1>1. x \in Entry /\ x.id \in Identity
  BY CacheDomain DEF Elements
<1> QED BY <1>1, IdentityTypes

\* The entries from position m on.
LEMMA SuffixEntries ==
    ASSUME NEW cache \in Seq(Entry), NEW m \in 1 .. Len(cache) + 1
    PROVE  LET rest == SubSeq(cache, m, Len(cache)) IN
           /\ rest \in Seq(Entry)
           /\ Len(rest) = Len(cache) - m + 1
           /\ Elements(rest) = {cache[i] : i \in m .. Len(cache)}
           /\ Distinct(cache) => Distinct(rest)
           /\ m <= Len(cache)
                 => /\ rest # <<>>
                    /\ rest[Len(rest)] = cache[Len(cache)]
<1> DEFINE rest == SubSeq(cache, m, Len(cache))
<1>1. Len(cache) \in Nat /\ m \in Nat \ {0} /\ m <= Len(cache) + 1
      /\ DOMAIN cache = 1 .. Len(cache)
  BY LenProperties
<1>2. /\ rest \in Seq(Entry)
      /\ Len(rest) = Len(cache) - m + 1
      /\ \A i \in 1 .. Len(cache) - m + 1 : rest[i] = cache[m + i - 1]
  <2>1. \A i \in m .. Len(cache) : i \in 1 .. Len(cache)
    BY <1>1
  <2>2. m \in Int /\ Len(cache) \in Int
    BY <1>1
  <2>3. /\ rest \in Seq(Entry)
        /\ Len(rest) = IF m <= Len(cache) THEN Len(cache) - m + 1 ELSE 0
        /\ \A i \in 1 .. Len(cache) - m + 1 : rest[i] = cache[m + i - 1]
    BY <1>1, <2>1, <2>2, SubSeqProperties
  <2> QED BY <1>1, <2>3
<1>3. DOMAIN rest = 1 .. Len(cache) - m + 1
  BY <1>2, LenProperties
<1> HIDE DEF rest
<1>4. \A i \in m .. Len(cache) :
         i - m + 1 \in DOMAIN rest /\ rest[i - m + 1] = cache[i]
  BY <1>1, <1>2, <1>3
<1>5. \A i \in DOMAIN rest :
         m + i - 1 \in m .. Len(cache) /\ rest[i] = cache[m + i - 1]
  <2>1. \A i \in 1 .. Len(cache) - m + 1 : m + i - 1 \in m .. Len(cache)
    BY <1>1
  <2> QED BY <1>2, <1>3, <2>1
<1>6. Elements(rest) = {cache[i] : i \in m .. Len(cache)}
  <2>1. ASSUME NEW x \in Elements(rest)
        PROVE  \E i \in m .. Len(cache) : x = cache[i]
    BY <1>5 DEF Elements
  <2>2. ASSUME NEW i \in m .. Len(cache)
        PROVE  cache[i] \in Elements(rest)
    BY <1>4 DEF Elements
  <2> QED BY <2>1, <2>2
<1>7. ASSUME Distinct(cache)
      PROVE  Distinct(rest)
  <2>1. SUFFICES ASSUME NEW i \in DOMAIN rest, NEW j \in DOMAIN rest,
                        rest[i].id = rest[j].id
                 PROVE  i = j
    BY DEF Distinct
  <2>2. m + i - 1 \in DOMAIN cache /\ m + j - 1 \in DOMAIN cache
    BY <1>1, <1>5
  <2>3. m + i - 1 = m + j - 1
    BY <1>5, <1>7, <2>1, <2>2 DEF Distinct
  <2> QED BY <1>1, <1>3, <2>3
<1>8. m <= Len(cache) => rest # <<>> /\ rest[Len(rest)] = cache[Len(cache)]
  <2>1. m <= Len(cache) => Len(rest) # 0
    BY <1>1, <1>2
  <2>2. m <= Len(cache) => rest[Len(rest)] = cache[Len(cache)]
    BY <1>1, <1>2
  <2> QED BY <2>1, <2>2, EmptySeq
<1> QED BY <1>2, <1>6, <1>7, <1>8 DEF rest

\* Age removes old entries only.
LEMMA DropExpiredEntries ==
    ASSUME NEW cache \in Seq(Entry), NEW now \in Nat
    PROVE  LET rest == DropExpired(cache, now) IN
           /\ rest \in Seq(Entry)
           /\ Len(rest) <= Len(cache)
           /\ Elements(rest) \subseteq Elements(cache)
           /\ \A x \in Elements(cache) : x.at >= now - Ttl
                 => x \in Elements(rest)
           /\ Distinct(cache) => Distinct(rest)
           /\ cache # <<>> /\ cache[Len(cache)].at >= now - Ttl
                 => rest # <<>> /\ rest[Len(rest)] = cache[Len(cache)]
<1> DEFINE young == {i \in DOMAIN cache : cache[i].at >= now - Ttl}
           rest == DropExpired(cache, now)
<1>1. /\ Len(cache) \in Nat
      /\ DOMAIN cache = 1 .. Len(cache)
      /\ Elements(cache) = {cache[i] : i \in 1 .. Len(cache)}
  BY CacheDomain
<1>2. cache # <<>> => Len(cache) \in DOMAIN cache
  BY <1>1, EmptySeq
<1>3. CASE young = {}
  <2>1. rest = <<>>
    BY <1>3 DEF DropExpired
  <2>2. rest \in Seq(Entry) /\ Len(rest) = 0 /\ DOMAIN rest = {}
    BY <2>1, EmptySeq
  <2>3. \A x \in Elements(cache) : ~ (x.at >= now - Ttl)
    BY <1>3 DEF Elements
  <2>4. Elements(rest) = {} /\ Distinct(rest)
    BY <2>2 DEF Elements, Distinct
  <2>5. ~ (cache # <<>> /\ cache[Len(cache)].at >= now - Ttl)
    BY <1>2, <1>3
  <2> HIDE DEF rest
  <2> QED BY <1>1, <2>2, <2>3, <2>4, <2>5 DEF rest
<1>4. CASE young # {}
  <2> DEFINE m == CHOOSE i \in young : \A j \in young : i <= j
  <2>1. young \in SUBSET Nat /\ IsFiniteSet(young)
    <3>1. IsFiniteSet(1 .. Len(cache))
      BY <1>1, FS_Interval
    <3>2. IsFiniteSet(young)
      BY <1>1, <3>1, FS_Subset
    <3> QED BY <1>1, <3>2
  <2>2. m \in young /\ \A j \in young : m <= j
    BY <1>4, <2>1, LeastElement
  <2>3. rest = SubSeq(cache, m, Len(cache))
    BY <1>4 DEF DropExpired
  <2> HIDE DEF m
  <2>4. m \in 1 .. Len(cache) + 1 /\ m <= Len(cache)
    BY <1>1, <2>2
  <2>5. /\ rest \in Seq(Entry)
        /\ Len(rest) = Len(cache) - m + 1
        /\ Elements(rest) = {cache[i] : i \in m .. Len(cache)}
        /\ Distinct(cache) => Distinct(rest)
        /\ rest # <<>> /\ rest[Len(rest)] = cache[Len(cache)]
    BY <2>3, <2>4, SuffixEntries
  <2>6. Len(rest) <= Len(cache)
    BY <1>1, <2>4, <2>5
  <2>7. Elements(rest) \subseteq Elements(cache)
    BY <1>1, <2>4, <2>5
  <2>8. ASSUME NEW x \in Elements(cache), x.at >= now - Ttl
        PROVE  x \in Elements(rest)
    <3>1. PICK i \in 1 .. Len(cache) : x = cache[i]
      BY <1>1
    <3>2. i \in m .. Len(cache)
      BY <1>1, <2>2, <2>4, <2>8, <3>1
    <3> QED BY <2>5, <3>1, <3>2
  <2> HIDE DEF rest
  <2> QED BY <2>5, <2>6, <2>7, <2>8 DEF rest
<1> QED BY <1>3, <1>4

\* The limit leaves room for one entry, and removes the first ones only.
LEMMA KeepNewestEntries ==
    ASSUME NEW cache \in Seq(Entry)
    PROVE  LET rest == KeepNewest(cache) IN
           /\ rest \in Seq(Entry)
           /\ Len(rest) < MaxEntries
           /\ Elements(rest) \subseteq Elements(cache)
           /\ Len(cache) < MaxEntries => rest = cache
           /\ Distinct(cache) => Distinct(rest)
           /\ MaxEntries > 1 /\ cache # <<>>
                 => rest # <<>> /\ rest[Len(rest)] = cache[Len(cache)]
<1> DEFINE rest == KeepNewest(cache)
           m == Len(cache) - MaxEntries + 2
<1>1. /\ Len(cache) \in Nat
      /\ Elements(cache) = {cache[i] : i \in 1 .. Len(cache)}
  BY CacheDomain
<1>2. CASE Len(cache) < MaxEntries
  <2>1. rest = cache
    BY <1>2 DEF KeepNewest
  <2> HIDE DEF rest
  <2> QED BY <1>2, <2>1 DEF rest
<1>3. CASE ~ (Len(cache) < MaxEntries)
  <2>1. rest = SubSeq(cache, m, Len(cache))
    BY <1>3 DEF KeepNewest
  <2>2. m \in 1 .. Len(cache) + 1 /\ (MaxEntries > 1 => m <= Len(cache))
    BY <1>1, <1>3
  <2>3. Len(cache) - m + 1 = MaxEntries - 1
    BY <1>1
  <2> HIDE DEF m
  <2>4. /\ rest \in Seq(Entry)
        /\ Len(rest) = Len(cache) - m + 1
        /\ Elements(rest) = {cache[i] : i \in m .. Len(cache)}
        /\ Distinct(cache) => Distinct(rest)
        /\ m <= Len(cache)
              => rest # <<>> /\ rest[Len(rest)] = cache[Len(cache)]
    BY <2>1, <2>2, SuffixEntries
  <2>5. Elements(rest) \subseteq Elements(cache)
    BY <1>1, <2>2, <2>4
  <2>6. Len(rest) < MaxEntries
    BY <2>3, <2>4
  <2> HIDE DEF rest
  <2> QED BY <1>3, <2>2, <2>4, <2>5, <2>6 DEF rest
<1> QED BY <1>2, <1>3

\* _purge_seen
LEMMA PurgedEntries ==
    ASSUME NEW cache \in Seq(Entry), NEW now \in Nat
    PROVE  LET rest == Purged(cache, now) IN
           /\ rest \in Seq(Entry)
           /\ Len(rest) < MaxEntries
           /\ Elements(rest) \subseteq Elements(cache)
           /\ Distinct(cache) => Distinct(rest)
           /\ Len(cache) < MaxEntries
                 => \A x \in Elements(cache) : x.at >= now - Ttl
                       => x \in Elements(rest)
           /\ MaxEntries > 1 /\ cache # <<>>
              /\ cache[Len(cache)].at >= now - Ttl
                 => cache[Len(cache)] \in Elements(rest)
<1> DEFINE young == DropExpired(cache, now)
           rest == Purged(cache, now)
<1>1. /\ young \in Seq(Entry)
      /\ Len(young) <= Len(cache)
      /\ Elements(young) \subseteq Elements(cache)
      /\ \A x \in Elements(cache) : x.at >= now - Ttl => x \in Elements(young)
      /\ Distinct(cache) => Distinct(young)
      /\ cache # <<>> /\ cache[Len(cache)].at >= now - Ttl
            => young # <<>> /\ young[Len(young)] = cache[Len(cache)]
  BY DropExpiredEntries
<1>2. rest = KeepNewest(young)
  BY DEF Purged
<1> HIDE DEF young
<1>3. /\ rest \in Seq(Entry)
      /\ Len(rest) < MaxEntries
      /\ Elements(rest) \subseteq Elements(young)
      /\ Len(young) < MaxEntries => rest = young
      /\ Distinct(young) => Distinct(rest)
      /\ MaxEntries > 1 /\ young # <<>>
            => rest # <<>> /\ rest[Len(rest)] = young[Len(young)]
  BY <1>1, <1>2, KeepNewestEntries
<1> HIDE DEF rest
<1>4. Len(cache) < MaxEntries => Len(young) < MaxEntries
  BY <1>1, LenProperties
<1>5. rest # <<>> => rest[Len(rest)] \in Elements(rest)
  <2>1. Len(rest) \in Nat /\ DOMAIN rest = 1 .. Len(rest)
    BY <1>3, LenProperties
  <2> QED BY <1>3, <2>1, EmptySeq DEF Elements
<1> QED BY <1>1, <1>3, <1>4, <1>5 DEF rest

\* Some entries removed, the others in their order.
LEMMA SelectedEntries ==
    ASSUME NEW cache \in Seq(Entry), NEW P \in SUBSET DOMAIN cache
    PROVE  LET rest == Selected(cache, P) IN
           /\ rest \in Seq(Entry)
           /\ Len(rest) <= Len(cache)
           /\ P # DOMAIN cache => Len(rest) < Len(cache)
           /\ Elements(rest) = {cache[i] : i \in P}
           /\ Distinct(cache) => Distinct(rest)
<1> DEFINE rest == Selected(cache, P)
           at == Sorted(P)
<1>1. Len(cache) \in Nat /\ DOMAIN cache = 1 .. Len(cache)
  BY LenProperties
<1>2. P \in SUBSET (1 .. Len(cache))
  BY <1>1
<1>3. /\ IsFiniteSet(P)
      /\ rest \in Seq(Entry)
      /\ Len(rest) = Cardinality(P)
      /\ Cardinality(P) \in Nat
      /\ \A i \in 1 .. Cardinality(P) : at[i] \in P /\ rest[i] = cache[at[i]]
      /\ \A i, j \in 1 .. Cardinality(P) : at[i] = at[j] => i = j
      /\ \A p \in P : \E i \in 1 .. Cardinality(P) : at[i] = p
  <2>1. /\ IsFiniteSet(P)
        /\ Selected(cache, P) \in Seq(Entry)
        /\ Len(Selected(cache, P)) = Cardinality(P)
        /\ Cardinality(P) \in Nat
    BY <1>2, SelectedElements
  <2>2. \A i \in 1 .. Cardinality(P) :
           Sorted(P)[i] \in P /\ Selected(cache, P)[i] = cache[Sorted(P)[i]]
    BY <1>2, SelectedElements
  <2>3. \A i, j \in 1 .. Cardinality(P) : Sorted(P)[i] = Sorted(P)[j] => i = j
    BY <1>2, SelectedElements
  <2>4. \A p \in P : \E i \in 1 .. Cardinality(P) : Sorted(P)[i] = p
    BY <1>2, SelectedElements
  <2> QED BY <2>1, <2>2, <2>3, <2>4
<1>4. DOMAIN rest = 1 .. Cardinality(P)
  BY <1>3, LenProperties
<1>5. /\ Cardinality(P) <= Len(cache)
      /\ Cardinality(P) = Len(cache) => P = DOMAIN cache
  <2>1. IsFiniteSet(1 .. Len(cache)) /\ Cardinality(1 .. Len(cache)) = Len(cache)
    BY <1>1, IntervalSize
  <2> QED BY <1>1, <1>2, <2>1, FS_Subset
<1> HIDE DEF rest, at
<1>6. Elements(rest) = {cache[i] : i \in P}
  <2>1. ASSUME NEW x \in Elements(rest)
        PROVE  \E p \in P : x = cache[p]
    BY <1>3, <1>4 DEF Elements
  <2>2. ASSUME NEW p \in P
        PROVE  cache[p] \in Elements(rest)
    BY <1>3, <1>4 DEF Elements
  <2> QED BY <2>1, <2>2
<1>7. Distinct(cache) => Distinct(rest)
  BY <1>3, <1>4 DEF Distinct
<1>8. P # DOMAIN cache => Len(rest) < Len(cache)
  BY <1>1, <1>3, <1>5
<1> QED BY <1>3, <1>5, <1>6, <1>7, <1>8 DEF rest

\* An entry moved or put to the end replaces the one of its identity.
LEMMA PutLastEntries ==
    ASSUME NEW cache \in Seq(Entry), NEW entry \in Entry
    PROVE  LET more == PutLast(cache, entry) IN
           /\ more \in Seq(Entry)
           /\ entry.id \in Remembered(cache) => Len(more) <= Len(cache)
           /\ Elements(more)
                 = {x \in Elements(cache) : x.id # entry.id} \cup {entry}
           /\ Distinct(cache) => Distinct(more)
           /\ more # <<>> /\ more[Len(more)] = entry
<1> DEFINE P == {i \in DOMAIN cache : cache[i].id # entry.id}
           others == Without(cache, entry.id)
           more == PutLast(cache, entry)
<1>1. others = Selected(cache, P)
  BY DEF Without
<1>2. /\ others \in Seq(Entry)
      /\ Len(others) <= Len(cache)
      /\ P # DOMAIN cache => Len(others) < Len(cache)
      /\ Elements(others) = {cache[i] : i \in P}
      /\ Distinct(cache) => Distinct(others)
  BY <1>1, SelectedEntries
<1>3. Len(cache) \in Nat /\ Len(others) \in Nat
      /\ DOMAIN others = 1 .. Len(others)
  BY <1>2, LenProperties
<1>4. more = Append(others, entry)
  BY DEF PutLast
<1> HIDE DEF others
<1>5. /\ more \in Seq(Entry)
      /\ Len(more) = Len(others) + 1
      /\ \A i \in 1 .. Len(others) : more[i] = others[i]
      /\ more[Len(others) + 1] = entry
  BY <1>2, <1>4, AppendProperties
<1> HIDE DEF more
<1>6. DOMAIN more = 1 .. Len(others) + 1
  BY <1>5, LenProperties
<1>7. Elements(others) = {x \in Elements(cache) : x.id # entry.id}
  BY <1>2 DEF Elements
<1>8. Elements(more) = Elements(others) \cup {entry}
  <2>1. \A i \in 1 .. Len(others) + 1 :
           i \in 1 .. Len(others) \/ i = Len(others) + 1
    BY <1>3
  <2>2. 1 .. Len(others) \subseteq 1 .. Len(others) + 1
        /\ Len(others) + 1 \in 1 .. Len(others) + 1
    BY <1>3
  <2> QED BY <1>3, <1>5, <1>6, <2>1, <2>2 DEF Elements
<1>9. ASSUME Distinct(cache)
      PROVE  Distinct(more)
  <2>1. \A i \in 1 .. Len(others) : others[i].id # entry.id
    BY <1>3, <1>7 DEF Elements
  <2>2. \A i, j \in 1 .. Len(others) : others[i].id = others[j].id => i = j
    BY <1>2, <1>3, <1>9 DEF Distinct
  <2>3. \A i \in DOMAIN more : i \in 1 .. Len(others) \/ i = Len(others) + 1
    BY <1>3, <1>6
  <2> QED BY <1>5, <2>1, <2>2, <2>3 DEF Distinct
<1>10. entry.id \in Remembered(cache) => Len(more) <= Len(cache)
  <2>1. entry.id \in Remembered(cache) => P # DOMAIN cache
    BY DEF Remembered
  <2> QED BY <1>2, <1>3, <1>5, <2>1
<1>11. more # <<>> /\ more[Len(more)] = entry
  <2>1. Len(more) # 0
    BY <1>3, <1>5
  <2> QED BY <1>5, <2>1, EmptySeq
<1> QED BY <1>5, <1>7, <1>8, <1>9, <1>10, <1>11 DEF more
-----------------------------------------------------------------------------
(* The state.                                                              *)

\* Below its limit, with one entry per identity.
CacheInv == Len(seen) < MaxEntries /\ Distinct(seen)

IsNumbered(k) == k[1] \in Visible \cup Sequenced

\* The quote of a key is its last tick: there is none before the first one and
\* as long as there was one, and no earlier tick of the session is beyond it.
QuoteIsLast ==
    \A k \in Key :
        /\ \A q \in quote[k] : q.sequence # None <=> IsNumbered(k)
        /\ published[k] # {} => quote[k] # {}
        /\ \A old \in published[k], q \in quote[k] :
              /\ old.sequence <= q.sequence
              /\ k[1] \notin Visible \/ Rejects("adjusted")
                    => old.order <= q.order

AdapterInv ==
    /\ TypeOK
    /\ CacheInv
    /\ SuppressedWasPublished
    /\ NewestRemembered
    /\ QuoteIsLast
    /\ SidesCarried

\* An envelope of the callers, and the quote and identity it makes.
LEMMA InputTypes ==
    ASSUME TypeOK, NEW e \in Input
    PROVE  /\ e.key \in Key /\ e.key[1] \in Session
           /\ e.order \in Time /\ e.received \in Time /\ e.collected \in Time
           /\ e.claimed \in BOOLEAN
           /\ e.sequence \in Sequence /\ e.persisted \in Sequence
           /\ e.prices \in [Side -> Price \cup {None}]
           /\ Possible(e)
           /\ Time \subseteq Nat /\ Sequence \subseteq Nat
<1>1. e \in Envelope /\ Possible(e)
  BY DEF Input
<1>2. Sequence \subseteq Nat
  BY DEF Sequence
<1>3. e.key \in Key /\ e.key[1] \in Session
  BY <1>1 DEF Envelope, Key
<1> QED BY <1>1, <1>2, <1>3 DEF Envelope

\* What a key's ticks and its quote hold.
LEMMA KeyTypes ==
    ASSUME TypeOK, NEW k \in Key
    PROVE  /\ \A old \in published[k] :
                 old.order \in Nat /\ old.sequence \in Nat
           /\ \A q \in quote[k] : q.order \in Nat /\ q.sequence \in Nat
<1>1. published[k] \in SUBSET Identity /\ quote[k] \in SUBSET Quote
  BY DEF TypeOK
<1>2. \A q \in Quote : q.order \in Time /\ q.sequence \in Sequence
  BY DEF Quote
<1>3. Sequence \subseteq Nat
  BY DEF Sequence
<1> QED BY <1>1, <1>2, <1>3, IdentityTypes

\* A side that an envelope leaves out is there to be taken from the quote.
LEMMA MergedSides ==
    ASSUME TypeOK, NEW e \in Input, Complete(e)
    PROVE  /\ Merged(e) \in Prices
           /\ \A side \in Side :
                 \/ e.prices[side] # None /\ Merged(e)[side] = e.prices[side]
                 \/ /\ e.prices[side] = None
                    /\ \E q \in quote[e.key] : Merged(e)[side] = q.prices[side]
<1>1. /\ e.key \in Key
      /\ e.prices \in [Side -> Price \cup {None}]
      /\ Possible(e)
  BY InputTypes
<1>2. quote[e.key] \in SUBSET Quote
  BY <1>1 DEF TypeOK
<1>3. ASSUME NEW side \in Side, e.prices[side] = None
      PROVE  (CHOOSE q \in quote[e.key] : TRUE) \in quote[e.key]
  <2>1. ~e.snapshot
    BY <1>1, <1>3 DEF Possible
  <2>2. quote[e.key] # {}
    BY <2>1 DEF Complete
  <2> QED BY <2>2
<1>4. \A q \in Quote, side \in Side : q.prices[side] \in Price
  BY DEF Quote, Prices
<1>5. ASSUME NEW side \in Side
      PROVE  /\ Merged(e)[side] \in Price
             /\ \/ e.prices[side] # None /\ Merged(e)[side] = e.prices[side]
                \/ /\ e.prices[side] = None
                   /\ \E q \in quote[e.key] : Merged(e)[side] = q.prices[side]
  <2>1. CASE e.prices[side] # None
    BY <1>1, <2>1 DEF Merged
  <2>2. CASE e.prices[side] = None
    BY <1>2, <1>3, <1>4, <2>2 DEF Merged
  <2> QED BY <2>1, <2>2
<1>6. Merged(e) = [side \in Side |-> Merged(e)[side]]
  BY DEF Merged
<1>7. Merged(e) \in Prices
  BY <1>5, <1>6 DEF Prices
<1> QED BY <1>5, <1>7

LEMMA IdType ==
    ASSUME TypeOK, NEW e \in Input, Complete(e)
    PROVE  /\ IdOf(e) \in Identity
           /\ [id |-> IdOf(e), at |-> e.collected] \in Entry
<1>1. Merged(e) \in Prices
  BY MergedSides
<1>2. IdOf(e) \in Identity
  BY <1>1, InputTypes DEF IdOf, Identity
<1> QED BY <1>2, InputTypes DEF Entry

\* What process looks at before it decides leaves a cache as it must be.
LEMMA PurgedCache ==
    ASSUME TypeOK, CacheInv, NEW now \in Nat
    PROVE  LET cache == Purged(seen, now) IN
           /\ cache \in Seq(Entry)
           /\ Len(cache) < MaxEntries
           /\ Distinct(cache)
           /\ Elements(cache) \subseteq Elements(seen)
           /\ \A x \in Elements(seen) : x.at >= now - Ttl
                 => x \in Elements(cache)
BY PurgedEntries DEF TypeOK, CacheInv

\* The cache after a rejected envelope is the purged one, ...
LEMMA RejectCache ==
    ASSUME TypeOK, CacheInv, NEW e \in Input, Reject(e)
    PROVE  /\ seen' \in Seq(Entry)
           /\ Len(seen') < MaxEntries
           /\ Distinct(seen')
           /\ Elements(seen') \subseteq Elements(seen)
           /\ \A x \in Elements(seen) : x.at >= e.collected - Ttl
                 => x \in Elements(seen')
           /\ newest' = {x \in newest : x.at >= e.collected - Ttl}
           /\ UNCHANGED <<quote, policy, published, made, carried>>
<1>1. e.collected \in Nat
  BY InputTypes
<1>2. seen' = Purged(seen, e.collected)
  BY DEF Reject
<1> QED BY <1>1, <1>2, PurgedCache DEF Reject, Outlived

\* ... after a duplicate it has the same entries, ...
LEMMA SuppressCache ==
    ASSUME TypeOK, CacheInv, NEW e \in Input, Suppress(e)
    PROVE  /\ seen' \in Seq(Entry)
           /\ Len(seen') < MaxEntries
           /\ Distinct(seen')
           /\ Elements(seen') \subseteq Elements(seen)
           /\ \A x \in Elements(seen) : x.at >= e.collected - Ttl
                 => x \in Elements(seen')
           /\ newest' = {x \in newest : x.at >= e.collected - Ttl}
           /\ UNCHANGED <<quote, policy, published, made, carried>>
<1> DEFINE cache == Purged(seen, e.collected)
<1>1. e.collected \in Nat
  BY InputTypes
<1>2. /\ cache \in Seq(Entry)
      /\ Len(cache) < MaxEntries
      /\ Distinct(cache)
      /\ Elements(cache) \subseteq Elements(seen)
      /\ \A x \in Elements(seen) : x.at >= e.collected - Ttl
            => x \in Elements(cache)
  BY <1>1, PurgedCache
<1>3. PICK i \in DOMAIN cache : seen' = PutLast(cache, cache[i])
  BY DEF Suppress
<1>4. /\ newest' = {x \in newest : x.at >= e.collected - Ttl}
      /\ UNCHANGED <<quote, policy, published, made, carried>>
  BY DEF Suppress, Outlived
<1> HIDE DEF cache
<1>5. /\ cache[i] \in Entry /\ cache[i] \in Elements(cache)
      /\ cache[i].id \in Remembered(cache)
      /\ Len(cache) \in Nat
  BY <1>2, <1>3, LenProperties DEF Elements, Remembered
<1>6. /\ seen' \in Seq(Entry)
      /\ Len(seen') <= Len(cache)
      /\ Elements(seen')
            = {x \in Elements(cache) : x.id # cache[i].id} \cup {cache[i]}
      /\ Distinct(seen')
  BY <1>2, <1>3, <1>5, PutLastEntries
<1>7. \A x \in Elements(cache) : x.id = cache[i].id => x = cache[i]
  BY <1>2, <1>3 DEF Elements, Distinct
<1>8. Elements(seen') = Elements(cache)
  BY <1>5, <1>6, <1>7
<1>9. Len(seen') < MaxEntries
  <2>1. Len(seen') \in Nat
    BY <1>6, LenProperties
  <2> QED BY <1>2, <1>5, <1>6, <2>1
<1> QED BY <1>2, <1>4, <1>6, <1>8, <1>9

\* ... and after a tick that tick's entry is new, and there unless the cache has
\* no room for any.
LEMMA PublishCache ==
    ASSUME TypeOK, CacheInv, NEW e \in Input, Publish(e)
    PROVE  /\ seen' \in Seq(Entry)
           /\ Len(seen') < MaxEntries
           /\ Distinct(seen')
           /\ Elements(seen') \subseteq
                 Elements(seen) \cup {[id |-> IdOf(e), at |-> e.collected]}
           /\ MaxEntries > 1
                 => [id |-> IdOf(e), at |-> e.collected] \in Elements(seen')
<1> DEFINE cache == Purged(seen, e.collected)
           entry == [id |-> IdOf(e), at |-> e.collected]
           more == PutLast(cache, entry)
<1>1. e.collected \in Nat
  BY InputTypes
<1>2. /\ cache \in Seq(Entry)
      /\ Distinct(cache)
      /\ Elements(cache) \subseteq Elements(seen)
  BY <1>1, PurgedCache
<1>3. entry \in Entry
  <2>1. Complete(e)
    BY DEF Publish, Admissible
  <2> QED BY <2>1, IdType
<1>4. seen' = Purged(more, e.collected)
  BY DEF Publish
<1>5. entry.at = e.collected
  OBVIOUS
<1> HIDE DEF cache, entry
<1>6. /\ more \in Seq(Entry)
      /\ Elements(more) = {x \in Elements(cache) : x.id # entry.id} \cup {entry}
      /\ Distinct(more)
      /\ more # <<>> /\ more[Len(more)] = entry
  BY <1>2, <1>3, PutLastEntries
<1> HIDE DEF more
<1>7. entry.at >= e.collected - Ttl
  BY <1>1, <1>5
<1>8. /\ seen' \in Seq(Entry)
      /\ Len(seen') < MaxEntries
      /\ Elements(seen') \subseteq Elements(more)
      /\ Distinct(seen')
      /\ MaxEntries > 1 => entry \in Elements(seen')
  BY <1>1, <1>4, <1>6, <1>7, PurgedEntries
<1> QED BY <1>2, <1>6, <1>8 DEF entry

\* on_disconnect removes the entries of its session and no others.
LEMMA DisconnectCache ==
    ASSUME TypeOK, CacheInv, NEW s \in Session, Disconnect(s)
    PROVE  /\ seen' \in Seq(Entry)
           /\ Len(seen') < MaxEntries
           /\ Distinct(seen')
           /\ Elements(seen') = {x \in Elements(seen) : x.id.key[1] # s}
<1> DEFINE P == {i \in DOMAIN seen : seen[i].id.key[1] # s}
<1>1. seen' = Selected(seen, P)
  BY DEF Disconnect, OfOthers
<1>2. seen \in Seq(Entry) /\ Distinct(seen) /\ Len(seen) < MaxEntries
  BY DEF TypeOK, CacheInv
<1>3. /\ seen' \in Seq(Entry)
      /\ Len(seen') <= Len(seen)
      /\ Elements(seen') = {seen[i] : i \in P}
      /\ Distinct(seen')
  BY <1>1, <1>2, SelectedEntries
<1>4. Elements(seen') = {x \in Elements(seen) : x.id.key[1] # s}
  BY <1>3 DEF Elements
<1>5. Len(seen') < MaxEntries
  <2>1. Len(seen') \in Nat /\ Len(seen) \in Nat
    BY <1>2, <1>3, LenProperties
  <2> QED BY <1>2, <1>3, <2>1
<1> QED BY <1>3, <1>4, <1>5
-----------------------------------------------------------------------------
(* One lemma per operation and part of AdapterInv.                         *)

\* A call of process that makes no tick changes the cache only.
Refusal(e) == Reject(e) \/ Suppress(e)

LEMMA RefusalCache ==
    ASSUME TypeOK, CacheInv, NEW e \in Input, Refusal(e)
    PROVE  /\ seen' \in Seq(Entry)
           /\ CacheInv'
           /\ Elements(seen') \subseteq Elements(seen)
           /\ \A x \in Elements(seen) : x.at >= e.collected - Ttl
                 => x \in Elements(seen')
           /\ newest' = {x \in newest : x.at >= e.collected - Ttl}
           /\ UNCHANGED <<quote, policy, published, made, carried>>
<1>1. CacheInv' <=> Len(seen') < MaxEntries /\ Distinct(seen')
  BY DEF CacheInv, Distinct
<1>2. CASE Reject(e)
  BY <1>1, <1>2, RejectCache
<1>3. CASE Suppress(e)
  BY <1>1, <1>3, SuppressCache
<1> QED BY <1>2, <1>3 DEF Refusal

LEMMA RefusalKeeps ==
    ASSUME AdapterInv, NEW e \in Input, Refusal(e)
    PROVE  AdapterInv'
<1>1. TypeOK /\ CacheInv
  BY DEF AdapterInv
<1>2. /\ seen' \in Seq(Entry)
      /\ CacheInv'
      /\ Elements(seen') \subseteq Elements(seen)
      /\ \A x \in Elements(seen) : x.at >= e.collected - Ttl
            => x \in Elements(seen')
      /\ newest' = {x \in newest : x.at >= e.collected - Ttl}
      /\ UNCHANGED <<quote, policy, published, made, carried>>
  BY <1>1, RefusalCache
<1>3. TypeOK'
  BY <1>1, <1>2 DEF TypeOK
<1>4. SuppressedWasPublished'
  <2>1. SUFFICES ASSUME NEW x \in Elements(seen')
                 PROVE  x.id \in published'[x.id.key]
    BY DEF SuppressedWasPublished, Remembered, Elements
  <2>2. x \in Elements(seen) /\ published' = published
    BY <1>2
  <2>3. x.id \in published[x.id.key]
    BY <2>2 DEF AdapterInv, SuppressedWasPublished, Remembered, Elements
  <2> QED BY <2>2, <2>3
<1>5. NewestRemembered'
  BY <1>2 DEF AdapterInv, NewestRemembered, Elements
<1>6. QuoteIsLast'
  BY <1>2 DEF AdapterInv, QuoteIsLast, Rejects
<1>7. SidesCarried'
  BY <1>2 DEF AdapterInv, SidesCarried
<1> QED BY <1>2, <1>3, <1>4, <1>5, <1>6, <1>7 DEF AdapterInv

\* The tick an envelope makes comes after all ticks of its session.
LEMMA PublishFollows ==
    ASSUME AdapterInv, NEW e \in Input, Publish(e)
    PROVE  /\ e.sequence # None <=> IsNumbered(e.key)
           /\ \A old \in published[e.key] :
                 /\ old.sequence <= e.sequence
                 /\ e.sequence # None => old.sequence < e.sequence
                 /\ e.key[1] \notin Visible \/ Rejects("adjusted")
                       => old.order <= e.order
<1>1. /\ e.key \in Key /\ Possible(e)
      /\ e.sequence \in Nat /\ e.order \in Nat
  BY InputTypes DEF AdapterInv
<1>2. Numbered(e) /\ Follows(e)
  BY DEF Publish, Admissible
<1>3. e.sequence # None <=> IsNumbered(e.key)
  BY <1>1, <1>2 DEF Possible, Numbered, IsVisible, IsNumbered
<1>4. ASSUME NEW old \in published[e.key]
      PROVE  /\ old.sequence <= e.sequence
             /\ e.sequence # None => old.sequence < e.sequence
             /\ e.key[1] \notin Visible \/ Rejects("adjusted")
                   => old.order <= e.order
  <2>1. PICK q \in quote[e.key] :
           /\ q.sequence # None <=> IsNumbered(e.key)
           /\ old.sequence <= q.sequence
           /\ e.key[1] \notin Visible \/ Rejects("adjusted")
                 => old.order <= q.order
    BY <1>1 DEF AdapterInv, QuoteIsLast
  <2>2. /\ q.sequence \in Nat /\ q.order \in Nat
        /\ old.sequence \in Nat /\ old.order \in Nat
    BY <1>1, KeyTypes DEF AdapterInv
  <2>3. /\ e.sequence # None /\ q.sequence # None => e.sequence > q.sequence
        /\ e.order < q.order
              => IsVisible(e) /\ e.sequence # None /\ ~Rejects("adjusted")
    BY <1>2 DEF Follows
  <2>4. e.sequence # None => q.sequence < e.sequence
    BY <1>3, <2>1, <2>3
  <2>5. e.sequence = None => q.sequence = None
    BY <1>3, <2>1
  <2>6. /\ old.sequence <= e.sequence
        /\ e.sequence # None => old.sequence < e.sequence
    BY <1>1, <2>1, <2>2, <2>4, <2>5 DEF None
  <2>7. e.key[1] \notin Visible \/ Rejects("adjusted") => q.order <= e.order
    BY <1>1, <2>2, <2>3 DEF IsVisible
  <2>8. e.key[1] \notin Visible \/ Rejects("adjusted") => old.order <= e.order
    BY <1>1, <2>1, <2>2, <2>7
  <2> QED BY <2>6, <2>8
<1> QED BY <1>3, <1>4

LEMMA PublishKeeps ==
    ASSUME AdapterInv, NEW e \in Input, Publish(e)
    PROVE  AdapterInv'
<1> DEFINE k == e.key
           q == [prices |-> Merged(e), updated |-> e.received,
                 order |-> e.order, sequence |-> e.sequence]
           entry == [id |-> IdOf(e), at |-> e.collected]
<1>1. TypeOK /\ CacheInv
  BY DEF AdapterInv
<1>2. /\ k \in Key
      /\ e.prices \in [Side -> Price \cup {None}]
      /\ e.order \in Nat /\ e.sequence \in Nat
  BY <1>1, InputTypes
<1>3. Complete(e)
  BY DEF Publish, Admissible
<1>4. /\ quote' = [quote EXCEPT ![k] = {q}]
      /\ published' = [published EXCEPT ![k] = @ \cup {IdOf(e)}]
      /\ made' = made + 1 /\ made < MaxTicks
      /\ carried' = [carried EXCEPT ![k] =
            [side \in Side |-> IF e.prices[side] # None THEN e.prices[side]
                               ELSE @[side]]]
      /\ newest' = {entry}
      /\ policy' = policy
  BY DEF Publish
<1>5. /\ seen' \in Seq(Entry)
      /\ Len(seen') < MaxEntries
      /\ Distinct(seen')
      /\ Elements(seen') \subseteq Elements(seen) \cup {entry}
      /\ MaxEntries > 1 => entry \in Elements(seen')
  BY <1>1, PublishCache
<1>6. /\ IdOf(e) \in Identity /\ entry \in Entry
      /\ IdOf(e).key = k /\ IdOf(e).sequence = e.sequence
      /\ IdOf(e).order = e.order
  BY <1>1, <1>3, IdType DEF IdOf
<1>7. Merged(e) \in Prices
      /\ \A side \in Side :
            \/ e.prices[side] # None /\ Merged(e)[side] = e.prices[side]
            \/ /\ e.prices[side] = None
               /\ \E last \in quote[k] : Merged(e)[side] = last.prices[side]
  BY <1>1, <1>3, MergedSides
<1>8. /\ q \in Quote
      /\ q.prices = Merged(e) /\ q.sequence = e.sequence /\ q.order = e.order
  BY <1>1, <1>7, InputTypes DEF Quote
<1>9. entry.id = IdOf(e)
  OBVIOUS
<1> HIDE DEF k, q, entry
<1>10. TypeOK'
  <2>1. /\ quote' \in [Key -> SUBSET Quote]
        /\ \A l \in Key : Cardinality(quote'[l]) <= 1
    <3>1. quote \in [Key -> SUBSET Quote]
          /\ \A l \in Key : Cardinality(quote[l]) <= 1
      BY <1>1 DEF TypeOK
    <3>2. Cardinality({q}) = 1
      BY FS_Singleton
    <3>3. quote' \in [Key -> SUBSET Quote]
      BY <1>2, <1>4, <1>8, <3>1
    <3>4. \A l \in Key : quote'[l] = IF l = k THEN {q} ELSE quote[l]
      BY <1>2, <1>4, <3>1
    <3>5. ASSUME NEW l \in Key
          PROVE  Cardinality(quote'[l]) <= 1
      <4>1. CASE l = k
        <5>1. quote'[l] = {q}
          BY <3>4, <4>1
        <5> QED BY <3>2, <5>1
      <4>2. CASE l # k
        <5>1. quote'[l] = quote[l]
          BY <3>4, <4>2
        <5> QED BY <3>1, <5>1
      <4> QED BY <4>1, <4>2
    <3> QED BY <3>3, <3>5
  <2>2. published' \in [Key -> SUBSET Identity]
    BY <1>1, <1>2, <1>4, <1>6 DEF TypeOK
  <2>3. carried' \in [Key -> [Side -> Price \cup {None}]]
    <3>1. carried \in [Key -> [Side -> Price \cup {None}]]
      BY <1>1 DEF TypeOK
    <3>2. carried[k] \in [Side -> Price \cup {None}]
      BY <1>2, <3>1
    <3>3. [side \in Side |-> IF e.prices[side] # None THEN e.prices[side]
                             ELSE carried[k][side]]
             \in [Side -> Price \cup {None}]
      BY <1>2, <3>2
    <3> QED BY <1>2, <1>4, <3>1, <3>3
  <2>4. made' \in 0 .. MaxTicks
    BY <1>1, <1>4 DEF TypeOK
  <2>5. policy' \in Policies /\ newest' \in SUBSET Entry
    BY <1>1, <1>4, <1>6 DEF TypeOK
  <2> QED BY <1>5, <2>1, <2>2, <2>3, <2>4, <2>5 DEF TypeOK
<1>11. CacheInv'
  BY <1>5 DEF CacheInv, Distinct
<1>12. \A l \in Key : published'[l] =
          IF l = k THEN published[l] \cup {IdOf(e)} ELSE published[l]
  BY <1>1, <1>2, <1>4 DEF TypeOK
<1>13. SuppressedWasPublished'
  <2>1. SUFFICES ASSUME NEW x \in Elements(seen')
                 PROVE  x.id \in published'[x.id.key]
    BY DEF SuppressedWasPublished, Remembered, Elements
  <2>2. CASE x = entry
    BY <1>2, <1>6, <1>9, <1>12, <2>2
  <2>3. CASE x \in Elements(seen)
    <3>1. x.id \in published[x.id.key]
      BY <2>3 DEF AdapterInv, SuppressedWasPublished, Remembered, Elements
    <3>2. x.id.key \in Key
      BY <1>5, ElementTypes
    <3> QED BY <1>12, <3>1, <3>2
  <2> QED BY <1>5, <2>2, <2>3
<1>14. NewestRemembered'
  BY <1>4, <1>5 DEF NewestRemembered, Elements
<1>15. \A l \in Key : quote'[l] = IF l = k THEN {q} ELSE quote[l]
  BY <1>1, <1>2, <1>4 DEF TypeOK
<1>16. QuoteIsLast'
  <2>1. /\ e.sequence # None <=> IsNumbered(k)
        /\ \A old \in published[k] :
              /\ old.sequence <= e.sequence
              /\ k[1] \notin Visible \/ Rejects("adjusted")
                    => old.order <= e.order
    BY PublishFollows DEF k
  <2>2. Rejects("adjusted")' <=> Rejects("adjusted")
    BY <1>4 DEF Rejects
  <2>3. ASSUME NEW l \in Key, l # k
        PROVE  quote'[l] = quote[l] /\ published'[l] = published[l]
    BY <1>12, <1>15, <2>3
  <2>4. /\ quote'[k] = {q}
        /\ published'[k] = published[k] \cup {IdOf(e)}
    BY <1>2, <1>12, <1>15
  <2>5. ASSUME NEW old \in published'[k]
        PROVE  /\ old.sequence <= q.sequence
               /\ k[1] \notin Visible \/ Rejects("adjusted")
                     => old.order <= q.order
    BY <1>2, <1>6, <1>8, <2>1, <2>4
  <2>6. ASSUME NEW l \in Key
        PROVE  /\ \A p \in quote'[l] : p.sequence # None <=> IsNumbered(l)
               /\ published'[l] # {} => quote'[l] # {}
               /\ \A old \in published'[l], p \in quote'[l] :
                     /\ old.sequence <= p.sequence
                     /\ l[1] \notin Visible \/ Rejects("adjusted")
                           => old.order <= p.order
    <3>1. CASE l = k
      BY <1>8, <2>1, <2>4, <2>5, <3>1
    <3>2. CASE l # k
      BY <2>3, <3>2 DEF AdapterInv, QuoteIsLast
    <3> QED BY <3>1, <3>2
  <2> QED BY <2>2, <2>6 DEF QuoteIsLast, IsNumbered
<1>17. SidesCarried'
  <2>1. SUFFICES ASSUME NEW l \in Key, NEW p \in quote'[l]
                 PROVE  p.prices = carried'[l]
    BY DEF SidesCarried
  <2>2. carried \in [Key -> [Side -> Price \cup {None}]]
    BY <1>1 DEF TypeOK
  <2>3. CASE l = k
    <3>1. p = q
      BY <1>15, <2>1, <2>3
    <3>2. carried'[k] =
             [side \in Side |-> IF e.prices[side] # None THEN e.prices[side]
                                ELSE carried[k][side]]
      BY <1>2, <1>4, <2>2
    <3>3. \A last \in quote[k] : last.prices = carried[k]
      BY <1>2 DEF AdapterInv, SidesCarried
    <3>4. \A side \in Side : Merged(e)[side] = carried'[k][side]
      BY <1>7, <3>2, <3>3
    <3>5. Merged(e) = [side \in Side |-> Merged(e)[side]]
      BY DEF Merged
    <3>6. Merged(e) = carried'[k]
      BY <3>2, <3>4, <3>5
    <3> QED BY <1>8, <2>3, <3>1, <3>6
  <2>4. CASE l # k
    BY <1>4, <1>15, <2>1, <2>2, <2>4 DEF AdapterInv, SidesCarried
  <2> QED BY <2>3, <2>4
<1> QED BY <1>10, <1>11, <1>13, <1>14, <1>16, <1>17 DEF AdapterInv

LEMMA DisconnectKeeps ==
    ASSUME AdapterInv, NEW s \in Session, Disconnect(s)
    PROVE  AdapterInv'
<1>1. TypeOK /\ CacheInv
  BY DEF AdapterInv
<1>2. /\ quote' = [k \in Key |-> IF k[1] = s THEN {} ELSE quote[k]]
      /\ published' = [k \in Key |-> IF k[1] = s THEN {} ELSE published[k]]
      /\ carried' = [k \in Key |-> IF k[1] = s THEN [side \in Side |-> None]
                                   ELSE carried[k]]
      /\ newest' = {entry \in newest : entry.id.key[1] # s}
      /\ UNCHANGED <<policy, made>>
  BY DEF Disconnect, QuotesWithout
<1>3. /\ seen' \in Seq(Entry)
      /\ Len(seen') < MaxEntries
      /\ Distinct(seen')
      /\ Elements(seen') = {x \in Elements(seen) : x.id.key[1] # s}
  BY <1>1, DisconnectCache
<1>4. TypeOK'
  <2>1. /\ quote' \in [Key -> SUBSET Quote]
        /\ \A k \in Key : Cardinality(quote'[k]) <= 1
    <3>1. quote \in [Key -> SUBSET Quote]
          /\ \A k \in Key : Cardinality(quote[k]) <= 1
      BY <1>1 DEF TypeOK
    <3> QED BY <1>2, <3>1, FS_EmptySet
  <2>2. published' \in [Key -> SUBSET Identity]
    BY <1>1, <1>2 DEF TypeOK
  <2>3. carried' \in [Key -> [Side -> Price \cup {None}]]
    BY <1>1, <1>2 DEF TypeOK
  <2> QED BY <1>1, <1>2, <1>3, <2>1, <2>2, <2>3 DEF TypeOK
<1>5. CacheInv'
  BY <1>3 DEF CacheInv, Distinct
<1>6. SuppressedWasPublished'
  <2>1. SUFFICES ASSUME NEW x \in Elements(seen')
                 PROVE  x.id \in published'[x.id.key]
    BY DEF SuppressedWasPublished, Remembered, Elements
  <2>2. x \in Elements(seen) /\ x.id.key[1] # s
    BY <1>3
  <2>3. x.id \in published[x.id.key]
    BY <2>2 DEF AdapterInv, SuppressedWasPublished, Remembered, Elements
  <2>4. x.id.key \in Key
    BY <1>3, ElementTypes
  <2> QED BY <1>2, <2>2, <2>3, <2>4
<1>7. NewestRemembered'
  BY <1>2, <1>3 DEF AdapterInv, NewestRemembered, Elements
<1>8. QuoteIsLast'
  <2>1. Rejects("adjusted")' <=> Rejects("adjusted")
    BY <1>2 DEF Rejects
  <2> QED BY <1>2, <2>1 DEF AdapterInv, QuoteIsLast, IsNumbered
<1>9. SidesCarried'
  BY <1>2 DEF AdapterInv, SidesCarried
<1> QED BY <1>4, <1>5, <1>6, <1>7, <1>8, <1>9 DEF AdapterInv

LEMMA InitAdapter == Init => AdapterInv
<1> SUFFICES ASSUME Init PROVE AdapterInv
  OBVIOUS
<1>1. seen = <<>> /\ seen \in Seq(Entry) /\ Len(seen) = 0 /\ DOMAIN seen = {}
  BY EmptySeq DEF Init
<1>2. TypeOK
  BY <1>1, FS_EmptySet DEF Init, TypeOK
<1>3. CacheInv /\ SuppressedWasPublished
  BY <1>1 DEF CacheInv, Distinct, SuppressedWasPublished, Remembered
<1>4. NewestRemembered /\ QuoteIsLast /\ SidesCarried
  BY DEF Init, NewestRemembered, QuoteIsLast, SidesCarried
<1> QED BY <1>2, <1>3, <1>4 DEF AdapterInv

LEMMA StepAdapter == AdapterInv /\ [Next]_vars => AdapterInv'
<1> SUFFICES ASSUME AdapterInv, [Next]_vars PROVE AdapterInv'
  OBVIOUS
<1>1. CASE UNCHANGED vars
  BY <1>1 DEF vars, AdapterInv, TypeOK, CacheInv, Distinct,
     SuppressedWasPublished, Remembered, NewestRemembered, QuoteIsLast,
     Rejects, SidesCarried
<1>2. CASE Next
  BY <1>2, RefusalKeeps, PublishKeeps, DisconnectKeeps DEF Next, Refusal
<1> QED BY <1>1, <1>2

LEMMA Inductive == Spec => []AdapterInv
BY InitAdapter, StepAdapter, PTL DEF Spec

-----------------------------------------------------------------------------
\* Every variable keeps its type, whatever times and sequences callers pass.
THEOREM TypeCorrect == Spec => []TypeOK
<1>1. AdapterInv => TypeOK
  BY DEF AdapterInv
<1> QED BY <1>1, Inductive, PTL

\* The dedup cache stays under its limit and holds only what was published in
\* a session that is still connected.
THEOREM SoundCache == Spec => []CacheSound
<1>1. ASSUME AdapterInv
      PROVE  CacheSound
  <2> DEFINE number == [i \in 1 .. Len(seen) |-> seen[i].id]
  <2>1. /\ DOMAIN seen = 1 .. Len(seen) /\ Len(seen) \in Nat
        /\ Len(seen) < MaxEntries /\ Distinct(seen)
    BY <1>1, LenProperties DEF AdapterInv, TypeOK, CacheInv
  <2>2. number \in Surjection(1 .. Len(seen), Remembered(seen))
    BY <2>1 DEF Surjection, Remembered
  <2>3. number \in Injection(1 .. Len(seen), Remembered(seen))
    BY <2>1 DEF Injection, IsInjective, Remembered, Distinct
  <2>4. Cardinality(Remembered(seen)) = Len(seen)
    BY <2>1, <2>2, <2>3, FS_Surjection, IntervalSize
  <2> QED BY <1>1, <2>1, <2>4 DEF AdapterInv, CacheSound, CacheBounded
<1> QED BY <1>1, Inductive, PTL

\* The last tick is recognised as long as its entry is young and its session
\* connected, if the cache has room for an entry at all.
THEOREM NewestIsRemembered == Spec => []NewestRemembered
<1>1. AdapterInv => NewestRemembered
  BY DEF AdapterInv
<1> QED BY <1>1, Inductive, PTL

\* A published partial combines prices that its session did carry, each the
\* last one of its side.
THEOREM SafeReconstruction == Spec => []SidesCarried
<1>1. AdapterInv => SidesCarried
  BY DEF AdapterInv
<1> QED BY <1>1, Inductive, PTL

\* Ticks of a connected session come in the order of their sequences and, where
\* times must not go back, of their times, however much the cache forgot.
THEOREM TicksInOrder == Spec => OrderedTicks
<1>1. ASSUME AdapterInv, [Next]_vars
      PROVE  [made' > made =>
                 \A entry \in newest' : \A old \in published[entry.id.key] :
                    /\ entry.id.sequence # None
                          => entry.id.sequence > old.sequence
                    /\ entry.id.key[1] \notin Visible \/ Rejects("adjusted")
                          => entry.id.order >= old.order]_vars
  <2>1. SUFFICES ASSUME made' > made
                 PROVE  \A entry \in newest' :
                           \A old \in published[entry.id.key] :
                              /\ entry.id.sequence # None
                                    => entry.id.sequence > old.sequence
                              /\ entry.id.key[1] \notin Visible
                                    \/ Rejects("adjusted")
                                    => entry.id.order >= old.order
    OBVIOUS
  <2>2. made \in Nat
    BY <1>1 DEF AdapterInv, TypeOK
  <2>3. made' # made
    BY <2>1, <2>2
  <2>4. PICK e \in Input : Publish(e)
    BY <1>1, <2>3 DEF Next, Reject, Suppress, Disconnect, vars
  <2>5. newest' = {[id |-> IdOf(e), at |-> e.collected]}
    BY <2>4 DEF Publish
  <2>6. /\ IdOf(e).key = e.key /\ IdOf(e).order = e.order
        /\ IdOf(e).sequence = e.sequence
    BY DEF IdOf
  <2>7. /\ e.key \in Key /\ e.order \in Nat /\ e.sequence \in Nat
        /\ \A old \in published[e.key] :
              old.order \in Nat /\ old.sequence \in Nat
    <3>1. TypeOK
      BY <1>1 DEF AdapterInv
    <3> QED BY <3>1, InputTypes, KeyTypes
  <2>8. ASSUME NEW old \in published[e.key]
        PROVE  /\ e.sequence # None => e.sequence > old.sequence
               /\ e.key[1] \notin Visible \/ Rejects("adjusted")
                     => e.order >= old.order
    BY <1>1, <2>4, <2>7, PublishFollows
  <2> QED BY <2>5, <2>6, <2>8
<1> QED BY <1>1, Inductive, PTL DEF Spec, OrderedTicks
=============================================================================
