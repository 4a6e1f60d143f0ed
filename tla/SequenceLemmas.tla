---------------------------- MODULE SequenceLemmas ----------------------------
(***************************************************************************)
(* The elements of a sequence without repetitions, as Append, Tail and     *)
(* RemoveAt change them, and those of sorted sets and selections.          *)
(***************************************************************************)
EXTENDS Integers, SequencesExt, SequenceTheorems, FiniteSetTheorems, SortedSets,
        TLAPS

LEMMA ElementsOf ==
    ASSUME NEW S, NEW s \in Seq(S)
    PROVE  /\ ToSet(s) = {s[i] : i \in 1 .. Len(s)}
           /\ ToSet(s) \subseteq S
           /\ IsInjective(s) <=> \A i, j \in 1 .. Len(s) : s[i] = s[j] => i = j
<1>1. DOMAIN s = 1 .. Len(s) /\ \A i \in 1 .. Len(s) : s[i] \in S
  BY LenProperties
<1> QED BY <1>1 DEF ToSet, IsInjective

LEMMA AppendElements ==
    ASSUME NEW S, NEW s \in Seq(S), NEW x \in S
    PROVE  /\ ToSet(Append(s, x)) = ToSet(s) \cup {x}
           /\ IsInjective(s) /\ x \notin ToSet(s) => IsInjective(Append(s, x))
<1> DEFINE a == Append(s, x)
<1>1. /\ a \in Seq(S) /\ Len(a) = Len(s) + 1
      /\ \A i \in 1 .. Len(s) : a[i] = s[i]
      /\ a[Len(s) + 1] = x
  BY AppendProperties
<1>2. Len(s) \in Nat
  BY LenProperties
<1>3. /\ ToSet(s) = {s[i] : i \in 1 .. Len(s)}
      /\ IsInjective(s) <=> \A i, j \in 1 .. Len(s) : s[i] = s[j] => i = j
  BY ElementsOf
<1> HIDE DEF a
<1>4. /\ ToSet(a) = {a[i] : i \in 1 .. Len(a)}
      /\ IsInjective(a) <=> \A i, j \in 1 .. Len(a) : a[i] = a[j] => i = j
  BY <1>1, ElementsOf
<1>5. 1 .. Len(a) = 1 .. Len(s) \cup {Len(s) + 1}
  BY <1>1, <1>2
<1>6. ToSet(a) = ToSet(s) \cup {x}
  BY <1>1, <1>3, <1>4, <1>5
<1>7. ASSUME IsInjective(s), x \notin ToSet(s)
      PROVE  IsInjective(a)
  <2>1. \A i \in 1 .. Len(s) : a[i] # x
    BY <1>1, <1>3, <1>7
  <2> QED BY <1>1, <1>3, <1>4, <1>5, <1>7, <2>1
<1> QED BY <1>6, <1>7 DEF a

LEMMA TailElements ==
    ASSUME NEW S, NEW s \in Seq(S), s # <<>>
    PROVE  /\ Head(s) \in ToSet(s)
           /\ IsInjective(s) => /\ IsInjective(Tail(s))
                                /\ ToSet(Tail(s)) = ToSet(s) \ {Head(s)}
<1> DEFINE t == Tail(s)
<1>1. /\ t \in Seq(S) /\ Len(t) = Len(s) - 1
      /\ \A i \in 1 .. Len(t) : t[i] = s[i + 1]
  BY HeadTailProperties
<1>2. Len(s) \in Nat /\ Len(s) # 0
  BY LenProperties, EmptySeq
<1>3. Head(s) = s[1]
  OBVIOUS
<1>4. /\ ToSet(s) = {s[i] : i \in 1 .. Len(s)}
      /\ IsInjective(s) <=> \A i, j \in 1 .. Len(s) : s[i] = s[j] => i = j
  BY ElementsOf
<1> HIDE DEF t
<1>5. /\ ToSet(t) = {t[i] : i \in 1 .. Len(t)}
      /\ IsInjective(t) <=> \A i, j \in 1 .. Len(t) : t[i] = t[j] => i = j
  BY <1>1, ElementsOf
<1>6. Head(s) \in ToSet(s)
  BY <1>2, <1>3, <1>4
<1>7. ASSUME IsInjective(s)
      PROVE  IsInjective(t) /\ ToSet(t) = ToSet(s) \ {Head(s)}
  <2>1. IsInjective(t)
    BY <1>1, <1>2, <1>4, <1>5, <1>7
  <2>2. \A i \in 1 .. Len(t) : t[i] \in ToSet(s) \ {Head(s)}
    BY <1>1, <1>2, <1>3, <1>4, <1>7
  <2>3. ASSUME NEW x \in ToSet(s) \ {Head(s)}
        PROVE  x \in ToSet(t)
    <3>1. PICK i \in 1 .. Len(s) : x = s[i]
      BY <1>4
    <3>2. i # 1
      BY <1>3, <3>1
    <3>3. i - 1 \in 1 .. Len(t) /\ t[i - 1] = s[i]
      BY <1>1, <1>2, <3>2
    <3> QED BY <1>5, <3>1, <3>3
  <2> QED BY <1>5, <2>1, <2>2, <2>3
<1> QED BY <1>6, <1>7 DEF t

LEMMA RemoveAtProperties ==
    ASSUME NEW S, NEW s \in Seq(S), NEW i \in 1 .. Len(s)
    PROVE  /\ RemoveAt(s, i) \in Seq(S)
           /\ Len(RemoveAt(s, i)) = Len(s) - 1
           /\ \A j \in 1 .. Len(s) - 1 :
                RemoveAt(s, i)[j] = IF j < i THEN s[j] ELSE s[j + 1]
<1> DEFINE l == SubSeq(s, 1, i - 1)
           r == SubSeq(s, i + 1, Len(s))
<1>1. Len(s) \in Nat /\ \A j \in 1 .. Len(s) : s[j] \in S
  BY LenProperties
<1>2. /\ l \in Seq(S) /\ Len(l) = i - 1
      /\ \A j \in 1 .. i - 1 : l[j] = s[j]
  <2>1. \A j \in 1 .. i - 1 : s[j] \in S
    BY <1>1
  <2> QED BY <1>1, <2>1, SubSeqProperties
<1>3. /\ r \in Seq(S) /\ Len(r) = Len(s) - i
      /\ \A j \in 1 .. Len(s) - i : r[j] = s[i + j]
  <2>1. \A j \in i + 1 .. Len(s) : s[j] \in S
    BY <1>1
  <2> QED BY <1>1, <2>1, SubSeqProperties
<1>4. RemoveAt(s, i) = l \o r
  BY DEF RemoveAt
<1> HIDE DEF l, r
<1>5. /\ l \o r \in Seq(S) /\ Len(l \o r) = Len(l) + Len(r)
      /\ \A j \in 1 .. Len(l) + Len(r) :
           (l \o r)[j] = IF j <= Len(l) THEN l[j] ELSE r[j - Len(l)]
  BY <1>2, <1>3, ConcatProperties
<1> DEFINE m == l \o r
<1> HIDE DEF m
<1>6. /\ m \in Seq(S) /\ Len(m) = Len(s) - 1
      /\ \A j \in 1 .. Len(s) - 1 :
           m[j] = IF j <= i - 1 THEN l[j] ELSE r[j - (i - 1)]
  BY <1>1, <1>2, <1>3, <1>5 DEF m
<1>7. ASSUME NEW j \in 1 .. Len(s) - 1
      PROVE  m[j] = IF j < i THEN s[j] ELSE s[j + 1]
  <2>1. CASE j < i
    BY <1>1, <1>2, <1>6, <2>1
  <2>2. CASE ~(j < i)
    <3>1. j - (i - 1) \in 1 .. Len(s) - i
      BY <1>1, <2>2
    <3>2. m[j] = r[j - (i - 1)]
      BY <1>1, <1>6, <2>2
    <3>3. r[j - (i - 1)] = s[i + (j - (i - 1))]
      BY <1>3, <3>1
    <3>4. i + (j - (i - 1)) = j + 1
      OBVIOUS
    <3> QED BY <2>2, <3>2, <3>3, <3>4
  <2> QED BY <2>1, <2>2
<1> QED BY <1>4, <1>6, <1>7 DEF m

LEMMA RemoveAtElements ==
    ASSUME NEW S, NEW s \in Seq(S), NEW i \in 1 .. Len(s), IsInjective(s)
    PROVE  /\ IsInjective(RemoveAt(s, i))
           /\ ToSet(RemoveAt(s, i)) = ToSet(s) \ {s[i]}
<1> DEFINE r == RemoveAt(s, i)
<1>1. /\ r \in Seq(S) /\ Len(r) = Len(s) - 1
      /\ \A j \in 1 .. Len(s) - 1 : r[j] = IF j < i THEN s[j] ELSE s[j + 1]
  BY RemoveAtProperties
<1>2. Len(s) \in Nat
  BY LenProperties
<1>3. /\ ToSet(s) = {s[j] : j \in 1 .. Len(s)}
      /\ \A j, k \in 1 .. Len(s) : s[j] = s[k] => j = k
  BY ElementsOf
<1> HIDE DEF r
<1>4. /\ ToSet(r) = {r[j] : j \in 1 .. Len(r)}
      /\ IsInjective(r) <=> \A j, k \in 1 .. Len(r) : r[j] = r[k] => j = k
  BY <1>1, ElementsOf
<1>5. ASSUME NEW j \in 1 .. Len(r), NEW k \in 1 .. Len(r), r[j] = r[k]
      PROVE  j = k
  BY <1>1, <1>2, <1>3, <1>5
<1>6. ASSUME NEW j \in 1 .. Len(r)
      PROVE  r[j] \in ToSet(s) \ {s[i]}
  BY <1>1, <1>2, <1>3
<1>7. ASSUME NEW x \in ToSet(s) \ {s[i]}
      PROVE  x \in ToSet(r)
  <2>1. PICK j \in 1 .. Len(s) : x = s[j]
    BY <1>3
  <2>2. j # i
    BY <2>1
  <2>3. CASE j < i
    <3>1. j \in 1 .. Len(r) /\ r[j] = s[j]
      BY <1>1, <1>2, <2>3
    <3> QED BY <1>4, <2>1, <3>1
  <2>4. CASE j > i
    <3>1. j - 1 \in 1 .. Len(r) /\ r[j - 1] = s[j]
      BY <1>1, <1>2, <2>4
    <3> QED BY <1>4, <2>1, <3>1
  <2> QED BY <2>2, <2>3, <2>4
<1> QED BY <1>4, <1>5, <1>6, <1>7 DEF r

-----------------------------------------------------------------------------
(* A finite set of numbers in increasing order (SortedSets): the i-th one  *)
(* is the one of rank i.                                                   *)

Rank(ids, id) == Cardinality({o \in ids : o <= id})

LEMMA IntervalSize ==
    ASSUME NEW n \in Nat
    PROVE  IsFiniteSet(1 .. n) /\ Cardinality(1 .. n) = n
BY FS_Interval

LEMMA RankType ==
    ASSUME NEW ids \in SUBSET Nat, IsFiniteSet(ids), NEW id \in Nat
    PROVE  /\ Rank(ids, id) \in Nat
           /\ Rank(ids, id) <= Cardinality(ids)
           /\ id \in ids => Rank(ids, id) # 0
<1> DEFINE upTo == {o \in ids : o <= id}
<1>1. IsFiniteSet(upTo) /\ Cardinality(upTo) <= Cardinality(ids)
  BY FS_Subset
<1>2. Cardinality(upTo) \in Nat
  BY <1>1, FS_CardinalityType
<1>3. id \in ids => upTo # {}
  OBVIOUS
<1> QED BY <1>1, <1>2, <1>3, FS_EmptySet DEF Rank

LEMMA RankGrows ==
    ASSUME NEW ids \in SUBSET Nat, IsFiniteSet(ids),
           NEW id \in ids, NEW later \in ids, id < later
    PROVE  Rank(ids, id) < Rank(ids, later)
<1> DEFINE upTo(x) == {o \in ids : o <= x}
<1>1. upTo(id) \subseteq upTo(later) /\ later \in upTo(later) \ upTo(id)
  <2>1. \A o \in ids : o \in Nat /\ (o <= id => o <= later)
    OBVIOUS
  <2>2. later <= later /\ ~ (later <= id)
    OBVIOUS
  <2> QED BY <2>1, <2>2
<1>2. IsFiniteSet(upTo(later))
  BY FS_Subset
<1>3. /\ Cardinality(upTo(id)) <= Cardinality(upTo(later))
      /\ Cardinality(upTo(id)) # Cardinality(upTo(later))
  BY <1>1, <1>2, FS_Subset
<1>4. Rank(ids, id) \in Nat /\ Rank(ids, later) \in Nat
  BY RankType
<1> QED BY <1>3, <1>4 DEF Rank

\* The ranks are the numbers up to the size of the set, each of one element.
LEMMA RankOnto ==
    ASSUME NEW ids \in SUBSET Nat, IsFiniteSet(ids),
           NEW i \in 1 .. Cardinality(ids)
    PROVE  \E id \in ids : Rank(ids, id) = i
<1> DEFINE n == Cardinality(ids)
           rank == [id \in ids |-> Rank(ids, id)]
           ranks == {rank[id] : id \in ids}
<1>1. n \in Nat
  BY FS_CardinalityType
<1>2. \A id \in ids : Rank(ids, id) \in 1 .. n
  BY <1>1, RankType
<1>3. \A id, other \in ids : rank[id] = rank[other] => id = other
  <2>1. SUFFICES ASSUME NEW id \in ids, NEW other \in ids, id # other
                 PROVE  Rank(ids, id) # Rank(ids, other)
    OBVIOUS
  <2>2. id < other \/ other < id
    BY <2>1
  <2>3. Rank(ids, id) \in Nat /\ Rank(ids, other) \in Nat
    BY RankType
  <2> QED BY <2>2, <2>3, RankGrows
<1>4. IsFiniteSet(1 .. n) /\ Cardinality(1 .. n) = n
  BY <1>1, FS_Interval
<1>5. rank \in Injection(ids, 1 .. n)
  BY <1>2, <1>3 DEF Injection, IsInjective
<1>6. rank \in Surjection(ids, 1 .. n)
  BY <1>4, <1>5, FS_Injection
<1> QED BY <1>6 DEF Surjection

LEMMA RankUnique ==
    ASSUME NEW ids \in SUBSET Nat, IsFiniteSet(ids),
           NEW id \in ids, NEW other \in ids,
           Rank(ids, id) = Rank(ids, other)
    PROVE  id = other
<1>1. Rank(ids, id) \in Nat /\ Rank(ids, other) \in Nat
  BY RankType
<1>2. id < other \/ other < id \/ id = other
  OBVIOUS
<1> QED BY <1>1, <1>2, RankGrows

LEMMA SortedElements ==
    ASSUME NEW ids \in SUBSET Nat, IsFiniteSet(ids)
    PROVE  /\ Cardinality(ids) \in Nat
           /\ Sorted(ids) \in Seq(ids)
           /\ Len(Sorted(ids)) = Cardinality(ids)
           /\ \A i \in 1 .. Cardinality(ids) :
                 Sorted(ids)[i] \in ids /\ Rank(ids, Sorted(ids)[i]) = i
<1>1. Cardinality(ids) \in Nat
  BY FS_CardinalityType
<1>2. \A i \in 1 .. Cardinality(ids) : \E id \in ids : Rank(ids, id) = i
  BY RankOnto
<1>3. \A i \in 1 .. Cardinality(ids) :
         Sorted(ids)[i] \in ids /\ Rank(ids, Sorted(ids)[i]) = i
  BY <1>2 DEF Sorted, Rank
<1>4. Sorted(ids) = [i \in 1 .. Cardinality(ids) |-> Sorted(ids)[i]]
  BY DEF Sorted
<1>5. Sorted(ids) \in Seq(ids) /\ Len(Sorted(ids)) = Cardinality(ids)
  <2> DEFINE list == Sorted(ids)
  <2>1. /\ DOMAIN list = 1 .. Cardinality(ids)
        /\ list \in [1 .. Cardinality(ids) -> ids]
    BY <1>3, <1>4
  <2> HIDE DEF list
  <2> QED BY <1>1, <2>1, LenProperties DEF list
<1> QED BY <1>1, <1>3, <1>5

LEMMA SortedOnto ==
    ASSUME NEW ids \in SUBSET Nat, IsFiniteSet(ids), NEW id \in ids
    PROVE  \E i \in 1 .. Cardinality(ids) : Sorted(ids)[i] = id
<1> DEFINE i == Rank(ids, id)
           found == Sorted(ids)[i]
<1>1. i \in 1 .. Cardinality(ids)
  BY RankType, SortedElements
<1>2. found \in ids /\ Rank(ids, found) = i
  BY <1>1, SortedElements
<1> HIDE DEF found
<1>3. found = id
  BY <1>2, RankUnique
<1> QED BY <1>1, <1>3 DEF found

LEMMA LeastElement ==
    ASSUME NEW ids \in SUBSET Nat, IsFiniteSet(ids), ids # {}
    PROVE  \E least \in ids : \A o \in ids : least <= o
<1>1. 1 \in 1 .. Cardinality(ids)
  BY FS_CardinalityType, FS_EmptySet
<1>2. PICK least \in ids : Rank(ids, least) = 1
  BY <1>1, RankOnto
<1>3. ASSUME NEW o \in ids, o < least
      PROVE  FALSE
  <2>1. Rank(ids, o) \in Nat \ {0}
    BY RankType
  <2> QED BY <1>2, <1>3, <2>1, RankGrows
<1>4. \A o \in ids : least <= o
  BY <1>3
<1> QED BY <1>4

\* A number above all of the set goes to the end.
LEMMA SortedAdd ==
    ASSUME NEW ids \in SUBSET Nat, IsFiniteSet(ids),
           NEW id \in Nat, \A o \in ids : o < id
    PROVE  Sorted(ids \cup {id}) = Append(Sorted(ids), id)
<1> DEFINE more == ids \cup {id}
           n == Cardinality(ids)
<1>1. /\ more \in SUBSET Nat /\ IsFiniteSet(more)
      /\ id \notin ids
      /\ Cardinality(more) = n + 1
  BY FS_AddElement
<1>2. /\ n \in Nat
      /\ Sorted(ids) \in Seq(ids) /\ Len(Sorted(ids)) = n
      /\ \A i \in 1 .. n :
            Sorted(ids)[i] \in ids /\ Rank(ids, Sorted(ids)[i]) = i
  BY SortedElements
<1>3. /\ Sorted(more) \in Seq(more) /\ Len(Sorted(more)) = n + 1
      /\ \A i \in 1 .. n + 1 :
            Sorted(more)[i] \in more /\ Rank(more, Sorted(more)[i]) = i
  BY <1>1, SortedElements
<1>4. \A o \in ids : Rank(more, o) = Rank(ids, o)
  <2>1. SUFFICES ASSUME NEW o \in ids
                 PROVE  {x \in more : x <= o} = {x \in ids : x <= o}
    BY DEF Rank
  <2> QED OBVIOUS
<1>5. Rank(more, id) = n + 1
  <2>1. \A x \in more : x <= id
    OBVIOUS
  <2>2. {x \in more : x <= id} = more
    BY <2>1
  <2> QED BY <1>1, <2>2 DEF Rank
<1>6. /\ Append(Sorted(ids), id) \in Seq(more)
      /\ Len(Append(Sorted(ids), id)) = n + 1
      /\ \A i \in 1 .. n : Append(Sorted(ids), id)[i] = Sorted(ids)[i]
      /\ Append(Sorted(ids), id)[n + 1] = id
  <2>1. Sorted(ids) \in Seq(more)
    BY <1>2, SeqMonotonic
  <2> QED BY <1>2, <2>1, AppendProperties
<1>7. \A a, b \in more : Rank(more, a) = Rank(more, b) => a = b
  BY <1>1, RankUnique
<1>8. ASSUME NEW i \in 1 .. n + 1
      PROVE  Sorted(more)[i] = Append(Sorted(ids), id)[i]
  <2>1. CASE i = n + 1
    <3>1. /\ Sorted(more)[n + 1] \in more
          /\ Rank(more, Sorted(more)[n + 1]) = n + 1
      <4>1. n + 1 \in 1 .. n + 1
        BY <1>2
      <4> QED BY <1>3, <4>1
    <3>2. Sorted(more)[n + 1] = id
      BY <1>5, <1>7, <3>1
    <3> QED BY <1>6, <2>1, <3>2
  <2>2. CASE i # n + 1
    <3>1. i \in 1 .. n
      BY <1>2, <2>2
    <3>2. Sorted(ids)[i] \in more /\ Rank(more, Sorted(ids)[i]) = i
      BY <1>2, <1>4, <3>1
    <3>3. Sorted(more)[i] = Sorted(ids)[i]
      BY <1>3, <1>7, <3>2
    <3> QED BY <1>6, <3>1, <3>3
  <2> QED BY <2>1, <2>2
<1> HIDE DEF more, n
<1> QED BY <1>3, <1>6, <1>8, SeqEqual DEF more

\* Without its least number the others keep their order.
LEMMA SortedRemove ==
    ASSUME NEW ids \in SUBSET Nat, IsFiniteSet(ids),
           NEW id \in ids, \A o \in ids : id <= o
    PROVE  /\ Sorted(ids) # <<>>
           /\ Sorted(ids \ {id}) = Tail(Sorted(ids))
<1> DEFINE less == ids \ {id}
           n == Cardinality(less)
<1>1. /\ less \in SUBSET Nat /\ IsFiniteSet(less)
      /\ Cardinality(ids) = n + 1
      /\ n \in Nat
  <2>1. Cardinality(ids) \in Nat /\ n \in Nat /\ IsFiniteSet(less)
    BY FS_RemoveElement, FS_CardinalityType
  <2>2. n = Cardinality(ids) - 1
    BY FS_RemoveElement
  <2> QED BY <2>1, <2>2
<1>2. /\ Sorted(ids) \in Seq(ids) /\ Len(Sorted(ids)) = n + 1
      /\ \A i \in 1 .. n + 1 :
            Sorted(ids)[i] \in ids /\ Rank(ids, Sorted(ids)[i]) = i
  BY <1>1, SortedElements
<1>3. /\ Sorted(less) \in Seq(less) /\ Len(Sorted(less)) = n
      /\ \A i \in 1 .. n :
            Sorted(less)[i] \in less /\ Rank(less, Sorted(less)[i]) = i
  BY <1>1, SortedElements
<1>4. Sorted(ids) # <<>>
  BY <1>1, <1>2, EmptySeq
<1>5. /\ Tail(Sorted(ids)) \in Seq(ids)
      /\ Len(Tail(Sorted(ids))) = n
      /\ \A i \in 1 .. n : Tail(Sorted(ids))[i] = Sorted(ids)[i + 1]
  <2>1. /\ Tail(Sorted(ids)) \in Seq(ids)
        /\ Len(Tail(Sorted(ids))) = Len(Sorted(ids)) - 1
        /\ \A i \in 1 .. Len(Tail(Sorted(ids))) :
              Tail(Sorted(ids))[i] = Sorted(ids)[i + 1]
    BY <1>2, <1>4, HeadTailProperties
  <2>2. Len(Tail(Sorted(ids))) = n
    BY <1>1, <1>2, <2>1
  <2> QED BY <2>1, <2>2
<1>6. ASSUME NEW o \in less
      PROVE  Rank(ids, o) = Rank(less, o) + 1
  <2> DEFINE upTo == {x \in less : x <= o}
  <2>1. {x \in ids : x <= o} = upTo \cup {id} /\ id \notin upTo
    OBVIOUS
  <2>2. IsFiniteSet(upTo)
    BY <1>1, FS_Subset
  <2> QED BY <2>1, <2>2, FS_AddElement DEF Rank
<1>7. \A a, b \in ids : Rank(ids, a) = Rank(ids, b) => a = b
  BY RankUnique
<1>8. ASSUME NEW i \in 1 .. n
      PROVE  Sorted(less)[i] = Tail(Sorted(ids))[i]
  <2>1. /\ Sorted(less)[i] \in ids
        /\ Rank(ids, Sorted(less)[i]) = i + 1
    BY <1>3, <1>6
  <2>2. i + 1 \in 1 .. n + 1
    BY <1>1
  <2>3. Sorted(less)[i] = Sorted(ids)[i + 1]
    BY <1>2, <1>7, <2>1, <2>2
  <2> QED BY <1>5, <2>3
<1>9. Sorted(less) \in Seq(ids)
  BY <1>3, SeqMonotonic
<1> HIDE DEF less, n
<1> QED BY <1>3, <1>4, <1>5, <1>8, <1>9, SeqEqual DEF less

\* What stays of a sequence are the elements at the positions kept, each once
\* and in their order.
LEMMA SelectedElements ==
    ASSUME NEW S, NEW s \in Seq(S), NEW P \in SUBSET (1 .. Len(s))
    PROVE  /\ IsFiniteSet(P)
           /\ Selected(s, P) \in Seq(S)
           /\ Len(Selected(s, P)) = Cardinality(P)
           /\ Cardinality(P) \in Nat
           /\ \A i \in 1 .. Cardinality(P) :
                 Sorted(P)[i] \in P /\ Selected(s, P)[i] = s[Sorted(P)[i]]
           /\ \A i, j \in 1 .. Cardinality(P) :
                 Sorted(P)[i] = Sorted(P)[j] => i = j
           /\ \A p \in P : \E i \in 1 .. Cardinality(P) : Sorted(P)[i] = p
<1>1. Len(s) \in Nat /\ \A i \in 1 .. Len(s) : s[i] \in S
  BY LenProperties
<1>2. P \in SUBSET Nat /\ IsFiniteSet(P)
  <2>1. IsFiniteSet(1 .. Len(s))
    BY <1>1, FS_Interval
  <2>2. IsFiniteSet(P)
    BY <2>1, FS_Subset
  <2> QED BY <1>1, <2>2
<1>3. /\ Cardinality(P) \in Nat
      /\ \A i \in 1 .. Cardinality(P) :
            Sorted(P)[i] \in P /\ Rank(P, Sorted(P)[i]) = i
  BY <1>2, SortedElements
<1>4. \A i \in 1 .. Cardinality(P) : s[Sorted(P)[i]] \in S
  BY <1>1, <1>3
<1>5. /\ Selected(s, P) \in Seq(S)
      /\ Len(Selected(s, P)) = Cardinality(P)
      /\ \A i \in 1 .. Cardinality(P) : Selected(s, P)[i] = s[Sorted(P)[i]]
  <2> DEFINE list == Selected(s, P)
  <2>1. /\ list \in [1 .. Cardinality(P) -> S]
        /\ DOMAIN list = 1 .. Cardinality(P)
        /\ \A i \in 1 .. Cardinality(P) : list[i] = s[Sorted(P)[i]]
    BY <1>4 DEF Selected
  <2> HIDE DEF list
  <2> QED BY <1>3, <2>1, LenProperties DEF list
<1>6. \A p \in P : \E i \in 1 .. Cardinality(P) : Sorted(P)[i] = p
  BY <1>2, SortedOnto
<1> QED BY <1>2, <1>3, <1>5, <1>6
=============================================================================
