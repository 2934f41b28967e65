----------------------- MODULE CredentialCacheProofs -----------------------
(***************************************************************************)
(* Proofs about CredentialCache for any number of deliveries, headers and  *)
(* entries. Everything rests on what one put does to the sequence of       *)
(* entries (PutFacts): the new entry comes last, the others are entries of *)
(* the old sequence in their order, and only the first can be missing,     *)
(* when the map is full.                                                   *)
(***************************************************************************)
EXTENDS CredentialCache, TLAPS

Distinct(s) == \A i, j \in 1..Len(s) : s[i].id = s[j].id => i = j

\* The entries of `new' but the last are those of `old' at the places f.
Picks(f, old, new, id) ==
    /\ f \in [1..(Len(new) - 1) -> 1..Len(old)]
    /\ \A k \in 1..(Len(new) - 1) : /\ new[k] = old[f[k]]
                                    /\ old[f[k]].id # id
    /\ \A k, l \in 1..(Len(new) - 1) : k < l => f[k] < f[l]

\* What f leaves out is older than what it picks, and the map is full.
LeavesOldest(f, old, new, id) ==
    \A j \in 1..Len(old) :
        \/ old[j].id = id
        \/ \E k \in 1..(Len(new) - 1) : f[k] = j
        \/ /\ Len(new) = MaxEntries
           /\ \A k \in 1..(Len(new) - 1) : j < f[k]

PutLike(f, old, new, id, values) ==
    /\ new \in Seq(Entry)
    /\ Len(new) \in 1..MaxEntries /\ Len(old) <= Len(new)
    /\ new[Len(new)] = [id |-> id, values |-> values]
    /\ Picks(f, old, new, id)
    /\ LeavesOldest(f, old, new, id)

\* The place of an id that is in the map.
LEMMA PlaceOf ==
    ASSUME NEW s \in Seq(Entry), NEW id \in Ids(s)
    PROVE  /\ (CHOOSE j \in 1..Len(s) : s[j].id = id) \in 1..Len(s)
           /\ s[CHOOSE j \in 1..Len(s) : s[j].id = id].id = id
BY DEF Ids

LEMMA ConcatAt ==
    ASSUME NEW a \in Seq(Entry), NEW b \in Seq(Entry)
    PROVE  /\ a \o b \in Seq(Entry) /\ Len(a \o b) = Len(a) + Len(b)
           /\ \A k \in 1..(Len(a) + Len(b)) :
                 (a \o b)[k] = IF k <= Len(a) THEN a[k] ELSE b[k - Len(a)]
OBVIOUS

\* A put of an id that is in the map moves its entry to the end.
LEMMA PutAgain ==
    ASSUME NEW s \in Seq(Entry), Distinct(s), Len(s) <= MaxEntries,
           NEW id \in Calls, id \in Ids(s),
           NEW values \in Values, values # NoValues
    PROVE  \E f : PutLike(f, s, Put(s, id, values), id, values)
<1> DEFINE p == CHOOSE j \in 1..Len(s) : s[j].id = id
           e == [id |-> id, values |-> values]
           r == SubSeq(s, 1, p - 1) \o SubSeq(s, p + 1, Len(s))
           n == Append(r, e)
           f == [k \in 1..(Len(s) - 1) |-> IF k < p THEN k ELSE k + 1]
<1>1. p \in 1..Len(s) /\ s[p].id = id
  BY PlaceOf
<1>2. e \in Entry
  BY DEF Entry
<1> HIDE DEF p, e
<1>3. /\ r \in Seq(Entry) /\ Len(r) = Len(s) - 1
      /\ \A k \in 1..(Len(s) - 1) : r[k] = s[f[k]]
  <2>1. /\ SubSeq(s, 1, p - 1) \in Seq(Entry)
        /\ Len(SubSeq(s, 1, p - 1)) = p - 1
        /\ \A k \in 1..(p - 1) : SubSeq(s, 1, p - 1)[k] = s[k]
    BY <1>1
  <2>2. /\ SubSeq(s, p + 1, Len(s)) \in Seq(Entry)
        /\ Len(SubSeq(s, p + 1, Len(s))) = Len(s) - p
        /\ \A k \in 1..(Len(s) - p) : SubSeq(s, p + 1, Len(s))[k] = s[p + k]
    BY <1>1
  <2> DEFINE a == SubSeq(s, 1, p - 1)
             b == SubSeq(s, p + 1, Len(s))
  <2>a. a \in Seq(Entry) /\ Len(a) = p - 1
    BY <2>1
  <2>b. b \in Seq(Entry) /\ Len(b) = Len(s) - p
    BY <2>2
  <2> HIDE DEF a, b
  <2>3. /\ a \o b \in Seq(Entry) /\ Len(a \o b) = Len(s) - 1
        /\ \A k \in 1..(Len(s) - 1) :
              (a \o b)[k] = IF k < p THEN a[k] ELSE b[k - (p - 1)]
    <3>1. /\ a \o b \in Seq(Entry) /\ Len(a \o b) = Len(a) + Len(b)
          /\ \A k \in 1..(Len(a) + Len(b)) :
                (a \o b)[k] = IF k <= Len(a) THEN a[k] ELSE b[k - Len(a)]
      BY <2>a, <2>b, ConcatAt
    <3>2. Len(a) + Len(b) = Len(s) - 1 /\ \A k \in Nat : k <= Len(a) <=> k < p
      BY <1>1, <2>a, <2>b
    <3> HIDE DEF r, n, f
    <3> QED BY <2>a, <3>1, <3>2
  <2>4. \A k \in 1..(Len(s) - 1) : (a \o b)[k] = s[f[k]]
    <3> TAKE k \in 1..(Len(s) - 1)
    <3>1. CASE k < p
      BY <1>1, <2>1, <2>3, <3>1 DEF a
    <3>2. CASE ~(k < p)
      <4>1. k - (p - 1) \in 1..(Len(s) - p) /\ p + (k - (p - 1)) = k + 1
        BY <1>1, <3>2
      <4> QED BY <1>1, <2>2, <2>3, <3>2, <4>1 DEF b
    <3> QED BY <3>1, <3>2
  <2> QED BY <2>3, <2>4 DEF a, b
<1>4. Without(s, id) = r
  BY DEF Without, p
<1> HIDE DEF r
<1>5. /\ n \in Seq(Entry) /\ Len(n) = Len(s) /\ n[Len(n)] = e
      /\ \A k \in 1..(Len(s) - 1) : n[k] = r[k]
  BY <1>1, <1>2, <1>3
<1>6. Put(s, id, values) = n
  BY <1>4, <1>5, MaxEntriesPositive DEF Put, Evict, e
<1>7. Picks(f, s, n, id)
  BY <1>1, <1>3, <1>5 DEF Picks, Distinct
<1>8. LeavesOldest(f, s, n, id)
  <2> SUFFICES ASSUME NEW j \in 1..Len(s), j # p
               PROVE  \E k \in 1..(Len(n) - 1) : f[k] = j
    BY <1>1 DEF LeavesOldest
  <2>1. CASE j < p
    BY <1>1, <1>5, <2>1
  <2>2. CASE j > p
    <3>1. j - 1 \in 1..(Len(n) - 1) /\ f[j - 1] = j
      BY <1>1, <1>5, <2>2
    <3> QED BY <3>1
  <2>3. j < p \/ j > p
    BY <1>1
  <2> QED BY <2>1, <2>2, <2>3
<1>9. Len(n) \in 1..MaxEntries /\ Len(s) <= Len(n)
  BY <1>1, <1>5, MaxEntriesPositive
<1> HIDE DEF n, f
<1> QED BY <1>5, <1>6, <1>7, <1>8, <1>9 DEF PutLike, e

\* A put of a new id appends an entry and drops the first if the map is full.
LEMMA PutNew ==
    ASSUME NEW s \in Seq(Entry), Len(s) <= MaxEntries,
           NEW id \in Calls, id \notin Ids(s),
           NEW values \in Values, values # NoValues
    PROVE  \E f : PutLike(f, s, Put(s, id, values), id, values)
<1> DEFINE e == [id |-> id, values |-> values]
           a == Append(s, e)
<1>1. e \in Entry
  BY DEF Entry
<1>2. \A j \in 1..Len(s) : s[j].id # id
  BY DEF Ids
<1>3. /\ a \in Seq(Entry) /\ Len(a) = Len(s) + 1 /\ a[Len(s) + 1] = e
      /\ \A k \in 1..Len(s) : a[k] = s[k]
  BY <1>1
<1>4. Put(s, id, values) = Evict(a)
  BY DEF Put, Without
<1> HIDE DEF e, a
<1>5. CASE Len(s) < MaxEntries
  <2> DEFINE f == [k \in 1..Len(s) |-> k]
  <2>1. Evict(a) = a
    BY <1>3, <1>5, MaxEntriesPositive DEF Evict
  <2>2. Picks(f, s, a, id) /\ LeavesOldest(f, s, a, id)
    BY <1>2, <1>3 DEF Picks, LeavesOldest
  <2>3. Len(a) \in 1..MaxEntries /\ Len(s) <= Len(a)
    BY <1>3, <1>5, MaxEntriesPositive
  <2> HIDE DEF f
  <2> QED BY <1>3, <1>4, <2>1, <2>2, <2>3 DEF PutLike, e
<1>6. CASE Len(s) = MaxEntries
  <2> DEFINE n == SubSeq(a, 2, Len(s) + 1)
             f == [k \in 1..(Len(s) - 1) |-> k + 1]
  <2>1. Evict(a) = n
    BY <1>3, <1>6, MaxEntriesPositive DEF Evict
  <2>2. /\ n \in Seq(Entry) /\ Len(n) = Len(s)
        /\ \A k \in 1..Len(s) : n[k] = a[k + 1]
    BY <1>3
  <2> HIDE DEF n
  <2>3. Picks(f, s, n, id)
    BY <1>2, <1>3, <2>2 DEF Picks
  <2>4. LeavesOldest(f, s, n, id)
    <3> SUFFICES ASSUME NEW j \in 1..Len(s), j # 1
                 PROVE  \E k \in 1..(Len(n) - 1) : f[k] = j
      BY <1>6, <2>2 DEF LeavesOldest
    <3>1. j - 1 \in 1..(Len(n) - 1) /\ f[j - 1] = j
      BY <2>2
    <3> QED BY <3>1
  <2>5. Len(n) \in 1..MaxEntries /\ Len(s) <= Len(n) /\ n[Len(n)] = e
    BY <1>3, <1>6, <2>2, MaxEntriesPositive
  <2> HIDE DEF f
  <2> QED BY <1>4, <2>1, <2>2, <2>3, <2>4, <2>5 DEF PutLike, e
<1> QED BY <1>5, <1>6, MaxEntriesPositive

LEMMA PutFacts ==
    ASSUME NEW s \in Seq(Entry), Distinct(s), Len(s) <= MaxEntries,
           NEW id \in Calls, NEW values \in Values, values # NoValues
    PROVE  \E f : PutLike(f, s, Put(s, id, values), id, values)
BY PutAgain, PutNew

-----------------------------------------------------------------------------
(* The invariant *)

IInv == TypeOK /\ InOrder /\ RetainsRecent /\ HandsOutLatest

\* get returns the values of the entry of an id.
LEMMA GetFacts ==
    ASSUME NEW s \in Seq(Entry), Distinct(s), NEW i \in 1..Len(s)
    PROVE  s[i].id \in Ids(s) /\ Get(s, s[i].id) = s[i].values
<1>1. s[i].id \in Ids(s)
  BY DEF Ids
<1>2. (CHOOSE j \in 1..Len(s) : s[j].id = s[i].id) = i
  BY <1>1, PlaceOf DEF Distinct
<1> QED BY <1>1, <1>2 DEF Get

\* One put, whatever its values are, keeps the invariant.
LEMMA PutKeeps ==
    ASSUME IInv, NEW id \in Calls, NEW values \in Values, values # NoValues,
           cache' = Put(cache, id, values), Account(id, values)
    PROVE  IInv'
<1>1. /\ cache \in Seq(Entry) /\ Distinct(cache) /\ Len(cache) <= MaxEntries
      /\ puts \in Nat /\ put_at \in [Calls -> 0..puts]
      /\ latest \in [Calls -> Values]
  BY DEF IInv, TypeOK, Bounded, Distinct
<1>2. PICK f : PutLike(f, cache, cache', id, values)
  BY <1>1, PutFacts
<1> DEFINE n == Len(cache')
<1>3. /\ cache' \in Seq(Entry) /\ n \in Nat /\ n >= 1 /\ n <= MaxEntries
      /\ cache'[n].id = id /\ cache'[n].values = values
      /\ f \in [1..(n - 1) -> 1..Len(cache)]
      /\ \A k \in 1..(n - 1) : cache'[k] = cache[f[k]] /\ cache[f[k]].id # id
      /\ \A k, l \in 1..(n - 1) : k < l => f[k] < f[l]
  BY <1>2, MaxEntriesPositive DEF PutLike, Picks
<1>4. /\ puts' = puts + 1 /\ put_at' \in [Calls -> 0..puts']
      /\ latest' \in [Calls -> Values]
      /\ put_at'[id] = puts + 1 /\ latest'[id] = values
      /\ \A d \in Calls \ {id} : put_at'[d] = put_at[d] /\ latest'[d] = latest[d]
  BY <1>1 DEF Account
<1>5. \A i \in 1..Len(cache) : cache[i].id \in Calls /\ cache[i].values \in Values
  <2>1. \A i \in 1..Len(cache) : cache[i] \in Entry
    BY <1>1
  <2> QED BY <2>1 DEF Entry
<1>6. \A k \in 1..(n - 1) : f[k] \in 1..Len(cache)
  BY <1>3
<1>7. \A k \in 1..n : k = n \/ k \in 1..(n - 1)
  BY <1>3
<1> HIDE DEF n
<1>8. Distinct(cache')
  <2> SUFFICES ASSUME NEW i \in 1..n, NEW j \in 1..n, cache'[i].id = cache'[j].id,
                      i < j
               PROVE  FALSE
    BY <1>3 DEF Distinct, n
  <2>1. i \in 1..(n - 1)
    BY <1>3
  <2>2. CASE j = n
    BY <1>3, <2>1, <2>2
  <2>3. CASE j \in 1..(n - 1)
    <3>1. f[i] = f[j]
      BY <1>1, <1>3, <1>6, <2>1, <2>3, ZenonT(30) DEF Distinct
    <3>2. f[i] < f[j] /\ f[i] \in Nat
      BY <1>3, <1>6, <2>1, <2>3
    <3> QED BY <3>1, <3>2
  <2> QED BY <1>7, <2>2, <2>3
<1>9. TypeOK'
  BY <1>1, <1>3, <1>4, <1>8 DEF TypeOK, Bounded, Distinct, n
<1>10. InOrder'
  <2>1. \A i \in 1..(n - 1) : /\ cache'[i].id \in Calls \ {id}
                              /\ put_at'[cache'[i].id] = put_at[cache[f[i]].id]
                              /\ put_at[cache[f[i]].id] > 0
                              /\ put_at[cache[f[i]].id] \in 0..puts
    BY <1>1, <1>3, <1>4, <1>5, <1>6 DEF IInv, InOrder
  <2> SUFFICES ASSUME NEW i \in 1..n, NEW j \in 1..n
               PROVE  /\ put_at'[cache'[i].id] > 0
                      /\ i < j => put_at'[cache'[i].id] < put_at'[cache'[j].id]
    BY DEF InOrder, n
  <2>2. put_at'[cache'[i].id] > 0
    <3>1. CASE i = n
      BY <1>1, <1>3, <1>4, <3>1
    <3>2. CASE i \in 1..(n - 1)
      BY <2>1, <3>2
    <3> QED BY <1>7, <3>1, <3>2
  <2>3. ASSUME i < j PROVE put_at'[cache'[i].id] < put_at'[cache'[j].id]
    <3>1. i \in 1..(n - 1)
      BY <1>3, <2>3
    <3>2. CASE j = n
      BY <1>1, <1>3, <1>4, <2>1, <3>1, <3>2, SMTT(20)
    <3>3. CASE j \in 1..(n - 1)
      <4>1. f[i] < f[j] /\ f[i] \in 1..Len(cache) /\ f[j] \in 1..Len(cache)
        BY <1>3, <1>6, <2>3, <3>1, <3>3
      <4>2. put_at[cache[f[i]].id] < put_at[cache[f[j]].id]
        BY <4>1 DEF IInv, InOrder
      <4> QED BY <2>1, <3>1, <3>3, <4>2
    <3> QED BY <1>7, <3>2, <3>3
  <2> QED BY <2>2, <2>3
<1>11. RetainsRecent'
  <2> SUFFICES ASSUME NEW d \in Calls, put_at'[d] > 0, d \notin Ids(cache')
               PROVE  /\ n = MaxEntries
                      /\ \A k \in 1..n : put_at'[cache'[k].id] > put_at'[d]
    BY DEF RetainsRecent, n
  <2>1. \A k \in 1..n : cache'[k].id # d
    BY DEF Ids, n
  <2>2. d # id
    BY <1>3, <2>1
  <2>3. put_at'[d] = put_at[d] /\ put_at[d] \in 0..puts
    BY <1>1, <1>4, <2>2
  <2>4. put_at'[cache'[n].id] > put_at'[d]
    BY <1>1, <1>3, <1>4, <2>3
  <2>5. \A k \in 1..(n - 1) : /\ f[k] \in 1..Len(cache)
                              /\ put_at'[cache'[k].id] = put_at[cache[f[k]].id]
    BY <1>3, <1>4, <1>5, <1>6
  <2>6. CASE d \notin Ids(cache)
    <3>1. /\ Len(cache) = MaxEntries
          /\ \A i \in 1..Len(cache) : put_at[cache[i].id] > put_at[d]
      BY <2>3, <2>6 DEF IInv, RetainsRecent
    <3>2. \A k \in 1..(n - 1) : put_at'[cache'[k].id] > put_at'[d]
      BY <2>3, <2>5, <3>1
    <3>3. n = MaxEntries
      <4>1. Len(cache) <= n
        BY <1>2 DEF PutLike, n
      <4> QED BY <1>3, <3>1, <4>1, MaxEntriesPositive
    <3> QED BY <1>7, <2>4, <3>2, <3>3
  <2>7. CASE d \in Ids(cache)
    <3>1. PICK j \in 1..Len(cache) : cache[j].id = d
      BY <2>7 DEF Ids
    <3>2. ~ \E k \in 1..(n - 1) : f[k] = j
      BY <1>3, <2>1, <3>1
    <3>3. n = MaxEntries /\ \A k \in 1..(n - 1) : j < f[k]
      BY <1>2, <2>2, <3>1, <3>2 DEF PutLike, LeavesOldest, n
    <3>4. \A k \in 1..(n - 1) : put_at'[cache'[k].id] > put_at'[d]
      <4> TAKE k \in 1..(n - 1)
      <4>1. put_at[cache[j].id] < put_at[cache[f[k]].id]
        BY <2>5, <3>3 DEF IInv, InOrder
      <4> QED BY <2>3, <2>5, <3>1, <4>1
    <3> QED BY <1>7, <2>4, <3>3, <3>4
  <2> QED BY <2>6, <2>7
<1>12. HandsOutLatest'
  <2> SUFFICES ASSUME NEW d \in Ids(cache')
               PROVE  Get(cache', d) = latest'[d]
    BY DEF HandsOutLatest
  <2>1. PICK k \in 1..n : cache'[k].id = d
    BY DEF Ids, n
  <2>2. Get(cache', d) = cache'[k].values
    BY <1>3, <1>8, <2>1, GetFacts DEF n
  <2>3. CASE k = n
    BY <1>3, <1>4, <2>1, <2>2, <2>3
  <2>4. CASE k \in 1..(n - 1)
    <3>1. /\ f[k] \in 1..Len(cache) /\ cache[f[k]].id = d /\ d # id
          /\ cache[f[k]].values = cache'[k].values /\ d \in Calls
      BY <1>3, <1>5, <1>6, <2>1, <2>4
    <3>2. d \in Ids(cache) /\ Get(cache, d) = cache[f[k]].values
      BY <1>1, <3>1, GetFacts
    <3> QED BY <1>4, <2>2, <3>1, <3>2 DEF IInv, HandsOutLatest
  <2> QED BY <1>7, <2>3, <2>4
<1> QED BY <1>9, <1>10, <1>11, <1>12 DEF IInv

\* Supplied names make values that are not empty.
LEMMA NotEmpty ==
    ASSUME NEW c \in Calls, NEW names \in SUBSET Headers, names # {},
           NEW base \in Values
    PROVE  /\ SuppliedBy(c, names) \in Values
           /\ SuppliedBy(c, names) # NoValues
           /\ Merge(base, SuppliedBy(c, names)) \in Values
           /\ Merge(base, SuppliedBy(c, names)) # NoValues
<1>1. PICK h \in names : h \in Headers
  OBVIOUS
<1>2. SuppliedBy(c, names)[h] = c /\ NoValues[h] = None /\ c # None
  BY <1>1, NoneIsNoCall DEF SuppliedBy, NoValues
<1>3. Merge(base, SuppliedBy(c, names))[h] = c
  BY <1>1, <1>2 DEF Merge
<1>4. SuppliedBy(c, names) \in Values
  BY DEF SuppliedBy, Values
<1>5. Merge(base, SuppliedBy(c, names)) \in Values
  BY <1>4 DEF Merge, Values
<1> QED BY <1>2, <1>3, <1>4, <1>5

\* Merging what a call supplies into what the process should know.
LEMMA MergeAgrees ==
    ASSUME IInv, NEW id \in Calls, NEW by \in Calls, NEW names \in SUBSET Headers
    PROVE  /\ Get(cache, id) \in Values
           /\ Merge(Get(cache, id), SuppliedBy(by, names)) =
                 [h \in Headers |->
                     IF h \in names THEN by
                     ELSE IF id \in Ids(cache) THEN latest[id][h] ELSE None]
<1>1. Get(cache, id) = IF id \in Ids(cache) THEN latest[id] ELSE NoValues
  BY DEF IInv, HandsOutLatest, Get
<1>2. Get(cache, id) \in Values
  BY <1>1 DEF IInv, TypeOK, NoValues, Values
<1>3. \A h \in Headers : Merge(Get(cache, id), SuppliedBy(by, names))[h] =
          IF h \in names THEN by ELSE IF id \in Ids(cache) THEN latest[id][h] ELSE None
  BY <1>1, NoneIsNoCall DEF Merge, SuppliedBy, NoValues
<1> QED BY <1>2, <1>3 DEF Merge

LEMMA InitOK == Init => IInv
BY MaxEntriesPositive DEF Init, IInv, TypeOK, Bounded, InOrder, RetainsRecent,
   HandsOutLatest, NoValues, Values, Ids

LEMMA StepOK == IInv /\ [Next]_vars => IInv'
<1> SUFFICES ASSUME IInv, [Next]_vars PROVE IInv'
  OBVIOUS
<1>1. ASSUME NEW id \in Calls, NEW names \in SUBSET Headers, Remember(id, names)
      PROVE  IInv'
  <2>1. NoValues \in Values
    BY DEF NoValues, Values
  <2> QED BY <1>1, <2>1, NotEmpty, PutKeeps DEF Remember
<1>2. ASSUME NEW id \in Calls, NEW by \in Calls, NEW names \in SUBSET Headers,
             KeepOverrides(id, by, names)
      PROVE  IInv'
  <2> DEFINE v == Merge(Get(cache, id), SuppliedBy(by, names))
  <2>1. v \in Values /\ v # NoValues
    BY <1>2, MergeAgrees, NotEmpty DEF KeepOverrides
  <2>2. cache' = Put(cache, id, v) /\ Account(id, v)
    BY <1>2, MergeAgrees DEF KeepOverrides
  <2> HIDE DEF v
  <2> QED BY <2>1, <2>2, PutKeeps
<1>3. CASE Restart
  BY <1>3, MaxEntriesPositive DEF Restart, IInv, TypeOK, Bounded, InOrder,
     RetainsRecent, HandsOutLatest, NoValues, Values, Ids
<1>4. CASE UNCHANGED vars
  BY <1>4 DEF vars, IInv, TypeOK, Bounded, InOrder, RetainsRecent, HandsOutLatest
<1> QED BY <1>1, <1>2, <1>3, <1>4 DEF Next

LEMMA Invariance == Spec => []IInv
BY InitOK, StepOK, PTL DEF Spec

\* The cache stays within max_entries and holds an id at most once, whatever is
\* created and retried (CredentialCache.put).
THEOREM CacheBounded == Spec => []TypeOK
<1>1. IInv => TypeOK
  BY DEF IInv
<1> QED BY <1>1, Invariance, PTL

\* What is dropped is older than everything that stays (move_to_end and
\* popitem(last=False)).
THEOREM OldestDropped == Spec => []RetainsRecent
<1>1. IInv => RetainsRecent
  BY DEF IInv
<1> QED BY <1>1, Invariance, PTL

\* A credential that is handed out is the last one supplied for its header
\* (put after {**get, **overrides}).
THEOREM LatestHandedOut == Spec => []HandsOutLatest
<1>1. IInv => HandsOutLatest
  BY DEF IInv
<1> QED BY <1>1, Invariance, PTL

=============================================================================
