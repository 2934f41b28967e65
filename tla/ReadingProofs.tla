--------------------------- MODULE ReadingProofs ---------------------------
(***************************************************************************)
(* Why pages taken one by one from a table that grows lose nothing: a page *)
(* that begins at offset n begins at the row with n newer ones, and a row  *)
(* never has fewer newer rows than before.                                 *)
(***************************************************************************)
EXTENDS Reading, FiniteSetTheorems, FunctionTheorems, SequenceTheorems, TLAPS

-----------------------------------------------------------------------------
(* Where a row stands. These take the columns as arguments, so that the    *)
(* lemmas hold of the tables before a step and of those after it.          *)

Newer(time, set, d) == {e \in set : time[e] > time[d]}

Ahead(time, set, d) == Cardinality(Newer(time, set, d))

Shares(time, set, d) == \E e \in set \ {d} : time[e] = time[d]

Places(l, d) == {i \in DOMAIN l.seen : l.seen[i] = d}

Sorted(time, set) == {s \in SetToSeqs(set) :
                          \A i, j \in DOMAIN s : time[s[i]] > time[s[j]] => i < j}

Page(order, start) ==
    SubSeq(order, start + 1, IF start + Limit < Len(order) THEN start + Limit ELSE Len(order))

\* The listing with another page.
Turned(l, order) ==
    [l EXCEPT !.seen = @ \o Page(order, l.offset),
              !.offset = l.offset + Limit,
              !.step = IF IF l.rule = "total" THEN Cardinality(l.counted) <= l.offset + Limit
                          ELSE Len(Page(order, l.offset)) < Limit
                       THEN "done" ELSE "count"]

\* The rest of the listing finds every row of its beginning that it has not shown.
Covered(time, set, l) ==
    \A d \in l.before :
        \/ Shares(time, set, d) \/ Places(l, d) # {}
        \/ IF l.step = "done" THEN l.rule = "total" /\ set # l.counted
           ELSE Ahead(time, set, d) >= l.offset

\* While nothing is committed a row is shown once, and then lies behind.
Once(time, set, l) ==
    \A d \in set :
        \/ Shares(time, set, d) \/ set # l.before
        \/ /\ \A i, j \in Places(l, d) : i = j
           /\ Places(l, d) # {} => Ahead(time, set, d) < l.offset

Listings(set) == [step : {"count", "select", "done"}, rule : {"short", "total"},
                  offset : Nat, seen : Seq(set), before : SUBSET set, counted : SUBSET set]

\* What the row that is shown says of the attempts.
Behind(outcome, count, history) ==
    /\ count <= Len(history)
    /\ outcome # "pending" => count >= 1 /\ history[count] = outcome

Statuses == {"pending", "delivered", "failed"}

Details(set) == [of : set, step : 1..3, status : Statuses, count : Nat, shown : History]

-----------------------------------------------------------------------------
(* The invariant *)

TablesOK ==
    /\ now \in 0..MaxTime
    /\ rows \subseteq Deliveries /\ IsFiniteSet(rows)
    /\ created_at \in [Deliveries -> 0..MaxTime \cup {None}]
    /\ updated_at \in [Deliveries -> 0..MaxTime \cup {None}]
    /\ \A d \in Deliveries : created_at[d] # None => /\ created_at[d] \in 0..now
                                                     /\ updated_at[d] \in 0..now
                                                     /\ created_at[d] <= updated_at[d]
    /\ \A d \in rows : created_at[d] # None
    /\ attempts \in [Deliveries -> History]

ListingOK ==
    listing # None =>
        /\ listing \in Listings(rows)
        /\ listing.before \subseteq listing.counted
        /\ Covered(created_at, rows, listing)
        /\ Once(created_at, rows, listing)

DetailOK ==
    detail # None =>
        /\ detail \in Details(rows)
        /\ detail.step >= 2 => Behind(detail.status, detail.count, attempts[detail.of])
        /\ detail.step = 3 => Behind(detail.status, detail.count, detail.shown)

Invariant == TablesOK /\ ListingOK /\ DetailOK

-----------------------------------------------------------------------------
(* Lemmas about orders and pages                                           *)

\* A row that shares its time stamp with no other one has one place in every order
\* that the query may return: after the rows that are newer.
LEMMA PlaceInOrder ==
    ASSUME NEW set, IsFiniteSet(set), NEW time, \A e \in set : time[e] \in Nat,
           NEW s \in Sorted(time, set), NEW d \in set, ~Shares(time, set, d)
    PROVE  /\ Ahead(time, set, d) \in Nat
           /\ Ahead(time, set, d) + 1 \in 1..Cardinality(set)
           /\ s[Ahead(time, set, d) + 1] = d
<1> DEFINE n == Cardinality(set)
<1>1. n \in Nat /\ IsFiniteSet(1..n) /\ Cardinality(1..n) = n
  BY FS_CardinalityType, FS_Interval
<1>2. /\ s \in [1..n -> set]
      /\ \A i, j \in 1..n : s[i] = s[j] => i = j
      /\ \A i, j \in 1..n : time[s[i]] > time[s[j]] => i < j
  BY DEF Sorted, SetToSeqs
<1>3. \A e \in set : \E i \in 1..n : s[i] = e
  <2> HIDE DEF n
  <2>1. s \in Injection(1..n, set)
    BY <1>2, Fun_IsInj
  <2>2. Cardinality(1..n) = Cardinality(set)
    BY <1>1 DEF n
  <2>3. s \in Surjection(1..n, set)
    BY <2>1, <2>2, FS_Injection
  <2> QED
    BY <2>3 DEF Surjection
<1> HIDE DEF n
<1>4. PICK k \in 1..n : s[k] = d
  BY <1>3
<1> DEFINE before == [i \in 1..(k - 1) |-> s[i]]
<1>5. ASSUME NEW i \in 1..(k - 1)  PROVE s[i] \in Newer(time, set, d)
  <2>1. i \in 1..n /\ i # k /\ i < k
    BY <1>1, <1>4
  <2>2. s[i] \in set /\ s[i] # d
    BY <1>2, <1>4, <2>1
  <2>3. time[s[i]] # time[d]
    BY <2>2 DEF Shares
  <2>4. time[s[k]] > time[s[i]] => k < i
    BY <1>2, <2>1
  <2> QED
    BY <1>1, <1>4, <2>1, <2>2, <2>3, <2>4 DEF Newer
<1>6. ASSUME NEW e \in Newer(time, set, d)  PROVE \E i \in 1..(k - 1) : s[i] = e
  <2>1. PICK i \in 1..n : s[i] = e
    BY <1>3 DEF Newer
  <2>2. i < k
    BY <1>2, <1>4, <2>1 DEF Newer
  <2> QED
    BY <1>1, <2>1, <2>2
<1>7. before \in Bijection(1..(k - 1), Newer(time, set, d))
  <2>1. before \in [1..(k - 1) -> Newer(time, set, d)]
    BY <1>5
  <2>2. \A i, j \in 1..(k - 1) : before[i] = before[j] => i = j
    BY <1>1, <1>2, <1>4
  <2>3. \A e \in Newer(time, set, d) : \E i \in 1..(k - 1) : before[i] = e
    BY <1>6
  <2> HIDE DEF before
  <2> QED
    BY <2>1, <2>2, <2>3, Fun_IsBij
<1>8. Ahead(time, set, d) = k - 1
  <2>1. IsFiniteSet(1..(k - 1)) /\ Cardinality(1..(k - 1)) = k - 1
    <3>1. 1 \in Int /\ k - 1 \in Int /\ k - 1 >= 0
      BY <1>1, <1>4
    <3> QED
      BY <3>1, FS_Interval
  <2>2. ExistsBijection(1..(k - 1), Newer(time, set, d))
    BY <1>7 DEF ExistsBijection
  <2> QED
    BY <2>1, <2>2, FS_Bijection DEF Ahead
<1> QED
  BY <1>1, <1>4, <1>8 DEF n

\* A row that is inserted moves the others back, if at all.
LEMMA AheadGrows ==
    ASSUME NEW set, NEW more, IsFiniteSet(more), set \subseteq more,
           NEW time, NEW d
    PROVE  /\ Ahead(time, set, d) \in Nat /\ Ahead(time, more, d) \in Nat
           /\ Ahead(time, set, d) <= Ahead(time, more, d)
<1>1. Newer(time, set, d) \in SUBSET Newer(time, more, d)
  BY DEF Newer
<1>2. Newer(time, more, d) \in SUBSET more
  BY DEF Newer
<1>3. IsFiniteSet(Newer(time, more, d))
  BY <1>2, FS_Subset
<1> QED
  BY <1>1, <1>3, FS_Subset, FS_CardinalityType DEF Ahead

\* The rows of a page are those of the order from the offset on.
LEMMA PageRows ==
    ASSUME NEW set, NEW n \in Nat, NEW s \in [1..n -> set], NEW start \in Nat
    PROVE  /\ Page(s, start) \in Seq(set)
           /\ \A i \in 1..Len(Page(s, start)) :
                 start + i \in 1..n /\ i <= Limit /\ Page(s, start)[i] = s[start + i]
           /\ \A i \in 1..Limit : start + i <= n => i \in 1..Len(Page(s, start))
           /\ Len(Page(s, start)) < Limit => n < start + Limit
<1> DEFINE end == IF start + Limit < n THEN start + Limit ELSE n
<1>1. Limit \in Nat \ {0}
  BY LimitAssumption
<1>2. Len(s) = n
  BY LenProperties
<1>3. end \in Int /\ start + 1 \in Int /\ end <= n /\ end <= start + Limit
  BY <1>1
<1>4. Page(s, start) = SubSeq(s, start + 1, end)
  BY <1>2 DEF Page
<1>5. \A i \in (start + 1)..end : s[i] \in set
  BY <1>3
<1>6. (end < start + Limit => n = end) /\ (start + Limit <= n => end = start + Limit)
  BY <1>1
<1> HIDE DEF end
<1>7. /\ Page(s, start) \in Seq(set)
      /\ Len(Page(s, start)) = IF start + 1 <= end THEN end - (start + 1) + 1 ELSE 0
      /\ \A i \in 1..(end - (start + 1) + 1) : Page(s, start)[i] = s[(start + 1) + i - 1]
  BY <1>3, <1>4, <1>5, SubSeqProperties
<1>8. \A i \in 1..Len(Page(s, start)) :
         start + i \in 1..n /\ i <= Limit /\ Page(s, start)[i] = s[start + i]
  <2> TAKE i \in 1..Len(Page(s, start))
  <2>1. i \in Nat /\ i >= 1 /\ start + i <= end /\ i \in 1..(end - (start + 1) + 1)
    BY <1>3, <1>7
  <2>2. (start + 1) + i - 1 = start + i
    BY <2>1
  <2> QED
    BY <1>1, <1>3, <1>7, <2>1, <2>2
<1>9. \A i \in 1..Limit : start + i <= n => i \in 1..Len(Page(s, start))
  BY <1>1, <1>3, <1>6, <1>7
<1>10. Len(Page(s, start)) < Limit => n < start + Limit
  BY <1>1, <1>3, <1>6, <1>7
<1> QED
  BY <1>7, <1>8, <1>9, <1>10

\* Where a row is among those shown, once another page is: where it was, and on
\* that page if it is there.
LEMMA PlacesOnPage ==
    ASSUME NEW set, IsFiniteSet(set), NEW time, NEW s \in Sorted(time, set),
           NEW l \in Listings(set), NEW k \in 1..Cardinality(set)
    PROVE  IF l.offset < k /\ k <= l.offset + Limit
           THEN Places(Turned(l, s), s[k])
                   = Places(l, s[k]) \cup {Len(l.seen) + k - l.offset}
           ELSE Places(Turned(l, s), s[k]) = Places(l, s[k])
<1> DEFINE n == Cardinality(set)
           start == l.offset
           page  == Page(s, start)
           new   == Len(l.seen) + k - start
<1>0. /\ n \in Nat /\ k \in 1..n
      /\ s \in [1..n -> set] /\ \A i, j \in 1..n : s[i] = s[j] => i = j
  BY FS_CardinalityType DEF Sorted, SetToSeqs
<1> HIDE DEF n
<1>1. /\ start \in Nat /\ l.seen \in Seq(set) /\ Len(l.seen) \in Nat /\ Limit \in Nat
      /\ DOMAIN l.seen = 1..Len(l.seen)
  BY LimitAssumption, LenProperties DEF Listings
<1>2. /\ page \in Seq(set) /\ Len(page) \in Nat
      /\ \A i \in 1..Len(page) : start + i \in 1..n /\ i <= Limit /\ page[i] = s[start + i]
      /\ \A i \in 1..Limit : start + i <= n => i \in 1..Len(page)
  BY <1>0, <1>1, PageRows, LenProperties
<1>3. Turned(l, s).seen = l.seen \o page
  BY DEF Turned, Listings
<1> HIDE DEF page
<1>4. /\ l.seen \o page \in Seq(set)
      /\ Len(l.seen \o page) = Len(l.seen) + Len(page)
      /\ DOMAIN (l.seen \o page) = 1..(Len(l.seen) + Len(page))
      /\ \A i \in 1..(Len(l.seen) + Len(page)) :
            (l.seen \o page)[i] = IF i <= Len(l.seen) THEN l.seen[i] ELSE page[i - Len(l.seen)]
  BY <1>1, <1>2, ConcatProperties, LenProperties
<1>5. ASSUME NEW i \in Places(l, s[k])  PROVE i \in Places(Turned(l, s), s[k])
  BY <1>1, <1>2, <1>3, <1>4 DEF Places
<1>6. ASSUME NEW i \in Places(Turned(l, s), s[k])
      PROVE  i \in Places(l, s[k]) \/ (i = new /\ start < k /\ k <= start + Limit)
  <2>1. i \in 1..(Len(l.seen) + Len(page)) /\ (l.seen \o page)[i] = s[k]
    BY <1>3, <1>4 DEF Places
  <2>2. CASE i <= Len(l.seen)
    BY <1>1, <1>4, <2>1, <2>2 DEF Places
  <2>3. CASE i > Len(l.seen)
    <3>1. i - Len(l.seen) \in 1..Len(page)
      BY <1>1, <1>2, <2>1, <2>3
    <3>2. page[i - Len(l.seen)] = s[k]
      BY <1>1, <1>2, <1>4, <2>1, <2>3
    <3>3. start + (i - Len(l.seen)) = k /\ i - Len(l.seen) <= Limit
      BY <1>0, <1>2, <3>1, <3>2
    <3>4. \A o, a, b, j \in Int : o + (j - a) = b /\ j > a => j = a + b - o /\ o < b
      OBVIOUS
    <3>5. /\ start \in Int /\ Len(l.seen) \in Int /\ k \in Int /\ i \in Int /\ Limit \in Int
          /\ i - Len(l.seen) \in Int
      BY <1>0, <1>1, <2>1
    <3>6. i = new /\ start < k
      BY <2>3, <3>3, <3>4, <3>5
    <3>7. k <= start + Limit
      BY <3>3, <3>5
    <3> QED
      BY <3>6, <3>7
  <2> QED
    BY <1>1, <2>1, <2>2, <2>3
<1>7. ASSUME start < k, k <= start + Limit  PROVE new \in Places(Turned(l, s), s[k])
  <2>1. k - start \in 1..Limit /\ start + (k - start) = k
    BY <1>0, <1>1, <1>7
  <2>2. k - start \in 1..Len(page) /\ page[k - start] = s[k]
    BY <1>0, <1>2, <2>1
  <2>3. new \in 1..(Len(l.seen) + Len(page)) /\ new > Len(l.seen) /\ new - Len(l.seen) = k - start
    <3> DEFINE at == k - start
    <3>1. at \in 1..Len(page) /\ new = Len(l.seen) + at
      BY <1>0, <1>1, <2>2
    <3>2. \A a, b \in Nat : \A x \in 1..b :
             a + x \in 1..(a + b) /\ a + x > a /\ (a + x) - a = x
      OBVIOUS
    <3> HIDE DEF at, start
    <3>3. /\ Len(l.seen) + at \in 1..(Len(l.seen) + Len(page)) /\ Len(l.seen) + at > Len(l.seen)
          /\ (Len(l.seen) + at) - Len(l.seen) = at
      BY <1>1, <1>2, <3>1, <3>2
    <3> QED
      BY <3>1, <3>3 DEF at
  <2>4. (l.seen \o page)[new] = s[k]
    BY <1>1, <1>4, <2>2, <2>3
  <2> QED
    BY <1>3, <1>4, <2>3, <2>4 DEF Places
<1> DEFINE here == Places(l, s[k])
           then == Places(Turned(l, s), s[k])
           hit  == start < k /\ k <= start + Limit
<1>8. hit => then = here \cup {new}
  BY <1>5, <1>6, <1>7
<1>9. ~hit => then = here
  BY <1>5, <1>6
<1> QED
  BY <1>8, <1>9

\* Another page keeps what is said of a listing.
LEMMA PageKeeps ==
    ASSUME NEW set, IsFiniteSet(set), NEW time, \A e \in set : time[e] \in Nat,
           NEW l \in Listings(set), l.before \subseteq l.counted, l.step = "select",
           Covered(time, set, l), Once(time, set, l),
           NEW s \in Sorted(time, set)
    PROVE  /\ Turned(l, s) \in Listings(set)
           /\ Turned(l, s).before \subseteq Turned(l, s).counted
           /\ Covered(time, set, Turned(l, s)) /\ Once(time, set, Turned(l, s))
<1> DEFINE n == Cardinality(set)
           m == Turned(l, s)
           page == Page(s, l.offset)
           last == IF l.rule = "total" THEN Cardinality(l.counted) <= l.offset + Limit
                   ELSE Len(page) < Limit
<1>1. n \in Nat /\ Limit \in Nat \ {0} /\ l.offset \in Nat
  BY FS_CardinalityType, LimitAssumption DEF Listings
<1>2. /\ s \in [1..n -> set]
      /\ \A i, j \in 1..n : i # j => s[i] # s[j]
      /\ \A i, j \in 1..n : time[s[i]] > time[s[j]] => i < j
  BY DEF Sorted, SetToSeqs
<1>3. page \in Seq(set) /\ (Len(page) < Limit => n < l.offset + Limit)
  BY <1>1, <1>2, PageRows
<1>4. /\ m = [l EXCEPT !.seen = l.seen \o page, !.offset = l.offset + Limit,
                       !.step = IF last THEN "done" ELSE "count"]
      /\ m.before = l.before /\ m.counted = l.counted /\ m.rule = l.rule
      /\ m.offset = l.offset + Limit /\ m.step = (IF last THEN "done" ELSE "count")
  BY DEF Turned, Listings
<1>5. m \in Listings(set)
  <2>1. l.seen \o page \in Seq(set)
    BY <1>3, ConcatProperties DEF Listings
  <2>2. l.offset + Limit \in Nat /\ (IF last THEN "done" ELSE "count") \in {"count", "select", "done"}
    BY <1>1
  <2> HIDE DEF last, page
  <2> QED
    BY <1>4, <2>1, <2>2 DEF Listings
<1>6. ASSUME NEW d \in set, ~Shares(time, set, d)
      PROVE  /\ Ahead(time, set, d) \in Nat /\ Ahead(time, set, d) + 1 <= n
             /\ IF l.offset <= Ahead(time, set, d) /\ Ahead(time, set, d) < l.offset + Limit
                THEN \E i : Places(m, d) = Places(l, d) \cup {i}
                ELSE Places(m, d) = Places(l, d)
  <2> DEFINE k == Ahead(time, set, d) + 1
  <2>1. Ahead(time, set, d) \in Nat /\ k \in 1..n /\ s[k] = d
    BY <1>6, PlaceInOrder
  <2>2. l.offset < k /\ k <= l.offset + Limit
           <=> l.offset <= Ahead(time, set, d) /\ Ahead(time, set, d) < l.offset + Limit
    BY <1>1, <2>1
  <2>3. IF l.offset < k /\ k <= l.offset + Limit
        THEN Places(m, s[k]) = Places(l, s[k]) \cup {Len(l.seen) + k - l.offset}
        ELSE Places(m, s[k]) = Places(l, s[k])
    <3> HIDE DEF k
    <3> QED
      BY <2>1, PlacesOnPage
  <2> HIDE DEF k, m
  <2>4. IF l.offset < k /\ k <= l.offset + Limit
        THEN \E i : Places(m, d) = Places(l, d) \cup {i}
        ELSE Places(m, d) = Places(l, d)
    BY <2>1, <2>3
  <2>5. Ahead(time, set, d) + 1 <= n
    BY <1>1, <2>1 DEF k
  <2> QED
    BY <2>1, <2>2, <2>4, <2>5
<1> HIDE DEF m, page
<1>7. Covered(time, set, m)
  <2> SUFFICES ASSUME NEW d \in l.before, ~Shares(time, set, d), Places(m, d) = {}
               PROVE  IF m.step = "done" THEN m.rule = "total" /\ set # m.counted
                      ELSE Ahead(time, set, d) >= m.offset
    BY <1>4 DEF Covered
  <2>1. d \in set
    BY DEF Listings
  <2>2. Places(l, d) = {}
    BY <1>6, <2>1
  <2>3. Ahead(time, set, d) >= l.offset
    BY <2>2 DEF Covered
  <2>4. Ahead(time, set, d) >= l.offset + Limit
    BY <1>1, <1>6, <2>1, <2>3
  <2>5. n > l.offset + Limit
    BY <1>1, <1>6, <2>1, <2>4
  <2>6. CASE last
    <3>1. l.rule = "total"
      BY <1>1, <1>3, <2>5, <2>6
    <3>2. set # l.counted
      BY <1>1, <2>5, <2>6, <3>1
    <3> QED
      BY <1>4, <2>6, <3>1, <3>2
  <2>7. CASE ~last
    BY <1>4, <2>4, <2>7
  <2> QED
    BY <2>6, <2>7
<1>8. Once(time, set, m)
  <2> SUFFICES ASSUME NEW d \in set, ~Shares(time, set, d), set = l.before
               PROVE  /\ \A i, j \in Places(m, d) : i = j
                      /\ Places(m, d) # {} => Ahead(time, set, d) < m.offset
    BY <1>4 DEF Once
  <2>1. /\ \A i, j \in Places(l, d) : i = j
        /\ Places(l, d) # {} => Ahead(time, set, d) < l.offset
    BY DEF Once
  <2>2. CASE l.offset <= Ahead(time, set, d) /\ Ahead(time, set, d) < l.offset + Limit
    <3>1. Places(l, d) = {}
      BY <1>1, <1>6, <2>1, <2>2
    <3> QED
      BY <1>4, <1>6, <2>2, <3>1
  <2>3. CASE ~(l.offset <= Ahead(time, set, d) /\ Ahead(time, set, d) < l.offset + Limit)
    <3>1. Places(m, d) = Places(l, d)
      BY <1>6, <2>3
    <3>2. Ahead(time, set, d) < l.offset => Ahead(time, set, d) < l.offset + Limit
      BY <1>1, <1>6
    <3> QED
      BY <1>4, <2>1, <3>1, <3>2
  <2> QED
    BY <2>2, <2>3
<1> QED
  BY <1>4, <1>5, <1>7, <1>8 DEF m

LEMMA SeqOfMore ==
    ASSUME NEW set, NEW more, set \subseteq more, NEW s \in Seq(set)
    PROVE  s \in Seq(more)
<1>1. Len(s) \in Nat /\ s \in [1..Len(s) -> set]
  BY LenProperties
<1>2. \A i \in 1..Len(s) : s[i] \in more
  BY <1>1
<1>3. SubSeq(s, 1, Len(s)) \in Seq(more)
  BY <1>1, <1>2, SubSeqProperties
<1> QED
  BY <1>3, SubSeqFull

\* What is said of a listing is kept while rows are inserted.
LEMMA InsertsKeep ==
    ASSUME NEW set, NEW more, IsFiniteSet(more), set \subseteq more,
           NEW time, NEW late, \A e \in set : late[e] = time[e],
           NEW l \in Listings(set), l.before \subseteq l.counted,
           Covered(time, set, l), Once(time, set, l)
    PROVE  /\ l \in Listings(more)
           /\ Covered(late, more, l) /\ Once(late, more, l)
<1>1. l \in Listings(more)
  <2>1. l.seen \in Seq(more)
    BY SeqOfMore DEF Listings
  <2> QED
    BY <2>1 DEF Listings
<1>2. l.before \subseteq set /\ l.counted \subseteq set /\ l.offset \in Nat
  BY DEF Listings
<1>3. ASSUME NEW d \in set, Shares(time, set, d)  PROVE Shares(late, more, d)
  BY <1>3 DEF Shares
<1>4. ASSUME NEW d \in set
      PROVE  /\ Ahead(time, set, d) \in Nat /\ Ahead(late, more, d) \in Nat
             /\ Ahead(time, set, d) <= Ahead(late, more, d)
  <2>1. Newer(late, set, d) = Newer(time, set, d)
    BY DEF Newer
  <2>2. /\ Ahead(late, set, d) \in Nat /\ Ahead(late, more, d) \in Nat
        /\ Ahead(late, set, d) <= Ahead(late, more, d)
    BY AheadGrows
  <2> QED
    BY <2>1, <2>2 DEF Ahead
<1>5. Covered(late, more, l)
  <2> SUFFICES ASSUME NEW d \in l.before, ~Shares(late, more, d), Places(l, d) = {}
               PROVE  IF l.step = "done" THEN l.rule = "total" /\ more # l.counted
                      ELSE Ahead(late, more, d) >= l.offset
    BY DEF Covered
  <2>1. IF l.step = "done" THEN l.rule = "total" /\ set # l.counted
        ELSE Ahead(time, set, d) >= l.offset
    BY <1>2, <1>3 DEF Covered
  <2>2. CASE l.step = "done"
    BY <1>2, <2>1, <2>2
  <2>3. CASE l.step # "done"
    BY <1>2, <1>4, <2>1, <2>3
  <2> QED
    BY <2>2, <2>3
<1>6. Once(late, more, l)
  <2>1. CASE more = set
    <3> SUFFICES ASSUME NEW d \in set, ~Shares(late, more, d), set = l.before
                 PROVE  /\ \A i, j \in Places(l, d) : i = j
                        /\ Places(l, d) # {} => Ahead(late, more, d) < l.offset
      BY <2>1 DEF Once
    <3>1. Newer(late, more, d) = Newer(time, set, d)
      BY <2>1 DEF Newer
    <3> QED
      BY <1>3, <3>1 DEF Once, Ahead
  <2>2. CASE more # set
    BY <1>2, <2>2 DEF Once
  <2> QED
    BY <2>1, <2>2
<1> QED
  BY <1>1, <1>5, <1>6

-----------------------------------------------------------------------------
(* Lemmas about attempts                                                   *)

\* Another attempt follows a failed one only.
LEMMA HistoryGrows ==
    ASSUME NEW h \in History, h = << >> \/ h[Len(h)] = "failed"
    PROVE  /\ Append(h, "pending") \in History
           /\ \A outcome \in Statuses, count \in Nat :
                 Behind(outcome, count, h) => Behind(outcome, count, Append(h, "pending"))
<1> DEFINE more == Append(h, "pending")
<1>1. h \in Seq(Statuses) /\ Len(h) \in Nat /\ DOMAIN h = 1..Len(h)
  BY LenProperties DEF History, Statuses
<1>2. /\ more \in Seq(Statuses) /\ Len(more) = Len(h) + 1 /\ DOMAIN more = 1..(Len(h) + 1)
      /\ \A i \in 1..Len(h) : more[i] = h[i]
  BY <1>1, AppendProperties, LenProperties DEF Statuses
<1> HIDE DEF more
<1>3. h = << >> => Len(h) = 0
  BY EmptySeq
<1>4. \A i \in DOMAIN more : i < Len(more) => more[i] = "failed"
  <2> SUFFICES ASSUME NEW i \in 1..Len(h)  PROVE h[i] = "failed"
    BY <1>1, <1>2
  <2>1. h # << >>
    BY <1>1, <1>3
  <2>2. i < Len(h) => h[i] = "failed"
    BY <1>1 DEF History
  <2> QED
    BY <1>1, <2>1, <2>2
<1>5. ASSUME NEW outcome \in Statuses, NEW count \in Nat, Behind(outcome, count, h)
      PROVE  Behind(outcome, count, more)
  <2>1. count <= Len(more)
    BY <1>1, <1>2, <1>5 DEF Behind
  <2>2. outcome # "pending" => count \in 1..Len(h) /\ h[count] = outcome
    BY <1>1, <1>5 DEF Behind
  <2> QED
    BY <1>2, <2>1, <2>2 DEF Behind
<1> QED
  BY <1>2, <1>4, <1>5 DEF History, Statuses, more

\* The last attempt is settled while it is pending, and no other.
LEMMA HistorySettles ==
    ASSUME NEW h \in History, h # << >>, h[Len(h)] = "pending",
           NEW status \in {"delivered", "failed"}
    PROVE  /\ [h EXCEPT ![Len(h)] = status] \in History
           /\ \A outcome \in Statuses, count \in Nat :
                 Behind(outcome, count, h)
                    => Behind(outcome, count, [h EXCEPT ![Len(h)] = status])
<1> DEFINE done == [h EXCEPT ![Len(h)] = status]
<1>1. /\ h \in Seq(Statuses) /\ Len(h) \in Nat /\ DOMAIN h = 1..Len(h)
      /\ Len(h) \in 1..Len(h)
  BY LenProperties, EmptySeq DEF History, Statuses
<1>2. done \in Seq(Statuses) /\ Len(done) = Len(h) /\ DOMAIN done = DOMAIN h
  BY <1>1, ExceptSeq, LenProperties DEF Statuses
<1>3. \A i \in 1..Len(h) : i # Len(h) => done[i] = h[i]
  BY <1>1
<1> HIDE DEF done
<1>4. \A i \in DOMAIN done : i < Len(done) => done[i] = "failed"
  BY <1>1, <1>2, <1>3 DEF History
<1>5. ASSUME NEW outcome \in Statuses, NEW count \in Nat, Behind(outcome, count, h)
      PROVE  Behind(outcome, count, done)
  <2>1. count <= Len(h)
    BY <1>5 DEF Behind
  <2>2. ASSUME outcome # "pending"  PROVE count >= 1 /\ done[count] = outcome
    <3>1. count >= 1 /\ h[count] = outcome
      BY <1>5, <2>2 DEF Behind
    <3>2. count # Len(h)
      BY <2>2, <3>1
    <3>3. count \in 1..Len(h)
      BY <1>1, <2>1, <3>1
    <3> QED
      BY <1>3, <3>1, <3>2, <3>3
  <2> QED
    BY <1>2, <2>1, <2>2 DEF Behind
<1> QED
  BY <1>2, <1>4, <1>5 DEF History, Statuses, done

-----------------------------------------------------------------------------
(* The invariant holds                                                     *)

LEMMA InitInvariant == Init => Invariant
<1> SUFFICES ASSUME Init  PROVE TablesOK
  BY DEF Init, Invariant, ListingOK, DetailOK
<1>1. << >> \in History
  BY EmptySeq DEF History
<1> QED
  BY <1>1, FS_EmptySet, ReadingBounds DEF Init, TablesOK

Write(d) == Stamp(d) \/ Commit(d) \/ Begin(d) \/ Settle(d)

\* What the writer does to the attempts of a delivery: no outcome is lost.
LEMMA AttemptsEffect ==
    ASSUME TablesOK, NEW d \in Deliveries, Write(d)
    PROVE  /\ attempts' \in [Deliveries -> History]
           /\ \A e \in Deliveries, outcome \in Statuses, count \in Nat :
                 Behind(outcome, count, attempts[e]) => Behind(outcome, count, attempts'[e])
<1>1. attempts \in [Deliveries -> History] /\ attempts[d] \in History
  BY DEF TablesOK
<1>2. CASE Stamp(d) \/ Commit(d)
  BY <1>1, <1>2 DEF Stamp, Commit
<1>3. CASE Begin(d)
  <2>1. attempts[d] = << >> \/ attempts[d][Len(attempts[d])] = "failed"
    BY <1>3 DEF Begin, Status, Last
  <2>2. attempts' = [attempts EXCEPT ![d] = Append(attempts[d], "pending")]
    BY <1>3 DEF Begin
  <2> QED
    BY <1>1, <2>1, <2>2, HistoryGrows
<1>4. CASE Settle(d)
  <2>1. attempts[d] # << >> /\ attempts[d][Len(attempts[d])] = "pending"
    BY <1>4 DEF Settle, Status, Last
  <2>2. PICK status \in {"delivered", "failed"} :
           attempts' = [attempts EXCEPT ![d] = [attempts[d] EXCEPT ![Len(attempts[d])] = status]]
    BY <1>1, <1>4 DEF Settle
  <2> QED
    BY <1>1, <2>1, <2>2, HistorySettles
<1> QED
  BY <1>2, <1>3, <1>4 DEF Write

\* What the writer does to the rows: committed ones stay, with their time stamps.
LEMMA RowsEffect ==
    ASSUME TablesOK, NEW d \in Deliveries, Write(d)
    PROVE  /\ rows \subseteq rows' /\ \A e \in rows : created_at'[e] = created_at[e]
           /\ UNCHANGED <<now, listing, detail>>
<1>1. CASE Stamp(d)
  BY <1>1 DEF Stamp, TablesOK
<1>2. CASE Commit(d)
  BY <1>2 DEF Commit
<1>3. CASE Begin(d) \/ Settle(d)
  BY <1>3 DEF Begin, Settle
<1> QED
  BY <1>1, <1>2, <1>3 DEF Write

\* Readers and the clock leave the tables alone.
LEMMA NextTables == TablesOK /\ [Next]_vars => TablesOK'
<1> SUFFICES ASSUME TablesOK, [Next]_vars  PROVE TablesOK'
  OBVIOUS
<1> USE DEF TablesOK
<1>1. CASE Tick
  BY <1>1, ReadingBounds DEF Tick, tables
<1>2. ASSUME NEW d \in Deliveries, Write(d)  PROVE TablesOK'
  <2>1. attempts' \in [Deliveries -> History]
    BY <1>2, AttemptsEffect
  <2>2. CASE Stamp(d)
    BY <2>1, <2>2, ReadingBounds DEF Stamp
  <2>3. CASE Commit(d)
    <3>1. IsFiniteSet(rows')
      BY <2>3, FS_AddElement DEF Commit
    <3> QED
      BY <2>1, <2>3, <3>1 DEF Commit
  <2>4. CASE Begin(d)
    BY <2>1, <2>4, ReadingBounds DEF Begin
  <2>5. CASE Settle(d)
    <3>1. updated_at' = [updated_at EXCEPT ![d] = now] /\ UNCHANGED <<now, created_at, rows>>
      BY <2>5 DEF Settle
    <3> QED
      BY <2>1, <3>1, ReadingBounds
  <2> QED
    BY <1>2, <2>2, <2>3, <2>4, <2>5 DEF Write
<1>3. CASE StartListing \/ CountRows \/ SelectPage \/ OpenDetail \/ QueryDetail
  BY <1>3 DEF StartListing, CountRows, SelectPage, OpenDetail, QueryDetail, tables
<1>4. CASE Idle \/ UNCHANGED vars
  BY <1>4 DEF Idle, vars, tables
<1> QED
  BY <1>1, <1>2, <1>3, <1>4 DEF Next, Write

\* Every time stamp that a query sorts by is a time.
LEMMA TimesOfRows ==
    ASSUME TablesOK
    PROVE  IsFiniteSet(rows) /\ \A e \in rows : created_at[e] \in Nat
  BY ReadingBounds DEF TablesOK

LEMMA NextListing ==
    ASSUME TablesOK, TablesOK', ListingOK, [Next]_vars
    PROVE  ListingOK'
<1> DEFINE Good(l, set, time) == /\ l \in Listings(set) /\ l.before \subseteq l.counted
                                 /\ Covered(time, set, l) /\ Once(time, set, l)
<1>1. listing # None => Good(listing, rows, created_at)
  BY DEF ListingOK
<1>2. IsFiniteSet(rows) /\ \A e \in rows : created_at[e] \in Nat
  BY TimesOfRows
<1>3. SUFFICES ASSUME listing' # None  PROVE Good(listing', rows', created_at')
  BY DEF ListingOK
<1>4. ASSUME NEW d \in Deliveries, Write(d)  PROVE Good(listing', rows', created_at')
  <2>1. /\ rows \subseteq rows' /\ \A e \in rows : created_at'[e] = created_at[e]
        /\ listing' = listing
    BY <1>4, RowsEffect
  <2>2. IsFiniteSet(rows')
    BY DEF TablesOK
  <2> QED
    BY <1>1, <1>3, <2>1, <2>2, InsertsKeep
<1>5. CASE StartListing
  <2>1. PICK ends \in {"short", "total"} :
           listing' = [step |-> "count", rule |-> ends, offset |-> 0, seen |-> << >>,
                       before |-> rows, counted |-> rows]
    BY <1>5 DEF StartListing
  <2>2. rows' = rows /\ created_at' = created_at
    BY <1>5 DEF StartListing, tables
  <2> DEFINE l == listing'
  <2>3. << >> \in Seq(rows) /\ DOMAIN << >> = {}
    <3>1. << >> \in Seq(rows)
      BY EmptySeq
    <3>2. DOMAIN << >> = {}
      OBVIOUS
    <3> QED
      BY <3>1, <3>2
  <2>4. l \in Listings(rows)
    BY <2>1, <2>3 DEF Listings
  <2>5. \A d : Places(l, d) = {}
    BY <2>1, <2>3 DEF Places
  <2>6. \A d : Ahead(created_at, rows, d) \in Nat
    BY <1>2, AheadGrows
  <2>7. Covered(created_at, rows, l) /\ Once(created_at, rows, l)
    <3>1. l.step = "count" /\ l.before = rows /\ l.offset = 0
      BY <2>1
    <3> HIDE DEF l
    <3>2. ASSUME NEW d  PROVE Ahead(created_at, rows, d) >= l.offset
      <4>1. Ahead(created_at, rows, d) \in Nat
        BY <2>6
      <4> QED
        BY <3>1, <4>1
    <3>3. Covered(created_at, rows, l)
      BY <3>1, <3>2 DEF Covered
    <3>4. Once(created_at, rows, l)
      BY <2>5 DEF Once
    <3> QED
      BY <3>3, <3>4
  <2> QED
    BY <2>1, <2>2, <2>4, <2>7
<1>6. CASE CountRows
  <2>1. /\ Good(listing, rows, created_at) /\ listing.step = "count"
        /\ listing' = [listing EXCEPT !.step = "select", !.counted = rows]
        /\ rows' = rows /\ created_at' = created_at
    BY <1>1, <1>6 DEF CountRows, tables
  <2>2. /\ listing' \in Listings(rows)
        /\ listing'.before = listing.before /\ listing'.counted = rows
        /\ listing'.step = "select" /\ listing'.offset = listing.offset
        /\ listing'.seen = listing.seen
    BY <2>1 DEF Listings
  <2>3. \A d : Places(listing', d) = Places(listing, d)
    BY <2>2 DEF Places
  <2>4. Covered(created_at, rows, listing')
    BY <2>1, <2>2, <2>3 DEF Covered
  <2>5. Once(created_at, rows, listing')
    BY <2>1, <2>2, <2>3 DEF Once
  <2>6. listing.before \subseteq rows
    BY <2>1 DEF Listings
  <2> QED
    BY <2>1, <2>2, <2>4, <2>5, <2>6
<1>7. CASE SelectPage
  <2>1. /\ Good(listing, rows, created_at) /\ listing.step = "select"
        /\ rows' = rows /\ created_at' = created_at
    BY <1>1, <1>7 DEF SelectPage, tables
  <2>2. PICK order \in Orders : listing' = Turned(listing, order)
    BY <1>7 DEF SelectPage, Turned, Page
  <2>3. order \in Sorted(created_at, rows)
    BY DEF Orders, CreatedLater, Sorted
  <2> QED
    BY <1>2, <2>1, <2>2, <2>3, PageKeeps
<1>8. CASE Tick \/ OpenDetail \/ QueryDetail \/ Idle \/ UNCHANGED vars
  <2>1. UNCHANGED <<rows, created_at, listing>>
    BY <1>8 DEF Tick, OpenDetail, QueryDetail, Idle, vars, tables
  <2> QED
    BY <1>1, <1>3, <2>1
<1> QED
  BY <1>4, <1>5, <1>6, <1>7, <1>8 DEF Next, Write

LEMMA NextDetail ==
    ASSUME TablesOK, DetailOK, [Next]_vars
    PROVE  DetailOK'
<1> DEFINE Good(v, set, history) ==
               /\ v \in Details(set)
               /\ v.step >= 2 => Behind(v.status, v.count, history[v.of])
               /\ v.step = 3 => Behind(v.status, v.count, v.shown)
<1>1. detail # None => Good(detail, rows, attempts)
  BY DEF DetailOK
<1>2. rows \subseteq Deliveries /\ attempts \in [Deliveries -> History]
  BY DEF TablesOK
<1>3. SUFFICES ASSUME detail' # None  PROVE Good(detail', rows', attempts')
  BY DEF DetailOK
<1>4. ASSUME NEW d \in Deliveries, Write(d)  PROVE Good(detail', rows', attempts')
  <2>1. rows \subseteq rows' /\ detail' = detail
    BY <1>4, RowsEffect
  <2>2. /\ detail.of \in Deliveries /\ detail.status \in Statuses /\ detail.count \in Nat
        /\ Good(detail, rows, attempts)
    BY <1>1, <1>2, <1>3, <2>1 DEF Details
  <2>3. detail.step >= 2 => Behind(detail.status, detail.count, attempts'[detail.of])
    BY <1>4, <2>2, AttemptsEffect
  <2>4. detail \in Details(rows')
    BY <2>1, <2>2 DEF Details
  <2> QED
    BY <2>1, <2>2, <2>3, <2>4
<1>5. CASE OpenDetail
  <2>1. PICK d \in rows : detail' = [of |-> d, step |-> 1, status |-> "pending",
                                     count |-> 0, shown |-> << >>]
    BY <1>5 DEF OpenDetail
  <2>2. << >> \in History
    BY EmptySeq DEF History
  <2>3. rows' = rows
    BY <1>5 DEF OpenDetail, tables
  <2> QED
    BY <2>1, <2>2, <2>3 DEF Details, Statuses
<1>6. CASE QueryDetail
  <2>1. /\ Good(detail, rows, attempts) /\ detail.step \in {1, 2}
        /\ rows' = rows /\ attempts' = attempts
    BY <1>1, <1>6 DEF QueryDetail, tables, Details
  <2> DEFINE d == detail.of
             h == attempts[d]
  <2>2. d \in rows /\ h \in History
    BY <1>2, <2>1 DEF Details
  <2>3. h \in Seq(Statuses) /\ Len(h) \in Nat /\ (h = << >> => Len(h) = 0)
        /\ (h # << >> => Len(h) \in 1..Len(h))
    BY <2>2, EmptySeq, LenProperties DEF History, Statuses
  <2>4. CASE detail.step = 1
    <3>1. detail' = [detail EXCEPT !.step = 2, !.status = Status(d), !.count = Len(h)]
      BY <1>6, <2>4 DEF QueryDetail, Queries
    <3>2. Status(d) \in Statuses /\ Behind(Status(d), Len(h), h)
      <4>1. CASE h = << >>
        BY <2>3, <4>1 DEF Status, Behind, Statuses
      <4>2. CASE h # << >>
        <5>1. Status(d) = h[Len(h)] /\ Len(h) >= 1
          BY <2>3, <4>2 DEF Status, Last
        <5>2. h[Len(h)] \in Statuses
          BY <2>3, <4>2, ElementOfSeq
        <5> QED
          BY <2>3, <5>1, <5>2 DEF Behind
      <4> QED
        BY <4>1, <4>2
    <3> HIDE DEF h
    <3>0. 2 \in 1..3 /\ detail \in Details(rows) /\ Len(h) \in Nat /\ Status(d) \in Statuses
      BY <2>1, <2>3, <3>2
    <3>3. /\ detail' \in Details(rows) /\ detail'.step = 2 /\ detail'.of = d
          /\ detail'.status = Status(d) /\ detail'.count = Len(h)
      BY <3>0, <3>1 DEF Details
    <3> QED
      BY <2>1, <3>2, <3>3 DEF h
  <2>5. CASE detail.step = 2
    <3>1. detail' = [detail EXCEPT !.step = 3, !.shown = h]
      BY <1>6, <2>5 DEF QueryDetail, Queries
    <3>2. Behind(detail.status, detail.count, h)
      BY <2>1, <2>5
    <3> HIDE DEF h
    <3>0. 3 \in 1..3 /\ detail \in Details(rows) /\ h \in History
      BY <2>1, <2>2
    <3>3. /\ detail' \in Details(rows) /\ detail'.step = 3 /\ detail'.of = d
          /\ detail'.status = detail.status /\ detail'.count = detail.count /\ detail'.shown = h
      BY <3>0, <3>1 DEF Details
    <3> QED
      BY <2>1, <3>2, <3>3 DEF h
  <2> QED
    BY <2>1, <2>4, <2>5
<1>7. CASE Tick \/ StartListing \/ CountRows \/ SelectPage \/ Idle \/ UNCHANGED vars
  <2>1. UNCHANGED <<rows, attempts, detail>>
    BY <1>7 DEF Tick, StartListing, CountRows, SelectPage, Idle, vars, tables
  <2> QED
    BY <1>1, <1>3, <2>1
<1> QED
  BY <1>4, <1>5, <1>6, <1>7 DEF Next, Write

LEMMA InvariantHolds == Spec => []Invariant
<1>1. Invariant /\ [Next]_vars => Invariant'
  BY NextTables, NextListing, NextDetail DEF Invariant
<1> QED
  BY InitInvariant, <1>1, PTL DEF Spec

-----------------------------------------------------------------------------
(* Theorems *)

\* Types, and what the code keeps with them.
THEOREM ReadingTyped == Spec => []TypeOK
<1>1. Invariant => TypeOK
  <2> SUFFICES ASSUME Invariant  PROVE TypeOK
    OBVIOUS
  <2>1. \A d \in rows : created_at[d] # None /\ created_at[d] <= updated_at[d]
    BY DEF Invariant, TablesOK
  <2>2. listing = None \/ (/\ listing.step \in {"count", "select", "done"}
                           /\ listing.seen \in Seq(rows)
                           /\ listing.before \subseteq listing.counted
                           /\ listing.counted \subseteq rows)
    BY DEF Invariant, ListingOK, Listings
  <2>3. detail = None \/ (detail.of \in rows /\ detail.step \in 1..3)
    BY DEF Invariant, DetailOK, Details
  <2> QED
    BY <2>1, <2>2, <2>3 DEF Invariant, TablesOK, TypeOK
<1> QED
  BY InvariantHolds, <1>1, PTL

\* list_deliveries: a delivery that was committed before a client began to list is
\* on one of its pages, but for ties and for a total that was outdated.
THEOREM PagesLoseNothing == Spec => []NoneMissed
<1>1. Invariant => NoneMissed
  BY DEF Invariant, ListingOK, Covered, Shares, Places, NoneMissed, SeenAt, Tied
<1> QED
  BY InvariantHolds, <1>1, PTL

\* list_deliveries: a page repeats a delivery only if another was committed
\* meanwhile or has the same time stamp.
THEOREM PagesRepeatForACause == Spec => []RepeatsExplained
<1>1. Invariant => RepeatsExplained
  <2> SUFFICES ASSUME Invariant, listing # None, NEW d \in rows,
                      ~Tied(d), rows = listing.before
               PROVE  Cardinality(SeenAt(d)) <= 1
    BY DEF RepeatsExplained
  <2>1. \A i, j \in SeenAt(d) : i = j
    BY DEF Invariant, ListingOK, Once, Shares, Places, SeenAt, Tied
  <2>2. CASE SeenAt(d) = {}
    BY <2>2, FS_EmptySet
  <2>3. CASE SeenAt(d) # {}
    <3>1. PICK i : SeenAt(d) = {i}
      BY <2>1, <2>3
    <3> QED
      BY <3>1, FS_Singleton
  <2> QED
    BY <2>2, <2>3
<1> QED
  BY InvariantHolds, <1>1, PTL

\* get_delivery: the attempts on the page of a delivery are never behind its row.
THEOREM DetailKeepsUp == Spec => []DetailNeverBehind
<1>1. Invariant => DetailNeverBehind
  <2> SUFFICES ASSUME Invariant, detail # None, detail.step = 3
               PROVE  /\ Len(detail.shown) >= detail.count
                      /\ detail.status # "pending" => detail.shown[detail.count] = detail.status
    BY DEF DetailNeverBehind
  <2>1. /\ Behind(detail.status, detail.count, detail.shown)
        /\ detail.count \in Nat /\ detail.shown \in History
    BY DEF Invariant, DetailOK, Details
  <2>2. Len(detail.shown) \in Nat
    BY <2>1, LenProperties DEF History
  <2> QED
    BY <2>1, <2>2 DEF Behind
<1> QED
  BY InvariantHolds, <1>1, PTL

=============================================================================
