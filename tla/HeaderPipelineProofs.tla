----------------------- MODULE HeaderPipelineProofs -----------------------
(***************************************************************************)
(* The safety properties of HeaderPipeline for any names, values, settings,*)
(* requests, calls and restarts.                                           *)
(*                                                                         *)
(* First what the header functions do to a dict: it stays one, the last    *)
(* entry of a name remains the last, a fingerprint is the last value of    *)
(* every name, the wire has every name once. Then what each kind of step   *)
(* does, and two inductive invariants: Settled says that a row holds what  *)
(* its creation gave, that answers compare fingerprints and that evidence  *)
(* is redacted; Accounted says where every value in memory comes from and  *)
(* that a row that may be sent has one for each of its markers, in the     *)
(* process that created it, unless the cache may have dropped them.        *)
(***************************************************************************)
EXTENDS HeaderPipeline, FiniteSetTheorems, TLAPS

(* Numbers *)

\* A set of naturals that is not empty has a least element.
LEMMA Least ==
    ASSUME NEW T, T \subseteq Nat, T # {}
    PROVE  \E x \in T : \A y \in T : x <= y
<1> DEFINE R == OpToRel(<, Nat)
<1>1. IsWellFoundedOn(R, Nat)
  BY NatLessThanWellFounded
<1>2. \A x, y \in Nat : y < x => <<y, x>> \in R
  BY DEF OpToRel
<1> HIDE DEF R
<1>3. PICK x \in T : \A y \in T : ~ (<<y, x>> \in R)
  BY <1>1, WFMin
<1>4. ASSUME NEW y \in T PROVE x <= y
  <2>1. x \in Nat /\ y \in Nat
    OBVIOUS
  <2>2. ~ (<<y, x>> \in R)
    BY <1>3
  <2>3. ~ (y < x)
    BY <1>2, <2>1, <2>2
  <2> QED
    BY <2>1, <2>3
<1> QED
  BY <1>4

\* A set of naturals below a bound that is not empty has a greatest element.
LEMMA Greatest ==
    ASSUME NEW n \in Nat, NEW T, T \subseteq 0..n, T # {}
    PROVE  \E x \in T : \A y \in T : y <= x
<1> DEFINE U == {n - x : x \in T}
<1>1. U \subseteq Nat /\ U # {}
  <2>1. \A x \in 0..n : n - x \in Nat
    BY SMTT(30)
  <2>2. \A x \in T : n - x \in Nat
    BY <2>1
  <2> QED
    BY <2>2
<1>2. PICK u \in U : \A w \in U : u <= w
  <2> HIDE DEF U
  <2> QED
    BY <1>1, Least
<1>3. PICK x \in T : u = n - x
  OBVIOUS
<1>4. ASSUME NEW y \in T PROVE y <= x
  <2>1. n - x <= n - y
    BY <1>2, <1>3
  <2>2. n \in Int /\ x \in Int /\ y \in Int
    OBVIOUS
  <2> HIDE DEF U
  <2> QED
    BY <2>1, <2>2
<1> QED
  BY <1>4

-----------------------------------------------------------------------------
(* Dicts *)

\* A dict is finite: its entries have places up to some number.
Dicts == {H \in SUBSET Entry : IsDict(H) /\ \E n \in Nat : \A h \in H : h.at \in 0..n}

\* _check_headers gives a dict.
LEMMA CheckedIsDict ==
    ASSUME NEW raw \in Seq(Header)
    PROVE  _check_headers(raw) \in Dicts
<1> DEFINE n == Len(raw)
           keys == [i \in DOMAIN raw |-> Strip(raw[i].key)]
           same(i) == {j \in DOMAIN raw : keys[j] = keys[i]}
           entry(i) == [key |-> keys[i], at |-> Min(same(i)), value |-> raw[Max(same(i))].value]
<1>1. n \in Nat /\ DOMAIN raw = 1..n /\ \A i \in 1..n : raw[i] \in Header
  OBVIOUS
<1>2. \A i \in 1..n : raw[i].key \in Key /\ raw[i].value \in Value
  BY <1>1 DEF Header
<1>3. \A k \in Key : Strip(k) \in Key /\ Strip(Strip(k)) = Strip(k)
  BY DEF Key, Form, Strip
<1>4. \A i \in 1..n : keys[i] \in Key /\ Strip(keys[i]) = keys[i]
  BY <1>1, <1>2, <1>3
<1>5. \A i \in 1..n : same(i) \subseteq 1..n /\ i \in same(i)
  BY <1>1
<1>6. ASSUME NEW i \in 1..n PROVE Min(same(i)) \in same(i) /\ Max(same(i)) \in same(i)
  <2> DEFINE T == same(i)
  <2>1. T \subseteq Nat /\ T \subseteq 0..n /\ T # {}
    <3>1. T \subseteq 1..n /\ T # {}
      BY <1>5
    <3> HIDE DEF T, n
    <3> QED
      BY <3>1, <1>1
  <2> HIDE DEF T, n
  <2>2. (\E x \in T : \A y \in T : x <= y) /\ (\E x \in T : \A y \in T : y <= x)
    BY <2>1, <1>1, Least, Greatest
  <2>3. \A x, y \in T : y <= x => x >= y
    BY <2>1
  <2>4. \E x \in T : \A y \in T : x >= y
    BY <2>2, <2>3
  <2>5. Min(T) \in T
    BY <2>2 DEF Min
  <2>6. Max(T) \in T
    BY <2>4 DEF Max
  <2> QED
    BY <2>5, <2>6 DEF T
<1>7. \A i \in 1..n : entry(i) \in Entry /\ entry(i).at \in 0..n
  <2> SUFFICES ASSUME NEW i \in 1..n PROVE entry(i) \in Entry /\ entry(i).at \in 0..n
    OBVIOUS
  <2>1. Min(same(i)) \in 1..n /\ Max(same(i)) \in 1..n
    BY <1>5, <1>6
  <2>2. raw[Max(same(i))].value \in Value /\ keys[i] \in Key
    BY <2>1, <1>2, <1>4
  <2> HIDE DEF same, keys, n
  <2>3. Min(same(i)) \in Nat /\ Min(same(i)) \in 0..n
    BY <2>1, <1>1
  <2> QED
    BY <2>2, <2>3 DEF Entry
<1>8. \A i, j \in 1..n : entry(i).key = entry(j).key \/ entry(i).at = entry(j).at => entry(i) = entry(j)
  <2> SUFFICES ASSUME NEW i \in 1..n, NEW j \in 1..n,
                      entry(i).key = entry(j).key \/ entry(i).at = entry(j).at
               PROVE  entry(i) = entry(j)
    <3> HIDE DEF entry
    <3> QED
      OBVIOUS
  <2>1. keys[i] = keys[j]
    <3>0. keys[i] = keys[j] \/ Min(same(i)) = Min(same(j))
      OBVIOUS
    <3>1. Min(same(i)) \in same(i) /\ Min(same(j)) \in same(j)
      BY <1>6
    <3>2. Min(same(i)) = Min(same(j)) => keys[i] = keys[j]
      BY <3>1
    <3> QED
      BY <3>0, <3>2
  <2>2. same(i) = same(j)
    BY <2>1
  <2> QED
    BY <2>1, <2>2
<1>9. _check_headers(raw) = {entry(i) : i \in 1..n}
  BY <1>1 DEF _check_headers, Assigned
<1>10. \A i \in 1..n : entry(i).key = Strip(entry(i).key)
  BY <1>4
<1> HIDE DEF entry, n
<1>11. IsDict(_check_headers(raw))
  BY <1>8, <1>9, <1>10 DEF IsDict
<1>12. _check_headers(raw) \in SUBSET Entry /\ \A h \in _check_headers(raw) : h.at \in 0..n
  BY <1>7, <1>9
<1> QED
  BY <1>1, <1>11, <1>12 DEF Dicts

\* A part of a dict is a dict.
LEMMA PartIsDict ==
    ASSUME NEW H \in Dicts, NEW G \in SUBSET H
    PROVE  G \in Dicts
BY DEF Dicts, IsDict

\* Names are names, values are values.
LEMMA EntryParts ==
    ASSUME NEW h \in Entry
    PROVE  /\ NameOf(h) \in Names /\ h.key \in Key /\ h.at \in Nat /\ h.value \in Value
           /\ \A v : LET g == [h EXCEPT !.value = v]
                     IN  g.key = h.key /\ g.at = h.at /\ g.value = v /\ NameOf(g) = NameOf(h)
           /\ \A v \in Value : [h EXCEPT !.value = v] \in Entry
BY DEF Entry, Key, NameOf

\* The last entry of a name.
LEMMA LastOfName ==
    ASSUME NEW H \in Dicts, NEW n \in NamesIn(H)
    PROVE  /\ Last(Named(H, n)) \in H
           /\ NameOf(Last(Named(H, n))) = n
           /\ \A g \in H : NameOf(g) = n => g.at <= Last(Named(H, n)).at
<1> DEFINE G == Named(H, n)
           ats == {g.at : g \in G}
<1>1. PICK m \in Nat : \A h \in H : h.at \in 0..m
  BY DEF Dicts
<1>2. G # {} /\ G \subseteq H
  BY DEF NamesIn, Named
<1>3. ats \subseteq 0..m /\ ats # {}
  BY <1>1, <1>2
<1>4. PICK a \in ats : \A b \in ats : b <= a
  <2> HIDE DEF ats
  <2> QED
    BY <1>1, <1>3, Greatest
<1>5. \E h \in G : \A g \in G : g.at <= h.at
  BY <1>4
<1>6. Last(G) \in G /\ \A g \in G : g.at <= Last(G).at
  BY <1>5 DEF Last
<1> QED
  BY <1>6 DEF Named

\* The place of an entry tells it from the others, so the last one is unique.
LEMMA LastIs ==
    ASSUME NEW H \in Dicts, NEW h \in H,
           \A g \in H : NameOf(g) = NameOf(h) => g.at <= h.at
    PROVE  Last(Named(H, NameOf(h))) = h
<1> DEFINE n == NameOf(h)
           l == Last(Named(H, n))
<1>1. n \in NamesIn(H)
  BY DEF NamesIn
<1>2. l \in H /\ NameOf(l) = n /\ h.at <= l.at
  BY <1>1, LastOfName
<1>3. l.at <= h.at
  BY <1>2
<1>4. l.at \in Nat /\ h.at \in Nat
  BY <1>2 DEF Dicts, Entry
<1> HIDE DEF l
<1>5. l.at = h.at
  BY <1>2, <1>3, <1>4
<1> QED
  BY <1>2, <1>5 DEF Dicts, IsDict, l

\* What a dict with lowered keys maps its names to.
LEMMA LoweredIs ==
    ASSUME NEW H \in Dicts
    PROVE  /\ NamesIn(H) \in SUBSET Names
           /\ Lowered(H) \in [NamesIn(H) -> Value]
           /\ Lowered(H) \in Lowering
           /\ \A n \in NamesIn(H) : \E h \in H : NameOf(h) = n /\ Lowered(H)[n] = h.value
<1>1. \A h \in H : NameOf(h) \in Names /\ h.value \in Value
  BY EntryParts DEF Dicts
<1>2. NamesIn(H) \in SUBSET Names
  BY <1>1 DEF NamesIn
<1>3. \A n \in NamesIn(H) : /\ Last(Named(H, n)) \in H
                            /\ NameOf(Last(Named(H, n))) = n
                            /\ Lowered(H)[n] = Last(Named(H, n)).value
  BY LastOfName DEF Lowered
<1>4. Lowered(H) \in [NamesIn(H) -> Value]
  BY <1>1, <1>3 DEF Lowered
<1> QED
  BY <1>2, <1>3, <1>4 DEF Lowering


\* Entries whose values change, in place and one by one, remain a dict, and the
\* last of a name remains the last.
LEMMA NewValues ==
    ASSUME NEW H \in Dicts, NEW f,
           \A h \in H : f[h] \in Entry /\ f[h].key = h.key /\ f[h].at = h.at
    PROVE  /\ {f[h] : h \in H} \in Dicts
           /\ NamesIn({f[h] : h \in H}) = NamesIn(H)
           /\ \A n \in NamesIn(H) :
                 Last(Named({f[h] : h \in H}, n)) = f[Last(Named(H, n))]
<1> DEFINE G == {f[h] : h \in H}
<1>1. G \in SUBSET Entry /\ H \in SUBSET Entry
  BY DEF Dicts
<1>2. \A h \in H : NameOf(f[h]) = NameOf(h)
  BY DEF NameOf
<1>3. IsDict(G)
  <2>1. \A g \in G : g.key = Strip(g.key)
    BY DEF Dicts, IsDict
  <2>2. \A g, h \in H : f[g].key = f[h].key \/ f[g].at = f[h].at => f[g] = f[h]
    BY DEF Dicts, IsDict
  <2> QED
    BY <2>1, <2>2 DEF IsDict
<1>4. \E n \in Nat : \A g \in G : g.at \in 0..n
  BY DEF Dicts
<1>5. G \in Dicts
  <2> HIDE DEF G
  <2> QED
    BY <1>1, <1>3, <1>4 DEF Dicts
<1>6. NamesIn(G) = NamesIn(H)
  BY <1>2 DEF NamesIn
<1>7. ASSUME NEW n \in NamesIn(H)
      PROVE  Last(Named(G, n)) = f[Last(Named(H, n))]
  <2> DEFINE l == Last(Named(H, n))
  <2>1. l \in H /\ NameOf(l) = n /\ \A g \in H : NameOf(g) = n => g.at <= l.at
    BY LastOfName
  <2> HIDE DEF l
  <2>2. f[l] \in G /\ NameOf(f[l]) = n
    BY <1>2, <2>1
  <2>3. \A g \in G : NameOf(g) = NameOf(f[l]) => g.at <= f[l].at
    BY <1>2, <2>1, <2>2
  <2> HIDE DEF G
  <2>4. Last(Named(G, NameOf(f[l]))) = f[l]
    BY <1>5, <2>2, <2>3, LastIs
  <2> QED
    BY <2>2, <2>4 DEF l
<1> QED
  BY <1>5, <1>6, <1>7

\* Names with a marker are names of the dict.
LEMMA MarkedAreNames ==
    ASSUME NEW H \in Dicts
    PROVE  redacted_header_names(H) \subseteq NamesIn(H) /\ redacted_header_names(H) \subseteq Names
<1>1. NamesIn(H) \subseteq Names
  BY LoweredIs
<1>2. redacted_header_names(H) \subseteq NamesIn(H)
  BY DEF redacted_header_names, NamesIn
<1> QED
  BY <1>1, <1>2

-----------------------------------------------------------------------------
(* Redaction *)

\* What redaction does to an entry.
LEMMA RedactedEntry ==
    ASSUME NEW H \in Dicts, NEW sensitive
    PROVE  /\ \A g \in redact_headers(H, sensitive) : \E h \in H :
                 /\ g.key = h.key /\ g.at = h.at /\ NameOf(g) = NameOf(h)
                 /\ g.value = IF NameOf(h) \in sensitive THEN REDACTED ELSE h.value
                 /\ NameOf(h) \notin sensitive => g = h
           /\ \A h \in H : \E g \in redact_headers(H, sensitive) :
                 /\ g.key = h.key /\ g.at = h.at /\ NameOf(g) = NameOf(h)
                 /\ g.value = IF NameOf(h) \in sensitive THEN REDACTED ELSE h.value
                 /\ NameOf(h) \notin sensitive => g = h
<1> DEFINE f(h) == IF NameOf(h) \in sensitive THEN [h EXCEPT !.value = REDACTED] ELSE h
<1>1. ASSUME NEW h \in H
      PROVE  /\ f(h).key = h.key /\ f(h).at = h.at /\ NameOf(f(h)) = NameOf(h)
             /\ f(h).value = IF NameOf(h) \in sensitive THEN REDACTED ELSE h.value
             /\ NameOf(h) \notin sensitive => f(h) = h
  <2>1. h \in Entry
    BY DEF Dicts
  <2> QED
    BY <2>1, EntryParts
<1>2. redact_headers(H, sensitive) = {f(h) : h \in H}
  BY DEF redact_headers
<1> HIDE DEF f
<1> QED
  BY <1>1, <1>2

\* Redaction keeps a dict a dict, with the same names.
LEMMA RedactedIsDict ==
    ASSUME NEW H \in Dicts, NEW sensitive
    PROVE  /\ redact_headers(H, sensitive) \in Dicts
           /\ NamesIn(redact_headers(H, sensitive)) = NamesIn(H)
           /\ \A n \in NamesIn(H) : Lowered(redact_headers(H, sensitive))[n] =
                 IF n \in sensitive THEN REDACTED ELSE Lowered(H)[n]
<1> DEFINE f == [h \in H |-> IF NameOf(h) \in sensitive
                             THEN [h EXCEPT !.value = REDACTED] ELSE h]
           G == {f[h] : h \in H}
<1>1. redact_headers(H, sensitive) = G
  BY DEF redact_headers
<1>2. ASSUME NEW h \in H
      PROVE  /\ f[h] \in Entry /\ f[h].key = h.key /\ f[h].at = h.at
             /\ f[h].value = IF NameOf(h) \in sensitive THEN REDACTED ELSE h.value
  <2>1. h \in Entry /\ REDACTED \in Value
    BY DEF Dicts, Value
  <2> QED
    BY <2>1, EntryParts
<1> HIDE DEF f
<1>3. /\ G \in Dicts /\ NamesIn(G) = NamesIn(H)
      /\ \A n \in NamesIn(H) : Last(Named(G, n)) = f[Last(Named(H, n))]
  BY <1>2, NewValues
<1>4. \A n \in NamesIn(H) : Last(Named(H, n)) \in H /\ NameOf(Last(Named(H, n))) = n
  BY LastOfName
<1> HIDE DEF G
<1> QED
  BY <1>1, <1>2, <1>3, <1>4 DEF Lowered

\* The fingerprint's headers are the last value of every name that is not
\* excluded, or the marker if the name is sensitive.
LEMMA FingerprintIs ==
    ASSUME NEW H \in Dicts, NEW s
    PROVE  request_fingerprint(H, s) =
             [n \in NamesIn(H) \ _excluded_from_fingerprint(s) |->
                IF n \in s.sensitive THEN REDACTED ELSE Lowered(H)[n]]
<1> DEFINE R == redact_headers(H, s.sensitive)
           G == {h \in R : NameOf(h) \notin _excluded_from_fingerprint(s)}
           N == NamesIn(H) \ _excluded_from_fingerprint(s)
<1>1. R \in Dicts /\ NamesIn(R) = NamesIn(H)
  BY RedactedIsDict
<1>2. G \in Dicts
  BY <1>1, PartIsDict
<1>3. NamesIn(G) = N
  <2>1. NamesIn(G) = NamesIn(R) \ _excluded_from_fingerprint(s)
    <3> HIDE DEF R
    <3> QED
      BY DEF NamesIn
  <2> QED
    BY <1>1, <2>1
<1>4. ASSUME NEW n \in N
      PROVE  Lowered(G)[n] = IF n \in s.sensitive THEN REDACTED ELSE Lowered(H)[n]
  <2>1. CASE n \in s.sensitive
    <3>1. PICK g \in G : NameOf(g) = n /\ Lowered(G)[n] = g.value
      BY <1>2, <1>3, LoweredIs
    <3>2. g.value = REDACTED
      BY <2>1, <3>1, RedactedEntry
    <3> QED
      BY <2>1, <3>1, <3>2
  <2>2. CASE n \notin s.sensitive
    <3>1. \A g \in R : NameOf(g) = n => g \in H
      BY <2>2, RedactedEntry
    <3>2. \A h \in H : NameOf(h) = n => h \in R
      BY <2>2, RedactedEntry
    <3>3. n \notin _excluded_from_fingerprint(s) /\ n \in NamesIn(H)
      OBVIOUS
    <3>4. Named(G, n) = Named(H, n)
      <4> HIDE DEF R
      <4> QED
        BY <3>1, <3>2, <3>3 DEF Named
    <3>5. Lowered(G)[n] = Lowered(H)[n]
      <4> HIDE DEF G
      <4> QED
        BY <1>3, <3>3, <3>4 DEF Lowered
    <3> QED
      BY <2>2, <3>5
  <2> QED
    BY <2>1, <2>2
<1>5. Lowered(G) = [n \in N |-> Lowered(G)[n]]
  <2> HIDE DEF G, N
  <2> QED
    BY <1>3 DEF Lowered
<1>6. request_fingerprint(H, s) = Lowered(G)
  BY DEF request_fingerprint
<1> HIDE DEF G, N
<1>7. Lowered(G) = [n \in N |-> IF n \in s.sensitive THEN REDACTED ELSE Lowered(H)[n]]
  BY <1>4, <1>5
<1> QED
  BY <1>6, <1>7 DEF N

\* It is a function on names.
LEMMA FingerprintTyped ==
    ASSUME NEW H \in Dicts, NEW s
    PROVE  request_fingerprint(H, s) \in Lowering
<1> DEFINE R == redact_headers(H, s.sensitive)
           G == {h \in R : NameOf(h) \notin _excluded_from_fingerprint(s)}
<1>1. G \in Dicts
  BY RedactedIsDict, PartIsDict
<1> HIDE DEF G
<1>2. Lowered(G) \in Lowering
  BY <1>1, LoweredIs
<1> QED
  BY <1>2 DEF G, request_fingerprint


-----------------------------------------------------------------------------
(* The request on the wire *)

\* Restored headers: the value from memory in place of every marker.
LEMMA RestoredIs ==
    ASSUME NEW H \in Dicts, NEW o \in Lowering, Missing(H, o) = {}
    PROVE  /\ Restored(H, o) \in Dicts
           /\ NamesIn(Restored(H, o)) = NamesIn(H)
           /\ \A n \in NamesIn(H) : Lowered(Restored(H, o))[n] =
                 IF Lowered(H)[n] = REDACTED THEN o[n] ELSE Lowered(H)[n]
<1> DEFINE f == [h \in H |-> IF h.value = REDACTED
                             THEN [h EXCEPT !.value = o[NameOf(h)]] ELSE h]
           G == {f[h] : h \in H}
<1>1. Restored(H, o) = G
  BY DEF Restored
<1>2. ASSUME NEW h \in H
      PROVE  /\ f[h] \in Entry /\ f[h].key = h.key /\ f[h].at = h.at
             /\ f[h].value = IF h.value = REDACTED THEN o[NameOf(h)] ELSE h.value
  <2>1. h \in Entry
    BY DEF Dicts
  <2>2. h.value = REDACTED => o[NameOf(h)] \in Value
    BY DEF Missing, redacted_header_names, NamesIn, Lowering
  <2> QED
    BY <2>1, <2>2, EntryParts
<1> HIDE DEF f
<1>3. /\ G \in Dicts /\ NamesIn(G) = NamesIn(H)
      /\ \A n \in NamesIn(H) : Last(Named(G, n)) = f[Last(Named(H, n))]
  BY <1>2, NewValues
<1>4. \A n \in NamesIn(H) : Last(Named(H, n)) \in H /\ NameOf(Last(Named(H, n))) = n
  BY LastOfName
<1> HIDE DEF G
<1> QED
  BY <1>1, <1>2, <1>3, <1>4 DEF Lowered

\* A header of the service's own.
LEMMA OwnIs ==
    ASSUME NEW name \in Names
    PROVE  /\ Own(name) \in SUBSET Entry
           /\ NamesIn(Own(name)) = {name}
           /\ \A h \in Own(name) : NameOf(h) = name /\ h.value = "own"
           /\ Last(Named(Own(name), name)) \in Own(name)
<1> DEFINE e == [key |-> [name |-> name, form |-> "title"], at |-> 0, value |-> "own"]
<1>1. Own(name) = {e}
  BY DEF Own
<1>2. e \in Entry
  <2>1. [name |-> name, form |-> "title"] \in Key /\ "own" \in Value /\ 0 \in Nat
    BY DEF Key, Form, Value
  <2> QED
    BY <2>1 DEF Entry
<1>3. NameOf(e) = name /\ e.value = "own" /\ e.at <= e.at
  BY DEF NameOf
<1> HIDE DEF e
<1>4. Named({e}, name) = {e}
  BY <1>3 DEF Named
<1>5. Last({e}) \in {e}
  BY <1>3 DEF Last
<1>6. NamesIn({e}) = {name}
  BY <1>3 DEF NamesIn
<1> QED
  BY <1>1, <1>2, <1>3, <1>4, <1>5, <1>6

\* What _set_header makes of two collections of headers.
LEMMA SetIs ==
    ASSUME NEW A \in SUBSET Entry, NEW B \in SUBSET Entry,
           \A n \in NamesIn(B) : /\ Last(Named(B, n)) \in B
                                 /\ NameOf(Last(Named(B, n))) = n
    PROVE  /\ _set_header(A, B) \in SUBSET Entry
           /\ NamesIn(_set_header(A, B)) = NamesIn(A) \cup NamesIn(B)
           /\ \A h \in _set_header(A, B) :
                 IF NameOf(h) \in NamesIn(B) THEN h = Last(Named(B, NameOf(h)))
                 ELSE h \in A
<1> DEFINE C == _set_header(A, B)
<1>1. \A h \in C : IF NameOf(h) \in NamesIn(B) THEN h = Last(Named(B, NameOf(h))) ELSE h \in A
  BY DEF _set_header
<1>2. \A n \in NamesIn(B) : Last(Named(B, n)) \in C
  BY DEF _set_header
<1>3. \A h \in A : NameOf(h) \notin NamesIn(B) => h \in C
  BY DEF _set_header
<1> HIDE DEF C
<1>4. \A h \in C : NameOf(h) \in NamesIn(A) \cup NamesIn(B)
  BY <1>1 DEF NamesIn
<1>5. \A n \in NamesIn(B) : n \in NamesIn(C)
  BY <1>2 DEF NamesIn
<1>6. \A n \in NamesIn(A) : n \in NamesIn(C)
  <2> SUFFICES ASSUME NEW n \in NamesIn(A), n \notin NamesIn(B) PROVE n \in NamesIn(C)
    BY <1>5
  <2> QED
    BY <1>3 DEF NamesIn
<1>7. NamesIn(C) \subseteq NamesIn(A) \cup NamesIn(B)
  BY <1>4 DEF NamesIn
<1>8. C \in SUBSET Entry
  BY <1>1
<1> QED
  BY <1>1, <1>5, <1>6, <1>7, <1>8 DEF C

\* The headers of the signature are the service's own.
LEMMA SignedIs ==
    ASSUME NEW s \in Settings
    PROVE  /\ SignedBy(s) \in SUBSET Entry
           /\ \A h \in SignedBy(s) : h.value = "own"
           /\ \A n \in NamesIn(SignedBy(s)) : /\ Last(Named(SignedBy(s), n)) \in SignedBy(s)
                                              /\ NameOf(Last(Named(SignedBy(s), n))) = n
<1> DEFINE N == IF s.signing_enabled THEN s.signing_headers ELSE {}
           S == UNION {Own(n) : n \in N}
<1>1. N \subseteq Names
  BY SettingsAssumption
<1>2. SignedBy(s) = S
  BY DEF SignedBy
<1> HIDE DEF N
<1>3. ASSUME NEW h \in S
      PROVE  h \in Entry /\ h.value = "own" /\ NameOf(h) \in N /\ h \in Own(NameOf(h))
  <2>1. PICK n \in N : h \in Own(n)
    OBVIOUS
  <2>2. NameOf(h) = n /\ h.value = "own" /\ h \in Entry
    BY <1>1, <2>1, OwnIs
  <2> QED
    BY <2>1, <2>2
<1>4. ASSUME NEW n \in NamesIn(S)
      PROVE  Last(Named(S, n)) \in S /\ NameOf(Last(Named(S, n))) = n
  <2>1. n \in N
    BY <1>3 DEF NamesIn
  <2>2. /\ Own(n) \subseteq S
        /\ Last(Named(Own(n), n)) \in Own(n)
        /\ \A h \in Own(n) : NameOf(h) = n
    BY <1>1, <2>1, OwnIs
  <2> HIDE DEF S
  <2>3. Named(S, n) = Named(Own(n), n)
    BY <1>3, <2>2 DEF Named
  <2> QED
    BY <2>2, <2>3
<1> HIDE DEF S
<1> QED
  BY <1>2, <1>3, <1>4

\* Before it is signed, a request has every name once, the service's own headers on
\* top, every other name with its value from memory where the row has the marker.
LEMMA BuiltIs ==
    ASSUME NEW H \in Dicts, NEW o \in Lowering, Missing(H, o) = {}
    PROVE  LET W == _build_request_headers(H, o)
           IN  /\ W \in SUBSET Entry
               /\ \A g, h \in W : NameOf(g) = NameOf(h) => g = h
               /\ NamesIn(W) = NamesIn(H) \cup NamesIn(Before) \cup NamesIn(After)
               /\ \A h \in W :
                     LET n == NameOf(h)
                     IN  h.value = IF n \in NamesIn(After) \/ n \notin NamesIn(H) THEN "own"
                                   ELSE IF Lowered(H)[n] = REDACTED THEN o[n]
                                   ELSE Lowered(H)[n]
<1> DEFINE R == Restored(H, o)
           V == _set_header(Before, R)
           W == _set_header(V, After)
<1>1. /\ R \in Dicts /\ NamesIn(R) = NamesIn(H)
      /\ \A n \in NamesIn(H) : Lowered(R)[n] =
            IF Lowered(H)[n] = REDACTED THEN o[n] ELSE Lowered(H)[n]
  BY RestoredIs
<1>2. "content-type" \in Names /\ "x-callback-id" \in Names
  BY RulesAssumption
<1>3. /\ Before \in SUBSET Entry /\ NamesIn(Before) = {"content-type"}
      /\ \A h \in Before : NameOf(h) = "content-type" /\ h.value = "own"
      /\ \A g, h \in Before : g = h
  BY <1>2, OwnIs DEF Before, Own
<1>4. /\ After \in SUBSET Entry /\ NamesIn(After) = {"x-callback-id"}
      /\ \A h \in After : NameOf(h) = "x-callback-id" /\ h.value = "own"
      /\ \A n \in NamesIn(After) : Last(Named(After, n)) \in After
  BY <1>2, OwnIs DEF After
<1>5. R \in SUBSET Entry
  BY <1>1 DEF Dicts
<1>6. \A n \in NamesIn(R) : Last(Named(R, n)) \in R /\ NameOf(Last(Named(R, n))) = n
  BY <1>1, LastOfName
<1>7. _build_request_headers(H, o) = W
  BY DEF _build_request_headers
<1> HIDE DEF R
<1>8. /\ V \in SUBSET Entry /\ NamesIn(V) = NamesIn(Before) \cup NamesIn(R)
      /\ \A h \in V : IF NameOf(h) \in NamesIn(R) THEN h = Last(Named(R, NameOf(h)))
                      ELSE h \in Before
  BY <1>3, <1>5, <1>6, SetIs
<1> HIDE DEF V
<1>9. \A n \in NamesIn(After) : Last(Named(After, n)) \in After /\ NameOf(Last(Named(After, n))) = n
  BY <1>4
<1>10. /\ W \in SUBSET Entry /\ NamesIn(W) = NamesIn(V) \cup NamesIn(After)
       /\ \A h \in W : IF NameOf(h) \in NamesIn(After) THEN h = Last(Named(After, NameOf(h)))
                       ELSE h \in V
  BY <1>4, <1>8, <1>9, SetIs
<1> HIDE DEF W
<1>11. \A g, h \in W : NameOf(g) = NameOf(h) => g = h
  BY <1>3, <1>8, <1>10
<1>12. ASSUME NEW h \in W
       PROVE  h.value = IF NameOf(h) \in NamesIn(After) \/ NameOf(h) \notin NamesIn(H) THEN "own"
                        ELSE IF Lowered(H)[NameOf(h)] = REDACTED THEN o[NameOf(h)]
                        ELSE Lowered(H)[NameOf(h)]
  <2>1. CASE NameOf(h) \in NamesIn(After)
    BY <1>4, <1>10, <2>1
  <2>2. CASE NameOf(h) \notin NamesIn(After) /\ NameOf(h) \notin NamesIn(H)
    BY <1>1, <1>3, <1>8, <1>10, <2>2
  <2>3. CASE NameOf(h) \notin NamesIn(After) /\ NameOf(h) \in NamesIn(H)
    <3>1. h = Last(Named(R, NameOf(h)))
      BY <1>1, <1>8, <1>10, <2>3
    <3>2. Lowered(R)[NameOf(h)] = h.value
      BY <1>1, <2>3, <3>1 DEF Lowered
    <3> QED
      BY <1>1, <2>3, <3>2
  <2> QED
    BY <2>1, <2>2, <2>3
<1> QED
  BY <1>1, <1>7, <1>8, <1>10, <1>11, <1>12

\* What is on the wire: a request as it was built, and signed.
Outgoing(stored, originals, s) ==
    _set_header(_build_request_headers(stored, originals), SignedBy(s))

\* The names that the service itself sets over those of a client.
Over(s) == NamesIn(After) \cup NamesIn(SignedBy(s))

\* The wire: every name once, the service's own headers on top, those of the signature
\* among them, every other name with its value from memory where the row has the marker.
LEMMA WireIs ==
    ASSUME NEW H \in Dicts, NEW o \in Lowering, NEW s \in Settings, Missing(H, o) = {}
    PROVE  LET W == Outgoing(H, o, s)
           IN  /\ W \in SUBSET Entry
               /\ \A g, h \in W : NameOf(g) = NameOf(h) => g = h
               /\ NamesIn(W) = NamesIn(H) \cup NamesIn(Before) \cup Over(s)
               /\ \A h \in W :
                     LET n == NameOf(h)
                     IN  h.value = IF n \in Over(s) \/ n \notin NamesIn(H) THEN "own"
                                   ELSE IF Lowered(H)[n] = REDACTED THEN o[n]
                                   ELSE Lowered(H)[n]
<1> DEFINE V == _build_request_headers(H, o)
           W == Outgoing(H, o, s)
<1>1. /\ V \in SUBSET Entry
      /\ \A g, h \in V : NameOf(g) = NameOf(h) => g = h
      /\ NamesIn(V) = NamesIn(H) \cup NamesIn(Before) \cup NamesIn(After)
      /\ \A h \in V :
            h.value = IF NameOf(h) \in NamesIn(After) \/ NameOf(h) \notin NamesIn(H) THEN "own"
                      ELSE IF Lowered(H)[NameOf(h)] = REDACTED THEN o[NameOf(h)]
                      ELSE Lowered(H)[NameOf(h)]
  BY BuiltIs
<1>2. /\ SignedBy(s) \in SUBSET Entry
      /\ \A h \in SignedBy(s) : h.value = "own"
      /\ \A n \in NamesIn(SignedBy(s)) : /\ Last(Named(SignedBy(s), n)) \in SignedBy(s)
                                         /\ NameOf(Last(Named(SignedBy(s), n))) = n
  BY SignedIs
<1>3. W = _set_header(V, SignedBy(s))
  BY DEF Outgoing
<1> HIDE DEF V, W
<1>4. /\ W \in SUBSET Entry
      /\ NamesIn(W) = NamesIn(V) \cup NamesIn(SignedBy(s))
      /\ \A h \in W : IF NameOf(h) \in NamesIn(SignedBy(s))
                      THEN h = Last(Named(SignedBy(s), NameOf(h))) ELSE h \in V
  BY <1>1, <1>2, <1>3, SetIs
<1>5. \A g, h \in W : NameOf(g) = NameOf(h) => g = h
  BY <1>1, <1>4
<1>6. ASSUME NEW h \in W
      PROVE  h.value = IF NameOf(h) \in Over(s) \/ NameOf(h) \notin NamesIn(H) THEN "own"
                       ELSE IF Lowered(H)[NameOf(h)] = REDACTED THEN o[NameOf(h)]
                       ELSE Lowered(H)[NameOf(h)]
  <2>1. CASE NameOf(h) \in NamesIn(SignedBy(s))
    <3>1. h.value = "own"
      BY <1>2, <1>4, <2>1
    <3> QED
      BY <2>1, <3>1 DEF Over
  <2>2. CASE NameOf(h) \notin NamesIn(SignedBy(s))
    <3>1. h \in V
      BY <1>4, <2>2
    <3> QED
      BY <1>1, <2>2, <3>1 DEF Over
  <2> QED
    BY <2>1, <2>2
<1>7. NamesIn(W) = NamesIn(H) \cup NamesIn(Before) \cup Over(s)
  BY <1>1, <1>4 DEF Over
<1> QED
  BY <1>4, <1>5, <1>6, <1>7 DEF W

-----------------------------------------------------------------------------
(* What memory gives back *)

\* Two lowered dicts, the second one preferred.
LEMMA MergeIs ==
    ASSUME NEW g \in Lowering, NEW f \in Lowering
    PROVE  /\ Merge(g, f) \in Lowering
           /\ DOMAIN Merge(g, f) = DOMAIN f \cup DOMAIN g
           /\ \A n \in DOMAIN f : Merge(g, f)[n] = f[n]
           /\ \A n \in DOMAIN g \ DOMAIN f : Merge(g, f)[n] = g[n]
<1>1. PICK M \in SUBSET Names : f \in [M -> Value]
  BY DEF Lowering
<1>2. PICK N \in SUBSET Names : g \in [N -> Value]
  BY DEF Lowering
<1> DEFINE h == Merge(g, f)
<1>3. h = [n \in N \cup M |-> IF n \in M THEN f[n] ELSE g[n]]
  BY <1>1, <1>2 DEF Merge
<1> HIDE DEF h
<1>4. h \in [M \cup N -> Value] /\ M \cup N \in SUBSET Names
  BY <1>1, <1>2, <1>3
<1>5. h \in Lowering
  BY <1>4 DEF Lowering
<1> QED
  BY <1>1, <1>2, <1>3, <1>5 DEF h

\* The values that a creation gave, the marker left aside.
Readable(H) == {h \in H : h.value # REDACTED}

\* sensitive_values finds, for every name it has, the value that was given last.
LEMMA KeptValues ==
    ASSUME NEW H \in Dicts, NEW sensitive
    PROVE  LET o == sensitive_values(H, sensitive)
           IN  /\ o \in Lowering
               /\ \A n \in DOMAIN o : n \in sensitive /\ o[n] = Lowered(Readable(H))[n]
<1> DEFINE G == {h \in H : NameOf(h) \in sensitive /\ h.value # REDACTED}
           o == sensitive_values(H, sensitive)
<1>1. G \in Dicts /\ o = Lowered(G)
  BY PartIsDict DEF sensitive_values
<1>2. o \in Lowering /\ DOMAIN o = NamesIn(G)
  <2> HIDE DEF G, o
  <2> QED
    BY <1>1, LoweredIs
<1>3. ASSUME NEW n \in NamesIn(G)
      PROVE  n \in sensitive /\ o[n] = Lowered(Readable(H))[n]
  <2>1. n \in sensitive /\ n \in NamesIn(Readable(H))
    BY DEF NamesIn, Readable
  <2>2. Named(G, n) = Named(Readable(H), n)
    BY <2>1 DEF Named, Readable
  <2> HIDE DEF G, o
  <2> QED
    BY <1>1, <2>1, <2>2 DEF Lowered
<1> QED
  BY <1>2, <1>3

\* A name whose last value is not the marker was given that value.
LEMMA ReadableLast ==
    ASSUME NEW H \in Dicts, NEW n \in NamesIn(H), Lowered(H)[n] # REDACTED
    PROVE  Lowered(Readable(H))[n] = Lowered(H)[n]
<1> DEFINE l == Last(Named(H, n))
<1>1. /\ l \in H /\ NameOf(l) = n /\ l.value = Lowered(H)[n]
      /\ \A g \in H : NameOf(g) = n => g.at <= l.at
  BY LastOfName DEF Lowered
<1> HIDE DEF l
<1>2. l \in Readable(H) /\ Readable(H) \in SUBSET H /\ n \in NamesIn(Readable(H))
  BY <1>1 DEF Readable, NamesIn
<1>3. Readable(H) \in Dicts
  BY <1>2, PartIsDict
<1>4. Last(Named(Readable(H), NameOf(l))) = l
  BY <1>1, <1>2, <1>3, LastIs
<1> QED
  BY <1>1, <1>2, <1>4 DEF Lowered

\* In a row whose markers stand for sensitive values only, every name has the marker
\* or the value that was given.
LEMMA MarkedNames ==
    ASSUME NEW H \in Dicts, NEW sensitive,
           redacted_header_names(redact_headers(H, sensitive)) \subseteq sensitive
    PROVE  LET stored == redact_headers(H, sensitive)
           IN  \A n \in NamesIn(H) :
                  IF n \in redacted_header_names(stored)
                  THEN Lowered(stored)[n] = REDACTED
                  ELSE /\ Lowered(stored)[n] = Lowered(Readable(H))[n]
                       /\ Lowered(stored)[n] # REDACTED
<1> DEFINE stored == redact_headers(H, sensitive)
<1>1. /\ stored \in Dicts /\ NamesIn(stored) = NamesIn(H)
      /\ \A n \in NamesIn(H) : Lowered(stored)[n] =
            IF n \in sensitive THEN REDACTED ELSE Lowered(H)[n]
  BY RedactedIsDict
<1> HIDE DEF stored
<1>2. ASSUME NEW n \in NamesIn(H), n \notin redacted_header_names(stored)
      PROVE  /\ Lowered(stored)[n] # REDACTED
             /\ Lowered(stored)[n] = Lowered(Readable(H))[n]
  <2>1. PICK h \in stored : NameOf(h) = n /\ Lowered(stored)[n] = h.value
    BY <1>1, LoweredIs
  <2>2. h.value # REDACTED
    BY <1>2, <2>1 DEF redacted_header_names, NamesIn
  <2>3. Lowered(stored)[n] = Lowered(H)[n] /\ Lowered(H)[n] # REDACTED
    BY <1>1, <2>1, <2>2
  <2> QED
    BY <2>3, ReadableLast
<1>3. \A n \in NamesIn(H) : n \in redacted_header_names(stored) => Lowered(stored)[n] = REDACTED
  BY <1>1 DEF stored
<1> QED
  BY <1>2, <1>3 DEF stored

-----------------------------------------------------------------------------
(* What the steps do *)

Typed ==
    /\ settings \in Settings
    /\ restarts \in 0..MaxRestarts
    /\ memory \in [Calls -> Lowering]
    /\ puts \in Seq(Calls)
    /\ call \in [Calls -> CallRecord \cup {None}]
    /\ delivery \in [Calls -> Row \cup {None}]
    /\ attempt \in [Calls -> AttemptRecord \cup {None}]
    /\ \A c \in Calls : call[c] # None => call[c].headers \in Dicts

\* A row holds what its creation gave, redacted by the settings of that day, and
\* the fingerprint of that day.
RowsFollow ==
    \A d \in Calls : delivery[d] # None =>
        /\ call[d] # None /\ call[d].target = d
        /\ delivery[d].headers = redact_headers(call[d].headers, call[d].settings.sensitive)
        /\ delivery[d].keyed =>
              delivery[d].fingerprint = request_fingerprint(call[d].headers, call[d].settings)

\* Every call is about a row.
CallsHaveRows ==
    \A c \in Calls : call[c] # None =>
        /\ delivery[call[c].target] # None /\ call[c].life <= restarts
        /\ call[c].code = "error" => call[c].target = c

\* Memory has values of deliveries that were put there, and of no others.
MemoryFollows ==
    \A d \in Calls : memory[d] # NoValues => d \in EverPut /\ delivery[d] # None

\* Values of d have been put in memory, or none were given: what is there of another
\* delivery stays, or is dropped from a cache that is crowded.
PutFor(d) ==
    /\ memory' \in [Calls -> Lowering] /\ puts' \in Seq(Calls)
    /\ \A x \in Calls : memory'[x] # NoValues => x \in EverPut'
    /\ \A x \in Calls : memory'[x] # memory[x] /\ x # d => memory'[x] = NoValues /\ Crowded(x)'
    /\ \A x \in Calls : memory'[x] # NoValues => x = d \/ memory[x] # NoValues
    /\ \A x \in Calls : Crowded(x) => Crowded(x)'

\* No values, in every spelling.
LEMMA EmptyIs ==
    /\ NoValues \in Lowering /\ DOMAIN NoValues = {}
    /\ \A f \in Lowering : DOMAIN f = {} => f = NoValues
<1>1. NoValues \in Lowering /\ DOMAIN NoValues = {}
  BY DEF NoValues, Lowering
<1>2. ASSUME NEW f \in Lowering, DOMAIN f = {}
      PROVE  f = NoValues
  <2>1. PICK N \in SUBSET Names : f \in [N -> Value]
    BY DEF Lowering
  <2>2. N = {}
    BY <1>2, <2>1
  <2> QED
    BY <2>1, <2>2 DEF NoValues
<1> QED
  BY <1>1, <1>2

\* Nothing preferred is nothing changed.
LEMMA MergeNone ==
    ASSUME NEW g \in Lowering, NEW f \in Lowering, DOMAIN f = {}
    PROVE  Merge(g, f) = g
<1>1. /\ Merge(g, f) \in Lowering /\ DOMAIN Merge(g, f) = DOMAIN g
      /\ \A n \in DOMAIN g : Merge(g, f)[n] = g[n]
  BY MergeIs
<1>2. PICK N \in SUBSET Names : g \in [N -> Value]
  BY DEF Lowering
<1>3. PICK M \in SUBSET Names : Merge(g, f) \in [M -> Value]
  BY <1>1 DEF Lowering
<1> DEFINE h == Merge(g, f)
<1> HIDE DEF h
<1>4. M = N /\ h \in [N -> Value] /\ \A n \in N : h[n] = g[n]
  BY <1>1, <1>2, <1>3 DEF h
<1>5. h = g
  BY <1>2, <1>4
<1> QED
  BY <1>5 DEF h

\* Another put adds to what was put so far, which is finite.
LEMMA EverPutGrows ==
    ASSUME puts \in Seq(Calls), NEW d \in Calls
    PROVE  /\ IsFiniteSet(EverPut)
           /\ Append(puts, d) \in Seq(Calls)
           /\ \A q : q = Append(puts, d) =>
                 {q[i] : i \in DOMAIN q} = EverPut \cup {d}
<1>1. /\ Len(puts) \in Nat /\ DOMAIN puts = 1..Len(puts)
      /\ \A i \in 1..Len(puts) : puts[i] \in Calls
  OBVIOUS
<1>2. puts \in Surjection(1..Len(puts), EverPut)
  <2>1. puts \in [1..Len(puts) -> EverPut]
    BY <1>1 DEF EverPut
  <2>2. \A x \in EverPut : \E i \in 1..Len(puts) : puts[i] = x
    BY <1>1 DEF EverPut
  <2> QED
    BY <2>1, <2>2 DEF Surjection
<1>3. IsFiniteSet(EverPut)
  BY <1>1, <1>2, FS_NatSurjection DEF ExistsSurjection
<1>4. ASSUME NEW q, q = Append(puts, d)
      PROVE  {q[i] : i \in DOMAIN q} = EverPut \cup {d}
  <2>1. /\ DOMAIN q = 1..(Len(puts) + 1) /\ q[Len(puts) + 1] = d
        /\ \A i \in 1..Len(puts) : q[i] = puts[i]
    BY <1>1, <1>4
  <2>2. \A x \in EverPut \cup {d} : \E i \in DOMAIN q : q[i] = x
    <3>1. \A i \in 1..Len(puts) : i \in DOMAIN q
      BY <1>1, <2>1
    <3>2. Len(puts) + 1 \in DOMAIN q
      BY <1>1, <2>1
    <3> QED
      BY <1>1, <2>1, <3>1, <3>2 DEF EverPut
  <2>3. \A i \in DOMAIN q : q[i] \in EverPut \cup {d}
    <3> SUFFICES ASSUME NEW i \in DOMAIN q PROVE q[i] \in EverPut \cup {d}
      OBVIOUS
    <3>1. i \in 1..Len(puts) \/ i = Len(puts) + 1
      BY <1>1, <2>1
    <3> QED
      BY <1>1, <2>1, <3>1 DEF EverPut
  <2> QED
    BY <2>2, <2>3
<1> QED
  BY <1>1, <1>3, <1>4

\* The same cache, or a bigger history: who was crowded out still may have been.
LEMMA CrowdGrows ==
    ASSUME NEW S, NEW T, S \subseteq T, IsFiniteSet(T), NEW x,
           Cardinality(S \ {x}) >= MaxEntries
    PROVE  Cardinality(T \ {x}) >= MaxEntries
<1>1. S \ {x} \subseteq T \ {x} /\ IsFiniteSet(T \ {x})
  BY FS_Subset
<1>2. Cardinality(S \ {x}) <= Cardinality(T \ {x})
  BY <1>1, FS_Subset
<1>3. Cardinality(S \ {x}) \in Nat /\ Cardinality(T \ {x}) \in Nat
  BY <1>1, FS_Subset, FS_CardinalityType
<1> QED
  BY <1>2, <1>3, MaxEntriesPositive

\* What Put does. A delivery is dropped only if d and as many others as the cache
\* holds, but for one, are put and kept.
LEMMA PutIs ==
    ASSUME Typed, MemoryFollows, NEW d \in Calls, NEW values \in Lowering, Put(d, values)
    PROVE  PutFor(d) /\ memory'[d] = IF values = NoValues THEN memory[d] ELSE values
<1> DEFINE others  == {x \in Calls \ {d} : memory[x] # NoValues}
           oldest  == {x \in others : \A y \in others : LastPut(x) <= LastPut(y)}
           dropped == IF Cardinality(others) >= MaxEntries THEN oldest ELSE {}
<1>1. /\ memory \in [Calls -> Lowering] /\ puts \in Seq(Calls)
      /\ \A x \in Calls : memory[x] # NoValues => x \in EverPut
  BY DEF Typed, MemoryFollows
<1>2. CASE values = NoValues
  <2>1. UNCHANGED <<memory, puts>>
    BY <1>2 DEF Put
  <2>2. UNCHANGED EverPut /\ \A x : Crowded(x)' = Crowded(x)
    BY <2>1 DEF EverPut, Crowded
  <2> QED
    BY <1>1, <1>2, <2>1, <2>2 DEF PutFor
<1>3. CASE values # NoValues
  <2>1. /\ memory' = [x \in Calls |-> IF x = d THEN values
                                     ELSE IF x \in dropped THEN NoValues ELSE memory[x]]
        /\ puts' = Append(puts, d)
    BY <1>3 DEF Put
  <2>2. /\ IsFiniteSet(EverPut) /\ puts' \in Seq(Calls)
        /\ EverPut' = EverPut \cup {d}
    BY <1>1, <2>1, EverPutGrows DEF EverPut
  <2>3. /\ dropped \subseteq others
        /\ dropped # {} => Cardinality(others) >= MaxEntries
        /\ others \subseteq EverPut /\ d \notin others
    BY <1>1
  <2> HIDE DEF dropped, others
  <2>4. IsFiniteSet(EverPut')
    BY <2>2, FS_AddElement
  <2>5. ASSUME NEW x \in dropped
        PROVE  Crowded(x)'
    <3> DEFINE rest == others \ {x}
    <3>1. IsFiniteSet(others) /\ x \in others /\ x # d
      BY <2>2, <2>3, FS_Subset
    <3>2. IsFiniteSet(rest) /\ Cardinality(rest) = Cardinality(others) - 1
      BY <3>1, FS_RemoveElement
    <3>3. d \notin rest
      BY <2>3
    <3>4. rest \cup {d} \subseteq EverPut' \ {x}
      BY <2>2, <2>3, <3>1
    <3> HIDE DEF rest
    <3>5. IsFiniteSet(rest \cup {d}) /\ Cardinality(rest \cup {d}) = Cardinality(rest) + 1
      BY <3>2, <3>3, FS_AddElement
    <3>6. IsFiniteSet(EverPut' \ {x})
      BY <2>4, FS_Subset
    <3>7. Cardinality(rest \cup {d}) <= Cardinality(EverPut' \ {x})
      BY <3>4, <3>6, FS_Subset
    <3>8. /\ Cardinality(others) \in Nat /\ Cardinality(rest) \in Nat
          /\ Cardinality(EverPut' \ {x}) \in Nat
      BY <3>1, <3>2, <3>6, FS_CardinalityType
    <3>9. Cardinality(EverPut' \ {x}) >= MaxEntries
      BY <2>3, <3>2, <3>5, <3>7, <3>8, MaxEntriesPositive
    <3> QED
      BY <3>9 DEF Crowded
  <2>6. /\ memory' \in [Calls -> Lowering]
        /\ memory'[d] = values
        /\ \A x \in Calls : x # d => memory'[x] = IF x \in dropped THEN NoValues ELSE memory[x]
    BY <1>1, <2>1, EmptyIs
  <2>7. \A x \in Calls : memory'[x] # NoValues => x = d \/ memory[x] # NoValues
    BY <2>6
  <2>8. \A x \in Calls : memory'[x] # NoValues => x \in EverPut'
    BY <1>1, <2>2, <2>7
  <2>9. \A x \in Calls : Crowded(x) => Crowded(x)'
    BY <2>2, <2>4, CrowdGrows DEF Crowded
  <2> QED
    BY <1>3, <2>2, <2>5, <2>6, <2>7, <2>8, <2>9 DEF PutFor
<1> QED
  BY <1>2, <1>3

\* Where nothing is put, memory is as it was.
LEMMA NoPut ==
    ASSUME Typed, MemoryFollows, UNCHANGED <<memory, puts>>, NEW d
    PROVE  PutFor(d) /\ \A x : Crowded(x)' = Crowded(x)
<1>1. UNCHANGED EverPut /\ \A x : Crowded(x)' = Crowded(x)
  BY DEF EverPut, Crowded
<1> QED
  BY <1>1 DEF PutFor, Typed, MemoryFollows

\* The parts of a call's record, and what a new code leaves alone.
LEMMA CallParts ==
    ASSUME NEW r \in CallRecord
    PROVE  /\ r # None
           /\ r.target \in Calls /\ r.headers \in SUBSET Entry /\ r.code \in Code
           /\ r.life \in 0..MaxRestarts /\ r.settings \in Settings
           /\ \A code \in Code :
                 LET q == [r EXCEPT !.code = code]
                 IN  /\ q \in CallRecord /\ q # None
                     /\ q.target = r.target /\ q.headers = r.headers /\ q.code = code
                     /\ q.life = r.life /\ q.settings = r.settings
<1>1. \A q \in CallRecord : q # None
  BY NoneIsNoRecord
<1>2. \A code \in Code :
         LET q == [r EXCEPT !.code = code]
         IN  /\ q \in CallRecord
             /\ q.target = r.target /\ q.headers = r.headers /\ q.code = code
             /\ q.life = r.life /\ q.settings = r.settings
  BY DEF CallRecord
<1>3. /\ r.target \in Calls /\ r.headers \in SUBSET Entry /\ r.code \in Code
      /\ r.life \in 0..MaxRestarts /\ r.settings \in Settings
  BY DEF CallRecord
<1> QED
  BY <1>1, <1>2, <1>3

\* The parts of a row, and what a new status leaves alone.
LEMMA RowParts ==
    ASSUME NEW r \in Row
    PROVE  /\ r # None
           /\ r.headers \in SUBSET Entry /\ r.keyed \in BOOLEAN
           /\ r.status \in {"pending", "delivered", "failed"}
           /\ \A status \in {"pending", "delivered", "failed"} :
                 LET q == [r EXCEPT !.status = status]
                 IN  /\ q \in Row /\ q # None
                     /\ q.headers = r.headers /\ q.keyed = r.keyed
                     /\ q.fingerprint = r.fingerprint /\ q.status = status
<1>1. \A q \in Row : q # None
  BY NoneIsNoRecord
<1>2. \A status \in {"pending", "delivered", "failed"} :
         LET q == [r EXCEPT !.status = status]
         IN  /\ q \in Row
             /\ q.headers = r.headers /\ q.keyed = r.keyed
             /\ q.fingerprint = r.fingerprint /\ q.status = status
  BY DEF Row
<1>3. /\ r.headers \in SUBSET Entry /\ r.keyed \in BOOLEAN
      /\ r.status \in {"pending", "delivered", "failed"}
  BY DEF Row
<1> QED
  BY <1>1, <1>2, <1>3

\* Called sets one call and leaves the others alone.
LEMMA CalledIs ==
    ASSUME Typed, NEW c \in Calls, NEW target \in Calls, NEW headers \in Dicts,
           NEW code \in Code, Called(c, target, headers, code)
    PROVE  /\ call' \in [Calls -> CallRecord \cup {None}]
           /\ \A x \in Calls : x # c => call'[x] = call[x]
           /\ call'[c] # None /\ call'[c].target = target /\ call'[c].headers = headers
           /\ call'[c].code = code /\ call'[c].life = restarts
           /\ call'[c].settings = settings
           /\ \A x \in Calls : call'[x] # None => call'[x].headers \in Dicts
<1> DEFINE r == [target |-> target, headers |-> headers, code |-> code,
                 life |-> restarts, settings |-> settings]
<1>1. call' = [call EXCEPT ![c] = r]
  BY DEF Called
<1>2. r \in CallRecord
  BY DEF CallRecord, Typed, Dicts
<1>3. /\ r.target = target /\ r.headers = headers /\ r.code = code
      /\ r.life = restarts /\ r.settings = settings
  OBVIOUS
<1> HIDE DEF r
<1>4. r # None
  BY <1>2, CallParts
<1>5. call \in [Calls -> CallRecord \cup {None}]
      /\ \A x \in Calls : call[x] # None => call[x].headers \in Dicts
  BY DEF Typed
<1>6. call'[c] = r /\ \A x \in Calls : x # c => call'[x] = call[x]
  BY <1>1, <1>5
<1>7. call' \in [Calls -> CallRecord \cup {None}]
  BY <1>1, <1>2, <1>5
<1> QED
  BY <1>3, <1>4, <1>5, <1>6, <1>7

\* The evidence of an attempt hides what is sensitive on that day.
LEMMA AttemptIs ==
    ASSUME NEW d \in Calls, NEW stored \in Dicts, NEW originals \in Lowering,
           settings \in Settings, Missing(stored, originals) = {}
    PROVE  LET a == Attempt(d, stored, originals)
           IN  /\ a \in AttemptRecord /\ a # None /\ a.delivery = d
               /\ a.wire = Outgoing(stored, originals, settings)
               /\ \A h \in a.evidence :
                     NameOf(h) \in settings.sensitive => h.value = REDACTED
<1> DEFINE W == Outgoing(stored, originals, settings)
           E == redact_headers(W, settings.sensitive)
           a == Attempt(d, stored, originals)
<1>1. W \in SUBSET Entry
  BY WireIs
<1> HIDE DEF W
<1>2. \A h \in W : [h EXCEPT !.value = REDACTED] \in Entry
                 /\ [h EXCEPT !.value = REDACTED].value = REDACTED
                 /\ NameOf([h EXCEPT !.value = REDACTED]) = NameOf(h)
  BY <1>1, EntryParts DEF Value
<1>3. E \in SUBSET Entry /\ \A h \in E : NameOf(h) \in settings.sensitive => h.value = REDACTED
  BY <1>1, <1>2 DEF redact_headers
<1>4. a = [delivery |-> d, wire |-> W, evidence |-> E]
  BY DEF Attempt, Outgoing, W
<1> HIDE DEF E
<1>5. a \in AttemptRecord
  BY <1>1, <1>3, <1>4 DEF AttemptRecord
<1> HIDE DEF a
<1>6. a # None
  BY <1>5, NoneIsNoRecord
<1>7. a.delivery = d /\ a.wire = W /\ a.evidence = E
  BY <1>4
<1> QED
  BY <1>3, <1>5, <1>6, <1>7 DEF W, a


\* A repeated key: the answer is in the call, all else stays.
LEMMA ReplayIs ==
    ASSUME Typed, NEW c \in Calls, NEW given \in Dicts, Replay(c, given)
    PROVE  \E d \in Calls :
             /\ delivery[d] # None /\ delivery[d].keyed
             /\ call' \in [Calls -> CallRecord \cup {None}]
             /\ \A x \in Calls : x # c => call'[x] = call[x]
             /\ call'[c] # None /\ call'[c].target = d /\ call'[c].headers = given
             /\ call'[c].code = IF delivery[d].fingerprint = request_fingerprint(given, settings)
                               THEN "replayed" ELSE "conflict"
             /\ call'[c].life = restarts /\ call'[c].settings = settings
             /\ \A x \in Calls : call'[x] # None => call'[x].headers \in Dicts
             /\ UNCHANGED <<memory, puts, delivery, attempt>>
<1> DEFINE answer(d) == IF delivery[d].fingerprint = request_fingerprint(given, settings)
                        THEN "replayed" ELSE "conflict"
<1>1. PICK d \in WithKey : Called(c, d, given, answer(d)) /\ UNCHANGED <<memory, puts, delivery, attempt>>
  BY DEF Replay
<1>2. d \in Calls /\ delivery[d] # None /\ delivery[d].keyed
  BY DEF WithKey
<1>3. answer(d) \in Code
  BY DEF Code
<1> HIDE DEF answer
<1>4. /\ call' \in [Calls -> CallRecord \cup {None}]
      /\ \A x \in Calls : x # c => call'[x] = call[x]
      /\ call'[c] # None /\ call'[c].target = d /\ call'[c].headers = given
      /\ call'[c].code = answer(d) /\ call'[c].life = restarts
      /\ call'[c].settings = settings
      /\ \A x \in Calls : call'[x] # None => call'[x].headers \in Dicts
  BY <1>1, <1>2, <1>3, CalledIs
<1> QED
  BY <1>1, <1>2, <1>4 DEF answer

\* A new row, and an attempt if no value is missing.
LEMMA InsertIs ==
    ASSUME Typed, RowsFollow, MemoryFollows,
           NEW c \in Calls, NEW given \in Dicts, NEW keyed \in BOOLEAN,
           call[c] = None, Insert(c, given, keyed)
    PROVE  LET stored    == redact_headers(given, settings.sensitive)
               originals == sensitive_values(given, settings.sensitive)
               ready     == Missing(stored, originals) = {}
           IN  /\ call' \in [Calls -> CallRecord \cup {None}]
               /\ \A x \in Calls : x # c => call'[x] = call[x]
               /\ call'[c] # None /\ call'[c].target = c /\ call'[c].headers = given
               /\ call'[c].code = IF ready THEN "sending" ELSE "error"
               /\ call'[c].life = restarts /\ call'[c].settings = settings
               /\ \A x \in Calls : call'[x] # None => call'[x].headers \in Dicts
               /\ delivery' \in [Calls -> Row \cup {None}]
               /\ \A x \in Calls : x # c => delivery'[x] = delivery[x]
               /\ delivery'[c] # None /\ delivery'[c].headers = stored
               /\ delivery'[c].status = "pending"
               /\ delivery'[c].keyed =>
                     delivery'[c].fingerprint = request_fingerprint(given, settings)
               /\ PutFor(c) /\ memory'[c] = originals
               /\ attempt' \in [Calls -> AttemptRecord \cup {None}]
               /\ \A x \in Calls : x # c \/ ~ready => attempt'[x] = attempt[x]
               /\ ready => attempt'[c] = Attempt(c, stored, originals)
<1> DEFINE stored    == redact_headers(given, settings.sensitive)
           originals == sensitive_values(given, settings.sensitive)
           ready     == Missing(stored, originals) = {}
           code      == IF ready THEN "sending" ELSE "error"
           print     == IF keyed THEN request_fingerprint(given, settings) ELSE None
           row       == [headers |-> stored, keyed |-> keyed, status |-> "pending",
                         fingerprint |-> print]
<1>1. stored \in Dicts /\ originals \in Lowering /\ print \in Lowering \cup {None}
  BY RedactedIsDict, KeptValues, FingerprintTyped
<1>2. /\ delivery' = [delivery EXCEPT ![c] = row]
      /\ Put(c, originals)
      /\ Called(c, c, given, code)
      /\ attempt' = IF ready THEN [attempt EXCEPT ![c] = Attempt(c, stored, originals)]
                    ELSE attempt
  BY DEF Insert
<1>3. code \in Code
  BY DEF Code
<1>4. keyed => print = request_fingerprint(given, settings)
  OBVIOUS
<1> HIDE DEF print, code
<1>5. row \in Row /\ row.headers = stored /\ row.status = "pending" /\ row.keyed = keyed
      /\ row.fingerprint = print
  <2>1. stored \in SUBSET Entry
    BY <1>1 DEF Dicts
  <2> HIDE DEF stored
  <2> QED
    BY <1>1, <2>1 DEF Row
<1> HIDE DEF row
<1>6. row # None
  BY <1>5, RowParts
<1>7. ready => Attempt(c, stored, originals) \in AttemptRecord
  BY <1>1, AttemptIs DEF Typed
<1> HIDE DEF stored, originals
<1>8. /\ memory \in [Calls -> Lowering]
      /\ delivery \in [Calls -> Row \cup {None}]
      /\ attempt \in [Calls -> AttemptRecord \cup {None}]
  BY DEF Typed
<1>9. /\ call' \in [Calls -> CallRecord \cup {None}]
      /\ \A x \in Calls : x # c => call'[x] = call[x]
      /\ call'[c] # None /\ call'[c].target = c /\ call'[c].headers = given
      /\ call'[c].code = code /\ call'[c].life = restarts /\ call'[c].settings = settings
      /\ \A x \in Calls : call'[x] # None => call'[x].headers \in Dicts
  BY <1>2, <1>3, CalledIs
<1>10. /\ delivery' \in [Calls -> Row \cup {None}]
       /\ \A x \in Calls : x # c => delivery'[x] = delivery[x]
       /\ delivery'[c] = row
  BY <1>2, <1>5, <1>8
<1>11. PutFor(c) /\ memory'[c] = originals
  <2>1. memory[c] = NoValues
    BY DEF RowsFollow, MemoryFollows
  <2> QED
    BY <1>1, <1>2, <2>1, PutIs
<1> HIDE DEF ready
<1>12. /\ attempt' \in [Calls -> AttemptRecord \cup {None}]
       /\ \A x \in Calls : x # c \/ ~ready => attempt'[x] = attempt[x]
       /\ ready => attempt'[c] = Attempt(c, stored, originals)
  <2>1. CASE ready
    BY <1>2, <1>7, <1>8, <2>1
  <2>2. CASE ~ready
    BY <1>2, <1>8, <2>2
  <2> QED
    BY <2>1, <2>2
<1>13. delivery'[c].keyed => delivery'[c].fingerprint = request_fingerprint(given, settings)
  BY <1>4, <1>5, <1>10
<1> QED
  BY <1>5, <1>6, <1>9, <1>10, <1>11, <1>12, <1>13 DEF code, ready, stored, originals

\* A retry of d that is refused, or an attempt with the values given preferred.
Retried(c, d, given) ==
    LET stored    == delivery[d].headers
        originals == Merge(memory[d], Lowered(given))
        sent      == call'[c].code = "sending"
    IN  /\ d # c /\ call[c] = None /\ delivery[d] # None /\ delivery[d].status = "failed"
        /\ stored \in Dicts /\ originals \in Lowering
        /\ call' \in [Calls -> CallRecord \cup {None}]
        /\ \A x \in Calls : x # c => call'[x] = call[x]
        /\ call'[c] # None /\ call'[c].target = d /\ call'[c].headers = given
        /\ call'[c].code \in {"invalid_headers", "unavailable", "sending"}
        /\ call'[c].life = restarts /\ call'[c].settings = settings
        /\ \A x \in Calls : call'[x] # None => call'[x].headers \in Dicts
        /\ delivery' \in [Calls -> Row \cup {None}]
        /\ \A x \in Calls : x # d \/ ~sent => delivery'[x] = delivery[x]
        /\ delivery'[d] # None /\ delivery'[d].headers = stored
        /\ delivery'[d].keyed = delivery[d].keyed
        /\ delivery'[d].fingerprint = delivery[d].fingerprint
        /\ attempt' \in [Calls -> AttemptRecord \cup {None}]
        /\ \A x \in Calls : x # c \/ ~sent => attempt'[x] = attempt[x]
        /\ sent => /\ NamesIn(given) \subseteq redacted_header_names(stored)
                   /\ Missing(stored, originals) = {}
                   /\ attempt'[c] = Attempt(d, stored, originals)
        /\ call'[c].code = "unavailable" => Missing(stored, originals) # {}
        /\ UNCHANGED <<settings, restarts, memory, puts>>

\* A retry is one of those.
LEMMA RetryIs ==
    ASSUME Typed, RowsFollow, NEW c \in Calls, Retry(c)
    PROVE  \E d \in Calls, given \in Dicts : Retried(c, d, given)
<1>1. PICK d \in Calls, raw \in Resupplies :
         LET given     == _check_headers(raw)
             stored    == delivery[d].headers
             originals == Merge(memory[d], Lowered(given))
         IN  /\ delivery[d] # None /\ delivery[d].status = "failed"
             /\ \/ /\ Called(c, d, given, "invalid_headers")
                   /\ UNCHANGED <<delivery, attempt>>
                \/ /\ Missing(stored, originals) # {}
                   /\ Called(c, d, given, "unavailable")
                   /\ UNCHANGED <<delivery, attempt>>
                \/ /\ NamesIn(given) \subseteq redacted_header_names(stored)
                   /\ Missing(stored, originals) = {}
                   /\ Called(c, d, given, "sending")
                   /\ attempt' = [attempt EXCEPT ![c] = Attempt(d, stored, originals)]
                   /\ delivery' = [delivery EXCEPT ![d].status = "pending"]
  BY DEF Retry
<1>2. call[c] = None /\ UNCHANGED <<settings, restarts, memory, puts>>
  BY DEF Retry
<1> DEFINE given     == _check_headers(raw)
           stored    == delivery[d].headers
           originals == Merge(memory[d], Lowered(given))
           sent      == call'[c].code = "sending"
<1>3. given \in Dicts
  BY CheckedIsDict, ClientsGiveHeaders
<1>4. d # c /\ delivery[d] # None /\ delivery[d].status = "failed" /\ delivery[d] \in Row
  BY <1>1, <1>2 DEF RowsFollow, Typed
<1>5. stored \in Dicts
  BY <1>4, RedactedIsDict DEF RowsFollow, Typed
<1>6. originals \in Lowering
  <2>1. memory[d] \in Lowering
    BY DEF Typed
  <2>2. Lowered(given) \in Lowering
    BY <1>3, LoweredIs
  <2> QED
    BY <2>1, <2>2, MergeIs
<1>7. /\ delivery \in [Calls -> Row \cup {None}]
      /\ attempt \in [Calls -> AttemptRecord \cup {None}]
  BY DEF Typed
<1>8. PICK code \in {"invalid_headers", "unavailable", "sending"} :
         /\ Called(c, d, given, code)
         /\ code # "sending" => UNCHANGED <<delivery, attempt>>
         /\ code = "unavailable" => Missing(stored, originals) # {}
         /\ code = "sending" =>
               /\ NamesIn(given) \subseteq redacted_header_names(stored)
               /\ Missing(stored, originals) = {}
               /\ attempt' = [attempt EXCEPT ![c] = Attempt(d, stored, originals)]
               /\ delivery' = [delivery EXCEPT ![d].status = "pending"]
  <2> HIDE DEF given, stored, originals
  <2>1. \/ /\ Called(c, d, given, "invalid_headers")
           /\ UNCHANGED <<delivery, attempt>>
        \/ /\ Missing(stored, originals) # {}
           /\ Called(c, d, given, "unavailable")
           /\ UNCHANGED <<delivery, attempt>>
        \/ /\ NamesIn(given) \subseteq redacted_header_names(stored)
           /\ Missing(stored, originals) = {}
           /\ Called(c, d, given, "sending")
           /\ attempt' = [attempt EXCEPT ![c] = Attempt(d, stored, originals)]
           /\ delivery' = [delivery EXCEPT ![d].status = "pending"]
    BY <1>1 DEF given, stored, originals
  <2> QED
    BY <2>1
<1> HIDE DEF given, originals
<1>9. code \in Code
  BY DEF Code
<1>10. /\ call' \in [Calls -> CallRecord \cup {None}]
       /\ \A x \in Calls : x # c => call'[x] = call[x]
       /\ call'[c] # None /\ call'[c].target = d /\ call'[c].headers = given
       /\ call'[c].code = code /\ call'[c].life = restarts /\ call'[c].settings = settings
       /\ \A x \in Calls : call'[x] # None => call'[x].headers \in Dicts
  BY <1>3, <1>8, <1>9, CalledIs
<1>11. /\ delivery' \in [Calls -> Row \cup {None}]
       /\ \A x \in Calls : x # d \/ code # "sending" => delivery'[x] = delivery[x]
       /\ delivery'[d] # None /\ delivery'[d].headers = delivery[d].headers
       /\ delivery'[d].keyed = delivery[d].keyed
       /\ delivery'[d].fingerprint = delivery[d].fingerprint
  <2>1. CASE code = "sending"
    <3>1. delivery' = [delivery EXCEPT ![d] = [delivery[d] EXCEPT !.status = "pending"]]
      BY <1>8, <2>1
    <3> DEFINE row == [delivery[d] EXCEPT !.status = "pending"]
    <3>2. /\ row \in Row /\ row # None /\ row.headers = delivery[d].headers
          /\ row.keyed = delivery[d].keyed /\ row.fingerprint = delivery[d].fingerprint
      BY <1>4, RowParts
    <3> HIDE DEF row
    <3>3. delivery'[d] = row /\ \A x \in Calls : x # d => delivery'[x] = delivery[x]
      BY <1>7, <3>1 DEF row
    <3>4. delivery' \in [Calls -> Row \cup {None}]
      BY <1>7, <3>1, <3>2 DEF row
    <3> QED
      BY <2>1, <3>2, <3>3, <3>4
  <2>2. CASE code # "sending"
    BY <1>4, <1>7, <1>8, <2>2
  <2> QED
    BY <2>1, <2>2
<1>12. /\ attempt' \in [Calls -> AttemptRecord \cup {None}]
       /\ \A x \in Calls : x # c \/ code # "sending" => attempt'[x] = attempt[x]
       /\ code = "sending" => attempt'[c] = Attempt(d, stored, originals)
  <2>1. CASE code = "sending"
    <3>1. Missing(stored, originals) = {}
      BY <1>8, <2>1
    <3>2. Attempt(d, stored, originals) \in AttemptRecord
      BY <1>5, <1>6, <3>1, AttemptIs DEF Typed
    <3> HIDE DEF stored
    <3> QED
      BY <1>7, <1>8, <2>1, <3>2
  <2>2. CASE code # "sending"
    BY <1>7, <1>8, <2>2
  <2> QED
    BY <2>1, <2>2
<1> QED
  BY <1>2, <1>3, <1>4, <1>5, <1>6, <1>8, <1>10, <1>11, <1>12 DEF originals, Retried

\* The answer is recorded; a retry's values join those in memory.
LEMMA FinishIs ==
    ASSUME Typed, CallsHaveRows, MemoryFollows, NEW c \in Calls, Finish(c)
    PROVE  LET d == call[c].target
           IN  /\ call[c] # None /\ call[c].code = "sending" /\ d \in Calls
               /\ call' \in [Calls -> CallRecord \cup {None}]
               /\ \A x \in Calls : x # c => call'[x] = call[x]
               /\ call'[c] # None /\ call'[c].target = d /\ call'[c].headers = call[c].headers
               /\ call'[c].code = "sent" /\ call'[c].life = call[c].life
               /\ call'[c].settings = call[c].settings
               /\ delivery' \in [Calls -> Row \cup {None}]
               /\ \A x \in Calls : x # d => delivery'[x] = delivery[x]
               /\ delivery[d] # None
               /\ delivery'[d] # None /\ delivery'[d].headers = delivery[d].headers
               /\ delivery'[d].keyed = delivery[d].keyed
               /\ delivery'[d].fingerprint = delivery[d].fingerprint
               /\ PutFor(d)
               /\ d = c => memory'[d] = memory[d]
               /\ d # c => memory'[d] = Merge(memory[d], Lowered(call[c].headers))
               /\ UNCHANGED <<settings, restarts, attempt>>
<1> DEFINE d == call[c].target
           q == [call[c] EXCEPT !.code = "sent"]
<1>1. /\ call[c] # None /\ call[c].code = "sending"
      /\ call' = [call EXCEPT ![c] = q]
      /\ \E status \in {"delivered", "failed"} : delivery' = [delivery EXCEPT ![d].status = status]
      /\ d # c => Remember(c)
      /\ d = c => UNCHANGED <<memory, puts>>
      /\ UNCHANGED <<settings, restarts, attempt>>
  BY DEF Finish
<1>2. /\ memory \in [Calls -> Lowering]
      /\ call \in [Calls -> CallRecord \cup {None}]
      /\ delivery \in [Calls -> Row \cup {None}]
      /\ call[c].headers \in Dicts
  BY <1>1 DEF Typed
<1>3. call[c] \in CallRecord /\ d \in Calls
  BY <1>1, <1>2, CallParts
<1>4. "sent" \in Code
  BY DEF Code
<1>5. /\ q \in CallRecord /\ q # None /\ q.target = d /\ q.headers = call[c].headers
      /\ q.code = "sent" /\ q.life = call[c].life /\ q.settings = call[c].settings
  BY <1>3, <1>4, CallParts
<1> HIDE DEF q
<1>6. /\ call' \in [Calls -> CallRecord \cup {None}] /\ call'[c] = q
      /\ \A x \in Calls : x # c => call'[x] = call[x]
  BY <1>1, <1>2, <1>5
<1>7. delivery[d] # None /\ delivery[d] \in Row
  BY <1>1, <1>2, <1>3 DEF CallsHaveRows
<1>8. /\ delivery' \in [Calls -> Row \cup {None}]
      /\ \A x \in Calls : x # d => delivery'[x] = delivery[x]
      /\ delivery'[d] # None /\ delivery'[d].headers = delivery[d].headers
      /\ delivery'[d].keyed = delivery[d].keyed
      /\ delivery'[d].fingerprint = delivery[d].fingerprint
  <2>1. PICK status \in {"delivered", "failed"} :
           delivery' = [delivery EXCEPT ![d] = [delivery[d] EXCEPT !.status = status]]
    BY <1>1
  <2> DEFINE row == [delivery[d] EXCEPT !.status = status]
  <2> HIDE DEF d
  <2>2. /\ row \in Row /\ row # None /\ row.headers = delivery[d].headers
        /\ row.keyed = delivery[d].keyed /\ row.fingerprint = delivery[d].fingerprint
    <3>1. status \in {"pending", "delivered", "failed"}
      OBVIOUS
    <3>2. /\ row \in Row /\ row.headers = delivery[d].headers
          /\ row.keyed = delivery[d].keyed /\ row.fingerprint = delivery[d].fingerprint
      BY <1>7, <3>1 DEF Row
    <3>3. row # None
      BY <3>2, NoneIsNoRecord
    <3> QED
      BY <3>2, <3>3
  <2> HIDE DEF row
  <2>3. delivery'[d] = row /\ \A x \in Calls : x # d => delivery'[x] = delivery[x]
    BY <1>2, <1>3, <2>1 DEF row
  <2>4. delivery' \in [Calls -> Row \cup {None}]
    BY <1>2, <1>3, <2>1, <2>2 DEF row
  <2> QED
    BY <2>2, <2>3, <2>4
<1>9. /\ PutFor(d)
      /\ d = c => memory'[d] = memory[d]
      /\ d # c => memory'[d] = Merge(memory[d], Lowered(call[c].headers))
  <2>1. CASE d = c
    BY <1>1, <2>1, NoPut
  <2>2. CASE d # c
    <3> DEFINE new == Lowered(call[c].headers)
               m == Merge(memory[d], new)
    <3>1. /\ new \in [NamesIn(call[c].headers) -> Value]
          /\ new \in Lowering /\ memory[d] \in Lowering
      BY <1>2, <1>3, LoweredIs
    <3>2. IF call[c].headers = {} THEN UNCHANGED <<memory, puts>> ELSE Put(d, m)
      BY <1>1, <2>2 DEF Remember
    <3>3. CASE call[c].headers = {}
      <4>1. DOMAIN new = {}
        BY <3>1, <3>3 DEF NamesIn
      <4> HIDE DEF new
      <4>2. m = memory[d]
        BY <3>1, <4>1, MergeNone
      <4> HIDE DEF m, d
      <4>3. PutFor(d) /\ memory'[d] = memory[d]
        BY <3>2, <3>3, NoPut
      <4> QED
        BY <2>2, <4>2, <4>3 DEF m, new
    <3>4. CASE call[c].headers # {}
      <4>1. DOMAIN new # {}
        BY <3>1, <3>4 DEF NamesIn
      <4> HIDE DEF new
      <4>2. m \in Lowering /\ DOMAIN m = DOMAIN new \cup DOMAIN memory[d]
        BY <3>1, MergeIs
      <4>3. m # NoValues
        BY <4>1, <4>2, EmptyIs
      <4> HIDE DEF m, d
      <4>4. PutFor(d) /\ memory'[d] = m
        BY <1>3, <3>2, <3>4, <4>2, <4>3, PutIs
      <4> QED
        BY <2>2, <4>4 DEF m, new
    <3> QED
      BY <3>3, <3>4
  <2> QED
    BY <2>1, <2>2
<1> QED
  BY <1>1, <1>3, <1>5, <1>6, <1>7, <1>8, <1>9

\* What is being sent is lost with the process, and memory is empty.
LEMMA RestartIs ==
    ASSUME Typed, Restart
    PROVE  /\ settings' \in Settings /\ restarts' = restarts + 1
           /\ restarts' \in 0..MaxRestarts
           /\ memory' \in [Calls -> Lowering] /\ puts' \in Seq(Calls)
           /\ \A d \in Calls : memory'[d] = NoValues /\ DOMAIN memory'[d] = {}
           /\ call' \in [Calls -> CallRecord \cup {None}]
           /\ \A x \in Calls :
                 /\ call'[x] # None <=> call[x] # None
                 /\ call[x] # None =>
                       /\ call'[x].target = call[x].target
                       /\ call'[x].headers = call[x].headers
                       /\ call'[x].life = call[x].life
                       /\ call'[x].settings = call[x].settings
                       /\ call'[x].code = IF call[x].code = "sending" THEN "lost"
                                          ELSE call[x].code
           /\ UNCHANGED <<delivery, attempt>>
<1>1. NoValues \in Lowering /\ DOMAIN NoValues = {}
  BY DEF NoValues, Lowering
<1>2. restarts' = restarts + 1 /\ restarts' \in 0..MaxRestarts
  BY RestartBound DEF Restart, Typed
<1> DEFINE next(x) == IF call[x] # None /\ call[x].code = "sending"
                      THEN [call[x] EXCEPT !.code = "lost"] ELSE call[x]
<1>3. call' = [c \in Calls |-> next(c)]
  BY DEF Restart
<1>4. ASSUME NEW x \in Calls
      PROVE  /\ next(x) \in CallRecord \cup {None}
             /\ next(x) # None <=> call[x] # None
             /\ call[x] # None =>
                   /\ next(x).target = call[x].target /\ next(x).headers = call[x].headers
                   /\ next(x).life = call[x].life /\ next(x).settings = call[x].settings
                   /\ next(x).code = IF call[x].code = "sending" THEN "lost" ELSE call[x].code
  <2>1. call[x] \in CallRecord \cup {None} /\ "lost" \in Code
    BY DEF Typed, Code
  <2>2. CASE call[x] # None /\ call[x].code = "sending"
    <3> DEFINE q == [call[x] EXCEPT !.code = "lost"]
    <3>1. /\ q \in CallRecord /\ q # None
          /\ q.target = call[x].target /\ q.headers = call[x].headers /\ q.code = "lost"
          /\ q.life = call[x].life /\ q.settings = call[x].settings
      BY <2>1, <2>2, CallParts
    <3>2. next(x) = q
      BY <2>2
    <3> HIDE DEF q, next
    <3> QED
      BY <2>2, <3>1, <3>2
  <2>3. CASE ~(call[x] # None /\ call[x].code = "sending")
    BY <2>1, <2>3
  <2> QED
    BY <2>2, <2>3
<1> HIDE DEF next
<1>5. call' \in [Calls -> CallRecord \cup {None}] /\ \A x \in Calls : call'[x] = next(x)
  BY <1>3, <1>4
<1>6. /\ memory' \in [Calls -> Lowering] /\ puts' \in Seq(Calls)
      /\ \A d \in Calls : memory'[d] = NoValues /\ DOMAIN memory'[d] = {}
  <2>1. memory' = [d \in Calls |-> NoValues] /\ puts' = << >>
    BY DEF Restart
  <2> QED
    BY <1>1, <2>1
<1>7. settings' \in Settings /\ UNCHANGED <<delivery, attempt>>
  BY DEF Restart
<1> QED
  BY <1>2, <1>4, <1>5, <1>6, <1>7


\* The kinds of steps there are.
LEMMA StepKinds ==
    ASSUME [Next]_vars
    PROVE  \/ \E c \in Calls, given \in Dicts :
                 call[c] = None /\ Replay(c, given) /\ UNCHANGED <<settings, restarts>>
           \/ \E c \in Calls, given \in Dicts, keyed \in BOOLEAN :
                 call[c] = None /\ Insert(c, given, keyed) /\ UNCHANGED <<settings, restarts>>
           \/ \E c \in Calls : Retry(c)
           \/ \E c \in Calls : Finish(c)
           \/ Restart
           \/ UNCHANGED vars
<1>1. CASE \E c \in Calls : Create(c)
  <2>1. PICK c \in Calls : Create(c)
    BY <1>1
  <2>2. PICK raw \in Creates, keyed \in BOOLEAN :
           \/ Replay(c, _check_headers(raw))
           \/ Insert(c, _check_headers(raw), keyed)
    BY <2>1 DEF Create
  <2>3. call[c] = None /\ UNCHANGED <<settings, restarts>>
    BY <2>1 DEF Create
  <2>4. _check_headers(raw) \in Dicts
    BY CheckedIsDict, ClientsGiveHeaders
  <2> QED
    BY <2>2, <2>3, <2>4
<1>2. CASE Done
  BY <1>2 DEF Done
<1> QED
  BY <1>1, <1>2 DEF Next

-----------------------------------------------------------------------------
(* Rows follow their creations *)

Base == Typed /\ RowsFollow /\ CallsHaveRows /\ MemoryFollows

\* A database with no rows.
LEMMA BaseInit == Init => Base
<1> SUFFICES ASSUME Init PROVE Base
  OBVIOUS
<1>1. NoValues \in Lowering
  BY DEF NoValues, Lowering
<1> QED
  BY <1>1, RestartBound DEF Init, Base, Typed, RowsFollow, CallsHaveRows, MemoryFollows

\* Every step keeps types, rows and the calls they come from.
LEMMA BaseStep ==
    ASSUME Base, [Next]_vars
    PROVE  Base'
<1>1. Typed /\ RowsFollow /\ CallsHaveRows /\ MemoryFollows
  BY DEF Base
<1>2. ASSUME NEW c \in Calls, NEW given \in Dicts,
             call[c] = None, Replay(c, given), UNCHANGED <<settings, restarts>>
      PROVE  Base'
  <2>1. PICK d \in Calls :
           /\ delivery[d] # None
           /\ call' \in [Calls -> CallRecord \cup {None}]
           /\ \A x \in Calls : x # c => call'[x] = call[x]
           /\ call'[c] # None /\ call'[c].target = d
           /\ call'[c].code = IF delivery[d].fingerprint = request_fingerprint(given, settings)
                             THEN "replayed" ELSE "conflict"
           /\ call'[c].life = restarts
           /\ \A x \in Calls : call'[x] # None => call'[x].headers \in Dicts
           /\ UNCHANGED <<memory, puts, delivery, attempt>>
    BY <1>1, <1>2, ReplayIs
  <2>2. Typed'
    BY <1>1, <1>2, <2>1 DEF Typed
  <2>3. RowsFollow'
    BY <1>1, <1>2, <2>1 DEF RowsFollow
  <2>4. CallsHaveRows'
    <3>1. call'[c].code # "error" /\ call'[c].life <= restarts
      BY <1>1, <2>1, RestartBound DEF Typed
    <3> QED
      BY <1>1, <1>2, <2>1, <3>1 DEF CallsHaveRows
  <2>5. MemoryFollows'
    BY <1>1, <2>1 DEF MemoryFollows, EverPut
  <2> QED
    BY <2>2, <2>3, <2>4, <2>5 DEF Base
<1>3. ASSUME NEW c \in Calls, NEW given \in Dicts, NEW keyed \in BOOLEAN,
             call[c] = None, Insert(c, given, keyed), UNCHANGED <<settings, restarts>>
      PROVE  Base'
  <2> DEFINE stored == redact_headers(given, settings.sensitive)
  <2>1. /\ call' \in [Calls -> CallRecord \cup {None}]
        /\ \A x \in Calls : x # c => call'[x] = call[x]
        /\ call'[c] # None /\ call'[c].target = c /\ call'[c].headers = given
        /\ call'[c].life = restarts /\ call'[c].settings = settings
        /\ \A x \in Calls : call'[x] # None => call'[x].headers \in Dicts
        /\ delivery' \in [Calls -> Row \cup {None}]
        /\ \A x \in Calls : x # c => delivery'[x] = delivery[x]
        /\ delivery'[c] # None /\ delivery'[c].headers = stored
        /\ delivery'[c].keyed => delivery'[c].fingerprint = request_fingerprint(given, settings)
        /\ PutFor(c)
        /\ attempt' \in [Calls -> AttemptRecord \cup {None}]
    BY <1>1, <1>3, InsertIs
  <2> HIDE DEF stored
  <2>2. Typed'
    BY <1>1, <1>3, <2>1 DEF Typed, PutFor
  <2>3. RowsFollow'
    <3>1. delivery'[c].headers =
             redact_headers(call'[c].headers, call'[c].settings.sensitive)
      BY <2>1 DEF stored
    <3>2. delivery'[c].keyed => delivery'[c].fingerprint =
             request_fingerprint(call'[c].headers, call'[c].settings)
      BY <2>1
    <3> QED
      BY <1>1, <2>1, <3>1, <3>2 DEF RowsFollow
  <2>4. CallsHaveRows'
    <3>1. call'[c].life <= restarts
      BY <1>1, <2>1, RestartBound DEF Typed
    <3>2. \A x \in Calls : delivery[x] # None => delivery'[x] # None
      BY <2>1
    <3>3. \A x \in Calls : call[x] # None => call[x].target \in Calls
      BY <1>1, CallParts DEF Typed
    <3> QED
      BY <1>1, <1>3, <2>1, <3>1, <3>2, <3>3 DEF CallsHaveRows
  <2>5. MemoryFollows'
    BY <1>1, <2>1 DEF MemoryFollows, PutFor
  <2> QED
    BY <2>2, <2>3, <2>4, <2>5 DEF Base
<1>4. ASSUME NEW c \in Calls, Retry(c) PROVE Base'
  <2>1. PICK d \in Calls :
           /\ d # c /\ call[c] = None /\ delivery[d] # None
           /\ call' \in [Calls -> CallRecord \cup {None}]
           /\ \A x \in Calls : x # c => call'[x] = call[x]
           /\ call'[c] # None /\ call'[c].target = d
           /\ call'[c].code \in {"invalid_headers", "unavailable", "sending"}
           /\ call'[c].life = restarts
           /\ \A x \in Calls : call'[x] # None => call'[x].headers \in Dicts
           /\ delivery' \in [Calls -> Row \cup {None}]
           /\ \A x \in Calls : x # d => delivery'[x] = delivery[x]
           /\ delivery'[d] # None /\ delivery'[d].headers = delivery[d].headers
           /\ delivery'[d].keyed = delivery[d].keyed
           /\ delivery'[d].fingerprint = delivery[d].fingerprint
           /\ attempt' \in [Calls -> AttemptRecord \cup {None}]
           /\ UNCHANGED <<settings, restarts, memory, puts>>
    BY <1>1, <1>4, RetryIs DEF Retried
  <2>2. Typed'
    BY <1>1, <2>1 DEF Typed
  <2>3. RowsFollow'
    BY <1>1, <2>1 DEF RowsFollow
  <2>4. CallsHaveRows'
    <3>1. call'[c].code # "error" /\ call'[c].life <= restarts
      BY <1>1, <2>1, RestartBound DEF Typed
    <3>2. \A x \in Calls : delivery[x] # None => delivery'[x] # None
      BY <2>1
    <3>3. \A x \in Calls : call[x] # None => call[x].target \in Calls
      BY <1>1, CallParts DEF Typed
    <3> QED
      BY <1>1, <2>1, <3>1, <3>2, <3>3 DEF CallsHaveRows
  <2>5. MemoryFollows'
    BY <1>1, <2>1 DEF MemoryFollows, EverPut
  <2> QED
    BY <2>2, <2>3, <2>4, <2>5 DEF Base
<1>5. ASSUME NEW c \in Calls, Finish(c) PROVE Base'
  <2> DEFINE d == call[c].target
  <2>1. /\ call[c] # None /\ d \in Calls
        /\ call' \in [Calls -> CallRecord \cup {None}]
        /\ \A x \in Calls : x # c => call'[x] = call[x]
        /\ call'[c] # None /\ call'[c].target = call[c].target
        /\ call'[c].headers = call[c].headers
        /\ call'[c].code = "sent" /\ call'[c].life = call[c].life
        /\ call'[c].settings = call[c].settings
        /\ delivery' \in [Calls -> Row \cup {None}]
        /\ \A x \in Calls : x # d => delivery'[x] = delivery[x]
        /\ delivery[d] # None
        /\ delivery'[d] # None /\ delivery'[d].headers = delivery[d].headers
        /\ delivery'[d].keyed = delivery[d].keyed
        /\ delivery'[d].fingerprint = delivery[d].fingerprint
        /\ PutFor(d)
        /\ UNCHANGED <<settings, restarts, attempt>>
    BY <1>1, <1>5, FinishIs
  <2> HIDE DEF d
  <2>2. /\ \A x \in Calls : call'[x] # None <=> call[x] # None
        /\ \A x \in Calls : call[x] # None =>
              /\ call'[x].target = call[x].target /\ call'[x].headers = call[x].headers
              /\ call'[x].life = call[x].life /\ call'[x].settings = call[x].settings
              /\ call'[x].code = "error" => call[x].code = "error"
    BY <2>1
  <2>3. /\ \A x \in Calls : delivery'[x] # None <=> delivery[x] # None
        /\ \A x \in Calls : /\ delivery'[x].headers = delivery[x].headers
                             /\ delivery'[x].keyed = delivery[x].keyed
                             /\ delivery'[x].fingerprint = delivery[x].fingerprint
    BY <2>1
  <2>4. Typed'
    BY <1>1, <2>1, <2>2 DEF Typed, PutFor
  <2>5. RowsFollow'
    BY <1>1, <2>2, <2>3 DEF RowsFollow
  <2>6. CallsHaveRows'
    <3>1. \A x \in Calls : call[x] # None => call[x].target \in Calls
      BY <1>1, CallParts DEF Typed
    <3> QED
      BY <1>1, <2>1, <2>2, <2>3, <3>1 DEF CallsHaveRows
  <2>7. MemoryFollows'
    BY <1>1, <2>1, <2>3 DEF MemoryFollows, PutFor
  <2> QED
    BY <2>4, <2>5, <2>6, <2>7 DEF Base
<1>6. CASE Restart
  <2>1. /\ settings' \in Settings /\ restarts' = restarts + 1
        /\ restarts' \in 0..MaxRestarts
        /\ memory' \in [Calls -> Lowering] /\ puts' \in Seq(Calls)
        /\ \A x \in Calls : memory'[x] = NoValues
        /\ call' \in [Calls -> CallRecord \cup {None}]
        /\ \A x \in Calls :
              /\ call'[x] # None <=> call[x] # None
              /\ call[x] # None =>
                    /\ call'[x].target = call[x].target
                    /\ call'[x].headers = call[x].headers
                    /\ call'[x].life = call[x].life
                    /\ call'[x].settings = call[x].settings
                    /\ call'[x].code = IF call[x].code = "sending" THEN "lost" ELSE call[x].code
        /\ UNCHANGED <<delivery, attempt>>
    BY <1>1, <1>6, RestartIs
  <2>2. Typed'
    BY <1>1, <2>1 DEF Typed
  <2>3. RowsFollow'
    BY <1>1, <2>1 DEF RowsFollow
  <2>4. CallsHaveRows'
    <3>1. \A x \in Calls : call[x] # None => call[x].life \in Nat /\ call[x].life <= restarts
      BY <1>1, CallParts, RestartBound DEF Typed, CallsHaveRows
    <3>2. restarts \in Nat
      BY <1>1, RestartBound DEF Typed
    <3>3. \A x \in Calls : call[x] # None => call'[x].life <= restarts'
      BY <2>1, <3>1, <3>2
    <3> QED
      BY <1>1, <2>1, <3>3 DEF CallsHaveRows
  <2>5. MemoryFollows'
    BY <2>1 DEF MemoryFollows
  <2> QED
    BY <2>2, <2>3, <2>4, <2>5 DEF Base
<1>7. CASE UNCHANGED vars
  BY <1>1, <1>7 DEF vars, Base, Typed, RowsFollow, CallsHaveRows, MemoryFollows, EverPut
<1> QED
  BY <1>2, <1>3, <1>4, <1>5, <1>6, <1>7, StepKinds


\* What a call asked and what a row was created with never change.
LEMMA Kept ==
    ASSUME Base, [Next]_vars
    PROVE  /\ \A x \in Calls : call[x] # None =>
                 /\ call'[x] # None
                 /\ call'[x].target = call[x].target /\ call'[x].headers = call[x].headers
                 /\ call'[x].life = call[x].life /\ call'[x].settings = call[x].settings
                 /\ \/ call'[x].code = call[x].code
                    \/ call[x].code = "sending" /\ call'[x].code \in {"sent", "lost"}
           /\ \A d \in Calls : delivery[d] # None =>
                 /\ delivery'[d] # None
                 /\ delivery'[d].headers = delivery[d].headers
                 /\ delivery'[d].keyed = delivery[d].keyed
                 /\ delivery'[d].fingerprint = delivery[d].fingerprint
<1> USE DEF Base
<1>1. ASSUME NEW c \in Calls, call[c] = None,
             \A x \in Calls : x # c => call'[x] = call[x]
      PROVE  \A x \in Calls : call[x] # None => call'[x] = call[x]
  BY <1>1
<1>2. ASSUME NEW c \in Calls, call[c] = None
      PROVE  delivery[c] = None
  BY <1>2 DEF RowsFollow
<1>3. ASSUME NEW c \in Calls, NEW given \in Dicts, call[c] = None, Replay(c, given)
      PROVE  (\A x \in Calls : x # c => call'[x] = call[x]) /\ UNCHANGED delivery
  BY <1>3, ReplayIs
<1>4. ASSUME NEW c \in Calls, NEW given \in Dicts, NEW keyed \in BOOLEAN,
             call[c] = None, Insert(c, given, keyed)
      PROVE  /\ \A x \in Calls : x # c => call'[x] = call[x]
             /\ \A x \in Calls : x # c => delivery'[x] = delivery[x]
  BY <1>4, InsertIs
<1>5. ASSUME NEW c \in Calls, Retry(c)
      PROVE  /\ call[c] = None
             /\ \A x \in Calls : x # c => call'[x] = call[x]
             /\ \A x \in Calls : delivery[x] # None =>
                   /\ delivery'[x] # None
                   /\ delivery'[x].headers = delivery[x].headers
                   /\ delivery'[x].keyed = delivery[x].keyed
                   /\ delivery'[x].fingerprint = delivery[x].fingerprint
  BY <1>5, RetryIs DEF Retried
<1>6. ASSUME NEW c \in Calls, Finish(c)
      PROVE  /\ \A x \in Calls : x # c => call'[x] = call[x]
             /\ call[c].code = "sending"
             /\ call'[c] # None /\ call'[c].target = call[c].target
             /\ call'[c].headers = call[c].headers
             /\ call'[c].code = "sent" /\ call'[c].life = call[c].life
             /\ call'[c].settings = call[c].settings
             /\ \A x \in Calls : delivery[x] # None =>
                   /\ delivery'[x] # None
                   /\ delivery'[x].headers = delivery[x].headers
                   /\ delivery'[x].keyed = delivery[x].keyed
                   /\ delivery'[x].fingerprint = delivery[x].fingerprint
  BY <1>6, FinishIs
<1>7. CASE \E c \in Calls, given \in Dicts :
             call[c] = None /\ Replay(c, given) /\ UNCHANGED <<settings, restarts>>
  BY <1>1, <1>3, <1>7
<1>8. CASE \E c \in Calls, given \in Dicts, keyed \in BOOLEAN :
             call[c] = None /\ Insert(c, given, keyed) /\ UNCHANGED <<settings, restarts>>
  BY <1>1, <1>2, <1>4, <1>8
<1>9. CASE \E c \in Calls : Retry(c)
  BY <1>1, <1>5, <1>9
<1>10. CASE \E c \in Calls : Finish(c)
  BY <1>6, <1>10
<1>11. CASE Restart
  BY <1>11, RestartIs
<1>12. CASE UNCHANGED vars
  BY <1>12 DEF vars
<1> QED
  BY <1>7, <1>8, <1>9, <1>10, <1>11, <1>12, StepKinds

-----------------------------------------------------------------------------
(* Answers to repeated keys *)

RequestOf(c) == request_fingerprint(call[c].headers, call[c].settings)

Repeats == {"replayed", "conflict"}

Answers ==
    \A c \in Calls : call[c] # None /\ call[c].code \in Repeats =>
        (call[c].code = "replayed" <=> RequestOf(c) = RequestOf(call[c].target))

\* Every step keeps answers to repeated keys right.
LEMMA AnswersStep ==
    ASSUME Base, Answers, [Next]_vars
    PROVE  Answers'
<1>1. SUFFICES ASSUME NEW c \in Calls, call'[c] # None, call'[c].code \in Repeats
               PROVE  call'[c].code = "replayed" <=>
                        request_fingerprint(call'[c].headers, call'[c].settings) =
                        request_fingerprint(call'[call'[c].target].headers,
                                            call'[call'[c].target].settings)
  BY DEF Answers, RequestOf
<1>2. CASE call[c] # None
  <2>1. call'[c].target = call[c].target /\ call'[c].headers = call[c].headers
        /\ call'[c].settings = call[c].settings /\ call'[c].code = call[c].code
    BY <1>1, <1>2, Kept DEF Repeats
  <2>2. call[c].target \in Calls /\ call[call[c].target] # None
    BY <1>2, CallParts DEF Base, Typed, CallsHaveRows, RowsFollow
  <2>3. call'[call[c].target].headers = call[call[c].target].headers
        /\ call'[call[c].target].settings = call[call[c].target].settings
    BY <2>2, Kept
  <2> QED
    BY <1>1, <1>2, <2>1, <2>3 DEF Answers, RequestOf
<1>3. CASE call[c] = None
  <2>1. ASSUME NEW e \in Calls, NEW given \in Dicts, call[e] = None, Replay(e, given)
        PROVE  \/ call'[c] = call[c]
               \/ \E d \in Calls :
                    /\ delivery[d] # None /\ delivery[d].keyed
                    /\ call'[c].target = d /\ call'[c].headers = given
                    /\ call'[c].code = IF delivery[d].fingerprint = request_fingerprint(given, settings)
                                      THEN "replayed" ELSE "conflict"
                    /\ call'[c].settings = settings
    BY <2>1, ReplayIs DEF Base
  <2>2. ASSUME NEW e \in Calls, NEW given \in Dicts, NEW keyed \in BOOLEAN,
               call[e] = None, Insert(e, given, keyed)
        PROVE  FALSE
    BY <1>1, <1>3, <2>2, InsertIs DEF Base, Repeats
  <2>3. ASSUME NEW e \in Calls, Retry(e)
        PROVE  FALSE
    BY <1>1, <1>3, <2>3, RetryIs DEF Base, Repeats, Retried
  <2>4. ASSUME NEW e \in Calls, Finish(e)
        PROVE  FALSE
    BY <1>1, <1>3, <2>4, FinishIs DEF Base
  <2>5. ~Restart
    BY <1>1, <1>3, RestartIs DEF Base
  <2>6. ~UNCHANGED vars
    BY <1>1, <1>3 DEF vars
  <2>7. PICK e \in Calls, given \in Dicts : call[e] = None /\ Replay(e, given)
    BY <2>2, <2>3, <2>4, <2>5, <2>6, StepKinds
  <2>8. PICK d \in Calls :
           /\ delivery[d] # None /\ delivery[d].keyed
           /\ call'[c].target = d /\ call'[c].headers = given
           /\ call'[c].code = IF delivery[d].fingerprint = request_fingerprint(given, settings)
                             THEN "replayed" ELSE "conflict"
           /\ call'[c].settings = settings
    BY <1>1, <1>3, <2>1, <2>7
  <2>9. call[d] # None /\ delivery[d].fingerprint = request_fingerprint(call[d].headers, call[d].settings)
    BY <2>8 DEF Base, RowsFollow
  <2>10. call'[d].headers = call[d].headers /\ call'[d].settings = call[d].settings
    BY <2>9, Kept
  <2> QED
    BY <2>8, <2>9, <2>10
<1> QED
  BY <1>2, <1>3

-----------------------------------------------------------------------------
(* Evidence *)

Evidence ==
    \A c \in Calls : attempt[c] # None =>
        /\ call[c] # None /\ attempt[c].delivery = call[c].target
        /\ \A h \in attempt[c].evidence :
              NameOf(h) \in call[c].settings.sensitive => h.value = REDACTED

\* Every step keeps the evidence redacted.
LEMMA EvidenceStep ==
    ASSUME Base, Evidence, [Next]_vars
    PROVE  Evidence'
<1>1. ASSUME NEW c \in Calls, attempt[c] # None, attempt'[c] = attempt[c]
      PROVE  /\ call'[c] # None /\ attempt'[c].delivery = call'[c].target
             /\ \A h \in attempt'[c].evidence :
                   NameOf(h) \in call'[c].settings.sensitive => h.value = REDACTED
  BY <1>1, Kept DEF Evidence
<1>2. ASSUME NEW c \in Calls, NEW d \in Calls, NEW stored \in Dicts, NEW o \in Lowering,
             Missing(stored, o) = {}, attempt'[c] = Attempt(d, stored, o),
             call'[c] # None, call'[c].target = d, call'[c].settings = settings
      PROVE  /\ call'[c] # None /\ attempt'[c].delivery = call'[c].target
             /\ \A h \in attempt'[c].evidence :
                   NameOf(h) \in call'[c].settings.sensitive => h.value = REDACTED
  BY <1>2, AttemptIs DEF Base, Typed
<1>3. ASSUME NEW c \in Calls, NEW given \in Dicts, Replay(c, given) PROVE Evidence'
  <2>1. UNCHANGED attempt
    BY <1>3, ReplayIs DEF Base
  <2> QED
    BY <1>1, <2>1 DEF Evidence
<1>4. ASSUME NEW c \in Calls, NEW given \in Dicts, NEW keyed \in BOOLEAN,
             call[c] = None, Insert(c, given, keyed)
      PROVE  Evidence'
  <2> DEFINE stored    == redact_headers(given, settings.sensitive)
             originals == sensitive_values(given, settings.sensitive)
  <2>1. /\ call'[c] # None /\ call'[c].target = c /\ call'[c].settings = settings
        /\ \A x \in Calls : x # c \/ Missing(stored, originals) # {} => attempt'[x] = attempt[x]
        /\ Missing(stored, originals) = {} => attempt'[c] = Attempt(c, stored, originals)
    BY <1>4, InsertIs DEF Base
  <2>2. stored \in Dicts /\ originals \in Lowering
    BY RedactedIsDict, KeptValues
  <2> HIDE DEF stored, originals
  <2>3. CASE Missing(stored, originals) # {}
    BY <1>1, <2>1, <2>3 DEF Evidence
  <2>4. CASE Missing(stored, originals) = {}
    <3>1. /\ attempt'[c].delivery = call'[c].target
          /\ \A h \in attempt'[c].evidence :
                NameOf(h) \in call'[c].settings.sensitive => h.value = REDACTED
      BY <1>2, <2>1, <2>2, <2>4
    <3> QED
      BY <1>1, <2>1, <3>1 DEF Evidence
  <2> QED
    BY <2>3, <2>4
<1>5. ASSUME NEW c \in Calls, Retry(c) PROVE Evidence'
  <2>1. PICK d \in Calls, given \in Dicts : Retried(c, d, given)
    BY <1>5, RetryIs DEF Base
  <2> DEFINE stored    == delivery[d].headers
             originals == Merge(memory[d], Lowered(given))
  <2>4. /\ stored \in Dicts /\ originals \in Lowering
        /\ call'[c] # None /\ call'[c].target = d /\ call'[c].settings = settings
        /\ \A x \in Calls : x # c \/ call'[c].code # "sending" => attempt'[x] = attempt[x]
        /\ call'[c].code = "sending" =>
              Missing(stored, originals) = {} /\ attempt'[c] = Attempt(d, stored, originals)
    BY <2>1 DEF Retried
  <2> HIDE DEF stored, originals
  <2>2. CASE call'[c].code = "sending"
    <3>1. /\ attempt'[c].delivery = call'[c].target
          /\ \A h \in attempt'[c].evidence :
                NameOf(h) \in call'[c].settings.sensitive => h.value = REDACTED
      BY <1>2, <2>2, <2>4
    <3> QED
      BY <1>1, <2>4, <3>1 DEF Evidence
  <2>3. CASE call'[c].code # "sending"
    BY <1>1, <2>3, <2>4 DEF Evidence
  <2> QED
    BY <2>2, <2>3
<1>6. ASSUME NEW c \in Calls, Finish(c) PROVE Evidence'
  <2>1. UNCHANGED attempt
    BY <1>6, FinishIs DEF Base
  <2> QED
    BY <1>1, <2>1 DEF Evidence
<1>7. CASE Restart
  BY <1>1, <1>7, RestartIs DEF Base, Evidence
<1>8. CASE UNCHANGED vars
  BY <1>8 DEF vars, Evidence
<1> QED
  BY <1>3, <1>4, <1>5, <1>6, <1>7, <1>8, StepKinds


-----------------------------------------------------------------------------
(* Theorems *)

\* The invariant behind the answers and the evidence.
Settled == Base /\ Answers /\ Evidence

\* Settled is an invariant.
LEMMA AlwaysSettled == Spec => []Settled
<1>1. Init => Settled
  BY BaseInit DEF Settled, Init, Answers, Evidence
<1>2. Settled /\ [Next]_vars => Settled'
  BY BaseStep, AnswersStep, EvidenceStep DEF Settled
<1> QED
  BY <1>1, <1>2, PTL DEF Spec

\* Types; what was accepted and what is stored are dicts; attempts have rows.
THEOREM HeadersTyped == Spec => []TypeOK
<1>1. Settled => TypeOK
  <2> SUFFICES ASSUME Settled PROVE TypeOK
    OBVIOUS
  <2>1. Typed /\ RowsFollow /\ CallsHaveRows /\ Evidence
    BY DEF Settled, Base
  <2>2. \A d \in Calls : delivery[d] # None => delivery[d].headers \in Dicts
    BY <2>1, RedactedIsDict DEF Typed, RowsFollow
  <2>3. \A H \in Dicts : IsDict(H)
    BY DEF Dicts
  <2>4. \A c \in Calls : attempt[c] # None => delivery[attempt[c].delivery] # None
    BY <2>1 DEF Evidence, CallsHaveRows
  <2> QED
    BY <2>1, <2>2, <2>3, <2>4 DEF Typed, TypeOK
<1> QED
  BY <1>1, AlwaysSettled, PTL

\* A value given under a sensitive name is readable in an attempt only if the name
\* was no longer sensitive when the attempt was recorded.
THEOREM EvidenceHidesCredentials == Spec => []ReadableOnlyIfDropped
<1>1. Settled => ReadableOnlyIfDropped
  BY DEF Settled, Evidence, ReadableOnlyIfDropped
<1> QED
  BY <1>1, AlwaysSettled, PTL

\* With the same settings, equal fingerprints and the same logical request are one.
LEMMA SamePrint ==
    ASSUME NEW G \in Dicts, NEW H \in Dicts, NEW s
    PROVE  request_fingerprint(G, s) = request_fingerprint(H, s) <=>
             \A n \in Names \ _excluded_from_fingerprint(s) :
                /\ n \in NamesIn(G) <=> n \in NamesIn(H)
                /\ n \in NamesIn(G) \ s.sensitive => Lowered(G)[n] = Lowered(H)[n]
<1> DEFINE X == _excluded_from_fingerprint(s)
           A == NamesIn(G) \ X
           B == NamesIn(H) \ X
           f == [n \in A |-> IF n \in s.sensitive THEN REDACTED ELSE Lowered(G)[n]]
           g == [n \in B |-> IF n \in s.sensitive THEN REDACTED ELSE Lowered(H)[n]]
           Same == \A n \in Names \ X :
                      /\ n \in NamesIn(G) <=> n \in NamesIn(H)
                      /\ n \in NamesIn(G) \ s.sensitive => Lowered(G)[n] = Lowered(H)[n]
<1>1. request_fingerprint(G, s) = f /\ request_fingerprint(H, s) = g
  BY FingerprintIs
<1>2. NamesIn(G) \subseteq Names /\ NamesIn(H) \subseteq Names
  BY LoweredIs
<1> HIDE DEF X
<1>3. ASSUME f = g PROVE Same
  <2>1. A = B
    <3>1. DOMAIN f = A /\ DOMAIN g = B
      OBVIOUS
    <3> HIDE DEF f, g
    <3> QED
      BY <1>3, <3>1
  <2>2. \A n \in A : n \notin s.sensitive => Lowered(G)[n] = Lowered(H)[n]
    <3> SUFFICES ASSUME NEW n \in A, n \notin s.sensitive PROVE Lowered(G)[n] = Lowered(H)[n]
      OBVIOUS
    <3>1. f[n] = Lowered(G)[n] /\ g[n] = Lowered(H)[n]
      BY <2>1
    <3> HIDE DEF f, g
    <3> QED
      BY <1>3, <3>1
  <2> HIDE DEF f, g
  <2> QED
    BY <2>1, <2>2
<1>4. ASSUME Same PROVE f = g
  <2>1. A = B
    BY <1>2, <1>4
  <2>2. \A n \in A : n \notin s.sensitive => Lowered(G)[n] = Lowered(H)[n]
    BY <1>2, <1>4
  <2> QED
    BY <2>1, <2>2
<1> HIDE DEF f, g
<1> QED
  BY <1>1, <1>3, <1>4 DEF X

\* For as long as the settings stay the same, a repeated key is a replay if and
\* only if the logical request is the same.
THEOREM RepeatsAreDecided == Spec => []RepeatsDecided
<1>1. Settled => RepeatsDecided
  <2> SUFFICES ASSUME Settled, NEW c \in Calls, call[c] # None, call[c].code \in Repeats,
                      call[c].settings = call[call[c].target].settings
               PROVE  call[c].code = "replayed" <=>
                        SameRequest(c, call[c].target, call[c].settings)
    BY DEF RepeatsDecided, Repeats
  <2> DEFINE d == call[c].target
             G == call[c].headers
             H == call[d].headers
             s == call[c].settings
  <2>1. G \in Dicts /\ H \in Dicts
    BY CallParts DEF Settled, Base, Typed, CallsHaveRows, RowsFollow
  <2>2. call[c].code = "replayed" <=> request_fingerprint(G, s) = request_fingerprint(H, s)
    BY DEF Settled, Answers, RequestOf
  <2>3. SameRequest(c, d, s) <=>
           \A n \in Names \ _excluded_from_fingerprint(s) :
              /\ n \in NamesIn(G) <=> n \in NamesIn(H)
              /\ n \in NamesIn(G) \ s.sensitive => Lowered(G)[n] = Lowered(H)[n]
    BY DEF SameRequest
  <2> HIDE DEF G, H, s, d
  <2>4. request_fingerprint(G, s) = request_fingerprint(H, s) <=> SameRequest(c, d, s)
    BY <2>1, <2>3, SamePrint
  <2> QED
    BY <2>2, <2>4 DEF d, s
<1> QED
  BY <1>1, AlwaysSettled, PTL

\* Equal fingerprints of two days: no difference that both days look at.
LEMMA PrintsOfTwoDays ==
    ASSUME NEW G \in Dicts, NEW H \in Dicts, NEW s, NEW t,
           request_fingerprint(G, s) = request_fingerprint(H, t)
    PROVE  \A n \in Names \ (_excluded_from_fingerprint(s) \cup _excluded_from_fingerprint(t)) :
              /\ n \in NamesIn(G) <=> n \in NamesIn(H)
              /\ n \in NamesIn(G) \ (s.sensitive \cup t.sensitive) =>
                    Lowered(G)[n] = Lowered(H)[n]
<1> DEFINE X == _excluded_from_fingerprint(s)
           Y == _excluded_from_fingerprint(t)
           A == NamesIn(G) \ X
           B == NamesIn(H) \ Y
           f == [n \in A |-> IF n \in s.sensitive THEN REDACTED ELSE Lowered(G)[n]]
           g == [n \in B |-> IF n \in t.sensitive THEN REDACTED ELSE Lowered(H)[n]]
<1>0. request_fingerprint(G, s) = f /\ request_fingerprint(H, t) = g
  BY FingerprintIs
<1>1. f = g
  <2> HIDE DEF f, g
  <2> QED
    BY <1>0
<1> HIDE DEF X, Y
<1>2. A = B
  <2>1. DOMAIN f = A /\ DOMAIN g = B
    OBVIOUS
  <2> HIDE DEF f, g
  <2> QED
    BY <1>1, <2>1
<1>3. ASSUME NEW n \in A, n \notin s.sensitive \cup t.sensitive
      PROVE  Lowered(G)[n] = Lowered(H)[n]
  <2>1. f[n] = Lowered(G)[n] /\ g[n] = Lowered(H)[n]
    BY <1>2, <1>3
  <2> HIDE DEF f, g
  <2> QED
    BY <1>1, <2>1
<1> HIDE DEF f, g
<1> QED
  BY <1>2, <1>3 DEF X, Y

\* Whatever settings did in between, a replay hides no difference in a header that
\* neither of the settings excludes or takes for sensitive.
THEOREM ReplaysHideNothing == Spec => []ReplayIsSame
<1>1. Settled => ReplayIsSame
  <2> SUFFICES ASSUME Settled, NEW c \in Calls, call[c] # None, call[c].code = "replayed"
               PROVE  LET d == call[c].target
                          both == [sensitive |-> call[c].settings.sensitive
                                                     \cup call[d].settings.sensitive,
                                   signing_headers |-> call[c].settings.signing_headers
                                                     \cup call[d].settings.signing_headers]
                      IN  SameRequest(c, d, both)
    BY DEF ReplayIsSame
  <2> DEFINE d == call[c].target
             G == call[c].headers
             H == call[d].headers
             s == call[c].settings
             t == call[d].settings
             both == [sensitive |-> s.sensitive \cup t.sensitive,
                      signing_headers |-> s.signing_headers \cup t.signing_headers]
  <2>1. G \in Dicts /\ H \in Dicts
    BY CallParts DEF Settled, Base, Typed, CallsHaveRows, RowsFollow
  <2>2. request_fingerprint(G, s) = request_fingerprint(H, t)
    BY DEF Settled, Answers, RequestOf, Repeats
  <2>3. /\ both.sensitive = s.sensitive \cup t.sensitive
        /\ _excluded_from_fingerprint(both) =
              _excluded_from_fingerprint(s) \cup _excluded_from_fingerprint(t)
    BY DEF _excluded_from_fingerprint
  <2> HIDE DEF both
  <2>4. SameRequest(c, d, both) <=>
           \A n \in Names \ _excluded_from_fingerprint(both) :
              /\ n \in NamesIn(G) <=> n \in NamesIn(H)
              /\ n \in NamesIn(G) \ both.sensitive => Lowered(G)[n] = Lowered(H)[n]
    BY DEF SameRequest
  <2> HIDE DEF G, H, s, t, d
  <2>5. SameRequest(c, d, both)
    BY <2>1, <2>2, <2>3, <2>4, PrintsOfTwoDays
  <2> QED
    BY <2>5 DEF both, s, t, d
<1> QED
  BY <1>1, AlwaysSettled, PTL


-----------------------------------------------------------------------------
(* Credentials in memory *)

\* A row whose creation found no value for a marker has never been sent.
Failing ==
    \A d \in Calls : delivery[d] # None /\ call[d].code = "error" =>
        delivery[d].status = "pending"

\* What is sent belongs to the process that runs, to a row that may be sent, and
\* re-supplies names that the row has redacted.
Sendable ==
    \A c \in Calls : call[c] # None /\ call[c].code \in {"sending", "sent"} =>
        /\ call[c].code = "sending" => call[c].life = restarts
        /\ call[call[c].target].code # "error"
        /\ call[c].target # c =>
              NamesIn(call[c].headers) \subseteq
                  redacted_header_names(delivery[call[c].target].headers)

\* In a row that may be sent the marker stands for sensitive values only, and the
\* process in which it was created has a value for each, unless it may have dropped them.
Ready ==
    \A d \in Calls : delivery[d] # None /\ call[d].code # "error" =>
        /\ redacted_header_names(delivery[d].headers) \subseteq call[d].settings.sensitive
        /\ call[d].life = restarts =>
              \/ redacted_header_names(delivery[d].headers) \subseteq DOMAIN memory[d]
              \/ Crowded(d)

\* Memory holds what a finished retry re-supplied to this process, else what the
\* creation gave to this process; what a retry re-supplied is there unless it may
\* have been dropped.
Traced ==
    \A d \in Calls, n \in Names :
        /\ Remembered(d, n) # {} => n \in DOMAIN memory[d] \/ Crowded(d)
        /\ n \in DOMAIN memory[d] =>
              IF Remembered(d, n) # {}
              THEN \E e \in Remembered(d, n) : Lowered(call[e].headers)[n] = memory[d][n]
              ELSE /\ delivery[d] # None /\ call[d].life = restarts
                   /\ memory[d][n] = Lowered(Readable(call[d].headers))[n]

\* A call that has not come yet has no row, and no other call is about it.
LEMMA NoNewRow ==
    ASSUME Base, NEW c \in Calls, call[c] = None
    PROVE  delivery[c] = None /\ \A x \in Calls : call[x] # None => call[x].target # c
BY DEF Base, RowsFollow, CallsHaveRows

\* Only a call that finishes changes what is remembered.
LEMMA RememberedStays ==
    ASSUME NEW c \in Calls, call[c] = None, restarts' = restarts,
           \A x \in Calls : x # c => call'[x] = call[x],
           call'[c].code # "sent", NEW d \in Calls, NEW n
    PROVE  Remembered(d, n)' = Remembered(d, n)
BY DEF Remembered

\* A row without its values stays pending.
LEMMA FailingStep ==
    ASSUME Base, Failing, Sendable, [Next]_vars
    PROVE  Failing'
<1>1. \A d \in Calls : delivery[d] # None => call[d] # None
  BY DEF Base, RowsFollow
<1>2. \A d \in Calls : delivery[d] # None /\ call'[d].code = "error" => call[d].code = "error"
  BY <1>1, Kept
<1>3. ASSUME NEW c \in Calls, NEW given \in Dicts, Replay(c, given) PROVE Failing'
  <2>1. UNCHANGED delivery
    BY <1>3, ReplayIs DEF Base
  <2> QED
    BY <1>2, <2>1 DEF Failing
<1>4. ASSUME NEW c \in Calls, NEW given \in Dicts, NEW keyed \in BOOLEAN,
             call[c] = None, Insert(c, given, keyed)
      PROVE  Failing'
  <2>1. delivery'[c].status = "pending" /\ \A x \in Calls : x # c => delivery'[x] = delivery[x]
    BY <1>4, InsertIs DEF Base
  <2> QED
    BY <1>2, <2>1 DEF Failing
<1>5. ASSUME NEW c \in Calls, Retry(c) PROVE Failing'
  <2>1. PICK d \in Calls, given \in Dicts : Retried(c, d, given)
    BY <1>5, RetryIs DEF Base
  <2>2. /\ delivery[d] # None /\ delivery[d].status = "failed"
        /\ \A x \in Calls : x # d => delivery'[x] = delivery[x]
    BY <2>1 DEF Retried
  <2>3. call[d].code # "error"
    BY <2>2 DEF Failing
  <2> QED
    BY <1>2, <2>2, <2>3 DEF Failing
<1>6. ASSUME NEW c \in Calls, Finish(c) PROVE Failing'
  <2> DEFINE d == call[c].target
  <2>1. /\ call[c] # None /\ call[c].code = "sending" /\ d \in Calls /\ delivery[d] # None
        /\ \A x \in Calls : x # d => delivery'[x] = delivery[x]
    BY <1>6, FinishIs DEF Base
  <2>2. call[d].code # "error"
    BY <2>1 DEF Sendable
  <2> HIDE DEF d
  <2> QED
    BY <1>2, <2>1, <2>2 DEF Failing
<1>7. CASE Restart
  <2>1. UNCHANGED delivery
    BY <1>7, RestartIs DEF Base
  <2> QED
    BY <1>2, <2>1 DEF Failing
<1>8. CASE UNCHANGED vars
  BY <1>8 DEF vars, Failing
<1> QED
  BY <1>3, <1>4, <1>5, <1>6, <1>7, <1>8, StepKinds

\* Every step sends for the process that runs only, and to rows that may be sent.
LEMMA SendableStep ==
    ASSUME Base, Failing, Sendable, [Next]_vars
    PROVE  Sendable'
<1> DEFINE Good(c) ==
              /\ call'[c].code = "sending" => call'[c].life = restarts'
              /\ call'[call'[c].target].code # "error"
              /\ call'[c].target # c =>
                    NamesIn(call'[c].headers) \subseteq
                        redacted_header_names(delivery'[call'[c].target].headers)
<1>1. SUFFICES ASSUME NEW c \in Calls, call'[c] # None, call'[c].code \in {"sending", "sent"}
               PROVE  Good(c)
  BY DEF Sendable
<1>2. CASE call[c] # None
  <2>1. /\ call[c].code \in {"sending", "sent"}
        /\ call'[c].code = "sending" => call[c].code = "sending"
        /\ call'[c].target = call[c].target /\ call'[c].headers = call[c].headers
        /\ call'[c].life = call[c].life
    BY <1>1, <1>2, Kept
  <2>2. /\ call[c].target \in Calls /\ delivery[call[c].target] # None
        /\ call[call[c].target] # None
    BY <1>2, CallParts DEF Base, Typed, CallsHaveRows, RowsFollow
  <2>3. /\ call[call[c].target].code # "error" => call'[call[c].target].code # "error"
        /\ delivery'[call[c].target].headers = delivery[call[c].target].headers
    BY <2>2, Kept
  <2>4. call'[c].code = "sending" => restarts' = restarts
    <3>1. ~Restart \/ call'[c].code # "sending"
      BY <1>2, RestartIs DEF Base
    <3>2. \A e \in Calls : Finish(e) => restarts' = restarts
      BY DEF Finish
    <3>3. \A e \in Calls : Retry(e) => restarts' = restarts
      BY DEF Retry
    <3>4. UNCHANGED vars => restarts' = restarts
      BY DEF vars
    <3> QED
      BY <3>1, <3>2, <3>3, <3>4, StepKinds
  <2> QED
    BY <1>2, <2>1, <2>3, <2>4 DEF Sendable
<1>3. CASE call[c] = None
  <2>1. ASSUME NEW e \in Calls, NEW given \in Dicts, call[e] = None, Replay(e, given)
        PROVE  FALSE
    BY <1>1, <1>3, <2>1, ReplayIs DEF Base
  <2>2. ASSUME NEW e \in Calls, NEW given \in Dicts, NEW keyed \in BOOLEAN,
               call[e] = None, Insert(e, given, keyed), UNCHANGED <<settings, restarts>>
        PROVE  Good(c)
    <3>1. /\ \A x \in Calls : x # e => call'[x] = call[x]
          /\ call'[e].target = e /\ call'[e].life = restarts
      BY <2>2, InsertIs DEF Base
    <3> QED
      BY <1>1, <1>3, <2>2, <3>1
  <2>3. ASSUME NEW e \in Calls, Retry(e)
        PROVE  Good(c)
    <3>1. PICK d \in Calls, given \in Dicts : Retried(e, d, given)
      BY <2>3, RetryIs DEF Base
    <3>2. /\ \A x \in Calls : x # e => call'[x] = call[x]
          /\ d # e /\ delivery[d] # None /\ delivery[d].status = "failed"
          /\ call'[e].target = d /\ call'[e].life = restarts /\ restarts' = restarts
          /\ call'[e].headers = given
          /\ call'[e].code \in {"invalid_headers", "unavailable", "sending"}
          /\ call'[e].code = "sending" =>
                NamesIn(given) \subseteq redacted_header_names(delivery[d].headers)
          /\ delivery'[d].headers = delivery[d].headers
      BY <3>1 DEF Retried
    <3>3. e = c
      BY <1>1, <1>3, <3>2
    <3>4. call[d].code # "error"
      BY <3>2 DEF Failing
    <3>5. call'[d].code # "error"
      BY <3>2, <3>4
    <3> QED
      BY <1>1, <3>2, <3>3, <3>5
  <2>4. ASSUME NEW e \in Calls, Finish(e)
        PROVE  FALSE
    BY <1>1, <1>3, <2>4, FinishIs DEF Base
  <2>5. ~Restart
    BY <1>1, <1>3, RestartIs DEF Base
  <2>6. ~UNCHANGED vars
    BY <1>1, <1>3 DEF vars
  <2> HIDE DEF Good
  <2> QED
    BY <2>1, <2>2, <2>3, <2>4, <2>5, <2>6, StepKinds
<1> QED
  BY <1>2, <1>3


\* If no value is missing, the row's markers stand for sensitive values.
LEMMA MarkersAreSensitive ==
    ASSUME NEW H \in Dicts, NEW sensitive,
           Missing(redact_headers(H, sensitive), sensitive_values(H, sensitive)) = {}
    PROVE  LET marked == redacted_header_names(redact_headers(H, sensitive))
           IN  /\ marked \subseteq sensitive
               /\ marked \subseteq DOMAIN sensitive_values(H, sensitive)
<1> DEFINE o == sensitive_values(H, sensitive)
           marked == redacted_header_names(redact_headers(H, sensitive))
<1>1. \A n \in DOMAIN o : n \in sensitive
  BY KeptValues
<1>2. marked \subseteq DOMAIN o
  BY DEF Missing
<1> HIDE DEF o, marked
<1> QED
  BY <1>1, <1>2 DEF o, marked

\* Every step keeps a value for each marker, for as long as the process lives.
LEMMA ReadyStep ==
    ASSUME Base, Ready, [Next]_vars
    PROVE  Ready'
<1> DEFINE marked(d) == redacted_header_names(delivery[d].headers)
           Good(d) == /\ redacted_header_names(delivery'[d].headers) \subseteq call'[d].settings.sensitive
                      /\ call'[d].life = restarts' =>
                            \/ redacted_header_names(delivery'[d].headers) \subseteq DOMAIN memory'[d]
                            \/ Crowded(d)'
<1>1. ASSUME NEW d \in Calls, delivery[d] # None, call'[d].code # "error",
             call[d].life = restarts /\ call'[d].life = restarts' =>
                /\ DOMAIN memory[d] \subseteq DOMAIN memory'[d] \/ Crowded(d)'
                /\ Crowded(d) => Crowded(d)',
             call'[d].life = restarts' => call[d].life = restarts
      PROVE  Good(d)
  <2>1. call[d] # None
    BY <1>1 DEF Base, RowsFollow
  <2>2. /\ call[d].code # "error" /\ call'[d].settings = call[d].settings
        /\ delivery'[d].headers = delivery[d].headers
    BY <1>1, <2>1, Kept
  <2> QED
    BY <1>1, <2>2 DEF Ready
<1>2. ASSUME NEW d \in Calls, delivery[d] # None
      PROVE  call'[d].life = call[d].life
  BY <1>2, Kept DEF Base, RowsFollow
<1>3. ASSUME NEW c \in Calls, NEW given \in Dicts, Replay(c, given),
             UNCHANGED <<settings, restarts>>
      PROVE  Ready'
  <2>1. UNCHANGED <<memory, puts, delivery>>
    BY <1>3, ReplayIs DEF Base
  <2>2. \A d : Crowded(d)' = Crowded(d)
    BY <2>1, NoPut DEF Base
  <2>3. \A d \in Calls : delivery'[d] # None /\ call'[d].code # "error" => Good(d)
    BY <1>1, <1>2, <1>3, <2>1, <2>2
  <2> QED
    BY <2>3 DEF Ready
<1>4. ASSUME NEW c \in Calls, NEW given \in Dicts, NEW keyed \in BOOLEAN, call[c] = None,
             Insert(c, given, keyed), UNCHANGED <<settings, restarts>>
      PROVE  Ready'
  <2> DEFINE stored    == redact_headers(given, settings.sensitive)
             originals == sensitive_values(given, settings.sensitive)
  <2>1. /\ call'[c].code = IF Missing(stored, originals) = {} THEN "sending" ELSE "error"
        /\ call'[c].life = restarts /\ call'[c].settings = settings
        /\ delivery'[c].headers = stored /\ memory'[c] = originals
        /\ \A x \in Calls : x # c => delivery'[x] = delivery[x]
        /\ PutFor(c)
    BY <1>4, InsertIs DEF Base
  <2>2. call'[c].code # "error" => Missing(stored, originals) = {}
    BY <2>1
  <2>3. Missing(stored, originals) = {} =>
           /\ redacted_header_names(stored) \subseteq settings.sensitive
           /\ redacted_header_names(stored) \subseteq DOMAIN originals
    BY MarkersAreSensitive
  <2> HIDE DEF stored, originals
  <2>4. call'[c].code # "error" => Good(c)
    BY <2>1, <2>2, <2>3
  <2>5. \A d \in Calls : d # c /\ delivery'[d] # None /\ call'[d].code # "error" => Good(d)
    BY <1>1, <1>2, <1>4, <2>1 DEF PutFor
  <2> QED
    BY <2>4, <2>5 DEF Ready
<1>5. ASSUME NEW c \in Calls, Retry(c) PROVE Ready'
  <2>1. PICK e \in Calls, given \in Dicts : Retried(c, e, given)
    BY <1>5, RetryIs DEF Base
  <2>2. /\ UNCHANGED <<restarts, memory, puts>> /\ delivery[e] # None
        /\ \A x \in Calls : x # e => delivery'[x] = delivery[x]
    BY <2>1 DEF Retried
  <2>3. \A d : Crowded(d)' = Crowded(d)
    BY <2>2, NoPut DEF Base
  <2>4. \A d \in Calls : delivery'[d] # None /\ call'[d].code # "error" => Good(d)
    BY <1>1, <1>2, <2>2, <2>3
  <2> QED
    BY <2>4 DEF Ready
<1>6. ASSUME NEW c \in Calls, Finish(c) PROVE Ready'
  <2> DEFINE e == call[c].target
  <2>1. /\ call[c] # None /\ e \in Calls /\ delivery[e] # None /\ restarts' = restarts
        /\ \A x \in Calls : x # e => delivery'[x] = delivery[x]
        /\ PutFor(e)
        /\ e = c => memory'[e] = memory[e]
        /\ e # c => memory'[e] = Merge(memory[e], Lowered(call[c].headers))
    BY <1>6, FinishIs DEF Base
  <2>2. DOMAIN memory[e] \subseteq DOMAIN memory'[e]
    <3>1. CASE e = c
      BY <2>1, <3>1
    <3>2. CASE e # c
      <4>1. memory[e] \in Lowering /\ Lowered(call[c].headers) \in Lowering
        BY <2>1, LoweredIs DEF Base, Typed
      <4> HIDE DEF e
      <4>2. DOMAIN Merge(memory[e], Lowered(call[c].headers)) =
               DOMAIN Lowered(call[c].headers) \cup DOMAIN memory[e]
        BY <4>1, MergeIs
      <4> QED
        BY <2>1, <3>2, <4>2
    <3> QED
      BY <3>1, <3>2
  <2> HIDE DEF e
  <2>3. \A d \in Calls : delivery'[d] # None /\ call'[d].code # "error" => Good(d)
    BY <1>1, <1>2, <2>1, <2>2 DEF PutFor
  <2> QED
    BY <2>3 DEF Ready
<1>7. CASE Restart
  <2>1. UNCHANGED delivery /\ restarts' = restarts + 1
    BY <1>7, RestartIs DEF Base
  <2>2. ASSUME NEW d \in Calls, delivery[d] # None PROVE call'[d].life # restarts'
    <3>1. call[d] # None /\ call[d].life <= restarts /\ call[d].life \in Nat /\ restarts \in Nat
      BY <2>2, CallParts, RestartBound DEF Base, RowsFollow, CallsHaveRows, Typed
    <3>2. call[d].life # restarts + 1
      BY <3>1
    <3> QED
      BY <1>2, <2>1, <2>2, <3>2
  <2>3. \A d \in Calls : delivery'[d] # None /\ call'[d].code # "error" => Good(d)
    BY <1>1, <2>1, <2>2
  <2> QED
    BY <2>3 DEF Ready
<1>8. CASE UNCHANGED vars
  BY <1>8 DEF vars, Ready, Crowded, EverPut
<1> QED
  BY <1>3, <1>4, <1>5, <1>6, <1>7, <1>8, StepKinds

\* Every step keeps the values in memory accounted for.
LEMMA TracedStep ==
    ASSUME Base, Sendable, Traced, [Next]_vars
    PROVE  Traced'
<1> DEFINE Good(d, n) ==
              /\ Remembered(d, n)' # {} => n \in DOMAIN memory'[d] \/ Crowded(d)'
              /\ n \in DOMAIN memory'[d] =>
                    IF Remembered(d, n)' # {}
                    THEN \E e \in Remembered(d, n)' :
                            Lowered(call'[e].headers)[n] = memory'[d][n]
                    ELSE /\ delivery'[d] # None /\ call'[d].life = restarts'
                         /\ memory'[d][n] = Lowered(Readable(call'[d].headers))[n]
<1>1. SUFFICES ASSUME NEW d \in Calls, NEW n \in Names
               PROVE  Good(d, n)
  BY DEF Traced
<1>2. \A e \in Remembered(d, n) : e \in Calls /\ call'[e].headers = call[e].headers
  BY Kept DEF Remembered
<1>3. delivery[d] # None => /\ delivery'[d] # None /\ call'[d].life = call[d].life
                           /\ call'[d].headers = call[d].headers
  BY Kept DEF Base, RowsFollow
<1>4. /\ Remembered(d, n) # {} => n \in DOMAIN memory[d] \/ Crowded(d)
      /\ n \in DOMAIN memory[d] =>
            IF Remembered(d, n) # {}
            THEN \E e \in Remembered(d, n) : Lowered(call[e].headers)[n] = memory[d][n]
            ELSE /\ delivery[d] # None /\ call[d].life = restarts
                 /\ memory[d][n] = Lowered(Readable(call[d].headers))[n]
  BY <1>1 DEF Traced
<1>5. ASSUME restarts' = restarts, Remembered(d, n)' = Remembered(d, n),
             memory'[d] = memory[d] \/ (memory'[d] = NoValues /\ Crowded(d)'),
             Crowded(d) => Crowded(d)'
      PROVE  Good(d, n)
  <2>1. DOMAIN NoValues = {}
    BY EmptyIs
  <2>2. CASE memory'[d] = memory[d]
    BY <1>2, <1>3, <1>4, <1>5, <2>2
  <2>3. CASE memory'[d] = NoValues /\ Crowded(d)'
    BY <2>1, <2>3
  <2> QED
    BY <1>5, <2>2, <2>3
<1>6. ASSUME NEW c \in Calls, NEW given \in Dicts, call[c] = None, Replay(c, given),
             UNCHANGED <<settings, restarts>>
      PROVE  Good(d, n)
  <2>1. /\ UNCHANGED <<memory, puts>> /\ call'[c].code # "sent"
        /\ \A x \in Calls : x # c => call'[x] = call[x]
    BY <1>6, ReplayIs DEF Base
  <2>3. Crowded(d)' = Crowded(d)
    BY <2>1, NoPut DEF Base
  <2>2. Remembered(d, n)' = Remembered(d, n)
    BY <1>6, <2>1, RememberedStays
  <2> HIDE DEF Good
  <2> QED
    BY <1>5, <1>6, <2>1, <2>2, <2>3
<1>7. ASSUME NEW c \in Calls, NEW given \in Dicts, NEW keyed \in BOOLEAN, call[c] = None,
             Insert(c, given, keyed), UNCHANGED <<settings, restarts>>
      PROVE  Good(d, n)
  <2>1. /\ \A x \in Calls : x # c => call'[x] = call[x]
        /\ PutFor(c)
        /\ call'[c].code # "sent" /\ call'[c].headers = given /\ call'[c].life = restarts
        /\ delivery'[c] # None
        /\ memory'[c] = sensitive_values(given, settings.sensitive)
    BY <1>7, InsertIs DEF Base
  <2>2. Remembered(d, n)' = Remembered(d, n)
    BY <1>7, <2>1, RememberedStays
  <2>3. CASE d # c
    <3> HIDE DEF Good
    <3> QED
      BY <1>5, <1>7, <2>1, <2>2, <2>3 DEF PutFor
  <2>4. CASE d = c
    <3>1. Remembered(d, n) = {}
      BY <1>7, <2>4, NoNewRow DEF Remembered
    <3>2. n \in DOMAIN memory'[c] => memory'[c][n] = Lowered(Readable(given))[n]
      BY <2>1, KeptValues
    <3> QED
      BY <1>7, <2>1, <2>2, <2>4, <3>1, <3>2
  <2> QED
    BY <2>3, <2>4
<1>8. ASSUME NEW c \in Calls, Retry(c) PROVE Good(d, n)
  <2>1. PICK e \in Calls, given \in Dicts : Retried(c, e, given)
    BY <1>8, RetryIs DEF Base
  <2>2. /\ call[c] = None /\ UNCHANGED <<restarts, memory, puts>> /\ call'[c].code # "sent"
        /\ \A x \in Calls : x # c => call'[x] = call[x]
    BY <2>1 DEF Retried
  <2>4. Crowded(d)' = Crowded(d)
    BY <2>2, NoPut DEF Base
  <2>3. Remembered(d, n)' = Remembered(d, n)
    BY <2>2, RememberedStays
  <2> HIDE DEF Good
  <2> QED
    BY <1>5, <2>2, <2>3, <2>4
<1>9. ASSUME NEW c \in Calls, Finish(c) PROVE Good(d, n)
  <2> DEFINE e == call[c].target
             new == Lowered(call[c].headers)
  <2>1. /\ call[c] # None /\ call[c].code = "sending" /\ e \in Calls /\ restarts' = restarts
        /\ \A x \in Calls : x # c => call'[x] = call[x]
        /\ call'[c] # None /\ call'[c].target = e /\ call'[c].headers = call[c].headers
        /\ call'[c].code = "sent" /\ call'[c].life = call[c].life
        /\ PutFor(e)
        /\ e = c => memory'[e] = memory[e]
        /\ e # c => memory'[e] = Merge(memory[e], new)
    BY <1>9, FinishIs DEF Base
  <2>2. call[c].life = restarts /\ call[c].headers \in Dicts
    BY <2>1 DEF Sendable, Base, Typed
  <2>3. new \in [NamesIn(call[c].headers) -> Value] /\ new \in Lowering /\ memory[d] \in Lowering
    BY <2>2, LoweredIs DEF Base, Typed
  <2> HIDE DEF e
  <2>4. Remembered(d, n)' = IF e # c /\ d = e /\ n \in NamesIn(call[c].headers)
                            THEN Remembered(d, n) \cup {c} ELSE Remembered(d, n)
    <3>1. ASSUME NEW x \in Calls, x # c
          PROVE  x \in Remembered(d, n)' <=> x \in Remembered(d, n)
      BY <2>1, <3>1 DEF Remembered
    <3>2. c \notin Remembered(d, n)
      BY <2>1 DEF Remembered
    <3>3. c \in Remembered(d, n)' <=> e # c /\ d = e /\ n \in NamesIn(call[c].headers)
      BY <2>1, <2>2 DEF Remembered
    <3>4. Remembered(d, n)' \subseteq Calls /\ Remembered(d, n) \subseteq Calls
      BY DEF Remembered
    <3> QED
      BY <3>1, <3>2, <3>3, <3>4
  <2>5. CASE d # e \/ e = c
    <3>1. /\ Remembered(d, n)' = Remembered(d, n)
          /\ memory'[d] = memory[d] \/ (memory'[d] = NoValues /\ Crowded(d)')
          /\ Crowded(d) => Crowded(d)'
      BY <2>1, <2>4, <2>5 DEF PutFor
    <3> HIDE DEF Good
    <3> QED
      BY <1>5, <2>1, <3>1
  <2>6. CASE d = e /\ e # c
    <3>1. /\ DOMAIN memory'[d] = NamesIn(call[c].headers) \cup DOMAIN memory[d]
          /\ n \in NamesIn(call[c].headers) => memory'[d][n] = new[n]
          /\ n \in DOMAIN memory[d] \ NamesIn(call[c].headers) => memory'[d][n] = memory[d][n]
      <4>1. memory'[d] = Merge(memory[d], new) /\ DOMAIN new = NamesIn(call[c].headers)
        BY <2>1, <2>3, <2>6
      <4>2. new \in Lowering /\ memory[d] \in Lowering
        BY <2>3
      <4> HIDE DEF new
      <4>3. /\ DOMAIN Merge(memory[d], new) = DOMAIN new \cup DOMAIN memory[d]
            /\ \A k \in DOMAIN new : Merge(memory[d], new)[k] = new[k]
            /\ \A k \in DOMAIN memory[d] \ DOMAIN new : Merge(memory[d], new)[k] = memory[d][k]
        BY <4>2, MergeIs
      <4> QED
        BY <4>1, <4>3
    <3>2. CASE n \in NamesIn(call[c].headers)
      <4>1. c \in Remembered(d, n)' /\ n \in DOMAIN memory'[d]
        BY <2>4, <2>6, <3>1, <3>2
      <4>2. Lowered(call'[c].headers)[n] = memory'[d][n]
        BY <2>1, <3>1, <3>2
      <4> QED
        BY <4>1, <4>2
    <3>3. CASE n \notin NamesIn(call[c].headers)
      <4>1. Remembered(d, n)' = Remembered(d, n)
        BY <2>4, <3>3
      <4>2. /\ n \in DOMAIN memory'[d] <=> n \in DOMAIN memory[d]
            /\ n \in DOMAIN memory[d] => memory'[d][n] = memory[d][n]
        BY <3>1, <3>3
      <4>3. Crowded(d) => Crowded(d)'
        BY <2>1 DEF PutFor
      <4> QED
        BY <1>2, <1>3, <1>4, <2>1, <4>1, <4>2, <4>3
    <3> QED
      BY <3>2, <3>3
  <2> QED
    BY <2>5, <2>6
<1>10. CASE Restart
  <2>1. /\ DOMAIN memory'[d] = {} /\ restarts' = restarts + 1
        /\ \A x \in Calls : /\ call'[x] # None <=> call[x] # None
                            /\ call[x] # None => call'[x].life = call[x].life
    BY <1>10, RestartIs DEF Base
  <2>2. ASSUME NEW x \in Calls, call'[x] # None PROVE call'[x].life # restarts'
    <3>1. call[x] # None /\ call[x].life <= restarts /\ call[x].life \in Nat /\ restarts \in Nat
      BY <2>1, <2>2, CallParts, RestartBound DEF Base, CallsHaveRows, Typed
    <3>2. call[x].life # restarts + 1
      BY <3>1
    <3> QED
      BY <2>1, <3>1, <3>2
  <2>3. Remembered(d, n)' = {}
    BY <2>2 DEF Remembered
  <2> QED
    BY <2>1, <2>3
<1>11. CASE UNCHANGED vars
  <2>1. /\ Remembered(d, n)' = Remembered(d, n) /\ restarts' = restarts
        /\ memory'[d] = memory[d] /\ Crowded(d)' = Crowded(d)
    BY <1>11 DEF vars, Remembered, Crowded, EverPut
  <2> HIDE DEF Good
  <2> QED
    BY <1>5, <2>1
<1> HIDE DEF Good
<1> QED
  BY <1>6, <1>7, <1>8, <1>9, <1>10, <1>11, StepKinds


\* The invariant behind the values on the wire.
Accounted == Failing /\ Sendable /\ Ready /\ Traced

\* Accounted is an invariant.
LEMMA AlwaysTraced == Spec => [](Base /\ Accounted)
<1>1. Init => Base /\ Accounted
  <2> SUFFICES ASSUME Init PROVE Base /\ Accounted
    OBVIOUS
  <2>1. /\ \A c \in Calls : call[c] = None /\ delivery[c] = None /\ DOMAIN memory[c] = {}
        /\ \A d \in Calls, n \in Names : Remembered(d, n) = {}
    BY DEF Init, NoValues, Remembered
  <2> QED
    BY <2>1, BaseInit DEF Accounted, Failing, Sendable, Ready, Traced
<1>2. (Base /\ Accounted) /\ [Next]_vars => (Base /\ Accounted)'
  BY BaseStep, FailingStep, SendableStep, ReadyStep, TracedStep DEF Accounted
<1> QED
  BY <1>1, <1>2, PTL DEF Spec

\* A retry is refused for a missing credential only if the cache has taken in so many
\* other deliveries that it may have dropped it, or the process that was given it is
\* gone and nobody has re-supplied it since.
THEOREM RefusalsHaveCause == Spec => RefusedOnlyIfLost
<1> DEFINE Refused(c) == call[c] = None /\ call'[c] # None /\ call'[c].code = "unavailable"
           Lost(c) == LET d == call'[c].target
                      IN  \/ Crowded(d)
                          \/ /\ call[d].life < restarts
                             /\ \E n \in redacted_header_names(delivery[d].headers)
                                          \ NamesIn(call'[c].headers) :
                                   Remembered(d, n) = {}
<1>1. ASSUME Base, Accounted, [Next]_vars, NEW c \in Calls, Refused(c)
      PROVE  Lost(c)
  <2>1. ASSUME NEW e \in Calls, NEW given \in Dicts, call[e] = None, Replay(e, given)
        PROVE  FALSE
    BY <1>1, <2>1, ReplayIs DEF Base
  <2>2. ASSUME NEW e \in Calls, NEW given \in Dicts, NEW keyed \in BOOLEAN,
               call[e] = None, Insert(e, given, keyed)
        PROVE  FALSE
    BY <1>1, <2>2, InsertIs DEF Base
  <2>3. ASSUME NEW e \in Calls, Retry(e)
        PROVE  Lost(c)
    <3>1. PICK d \in Calls, given \in Dicts : Retried(e, d, given)
      BY <1>1, <2>3, RetryIs DEF Base
    <3> DEFINE stored == delivery[d].headers
               originals == Merge(memory[d], Lowered(given))
    <3>2. /\ \A x \in Calls : x # e => call'[x] = call[x]
          /\ call'[e].target = d /\ delivery[d] # None /\ delivery[d].status = "failed"
          /\ stored \in Dicts /\ call'[e].headers = given
          /\ call'[e].code = "unavailable" => Missing(stored, originals) # {}
      BY <3>1 DEF Retried
    <3>3. e = c
      BY <1>1, <3>2
    <3>4. PICK n \in redacted_header_names(stored) : n \notin DOMAIN originals
      <4>1. Missing(stored, originals) # {}
        BY <1>1, <3>2, <3>3
      <4> HIDE DEF stored, originals
      <4> QED
        BY <4>1 DEF Missing
    <3>5. n \notin DOMAIN memory[d] /\ n \notin NamesIn(given)
      <4>1. /\ memory[d] \in Lowering /\ Lowered(given) \in Lowering
            /\ DOMAIN Lowered(given) = NamesIn(given)
        BY <1>1, LoweredIs DEF Base, Typed
      <4>2. DOMAIN originals = DOMAIN Lowered(given) \cup DOMAIN memory[d]
        BY <4>1, MergeIs
      <4> HIDE DEF originals
      <4> QED
        BY <3>4, <4>1, <4>2
    <3>6. n \in Names
      BY <3>2, MarkedAreNames
    <3>7. Remembered(d, n) = {} \/ Crowded(d)
      BY <1>1, <3>5, <3>6 DEF Accounted, Traced
    <3>8. call[d] # None /\ call[d].code # "error"
      BY <1>1, <3>2 DEF Accounted, Failing, Base, RowsFollow
    <3>9. call[d].life # restarts \/ Crowded(d)
      BY <1>1, <3>2, <3>5, <3>8 DEF Accounted, Ready
    <3>10. call[d].life < restarts \/ Crowded(d)
      <4>1. call[d].life \in Int /\ restarts \in Int /\ call[d].life <= restarts
        BY <1>1, <3>8, CallParts, RestartBound DEF Base, Typed, CallsHaveRows
      <4> QED
        BY <3>9, <4>1
    <3> QED
      BY <3>2, <3>3, <3>5, <3>7, <3>10
  <2>4. ASSUME NEW e \in Calls, Finish(e)
        PROVE  FALSE
    BY <1>1, <2>4, FinishIs DEF Base
  <2>5. ~Restart
    BY <1>1, RestartIs DEF Base
  <2>6. ~UNCHANGED vars
    BY <1>1 DEF vars
  <2> HIDE DEF Lost
  <2> QED
    BY <1>1, <2>1, <2>2, <2>3, <2>4, <2>5, <2>6, StepKinds
<1>2. (Base /\ Accounted) /\ [Next]_vars => [\A c \in Calls : Refused(c) => Lost(c)]_vars
  <2> HIDE DEF Refused, Lost
  <2> QED
    BY <1>1
<1> QED
  BY <1>2, AlwaysTraced, PTL DEF Spec, RefusedOnlyIfLost


\* Faithful, with the value that every name must have spelled out.
Right(c, d, n, v) ==
    IF n \in Over(call[c].settings) \/ n \notin NamesIn(call[d].headers)
    THEN v = "own"
    ELSE IF c # d /\ n \in NamesIn(call[c].headers)
    THEN v = Lowered(call[c].headers)[n]
    ELSE IF Remembered(d, n) # {}
    THEN \E e \in Remembered(d, n) : v = Lowered(call[e].headers)[n]
    ELSE /\ v = Lowered(Readable(call[d].headers))[n]
         /\ n \in redacted_header_names(delivery[d].headers) => call[d].life = restarts

\* The wire of a step whose every header is right is faithful.
LEMMA RightIsFaithful ==
    ASSUME NEW c, NEW d, NEW W, attempt'[c].delivery = d, attempt'[c].wire = W,
           \A g, h \in W : NameOf(g) = NameOf(h) => g = h,
           NamesIn(W) = NamesIn(call'[d].headers) \cup NamesIn(Before) \cup Over(call'[c].settings),
           \A h \in W : Right(c, d, NameOf(h), h.value)'
    PROVE  Faithful(c)'
<1>1. /\ NamesIn(After \cup SignedBy(call'[c].settings)) = Over(call'[c].settings)
      /\ NamesIn(W) = NamesIn(call'[d].headers \cup Before) \cup Over(call'[c].settings)
  BY DEF NamesIn, Over
<1>2. \A n : \A e \in Remembered(d, n)' : n \in NamesIn(call'[e].headers)
  BY DEF Remembered
<1>3. ASSUME NEW h \in W
      PROVE  LET n == NameOf(h)
                 v == h.value
             IN  IF n \in Over(call'[c].settings) \/ n \notin NamesIn(call'[d].headers)
                 THEN v = "own"
                 ELSE IF c # d /\ n \in NamesIn(call'[c].headers)
                 THEN Supplied(c, n, v)'
                 ELSE IF Remembered(d, n)' # {}
                 THEN \E e \in Remembered(d, n)' : Supplied(e, n, v)'
                 ELSE /\ v = Given(d, n)'
                      /\ n \in redacted_header_names(delivery'[d].headers)
                            => call'[d].life = restarts'
  <2>1. Right(c, d, NameOf(h), h.value)'
    OBVIOUS
  <2> QED
    BY <1>2, <2>1 DEF Right, Supplied, Given, Readable
<1>4. ASSUME NEW h \in attempt'[c].wire
      PROVE  LET n == NameOf(h)
                 v == h.value
             IN  IF n \in NamesIn(After \cup SignedBy(call'[c].settings))
                    \/ n \notin NamesIn(call'[d].headers)
                 THEN v = "own"
                 ELSE IF c # d /\ n \in NamesIn(call'[c].headers)
                 THEN Supplied(c, n, v)'
                 ELSE IF Remembered(d, n)' # {}
                 THEN \E e \in Remembered(d, n)' : Supplied(e, n, v)'
                 ELSE /\ v = Given(d, n)'
                      /\ n \in redacted_header_names(delivery'[d].headers)
                            => call'[d].life = restarts'
  <2>1. h \in W
    OBVIOUS
  <2> QED
    BY <1>1, <1>3, <2>1
<1>5. /\ \A g, h \in attempt'[c].wire : NameOf(g) = NameOf(h) => g = h
      /\ NamesIn(attempt'[c].wire) = NamesIn(call'[d].headers \cup Before)
                                       \cup NamesIn(After \cup SignedBy(call'[c].settings))
  BY <1>1
<1> QED
  BY <1>4, <1>5 DEF Faithful

\* The first attempt.
LEMMA CreationFaithful ==
    ASSUME Base, NEW c \in Calls, NEW given \in Dicts, NEW keyed \in BOOLEAN,
           call[c] = None, Insert(c, given, keyed), UNCHANGED <<settings, restarts>>,
           attempt'[c] # attempt[c]
    PROVE  Faithful(c)'
<1> DEFINE stored    == redact_headers(given, settings.sensitive)
           originals == sensitive_values(given, settings.sensitive)
           W         == Outgoing(stored, originals, settings)
<1>1. /\ \A x \in Calls : x # c => call'[x] = call[x]
      /\ call'[c].headers = given /\ call'[c].life = restarts /\ call'[c].code # "sent"
      /\ call'[c].settings = settings /\ settings \in Settings
      /\ attempt'[c] = Attempt(c, stored, originals)
      /\ Missing(stored, originals) = {}
  BY InsertIs DEF Base, Typed
<1>2. /\ stored \in Dicts /\ originals \in Lowering /\ NamesIn(stored) = NamesIn(given)
      /\ \A n \in DOMAIN originals : originals[n] = Lowered(Readable(given))[n]
  BY RedactedIsDict, KeptValues
<1>3. /\ redacted_header_names(stored) \subseteq settings.sensitive
      /\ redacted_header_names(stored) \subseteq DOMAIN originals
  BY <1>1, MarkersAreSensitive
<1>4. \A n \in NamesIn(given) :
         IF n \in redacted_header_names(stored) THEN Lowered(stored)[n] = REDACTED
         ELSE /\ Lowered(stored)[n] = Lowered(Readable(given))[n]
              /\ Lowered(stored)[n] # REDACTED
  BY <1>3, MarkedNames
<1> HIDE DEF stored, originals
<1>5. attempt'[c].delivery = c /\ attempt'[c].wire = W
  BY <1>1, <1>2, AttemptIs
<1>6. /\ \A g, h \in W : NameOf(g) = NameOf(h) => g = h
      /\ NamesIn(W) = NamesIn(stored) \cup NamesIn(Before) \cup Over(settings)
      /\ \A h \in W :
            h.value = IF NameOf(h) \in Over(settings) \/ NameOf(h) \notin NamesIn(stored) THEN "own"
                      ELSE IF Lowered(stored)[NameOf(h)] = REDACTED THEN originals[NameOf(h)]
                      ELSE Lowered(stored)[NameOf(h)]
  BY <1>1, <1>2, WireIs
<1> HIDE DEF W
<1>7. \A n : Remembered(c, n)' = {}
  BY <1>1, NoNewRow DEF Remembered
<1>8. ASSUME NEW h \in W PROVE Right(c, c, NameOf(h), h.value)'
  <2> DEFINE n == NameOf(h)
  <2>1. CASE n \in Over(settings) \/ n \notin NamesIn(given)
    BY <1>1, <1>2, <1>6, <2>1 DEF Right
  <2>2. CASE n \notin Over(settings) /\ n \in NamesIn(given)
    <3>1. h.value = IF Lowered(stored)[n] = REDACTED THEN originals[n] ELSE Lowered(stored)[n]
      BY <1>2, <1>6, <2>2
    <3>2. h.value = Lowered(Readable(given))[n]
      BY <1>2, <1>3, <1>4, <2>2, <3>1
    <3> QED
      BY <1>1, <1>7, <2>2, <3>2 DEF Right
  <2> QED
    BY <2>1, <2>2
<1>9. NamesIn(W) = NamesIn(call'[c].headers) \cup NamesIn(Before) \cup Over(call'[c].settings)
  BY <1>1, <1>2, <1>6
<1> QED
  BY <1>5, <1>6, <1>8, <1>9, RightIsFaithful

\* A retry.
LEMMA RetryFaithful ==
    ASSUME Base, Accounted, NEW c \in Calls, Retry(c), attempt'[c] # attempt[c]
    PROVE  Faithful(c)'
<1>1. PICK d \in Calls, given \in Dicts : Retried(c, d, given)
  BY RetryIs DEF Base
<1> DEFINE stored    == delivery[d].headers
           originals == Merge(memory[d], Lowered(given))
           H         == call[d].headers
           W         == Outgoing(stored, originals, settings)
<1>2. /\ call[c] = None /\ d # c /\ delivery[d] # None /\ delivery[d].status = "failed"
      /\ stored \in Dicts /\ originals \in Lowering
      /\ \A x \in Calls : x # c => call'[x] = call[x]
      /\ call'[c].headers = given /\ call'[c].code = "sending"
      /\ call'[c].settings = settings /\ settings \in Settings
      /\ delivery'[d].headers = stored
      /\ NamesIn(given) \subseteq redacted_header_names(stored)
      /\ Missing(stored, originals) = {}
      /\ attempt'[c] = Attempt(d, stored, originals)
      /\ UNCHANGED <<settings, restarts, memory>>
  BY <1>1 DEF Retried, Base, Typed
<1>3. /\ call[d] # None /\ call[d].code # "error" /\ H \in Dicts
      /\ stored = redact_headers(H, call[d].settings.sensitive)
  BY <1>2 DEF Accounted, Failing, Base, Typed, RowsFollow
<1>4. redacted_header_names(stored) \subseteq call[d].settings.sensitive
  BY <1>2, <1>3 DEF Accounted, Ready
<1>5. /\ NamesIn(stored) = NamesIn(H)
      /\ \A n \in NamesIn(H) :
            IF n \in redacted_header_names(stored) THEN Lowered(stored)[n] = REDACTED
            ELSE /\ Lowered(stored)[n] = Lowered(Readable(H))[n]
                 /\ Lowered(stored)[n] # REDACTED
  <2>1. LET st == redact_headers(H, call[d].settings.sensitive)
        IN  redacted_header_names(st) \subseteq call[d].settings.sensitive
    BY <1>3, <1>4
  <2> HIDE DEF H
  <2>2. LET st == redact_headers(H, call[d].settings.sensitive)
        IN  /\ NamesIn(st) = NamesIn(H)
            /\ \A n \in NamesIn(H) :
                  IF n \in redacted_header_names(st) THEN Lowered(st)[n] = REDACTED
                  ELSE /\ Lowered(st)[n] = Lowered(Readable(H))[n]
                       /\ Lowered(st)[n] # REDACTED
    BY <1>3, <2>1, MarkedNames, RedactedIsDict
  <2> HIDE DEF stored
  <2> QED
    BY <1>3, <2>2
<1>6. /\ memory[d] \in Lowering /\ Lowered(given) \in [NamesIn(given) -> Value]
      /\ Lowered(given) \in Lowering
  BY LoweredIs DEF Base, Typed
<1>7. /\ DOMAIN originals = NamesIn(given) \cup DOMAIN memory[d]
      /\ \A n \in NamesIn(given) : originals[n] = Lowered(given)[n]
      /\ \A n \in DOMAIN memory[d] \ NamesIn(given) : originals[n] = memory[d][n]
  <2> DEFINE new == Lowered(given)
  <2>1. DOMAIN new = NamesIn(given) /\ new \in Lowering /\ memory[d] \in Lowering
    BY <1>6
  <2> HIDE DEF new
  <2>2. /\ DOMAIN Merge(memory[d], new) = DOMAIN new \cup DOMAIN memory[d]
        /\ \A n \in DOMAIN new : Merge(memory[d], new)[n] = new[n]
        /\ \A n \in DOMAIN memory[d] \ DOMAIN new : Merge(memory[d], new)[n] = memory[d][n]
    BY <2>1, MergeIs
  <2>3. originals = Merge(memory[d], new)
    BY DEF new
  <2> HIDE DEF originals
  <2> QED
    BY <2>1, <2>2, <2>3 DEF new
<1>8. redacted_header_names(stored) \subseteq DOMAIN originals /\ redacted_header_names(stored) \subseteq Names
  BY <1>2, MarkedAreNames DEF Missing
<1>9. /\ \A g, h \in W : NameOf(g) = NameOf(h) => g = h
      /\ NamesIn(W) = NamesIn(stored) \cup NamesIn(Before) \cup Over(settings)
      /\ \A h \in W :
            h.value = IF NameOf(h) \in Over(settings) \/ NameOf(h) \notin NamesIn(stored) THEN "own"
                      ELSE IF Lowered(stored)[NameOf(h)] = REDACTED THEN originals[NameOf(h)]
                      ELSE Lowered(stored)[NameOf(h)]
  BY <1>2, WireIs
<1>10. attempt'[c].delivery = d /\ attempt'[c].wire = W
  BY <1>2, AttemptIs
<1> HIDE DEF originals, W
<1>11. \A n : Remembered(d, n)' = Remembered(d, n)
  BY <1>2, RememberedStays
<1>12. \A n : \A e \in Remembered(d, n) :
          /\ call'[e].headers = call[e].headers
          /\ n \in NamesIn(call[e].headers)
          /\ NamesIn(call[e].headers) \subseteq redacted_header_names(stored)
  BY <1>2 DEF Remembered, Accounted, Sendable
<1>13. \A n \in Names : n \in DOMAIN memory[d] =>
          IF Remembered(d, n) # {}
          THEN \E e \in Remembered(d, n) : Lowered(call[e].headers)[n] = memory[d][n]
          ELSE /\ call[d].life = restarts
               /\ memory[d][n] = Lowered(Readable(H))[n]
  BY DEF Accounted, Traced
<1>14. call'[d].headers = H /\ call'[d].life = call[d].life /\ restarts' = restarts
  BY <1>2
<1> HIDE DEF stored, H
<1>15. ASSUME NEW h \in W PROVE Right(c, d, NameOf(h), h.value)'
  <2> DEFINE n == NameOf(h)
  <2>1. CASE n \in Over(settings) \/ n \notin NamesIn(H)
    BY <1>2, <1>5, <1>9, <1>14, <2>1 DEF Right
  <2>2. CASE n \notin Over(settings) /\ n \in NamesIn(H) /\ n \in NamesIn(given)
    <3>1. h.value = Lowered(given)[n]
      BY <1>2, <1>5, <1>7, <1>9, <2>2
    <3> QED
      BY <1>2, <1>14, <2>2, <3>1 DEF Right
  <2>3. CASE n \notin Over(settings) /\ n \in NamesIn(H) /\ n \notin NamesIn(given)
             /\ n \in redacted_header_names(stored)
    <3>1. n \in Names /\ n \in DOMAIN memory[d] /\ h.value = memory[d][n]
      BY <1>5, <1>7, <1>8, <1>9, <2>3
    <3>2. IF Remembered(d, n)' # {}
          THEN \E e \in Remembered(d, n)' : h.value = Lowered(call'[e].headers)[n]
          ELSE /\ h.value = Lowered(Readable(H))[n] /\ call[d].life = restarts
      <4>1. CASE Remembered(d, n) # {}
        <5>1. PICK e \in Remembered(d, n) : Lowered(call[e].headers)[n] = memory[d][n]
          BY <1>13, <3>1, <4>1
        <5>2. call'[e].headers = call[e].headers
          BY <1>12
        <5> QED
          BY <1>11, <3>1, <5>1, <5>2
      <4>2. CASE Remembered(d, n) = {}
        BY <1>11, <1>13, <3>1, <4>2
      <4> QED
        BY <4>1, <4>2
    <3> QED
      BY <1>2, <1>14, <2>3, <3>2 DEF Right
  <2>4. CASE n \notin Over(settings) /\ n \in NamesIn(H) /\ n \notin NamesIn(given)
             /\ n \notin redacted_header_names(stored)
    <3>1. h.value = Lowered(Readable(H))[n]
      BY <1>5, <1>9, <2>4
    <3>2. Remembered(d, n)' = {}
      BY <1>11, <1>12, <2>4
    <3>3. n \notin redacted_header_names(delivery'[d].headers)
      BY <1>2, <2>4 DEF stored
    <3> QED
      BY <1>2, <1>14, <2>4, <3>1, <3>2, <3>3 DEF Right
  <2> QED
    BY <2>1, <2>2, <2>3, <2>4
<1>16. NamesIn(W) = NamesIn(call'[d].headers) \cup NamesIn(Before) \cup Over(call'[c].settings)
  BY <1>2, <1>5, <1>9, <1>14
<1> QED
  BY <1>9, <1>10, <1>15, <1>16, RightIsFaithful

\* Every request has each name once: the service's own headers on top, the timestamp
\* and the signature among them if it is signed, and every other name with the value
\* that this retry, an earlier one in the same process, or the creation gave, in that
\* order.
THEOREM WireIsFaithful == Spec => WireFaithful
<1>1. ASSUME Base, Accounted, [Next]_vars, NEW c \in Calls, attempt'[c] # attempt[c]
      PROVE  Faithful(c)'
  <2>1. ASSUME NEW e \in Calls, NEW given \in Dicts, call[e] = None, Replay(e, given)
        PROVE  FALSE
    BY <1>1, <2>1, ReplayIs DEF Base
  <2>2. ASSUME NEW e \in Calls, NEW given \in Dicts, NEW keyed \in BOOLEAN,
               call[e] = None, Insert(e, given, keyed), UNCHANGED <<settings, restarts>>
        PROVE  Faithful(c)'
    <3>1. e = c
      BY <1>1, <2>2, InsertIs DEF Base
    <3> QED
      BY <1>1, <2>2, <3>1, CreationFaithful
  <2>3. ASSUME NEW e \in Calls, Retry(e)
        PROVE  Faithful(c)'
    <3>1. e = c
      BY <1>1, <2>3, RetryIs DEF Base, Retried
    <3> QED
      BY <1>1, <2>3, <3>1, RetryFaithful
  <2>4. ASSUME NEW e \in Calls, Finish(e)
        PROVE  FALSE
    BY <1>1, <2>4, FinishIs DEF Base
  <2>5. ~Restart
    BY <1>1, RestartIs DEF Base
  <2>6. ~UNCHANGED vars
    BY <1>1 DEF vars
  <2> QED
    BY <1>1, <2>1, <2>2, <2>3, <2>4, <2>5, <2>6, StepKinds
<1>2. (Base /\ Accounted) /\ [Next]_vars =>
         [\A c \in Calls : attempt'[c] # attempt[c] => Faithful(c)']_vars
  BY <1>1
<1> QED
  BY <1>2, AlwaysTraced, PTL DEF Spec, WireFaithful

=============================================================================
