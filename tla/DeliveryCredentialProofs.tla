--------------------- MODULE DeliveryCredentialProofs ---------------------
(***************************************************************************)
(* Where a transmitted credential comes from (CredentialsTraceable), for   *)
(* any number of workers, retries and headers, whatever their caches drop. *)
(***************************************************************************)
EXTENDS DeliveryServiceProofs

\* Who may have supplied value v of header h for delivery d: its creator, or a
\* retry whose attempt is over.
Supplied(d, h, v) ==
    \/ v = d /\ Stored(d) /\ req[d].headers[h] # "marker"
    \/ v \in Attempts(d) /\ h \in Resupplied(v) /\ attempt[v].status # "pending"

Traced(entry) ==
    \A h \in Headers :
        entry.values[h] # None => Supplied(entry.id, h, entry.values[h])

\* The source of header h in a request of call c for delivery d.
Sent(c, d, h, v) ==
    /\ v = None <=> req[d].headers[h] = "absent"
    /\ v # None => Supplied(d, h, v) \/ (v = c /\ h \in Resupplied(c))

\* A cache holds what was supplied, an outgoing request has what was supplied or
\* what its own call re-supplies, and evidence is redacted and nothing else.
CachesOK ==
    \A w \in Workers, entry \in Entry :
        (\E i \in 1..Len(cache[w]) : entry = cache[w][i]) => Traced(entry)

SendsOK ==
    \A c \in Calls : \A r \in Transmission : request[c] = r /\ r # None =>
        \A h \in Headers : Sent(c, r.delivery, h, r.from[h])

RedactedOK ==
    \A d \in Calls : Stored(d) => delivery[d].headers = redact_headers(req[d].headers)

SettledOK == \A c \in Calls : pc[c] = "finished" => attempt[c].status # "pending"

CredentialsOK == CachesOK /\ SendsOK /\ RedactedOK /\ SettledOK

-----------------------------------------------------------------------------
(* The operators of the cache *)

\* get returns the values of an entry of the id, or none.
LEMMA GetEntry ==
    ASSUME NEW s \in Seq(Entry), NEW id
    PROVE  \/ Get(s, id) = NoValues
           \/ \E j \in 1..Len(s) : s[j].id = id /\ Get(s, id) = s[j].values
<1>1. CASE id \in Ids(s)
  <2>1. PICK j \in 1..Len(s) : s[j].id = id
    BY <1>1 DEF Ids
  <2> DEFINE i == CHOOSE k \in 1..Len(s) : s[k].id = id
  <2>2. i \in 1..Len(s) /\ s[i].id = id
    BY <2>1
  <2>3. Get(s, id) = s[i].values
    BY <1>1 DEF Get
  <2> HIDE DEF i
  <2> QED
    BY <2>2, <2>3
<1>2. CASE id \notin Ids(s)
  BY <1>2 DEF Get
<1> QED
  BY <1>1, <1>2

LEMMA JoinedAt ==
    ASSUME NEW l \in Seq(Entry), NEW r \in Seq(Entry)
    PROVE  /\ l \o r \in Seq(Entry) /\ Len(l \o r) = Len(l) + Len(r)
           /\ \A k \in 1..(Len(l) + Len(r)) :
                 (l \o r)[k] = IF k <= Len(l) THEN l[k] ELSE r[k - Len(l)]
OBVIOUS

\* put makes no entry but the new one.
LEMMA PutEntries ==
    ASSUME NEW s \in Seq(Entry), NEW id \in Calls, NEW values \in Values
    PROVE  \A i \in 1..Len(Put(s, id, values)) :
               \/ Put(s, id, values)[i] = [id |-> id, values |-> values]
               \/ \E j \in 1..Len(s) : Put(s, id, values)[i] = s[j]
<1> DEFINE new == [id |-> id, values |-> values]
           r == Without(s, id)
           a == Append(r, new)
<1>1. /\ r \in Seq(Entry)
      /\ \A i \in 1..Len(r) : \E j \in 1..Len(s) : r[i] = s[j]
  <2>1. CASE id \notin Ids(s)
    BY <2>1 DEF Without
  <2>2. CASE id \in Ids(s)
    <3> DEFINE p == CHOOSE j \in 1..Len(s) : s[j].id = id
               left == SubSeq(s, 1, p - 1)
               right == SubSeq(s, p + 1, Len(s))
    <3>1. p \in 1..Len(s)
      BY <2>2 DEF Ids
    <3>2. r = left \o right
      BY <2>2 DEF Without
    <3> HIDE DEF p, r
    <3>3. /\ left \in Seq(Entry) /\ Len(left) = p - 1
          /\ \A i \in 1..(p - 1) : left[i] = s[i]
      BY <3>1
    <3>4. /\ right \in Seq(Entry) /\ Len(right) = Len(s) - p
          /\ \A i \in 1..(Len(s) - p) : right[i] = s[p + i]
      BY <3>1
    <3> HIDE DEF left, right
    <3>5. /\ r \in Seq(Entry) /\ Len(r) = Len(s) - 1
          /\ \A i \in 1..Len(r) : r[i] = IF i <= p - 1 THEN left[i] ELSE right[i - (p - 1)]
      <4>1. /\ r \in Seq(Entry) /\ Len(r) = Len(left) + Len(right)
            /\ \A i \in 1..(Len(left) + Len(right)) :
                  r[i] = IF i <= Len(left) THEN left[i] ELSE right[i - Len(left)]
        BY <3>2, <3>3, <3>4, JoinedAt
      <4>2. Len(left) = p - 1 /\ Len(left) + Len(right) = Len(s) - 1
        BY <3>1, <3>3, <3>4
      <4> QED
        BY <4>1, <4>2
    <3>6. ASSUME NEW i \in 1..Len(r) PROVE \E j \in 1..Len(s) : r[i] = s[j]
      <4>1. CASE i <= p - 1
        BY <3>1, <3>3, <3>5, <4>1
      <4>2. CASE ~(i <= p - 1)
        <5>1. i - (p - 1) \in 1..(Len(s) - p) /\ p + (i - (p - 1)) \in 1..Len(s)
          BY <3>1, <3>5, <4>2
        <5> QED
          BY <3>4, <3>5, <4>2, <5>1
      <4> QED
        BY <4>1, <4>2
    <3> QED
      BY <3>5, <3>6
  <2> QED
    BY <2>1, <2>2
<1>2. new \in Entry
  BY DEF Entry
<1> HIDE DEF r, new
<1>3. /\ a \in Seq(Entry) /\ Len(a) = Len(r) + 1
      /\ \A i \in 1..Len(a) : a[i] = new \/ \E j \in 1..Len(s) : a[i] = s[j]
  BY <1>1, <1>2
<1> HIDE DEF a
<1>4. /\ Len(Evict(a)) \in Nat
      /\ \A i \in 1..Len(Evict(a)) : \E j \in 1..Len(a) : Evict(a)[i] = a[j]
  <2>1. CASE Len(a) > MaxEntries
    <3> DEFINE k == Len(a) - MaxEntries
               e == SubSeq(a, k + 1, Len(a))
    <3>1. k \in Nat /\ k <= Len(a)
      BY <1>3, <2>1, MaxEntriesPositive
    <3>2. Evict(a) = e
      BY <2>1 DEF Evict
    <3> HIDE DEF k
    <3>3. Len(e) = Len(a) - k /\ \A i \in 1..(Len(a) - k) : e[i] = a[k + i]
      BY <1>3, <3>1
    <3>4. \A i \in 1..(Len(a) - k) : k + i \in 1..Len(a)
      BY <1>3, <3>1
    <3> HIDE DEF e
    <3>5. \A i \in 1..(Len(a) - k) : k + i \in 1..Len(a) /\ e[i] = a[k + i]
      BY <3>3, <3>4
    <3>6. Len(e) \in Nat /\ Len(e) = Len(a) - k
      BY <1>3, <3>1, <3>3
    <3>7. ASSUME NEW i \in 1..Len(e) PROVE \E j \in 1..Len(a) : e[i] = a[j]
      <4>1. i \in 1..(Len(a) - k)
        BY <3>6
      <4>2. k + i \in 1..Len(a) /\ e[i] = a[k + i]
        BY <3>5, <4>1
      <4> QED
        BY <4>2
    <3> QED
      BY <3>2, <3>6, <3>7
  <2>2. CASE ~(Len(a) > MaxEntries)
    BY <1>3, <2>2 DEF Evict
  <2> QED
    BY <2>1, <2>2
<1>5. CASE values = NoValues
  BY <1>5 DEF Put
<1>6. CASE values # NoValues
  <2>1. Put(s, id, values) = Evict(a)
    BY <1>6 DEF Put, a, r, new
  <2>2. SUFFICES ASSUME NEW i \in 1..Len(Evict(a))
                 PROVE  Evict(a)[i] = new \/ \E j \in 1..Len(s) : Evict(a)[i] = s[j]
    BY <2>1 DEF new
  <2>3. PICK j \in 1..Len(a) : Evict(a)[i] = a[j]
    BY <1>4
  <2> QED
    BY <1>3, <2>3
<1> QED
  BY <1>5, <1>6

-----------------------------------------------------------------------------
(* What was supplied stays supplied *)

LEMMA SuppliedStays ==
    ASSUME Typing, Evidence, RowsOK, [Next]_vars, NEW d \in Calls, NEW h, NEW v,
           Supplied(d, h, v)
    PROVE  Supplied(d, h, v)'
<1>1. CASE v = d /\ Stored(d) /\ req[d].headers[h] # "marker"
  <2>1. Stored(d)'
    BY <1>1, RowsStay
  <2>2. req'[d] = req[d]
    BY <1>1, CallEffect DEF RowsOK
  <2> QED
    BY <1>1, <2>1, <2>2 DEF Supplied
<1>2. CASE v \in Attempts(d) /\ h \in Resupplied(v) /\ attempt[v].status # "pending"
  <2>1. v \in Calls /\ Recorded(v) /\ attempt[v].delivery = d
    BY <1>2 DEF Attempts
  <2>2. Recorded(v)' /\ attempt'[v] = attempt[v]
    BY <1>2, <2>1, RecordsStay, NextKeeps DEF KeepsEvidence
  <2>3. req'[v] = req[v]
    BY <2>1, CallEffect DEF Evidence, AwaitOK
  <2> QED
    BY <1>2, <2>1, <2>2, <2>3 DEF Supplied, Attempts, Resupplied
<1> QED
  BY <1>1, <1>2 DEF Supplied

\* A call past its last commit has its outcome on record.
LEMMA NextSettled == Typing /\ Evidence /\ SettledOK /\ [Next]_vars => SettledOK'
<1> SUFFICES ASSUME Typing, Evidence, SettledOK, [Next]_vars,
                    NEW c \in Calls, pc'[c] = "finished"
             PROVE  attempt'[c].status # "pending"
  BY DEF SettledOK
<1> DEFINE Effect == pc[c] = "finished" \/ Finish(c)
<1>1. Effect
  <2> USE DEF Typing
  <2>1. ASSUME NEW e \in Calls, NEW w \in Workers, Receive(e, w) PROVE Effect
    <3>1. PICK r \in Request, label \in {"insert", "validate", "load"} :
            Accept(e, w, r, label)
      BY <2>1, ReceiveAccepts
    <3> QED
      BY <3>1 DEF Accept, Goto, TypeOK
  <2>2. ASSUME NEW e \in Calls, Validate(e) \/ Lookup(e) \/ Relookup(e) \/ Load(e)
        PROVE  Effect
    BY <2>2 DEF Validate, Lookup, Relookup, Load, _replay_or_conflict, Answer, Goto, TypeOK
  <2>3. ASSUME NEW e \in Calls, Insert(e) \/ Remember(e) \/ Begin(e)
        PROVE  Effect
    BY <2>3 DEF Insert, Remember, Begin, Answer, Goto, TypeOK
  <2>4. ASSUME NEW e \in Calls, Transmit(e) \/ Finish(e)
        PROVE  Effect
    BY <2>4 DEF Transmit, Finish, Goto, TypeOK
  <2>5. ASSUME NEW e \in Calls, Refuse(e) \/ Respond(e) \/ StoreError(e) PROVE Effect
    BY <2>5 DEF Refuse, Respond, StoreError, Answer, Goto, TypeOK
  <2>6. ASSUME NEW w \in Workers, Crash(w) PROVE Effect
    BY <2>6 DEF Crash, TypeOK
  <2>7. CASE UNCHANGED vars \/ Terminated
    BY <2>7 DEF vars, Terminated
  <2> HIDE DEF Effect
  <2> QED
    BY <2>1, <2>2, <2>3, <2>4, <2>5, <2>6, <2>7 DEF Next, Step
<1>2. CASE pc[c] = "finished"
  BY <1>2, NextKeeps DEF SettledOK, Evidence, AwaitOK, KeepsEvidence
<1>3. CASE Finish(c)
  <2>1. PICK o \in Outcome : RecordOutcome(c, o)
    BY <1>3 DEF Finish
  <2>2. o.status # "pending"
    BY DEF Outcome
  <2> QED
    BY <2>1, <2>2 DEF RecordOutcome, Typing, TypeOK, DeliveryAttempt
<1> QED
  BY <1>1, <1>2, <1>3

\* The headers of a row are those of its creation, redacted.
LEMMA NextRedacted == Typing /\ RowsOK /\ RedactedOK /\ [Next]_vars => RedactedOK'
<1> SUFFICES ASSUME Typing, RowsOK, RedactedOK, [Next]_vars, NEW d \in Calls, Stored(d)'
             PROVE  delivery'[d].headers = redact_headers(req'[d].headers)
  BY DEF RedactedOK, redact_headers
<1>1. ASSUME NEW c \in Calls, Insert(c)
      PROVE  \/ delivery'[d] = delivery[d]
             \/ d = c /\ delivery'[d].headers = redact_headers(req[d].headers)
                /\ req' = req
  BY <1>1 DEF Insert, Typing, TypeOK
<1>2. ASSUME \A c \in Calls : ~Insert(c)
      PROVE  delivery'[d].headers = delivery[d].headers
  <2>1. CASE QuietStep
    BY <1>2, <2>1, QuietRows
  <2>2. ASSUME NEW c \in Calls, Begin(c) PROVE delivery'[d].headers = delivery[d].headers
    BY <2>2 DEF Begin, RecordAttempt, Typing, TypeOK, CallbackDelivery
  <2>3. ASSUME NEW c \in Calls, Transmit(c) PROVE delivery'[d].headers = delivery[d].headers
    BY <2>3 DEF Transmit, tables
  <2>4. ASSUME NEW c \in Calls, Finish(c) PROVE delivery'[d].headers = delivery[d].headers
    <3>1. PICK o \in Outcome : RecordOutcome(c, o)
      BY <2>4 DEF Finish
    <3> QED
      BY <3>1 DEF RecordOutcome, Typing, TypeOK, CallbackDelivery
  <2> QED
    BY <2>1, <2>2, <2>3, <2>4 DEF Next, Step, QuietStep, Terminated
<1>3. CASE Stored(d)
  <2>1. req'[d] = req[d] /\ delivery[d].headers = redact_headers(req[d].headers)
    BY <1>3, CallEffect DEF RowsOK, RedactedOK
  <2> QED
    BY <1>1, <1>2, <2>1
<1>4. CASE ~Stored(d)
  <2>1. Insert(d)
    BY <1>4, RowsNew
  <2> QED
    BY <1>1, <1>4, <2>1 DEF Stored
<1> QED
  BY <1>3, <1>4

-----------------------------------------------------------------------------
(* What the caches hold *)

\* What a call puts in its cache, and when.
Kept(c) == Put(cache[on[c]], c, SuppliedBy(c, sensitive_values(req[c].headers)))

Renewed(c) == Put(cache[on[c]], Subject(c),
                  Merge(Get(cache[on[c]], Subject(c)), Overrides(c)))

LEMMA CacheEffect ==
    ASSUME Typing, [Next]_vars, NEW w \in Workers
    PROVE  \/ cache'[w] \in {cache[w], << >>}
           \/ \E c \in Calls : pc[c] = "inserted" /\ on[c] = w /\ cache'[w] = Kept(c)
           \/ \E c \in Calls : pc[c] = "finished" /\ on[c] = w /\ cache'[w] = Renewed(c)
<1> DEFINE Effect ==
        \/ cache'[w] \in {cache[w], << >>}
        \/ \E c \in Calls : pc[c] = "inserted" /\ on[c] = w /\ cache'[w] = Kept(c)
        \/ \E c \in Calls : pc[c] = "finished" /\ on[c] = w /\ cache'[w] = Renewed(c)
<1>1. ASSUME NEW c \in Calls, NEW v \in Workers, Receive(c, v) PROVE Effect
  BY <1>1 DEF Receive, ReceiveCreate, ReceiveForm, ReceiveRetry, RetryForm, Accept
<1>2. ASSUME NEW c \in Calls, Validate(c) \/ Lookup(c) \/ Relookup(c) \/ Load(c)
      PROVE  Effect
  BY <1>2 DEF Validate, Lookup, Relookup, Load
<1>3. ASSUME NEW c \in Calls,
             Insert(c) \/ Begin(c) \/ Refuse(c) \/ Transmit(c) \/ Finish(c)
      PROVE  Effect
  BY <1>3 DEF Insert, Begin, Refuse, Transmit, Finish
<1>4. ASSUME NEW c \in Calls, Remember(c) PROVE Effect
  BY <1>4 DEF Remember, At, Kept, Typing, TypeOK
<1>5. ASSUME NEW c \in Calls, pc[c] = "finished", KeepOverrides(c) PROVE Effect
  BY <1>5 DEF KeepOverrides, Renewed, Typing, TypeOK
<1>6. ASSUME NEW c \in Calls, Respond(c) PROVE Effect
  BY <1>5, <1>6 DEF Respond, At
<1>7. ASSUME NEW c \in Calls, StoreError(c) PROVE Effect
  <2>1. UNCHANGED cache \/ (pc[c] = "finished" /\ KeepOverrides(c))
    BY <1>7 DEF StoreError
  <2> QED
    BY <1>5, <2>1
<1>8. ASSUME NEW v \in Workers, Crash(v) PROVE Effect
  BY <1>8 DEF Crash, Typing, TypeOK
<1>9. ASSUME UNCHANGED vars \/ Terminated PROVE Effect
  BY <1>9 DEF vars, Terminated
<1> HIDE DEF Effect
<1>10. Effect
  BY <1>1, <1>2, <1>3, <1>4, <1>6, <1>7, <1>8, <1>9 DEF Next, Step
<1> QED
  BY <1>10 DEF Effect

\* A cached value was supplied for the delivery it is cached for.
LEMMA FromCache ==
    ASSUME Typing, CachesOK, NEW w \in Workers, NEW d, NEW h \in Headers,
           Get(cache[w], d)[h] # None
    PROVE  Supplied(d, h, Get(cache[w], d)[h])
<1>1. cache[w] \in Seq(Entry)
  BY DEF Typing, TypeOK
<1>2. PICK j \in 1..Len(cache[w]) :
        cache[w][j].id = d /\ Get(cache[w], d) = cache[w][j].values
  BY <1>1, GetEntry DEF NoValues
<1>3. cache[w][j] \in Entry
  BY <1>1
<1> QED
  BY <1>2, <1>3 DEF CachesOK, Traced

LEMMA NextCaches ==
    Typing /\ Evidence /\ RowsOK /\ SettledOK /\ CachesOK /\ [Next]_vars => CachesOK'
<1> SUFFICES ASSUME Typing, Evidence, RowsOK, SettledOK, CachesOK, [Next]_vars,
                    NEW w \in Workers, NEW entry \in Entry,
                    NEW i \in 1..Len(cache'[w]), entry = cache'[w][i],
                    NEW h \in Headers, entry.values[h] # None
             PROVE  Supplied(entry.id, h, entry.values[h])'
  BY DEF CachesOK, Traced
<1> DEFINE d == entry.id
           v == entry.values[h]
           Old == \E j \in 1..Len(cache[w]) : entry = cache[w][j]
<1>1. d \in Calls
  BY DEF Entry
<1>2. cache[w] \in Seq(Entry)
  BY DEF Typing, TypeOK
<1>3. Supplied(d, h, v)
  <2>1. CASE Old
    BY <2>1 DEF CachesOK, Traced
  <2>2. CASE cache'[w] \in {cache[w], << >>}
    <3>1. cache'[w] = cache[w]
      BY <2>2
    <3> QED
      BY <2>1, <3>1
  <2>3. ASSUME NEW c \in Calls, pc[c] = "inserted", on[c] = w, cache'[w] = Kept(c)
        PROVE  Supplied(d, h, v)
    <3> DEFINE values == SuppliedBy(c, sensitive_values(req[c].headers))
    <3>1. values \in Values
      BY SuppliedByType
    <3>2. cache'[w] = Put(cache[w], c, values)
      BY <2>3 DEF Kept
    <3> HIDE DEF values
    <3>3. entry = [id |-> c, values |-> values] \/ Old
      BY <1>2, <3>1, <3>2, PutEntries
    <3>4. CASE entry = [id |-> c, values |-> values]
      <4>1. d = c /\ v = c /\ h \in sensitive_values(req[c].headers)
        BY <3>4 DEF values, SuppliedBy
      <4>2. Stored(c)
        BY <2>3 DEF Typing, ControlOK, Subject
      <4>3. req[c].headers[h] # "marker"
        BY <4>1 DEF sensitive_values
      <4> QED
        BY <4>1, <4>2, <4>3 DEF Supplied
    <3> QED
      BY <2>1, <3>3, <3>4
  <2>4. ASSUME NEW c \in Calls, pc[c] = "finished", on[c] = w, cache'[w] = Renewed(c)
        PROVE  Supplied(d, h, v)
    <3> DEFINE values == Merge(Get(cache[w], Subject(c)), Overrides(c))
    <3>1. Subject(c) \in Calls
      BY <2>4, SubjectType DEF Typing, ControlOK
    <3>2. values \in Values
      BY <1>2, GetType, OverridesType, MergeType
    <3>3. cache'[w] = Put(cache[w], Subject(c), values)
      BY <2>4 DEF Renewed
    <3> HIDE DEF values
    <3>4. entry = [id |-> Subject(c), values |-> values] \/ Old
      BY <1>2, <3>1, <3>2, <3>3, PutEntries
    <3>5. CASE entry = [id |-> Subject(c), values |-> values]
      <4>1. d = Subject(c) /\ v = values[h]
        BY <3>5
      <4>2. CASE Overrides(c)[h] # None
        <5>1. v = c /\ h \in Resupplied(c)
          BY <4>1, <4>2 DEF values, Merge, Overrides, SuppliedBy, NoValues
        <5>2. c \in Attempts(d) /\ attempt[c].status # "pending"
          BY <2>4, <4>1 DEF Evidence, AwaitOK, SettledOK, Attempts
        <5> QED
          BY <5>1, <5>2 DEF Supplied
      <4>3. CASE Overrides(c)[h] = None
        <5>1. v = Get(cache[w], d)[h]
          BY <4>1, <4>3 DEF values, Merge
        <5> QED
          BY <5>1, FromCache
      <4> QED
        BY <4>2, <4>3
    <3> QED
      BY <2>1, <3>4, <3>5
  <2> QED
    BY <2>2, <2>3, <2>4, CacheEffect
<1> QED
  BY <1>1, <1>3, SuppliedStays

-----------------------------------------------------------------------------
(* What a request carries *)

\* The headers that send_attempt is about to transmit.
LEMMA OutgoingSent ==
    ASSUME Typing, CachesOK, RedactedOK, NEW c \in Calls,
           on[c] \in Workers, Subject(c) \in Calls, Stored(Subject(c)), Missing(c) = {},
           NEW h \in Headers
    PROVE  Sent(c, Subject(c), h, OutgoingHeaders(c)[h])
<1> DEFINE d == Subject(c)
           v == OutgoingHeaders(c)[h]
           stored == delivery[d].headers[h]
<1>1. stored = IF h \in Sensitive /\ req[d].headers[h] # "absent"
               THEN "marker" ELSE req[d].headers[h]
  <2>1. delivery[d].headers = redact_headers(req[d].headers)
    BY DEF RedactedOK
  <2> QED
    BY <2>1 DEF redact_headers
<1>2. v = CASE stored = "absent" -> None
            [] stored = "marker" -> Originals(c)[h]
            [] OTHER -> d
  BY DEF OutgoingHeaders
<1>3. CASE stored = "absent"
  <2>1. v = None /\ req[d].headers[h] = "absent"
    BY <1>1, <1>2, <1>3
  <2> QED
    BY <2>1 DEF Sent
<1>4. CASE stored = "marker"
  <2>1. v = Originals(c)[h] /\ req[d].headers[h] # "absent"
    BY <1>1, <1>2, <1>4
  <2>2. Originals(c)[h] # None
    BY <1>4 DEF Missing, redacted_header_names
  <2>3. CASE Overrides(c)[h] # None
    <3>1. v = c /\ h \in Resupplied(c)
      BY <2>1, <2>3 DEF Originals, Merge, Overrides, SuppliedBy, NoValues
    <3> QED
      BY <2>1, <2>2, <3>1 DEF Sent
  <2>4. CASE Overrides(c)[h] = None
    <3>1. v = Get(cache[on[c]], d)[h]
      BY <2>1, <2>4 DEF Originals, Merge
    <3>2. Supplied(d, h, v)
      BY <2>1, <2>2, <3>1, FromCache
    <3> QED
      BY <2>1, <2>2, <3>2 DEF Sent
  <2> QED
    BY <2>3, <2>4
<1>5. CASE stored \notin {"absent", "marker"}
  <2>1. v = d /\ d # None
    BY <1>2, <1>5, NoneIsNoCall
  <2>2. req[d].headers[h] \notin {"absent", "marker"}
    BY <1>1, <1>5
  <2> QED
    BY <2>1, <2>2 DEF Sent, Supplied
<1> QED
  BY <1>3, <1>4, <1>5

LEMMA SentStays ==
    ASSUME Typing, Evidence, RowsOK, [Next]_vars, NEW c \in Calls, NEW d \in Calls,
           Stored(d), pc[c] # "waiting", NEW h, NEW v, Sent(c, d, h, v)
    PROVE  Sent(c, d, h, v)'
<1>1. req'[d] = req[d] /\ req'[c] = req[c]
  BY CallEffect DEF RowsOK
<1>2. Supplied(d, h, v) => Supplied(d, h, v)'
  BY SuppliedStays
<1> QED
  BY <1>1, <1>2 DEF Sent, Resupplied

\* A request is made by the commit before the call and never changed.
LEMMA RequestEffect ==
    ASSUME Typing, [Next]_vars, NEW c \in Calls
    PROVE  \/ request'[c] = request[c]
           \/ /\ Begin(c)
              /\ request'[c] = [delivery |-> Subject(c), number |-> NextNumber(c),
                                from |-> OutgoingHeaders(c)]
<1>1. CASE QuietStep
  BY <1>1, QuietEffect
<1>2. ASSUME NEW e \in Calls, Begin(e)
      PROVE  \/ request'[c] = request[c]
             \/ /\ e = c
                /\ request'[c] = [delivery |-> Subject(c), number |-> NextNumber(c),
                                  from |-> OutgoingHeaders(c)]
  BY <1>2 DEF Begin, Typing, TypeOK
<1>3. ASSUME NEW e \in Calls, Transmit(e) \/ Finish(e) PROVE UNCHANGED request
  BY <1>3 DEF Transmit, Finish, sends
<1> QED
  BY <1>1, <1>2, <1>3 DEF Next, Step, QuietStep, Terminated

LEMMA NextSends ==
    Typing /\ Evidence /\ RowsOK /\ CachesOK /\ RedactedOK /\ SendsOK /\ [Next]_vars
        => SendsOK'
<1> SUFFICES ASSUME Typing, Evidence, RowsOK, CachesOK, RedactedOK, SendsOK, [Next]_vars,
                    NEW c \in Calls, NEW r \in Transmission, request'[c] = r, r # None,
                    NEW h \in Headers
             PROVE  Sent(c, r.delivery, h, r.from[h])'
  BY DEF SendsOK
<1> DEFINE d == r.delivery
           v == r.from[h]
<1>1. Stored(d) /\ d \in Calls /\ pc[c] # "waiting" /\ Sent(c, d, h, v)
  <2>1. CASE request'[c] = request[c]
    <3>1. request[c] # None
      BY <2>1
    <3>2. Stored(d) /\ pc[c] # "waiting" /\ d \in Calls
      BY <2>1, <3>1 DEF Evidence, AwaitOK, Transmission
    <3> QED
      BY <2>1, <3>1, <3>2 DEF SendsOK
  <2>2. CASE Begin(c) /\ request'[c] = [delivery |-> Subject(c), number |-> NextNumber(c),
                                        from |-> OutgoingHeaders(c)]
    <3>1. /\ on[c] \in Workers /\ Subject(c) \in Calls /\ Stored(Subject(c))
          /\ Missing(c) = {} /\ pc[c] = "begin"
      BY <2>2, SubjectType DEF Begin, At, Typing, ControlOK
    <3>2. d = Subject(c) /\ v = OutgoingHeaders(c)[h]
      BY <2>2
    <3> QED
      BY <3>1, <3>2, OutgoingSent
  <2> QED
    BY <2>1, <2>2, RequestEffect
<1> QED
  BY <1>1, SentStays

-----------------------------------------------------------------------------

LEMMA InitCredentials == Init => CredentialsOK
<1> SUFFICES ASSUME Init PROVE CredentialsOK
  OBVIOUS
<1>1. CachesOK
  BY DEF Init, CachesOK
<1>2. SendsOK /\ RedactedOK /\ SettledOK
  BY DEF Init, SendsOK, RedactedOK, SettledOK, Stored
<1> QED
  BY <1>1, <1>2 DEF CredentialsOK

LEMMA NextCredentials ==
    Typing /\ Evidence /\ RowsOK /\ CredentialsOK /\ [Next]_vars => CredentialsOK'
BY NextCaches, NextSends, NextRedacted, NextSettled DEF CredentialsOK

\* No header is lost, invented or sent as its marker: each carries a value that
\* the creator, this retry, or an earlier retry whose attempt is over gave it.
THEOREM CredentialsHaveSource == Spec => []CredentialsTraceable
<1>1. Init => Typing /\ Evidence /\ Creation /\ CredentialsOK
  BY InitTyping, InitEvidence, InitCreation, InitCredentials
<1>2. Typing /\ Evidence /\ Creation /\ CredentialsOK /\ [Next]_vars
          => Typing' /\ Evidence' /\ Creation' /\ CredentialsOK'
  BY NextTyping, NextEvidence, NextCreation, NextCredentials DEF Creation
<1>3. Typing /\ Evidence /\ CredentialsOK => CredentialsTraceable
  <2> SUFFICES ASSUME Typing, Evidence, CredentialsOK, NEW c \in Calls, c \in wire,
                      NEW h \in Headers
               PROVE  LET d == request[c].delivery
                          source == request[c].from[h]
                      IN  /\ source = None <=> req[d].headers[h] = "absent"
                          /\ source # None =>
                                \/ source = d /\ req[d].headers[h] # "marker"
                                \/ source = c /\ h \in Resupplied(c)
                                \/ /\ source \in Attempts(d) /\ h \in Resupplied(source)
                                   /\ attempt[source].status # "pending"
    BY DEF CredentialsTraceable, Typing, TypeOK
  <2>1. request[c] \in Transmission /\ request[c] # None
    BY DEF Evidence, AwaitOK, Typing, TypeOK
  <2>2. Sent(c, request[c].delivery, h, request[c].from[h])
    BY <2>1 DEF CredentialsOK, SendsOK
  <2> QED
    BY <2>2 DEF Sent, Supplied
<1> QED
  BY <1>1, <1>2, <1>3, PTL DEF Spec

=============================================================================
