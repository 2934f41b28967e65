----------------------- MODULE DeliveryServiceProofs -----------------------
(* Proofs about DeliveryService, for every number of workers and calls. *)
EXTENDS DeliveryService, TLAPS

-----------------------------------------------------------------------------
(* Headers and credentials *)

\* Redaction maps header maps to header maps.
LEMMA RedactType ==
    ASSUME NEW headers \in HeaderMap
    PROVE  redact_headers(headers) \in HeaderMap
BY SensitiveAssumption DEF redact_headers, HeaderMap, HeaderValue

\* A fingerprint is made of the rest of the request and redacted headers only.
LEMMA FingerprintType ==
    ASSUME NEW headers \in HeaderMap, NEW rest \in Payloads
    PROVE  request_fingerprint(headers, rest) \in Fingerprint
<1>1. redact_headers(headers) \in HeaderMap
  BY RedactType
<1> QED
  BY <1>1, ExcludedAssumption DEF request_fingerprint, Fingerprint, HeaderMap

LEMMA SuppliedByType ==
    ASSUME NEW c \in Calls, NEW names
    PROVE  SuppliedBy(c, names) \in Values
BY DEF SuppliedBy, Values

LEMMA MergeType ==
    ASSUME NEW base \in Values, NEW overrides \in Values
    PROVE  Merge(base, overrides) \in Values
BY DEF Merge, Values

LEMMA NoValuesType == NoValues \in Values
BY DEF NoValues, Values

\* get of the credential cache returns values, cached or empty.
LEMMA GetType ==
    ASSUME NEW credentials \in Seq(Entry), NEW id
    PROVE  Get(credentials, id) \in Values
<1>1. CASE id \in Ids(credentials)
  <2>1. PICK j \in 1..Len(credentials) : credentials[j].id = id
    BY <1>1 DEF Ids
  <2> DEFINE i == CHOOSE k \in 1..Len(credentials) : credentials[k].id = id
  <2>2. i \in 1..Len(credentials)
    BY <2>1
  <2>3. Get(credentials, id) = credentials[i].values
    BY <1>1 DEF Get
  <2> HIDE DEF i
  <2>4. credentials[i] \in Entry
    BY <2>2
  <2> QED
    BY <2>3, <2>4 DEF Entry
<1>2. CASE id \notin Ids(credentials)
  BY <1>2, NoValuesType DEF Get
<1> QED
  BY <1>1, <1>2

LEMMA WithoutType ==
    ASSUME NEW credentials \in Seq(Entry), NEW id
    PROVE  Without(credentials, id) \in Seq(Entry)
<1>1. CASE id \in Ids(credentials)
  <2>1. PICK j \in 1..Len(credentials) : credentials[j].id = id
    BY <1>1 DEF Ids
  <2> DEFINE i == CHOOSE k \in 1..Len(credentials) : credentials[k].id = id
  <2>2. i \in 1..Len(credentials)
    BY <2>1
  <2>3. Without(credentials, id)
           = SubSeq(credentials, 1, i - 1) \o SubSeq(credentials, i + 1, Len(credentials))
    BY <1>1 DEF Without
  <2> HIDE DEF i
  <2>4. SubSeq(credentials, 1, i - 1) \in Seq(Entry)
    BY <2>2
  <2>5. SubSeq(credentials, i + 1, Len(credentials)) \in Seq(Entry)
    BY <2>2
  <2> QED
    BY <2>3, <2>4, <2>5
<1>2. CASE id \notin Ids(credentials)
  BY <1>2 DEF Without
<1> QED
  BY <1>1, <1>2

\* put of the credential cache keeps a sequence of entries.
LEMMA PutType ==
    ASSUME NEW credentials \in Seq(Entry), NEW id \in Calls, NEW values \in Values
    PROVE  Put(credentials, id, values) \in Seq(Entry)
<1> DEFINE grown == Append(Without(credentials, id), [id |-> id, values |-> values])
<1>1. grown \in Seq(Entry)
  <2>1. Without(credentials, id) \in Seq(Entry)
    BY WithoutType
  <2>2. [id |-> id, values |-> values] \in Entry
    BY DEF Entry
  <2> QED
    BY <2>1, <2>2
<1> HIDE DEF grown
<1>2. Evict(grown) \in Seq(Entry)
  BY <1>1, MaxEntriesPositive DEF Evict
<1> QED
  BY <1>2 DEF Put, grown

-----------------------------------------------------------------------------
(* Type correctness *)

Typing == TypeOK /\ ControlOK

LEMMA SubjectType ==
    ASSUME NEW c \in Calls, req[c] \in Request
    PROVE  Subject(c) \in Calls
BY DEF Subject, Request

LEMMA OverridesType ==
    ASSUME NEW c \in Calls
    PROVE  Overrides(c) \in Values
BY SuppliedByType, NoValuesType DEF Overrides

LEMMA OriginalsType ==
    ASSUME TypeOK, NEW c \in Calls, on[c] \in Workers
    PROVE  Originals(c) \in Values
<1>1. cache[on[c]] \in Seq(Entry)
  BY DEF TypeOK
<1> QED
  BY <1>1, GetType, OverridesType, MergeType DEF Originals

LEMMA OutgoingType ==
    ASSUME TypeOK, NEW c \in Calls, on[c] \in Workers, req[c] \in Request
    PROVE  OutgoingHeaders(c) \in Values
BY OriginalsType, SubjectType DEF OutgoingHeaders, Values

LEMMA InitTyping == Init => Typing
<1> SUFFICES ASSUME Init PROVE TypeOK /\ ControlOK
  BY DEF Typing
<1>1. delivery \in [Calls -> CallbackDelivery]
  BY DEF Init, CallbackDelivery, NoHeaders, HeaderMap, HeaderValue, HttpStatus, Error
<1>2. attempt \in [Calls -> DeliveryAttempt]
  BY DEF Init, DeliveryAttempt, HttpStatus, Error
<1>3. cache \in [Workers -> Seq(Entry)]
  BY DEF Init
<1>4. crashes \in 0..MaxCrashes /\ storeErrors \in 0..MaxStoreErrors
  BY BoundsAssumption DEF Init
<1>5. TypeOK
  BY <1>1, <1>2, <1>3, <1>4 DEF Init, TypeOK
<1>6. ControlOK
  BY DEF Init, ControlOK
<1> QED
  BY <1>5, <1>6

\* The type of an answer is all that Answer adds to the state.
LEMMA AnswerType ==
    ASSUME TypeOK, NEW c \in Calls, NEW code \in Code, NEW d \in Calls \cup {None},
           Answer(c, code, d)
    PROVE  /\ loop' \in [Workers -> Calls \cup {None}]
           /\ reply' \in [Calls -> Reply \cup {None}]
           /\ pc' = [pc EXCEPT ![c] = "done"]
BY DEF TypeOK, Answer, Goto, Reply

\* Every request that is accepted is well formed and goes where its kind belongs.
Opening(r, label) ==
    \/ r.kind = "create" /\ label \in {"insert", "validate"}
    \/ r.kind = "retry" /\ label = "load"

LEMMA ReceiveAccepts ==
    ASSUME NEW c \in Calls, NEW w \in Workers, Receive(c, w)
    PROVE  \E r \in Request, label \in {"insert", "validate", "load"} :
               Opening(r, label) /\ Accept(c, w, r, label)
<1>1. CASE ReceiveCreate(c, w)
  <2>1. PICK input \in CreateInputs :
          Accept(c, w, [kind |-> "create", key |-> input.key,
                        payload |-> input.payload, headers |-> input.headers,
                        target |-> None],
                 IF input.key = None THEN "insert" ELSE "validate")
    BY <1>1 DEF ReceiveCreate
  <2>2. [kind |-> "create", key |-> input.key, payload |-> input.payload,
         headers |-> input.headers, target |-> None] \in Request
    BY InputsAssumption DEF Request
  <2> QED BY <2>1, <2>2 DEF Opening
<1>2. CASE ReceiveForm(c, w)
  <2>1. PICK input \in CreateInputs, key \in Keys \cup {None} :
          Accept(c, w, [kind |-> "create", key |-> key,
                        payload |-> input.payload, headers |-> input.headers,
                        target |-> None],
                 IF key = None THEN "insert" ELSE "validate")
    BY <1>2, InputsAssumption DEF ReceiveForm
  <2>2. [kind |-> "create", key |-> key, payload |-> input.payload,
         headers |-> input.headers, target |-> None] \in Request
    BY InputsAssumption DEF Request
  <2> QED BY <2>1, <2>2 DEF Opening
<1>3. CASE ReceiveRetry(c, w) \/ RetryForm(c, w)
  <2>1. PICK d \in Calls, headers \in RetryInputs \cup {NoHeaders} :
          Accept(c, w, [kind |-> "retry", key |-> None, payload |-> None,
                        headers |-> headers, target |-> d],
                 "load")
    BY <1>3 DEF ReceiveRetry, RetryForm
  <2>2. [kind |-> "retry", key |-> None, payload |-> None,
         headers |-> headers, target |-> d] \in Request
    BY InputsAssumption DEF Request, NoHeaders, HeaderMap, HeaderValue
  <2> QED BY <2>1, <2>2 DEF Opening
<1> QED BY <1>1, <1>2, <1>3 DEF Receive

LEMMA ReceiveTyping ==
    ASSUME Typing, NEW c \in Calls, NEW w \in Workers, Receive(c, w)
    PROVE  Typing'
<1>1. PICK r \in Request, label \in {"insert", "validate", "load"} :
        Opening(r, label) /\ Accept(c, w, r, label)
  BY ReceiveAccepts
<1>2. TypeOK'
  BY <1>1 DEF Typing, TypeOK, Accept, Goto, tables, sends, faults
<1>3. ControlOK'
  BY <1>1 DEF Opening, Typing, TypeOK, ControlOK, Accept, Goto, tables, sends, faults,
     Stored, Subject
<1> QED
  BY <1>2, <1>3 DEF Typing

\* Before the insert nothing but control and answers change.
LEMMA ValidateTyping ==
    ASSUME Typing, NEW c \in Calls, Validate(c)
    PROVE  Typing'
<1> USE DEF Typing
<1>1. TypeOK'
  <2>1. \/ \E code \in Code : Answer(c, code, None)
        \/ Goto(c, "lookup") /\ UNCHANGED <<loop, reply>>
    BY DEF Validate, Code
  <2>2. /\ loop' \in [Workers -> Calls \cup {None}]
        /\ reply' \in [Calls -> Reply \cup {None}]
        /\ pc' = [pc EXCEPT ![c] = "done"] \/ pc' = [pc EXCEPT ![c] = "lookup"]
    BY <2>1, AnswerType DEF TypeOK, Goto
  <2> QED
    BY <2>2 DEF TypeOK, Validate, tables, sends, faults
<1>2. ControlOK'
  BY DEF Typing, TypeOK, ControlOK, Validate, At, Answer, Goto, tables, sends, faults,
     Stored, Subject
<1> QED
  BY <1>1, <1>2 DEF Typing

LEMMA LookupTyping ==
    ASSUME Typing, NEW c \in Calls, Lookup(c) \/ Relookup(c)
    PROVE  Typing'
<1> USE DEF Typing
<1>1. TypeOK'
  <2>1. \/ \E code \in Code, d \in Calls : Answer(c, code, d)
        \/ Goto(c, "insert") /\ UNCHANGED <<loop, reply>>
    BY DEF Lookup, Relookup, WithKey, _replay_or_conflict, Code
  <2>2. /\ loop' \in [Workers -> Calls \cup {None}]
        /\ reply' \in [Calls -> Reply \cup {None}]
        /\ pc' = [pc EXCEPT ![c] = "done"] \/ pc' = [pc EXCEPT ![c] = "insert"]
    BY <2>1, AnswerType DEF TypeOK, Goto
  <2> QED
    BY <2>2 DEF TypeOK, Lookup, Relookup, tables, sends, faults
<1>2. ControlOK'
  BY DEF Typing, TypeOK, ControlOK, Lookup, Relookup, _replay_or_conflict, At, Answer,
     Goto, tables, sends, faults, Stored, Subject
<1> QED
  BY <1>1, <1>2 DEF Typing

\* A step of call c keeps ControlOK when it leaves the other calls alone, keeps
\* every delivery, and takes c to a point whose obligations are met.
LEMMA ControlStep ==
    ASSUME ControlOK, NEW c \in Calls, pc[c] # "waiting",
           UNCHANGED <<on, req>>,
           \A d \in Calls : Stored(d) => Stored(d)',
           \A e \in Calls \ {c} : pc'[e] = pc[e] /\ view'[e] = view[e],
           pc'[c] \in {"validate", "lookup", "insert", "relookup", "inserted"}
              => req[c].kind = "create",
           pc'[c] # "load",
           pc'[c] \in {"inserted", "begin", "await", "finished"}
              => view'[c] \in View /\ Stored(Subject(c))'
    PROVE  ControlOK'
<1>1. \A e \in Calls : Subject(e)' = Subject(e)
  BY DEF Subject
<1>2. \A e \in Calls : req[e] \in Request => Subject(e) \in Calls
  BY SubjectType
<1>3. SUFFICES ASSUME NEW e \in Calls
               PROVE  (/\ pc[e] # "waiting" => on[e] \in Workers /\ req[e] \in Request
                       /\ pc[e] \in {"validate", "lookup", "insert", "relookup", "inserted"}
                             => req[e].kind = "create"
                       /\ pc[e] = "load" => req[e].kind = "retry"
                       /\ pc[e] \in {"inserted", "begin", "await", "finished"}
                             => view[e] \in View /\ Stored(Subject(e)))'
  BY DEF ControlOK
<1>4. CASE e = c
  BY <1>4 DEF ControlOK
<1>5. CASE e # c
  <2>1. pc'[e] = pc[e] /\ view'[e] = view[e]
    BY <1>5
  <2>2. Stored(Subject(e)) /\ req[e] \in Request => Stored(Subject(e))'
    BY <1>1, <1>2 DEF Stored
  <2> QED
    BY <2>1, <2>2 DEF ControlOK
<1> QED
  BY <1>4, <1>5

LEMMA InsertTyping ==
    ASSUME Typing, NEW c \in Calls, Insert(c)
    PROVE  Typing'
<1> USE DEF Typing
<1>1. req[c] \in Request /\ req[c].kind = "create" /\ pc[c] = "insert"
  BY DEF Insert, At, ControlOK
<1>2. /\ req[c].key \in Keys \cup {None}
      /\ req[c].payload \in Payloads
      /\ req[c].headers \in HeaderMap
  BY <1>1 DEF Request
<1> DEFINE row == [status |-> "pending", key |-> req[c].key,
                   fingerprint |-> IF req[c].key = None
                                   THEN None ELSE FingerprintOf(c),
                   headers |-> redact_headers(req[c].headers),
                   payload |-> req[c].payload, count |-> 0,
                   http |-> "none", error |-> "none", stamped |-> FALSE]
           snapshot == [status |-> "pending", count |-> 0,
                        http |-> "none", error |-> "none"]
<1>3. row \in CallbackDelivery /\ row.status = "pending"
  <2>1. FingerprintOf(c) \in Fingerprint /\ redact_headers(req[c].headers) \in HeaderMap
    BY <1>2, FingerprintType, RedactType DEF FingerprintOf
  <2> QED
    BY <1>2, <2>1 DEF CallbackDelivery, Status, HttpStatus, Error
<1>4. snapshot \in View
  BY DEF View, Status, HttpStatus, Error
<1>5. \/ Goto(c, "relookup") /\ UNCHANGED <<view, delivery>>
      \/ /\ delivery' = [delivery EXCEPT ![c] = row]
         /\ view' = [view EXCEPT ![c] = snapshot]
         /\ Goto(c, "inserted")
  BY DEF Insert
<1> HIDE DEF row, snapshot
<1>6. TypeOK'
  <2>1. UNCHANGED <<loop, on, req, reply, cache, attempt, sends, faults>>
    BY DEF Insert
  <2>2. delivery' \in [Calls -> CallbackDelivery]
    BY <1>3, <1>5 DEF TypeOK
  <2>3. view' \in [Calls -> View \cup {None}]
    BY <1>4, <1>5 DEF TypeOK
  <2>4. pc' = [pc EXCEPT ![c] = "relookup"] \/ pc' = [pc EXCEPT ![c] = "inserted"]
    BY <1>5 DEF Goto
  <2> QED
    BY <2>1, <2>2, <2>3, <2>4 DEF TypeOK, sends, faults
<1>7. ControlOK'
  <2>1. \A d \in Calls : Stored(d) => Stored(d)'
    BY <1>3, <1>5 DEF TypeOK, Stored
  <2>2. pc'[c] \in {"relookup", "inserted"}
    BY <1>5 DEF TypeOK, Goto
  <2>3. pc'[c] = "inserted" => view'[c] \in View /\ Stored(Subject(c))'
    BY <1>1, <1>3, <1>4, <1>5 DEF TypeOK, Goto, Stored, Subject, Insert
  <2>4. \A e \in Calls \ {c} : pc'[e] = pc[e] /\ view'[e] = view[e]
    BY <1>5 DEF TypeOK, Goto
  <2>5. UNCHANGED <<on, req>>
    BY DEF Insert
  <2> QED
    BY <1>1, <2>1, <2>2, <2>3, <2>4, <2>5, ControlStep
<1> QED
  BY <1>6, <1>7

LEMMA RememberTyping ==
    ASSUME Typing, NEW c \in Calls, Remember(c)
    PROVE  Typing'
<1> USE DEF Typing
<1>1. on[c] \in Workers /\ pc[c] = "inserted"
  BY DEF Remember, At, ControlOK
<1>2. cache' \in [Workers -> Seq(Entry)]
  BY <1>1, PutType, SuppliedByType DEF Remember, TypeOK
<1>3. TypeOK'
  BY <1>2 DEF Remember, TypeOK, Goto, tables, sends, faults
<1>4. ControlOK'
  BY <1>1 DEF Remember, TypeOK, ControlOK, Goto, Stored, Subject, tables, sends, faults
<1> QED
  BY <1>3, <1>4

LEMMA LoadTyping ==
    ASSUME Typing, NEW c \in Calls, Load(c)
    PROVE  Typing'
<1> USE DEF Typing
<1>1. req[c] \in Request /\ req[c].kind = "retry" /\ pc[c] = "load"
  BY DEF Load, At, ControlOK
<1>2. req[c].target \in Calls
  BY <1>1 DEF Request
<1> DEFINE d == req[c].target
<1>3. \/ \E code \in Code, e \in Calls \cup {None} : Answer(c, code, e) /\ UNCHANGED view
      \/ /\ delivery[d].status = "failed"
         /\ view' = [view EXCEPT ![c] =
                [status |-> "failed", count |-> delivery[d].count,
                 http |-> delivery[d].http, error |-> delivery[d].error]]
         /\ Goto(c, "begin")
         /\ UNCHANGED <<loop, reply>>
  BY <1>2 DEF Load, Code, RetryAllowed, Snapshot
<1>4. CASE \E code \in Code, e \in Calls \cup {None} : Answer(c, code, e) /\ UNCHANGED view
  <2>1. TypeOK'
    BY <1>4, AnswerType DEF Load, TypeOK, tables, sends, faults
  <2>2. ControlOK'
    <3>1. pc'[c] = "done" /\ \A e \in Calls \ {c} : pc'[e] = pc[e] /\ view'[e] = view[e]
      BY <1>4 DEF TypeOK, Answer, Goto
    <3>2. UNCHANGED <<on, req>> /\ \A e \in Calls : Stored(e) => Stored(e)'
      BY DEF Load, tables, Stored
    <3> QED
      BY <1>1, <3>1, <3>2, ControlStep
  <2> QED
    BY <2>1, <2>2
<1>5. CASE /\ delivery[d].status = "failed"
           /\ view' = [view EXCEPT ![c] =
                  [status |-> "failed", count |-> delivery[d].count,
                   http |-> delivery[d].http, error |-> delivery[d].error]]
           /\ Goto(c, "begin")
           /\ UNCHANGED <<loop, reply>>
  <2>1. delivery[d] \in CallbackDelivery
    BY <1>2 DEF TypeOK
  <2>2. [status |-> "failed", count |-> delivery[d].count,
         http |-> delivery[d].http, error |-> delivery[d].error] \in View
    BY <2>1 DEF CallbackDelivery, View, Status
  <2>3. TypeOK'
    BY <1>5, <2>2 DEF Load, TypeOK, Goto, tables, sends, faults
  <2>4. ControlOK'
    <3>1. UNCHANGED <<on, req>> /\ \A e \in Calls : Stored(e) => Stored(e)'
      BY DEF Load, tables, Stored
    <3>2. \A e \in Calls \ {c} : pc'[e] = pc[e] /\ view'[e] = view[e]
      BY <1>5 DEF TypeOK, Goto
    <3>3. pc'[c] = "begin" /\ view'[c] \in View
      BY <1>5, <2>2 DEF TypeOK, Goto
    <3>4. Stored(Subject(c))'
      BY <1>1, <1>5, <3>1 DEF Subject, Stored, Load, tables
    <3> QED
      BY <1>1, <3>1, <3>2, <3>3, <3>4, ControlStep
  <2> QED
    BY <2>3, <2>4
<1> QED
  BY <1>3, <1>4, <1>5

LEMMA RefuseTyping ==
    ASSUME Typing, NEW c \in Calls, Refuse(c)
    PROVE  Typing'
<1> USE DEF Typing
<1>1. pc[c] = "begin" /\ Subject(c) \in Calls
  BY SubjectType DEF Refuse, At, ControlOK
<1>2. \E code \in Code, d \in Calls : Answer(c, code, d)
  BY <1>1 DEF Refuse, Code
<1>3. TypeOK'
  BY <1>2, AnswerType DEF Refuse, TypeOK, tables, sends, faults
<1>4. ControlOK'
  <2>1. pc'[c] = "done" /\ \A e \in Calls \ {c} : pc'[e] = pc[e] /\ view'[e] = view[e]
    BY <1>2 DEF TypeOK, Answer, Goto, Refuse
  <2>2. UNCHANGED <<on, req>> /\ \A e \in Calls : Stored(e) => Stored(e)'
    BY DEF Refuse, tables, Stored
  <2> QED
    BY <1>1, <2>1, <2>2, ControlStep
<1> QED
  BY <1>3, <1>4

\* A column that is flushed has one of the two values the session knows, or the
\* stored one.
LEMMA FlushType ==
    ASSUME NEW S, NEW loaded, NEW new \in S, NEW stored \in S
    PROVE  Flush(loaded, new, stored) \in S
BY DEF Flush

LEMMA BeginTyping ==
    ASSUME Typing, NEW c \in Calls, Begin(c)
    PROVE  Typing'
<1> USE DEF Typing
<1> DEFINE d == Subject(c)
           number == NextNumber(c)
           sent == [delivery |-> d, number |-> number, from |-> OutgoingHeaders(c)]
           row == [status |-> "pending", delivery |-> d, number |-> number,
                   http |-> "none", error |-> "none"]
<1>1. /\ pc[c] = "begin" /\ on[c] \in Workers /\ req[c] \in Request
      /\ view[c] \in View /\ Stored(d) /\ d \in Calls
  BY SubjectType DEF Begin, At, ControlOK
<1>2. number \in Nat
  BY <1>1 DEF View, NextNumber
<1>3. sent \in Transmission
  BY <1>1, <1>2, OutgoingType DEF Transmission
<1>4. row \in DeliveryAttempt
  BY <1>1, <1>2 DEF DeliveryAttempt, Status, HttpStatus, Error
<1>5. /\ attempt' = [attempt EXCEPT ![c] = row]
      /\ delivery' = [delivery EXCEPT
             ![d].status = Flush(view[c].status, "pending", @),
             ![d].count = number]
      /\ view' = [view EXCEPT ![c].status = "pending", ![c].count = number]
      /\ request' = [request EXCEPT ![c] = sent] \/ UNCHANGED request
      /\ UNCHANGED <<on, req, cache, wire, faults>>
  BY DEF Begin, RecordAttempt
<1>6. \/ /\ loop' = [loop EXCEPT ![on[c]] = None]
         /\ Goto(c, "await")
         /\ UNCHANGED reply
      \/ Answer(c, "error", d)
  BY DEF Begin
<1> HIDE DEF sent, row, number, d
<1>7. /\ delivery' \in [Calls -> CallbackDelivery]
      /\ \A e \in Calls : Stored(e) => Stored(e)'
  <2>1. delivery[d] \in CallbackDelivery /\ delivery[d].status # "absent"
    BY <1>1 DEF TypeOK, Stored
  <2>2. Flush(view[c].status, "pending", delivery[d].status) \in Status
    BY <2>1, FlushType DEF CallbackDelivery, Status
  <2> DEFINE updated == [delivery[d] EXCEPT
                 !.status = Flush(view[c].status, "pending", delivery[d].status),
                 !.count = number]
  <2>3. delivery' = [delivery EXCEPT ![d] = updated]
    BY <1>1, <1>5, <2>1 DEF TypeOK, CallbackDelivery
  <2>4. updated \in CallbackDelivery /\ updated.status \in Status
    BY <1>2, <2>1, <2>2 DEF CallbackDelivery
  <2> HIDE DEF updated
  <2> QED
    BY <1>1, <2>3, <2>4 DEF TypeOK, Stored, Status
<1>8. view' \in [Calls -> View \cup {None}] /\ view'[c] \in View
  <2> DEFINE updated == [view[c] EXCEPT !.status = "pending", !.count = number]
  <2>1. view' = [view EXCEPT ![c] = updated]
    BY <1>1, <1>5 DEF TypeOK, View
  <2>2. updated \in View
    BY <1>1, <1>2 DEF View, Status
  <2> HIDE DEF updated
  <2> QED
    BY <2>1, <2>2 DEF TypeOK
<1>9. /\ loop' \in [Workers -> Calls \cup {None}]
      /\ reply' \in [Calls -> Reply \cup {None}]
      /\ pc' = [pc EXCEPT ![c] = "done"] \/ pc' = [pc EXCEPT ![c] = "await"]
  <2>1. CASE Answer(c, "error", d)
    BY <1>1, <2>1, AnswerType DEF Code
  <2>2. CASE /\ loop' = [loop EXCEPT ![on[c]] = None]
             /\ Goto(c, "await")
             /\ UNCHANGED reply
    BY <2>2 DEF TypeOK, Goto
  <2> QED
    BY <1>6, <2>1, <2>2
<1>10. TypeOK'
  <2>1. request' \in [Calls -> Transmission \cup {None}]
    BY <1>3, <1>5 DEF TypeOK
  <2>2. attempt' \in [Calls -> DeliveryAttempt]
    BY <1>4, <1>5 DEF TypeOK
  <2>3. pc' \in [Calls -> {"waiting", "validate", "lookup", "insert", "relookup",
                           "inserted", "load", "begin", "await", "finished", "done"}]
    BY <1>9 DEF TypeOK
  <2> QED
    BY <1>5, <1>7, <1>8, <1>9, <2>1, <2>2, <2>3 DEF TypeOK, faults
<1>11. ControlOK'
  <2>1. /\ pc'[c] \in {"done", "await"}
        /\ \A e \in Calls \ {c} : pc'[e] = pc[e] /\ view'[e] = view[e]
    BY <1>5, <1>9 DEF TypeOK
  <2>2. Stored(Subject(c))'
    BY <1>1, <1>5, <1>7 DEF d, Subject, Stored
  <2> QED
    BY <1>1, <1>5, <1>7, <1>8, <2>1, <2>2, ControlStep
<1> QED
  BY <1>10, <1>11

LEMMA TransmitTyping ==
    ASSUME Typing, NEW c \in Calls, Transmit(c)
    PROVE  Typing'
<1>1. TypeOK'
  BY DEF Typing, Transmit, TypeOK, tables, faults
<1>2. UNCHANGED <<pc, on, req, view, delivery>>
  BY DEF Transmit, tables
<1>3. ControlOK'
  BY <1>2 DEF Typing, ControlOK, Stored, Subject
<1> QED
  BY <1>1, <1>3 DEF Typing

LEMMA FinishTyping ==
    ASSUME Typing, NEW c \in Calls, Finish(c)
    PROVE  Typing'
<1> USE DEF Typing
<1> DEFINE d == Subject(c)
<1>1. /\ pc[c] = "await" /\ on[c] \in Workers /\ view[c] \in View
      /\ Stored(d) /\ d \in Calls
  BY SubjectType DEF Finish, ControlOK
<1>2. PICK o \in Outcome :
        /\ attempt' = [attempt EXCEPT ![c].status = o.status,
                                      ![c].http = o.http, ![c].error = o.error]
        /\ delivery' = [delivery EXCEPT
               ![d].status = Flush(view[c].status, o.status, @),
               ![d].http = Flush(view[c].http, o.http, @),
               ![d].error = Flush(view[c].error, o.error, @),
               ![d].stamped = @ \/ o.status = "delivered"]
  BY DEF Finish, RecordOutcome
<1>3. o.status \in Status /\ o.http \in HttpStatus /\ o.error \in Error
  BY DEF Outcome, Status, HttpStatus, Error
<1> HIDE DEF d
<1>4. attempt' \in [Calls -> DeliveryAttempt]
  <2> DEFINE updated == [attempt[c] EXCEPT !.status = o.status,
                                           !.http = o.http, !.error = o.error]
  <2>1. attempt' = [attempt EXCEPT ![c] = updated]
    BY <1>2 DEF TypeOK, DeliveryAttempt
  <2>2. updated \in DeliveryAttempt
    BY <1>3, ZenonT(30) DEF TypeOK, DeliveryAttempt
  <2> HIDE DEF updated
  <2> QED
    BY <2>1, <2>2 DEF TypeOK
<1>5. /\ delivery' \in [Calls -> CallbackDelivery]
      /\ \A e \in Calls : Stored(e) => Stored(e)'
  <2>1. delivery[d] \in CallbackDelivery /\ delivery[d].status \in Status
    BY <1>1 DEF TypeOK, Stored, CallbackDelivery
  <2>2. /\ Flush(view[c].status, o.status, delivery[d].status) \in Status
        /\ Flush(view[c].http, o.http, delivery[d].http) \in HttpStatus
        /\ Flush(view[c].error, o.error, delivery[d].error) \in Error
    BY <1>3, <2>1 DEF Flush, CallbackDelivery
  <2> DEFINE updated == [delivery[d] EXCEPT
                 !.status = Flush(view[c].status, o.status, delivery[d].status),
                 !.http = Flush(view[c].http, o.http, delivery[d].http),
                 !.error = Flush(view[c].error, o.error, delivery[d].error),
                 !.stamped = delivery[d].stamped \/ o.status = "delivered"]
  <2>3. delivery' = [delivery EXCEPT ![d] = updated]
    BY <1>1, <1>2, <2>1 DEF TypeOK, CallbackDelivery
  <2>4. updated \in CallbackDelivery /\ updated.status \in Status
    BY <2>1, <2>2 DEF CallbackDelivery
  <2> HIDE DEF updated
  <2> QED
    BY <1>1, <2>3, <2>4 DEF TypeOK, Stored, Status
<1>6. TypeOK'
  BY <1>4, <1>5 DEF Finish, TypeOK, Goto, sends, faults
<1>7. ControlOK'
  <2>1. /\ UNCHANGED <<on, req, view>>
        /\ pc'[c] = "finished" /\ \A e \in Calls \ {c} : pc'[e] = pc[e]
    BY DEF Finish, TypeOK, Goto
  <2>2. Stored(Subject(c))'
    BY <1>1, <1>5, <2>1 DEF d, Subject, Stored
  <2> QED
    BY <1>1, <1>5, <2>1, <2>2, ControlStep
<1> QED
  BY <1>6, <1>7

\* Remembering re-supplied credentials keeps the caches sequences of entries.
LEMMA KeepOverridesType ==
    ASSUME TypeOK, NEW c \in Calls, on[c] \in Workers, req[c] \in Request,
           KeepOverrides(c)
    PROVE  cache' \in [Workers -> Seq(Entry)]
<1>1. cache[on[c]] \in Seq(Entry)
  BY DEF TypeOK
<1>2. Put(cache[on[c]], Subject(c), Merge(Get(cache[on[c]], Subject(c)), Overrides(c)))
        \in Seq(Entry)
  BY <1>1, SubjectType, GetType, OverridesType, MergeType, PutType
<1> QED
  BY <1>1, <1>2 DEF KeepOverrides, TypeOK

LEMMA RespondTyping ==
    ASSUME Typing, NEW c \in Calls, Respond(c)
    PROVE  Typing'
<1> USE DEF Typing
<1>1. pc[c] = "finished" /\ on[c] \in Workers /\ Subject(c) \in Calls
  BY SubjectType DEF Respond, At, ControlOK
<1>2. \E code \in Code : Answer(c, code, Subject(c))
  BY DEF Respond, Code
<1>3. cache' \in [Workers -> Seq(Entry)]
  BY <1>1, KeepOverridesType DEF Respond, ControlOK
<1>4. TypeOK'
  BY <1>1, <1>2, <1>3, AnswerType DEF Respond, TypeOK, tables, sends, faults
<1>5. ControlOK'
  <2>1. pc'[c] = "done" /\ \A e \in Calls \ {c} : pc'[e] = pc[e] /\ view'[e] = view[e]
    BY <1>2 DEF TypeOK, Answer, Goto, Respond
  <2>2. UNCHANGED <<on, req>> /\ \A e \in Calls : Stored(e) => Stored(e)'
    BY DEF Respond, tables, Stored
  <2> QED
    BY <1>1, <2>1, <2>2, ControlStep
<1> QED
  BY <1>4, <1>5

LEMMA StoreErrorTyping ==
    ASSUME Typing, NEW c \in Calls, StoreError(c)
    PROVE  Typing'
<1> USE DEF Typing
<1>1. pc[c] # "waiting" /\ Answer(c, "error", None)
  BY DEF StoreError, At
<1>2. storeErrors' \in 0..MaxStoreErrors
  BY BoundsAssumption DEF StoreError, TypeOK
<1>3. cache' \in [Workers -> Seq(Entry)]
  <2>1. CASE UNCHANGED cache
    BY <2>1 DEF TypeOK
  <2>2. CASE pc[c] = "finished" /\ KeepOverrides(c)
    BY <2>2, KeepOverridesType DEF ControlOK
  <2> QED
    BY <2>1, <2>2 DEF StoreError
<1>4. TypeOK'
  BY <1>1, <1>2, <1>3, AnswerType DEF StoreError, TypeOK, Code, tables, sends
<1>5. ControlOK'
  <2>1. pc'[c] = "done" /\ \A e \in Calls \ {c} : pc'[e] = pc[e] /\ view'[e] = view[e]
    BY <1>1 DEF TypeOK, Answer, Goto, StoreError
  <2>2. UNCHANGED <<on, req>> /\ \A e \in Calls : Stored(e) => Stored(e)'
    BY DEF StoreError, tables, Stored
  <2> QED
    BY <1>1, <2>1, <2>2, ControlStep
<1> QED
  BY <1>4, <1>5

LEMMA CrashTyping ==
    ASSUME Typing, NEW w \in Workers, Crash(w)
    PROVE  Typing'
<1> USE DEF Typing
<1>1. crashes' \in 0..MaxCrashes
  BY BoundsAssumption DEF Crash, TypeOK
<1>2. cache' \in [Workers -> Seq(Entry)]
  BY DEF Crash, TypeOK
<1>3. reply' \in [Calls -> Reply \cup {None}]
  BY DEF Crash, TypeOK, Reply, Code
<1>4. TypeOK'
  BY <1>1, <1>2, <1>3 DEF Crash, TypeOK, tables, sends
<1>5. UNCHANGED <<on, req, view, delivery>>
  BY DEF Crash, tables
<1>6. \A e \in Calls : pc'[e] = pc[e] \/ (pc'[e] = "done" /\ pc[e] # "waiting")
  BY DEF Crash, Active
<1>7. ControlOK'
  BY <1>5, <1>6 DEF ControlOK, Stored, Subject
<1> QED
  BY <1>4, <1>7

LEMMA StutterTyping == Typing /\ UNCHANGED vars => Typing'
BY DEF Typing, TypeOK, ControlOK, Stored, Subject, vars

LEMMA NextTyping == Typing /\ [Next]_vars => Typing'
<1> SUFFICES ASSUME Typing, Next PROVE Typing'
  BY StutterTyping
<1>1. ASSUME NEW c \in Calls, NEW w \in Workers, Receive(c, w)
      PROVE  Typing'
  BY <1>1, ReceiveTyping
<1>3. ASSUME NEW c \in Calls, Step(c) PROVE Typing'
  BY <1>3, ValidateTyping, LookupTyping, InsertTyping, RememberTyping, LoadTyping,
     RefuseTyping, BeginTyping, FinishTyping, RespondTyping DEF Step
<1>4. ASSUME NEW c \in Calls, Transmit(c) PROVE Typing'
  BY <1>4, TransmitTyping
<1>5. ASSUME NEW c \in Calls, StoreError(c) PROVE Typing'
  BY <1>5, StoreErrorTyping
<1>6. ASSUME NEW w \in Workers, Crash(w) PROVE Typing'
  BY <1>6, CrashTyping
<1>7. CASE Terminated
  BY <1>7, StutterTyping DEF Terminated
<1> QED
  BY <1>1, <1>3, <1>4, <1>5, <1>6, <1>7 DEF Next

\* Every variable keeps its type, and a handler's position determines what its
\* local variables hold, whatever crashes or fails.
THEOREM TypeCorrect == Spec => []TypeOK
<1>1. Typing => TypeOK
  BY DEF Typing
<1> QED
  BY <1>1, InitTyping, NextTyping, PTL DEF Spec

-----------------------------------------------------------------------------
(* Persist before send *)

Evidence == AwaitOK /\ EvidenceBeforeWire

LEMMA InitEvidence == Init => Evidence
BY DEF Init, Evidence, AwaitOK, EvidenceBeforeWire, Recorded

\* Steps that touch neither table and transmit nothing: a call keeps what it is
\* about, ends, or has not yet reached its first commit.
LEMMA QuietEvidence ==
    ASSUME Typing, Evidence, UNCHANGED <<attempt, request, wire>>,
           \A d \in Calls : Stored(d) => Stored(d)',
           \A e \in Calls :
              \/ req'[e] = req[e] /\ pc'[e] \in {pc[e], "done"}
              \/ /\ pc[e] \notin {"await", "finished", "done"}
                 /\ pc'[e] \notin {"await", "finished"}
    PROVE  Evidence'
<1> USE DEF Evidence
<1>1. \A e \in Calls : Recorded(e) <=> Recorded(e)'
  BY DEF Recorded
<1>2. \A e \in Calls : Recorded(e) => req'[e] = req[e] /\ pc'[e] \in {pc[e], "done"}
  BY DEF AwaitOK
<1>3. \A e \in Calls : Recorded(e) => Subject(e) \in Calls /\ Subject(e)' = Subject(e)
  <2> SUFFICES ASSUME NEW e \in Calls, Recorded(e)
               PROVE  Subject(e) \in Calls /\ Subject(e)' = Subject(e)
    OBVIOUS
  <2>1. req[e] \in Request
    BY DEF AwaitOK, Typing, ControlOK
  <2> QED
    BY <1>2, <2>1, SubjectType DEF Subject
<1>4. AwaitOK'
  <2> SUFFICES ASSUME NEW e \in Calls
               PROVE  (/\ Recorded(e) => /\ pc[e] \in {"await", "finished", "done"}
                                         /\ attempt[e].delivery = Subject(e)
                                         /\ Stored(Subject(e))
                       /\ pc[e] \in {"await", "finished"} => Recorded(e)
                       /\ pc[e] = "await" => attempt[e].status = "pending"
                       /\ request[e] # None
                             => /\ Recorded(e)
                                /\ request[e].delivery = Subject(e)
                                /\ request[e].number = attempt[e].number
                       /\ e \in wire => request[e] # None)'
    BY DEF AwaitOK
  <2>1. CASE Recorded(e)
    <3>1. Stored(Subject(e))'
      BY <1>3, <2>1 DEF AwaitOK, Stored
    <3> QED
      BY <1>1, <1>2, <1>3, <2>1, <3>1 DEF AwaitOK
  <2>2. CASE ~Recorded(e)
    <3>1. pc[e] \notin {"await", "finished"} /\ request[e] = None /\ e \notin wire
      BY <2>2 DEF AwaitOK
    <3>2. pc'[e] \notin {"await", "finished"}
      BY <3>1
    <3> QED
      BY <1>1, <2>2, <3>1, <3>2
  <2> QED
    BY <2>1, <2>2
<1>5. EvidenceBeforeWire'
  <2> SUFFICES ASSUME NEW e \in Calls
               PROVE  (/\ e \in wire => /\ Recorded(e)
                                        /\ Stored(attempt[e].delivery)
                                        /\ attempt[e].delivery = request[e].delivery
                                        /\ attempt[e].number = request[e].number
                       /\ attempt[e].http # "none" => e \in wire)'
    BY DEF EvidenceBeforeWire
  <2>1. e \in wire => Recorded(e) /\ attempt[e].delivery \in Calls
    BY <1>3 DEF EvidenceBeforeWire, AwaitOK
  <2>2. e \in wire => Stored(attempt[e].delivery)'
    BY <2>1 DEF EvidenceBeforeWire, Stored
  <2> QED
    BY <1>1, <2>2 DEF EvidenceBeforeWire
<1> QED
  BY <1>4, <1>5

\* A commit for call c: its own attempt and request may change, the rows of all
\* deliveries stay, and the other calls are left alone.
LEMMA CommitEvidence ==
    ASSUME Typing, Evidence, NEW c \in Calls, req[c] \in Request,
           UNCHANGED <<on, req>>,
           wire \subseteq wire' /\ wire' \subseteq wire \cup {c},
           \A d \in Calls : Stored(d) => Stored(d)',
           \A e \in Calls \ {c} : /\ pc'[e] = pc[e]
                                  /\ attempt'[e] = attempt[e]
                                  /\ request'[e] = request[e],
           Recorded(c)', Stored(Subject(c)),
           attempt'[c].delivery = Subject(c),
           request'[c] # None => /\ request'[c].delivery = Subject(c)
                                 /\ request'[c].number = attempt'[c].number,
           c \in wire' => request'[c] # None,
           pc'[c] \in {"await", "finished", "done"},
           pc'[c] = "await" => attempt'[c].status = "pending",
           attempt'[c].http # "none" => c \in wire'
    PROVE  Evidence'
<1> USE DEF Evidence
<1>1. \A e \in Calls : Subject(e)' = Subject(e)
  BY DEF Subject
<1>2. \A e \in Calls \ {c} : (Recorded(e) <=> Recorded(e)') /\ (e \in wire <=> e \in wire')
  BY DEF Recorded
<1>3. \A e \in Calls : Recorded(e) => Subject(e) \in Calls
  BY SubjectType DEF AwaitOK, Typing, ControlOK
<1>4. Stored(Subject(c))'
  BY <1>1, SubjectType DEF Stored
<1>5. \A e \in Calls \ {c} : Recorded(e) => Stored(Subject(e))'
  BY <1>1, <1>3 DEF AwaitOK, Stored
<1>6. AwaitOK'
  <2> SUFFICES ASSUME NEW e \in Calls
               PROVE  (/\ Recorded(e) => /\ pc[e] \in {"await", "finished", "done"}
                                         /\ attempt[e].delivery = Subject(e)
                                         /\ Stored(Subject(e))
                       /\ pc[e] \in {"await", "finished"} => Recorded(e)
                       /\ pc[e] = "await" => attempt[e].status = "pending"
                       /\ request[e] # None
                             => /\ Recorded(e)
                                /\ request[e].delivery = Subject(e)
                                /\ request[e].number = attempt[e].number
                       /\ e \in wire => request[e] # None)'
    BY DEF AwaitOK
  <2>1. CASE e = c
    BY <1>1, <1>4, <2>1
  <2>2. CASE e # c
    BY <1>1, <1>2, <1>5, <2>2 DEF AwaitOK
  <2> QED
    BY <2>1, <2>2
<1>7. EvidenceBeforeWire'
  <2> SUFFICES ASSUME NEW e \in Calls
               PROVE  (/\ e \in wire => /\ Recorded(e)
                                        /\ Stored(attempt[e].delivery)
                                        /\ attempt[e].delivery = request[e].delivery
                                        /\ attempt[e].number = request[e].number
                       /\ attempt[e].http # "none" => e \in wire)'
    BY DEF EvidenceBeforeWire
  <2>1. CASE e = c
    <3>1. Stored(attempt[c].delivery)'
      BY <1>4, <1>1 DEF Stored
    <3> QED
      BY <1>1, <2>1, <3>1
  <2>2. CASE e # c
    <3>1. e \in wire => Stored(attempt[e].delivery)'
      BY <1>1, <1>5, <2>2 DEF EvidenceBeforeWire, AwaitOK, Stored
    <3> QED
      BY <1>2, <2>2, <3>1 DEF EvidenceBeforeWire
  <2> QED
    BY <2>1, <2>2
<1> QED
  BY <1>6, <1>7

LEMMA BeginEvidence ==
    ASSUME Typing, Evidence, NEW c \in Calls, Begin(c)
    PROVE  Evidence'
<1> DEFINE d == Subject(c)
           number == NextNumber(c)
           sent == [delivery |-> d, number |-> number, from |-> OutgoingHeaders(c)]
           row == [status |-> "pending", delivery |-> d, number |-> number,
                   http |-> "none", error |-> "none"]
<1>1. /\ pc[c] = "begin" /\ req[c] \in Request /\ Stored(d) /\ d \in Calls
      /\ view[c] \in View
  BY SubjectType DEF Begin, At, Typing, ControlOK
<1>2. /\ attempt' = [attempt EXCEPT ![c] = row]
      /\ request' = [request EXCEPT ![c] = sent] \/ UNCHANGED request
      /\ UNCHANGED <<on, req, wire>>
  BY DEF Begin, RecordAttempt
<1>3. pc' = [pc EXCEPT ![c] = "await"] \/ pc' = [pc EXCEPT ![c] = "done"]
  BY DEF Begin, Answer, Goto
<1> HIDE DEF sent, row, number, d
<1>4. \A e \in Calls : Stored(e) => Stored(e)'
  <2>1. delivery[d] \in CallbackDelivery /\ delivery[d].status \in Status
    BY <1>1 DEF Typing, TypeOK, Stored, CallbackDelivery
  <2>2. Flush(view[c].status, "pending", delivery[d].status) \in Status
    BY <2>1, FlushType DEF Status
  <2>3. delivery' = [delivery EXCEPT
            ![d].status = Flush(view[c].status, "pending", @), ![d].count = number]
    BY DEF Begin, RecordAttempt, d, number
  <2>4. \A e \in Calls : delivery'[e].status = IF e = d
            THEN Flush(view[c].status, "pending", delivery[d].status)
            ELSE delivery[e].status
    BY <1>1, <2>1, <2>3 DEF Typing, TypeOK, CallbackDelivery
  <2> QED
    BY <2>2, <2>4 DEF Stored, Status
<1>5. /\ attempt'[c] = row /\ request'[c] \in {sent, None}
      /\ \A e \in Calls \ {c} : /\ pc'[e] = pc[e]
                                /\ attempt'[e] = attempt[e]
                                /\ request'[e] = request[e]
      /\ pc'[c] \in {"await", "done"}
      /\ c \notin wire'
  <2>1. request[c] = None /\ c \notin wire
    BY <1>1 DEF Evidence, AwaitOK
  <2> QED
    BY <1>2, <1>3, <2>1 DEF Typing, TypeOK
<1>6. /\ row.status = "pending" /\ row.delivery = d /\ row.http = "none"
      /\ sent.delivery = d /\ sent.number = row.number
  BY DEF row, sent
<1>7. Recorded(c)'
  BY <1>5, <1>6 DEF Recorded
<1> QED
  BY <1>1, <1>2, <1>4, <1>5, <1>6, <1>7, CommitEvidence DEF d

LEMMA TransmitEvidence ==
    ASSUME Typing, Evidence, NEW c \in Calls, Transmit(c)
    PROVE  Evidence'
<1>1. /\ request[c] # None /\ Recorded(c) /\ pc[c] \in {"await", "finished", "done"}
      /\ pc[c] = "await" => attempt[c].status = "pending"
      /\ req[c] \in Request /\ Stored(Subject(c))
      /\ attempt[c].delivery = Subject(c) /\ request[c].delivery = Subject(c)
      /\ request[c].number = attempt[c].number
  BY DEF Transmit, Typing, ControlOK, Evidence, AwaitOK
<1>2. /\ UNCHANGED <<pc, on, req, attempt, delivery, request>>
      /\ wire' = wire \cup {c}
  BY DEF Transmit, tables
<1>3. Recorded(c)' /\ \A e \in Calls : Stored(e) => Stored(e)'
  BY <1>1, <1>2 DEF Recorded, Stored
<1> QED
  BY <1>1, <1>2, <1>3, CommitEvidence

LEMMA FinishEvidence ==
    ASSUME Typing, Evidence, NEW c \in Calls, Finish(c)
    PROVE  Evidence'
<1> DEFINE d == Subject(c)
<1>1. /\ pc[c] = "await" /\ req[c] \in Request /\ Stored(d) /\ Recorded(c)
      /\ d \in Calls
      /\ attempt[c].delivery = d
      /\ request[c] # None => request[c].delivery = d /\ request[c].number = attempt[c].number
      /\ c \in wire => request[c] # None
  BY SubjectType DEF Finish, Typing, ControlOK, Evidence, AwaitOK
<1>2. PICK o \in Outcome :
        /\ c \notin wire => o.error = "transport"
        /\ attempt' = [attempt EXCEPT ![c].status = o.status,
                                      ![c].http = o.http, ![c].error = o.error]
        /\ delivery' = [delivery EXCEPT
               ![d].status = Flush(view[c].status, o.status, @),
               ![d].http = Flush(view[c].http, o.http, @),
               ![d].error = Flush(view[c].error, o.error, @),
               ![d].stamped = @ \/ o.status = "delivered"]
  BY DEF Finish, RecordOutcome
<1>3. o.status \in {"delivered", "failed"} /\ (o.error = "transport" => o.http = "none")
  BY DEF Outcome
<1>4. \A e \in Calls : Stored(e) => Stored(e)'
  <2>1. delivery[d] \in CallbackDelivery /\ delivery[d].status \in Status
    BY <1>1 DEF Typing, TypeOK, Stored, CallbackDelivery
  <2>2. Flush(view[c].status, o.status, delivery[d].status) \in Status
    BY <1>3, <2>1, FlushType DEF Status
  <2>3. \A e \in Calls : delivery'[e].status = IF e = d
            THEN Flush(view[c].status, o.status, delivery[d].status)
            ELSE delivery[e].status
    BY <1>1, <1>2, <2>1 DEF Typing, TypeOK, CallbackDelivery
  <2> QED
    BY <2>2, <2>3 DEF Stored, Status
<1>5. /\ attempt'[c].status = o.status /\ attempt'[c].http = o.http
      /\ attempt'[c].delivery = attempt[c].delivery
      /\ attempt'[c].number = attempt[c].number
      /\ \A e \in Calls \ {c} : attempt'[e] = attempt[e]
  BY <1>2 DEF Typing, TypeOK, DeliveryAttempt
<1>6. /\ UNCHANGED <<on, req, request, wire>>
      /\ pc'[c] = "finished" /\ \A e \in Calls \ {c} : pc'[e] = pc[e]
  BY DEF Finish, Goto, Typing, TypeOK, sends
<1>7. Recorded(c)' /\ (attempt'[c].http # "none" => c \in wire')
  BY <1>1, <1>2, <1>3, <1>5, <1>6 DEF Recorded
<1> QED
  BY <1>1, <1>4, <1>5, <1>6, <1>7, CommitEvidence

\* What the actions that only read the tables, or only insert a delivery, change.
QuietStep ==
    \/ \E c \in Calls, w \in Workers : Receive(c, w)
    \/ \E c \in Calls : \/ Validate(c) \/ Lookup(c) \/ Relookup(c) \/ Insert(c)
                        \/ Remember(c) \/ Load(c) \/ Refuse(c) \/ Respond(c)
                        \/ StoreError(c)
    \/ \E w \in Workers : Crash(w)
    \/ UNCHANGED vars

LEMMA QuietEffect ==
    ASSUME Typing, QuietStep
    PROVE  /\ UNCHANGED <<attempt, request, wire>>
           /\ \A e \in Calls :
                \/ req'[e] = req[e] /\ pc'[e] \in {pc[e], "done"}
                \/ /\ pc[e] \notin {"await", "finished", "done"}
                   /\ pc'[e] \notin {"await", "finished"}
<1> DEFINE Effect == /\ UNCHANGED <<attempt, request, wire>>
                     /\ \A e \in Calls :
                          \/ req'[e] = req[e] /\ pc'[e] \in {pc[e], "done"}
                          \/ /\ pc[e] \notin {"await", "finished", "done"}
                             /\ pc'[e] \notin {"await", "finished"}
<1> USE DEF Typing
<1>1. ASSUME NEW c \in Calls, NEW w \in Workers, Receive(c, w)
      PROVE  Effect
  <2>1. \E r, label : /\ label \in {"insert", "validate", "load"}
                      /\ Accept(c, w, r, label)
    BY <1>1 DEF Receive, ReceiveCreate, ReceiveForm, ReceiveRetry, RetryForm
  <2> QED
    BY <2>1 DEF Accept, Goto, TypeOK, tables, sends
<1>2. ASSUME NEW c \in Calls, Validate(c) \/ Lookup(c) \/ Relookup(c) PROVE Effect
  BY <1>2 DEF Validate, Lookup, Relookup, _replay_or_conflict, At, Answer, Goto, TypeOK,
     tables, sends
<1>3. ASSUME NEW c \in Calls, Insert(c) \/ Remember(c) PROVE Effect
  BY <1>3 DEF Insert, Remember, At, Goto, TypeOK, tables, sends
<1>4. ASSUME NEW c \in Calls, Load(c) PROVE Effect
  BY <1>4 DEF Load, At, Answer, Goto, TypeOK, tables, sends
<1>5. ASSUME NEW c \in Calls, Refuse(c) \/ Respond(c) \/ StoreError(c) PROVE Effect
  BY <1>5 DEF Refuse, Respond, StoreError, Answer, Goto, TypeOK, tables, sends
<1>6. ASSUME NEW w \in Workers, Crash(w) PROVE Effect
  BY <1>6 DEF Crash, TypeOK, tables, sends
<1>7. CASE UNCHANGED vars
  BY <1>7 DEF vars
<1> QED
  BY <1>1, <1>2, <1>3, <1>4, <1>5, <1>6, <1>7 DEF QuietStep

\* No step removes a delivery, and quiet steps only insert one.
LEMMA QuietRows ==
    ASSUME Typing, QuietStep
    PROVE  \/ UNCHANGED delivery
           \/ \E c \in Calls : Insert(c)
<1>1. ASSUME NEW c \in Calls, NEW w \in Workers, Receive(c, w)
      PROVE  UNCHANGED delivery
  BY <1>1 DEF Receive, ReceiveCreate, ReceiveForm, ReceiveRetry, RetryForm, Accept, tables
<1> QED
  BY <1>1 DEF QuietStep, Validate, Lookup, Relookup, Remember, Load, Refuse, Respond,
     StoreError, Crash, tables, vars

\* An insert adds the row of its own call and keeps the others.
LEMMA InsertEffect ==
    ASSUME Typing, NEW c \in Calls, Insert(c)
    PROVE  \/ UNCHANGED delivery
           \/ /\ delivery'[c].status = "pending"
              /\ delivery'[c].key = req[c].key
              /\ delivery'[c].key # None => delivery'[c].fingerprint = FingerprintOf(c)
              /\ ~delivery'[c].stamped
              /\ \A d \in Calls \ {c} : delivery'[d] = delivery[d]
              /\ delivery'[c].key = None \/ WithKey(delivery'[c].key) = {}
              /\ pc'[c] = "inserted"
<1>1. CASE Goto(c, "relookup") /\ UNCHANGED <<view, delivery>>
  BY <1>1
<1>2. CASE /\ req[c].key = None \/ WithKey(req[c].key) = {}
           /\ delivery' = [delivery EXCEPT ![c] =
                  [status |-> "pending", key |-> req[c].key,
                   fingerprint |-> IF req[c].key = None
                                   THEN None ELSE FingerprintOf(c),
                   headers |-> redact_headers(req[c].headers),
                   payload |-> req[c].payload, count |-> 0,
                   http |-> "none", error |-> "none", stamped |-> FALSE]]
           /\ Goto(c, "inserted")
  <2>1. delivery'[c] = [status |-> "pending", key |-> req[c].key,
                        fingerprint |-> IF req[c].key = None
                                        THEN None ELSE FingerprintOf(c),
                        headers |-> redact_headers(req[c].headers),
                        payload |-> req[c].payload, count |-> 0,
                        http |-> "none", error |-> "none", stamped |-> FALSE]
    BY <1>2 DEF Typing, TypeOK
  <2>2. \A d \in Calls \ {c} : delivery'[d] = delivery[d]
    BY <1>2 DEF Typing, TypeOK
  <2>3. pc'[c] = "inserted"
    BY <1>2 DEF Goto, Typing, TypeOK
  <2> QED
    BY <1>2, <2>1, <2>2, <2>3
<1> QED
  BY <1>1, <1>2 DEF Insert, KeyTaken

LEMMA NextEvidence == Typing /\ Evidence /\ [Next]_vars => Evidence'
<1> SUFFICES ASSUME Typing, Evidence, [Next]_vars PROVE Evidence'
  OBVIOUS
<1>1. CASE QuietStep
  <2>1. \A d \in Calls : Stored(d) => Stored(d)'
    <3>1. ASSUME NEW c \in Calls, Insert(c) PROVE \A d \in Calls : Stored(d) => Stored(d)'
      BY <3>1, InsertEffect DEF Stored
    <3> QED
      BY <1>1, <3>1, QuietRows DEF Stored
  <2> QED
    BY <1>1, <2>1, QuietEffect, QuietEvidence
<1>2. ASSUME NEW c \in Calls, Begin(c) \/ Transmit(c) \/ Finish(c) PROVE Evidence'
  BY <1>2, BeginEvidence, TransmitEvidence, FinishEvidence
<1>3. \/ QuietStep
      \/ \E c \in Calls : Begin(c) \/ Transmit(c) \/ Finish(c)
  BY DEF Next, Step, QuietStep, Terminated
<1> QED
  BY <1>1, <1>2, <1>3

\* "Persist before send", for any number of workers, crashes and failing
\* commits: what a partner received was on record before, with the same
\* delivery and attempt number, and no answer is on record that was not given.
THEOREM PersistBeforeSend == Spec => []EvidenceBeforeWire
<1>1. Init => Typing /\ Evidence
  BY InitTyping, InitEvidence
<1>2. Typing /\ Evidence /\ [Next]_vars => Typing' /\ Evidence'
  BY NextTyping, NextEvidence
<1>3. Evidence => EvidenceBeforeWire
  BY DEF Evidence
<1> QED
  BY <1>1, <1>2, <1>3, PTL DEF Spec

-----------------------------------------------------------------------------
(* Idempotent creation *)

\* What a step does to the row of d when it is not an insert.
LEMMA RowEffect ==
    ASSUME Typing, [Next]_vars, \A c \in Calls : ~Insert(c), NEW d \in Calls
    PROVE  /\ Stored(d) <=> Stored(d)'
           /\ delivery'[d].key = delivery[d].key
           /\ delivery'[d].fingerprint = delivery[d].fingerprint
<1> DEFINE Same == /\ Stored(d) <=> Stored(d)'
                   /\ delivery'[d].key = delivery[d].key
                   /\ delivery'[d].fingerprint = delivery[d].fingerprint
<1>1. CASE UNCHANGED delivery
  BY <1>1 DEF Stored
<1>2. ASSUME NEW c \in Calls, Begin(c) PROVE Same
  <2>1. Stored(Subject(c))
    BY <1>2 DEF Begin, At, Typing, ControlOK
  <2>2. Stored(d) => Flush(view[c].status, "pending", delivery[d].status) # "absent"
    BY DEF Flush, Stored
  <2>3. delivery' = [delivery EXCEPT
            ![Subject(c)].status = Flush(view[c].status, "pending", @),
            ![Subject(c)].count = NextNumber(c)]
    BY <1>2 DEF Begin, RecordAttempt
  <2> QED
    BY <2>1, <2>2, <2>3 DEF Typing, TypeOK, CallbackDelivery, Stored
<1>3. ASSUME NEW c \in Calls, Finish(c) PROVE Same
  <2>1. Stored(Subject(c))
    BY <1>3 DEF Finish, Typing, ControlOK
  <2>2. PICK o \in Outcome :
            delivery' = [delivery EXCEPT
               ![Subject(c)].status = Flush(view[c].status, o.status, @),
               ![Subject(c)].http = Flush(view[c].http, o.http, @),
               ![Subject(c)].error = Flush(view[c].error, o.error, @),
               ![Subject(c)].stamped = @ \/ o.status = "delivered"]
    BY <1>3 DEF Finish, RecordOutcome
  <2>3. Stored(d) => Flush(view[c].status, o.status, delivery[d].status) # "absent"
    BY DEF Flush, Stored, Outcome
  <2> QED
    BY <2>1, <2>2, <2>3 DEF Typing, TypeOK, CallbackDelivery, Stored
<1>4. \/ UNCHANGED delivery
      \/ \E c \in Calls : Begin(c) \/ Finish(c)
  <2>1. \/ QuietStep
        \/ \E c \in Calls : Begin(c) \/ Transmit(c) \/ Finish(c)
    BY DEF Next, Step, QuietStep, Terminated
  <2> QED
    BY <2>1, QuietRows DEF Transmit, tables
<1> QED
  BY <1>1, <1>2, <1>3, <1>4

\* Rows stay, with the key and the fingerprint they were inserted with.
LEMMA RowsStay ==
    ASSUME Typing, RowsOK, [Next]_vars, NEW d \in Calls, Stored(d)
    PROVE  /\ Stored(d)'
           /\ delivery'[d].key = delivery[d].key
           /\ delivery'[d].fingerprint = delivery[d].fingerprint
<1>1. CASE \A c \in Calls : ~Insert(c)
  BY <1>1, RowEffect
<1>2. ASSUME NEW c \in Calls, Insert(c)
      PROVE  delivery'[d] = delivery[d]
  <2>1. c # d
    BY <1>2 DEF Insert, At, RowsOK
  <2> QED
    BY <1>2, <2>1, InsertEffect
<1> QED
  BY <1>1, <1>2 DEF Stored

\* Only a call's own insert makes its row, and only under a fresh key.
LEMMA RowsNew ==
    ASSUME Typing, [Next]_vars, NEW d \in Calls, ~Stored(d), Stored(d)'
    PROVE  /\ Insert(d)
           /\ delivery'[d].key = req[d].key
           /\ delivery'[d].key # None => delivery'[d].fingerprint = FingerprintOf(d)
           /\ delivery'[d].key = None \/ WithKey(delivery'[d].key) = {}
           /\ pc'[d] = "inserted"
<1>1. PICK c \in Calls : Insert(c)
  BY RowEffect
<1>2. c = d
  BY <1>1, InsertEffect DEF Stored
<1> QED
  BY <1>1, <1>2, InsertEffect DEF Stored

\* What a step does to the control of one call.
LEMMA CallEffect ==
    ASSUME Typing, [Next]_vars, NEW c \in Calls
    PROVE  /\ pc[c] # "waiting" => req'[c] = req[c]
           /\ pc[c] = "done" => pc'[c] = "done" /\ reply'[c] = reply[c]
           /\ reply'[c] # reply[c] => pc[c] # "waiting" /\ pc'[c] = "done"
           /\ pc[c] \in {"inserted", "begin", "await", "finished", "done"}
                 => pc'[c] \in {"inserted", "begin", "await", "finished", "done"}
<1> DEFINE Late == {"inserted", "begin", "await", "finished", "done"}
           Effect == /\ pc[c] # "waiting" => req'[c] = req[c]
                     /\ pc[c] = "done" => pc'[c] = "done" /\ reply'[c] = reply[c]
                     /\ reply'[c] # reply[c] => pc[c] # "waiting" /\ pc'[c] = "done"
                     /\ pc[c] \in Late => pc'[c] \in Late
<1> USE DEF Typing
<1>1. ASSUME NEW e \in Calls, NEW w \in Workers, Receive(e, w)
      PROVE  Effect
  <2>1. \E r, label : Accept(e, w, r, label)
    BY <1>1 DEF Receive, ReceiveCreate, ReceiveForm, ReceiveRetry, RetryForm
  <2> QED
    BY <2>1 DEF Accept, Goto, TypeOK
<1>2. ASSUME NEW e \in Calls, Validate(e) \/ Lookup(e) \/ Relookup(e) PROVE Effect
  BY <1>2 DEF Validate, Lookup, Relookup, _replay_or_conflict, At, Answer, Goto, TypeOK
<1>3. ASSUME NEW e \in Calls, Insert(e) \/ Remember(e) \/ Transmit(e) \/ Finish(e)
      PROVE  Effect
  BY <1>3 DEF Insert, Remember, Transmit, Finish, At, Goto, TypeOK
<1>4. ASSUME NEW e \in Calls, Load(e) PROVE Effect
  BY <1>4 DEF Load, At, Answer, Goto, TypeOK
<1>5. ASSUME NEW e \in Calls, Refuse(e) \/ Begin(e) \/ Respond(e) PROVE Effect
  BY <1>5 DEF Refuse, Begin, Respond, At, Answer, Goto, TypeOK
<1>6. ASSUME NEW e \in Calls, StoreError(e) PROVE Effect
  BY <1>6 DEF StoreError, At, Answer, Goto, TypeOK
<1>7. ASSUME NEW w \in Workers, Crash(w) PROVE Effect
  BY <1>7 DEF Crash, Active, TypeOK
<1>8. CASE UNCHANGED vars
  BY <1>8 DEF vars
<1> QED
  BY <1>1, <1>2, <1>3, <1>4, <1>5, <1>6, <1>7, <1>8 DEF Next, Step, Terminated

\* The answers that name a delivery to a create call.
LEMMA AnswerEffect ==
    ASSUME Typing, [Next]_vars, NEW c \in Calls, reply'[c] # reply[c],
           req[c].kind = "create"
    PROVE  \/ reply'[c].code \notin {"created", "replayed", "conflict"}
           \/ reply'[c] = [code |-> "created", delivery |-> c] /\ Stored(c)
           \/ \E d \in WithKey(req[c].key) :
                 reply'[c] = [code |-> IF delivery[d].fingerprint = FingerprintOf(c)
                                       THEN "replayed" ELSE "conflict",
                              delivery |-> d]
<1> DEFINE Effect == \/ reply'[c].code \notin {"created", "replayed", "conflict"}
                     \/ reply'[c] = [code |-> "created", delivery |-> c] /\ Stored(c)
                     \/ \E d \in WithKey(req[c].key) :
                           reply'[c] = [code |-> IF delivery[d].fingerprint = FingerprintOf(c)
                                                 THEN "replayed" ELSE "conflict",
                                        delivery |-> d]
<1> USE DEF Typing
<1>1. ASSUME NEW e \in Calls, NEW w \in Workers, Receive(e, w)
      PROVE  Effect
  BY <1>1 DEF Receive, ReceiveCreate, ReceiveForm, ReceiveRetry, RetryForm, Accept
<1>2. ASSUME NEW e \in Calls, Lookup(e) \/ Relookup(e) PROVE Effect
  <2>1. e = c
    BY <1>2 DEF Lookup, Relookup, _replay_or_conflict, Answer, TypeOK
  <2> QED
    BY <1>2, <2>1 DEF Lookup, Relookup, _replay_or_conflict, Answer, TypeOK
<1>3. ASSUME NEW e \in Calls, Insert(e) \/ Remember(e) \/ Transmit(e) \/ Finish(e)
      PROVE  Effect
  BY <1>3 DEF Insert, Remember, Transmit, Finish
<1>4. ASSUME NEW e \in Calls, Validate(e) \/ Load(e) \/ Refuse(e) \/ Begin(e) \/ StoreError(e)
      PROVE  Effect
  <2>1. \E code \in {"bad_key", "error", "not_found", "not_failed", "invalid_headers",
                     "unavailable"} :
           \E d : \/ reply' = [reply EXCEPT ![e] = [code |-> code, delivery |-> d]]
                  \/ UNCHANGED reply
    BY <1>4 DEF Validate, Load, Refuse, Begin, StoreError, Answer
  <2> QED
    BY <2>1 DEF TypeOK
<1>5. ASSUME NEW e \in Calls, Respond(e) PROVE Effect
  <2>1. e = c
    BY <1>5 DEF Respond, Answer, TypeOK
  <2>2. Subject(c) = c /\ Stored(c) /\ ~IsRetry(c)
    BY <1>5, <2>1 DEF Respond, At, Subject, ControlOK, IsRetry
  <2> QED
    BY <1>5, <2>1, <2>2 DEF Respond, Answer, TypeOK
<1>6. ASSUME NEW w \in Workers, Crash(w) PROVE Effect
  BY <1>6 DEF Crash
<1>7. CASE UNCHANGED vars
  BY <1>7 DEF vars
<1> QED
  BY <1>1, <1>2, <1>3, <1>4, <1>5, <1>6, <1>7 DEF Next, Step, Terminated

Creation == RowsOK /\ UniqueKeys /\ RepliesOK

LEMMA InitCreation == Init => Creation
BY DEF Init, Creation, RowsOK, UniqueKeys, RepliesOK, Stored

LEMMA NextRowsOK == Typing /\ RowsOK /\ [Next]_vars => RowsOK'
<1> SUFFICES ASSUME Typing, RowsOK, [Next]_vars, NEW d \in Calls, Stored(d)'
             PROVE  (/\ pc[d] \in {"inserted", "begin", "await", "finished", "done"}
                     /\ req[d].kind = "create"
                     /\ delivery[d].key = req[d].key
                     /\ delivery[d].key # None
                           => delivery[d].fingerprint = FingerprintOf(d))'
  BY DEF RowsOK
<1>1. CASE Stored(d)
  <2>1. /\ pc[d] \in {"inserted", "begin", "await", "finished", "done"}
        /\ req[d].kind = "create"
        /\ delivery[d].key = req[d].key
        /\ delivery[d].key # None => delivery[d].fingerprint = FingerprintOf(d)
    BY <1>1 DEF RowsOK
  <2>2. req'[d] = req[d] /\ FingerprintOf(d)' = FingerprintOf(d)
    BY <2>1, CallEffect DEF FingerprintOf, request_fingerprint, redact_headers
  <2> QED
    BY <1>1, <2>1, <2>2, RowsStay, CallEffect
<1>2. CASE ~Stored(d)
  <2>1. Insert(d)
    BY <1>2, RowsNew
  <2>2. req[d].kind = "create" /\ UNCHANGED req
    BY <2>1 DEF Insert, At, Typing, ControlOK
  <2>3. FingerprintOf(d)' = FingerprintOf(d)
    BY <2>2 DEF FingerprintOf
  <2> QED
    BY <1>2, <2>2, <2>3, RowsNew
<1> QED
  BY <1>1, <1>2

LEMMA NextUniqueKeys == Typing /\ RowsOK /\ UniqueKeys /\ [Next]_vars => UniqueKeys'
<1> SUFFICES ASSUME Typing, RowsOK, UniqueKeys, [Next]_vars,
                    NEW d \in Calls, NEW e \in Calls, Stored(d)', Stored(e)',
                    delivery'[d].key = delivery'[e].key, delivery'[d].key # None
             PROVE  d = e
  BY DEF UniqueKeys
<1>1. CASE Stored(d) /\ Stored(e)
  BY <1>1, RowsStay DEF UniqueKeys
<1>2. CASE ~Stored(d) /\ ~Stored(e)
  <2>1. Insert(d) /\ Insert(e)
    BY <1>2, RowsNew
  <2>2. pc[e] = "insert" /\ pc' = [pc EXCEPT ![d] = pc'[d]]
    BY <2>1 DEF Insert, At, Goto, Typing, TypeOK
  <2>3. pc'[e] = "inserted"
    BY <1>2, RowsNew
  <2> QED
    BY <2>2, <2>3 DEF Typing, TypeOK
<1>3. ASSUME NEW x \in Calls, NEW y \in Calls, Stored(x), ~Stored(y), Stored(y)',
             delivery'[x].key = delivery'[y].key, delivery'[y].key # None
      PROVE  FALSE
  <2>1. WithKey(delivery'[y].key) = {}
    BY <1>3, RowsNew
  <2>2. delivery[x].key = delivery'[y].key
    BY <1>3, RowsStay
  <2> QED
    BY <1>3, <2>1, <2>2 DEF WithKey
<1> QED
  BY <1>1, <1>2, <1>3

LEMMA NextRepliesOK == Typing /\ RowsOK /\ RepliesOK /\ [Next]_vars => RepliesOK'
<1> SUFFICES ASSUME Typing, RowsOK, RepliesOK, [Next]_vars,
                    NEW c \in Calls, reply'[c] # None
             PROVE  (/\ pc[c] = "done"
                     /\ req[c].kind = "create" /\ reply[c].code = "created"
                           => Stored(c) /\ reply[c].delivery = c
                     /\ req[c].kind = "create" /\ reply[c].code \in {"replayed", "conflict"}
                           => /\ Stored(reply[c].delivery)
                              /\ reply[c].delivery \in Calls
                              /\ delivery[reply[c].delivery].key = req[c].key
                              /\ reply[c].code = "replayed" <=>
                                    delivery[reply[c].delivery].fingerprint
                                       = FingerprintOf(c))'
  BY DEF RepliesOK
<1>1. CASE reply'[c] = reply[c]
  <2>1. pc[c] = "done"
    BY <1>1 DEF RepliesOK
  <2>2. req'[c] = req[c] /\ pc'[c] = "done" /\ FingerprintOf(c)' = FingerprintOf(c)
    BY <2>1, CallEffect DEF FingerprintOf
  <2>3. req[c].kind = "create" /\ reply[c].code = "created"
           => Stored(c)' /\ reply[c].delivery = c
    BY <1>1, RowsStay DEF RepliesOK
  <2>4. req[c].kind = "create" /\ reply[c].code \in {"replayed", "conflict"}
           => /\ Stored(reply[c].delivery)'
              /\ reply[c].delivery \in Calls
              /\ delivery'[reply[c].delivery].key = req[c].key
              /\ reply[c].code = "replayed" <=>
                    delivery'[reply[c].delivery].fingerprint = FingerprintOf(c)
    <3> SUFFICES ASSUME req[c].kind = "create", reply[c].code \in {"replayed", "conflict"}
                 PROVE  /\ Stored(reply[c].delivery)'
                        /\ reply[c].delivery \in Calls
                        /\ delivery'[reply[c].delivery].key = req[c].key
                        /\ reply[c].code = "replayed" <=>
                              delivery'[reply[c].delivery].fingerprint = FingerprintOf(c)
      OBVIOUS
    <3> DEFINE d == reply[c].delivery
    <3>1. /\ Stored(d) /\ d \in Calls /\ delivery[d].key = req[c].key
          /\ reply[c].code = "replayed" <=> delivery[d].fingerprint = FingerprintOf(c)
      BY <1>1 DEF RepliesOK
    <3>2. delivery'[d].status # "absent" /\ delivery'[d].key = delivery[d].key
          /\ delivery'[d].fingerprint = delivery[d].fingerprint
      BY <3>1, RowsStay DEF Stored
    <3> QED
      BY <1>1, <3>1, <3>2 DEF Stored
  <2> QED
    BY <1>1, <2>1, <2>2, <2>3, <2>4 DEF Stored
<1>2. CASE reply'[c] # reply[c]
  <2>1. pc'[c] = "done" /\ pc[c] # "waiting"
    BY <1>2, CallEffect
  <2>2. req'[c] = req[c] /\ FingerprintOf(c)' = FingerprintOf(c)
    BY <2>1, CallEffect DEF FingerprintOf
  <2>3. CASE req[c].kind = "create"
    <3>1. CASE reply'[c].code \notin {"created", "replayed", "conflict"}
      BY <2>1, <3>1
    <3>2. CASE reply'[c] = [code |-> "created", delivery |-> c] /\ Stored(c)
      BY <2>1, <3>2, RowsStay
    <3>3. CASE \E d \in WithKey(req[c].key) :
                  reply'[c] = [code |-> IF delivery[d].fingerprint = FingerprintOf(c)
                                        THEN "replayed" ELSE "conflict",
                               delivery |-> d]
      <4>1. PICK d \in WithKey(req[c].key) :
                  reply'[c] = [code |-> IF delivery[d].fingerprint = FingerprintOf(c)
                                        THEN "replayed" ELSE "conflict",
                               delivery |-> d]
        BY <3>3
      <4>2. d \in Calls /\ Stored(d) /\ delivery[d].key = req[c].key
        BY DEF WithKey
      <4>3. /\ delivery'[d].status # "absent" /\ delivery'[d].key = req[c].key
            /\ delivery'[d].fingerprint = delivery[d].fingerprint
        BY <4>2, RowsStay DEF Stored
      <4>4. /\ reply'[c].delivery = d
            /\ reply'[c].code \in {"replayed", "conflict"}
            /\ reply'[c].code = "replayed" <=> delivery[d].fingerprint = FingerprintOf(c)
        BY <4>1
      <4> QED
        BY <2>1, <2>2, <4>2, <4>3, <4>4 DEF Stored
    <3> QED
      BY <1>2, <2>3, <3>1, <3>2, <3>3, AnswerEffect
  <2>4. CASE req[c].kind # "create"
    BY <2>1, <2>2, <2>4
  <2> QED
    BY <2>3, <2>4
<1> QED
  BY <1>1, <1>2

LEMMA NextCreation == Typing /\ Creation /\ [Next]_vars => Creation'
BY NextRowsOK, NextUniqueKeys, NextRepliesOK DEF Creation

LEMMA RepliesAgree == Creation => ReplaysAgree
<1> SUFFICES ASSUME Creation, NEW c \in Calls, reply[c] # None, IsCreate(c),
                    req[c].key # None
             PROVE  /\ reply[c].code \in {"created", "replayed"} =>
                          \A e \in Calls :
                              /\ reply[e] # None /\ IsCreate(e) /\ req[e].key = req[c].key
                              /\ reply[e].code \in {"created", "replayed"}
                              => /\ reply[e].delivery = reply[c].delivery
                                 /\ FingerprintOf(e) = FingerprintOf(c)
                    /\ reply[c].code = "conflict" =>
                          /\ req[reply[c].delivery].key = req[c].key
                          /\ FingerprintOf(reply[c].delivery) # FingerprintOf(c)
  BY DEF ReplaysAgree
<1> USE DEF Creation
<1>1. ASSUME NEW e \in Calls, reply[e] # None, IsCreate(e), req[e].key # None,
             reply[e].code \in {"created", "replayed"}
      PROVE  LET d == reply[e].delivery
             IN  /\ d \in Calls /\ Stored(d) /\ delivery[d].key = req[e].key
                 /\ delivery[d].fingerprint = FingerprintOf(e)
  BY <1>1 DEF RepliesOK, RowsOK, IsCreate
<1>2. ASSUME reply[c].code \in {"created", "replayed"},
             NEW e \in Calls, reply[e] # None, IsCreate(e), req[e].key = req[c].key,
             reply[e].code \in {"created", "replayed"}
      PROVE  /\ reply[e].delivery = reply[c].delivery
             /\ FingerprintOf(e) = FingerprintOf(c)
  <2> DEFINE dc == reply[c].delivery
             de == reply[e].delivery
  <2>1. /\ dc \in Calls /\ Stored(dc) /\ delivery[dc].key = req[c].key
        /\ delivery[dc].fingerprint = FingerprintOf(c)
    BY <1>1, <1>2
  <2>2. /\ de \in Calls /\ Stored(de) /\ delivery[de].key = req[c].key
        /\ delivery[de].fingerprint = FingerprintOf(e)
    BY <1>1, <1>2
  <2> HIDE DEF dc, de
  <2>3. dc = de
    BY <2>1, <2>2 DEF UniqueKeys
  <2> QED
    BY <2>1, <2>2, <2>3 DEF dc, de
<1>3. ASSUME reply[c].code = "conflict"
      PROVE  /\ req[reply[c].delivery].key = req[c].key
             /\ FingerprintOf(reply[c].delivery) # FingerprintOf(c)
  BY <1>3 DEF RepliesOK, RowsOK, IsCreate
<1> QED
  BY <1>2, <1>3

\* Idempotent creation, for any number of workers racing for a key: calls that
\* are answered with a delivery for one key get the same delivery and asked for
\* the same, and a conflict is reported only against a different request.
THEOREM IdempotentCreation == Spec => []ReplaysAgree
<1>1. Init => Typing /\ Creation
  BY InitTyping, InitCreation
<1>2. Typing /\ Creation /\ [Next]_vars => Typing' /\ Creation'
  BY NextTyping, NextCreation
<1> QED
  BY <1>1, <1>2, RepliesAgree, PTL DEF Spec

\* However workers race, crash or fail, at most one create call with a given key
\* transmits anything to the partner.
THEOREM KeySentOnce == Spec => []OneSendPerKey
<1>1. Init => Typing /\ Evidence /\ Creation
  BY InitTyping, InitEvidence, InitCreation
<1>2. Typing /\ Evidence /\ Creation /\ [Next]_vars => Typing' /\ Evidence' /\ Creation'
  BY NextTyping, NextEvidence, NextCreation
<1>3. Typing /\ Evidence /\ Creation => OneSendPerKey
  <2> SUFFICES ASSUME Typing, Evidence, Creation, NEW c \in wire, NEW e \in wire,
                      c \in Calls, e \in Calls,
                      IsCreate(c), IsCreate(e), req[c].key = req[e].key, req[c].key # None
               PROVE  c = e
    BY DEF OneSendPerKey, Typing, TypeOK
  <2>1. ASSUME NEW x \in wire, x \in Calls, IsCreate(x)
        PROVE  Stored(x) /\ delivery[x].key = req[x].key
    BY <2>1 DEF Evidence, EvidenceBeforeWire, AwaitOK, IsCreate, Subject, Creation, RowsOK
  <2> QED
    BY <2>1 DEF Creation, UniqueKeys
<1> QED
  BY <1>1, <1>2, <1>3, PTL DEF Spec

-----------------------------------------------------------------------------
(* Evidence is kept *)

\* Only the second commit of a call changes the attempt it recorded, and then
\* the attempt was pending.
LEMMA NextKeeps == Typing /\ Evidence /\ [Next]_vars => KeepsEvidence
<1> SUFFICES ASSUME Typing, Evidence, [Next]_vars, NEW c \in Calls, Recorded(c)
             PROVE  /\ attempt'[c].delivery = attempt[c].delivery
                    /\ attempt'[c].number = attempt[c].number
                    /\ attempt[c].status # "pending" => attempt'[c] = attempt[c]
  BY DEF KeepsEvidence
<1>1. CASE QuietStep
  BY <1>1, QuietEffect
<1>2. ASSUME NEW e \in Calls, Begin(e) PROVE attempt'[c] = attempt[c]
  <2>1. e # c
    BY <1>2 DEF Begin, At, Evidence, AwaitOK
  <2> QED
    BY <1>2, <2>1 DEF Begin, RecordAttempt, Typing, TypeOK
<1>3. ASSUME NEW e \in Calls, Transmit(e) PROVE attempt'[c] = attempt[c]
  BY <1>3 DEF Transmit, tables
<1>4. ASSUME NEW e \in Calls, Finish(e)
      PROVE  /\ attempt'[c].delivery = attempt[c].delivery
             /\ attempt'[c].number = attempt[c].number
             /\ attempt[c].status # "pending" => attempt'[c] = attempt[c]
  <2>1. attempt[e].status = "pending"
    BY <1>4 DEF Finish, Evidence, AwaitOK
  <2>2. PICK o \in Outcome :
            attempt' = [attempt EXCEPT ![e].status = o.status,
                                       ![e].http = o.http, ![e].error = o.error]
    BY <1>4 DEF Finish, RecordOutcome
  <2> QED
    BY <2>1, <2>2 DEF Typing, TypeOK, DeliveryAttempt
<1> QED
  BY <1>1, <1>2, <1>3, <1>4 DEF Next, Step, QuietStep, Terminated

\* No step of any handler, and no fault, revises a settled attempt or moves an
\* attempt to another delivery or number.
THEOREM EvidenceStays == Spec => EvidenceIsKept
<1>1. Init => Typing /\ Evidence
  BY InitTyping, InitEvidence
<1>2. Typing /\ Evidence /\ [Next]_vars => Typing' /\ Evidence'
  BY NextTyping, NextEvidence
<1>3. Typing /\ Evidence /\ [Next]_vars => [KeepsEvidence]_vars
  BY NextKeeps
<1> QED
  BY <1>1, <1>2, <1>3, PTL DEF Spec, EvidenceIsKept

-----------------------------------------------------------------------------
(* A refused call leaves no trace *)

Harmless(code) == code \notin {"created", "retried", "error", "lost"}

\* Whoever refuses a call has not begun to record anything for it.
LEMMA RefusalEffect ==
    ASSUME Typing, Evidence, RowsOK, [Next]_vars, NEW c \in Calls,
           reply'[c] # reply[c], Harmless(reply'[c].code)
    PROVE  ~Stored(c) /\ ~Recorded(c) /\ ~Begin(c)
<1> DEFINE Effect == ~Stored(c) /\ ~Recorded(c) /\ ~Begin(c)
<1> USE DEF Typing
<1>1. ASSUME NEW e \in Calls, NEW w \in Workers, Receive(e, w)
      PROVE  Effect
  BY <1>1 DEF Receive, ReceiveCreate, ReceiveForm, ReceiveRetry, RetryForm, Accept
<1>2. ASSUME NEW e \in Calls, Validate(e) \/ Lookup(e) \/ Relookup(e) \/ Load(e)
      PROVE  Effect
  <2>1. e = c
    BY <1>2 DEF Validate, Lookup, Relookup, Load, _replay_or_conflict, Answer, TypeOK
  <2>2. pc[c] \in {"validate", "lookup", "relookup", "load"}
    BY <1>2, <2>1 DEF Validate, Lookup, Relookup, Load, At
  <2> QED
    BY <2>2 DEF RowsOK, Evidence, AwaitOK, Begin, At
<1>3. ASSUME NEW e \in Calls, Insert(e) \/ Remember(e) \/ Transmit(e) \/ Finish(e)
      PROVE  Effect
  BY <1>3 DEF Insert, Remember, Transmit, Finish
<1>4. ASSUME NEW e \in Calls, Refuse(e) PROVE Effect
  <2>1. e = c
    BY <1>4 DEF Refuse, Answer, TypeOK
  <2>2. pc[c] = "begin" /\ IsRetry(c)
    BY <1>4, <2>1 DEF Refuse, At, Answer, TypeOK, Harmless
  <2>3. ~Begin(c)
    BY <1>4, <2>1 DEF Refuse, Begin
  <2> QED
    BY <2>2, <2>3 DEF RowsOK, IsRetry, Evidence, AwaitOK
<1>5. ASSUME NEW e \in Calls, Begin(e) \/ StoreError(e) PROVE Effect
  BY <1>5 DEF Begin, StoreError, Answer, TypeOK, Harmless
<1>6. ASSUME NEW e \in Calls, Respond(e) PROVE Effect
  BY <1>6 DEF Respond, Answer, TypeOK, Harmless
<1>7. ASSUME NEW w \in Workers, Crash(w) PROVE Effect
  BY <1>7 DEF Crash, TypeOK, Harmless
<1>8. CASE UNCHANGED vars
  BY <1>8 DEF vars
<1> QED
  BY <1>1, <1>2, <1>3, <1>4, <1>5, <1>6, <1>7, <1>8 DEF Next, Step, Terminated

\* An attempt is inserted by the first commit of its own call only.
LEMMA AttemptsNew ==
    ASSUME Typing, Evidence, [Next]_vars, NEW c \in Calls, ~Recorded(c), Recorded(c)'
    PROVE  Begin(c)
<1>1. CASE QuietStep
  BY <1>1, QuietEffect DEF Recorded
<1>2. ASSUME NEW e \in Calls, Begin(e) PROVE Begin(c)
  <2>1. CASE e = c
    BY <1>2, <2>1
  <2>2. CASE e # c
    <3>1. attempt'[c] = attempt[c]
      BY <1>2, <2>2 DEF Begin, RecordAttempt, Typing, TypeOK
    <3> QED
      BY <3>1 DEF Recorded
  <2> QED
    BY <2>1, <2>2
<1>3. ASSUME NEW e \in Calls, Transmit(e) PROVE FALSE
  BY <1>3 DEF Transmit, tables, Recorded
<1>4. ASSUME NEW e \in Calls, Finish(e) PROVE FALSE
  <2>1. e # c
    BY <1>4 DEF Finish, Evidence, AwaitOK
  <2>2. attempt'[c] = attempt[c]
    BY <1>4, <2>1 DEF Finish, RecordOutcome, Typing, TypeOK
  <2> QED
    BY <2>2 DEF Recorded
<1> QED
  BY <1>1, <1>2, <1>3, <1>4 DEF Next, Step, QuietStep, Terminated

LEMMA NextNoTrace ==
    Typing /\ Evidence /\ Creation /\ RefusalLeavesNoTrace /\ [Next]_vars
        => RefusalLeavesNoTrace'
<1> SUFFICES ASSUME Typing, Evidence, Creation, RefusalLeavesNoTrace, [Next]_vars,
                    NEW c \in Calls, reply'[c] # None, Harmless(reply'[c].code)
             PROVE  (~Stored(c) /\ ~Recorded(c) /\ c \notin wire)'
  BY DEF RefusalLeavesNoTrace, Harmless
<1>1. ~Stored(c) /\ ~Recorded(c) /\ ~Begin(c) /\ ~Insert(c)
  <2>1. CASE reply'[c] = reply[c]
    <3>1. ~Stored(c) /\ ~Recorded(c)
      BY <2>1 DEF RefusalLeavesNoTrace, Harmless
    <3>2. pc[c] = "done"
      BY <2>1 DEF Creation, RepliesOK
    <3> QED
      BY <3>1, <3>2 DEF Begin, Insert, At
  <2>2. CASE reply'[c] # reply[c]
    <3>1. ~Insert(c)
      BY <2>2, CallEffect DEF Insert
    <3> QED
      BY <2>2, <3>1, RefusalEffect DEF Creation
  <2> QED
    BY <2>1, <2>2
<1>2. ~Stored(c)'
  BY <1>1, RowsNew
<1>3. ~Recorded(c)'
  BY <1>1, AttemptsNew
<1>4. c \notin wire'
  BY <1>3, NextEvidence DEF Evidence, EvidenceBeforeWire
<1> QED
  BY <1>2, <1>3, <1>4

\* A call that is refused, or answered with an existing delivery, has written no
\* row and sent nothing, and never will.
THEOREM RefusedLeaveNothing == Spec => []RefusalLeavesNoTrace
<1>1. Init => Typing /\ Evidence /\ Creation /\ RefusalLeavesNoTrace
  <2>1. Init => RefusalLeavesNoTrace
    BY DEF Init, RefusalLeavesNoTrace
  <2> QED
    BY <2>1, InitTyping, InitEvidence, InitCreation
<1>2. Typing /\ Evidence /\ Creation /\ RefusalLeavesNoTrace /\ [Next]_vars
          => Typing' /\ Evidence' /\ Creation' /\ RefusalLeavesNoTrace'
  BY NextTyping, NextEvidence, NextCreation, NextNoTrace
<1> QED
  BY <1>1, <1>2, PTL DEF Spec

-----------------------------------------------------------------------------
(* Stamped if and only if delivered *)

Accepted(d) == \E e \in Calls : attempt[e].delivery = d /\ attempt[e].status = "delivered"

LEMMA StampedMeans ==
    StampedIffDelivered <=> \A d \in Calls : delivery[d].stamped <=> Accepted(d)
BY DEF StampedIffDelivered, Attempts, Accepted, Recorded

LEMMA NextStamped ==
    Typing /\ Evidence /\ RowsOK /\ StampedIffDelivered /\ [Next]_vars
        => StampedIffDelivered'
<1> SUFFICES ASSUME Typing, Evidence, RowsOK, StampedIffDelivered, [Next]_vars,
                    NEW d \in Calls
             PROVE  delivery'[d].stamped <=> Accepted(d)'
  BY StampedMeans DEF StampedIffDelivered, Attempts, Accepted, Recorded
<1>1. delivery[d].stamped <=> Accepted(d)
  BY StampedMeans
<1>2. CASE QuietStep
  <2>1. Accepted(d)' <=> Accepted(d)
    BY <1>2, QuietEffect DEF Accepted
  <2>2. CASE delivery'[d] = delivery[d]
    BY <1>1, <2>1, <2>2
  <2>3. CASE delivery'[d] # delivery[d]
    <3>1. Insert(d) /\ ~delivery'[d].stamped
      BY <1>2, <2>3, QuietRows, InsertEffect
    <3>2. ~Stored(d)
      BY <3>1 DEF Insert, At, RowsOK
    <3>3. ~Accepted(d)
      BY <3>2 DEF Accepted, Evidence, AwaitOK, Recorded
    <3> QED
      BY <2>1, <3>1, <3>3
  <2> QED
    BY <2>2, <2>3
<1>3. ASSUME NEW c \in Calls, Begin(c) PROVE delivery'[d].stamped <=> Accepted(d)'
  <2>1. delivery'[d].stamped = delivery[d].stamped
    BY <1>3 DEF Begin, RecordAttempt, Typing, TypeOK, CallbackDelivery
  <2>2. ~Recorded(c)
    BY <1>3 DEF Begin, At, Evidence, AwaitOK
  <2>3. /\ attempt'[c].status = "pending"
        /\ \A e \in Calls \ {c} : attempt'[e] = attempt[e]
    BY <1>3 DEF Begin, RecordAttempt, Typing, TypeOK
  <2> QED
    BY <1>1, <2>1, <2>2, <2>3 DEF Accepted, Recorded
<1>4. ASSUME NEW c \in Calls, Transmit(c) PROVE delivery'[d].stamped <=> Accepted(d)'
  BY <1>1, <1>4 DEF Transmit, tables, Accepted
<1>5. ASSUME NEW c \in Calls, Finish(c) PROVE delivery'[d].stamped <=> Accepted(d)'
  <2>1. PICK o \in Outcome : RecordOutcome(c, o)
    BY <1>5 DEF Finish
  <2>2. attempt[c].status = "pending" /\ attempt[c].delivery = Subject(c)
    BY <1>5 DEF Finish, Evidence, AwaitOK
  <2>3. /\ attempt'[c].status = o.status /\ attempt'[c].delivery = attempt[c].delivery
        /\ \A e \in Calls \ {c} : attempt'[e] = attempt[e]
    BY <2>1 DEF RecordOutcome, Typing, TypeOK, DeliveryAttempt
  <2>4. delivery'[d].stamped <=> \/ delivery[d].stamped
                                 \/ d = Subject(c) /\ o.status = "delivered"
    <3> DEFINE s == Subject(c)
               row == delivery[s]
               updated == [row EXCEPT !.status = Flush(view[c].status, o.status, row.status),
                                      !.http = Flush(view[c].http, o.http, row.http),
                                      !.error = Flush(view[c].error, o.error, row.error),
                                      !.stamped = row.stamped \/ o.status = "delivered"]
    <3>1. s \in Calls
      BY <1>5, SubjectType DEF Finish, Typing, ControlOK
    <3>2. row \in CallbackDelivery
      BY <3>1 DEF Typing, TypeOK
    <3>3. delivery' = [delivery EXCEPT ![s] = updated]
      BY <2>1, <3>1, <3>2 DEF RecordOutcome, Typing, TypeOK, CallbackDelivery
    <3>4. updated.stamped <=> row.stamped \/ o.status = "delivered"
      BY <3>2 DEF CallbackDelivery
    <3> HIDE DEF updated, s
    <3>5. delivery'[d] = IF d = s THEN updated ELSE delivery[d]
      BY <3>1, <3>3 DEF Typing, TypeOK
    <3> QED
      BY <3>4, <3>5 DEF s
  <2>5. Accepted(d)' <=> Accepted(d) \/ (d = Subject(c) /\ o.status = "delivered")
    BY <2>2, <2>3 DEF Accepted
  <2> QED
    BY <1>1, <2>4, <2>5
<1> QED
  BY <1>2, <1>3, <1>4, <1>5 DEF Next, Step, QuietStep, Terminated

\* delivered_at is set exactly on the deliveries that some attempt got accepted,
\* also when retries of two workers overlap and their final commits interleave.
THEOREM StampIsEvidence == Spec => []StampedIffDelivered
<1>1. Init => Typing /\ Evidence /\ Creation /\ StampedIffDelivered
  <2>1. Init => StampedIffDelivered
    BY DEF Init, StampedIffDelivered, Attempts, Recorded
  <2> QED
    BY <2>1, InitTyping, InitEvidence, InitCreation
<1>2. Typing /\ Evidence /\ Creation /\ StampedIffDelivered /\ [Next]_vars
          => Typing' /\ Evidence' /\ Creation' /\ StampedIffDelivered'
  BY NextTyping, NextEvidence, NextCreation, NextStamped DEF Creation
<1> QED
  BY <1>1, <1>2, PTL DEF Spec

-----------------------------------------------------------------------------
(* Pending is explained *)

\* A call that has yet to send its delivery, or awaits the partner's answer.
Busy(c) == pc[c] \in {"inserted", "begin", "await"}

\* A call that its client got no proper answer to.
Broken(c) == reply[c] # None /\ reply[c].code \in {"lost", "error"}

Concerns(c, d) == c = d \/ (Recorded(c) /\ attempt[c].delivery = d)

\* PendingExplained without the calls that have recorded an outcome: those leave
\* no delivery pending, because their sessions saw it pending.
PendingOK ==
    /\ \A d \in Calls : delivery[d].status = "pending" =>
          \E c \in Calls : Concerns(c, d) /\ (Busy(c) \/ Broken(c))
    /\ \A c \in Calls : pc[c] = "await" => view[c].status = "pending"

LEMMA RecordsStay ==
    ASSUME Typing, Evidence, [Next]_vars, NEW c \in Calls, Recorded(c)
    PROVE  Recorded(c)' /\ attempt'[c].delivery = attempt[c].delivery
<1>1. attempt'[c].delivery = attempt[c].delivery
  BY NextKeeps DEF KeepsEvidence
<1>2. CASE QuietStep
  BY <1>2, QuietEffect DEF Recorded
<1>3. ASSUME NEW e \in Calls, Begin(e) PROVE Recorded(c)'
  <2>1. e # c
    BY <1>3 DEF Begin, At, Evidence, AwaitOK
  <2> QED
    BY <1>3, <2>1 DEF Begin, RecordAttempt, Typing, TypeOK, Recorded
<1>4. ASSUME NEW e \in Calls, Transmit(e) PROVE Recorded(c)'
  BY <1>4 DEF Transmit, tables, Recorded
<1>5. ASSUME NEW e \in Calls, Finish(e) PROVE Recorded(c)'
  <2>1. PICK o \in Outcome :
            attempt' = [attempt EXCEPT ![e].status = o.status,
                                       ![e].http = o.http, ![e].error = o.error]
    BY <1>5 DEF Finish, RecordOutcome
  <2>2. o.status # "absent"
    BY DEF Outcome
  <2> QED
    BY <2>1, <2>2 DEF Typing, TypeOK, DeliveryAttempt, Recorded
<1> QED
  BY <1>1, <1>2, <1>3, <1>4, <1>5 DEF Next, Step, QuietStep, Terminated

\* A call comes to its await by its first commit, and its snapshot stays.
LEMMA AwaitEffect ==
    ASSUME Typing, [Next]_vars, NEW c \in Calls, pc'[c] = "await"
    PROVE  Begin(c) \/ (pc[c] = "await" /\ view'[c] = view[c])
<1> DEFINE Effect == pc'[c] = "await" => Begin(c) \/ (pc[c] = "await" /\ view'[c] = view[c])
<1> USE DEF Typing
<1>1. ASSUME NEW e \in Calls, NEW w \in Workers, Receive(e, w)
      PROVE  Effect
  <2>1. \E r, label : label \in {"insert", "validate", "load"} /\ Accept(e, w, r, label)
    BY <1>1 DEF Receive, ReceiveCreate, ReceiveForm, ReceiveRetry, RetryForm
  <2> QED
    BY <2>1 DEF Accept, Goto, TypeOK
<1>2. ASSUME NEW e \in Calls, Validate(e) \/ Lookup(e) \/ Relookup(e) PROVE Effect
  BY <1>2 DEF Validate, Lookup, Relookup, _replay_or_conflict, Answer, Goto, TypeOK
<1>3. ASSUME NEW e \in Calls, Insert(e) \/ Remember(e) \/ Transmit(e) \/ Finish(e)
      PROVE  Effect
  BY <1>3 DEF Insert, Remember, Transmit, Finish, At, Goto, TypeOK
<1>4. ASSUME NEW e \in Calls, Load(e) PROVE Effect
  BY <1>4 DEF Load, At, Answer, Goto, TypeOK
<1>5. ASSUME NEW e \in Calls, Begin(e) PROVE Effect
  <2>1. CASE e = c
    BY <1>5, <2>1
  <2>2. CASE e # c
    BY <1>5, <2>2 DEF Begin, RecordAttempt, Answer, Goto, TypeOK
  <2> QED
    BY <2>1, <2>2
<1>6. ASSUME NEW e \in Calls, Refuse(e) \/ Respond(e) \/ StoreError(e) PROVE Effect
  BY <1>6 DEF Refuse, Respond, StoreError, Answer, Goto, TypeOK
<1>7. ASSUME NEW w \in Workers, Crash(w) PROVE Effect
  BY <1>7 DEF Crash, TypeOK
<1>8. CASE UNCHANGED vars
  BY <1>8 DEF vars
<1> QED
  BY <1>1, <1>2, <1>3, <1>4, <1>5, <1>6, <1>7, <1>8 DEF Next, Step, Terminated

LEMMA AnswerBreaks ==
    ASSUME Typing, NEW c \in Calls, NEW d \in Calls \cup {None}, Answer(c, "error", d)
    PROVE  Broken(c)'
<1>1. [code |-> "error", delivery |-> d] \in Reply
  BY DEF Reply, Code
<1>2. reply'[c] = [code |-> "error", delivery |-> d]
  BY DEF Answer, Typing, TypeOK
<1> QED
  BY <1>1, <1>2, NoneIsNoReply DEF Broken

\* A call that has its delivery pending goes on, or ends without an answer, until
\* it records an outcome. Only a retry may give up with a proper answer.
LEMMA BusyEffect ==
    ASSUME Typing, Creation, [Next]_vars, NEW c \in Calls, Busy(c) \/ Broken(c),
           pc[c] = "begin" => req[c].kind = "create", ~Finish(c)
    PROVE  Busy(c)' \/ Broken(c)'
<1> DEFINE Effect == Busy(c)' \/ Broken(c)'
<1> USE DEF Typing
<1>1. CASE Broken(c)
  <2>1. pc[c] = "done"
    BY <1>1 DEF Creation, RepliesOK, Broken
  <2> QED
    BY <1>1, <2>1, CallEffect DEF Broken
<1>2. CASE Busy(c)
  <2>1. ASSUME NEW e \in Calls, NEW w \in Workers, Receive(e, w)
        PROVE  Effect
    <3>1. \E r, label : Accept(e, w, r, label)
      BY <2>1 DEF Receive, ReceiveCreate, ReceiveForm, ReceiveRetry, RetryForm
    <3> QED
      BY <1>2, <3>1 DEF Accept, Goto, TypeOK, Busy
  <2>2. ASSUME NEW e \in Calls, Validate(e) \/ Lookup(e) \/ Relookup(e) \/ Load(e)
        PROVE  Effect
    BY <1>2, <2>2 DEF Validate, Lookup, Relookup, Load, _replay_or_conflict, Answer, At,
       Goto, TypeOK, Busy
  <2>3. ASSUME NEW e \in Calls, Insert(e) \/ Remember(e) \/ Transmit(e)
        PROVE  Effect
    BY <1>2, <2>3 DEF Insert, Remember, Transmit, At, Goto, TypeOK, Busy
  <2>4. ASSUME NEW e \in Calls, Finish(e) PROVE Effect
    BY <1>2, <2>4 DEF Finish, Goto, TypeOK, Busy
  <2>5. ASSUME NEW e \in Calls, Begin(e) \/ Refuse(e) \/ StoreError(e) PROVE Effect
    <3>1. CASE e = c
      <4>1. \/ pc'[c] = "await"
            \/ \E d \in Calls \cup {None} : Answer(c, "error", d)
        BY <1>2, <2>5, <3>1, SubjectType DEF ControlOK, Busy, Begin, Refuse, StoreError, At, Goto, TypeOK, IsRetry
      <4> QED
        BY <4>1, AnswerBreaks DEF Busy
    <3>2. CASE e # c
      BY <1>2, <2>5, <3>2 DEF Begin, Refuse, StoreError, Answer, Goto, TypeOK, Busy
    <3> QED
      BY <3>1, <3>2
  <2>6. ASSUME NEW e \in Calls, Respond(e) PROVE Effect
    BY <1>2, <2>6 DEF Respond, At, Answer, Goto, TypeOK, Busy
  <2>7. ASSUME NEW w \in Workers, Crash(w) PROVE Effect
    <3>1. [code |-> "lost", delivery |-> None] \in Reply
      BY DEF Reply, Code
    <3>2. \/ pc'[c] = pc[c]
          \/ reply'[c] = [code |-> "lost", delivery |-> None]
      BY <2>7 DEF Crash, TypeOK
    <3> QED
      BY <1>2, <3>1, <3>2, NoneIsNoReply DEF Busy, Broken
  <2>8. CASE UNCHANGED vars
    BY <1>2, <2>8 DEF vars, Busy
  <2> QED
    BY <2>1, <2>2, <2>3, <2>4, <2>5, <2>6, <2>7, <2>8 DEF Next, Step, Terminated
<1> QED
  BY <1>1, <1>2

\* A step makes a delivery pending by inserting it or by an attempt at it.
LEMMA StatusEffect ==
    ASSUME Typing, [Next]_vars, NEW d \in Calls,
           delivery[d].status # "pending", delivery'[d].status = "pending"
    PROVE  \/ Insert(d) /\ pc'[d] = "inserted"
           \/ \E c \in Calls : Begin(c) /\ Subject(c) = d
<1>1. CASE QuietStep
  BY <1>1, QuietRows, InsertEffect
<1>2. ASSUME NEW c \in Calls, Begin(c) PROVE Subject(c) = d
  BY <1>2 DEF Begin, RecordAttempt, Typing, TypeOK, CallbackDelivery
<1>3. ASSUME NEW c \in Calls, Transmit(c) PROVE FALSE
  BY <1>3 DEF Transmit, tables
<1>4. ASSUME NEW c \in Calls, Finish(c) PROVE FALSE
  <2>1. PICK o \in Outcome : RecordOutcome(c, o)
    BY <1>4 DEF Finish
  <2>2. o.status # "pending"
    BY DEF Outcome
  <2> QED
    BY <2>1, <2>2 DEF RecordOutcome, Flush, Typing, TypeOK, CallbackDelivery
<1> QED
  BY <1>1, <1>2, <1>3, <1>4 DEF Next, Step, QuietStep, Terminated

\* An outcome is written to the delivery, whatever else has become of it.
LEMMA OutcomeShows ==
    ASSUME Typing, PendingOK, NEW c \in Calls, Finish(c)
    PROVE  delivery'[Subject(c)].status # "pending"
<1>1. view[c].status = "pending" /\ Subject(c) \in Calls
  BY SubjectType DEF PendingOK, Finish, Typing, ControlOK
<1>2. PICK o \in Outcome : RecordOutcome(c, o)
  BY DEF Finish
<1>3. o.status # "pending"
  BY DEF Outcome
<1> QED
  BY <1>1, <1>2, <1>3 DEF RecordOutcome, Flush, Typing, TypeOK, CallbackDelivery

LEMMA NextPending == Typing /\ Evidence /\ Creation /\ PendingOK /\ [Next]_vars => PendingOK'
<1> SUFFICES ASSUME Typing, Evidence, Creation, PendingOK, [Next]_vars PROVE PendingOK'
  OBVIOUS
<1>1. ASSUME NEW c \in Calls, pc'[c] = "await" PROVE view'[c].status = "pending"
  <2>1. CASE pc[c] = "await" /\ view'[c] = view[c]
    BY <2>1 DEF PendingOK
  <2>2. CASE Begin(c)
    BY <2>2 DEF Begin, At, RecordAttempt, Typing, TypeOK, ControlOK, View
  <2> QED
    BY <1>1, <2>1, <2>2, AwaitEffect
<1>2. ASSUME NEW d \in Calls, delivery'[d].status = "pending"
      PROVE  \E c \in Calls : (Concerns(c, d) /\ (Busy(c) \/ Broken(c)))'
  <2>1. ASSUME NEW c \in Calls, Begin(c), Subject(c) = d
        PROVE  (Concerns(c, d) /\ (Busy(c) \/ Broken(c)))'
    <3>1. Recorded(c)' /\ attempt'[c].delivery = d
      BY <2>1 DEF Begin, RecordAttempt, Recorded, Typing, TypeOK
    <3>2. Busy(c)' \/ Broken(c)'
      <4>1. pc'[c] = "await" \/ Answer(c, "error", d)
        BY <2>1 DEF Begin, Goto, Typing, TypeOK
      <4> QED
        BY <4>1, AnswerBreaks DEF Busy
    <3> QED
      BY <3>1, <3>2 DEF Concerns
  <2>2. CASE delivery[d].status # "pending"
    <3>1. CASE Insert(d) /\ pc'[d] = "inserted"
      BY <3>1 DEF Concerns, Busy
    <3> QED
      BY <1>2, <2>1, <2>2, <3>1, StatusEffect
  <2>3. CASE delivery[d].status = "pending"
    <3>1. PICK c \in Calls : Concerns(c, d) /\ (Busy(c) \/ Broken(c))
      BY <2>3 DEF PendingOK
    <3>2. Concerns(c, d)'
      BY <3>1, RecordsStay DEF Concerns
    <3>3. pc[c] = "begin" => req[c].kind = "create"
      BY <2>3, <3>1 DEF Concerns, Evidence, AwaitOK, Creation, RowsOK, Stored
    <3>4. CASE ~Finish(c)
      BY <3>1, <3>2, <3>3, <3>4, BusyEffect
    <3>5. CASE Finish(c)
      <4>1. Subject(c) = d
        BY <2>3, <3>1, <3>5 DEF Concerns, Finish, Evidence, AwaitOK, Creation, RowsOK, Stored,
           Subject
      <4> QED
        BY <1>2, <3>5, <4>1, OutcomeShows
    <3> QED
      BY <3>4, <3>5
  <2> QED
    BY <2>2, <2>3
<1> QED
  BY <1>1, <1>2 DEF PendingOK

\* Pending is never the result of normal operation, with any number of workers
\* on the same delivery: who leaves a delivery pending is at work on it, died, or
\* ended with a 500.
THEOREM PendingHasCause == Spec => []PendingExplained
<1>1. Init => Typing /\ Evidence /\ Creation /\ PendingOK
  <2>1. Init => PendingOK
    BY DEF Init, PendingOK
  <2> QED
    BY <2>1, InitTyping, InitEvidence, InitCreation
<1>2. Typing /\ Evidence /\ Creation /\ PendingOK /\ [Next]_vars
          => Typing' /\ Evidence' /\ Creation' /\ PendingOK'
  BY NextTyping, NextEvidence, NextCreation, NextPending
<1>3. PendingOK => PendingExplained
  BY DEF PendingOK, PendingExplained, Concerns, Busy, Broken, Active
<1> QED
  BY <1>1, <1>2, <1>3, PTL DEF Spec
=============================================================================
