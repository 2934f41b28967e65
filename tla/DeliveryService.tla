-------------------------- MODULE DeliveryService --------------------------
(***************************************************************************)
(* Creation, sending and manual retry of callback deliveries:              *)
(* app/service.py with the handlers of app/api.py and app/web.py that      *)
(* call it.                                                                *)
(*                                                                         *)
(* Each worker is a process with one event loop. The only await of a       *)
(* handler is client.request: between two awaits a handler keeps its loop, *)
(* so handlers of one worker never interleave there. Handlers of different *)
(* workers interleave at database statements; every action below is one    *)
(* statement or commit together with the Python code around it.            *)
(*                                                                         *)
(* A client call is named by a member of Calls. The delivery a create call *)
(* inserts, and the attempt a call inserts, are named after the call: a    *)
(* call inserts at most one of each, and uuid4 ids do not collide.         *)
(*                                                                         *)
(* Not modelled: the guard of send_attempt on an empty signing secret      *)
(* (Settings.validate refuses to start in that state, and settings do not  *)
(* change while the process runs); "existing is None" after the rollback   *)
(* (no row is ever deleted); requests and forms that are no valid input,   *)
(* which are answered before the service is called; latencies, bodies and  *)
(* timestamps.                                                             *)
(***************************************************************************)
EXTENDS CredentialMap, FiniteSets

CONSTANTS Workers,        \* server processes
          Keys,           \* Idempotency-Key values that clients send
          WellFormedKeys, \* those that validate_idempotency_key accepts
          EmptyKey,       \* the empty string, which a form without a key sends
          Payloads,       \* the rest of a request: destination, method, body
          Unencodable,    \* payloads with a lone surrogate: no UTF-8 form
          CreateInputs,   \* [key, payload, headers] records that clients POST
          RetryInputs,    \* header maps that clients re-supply on a retry
          MaxCrashes,     \* bound on worker crashes
          MaxStoreErrors, \* bound on statements the database refuses
          MaxFaults       \* bound on both together

ASSUME WorkersAssumption == None \notin Workers
ASSUME KeysAssumption    == None \notin Keys /\ WellFormedKeys \subseteq Keys
                            /\ EmptyKey \notin WellFormedKeys
ASSUME PayloadsAssumption == Unencodable \subseteq Payloads
ASSUME InputsAssumption  ==
    /\ CreateInputs \subseteq
           [key : Keys \cup {None}, payload : Payloads, headers : HeaderMap]
    /\ RetryInputs \subseteq HeaderMap
ASSUME BoundsAssumption  ==
    MaxCrashes \in Nat /\ MaxStoreErrors \in Nat /\ MaxFaults \in Nat

VARIABLES
    loop,        \* worker -> the call its event loop is executing, or None
    pc,          \* call -> the point its handler has reached
    on,          \* call -> the worker that serves it
    req,         \* call -> what the client asked for
    view,        \* call -> the delivery as its database session holds it
    reply,       \* call -> the answer
    delivery,    \* table callback_deliveries, by id
    attempt,     \* table delivery_attempts, by id
    cache,       \* worker -> its credential_cache
    request,     \* call -> the request it gives to client.request
    wire,        \* the calls whose request reached the partner
    crashes, storeErrors

vars  == <<loop, pc, on, req, view, reply, delivery, attempt, cache, request,
           wire, crashes, storeErrors>>

-----------------------------------------------------------------------------
(* Tables, requests and answers *)

Status     == {"pending", "delivered", "failed"}
HttpStatus == {"none", "2xx", "non2xx"}
Error      == {"none", "non2xx", "transport"}

Fingerprint == [rest : Payloads, headers : [Headers \ Excluded -> HeaderValue]]

CallbackDelivery ==
    [status : Status \cup {"absent"}, key : Keys \cup {None},
     fingerprint : Fingerprint \cup {None}, headers : HeaderMap,
     payload : Payloads \cup {None}, count : Nat,
     http : HttpStatus, error : Error, stamped : BOOLEAN]

DeliveryAttempt ==
    [status : Status \cup {"absent"}, delivery : Calls \cup {None},
     number : Nat, http : HttpStatus, error : Error]

\* What client.request can end with, as the columns it is recorded in.
Outcome == {[status |-> "delivered", http |-> "2xx",    error |-> "none"],
            [status |-> "failed",    http |-> "non2xx", error |-> "non2xx"],
            [status |-> "failed",    http |-> "none",   error |-> "transport"]}

Request == [kind : {"create"}, key : Keys \cup {None}, payload : Payloads,
            headers : HeaderMap, target : {None}]
           \cup
           [kind : {"retry"}, key : {None}, payload : {None},
            headers : HeaderMap, target : Calls]

\* The columns of a delivery that a session compares with when it flushes.
View == [status : Status, count : Nat, http : HttpStatus, error : Error]

Code == {"created", "replayed", "bad_key", "conflict", "retried", "not_found",
         "not_failed", "invalid_headers", "unavailable", "error", "lost"}

Reply == [code : Code, delivery : Calls \cup {None}]

ASSUME NoneIsNoReply == None \notin Reply

\* An outgoing request; `from' says whose value each header carries.
Transmission == [delivery : Calls, number : Nat, from : Values]

Stored(d) == delivery[d].status # "absent"

Recorded(c) == attempt[c].status # "absent"

IsCreate(c) == req[c] # None /\ req[c].kind = "create"
IsRetry(c)  == req[c] # None /\ req[c].kind = "retry"

\* The delivery that call c sends.
Subject(c) == IF req[c].kind = "create" THEN c ELSE req[c].target

\* Session.commit writes a column only when its value differs from the one the
\* session loaded (expire_on_commit=False, no version counter).
FlushValuesOnly(loaded, new, stored) ==   \* a variant that never clears a column
    IF new \in {loaded, "none"} THEN stored ELSE new

Flush(loaded, new, stored) == IF new = loaded THEN stored ELSE new

-----------------------------------------------------------------------------
Init ==
    /\ loop = [w \in Workers |-> None]
    /\ pc = [c \in Calls |-> "waiting"]
    /\ on = [c \in Calls |-> None]
    /\ req = [c \in Calls |-> None]
    /\ view = [c \in Calls |-> None]
    /\ reply = [c \in Calls |-> None]
    /\ delivery = [d \in Calls |->
           [status |-> "absent", key |-> None, fingerprint |-> None,
            headers |-> NoHeaders, payload |-> None, count |-> 0,
            http |-> "none", error |-> "none", stamped |-> FALSE]]
    /\ attempt = [c \in Calls |->
           [status |-> "absent", delivery |-> None, number |-> 0,
            http |-> "none", error |-> "none"]]
    /\ cache = [w \in Workers |-> << >>]
    /\ request = [c \in Calls |-> None]
    /\ wire = {}
    /\ crashes = 0
    /\ storeErrors = 0

\* Call c is the one its worker's event loop is executing, at point `label'.
At(c, label) == pc[c] = label /\ loop[on[c]] = c

Goto(c, label) == pc' = [pc EXCEPT ![c] = label]

\* The handler of c answers and leaves its event loop.
Answer(c, code, d) ==
    /\ reply' = [reply EXCEPT ![c] = [code |-> code, delivery |-> d]]
    /\ loop' = [loop EXCEPT ![on[c]] = None]
    /\ Goto(c, "done")

tables == <<delivery, attempt>>
sends  == <<request, wire>>
faults == <<crashes, storeErrors>>

-----------------------------------------------------------------------------
(* Creation: POST /api/deliveries up to the insert *)

\* The handler of call c starts on the event loop of worker w.
Accept(c, w, r, label) ==
    /\ pc[c] = "waiting"
    /\ loop[w] = None
    /\ loop' = [loop EXCEPT ![w] = c]
    /\ on' = [on EXCEPT ![c] = w]
    /\ req' = [req EXCEPT ![c] = r]
    /\ Goto(c, label)
    /\ UNCHANGED <<view, reply, cache, tables, sends, faults>>

ReceiveCreate(c, w) ==
    \E input \in CreateInputs :
        Accept(c, w, [kind |-> "create", key |-> input.key,
                      payload |-> input.payload, headers |-> input.headers,
                      target |-> None],
               IF input.key = None THEN "insert" ELSE "validate")

\* The form of the web page. It has a field for the key; an empty one is no key.
ReceiveForm(c, w) ==
    \E input \in CreateInputs :
        /\ input.key # None
        /\ LET key == IF input.key = EmptyKey THEN None ELSE input.key
           IN  Accept(c, w, [kind |-> "create", key |-> key,
                             payload |-> input.payload, headers |-> input.headers,
                             target |-> None],
                      IF key = None THEN "insert" ELSE "validate")

ReceiveRetry(c, w) ==
    \E d \in Calls, headers \in RetryInputs :
        Accept(c, w, [kind |-> "retry", key |-> None, payload |-> None,
                      headers |-> headers, target |-> d],
               "load")

\* The button of the web page, which cannot re-supply headers.
RetryForm(c, w) ==
    \E d \in Calls :
        Accept(c, w, [kind |-> "retry", key |-> None, payload |-> None,
                      headers |-> NoHeaders, target |-> d],
               "load")

Receive(c, w) ==
    \/ ReceiveCreate(c, w) \/ ReceiveForm(c, w)
    \/ ReceiveRetry(c, w) \/ RetryForm(c, w)

FingerprintOf(c) == request_fingerprint(req[c].headers, req[c].payload)

\* validate_idempotency_key, then fingerprint_of, which fails on a payload that
\* has no UTF-8 form.
Validate(c) ==
    /\ At(c, "validate")
    /\ IF req[c].key \notin WellFormedKeys
       THEN Answer(c, "bad_key", None)
       ELSE IF req[c].payload \in Unencodable
       THEN Answer(c, "error", None)
       ELSE Goto(c, "lookup") /\ UNCHANGED <<loop, reply>>
    /\ UNCHANGED <<on, req, view, cache, tables, sends, faults>>

WithKey(k) == {d \in Calls : Stored(d) /\ delivery[d].key = k}

\* A variant that never compares fingerprints.
_replay_blindly(c, d) == Answer(c, "replayed", d)

_replay_or_conflict(c, d) ==
    Answer(c, IF delivery[d].fingerprint = FingerprintOf(c)
              THEN "replayed" ELSE "conflict", d)

\* find_by_idempotency_key, before the insert and again after it lost the race.
Lookup(c) ==
    /\ At(c, "lookup")
    /\ \/ \E d \in WithKey(req[c].key) : _replay_or_conflict(c, d)
       \/ /\ WithKey(req[c].key) = {}
          /\ Goto(c, "insert")
          /\ UNCHANGED <<loop, reply>>
    /\ UNCHANGED <<on, req, view, cache, tables, sends, faults>>

\* A variant that tries the insert again for as long as it fails.
InsistOnInsert(c) ==
    /\ At(c, "relookup")
    /\ Goto(c, "insert")
    /\ UNCHANGED <<loop, on, req, view, reply, cache, tables, sends, faults>>

Relookup(c) ==
    /\ At(c, "relookup")
    /\ \E d \in WithKey(req[c].key) : _replay_or_conflict(c, d)
    /\ UNCHANGED <<on, req, view, cache, tables, sends, faults>>

\* A variant without the unique index.
NoUniqueIndex(c) == FALSE

\* The unique index on idempotency_key, which ignores rows without a key.
KeyTaken(c) == req[c].key # None /\ WithKey(req[c].key) # {}

\* The commit of create_delivery.
Insert(c) ==
    /\ At(c, "insert")
    /\ \/ /\ KeyTaken(c)
          /\ Goto(c, "relookup")
          /\ UNCHANGED <<view, delivery>>
       \/ /\ ~KeyTaken(c)
          /\ delivery' = [delivery EXCEPT ![c] =
                 [status |-> "pending", key |-> req[c].key,
                  fingerprint |-> IF req[c].key = None
                                  THEN None ELSE FingerprintOf(c),
                  headers |-> redact_headers(req[c].headers),
                  payload |-> req[c].payload, count |-> 0,
                  http |-> "none", error |-> "none", stamped |-> FALSE]]
          /\ view' = [view EXCEPT ![c] =
                 [status |-> "pending", count |-> 0,
                  http |-> "none", error |-> "none"]]
          /\ Goto(c, "inserted")
    /\ UNCHANGED <<loop, on, req, reply, cache, attempt, sends, faults>>

\* The rest of create_delivery: refresh, then the sensitive values are put in
\* the memory of this worker.
Remember(c) ==
    /\ At(c, "inserted")
    /\ cache' = [cache EXCEPT ![on[c]] =
           Put(@, c, SuppliedBy(c, sensitive_values(req[c].headers)))]
    /\ Goto(c, "begin")
    /\ UNCHANGED <<loop, on, req, view, reply, tables, sends, faults>>

-----------------------------------------------------------------------------
(* Retry: POST /api/deliveries/{id}/retry up to send_attempt *)

Resupplied(c) == {h \in Headers : req[c].headers[h] # "absent"}

Overrides(c) == IF req[c].kind = "retry"
                THEN SuppliedBy(c, Resupplied(c)) ELSE NoValues

\* Variants: any delivery that is not delivered; no check at all.
RetryUndelivered(d) == delivery[d].status \in {"pending", "failed"}
RetryAnything(d) == TRUE

RetryAllowed(d) == delivery[d].status = "failed"

KnownHeaders(c) ==
    Resupplied(c) \subseteq redacted_header_names(delivery[req[c].target].headers)

\* The row of d as a session loads it.
Snapshot(d) == [status |-> delivery[d].status, count |-> delivery[d].count,
                http |-> delivery[d].http, error |-> delivery[d].error]

\* get_delivery and the checks of retry_delivery.
Load(c) ==
    /\ At(c, "load")
    /\ LET d == req[c].target IN
       \/ /\ ~Stored(d)
          /\ Answer(c, "not_found", None)
          /\ UNCHANGED view
       \/ /\ Stored(d) /\ ~RetryAllowed(d)
          /\ Answer(c, "not_failed", d)
          /\ UNCHANGED view
       \/ /\ RetryAllowed(d) /\ ~KnownHeaders(c)
          /\ Answer(c, "invalid_headers", d)
          /\ UNCHANGED view
       \/ /\ RetryAllowed(d) /\ KnownHeaders(c)
          /\ view' = [view EXCEPT ![c] = Snapshot(d)]
          /\ Goto(c, "begin")
          /\ UNCHANGED <<loop, reply>>
    /\ UNCHANGED <<on, req, cache, tables, sends, faults>>

-----------------------------------------------------------------------------
(* send_attempt *)

Originals(c) == Merge(Get(cache[on[c]], Subject(c)), Overrides(c))

\* A variant that never looks.
MissingUnchecked(c) == {}

\* _build_request_headers: the redacted headers nobody has a value for.
Missing(c) == {h \in redacted_header_names(delivery[Subject(c)].headers) :
                  Originals(c)[h] = None}

OutgoingHeaders(c) ==
    [h \in Headers |->
        CASE delivery[Subject(c)].headers[h] = "absent" -> None
          [] delivery[Subject(c)].headers[h] = "marker" -> Originals(c)[h]
          [] OTHER -> Subject(c)]

\* httpx refuses a header value that is not ASCII with an exception that is no
\* httpx.HTTPError, before client.request first awaits.
Encodable(from) ==
    \A h \in Headers : from[h] # None => req[from[h]].headers[h] # "nonascii"

NextNumber(c) == view[c].count + 1

\* Variants: the attempt is not inserted before the call; earlier attempts are
\* put back to pending.
RecordNothing(c) ==
    UNCHANGED <<attempt, delivery, view>>

RecordAndReset(c) ==
    LET d == Subject(c) IN
    /\ attempt' = [e \in Calls |->
           IF e = c THEN [status |-> "pending", delivery |-> d,
                          number |-> NextNumber(c), http |-> "none", error |-> "none"]
           ELSE IF attempt[e].delivery = d THEN [attempt[e] EXCEPT !.status = "pending"]
           ELSE attempt[e]]
    /\ delivery' = [delivery EXCEPT ![d].status = "pending", ![d].count = NextNumber(c)]
    /\ view' = [view EXCEPT ![c].status = "pending", ![c].count = NextNumber(c)]

\* The rows of the commit before the network call.
RecordAttempt(c) ==
    LET d == Subject(c) IN
    /\ attempt' = [attempt EXCEPT ![c] =
           [status |-> "pending", delivery |-> d, number |-> NextNumber(c),
            http |-> "none", error |-> "none"]]
    /\ delivery' = [delivery EXCEPT
           ![d].status = Flush(view[c].status, "pending", @),
           ![d].count = NextNumber(c)]
    /\ view' = [view EXCEPT ![c].status = "pending", ![c].count = NextNumber(c)]

\* A variant that records the attempt before it restores the credentials.
RefuseTooLate(c) ==
    /\ At(c, "begin")
    /\ Missing(c) # {}
    /\ RecordAttempt(c)
    /\ Answer(c, "unavailable", Subject(c))
    /\ UNCHANGED <<on, req, cache, sends, faults>>

\* send_attempt raises before it has touched the database.
Refuse(c) ==
    /\ At(c, "begin")
    /\ \/ Missing(c) # {}
       \/ delivery[Subject(c)].payload \in Unencodable
    /\ Answer(c, IF Missing(c) # {} /\ IsRetry(c) THEN "unavailable" ELSE "error",
              Subject(c))
    /\ UNCHANGED <<on, req, view, cache, tables, sends, faults>>

\* The commit before the network call, and the call up to its first await.
Begin(c) ==
    /\ At(c, "begin")
    /\ Missing(c) = {}
    /\ delivery[Subject(c)].payload \notin Unencodable
    /\ RecordAttempt(c)
    /\ \/ /\ Encodable(OutgoingHeaders(c))
          /\ request' = [request EXCEPT ![c] =
                 [delivery |-> Subject(c), number |-> NextNumber(c),
                  from |-> OutgoingHeaders(c)]]
          /\ loop' = [loop EXCEPT ![on[c]] = None]
          /\ Goto(c, "await")
          /\ UNCHANGED reply
       \/ /\ ~Encodable(OutgoingHeaders(c))
          /\ Answer(c, "error", Subject(c))
          /\ UNCHANGED request
    /\ UNCHANGED <<on, req, cache, wire, faults>>

\* The partner receives the request, perhaps after the caller has given up or
\* its worker has died.
Transmit(c) ==
    /\ request[c] # None
    /\ c \notin wire
    /\ wire' = wire \cup {c}
    /\ UNCHANGED <<loop, pc, on, req, view, reply, cache, tables, request, faults>>

\* Variants: the delivery is not updated; it is stamped whatever the outcome.
RecordInAttemptOnly(c, o) ==
    /\ attempt' = [attempt EXCEPT ![c].status = o.status,
                                  ![c].http = o.http, ![c].error = o.error]
    /\ UNCHANGED delivery

RecordAndStamp(c, o) ==
    LET d == Subject(c) IN
    /\ attempt' = [attempt EXCEPT ![c].status = o.status,
                                  ![c].http = o.http, ![c].error = o.error]
    /\ delivery' = [delivery EXCEPT
           ![d].status = Flush(view[c].status, o.status, @),
           ![d].http = Flush(view[c].http, o.http, @),
           ![d].error = Flush(view[c].error, o.error, @),
           ![d].stamped = TRUE]

\* The rows of the commit after the network call.
RecordOutcome(c, o) ==
    LET d == Subject(c) IN
    /\ attempt' = [attempt EXCEPT ![c].status = o.status,
                                  ![c].http = o.http, ![c].error = o.error]
    /\ delivery' = [delivery EXCEPT
           ![d].status = Flush(view[c].status, o.status, @),
           ![d].http = Flush(view[c].http, o.http, @),
           ![d].error = Flush(view[c].error, o.error, @),
           ![d].stamped = @ \/ o.status = "delivered"]

\* client.request has returned or timed out: the commit after it. A request
\* that was not received, and one that was, can both end in a transport error.
Finish(c) ==
    /\ pc[c] = "await"
    /\ loop[on[c]] = None
    /\ loop' = [loop EXCEPT ![on[c]] = c]
    /\ Goto(c, "finished")
    /\ \E o \in Outcome : /\ c \notin wire => o.error = "transport"
                          /\ RecordOutcome(c, o)
    /\ UNCHANGED <<on, req, view, reply, cache, sends, faults>>

\* Re-supplied credentials are remembered once the attempt is recorded.
KeepOverrides(c) ==
    LET d == Subject(c) IN
    cache' = [cache EXCEPT ![on[c]] =
                 IF Overrides(c) = NoValues THEN @
                 ELSE Put(@, d, Merge(Get(@, d), Overrides(c)))]

Respond(c) ==
    /\ At(c, "finished")
    /\ KeepOverrides(c)
    /\ Answer(c, IF IsRetry(c) THEN "retried" ELSE "created", Subject(c))
    /\ UNCHANGED <<on, req, view, tables, sends, faults>>

-----------------------------------------------------------------------------
(* Faults *)

\* The bounds allow another fault.
MoreFaults == crashes + storeErrors < MaxFaults

\* A statement or commit of call c fails: the handler ends with a 500 and its
\* transaction is rolled back. After the last commit the statement that fails
\* comes before or after credentials are remembered.
StoreError(c) ==
    /\ storeErrors < MaxStoreErrors /\ MoreFaults
    /\ storeErrors' = storeErrors + 1
    /\ \/ /\ pc[c] \in {"lookup", "relookup", "insert", "inserted", "load",
                        "finished"}
          /\ loop[on[c]] = c
       \/ /\ At(c, "begin")
          /\ Missing(c) = {}
          /\ delivery[Subject(c)].payload \notin Unencodable
       \/ /\ pc[c] = "await"
          /\ loop[on[c]] = None
    /\ \/ UNCHANGED cache
       \/ pc[c] = "finished" /\ KeepOverrides(c)
    /\ Answer(c, "error", None)
    /\ UNCHANGED <<on, req, view, tables, sends, crashes>>

Active(c) == pc[c] \notin {"waiting", "done"}

\* Worker w dies and is started again: its calls get no answer and its memory
\* is lost; the tables stay.
Crash(w) ==
    LET lost == {c \in Calls : Active(c) /\ on[c] = w} IN
    /\ crashes < MaxCrashes /\ MoreFaults
    /\ crashes' = crashes + 1
    /\ pc' = [c \in Calls |-> IF c \in lost THEN "done" ELSE pc[c]]
    /\ reply' = [c \in Calls |-> IF c \in lost
                                 THEN [code |-> "lost", delivery |-> None]
                                 ELSE reply[c]]
    /\ loop' = [loop EXCEPT ![w] = None]
    /\ cache' = [cache EXCEPT ![w] = << >>]
    /\ UNCHANGED <<on, req, view, tables, sends, storeErrors>>

-----------------------------------------------------------------------------
\* Every call has been answered.
Terminated == (\A c \in Calls : pc[c] = "done") /\ UNCHANGED vars

Step(c) ==
    \/ Validate(c) \/ Lookup(c) \/ Insert(c) \/ Relookup(c) \/ Remember(c)
    \/ Load(c) \/ Refuse(c) \/ Begin(c) \/ Finish(c) \/ Respond(c)

Next ==
    \/ \E c \in Calls : \/ \E w \in Workers : Receive(c, w)
                        \/ Step(c)
                        \/ Transmit(c)
                        \/ StoreError(c)
    \/ \E w \in Workers : Crash(w)
    \/ Terminated

Spec == Init /\ [][Next]_vars

\* The event loop runs every handler that is ready. Clients, partners and faults
\* owe nothing, nor does client.request: its timeout bounds each operation on the
\* connection, so a partner that sends a byte now and then keeps a call waiting
\* for as long as it likes.
FairSpec == Spec /\ \A c \in Calls : WF_vars(Step(c) /\ pc[c] # "await")

-----------------------------------------------------------------------------
(* Properties *)

TypeOK ==
    /\ loop \in [Workers -> Calls \cup {None}]
    /\ pc \in [Calls -> {"waiting", "validate", "lookup", "insert", "relookup",
                         "inserted", "load", "begin", "await", "finished",
                         "done"}]
    /\ on \in [Calls -> Workers \cup {None}]
    /\ req \in [Calls -> Request \cup {None}]
    /\ view \in [Calls -> View \cup {None}]
    /\ reply \in [Calls -> Reply \cup {None}]
    /\ delivery \in [Calls -> CallbackDelivery]
    /\ attempt \in [Calls -> DeliveryAttempt]
    /\ cache \in [Workers -> Seq(Entry)]
    /\ request \in [Calls -> Transmission \cup {None}]
    /\ wire \subseteq Calls
    /\ crashes \in 0..MaxCrashes
    /\ storeErrors \in 0..MaxStoreErrors

Attempts(d) == {c \in Calls : Recorded(c) /\ attempt[c].delivery = d}

\* Calls that are between the two commits of send_attempt.
InFlight(d) == {c \in Calls : pc[c] = "await" /\ Subject(c) = d}

\* "Persist before send": whatever a partner received has a delivery row and an
\* attempt row that agree with what was sent, crash or no crash; and an attempt
\* is never recorded as answered unless the partner received it.
EvidenceBeforeWire ==
    \A c \in Calls :
        /\ c \in wire => /\ Recorded(c)
                         /\ Stored(attempt[c].delivery)
                         /\ attempt[c].delivery = request[c].delivery
                         /\ attempt[c].number = request[c].number
        /\ attempt[c].http # "none" => c \in wire

\* The partner of a key hears of one creation: whatever the race between
\* workers, at most one create call with the same key transmits anything.
OneSendPerKey ==
    \A c, e \in wire :
        IsCreate(c) /\ IsCreate(e) /\ req[c].key = req[e].key /\ req[c].key # None
            => c = e

\* Idempotent creation: two calls answered with a delivery for the same key are
\* given the same delivery, and their logical requests are equal; a conflict is
\* reported against a delivery with the same key and another logical request.
ReplaysAgree ==
    \A c \in Calls : reply[c] # None /\ IsCreate(c) /\ req[c].key # None =>
        /\ reply[c].code \in {"created", "replayed"} =>
              \A e \in Calls :
                  /\ reply[e] # None /\ IsCreate(e) /\ req[e].key = req[c].key
                  /\ reply[e].code \in {"created", "replayed"}
                  => /\ reply[e].delivery = reply[c].delivery
                     /\ FingerprintOf(e) = FingerprintOf(c)
        /\ reply[c].code = "conflict" =>
              /\ req[reply[c].delivery].key = req[c].key
              /\ FingerprintOf(reply[c].delivery) # FingerprintOf(c)

\* A call that is refused or replayed leaves no row and sends nothing.
RefusalLeavesNoTrace ==
    \A c \in Calls :
        reply[c] # None /\ reply[c].code \notin {"created", "retried", "error", "lost"}
            => ~Stored(c) /\ ~Recorded(c) /\ c \notin wire

\* Every header of a transmitted request carries a value that somebody supplied
\* for it: the creator, the retry itself, or an earlier retry of the delivery
\* whose attempt is over. A redacted header is never sent as its marker unless
\* a client supplied the marker.
CredentialsTraceable ==
    \A c \in wire : \A h \in Headers :
        LET d == request[c].delivery
            source == request[c].from[h]
        IN  /\ source = None <=> req[d].headers[h] = "absent"
            /\ source # None =>
                  \/ source = d /\ req[d].headers[h] # "marker"
                  \/ source = c /\ h \in Resupplied(c)
                  \/ /\ source \in Attempts(d) /\ h \in Resupplied(source)
                     /\ attempt[source].status # "pending"

\* A delivery shown as pending that nobody is working on belongs to a call that
\* died or ended with a 500: pending is never the result of normal operation.
PendingExplained ==
    \A d \in Calls : delivery[d].status = "pending" =>
        \E c \in Calls :
            /\ c = d \/ (Recorded(c) /\ attempt[c].delivery = d)
            /\ Active(c) \/ (reply[c] # None /\ reply[c].code \in {"lost", "error"})

\* delivered_at is set exactly when some attempt of the delivery was accepted.
StampedIffDelivered ==
    \A d \in Calls :
        delivery[d].stamped <=> \E c \in Attempts(d) : attempt[c].status = "delivered"

\* What a step may do to the attempts that are on record.
KeepsEvidence ==
    \A c \in Calls : Recorded(c) =>
        /\ attempt'[c].delivery = attempt[c].delivery
        /\ attempt'[c].number = attempt[c].number
        /\ attempt[c].status # "pending" => attempt'[c] = attempt[c]

\* Evidence is append-only: a settled attempt never changes again, and an
\* attempt never changes its delivery or its number.
EvidenceIsKept == [][KeepsEvidence]_vars

(* What one worker promises, and several do not. *)

\* A delivery is being sent by at most one call, is pending meanwhile, and its
\* attempts are numbered 1 to attempt_count without gap or repetition.
SerialAttempts ==
    \A d \in Calls :
        /\ Cardinality(InFlight(d)) <= 1
        /\ InFlight(d) # {} => delivery[d].status = "pending"
        /\ {attempt[c].number : c \in Attempts(d)} = 1..delivery[d].count
        /\ Cardinality(Attempts(d)) = delivery[d].count

\* A delivery that is not pending shows the outcome of its latest attempt.
SummaryIsLatest ==
    \A d \in Calls : delivery[d].status \in {"delivered", "failed"} =>
        \E c \in Attempts(d) :
            /\ attempt[c].number = delivery[d].count
            /\ attempt[c].status = delivery[d].status
            /\ attempt[c].http = delivery[d].http
            /\ attempt[c].error = delivery[d].error

\* A failed delivery says why it failed.
FailedSaysWhy ==
    \A d \in Calls : delivery[d].status = "failed" => delivery[d].error # "none"

\* An attempt gets a number that no other attempt of the delivery has.
AlwaysNewAttempt ==
    \A c, e \in Calls :
        /\ Recorded(c) /\ Recorded(e) /\ attempt[c].delivery = attempt[e].delivery
        /\ attempt[c].number = attempt[e].number
        => c = e

\* Without a crash or a failing database, a pending delivery is being sent.
PendingMeansUnfinished ==
    \A d \in Calls : delivery[d].status = "pending" /\ crashes = 0 /\ storeErrors = 0
        => \E c \in Calls : Active(c) /\ Subject(c) = d

\* The tables, seen as the ledger of DeliveryLedger.
Opened == {d \in Calls : Stored(d)}

History == [d \in Calls |-> [n \in 1..delivery[d].count |->
               LET c == CHOOSE e \in Attempts(d) : attempt[e].number = n
               IN  attempt[c].status]]

Ledger == INSTANCE DeliveryLedger WITH Deliveries <- Calls, opened <- Opened,
                                       history <- History

\* With one worker the tables evolve as the ledger promises.
ImplementsLedger == Ledger!Spec

(* Liveness, under FairSpec *)

\* Every call that a worker has accepted is answered, or its worker dies, or it
\* waits for its own partner for ever: no call waits for another one.
CallsAnswered ==
    \A c \in Calls : pc[c] # "waiting" ~> \/ pc[c] = "done"
                                          \/ [](pc[c] = "await")

\* The call that should have settled delivery d ended without doing so: its worker
\* died, or the handler ended with a 500, because the database failed or because
\* an exception that is no httpx.HTTPError left send_attempt.
Abandoned(d) ==
    \E c \in Calls :
        /\ reply[c] # None /\ reply[c].code \in {"lost", "error"}
        /\ \/ c = d /\ ~Recorded(c)
           \/ Recorded(c) /\ attempt[c].delivery = d /\ attempt[c].status = "pending"

\* Every pending delivery is brought to delivered or failed, or the call that works
\* on it ends with a 500 or a crash, or waits for its own partner for ever.
DeliverySettles ==
    \A d \in Calls :
        delivery[d].status = "pending"
            ~> \/ delivery[d].status \in {"delivered", "failed"}
               \/ Abandoned(d)
               \/ \E c \in Calls : [](pc[c] = "await" /\ Subject(c) = d)

(* What the proofs add to the invariants to make them inductive *)

\* Where a handler is determines what its local variables hold.
ControlOK ==
    \A c \in Calls :
        /\ pc[c] # "waiting" => on[c] \in Workers /\ req[c] \in Request
        /\ pc[c] \in {"validate", "lookup", "insert", "relookup", "inserted"}
              => req[c].kind = "create"
        /\ pc[c] = "load" => req[c].kind = "retry"
        /\ pc[c] \in {"inserted", "begin", "await", "finished"}
              => view[c] \in View /\ Stored(Subject(c))

\* A call has an attempt once it has passed the commit before the network call,
\* and what it is about to send is what it recorded.
AwaitOK ==
    \A c \in Calls :
        /\ Recorded(c) => /\ pc[c] \in {"await", "finished", "done"}
                          /\ attempt[c].delivery = Subject(c)
                          /\ Stored(Subject(c))
        /\ pc[c] \in {"await", "finished"} => Recorded(c)
        /\ pc[c] = "await" => attempt[c].status = "pending"
        /\ request[c] # None
              => /\ Recorded(c)
                 /\ request[c].delivery = Subject(c)
                 /\ request[c].number = attempt[c].number
        /\ c \in wire => request[c] # None

\* A row is the one its create call inserted.
RowsOK ==
    \A d \in Calls : Stored(d) =>
        /\ pc[d] \in {"inserted", "begin", "await", "finished", "done"}
        /\ req[d].kind = "create"
        /\ delivery[d].key = req[d].key
        /\ delivery[d].key # None => delivery[d].fingerprint = FingerprintOf(d)

\* The unique index.
UniqueKeys ==
    \A d, e \in Calls :
        /\ Stored(d) /\ Stored(e) /\ delivery[d].key = delivery[e].key
        /\ delivery[d].key # None
        => d = e

\* The answer to a create call agrees with the table, now and later.
RepliesOK ==
    \A c \in Calls : reply[c] # None =>
        /\ pc[c] = "done"
        /\ req[c].kind = "create" /\ reply[c].code = "created"
              => Stored(c) /\ reply[c].delivery = c
        /\ req[c].kind = "create" /\ reply[c].code \in {"replayed", "conflict"}
              => /\ Stored(reply[c].delivery)
                 /\ reply[c].delivery \in Calls
                 /\ delivery[reply[c].delivery].key = req[c].key
                 /\ reply[c].code = "replayed" <=>
                       delivery[reply[c].delivery].fingerprint = FingerprintOf(c)

=============================================================================
