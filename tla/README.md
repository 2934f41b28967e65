# callback-inspector: a formal model

`callback-inspector` takes a callback from a client, stores it, sends it to a
partner over HTTP, records every attempt, and lets a person retry a failed
delivery. Its promises are about evidence (nothing is sent that is not on
record), idempotent creation (one `Idempotency-Key`, one delivery), retries
(numbered attempts, only after a failure) and credentials (never stored, resent
from process memory). This directory states those promises in TLA+, checks them
with TLC on small instances, and proves the most important ones with TLAPS for
every instance.

Paths such as `service.py:224` are relative to `app/` of the repository;
`README.md:245` is the repository's README.

## 1. Inventory

| Component | Code | State | Operations |
|---|---|---|---|
| Delivery service | `service.py` | none of its own: local variables of handlers, rows it loads | create, idempotent create, send an attempt, retry |
| Credential cache | `service.py:78-110` | one bounded `OrderedDict` per process | `put`, `get`, `clear` (tests only) |
| Redaction, fingerprints, key check | `security.py` | none (pure, but reads the settings) | `redact_headers`, `sensitive_values`, `request_fingerprint`, `validate_idempotency_key` |
| JSON API | `api.py`, `errors.py` | none | POST create, POST retry, GET list, detail, attempts |
| Web UI | `web.py`, templates | none | the same service calls behind forms |
| Tables and sessions | `models.py`, `database.py` | `callback_deliveries`, `delivery_attempts`, one unique index | insert, update, commit, rollback |
| Migrations | `migrations.py` | `schema_migrations`, table columns | `apply_migrations`, then `VACUUM` |
| Signing | `signing.py` | none | sign, verify with a tolerance |
| Mock receiver | `mock_receiver.py` | mode, inbox, verification secret and tolerance | answer a callback, switch the mode, clear the inbox |
| Settings | `config.py` | fixed per process | load, validate |
| Request schemas | `schemas.py` | none | validate input |
| HTTP client | `http_client.py` | connection pool of httpx | `request` |
| Start-up | `main.py` | wiring | `create_app` (validates the settings), `lifespan` (calls `init_db`) |

**Interaction.** A handler of the API or the UI opens a database session, calls
the service, and answers. The service reads and writes both tables through the
session, reads and writes its worker's credential cache, and awaits
`client.request` between two commits. Workers share the database and nothing
else: each process has its own cache and its own event loop. Before a worker
answers anything its `lifespan` has created or migrated the tables. A receiver
checks the signature of a callback by its own clock and secret.

**Concurrency.** Handlers are coroutines and their only `await` on anything
slow is `client.request` (service.py:305). So two handlers of one worker
interleave at that point only, and two handlers of different workers
interleave at every database statement. GET handlers, and the receiver's `set_mode` and
`clear_received`, are plain functions that FastAPI runs in other threads. A session keeps the row it has loaded
(`expire_on_commit=False`, no version column) and a commit writes just the
columns that differ from what was loaded.

**What is hard, and what makes each component correct.** `PROJECT.json` lists
each hazard at its line. In short:

* *Service.* Races of creators on a key; races of retries on a failed delivery;
  crashes and failing commits on either side of the network call; a timeout
  that hides a success; exceptions that are no `httpx.HTTPError`. It is correct
  if the record never says less than the partner saw, one key sends once,
  replays agree, refused calls leave nothing behind, settled evidence is never
  revised, and every accepted call ends.
* *Cache.* Eviction, loss at a restart, values of an older retry. It is correct if
  only the least recently put id is dropped, what is handed out is the latest supplied,
  what is sent was supplied for this delivery, and a missing value refuses the retry.
* *Redaction.* The marker is an ordinary string a client may send; names compare
  without letter case in some places and as keys in others; settings change between two
  lives of a process. It is correct if no value sensitive at the time is stored, if the
  fingerprint ignores just what is secret or generated, and if the partner gets each
  header once with the right value.
* *Migrations.* A crash between two schema changes, or between the commit and `VACUUM`;
  workers starting at once. Correct if whoever serves finds the current schema and no
  plain secret, what is recorded was done, and a race leaves somebody to serve.
* *Signing and receiver.* The tolerance window's ends, two clocks, the timestamp's
  canonical form, a fresh timestamp per attempt, headers the caller forges, a mode
  switched while a callback is answered. Correct if what is signed on time is accepted,
  what is not is refused for good, and the inbox has everything that was answered.
* *Reading.* A list and a detail page are two statements each, and `created_at` is taken
  before the commit. Correct if a listing loses nothing that time stamps tell apart, and
  a page never shows an outcome without its attempt.

## 2. Modules

| Module | What it is |
|---|---|
| `Redaction` | header maps as functions from names to classes of values; redaction, sensitive names, fingerprints |
| `CredentialMap` | the `OrderedDict` of `CredentialCache` as a sequence: `Put`, `Get`, `Evict`, and the dictionary merge |
| `DeliveryService` | the core: workers, handlers, tables, caches, the partner, faults |
| `DeliveryLedger` | an abstract specification: the life of a delivery as a list of outcomes |
| `CredentialCache` | the cache of one process under the two calls that fill it |
| `HeaderRules` | the header functions name by name and spelling by spelling |
| `HeaderPipeline` | deliveries, retries and replays over several lives of a process with different settings |
| `Signing` | the signing contract: `compute_signature`, `verify_signature`, the settings that switch it on |
| `SignedCallbacks` | a service that signs and a receiver that verifies, with two clocks and restarts |
| `Startup` | `init_db` and the migrations, statement by statement, in several workers |
| `Reading` | listings and detail pages beside a writer |
| `DeliveryServiceProofs` | theorems about the core for any number of workers |
| `DeliveryCredentialProofs`, `DeliverySerialProofs` | the same continued: where credentials come from; what a single worker promises, and the refinement of the ledger |
| `CredentialCacheProofs`, `HeaderPipelineProofs`, `StartupProofs`, `SignedCallbacksProofs`, `ReadingProofs` | theorems about the other components |
| `MCDelivery`, `MCHeaders`, `MCSigned`, `MCReading` | the inputs and constants TLC uses |

`DeliveryService` extends `CredentialMap`, which extends `Redaction`, and
instantiates `DeliveryLedger` with a refinement mapping. `CredentialCache` extends the
same `CredentialMap`, so what is proved of the cache is about the operators the service
uses. `HeaderPipeline` extends `HeaderRules`, `SignedCallbacks` extends `Signing`.

The models divide the work so that each stays small enough to check. `DeliveryService` has the
interleavings and the faults, with one letter case and fixed settings; `HeaderPipeline` has the
names and the settings, with one worker whose calls meet only while they wait for the partner;
`SignedCallbacks` has the signature, with one attempt after another; `Reading` has the
readers, with a serial writer.

### How the model corresponds to the code

#### DeliveryService

*State.* `delivery` and `attempt` are the committed tables. `loop[w]` is the
handler that occupies worker `w`'s event loop. `pc[c]`, `on[c]`, `req[c]`,
`view[c]` and `reply[c]` belong to a client call `c`: where its handler is, which
worker has it, what the client asked for, the row as its session loaded it, and
the answer. `cache[w]` is a worker's credential cache. `request[c]` is what call `c`
hands to `client.request`, and `wire` the calls whose request has reached the
partner. A call inserts at most one delivery and one attempt, so both are named
after the call.

*Actions.*

| Action | Code |
|---|---|
| `ReceiveCreate`, `ReceiveRetry` | a handler of `api.py` starts |
| `ReceiveForm`, `RetryForm` | a handler of `web.py` starts: an empty key is no key, and nothing can be re-supplied |
| `Validate` | `validate_idempotency_key`, `fingerprint_of` |
| `Lookup`, `Relookup` | `find_by_idempotency_key` before the insert, and after `IntegrityError`, each with `_replay_or_conflict` |
| `Insert` | the commit of `create_delivery`, with the unique index |
| `Remember` | `refresh`, then `credential_cache.put` |
| `Load` | `get_delivery` and the checks of `retry_delivery` |
| `Refuse` | the exceptions of `send_attempt` before it writes anything |
| `Begin` | from `credential_cache.get` to the first commit of `send_attempt` and the start of `client.request` |
| `Transmit` | the partner receives the request, perhaps after the handler timed out or its worker died |
| `Finish` | the request returns or raises `httpx.HTTPError`; the second commit |
| `Respond` | the rest of `retry_delivery` and the answer |
| `StoreError` | a statement or commit fails, the handler ends with a 500 (after the last commit: before or after the cache is updated) |
| `Crash` | a worker dies and is restarted |

*Data.* A header value is one of four classes: absent, plain, not ASCII, or the
redaction marker itself. A credential is the call that supplied it, so a
property can ask where a transmitted credential came from. A payload is a model
value; one of them stands for text with a lone surrogate, which JSON admits and
UTF-8 does not. An HTTP outcome is one of 2xx, any other answer, or a transport
error (timeouts included).

#### The other modules

* `CredentialCache`: `cache` is `_data` of the class, the least recently put first.
  `Remember` is the `put` of `create_delivery`, `KeepOverrides` the `get`, merge and `put` of
  `retry_delivery`. `puts`, `put_at` and `latest` are an account the properties compare it with.
  The lock of the class protects against threads; both calls run on the event
  loop without an `await` between `get` and `put`, so each is one action.
* `HeaderRules`: a key is a lower-cased name and a spelling of it. A dict is a set of entries, each with its key, its place
  in insertion order and its value. Each Python function has the operator of its name. `Assigned` is what a sequence of
  assignments `dict[key] = value` leaves: a key keeps its first place and takes its last value. `_set_header` takes the
  entries of another dict at once, and the last entry of a name is the one that stays. `Merge` is `{**base, **overrides}`.
  `HeaderPipeline`: `Create` is a POST up to `client.request`, `Retry` likewise, `Finish` the rest
  with the outcome, `Restart` the end of a process and the start of one with other settings.
  `attempt[c].wire` is what is sent, `attempt[c].evidence` what is stored. `Put` is `CredentialCache.put` with
  its eviction: `memory` holds the values, `puts` the order in which they came. If the settings
  sign, `Attempt` puts the two names of `SignedBy` over whatever the client gave; `User-Agent` and `X-Callback-Attempt`
  are set like the `own` headers that are modelled, and are left out.
* `Signing`: a MAC is a record of what it was made of, so HMAC is injective. Texts that are not
  `str(int)` are `Garbled`. `SignedCallbacks`: `Send` is `send_attempt` up to the request with the
  timestamp asked for at `_signing_clock`; `Judge`, `Record` and `Respond` are the stretches of
  `receive_callback` between which another thread may run `set_mode` or `clear_received`;
  `TakeAnswer` and `GiveUp` are its two ends at the service. `ahead` is how far either clock is off.
* `Startup`: `schema` is the set of tables, columns and indexes, `ledger` is `schema_migrations`, `raw`
  says whether evidence holds a plain credential, `residue` whether free pages do, `writer` who has an open
  write transaction. One action is one statement. sqlite3 opens a transaction at the
  first INSERT or UPDATE only, so that CREATE and ALTER stand as soon as they are executed,
  although `engine.begin()` suggests otherwise, while the redaction and both rows of
  `schema_migrations` come together. A statement that waits for the writer waits for `Free`.
* `Reading`: `Stamp` and `Commit` are the two ends of an INSERT, whose `created_at` is computed first;
  `Begin` and `Settle` are the two commits of `send_attempt`; `CountRows` and `SelectPage` the statements of
  `list_deliveries`; `QueryDetail` those of `get_delivery`, in the order of `selectinload`.
  Equal time stamps come in any order, another one each time.

## 3. Properties

| Property | Says | Workers |
|---|---|---|
| `EvidenceBeforeWire` | what a partner received was recorded first, with the same delivery and number; no answer is recorded that was not given | any |
| `OneSendPerKey` | at most one create call per key transmits | any |
| `ReplaysAgree` | calls answered for one key get one delivery and asked for the same request; conflicts are genuine | any |
| `RefusalLeavesNoTrace` | a refused or replayed call writes no row and sends nothing | any |
| `CredentialsTraceable` | each transmitted header has a value someone supplied for this delivery; the marker is never sent in place of a credential | any |
| `PendingExplained` | a pending delivery nobody works on had a call that died or ended with a 500 | any |
| `StampedIffDelivered` | `delivered_at` is set exactly when some attempt was accepted | any |
| `EvidenceIsKept` | a settled attempt never changes; no attempt changes delivery or number | any |
| `SerialAttempts` | one attempt in flight per delivery, which is pending meanwhile; numbers are 1..`attempt_count`, each once | one |
| `SummaryIsLatest` | a settled delivery shows its latest attempt's outcome | one |
| `ImplementsLedger` | the tables evolve as `DeliveryLedger` allows | one |
| `CallsAnswered` | an accepted call is answered, or waits for its own partner for ever | any, fair |
| `DeliverySettles` | a pending delivery becomes delivered or failed, or was abandoned by a call that died or ended with a 500, or waits for its partner for ever | any, fair |

The other modules:

| Module | Property | Says |
|---|---|---|
| `CredentialCache` | `TypeOK` | never more than `MaxEntries` entries, no id twice |
| | `RetainsRecent` | what is dropped was put before everything that stays, and only when the cache was full |
| | `HandsOutLatest` | the values of an entry are the latest supplied for each header |
| `HeaderPipeline` | `WireFaithful` | the partner gets each name once, the service's own headers on top (signed ones too if signing is on), and the latest value that was supplied to this process |
| | `ReadableOnlyIfDropped` | a value given under a sensitive name is readable in evidence only if the name was no longer sensitive |
| | `RepeatsDecided` | with unchanged settings the logical request alone decides between replay and conflict |
| | `ReplayIsSame` | whatever settings did, a replay hides no difference in an ordinary header |
| | `RefusedOnlyIfLost` | a retry lacks a credential only after a restart, if nobody re-supplied it since, or if the cache has taken in as many other deliveries as it holds |
| `SignedCallbacks` | `SignedAsRecorded` | what an attempt records of its signature is what went out |
| | `RejectedOnlyIfLate` | a properly signed callback is rejected only for its own delay as the two clocks see it |
| | `AcceptedIsGenuine` | what is accepted was signed with the secret for this body, and by the service in time |
| | `RejectionIsFinal` | a rejection is a 401 in the inbox, on the wire and in the evidence |
| | `InboxComplete` | what was answered is in the inbox |
| `Startup` | `ServingIsReady` | who serves finds the schema complete and the evidence redacted |
| | `LedgerHonest` | a recorded migration was carried out |
| | `ResidueExplained` | old values stay in free pages only until `VACUUM`, or because a worker was stopped just before it |
| | `RaceWon` | if workers start, one comes to serve, unless a process is stopped or a statement fails |
| `Reading` | `NoneMissed` | a listing has every delivery committed before it began, unless time stamps tie or the client trusts a total that has changed |
| | `RepeatsExplained` | a delivery appears twice only if one was committed meanwhile or time stamps tie |
| | `DetailNeverBehind` | a page has as many attempts as its row counts, and the outcome the row shows |

`Reading.TypeOK` says besides types that attempts follow one another, `Startup.TypeOK` that the two rows
of `schema_migrations` come together, `HeaderPipeline.TypeOK` that accepted headers are dicts without blanks.

`ControlOK`, `AwaitOK`, `RowsOK`, `UniqueKeys` and `RepliesOK` of `DeliveryService`, `ProgressOK` of `Startup`,
`InOrder` of `CredentialCache`, and the last seven definitions of `SignedCallbacks` are strengthenings the
proofs need; the later proof modules define theirs themselves.

**The abstract specification.** `DeliveryLedger` has no calls, sessions, caches or
faults: a delivery is opened once, an attempt is appended only to an empty
history or after a failed attempt, and only a pending last attempt is settled.
The mapping reads the history of a delivery from its attempts in the order of their
numbers. With one worker every step of the service is a step or a stutter of the ledger;
with several it is not (see the findings), which is why that run has one worker.

## 4. Runs

| Run | Instance | Shows |
|---|---|---|
| `one_worker` | 1 worker, 3 calls, every kind of request, 1 crash or failing statement | the safety properties of a single process, the serial ones included |
| `two_workers` | 2 workers, 3 calls, ordinary requests, 1 crash | the properties that need the database to arbitrate |
| `ledger` | 1 worker, 4 calls, 1 crash | the refinement of `DeliveryLedger` |
| `liveness` | 2 workers, 3 calls, a keyed and a refused creation, no faults | both liveness properties under `FairSpec` |
| `failed_without_reason` | 2 workers | finding 1 |
| `repeated_number` | 2 workers | finding 2 |
| `pending_forever` | 1 worker, 2 calls, no faults | finding 3 |
| `cache` | 3 ids, 2 entries, 2 headers, 5 puts, restarts | the promises of the cache |
| `headers` | 3 calls, 2 lives, 3 settings (signing on or off), 5 names, 3 spellings, a cache of 1 entry | what is stored, sent, replayed and refused |
| `signed` | 1 delivery, 2 attempts, the service started twice, 6 settings, 4 choices of caller's headers, clocks apart by at most 2, one switch of the mode, one clearing of the inbox | recorded, accepted and rejected signatures, and the receiver's handler against other threads |
| `startup` | 3 workers, 3 starts, 1 fault, 4 initial files, `FairSpec` | start-up through races and crashes |
| `reading` | 3 deliveries, 3 ticks, 2 attempts, pages of 1 | listings and detail pages beside a writer |

**Bounds.** *Calls* (3 or 4): an invariant here relates at most a delivery, a
retry that left its mark, and a retry that meets it, or two creators and a
retrier; three calls make those. `ledger` has four, so that a delivery can fail twice and be
retried twice. *Workers* (2): they meet only through the database, and a race has two
parties. *Keys*: one well-formed key, because calls with different keys share
nothing but the cache; and a malformed one. *Headers*: one sensitive, one not.
*MaxEntries* = 1: the second delivery with credentials evicts the first, which
the real 10 000 would do later and no differently. *MaxCrashes*, *MaxStoreErrors*, *MaxFaults* =
1: after one fault the system must already be in a state that the next handler
copes with. `two_workers` takes fewer inputs than `one_worker`
because odd inputs are refused before handlers can meet. `liveness` takes an ordinary keyed creation and one with a value
that is not ASCII, so that deliveries settle and are abandoned, and has no faults, since a temporal check of its
states costs the most; what a fault leaves behind is the subject of `PendingExplained`. In `ledger`, `liveness` and some of the
violation runs requests carry no credentials: a second worker lacks them and would
answer "unavailable", and the race would not happen. Invariant runs declare the calls
symmetric: no definition prefers one call to another except by `CHOOSE`
over a set with one member. Runs with temporal properties do not use symmetry.

In `cache`, two entries and three ids make every order of eviction, and five puts an id that is dropped
and comes back. In `headers`, a creation, a retry and a second retry, or a creation, its repetition and a
retry, are what the properties relate; the header lists have a name twice in two spellings, a padded name,
the marker as a value, alone and beside another spelling of the name, names the service sets itself, and a name that settings make sensitive, leave
alone, or take for a signing header, with signing on and off. A cache of one entry drops the credentials of the first
delivery as soon as a second brings some. In `signed`, a tolerance of 1 with times 0 and 1 and either clock up to 2 ahead has
differences below, at and beyond both ends of the window; a second attempt meets a rotated secret, another
header name, or signing switched off; and a late handler of the first attempt runs beside it. In `startup`, three workers
race at every statement, or two race and one of them is stopped at any statement and comes back.
In `reading`, three deliveries in three ticks have ties and commits out of order, pages of one make every boundary
between pages, and two attempts are enough for a delivery to fail and begin again while its page is read.

No run turns deadlock checking off. `Terminated`, `Done`, `Quiet`, `Settled` and `Idle` are the only ways to
stop, and each needs that everything begun has ended.

**Fairness.** `FairSpec` asks weak fairness of each call's own steps, `Step(c)`, but not of
the end of `client.request` (`Finish`, the one step from `"await"`): the event loop runs ready handlers, and a worker never keeps
its loop for ever, because a handler on the loop has no other wait. Nothing is assumed of
clients, of the partner, of crashes or of database failures. In particular a request need not end: the
`timeout_seconds` of a delivery is httpx's timeout for each operation (connect, read, write, pool), so a partner
that sends a byte now and then holds the call as long as it likes. What the two properties say is that nobody else is held
up: a call that is not in that wait is answered, and a delivery that stays pending has its own partner to
blame, or a call that ended with a 500.

`Startup.FairSpec` asks weak fairness of each worker's next statement: a process that is starting
runs. A statement that waits for another worker's transaction is enabled again when that one ends, which it
does by the same assumption, because nobody waits while holding the lock. Nobody has to start a worker, and
`RaceWon` is checked without faults.

**Mutants.** For every property of a passing run `PROJECT.json` names a variant of
one definition, as a plausible bug would make it, under which TLC finds the property
violated: no unique index, no fingerprint comparison, a retry of anything
undelivered, credentials checked too late, the first commit forgotten, and so on.
The variants stand beside the originals: a
transaction for each migration, an index without IF NOT EXISTS, the time of the first attempt in every
signature, a window open at its ends, the attempts loaded before the row, names compared as spelled,
and so on.

## 5. Findings

1. **A failed delivery without a reason** (`failed_without_reason`). README.md:247
   says of `failed` that "`last_error` says which". Two workers load one failed
   delivery; both send. One is answered 2xx and commits `last_error = NULL`; the
   other then fails with the error its session loaded, so the flush writes the
   status and not the error. The row is `failed` with no error.
2. **One attempt number twice** (`repeated_number`). service.py:357 says "Always a NEW
   attempt (#N+1)". Both workers of the same race compute `attempt_count + 1`
   from their own snapshot, and no constraint refuses the second row. Within one
   process it cannot happen (`SerialAttempts`).
3. **Pending for ever** (`pending_forever`). README.md:245 says `pending` means
   "HTTP call not finished yet (also what you would see after a crash mid-send)".
   Without a crash, a value that is not ASCII, a payload that has no UTF-8 form, or the
   marker sent as a value ends the handler with a 500 and leaves the delivery pending
   with nothing in flight. It cannot be retried, as only failed deliveries can.

**Where a promise is narrower than the documents.** Some properties have a premise that a document of
the repository does not state. TLC finds a counterexample to each without it.

* `ResidueExplained`. migrations.py:100 rewrites the file "so pre-redaction values do
  not linger in free pages", and README.md:329 adds "No manual step needed". `VACUUM` runs only in the
  process that committed the migration. If it is stopped in between, the next start skips the recorded
  migration and `VACUUM` with it, and the old values stay in free pages for good.
* `ReadableOnlyIfDropped`. schemas.py:62 says re-supplied headers "are used
  for sending and are not stored". Which may be re-supplied follows from the stored marker, what is redacted in the
  evidence from today's settings (service.py:291): a name that has left `SENSITIVE_HEADERS` is stored readable.
  Likewise README.md:61 says a sensitive header is replaced "in everything that is stored or shown": a name that joins
  `SENSITIVE_HEADERS` stays readable in earlier deliveries, because rows are redacted when they are written.
* `RepeatsDecided`. api.py:69 says "Same key + same request → existing delivery", README.md:105 that the
  mapping "survives restarts". The fingerprint depends on the settings (security.py:88): after a restart
  with others the same request may be answered with 409.
* `RejectionIsFinal` speaks of 401 only. The receiver reads its mode for the record (mock_receiver.py:71) and again for
  the answer (line 87), and `set_mode` runs in another thread, so the inbox may say 200 of a callback that was answered 503.
* `CallsAnswered` and `DeliverySettles`. README.md:26 has the request sent "with the configured timeout", but the timeout
  is one for each operation of the connection (service.py:310, http_client.py:13), and the code bounds no total. A request may outlast
  it by any factor, and its delivery is pending and not to be retried for as long.
* `RefusedOnlyIfLost`. service.py:81 has credentials "lost on restart (then retry asks the caller to re-supply them)".
  They are also lost when as many other deliveries as the cache holds have brought credentials since the process started, and only a
  retry that re-supplies values refreshes an entry (service.py:376), so retries alone do not keep it. If an
  entry is dropped while such a retry waits for its partner, the retry puts back the values it re-supplied
  without those that were dropped.
* `NoneMissed`. A client that pages until it has `total` items may lose one to a commit between the two statements,
  and deliveries with equal time stamps may be missed or repeated.

## 6. Proofs

Everything in this section holds for all values of the constants: any number
of workers, calls, headers, attempts, crashes and failing statements, any names, secrets, clocks and cache
size. The proofs assume only the named assumptions of the modules (`NoneIsNoCall`, `NoneIsNoReply`, `MaxEntriesPositive`,
`SensitiveAssumption`, `WorkersAssumption`, `InputsAssumption`, `LimitAssumption`, `RulesAssumption`, `ClientsGiveHeaders` and the like),
which TLC evaluates in every run. The one hypothesis beyond them is `OneWorker` in `DeliverySerialProofs`, below.

`DeliveryServiceProofs`:

| Theorem | Property | Inductive invariant |
|---|---|---|
| `TypeCorrect` | `TypeOK` | `Typing`: `TypeOK` and `ControlOK` |
| `PersistBeforeSend` | `EvidenceBeforeWire` | `Evidence`: `EvidenceBeforeWire` and `AwaitOK`, given `Typing` |
| `IdempotentCreation` | `ReplaysAgree` | `Creation`: `RowsOK`, `UniqueKeys`, `RepliesOK`, given `Typing` |
| `KeySentOnce` | `OneSendPerKey` | `Evidence` and `Creation` together |
| `EvidenceStays` | `EvidenceIsKept` (an action property) | `Evidence` |
| `RefusedLeaveNothing` | `RefusalLeavesNoTrace` | the property itself, given `Evidence` and `Creation` |
| `StampIsEvidence` | `StampedIffDelivered` | the property itself, given `Evidence` and `RowsOK` |
| `PendingHasCause` | `PendingExplained` | `PendingOK`: the property, but a call that has recorded an outcome explains nothing; given `Evidence` and `Creation` |

*Why they need strengthening.* The type of a snapshot or of an outgoing request depends on where
the handler stands, hence `ControlOK`. `EvidenceBeforeWire` speaks of
requests that were received; to keep it one must know of requests that
are about to be, hence `AwaitOK`. `ReplaysAgree` compares two answers given
at different times; what ties them is the row, so `RepliesOK` says that an answer still
agrees with the table, `UniqueKeys` that there is one row per key, and `RowsOK`
that the row is what its creator asked for. `OneSendPerKey` follows: two senders
with one key would have two rows with that key. `EvidenceIsKept` needs that the
attempt a handler awaits is still pending (in `AwaitOK`): only then does the
second commit settle rather than revise. A refused call leaves no trace because
whoever refuses is still before its first write (`RowsOK`, `AwaitOK` by control point),
and an answered call takes no further step.

Each induction has one lemma or step per action and, below it, one step per conjunct the action
can disturb. All strengthenings were first checked with TLC.

`DeliveryCredentialProofs` proves `CredentialsHaveSource` (`CredentialsTraceable`). The property speaks of what partners
received; the value was typed in by one call, kept in the memory of a worker, perhaps merged with
others, and read by another call. So `CredentialsOK` follows it: `CachesOK` says of every cache entry of every worker
that some call supplied its values for that delivery, `SendsOK` the same of an outgoing request and of what is received, and
`RedactedOK` that a marker in a row stands for a value that has to come from there. A supply is never
taken back (`SuppliedStays`), which makes the three inductive; lemmas on `Put`, `Get` and the merge carry them
through evictions and re-supplied headers.

`DeliverySerialProofs` has the hypothesis `OneWorker`: `Workers` has at most one element. The image runs one
uvicorn process (Dockerfile:28), and the runs `repeated_number` and `failed_without_reason` show that the theorems
are false without it. Calls, crashes, restarts and failing statements are as many as before.

| Theorem | Property | What it adds |
|---|---|---|
| `AttemptsAreSerial` | `SerialAttempts` | one attempt in flight per delivery, numbers without gaps |
| `RowShowsLatest` | `SummaryIsLatest` | the row shows the outcome of the attempt with the highest number |
| `NumbersAreNew` | `AlwaysNewAttempt` | what the README of the repository says of attempt numbers holds after all with one worker |
| `FailedHasReason` | `FailedSaysWhy` | likewise a failed delivery has a status or an error to show |
| `TablesAreLedger` | `ImplementsLedger` | every step maps to a step of `DeliveryLedger` or to a stutter |

What one worker gives is `LoopHeld`: a handler between two awaits holds the event loop. Then what a session has loaded
is what the tables hold (`SessionsOK`), although nothing locks the row: between its load and its commit a handler awaits
nothing but the partner, and while it does so the row is pending, so no retry gets past its check.
Hence the numbers of a delivery's attempts are 1 to `attempt_count`, each once (`NumbersOK`), and the refinement mapping,
which reads a history off those numbers, is a sequence that grows by one (`HistoryTells`).

`ReadingProofs`: `ReadingTyped` (`TypeOK`), `PagesLoseNothing` (`NoneMissed`), `PagesRepeatForACause` (`RepeatsExplained`)
and `DetailKeepsUp` (`DetailNeverBehind`), for any number of deliveries and any page size. The idea of the first two is that a row
without a tie stands, in every order a query may return, right after the rows that are newer (`PlaceInOrder`), and the number of those only
grows (`AheadGrows`). So a row is either on an earlier page or at least `offset` rows are ahead of it
(`Covered`); and while nothing is committed, a row that was shown has fewer than `offset` ahead of it (`Once`). For the detail page,
an outcome once settled stays at its number while attempts are appended (`Behind`).

`CredentialCacheProofs`: `CacheBounded` (`TypeOK`), `OldestDropped` (`RetainsRecent`) and `LatestHandedOut`
(`HandsOutLatest`). The inductive invariant is these three and `InOrder`: entries stand in the order in which they were
put. Without it nothing says that the first entry, which is evicted, is the oldest. Lemmas say what
`Without`, `Evict` and `Put` do to the entries of a sequence; the state machine's proof cites only them.

`StartupProofs`: `StartupTyped` (`TypeOK`), `LedgerIsHonest` (`LedgerHonest`) and `ServiceIsReady`
(`ServingIsReady`), and `ResidueIsExplained` (`ResidueExplained`, inductive by itself given
the types). The inductive invariant of the others adds `ProgressOK`: what a worker has come past exists, and since nothing is
ever dropped it stays, whoever created it. That is why a crash between two statements costs
nothing but a start.

`SignedCallbacksProofs` has two inductive invariants.

| Theorem | Property | From |
|---|---|---|
| `SignedTyped` | `TypeOK` | `IInv` |
| `RecordedIsSigned` | `SignedAsRecorded` | `IInv`, with `SettingsOK`: the two names differ, as `Settings.validate` demands, so the second `_set_header` does not undo the first |
| `RejectedForGood` | `RejectionIsFinal` | `IInv`, with `RejectionOK` and `HandlerOK`: the running handler's 401 is its verdict's |
| `AnswersAreRecorded` | `InboxComplete` | `IInv`, with `HandlerOK`: a handler that has recorded is in the inbox |
| `AcceptedGenuinely` | `AcceptedIsGenuine` | `JInv`: `SentAs` (what was sent is what was signed then), `VerdictOK` (a verdict is what `verify_signature` said) |
| `RejectedForLateness` | `RejectedOnlyIfLate` | `JInv` |

`HeaderPipelineProofs`, for any names, values, settings, restarts and header lists of any length:

| Theorem | Property | From |
|---|---|---|
| `HeadersTyped` | `TypeOK` | `Base`: the types, `RowsFollow`, `CallsHaveRows`, `MemoryFollows` |
| `RepeatsAreDecided` | `RepeatsDecided` | `Answers`: the code of a repeated creation compares the two fingerprints, each under its own settings |
| `ReplaysHideNothing` | `ReplayIsSame` | `Answers` |
| `EvidenceHidesCredentials` | `ReadableOnlyIfDropped` | `Evidence`: what is recorded is redacted by the settings of the call |
| `RefusalsHaveCause` | `RefusedOnlyIfLost` (an action property) | `Accounted`, below |
| `WireIsFaithful` | `WireFaithful` (an action property) | `Accounted`, below |

The properties speak of what clients gave; the service works on rows, lowered names and a memory, so half of the proof
is about the operators. What a header list leaves is a dict whatever its length (`CheckedIsDict`), its last entry of a name exists and is
unique (`LastOfName`, `LastIs`), and from there one lemma says what each function returns name by name: `LoweredIs`,
`RedactedIsDict`, `FingerprintIs`, `RestoredIs`, `SetIs`, `BuiltIs`, `SignedIs`, `WireIs`, `MergeIs`, and `PutIs` what a put keeps and drops:
whoever loses an entry to it has seen at least `MaxEntries` other deliveries put, which is how `Crowded` gets into the two
properties about memory. No induction over the list is
needed, because `Assigned` says which assignment to a key is the last instead of running through them.

`RowsFollow` says that a row has its creator's headers, redacted by the settings of that day: it is what makes a fingerprint
in a row comparable with a later one, and a recorded value traceable to who gave it. The two action properties need to know
what memory holds, and that is `Accounted`: `Traced` (a remembered value is one that a finished retry re-supplied to this process, or else the
one of the creation, if this process was its own), `Ready` (in a row that may be sent the marker
stands for sensitive values only, and the process of its creation has each of them in memory, unless the cache
may have dropped them), `Sendable` (what is sent is about
such a row and re-supplies redacted names only), and `Failing` (a row whose creation could not send stays pending and is never retried).

*Model-checked only.* Liveness (`CallsAnswered`, `DeliverySettles`, `RaceWon`) is outside the prover's
reach, as is `ENABLED`. Every other property of a passing run is stated by a theorem.

## 7. Not modelled

* The exception of `send_attempt` on an empty signing secret (a guard of `SignedCallbacks.Send`): `Settings.validate` refuses to
  start in that state.
* The re-raise when the second lookup finds nothing (service.py:232): no row
  is ever deleted.
* The time between signing, the first commit and the send (service.py:281-310), which are one instant in
  `SignedCallbacks.Send`: it counts as time on the network. `SignedCallbacks.Retry` has no re-supplied headers; they are in
  `HeaderPipeline.Retry`, whose `Attempt` has the names of the signature but no clock and no MAC.
* Latencies, bodies, the redaction of a response's headers, and truncation: no later step depends on them.
* Rendering, response formats, the parsing of forms and of the environment: no state.
* Header names and values that the patterns of `_check_headers` refuse: the call ends there.
* The `dict` check of `_redact_json_column`, and a `schema_migrations` with one of the two rows, which no
  release has written.
* A negative Unix time in a timestamp header; times are naturals, and the window is symmetric.
* Databases other than SQLite for start-up: their DDL is transactional and `VACUUM` is skipped.
* Settings that differ between two workers that run at the same time.
* Templates, static files, examples, containers: no state.

## 8. Plan

Done: the core with its ledger, the cache, headers and settings, signing with the receiver, start-up,
reading; thirty-seven theorems, among them every safety and action property of the passing runs. Left:

1. The refinement of `CredentialCache` by the caches of `DeliveryService`: the same operators, so
   `CredentialCacheProofs`' lemmas on `Put` apply.
