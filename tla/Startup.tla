------------------------------ MODULE Startup ------------------------------
(***************************************************************************)
(* Start-up of the server processes on one SQLite file: lifespan           *)
(* (app/main.py), init_db (app/database.py), run_migrations                *)
(* (app/migrations.py). Several workers may start at once, on a new        *)
(* database, on one of release 0.1, or on a current one; any of them may   *)
(* be killed between two statements and started again.                     *)
(*                                                                         *)
(* One action is one statement with the Python code around it. sqlite3     *)
(* opens a transaction at the first INSERT or UPDATE only: a CREATE, an    *)
(* ALTER and a SELECT before it stand for themselves. So the schema        *)
(* changes one statement at a time, while the redaction and both rows of   *)
(* schema_migrations are one transaction, from the INSERT of 0001 to the   *)
(* end of engine.begin().                                                  *)
(*                                                                         *)
(* Not modelled: rows that are no dict, which _redact_json_column leaves;  *)
(* a ledger with one of the two rows, which no release has written.        *)
(***************************************************************************)
EXTENDS Naturals

CONSTANTS Workers,   \* server processes
          None,      \* nobody
          MaxStarts, \* bound on how often a process is started
          MaxFaults  \* bound on crashes and failing statements

ASSUME NoneIsNoWorker   == None \notin Workers
ASSUME StartupBounds    == MaxStarts \in Nat /\ MaxFaults \in Nat

Tables == {"callback_deliveries", "delivery_attempts"}

\* The columns that _0001_security_columns adds, in its order.
Columns == <<"idempotency_key", "request_fingerprint",
             "signature_algorithm", "signature_timestamp">>

ColumnSet == {Columns[i] : i \in 1..4}

KeyIndex == "uq_callback_deliveries_idempotency_key"

IndexesOf(t) == IF t = "callback_deliveries"
                THEN {KeyIndex, "ix_callback_deliveries_status"}
                ELSE {"ix_delivery_attempts_delivery_id"}

ColumnsOf(t) == IF t = "callback_deliveries"
                THEN {Columns[1], Columns[2]} ELSE {Columns[3], Columns[4]}

Objects == Tables \cup ColumnSet \cup UNION {IndexesOf(t) : t \in Tables}

\* What release 0.1 left behind.
Legacy == Tables \cup {"ix_callback_deliveries_status",
                       "ix_delivery_attempts_delivery_id"}

MIGRATIONS == {"0001_security_columns", "0002_redact_existing_evidence"}

VARIABLES
    schema,   \* the tables, columns and indexes that exist
    ledger,   \* the rows of schema_migrations
    raw,      \* some committed evidence holds a plain credential
    residue,  \* free pages of the file hold one
    writer,   \* the worker with an open write transaction, or None
    pc,       \* worker -> the statement it has reached
    todo,     \* worker -> what create_all has found missing
    column,   \* worker -> the column of 0001 it is at
    lacks,    \* worker -> whether it saw that column missing
    starts, faults,
    missed    \* a worker was stopped that should have run VACUUM

database == <<schema, ledger, raw, residue, writer>>
locals   == <<todo, column, lacks>>
vars     == <<database, pc, locals, starts, faults, missed>>

Init ==
    /\ \/ schema = {} /\ ledger = {} /\ raw = FALSE
       \/ schema = Legacy /\ ledger = {} /\ raw \in BOOLEAN
       \/ schema = Objects /\ ledger = MIGRATIONS /\ raw = FALSE
    /\ residue = FALSE
    /\ writer = None
    /\ pc = [w \in Workers |-> "down"]
    /\ todo = [w \in Workers |-> {}]
    /\ column = [w \in Workers |-> 1]
    /\ lacks = [w \in Workers |-> FALSE]
    /\ starts = 0
    /\ faults = 0
    /\ missed = FALSE

Goto(w, label) == pc' = [pc EXCEPT ![w] = label]

Free == writer = None

-----------------------------------------------------------------------------
(* create_all *)

\* The process starts and its lifespan calls init_db.
Start(w) ==
    /\ pc[w] \in {"down", "failed"}
    /\ starts < MaxStarts
    /\ starts' = starts + 1
    /\ Goto(w, "check")
    /\ UNCHANGED <<database, locals, faults, missed>>

\* Which tables are missing is asked once, before any is created.
CheckTables(w) ==
    LET missing == Tables \ schema
    IN  /\ pc[w] = "check"
        /\ todo' = [todo EXCEPT ![w] =
               missing \cup UNION {IndexesOf(t) : t \in missing}]
        /\ Goto(w, IF missing = {} THEN "ledger" ELSE "create")
        /\ UNCHANGED <<database, column, lacks, starts, faults, missed>>

\* A table comes before its indexes, and deliveries before attempts.
Frontier(rest) ==
    IF "callback_deliveries" \in rest THEN {"callback_deliveries"}
    ELSE IF rest \cap IndexesOf("callback_deliveries") # {}
    THEN rest \cap IndexesOf("callback_deliveries")
    ELSE IF "delivery_attempts" \in rest THEN {"delivery_attempts"} ELSE rest

\* CREATE TABLE and CREATE INDEX fail if another worker was faster.
CreateObject(w) ==
    /\ pc[w] = "create" /\ Free
    /\ \E o \in Frontier(todo[w]) :
          \/ /\ o \in schema
             /\ Goto(w, "failed")
             /\ UNCHANGED <<schema, todo>>
          \/ /\ o \notin schema
             /\ schema' = schema \cup {o} \cup
                    IF o \in Tables THEN ColumnsOf(o) ELSE {}
             /\ todo' = [todo EXCEPT ![w] = @ \ {o}]
             /\ Goto(w, IF todo[w] = {o} THEN "ledger" ELSE "create")
    /\ UNCHANGED <<ledger, raw, residue, writer, column, lacks, starts, faults, missed>>

-----------------------------------------------------------------------------
(* run_migrations *)

\* CREATE TABLE IF NOT EXISTS schema_migrations, and the names in it.
ReadLedger(w) ==
    /\ pc[w] = "ledger"
    /\ column' = [column EXCEPT ![w] = 1]
    /\ Goto(w, IF ledger = {} THEN "column" ELSE "serving")
    /\ UNCHANGED <<database, todo, lacks, starts, faults, missed>>

CheckColumn(w) ==
    /\ pc[w] = "column"
    /\ lacks' = [lacks EXCEPT ![w] = Columns[column[w]] \notin schema]
    /\ Goto(w, "alter")
    /\ UNCHANGED <<database, todo, column, starts, faults, missed>>

\* ALTER TABLE ADD COLUMN fails if another worker added the column meanwhile.
AddColumn(w) ==
    LET name == Columns[column[w]] IN
    /\ pc[w] = "alter" /\ Free
    /\ \/ /\ lacks[w] /\ name \in schema
          /\ Goto(w, "failed")
          /\ UNCHANGED <<schema, column>>
       \/ /\ ~lacks[w] \/ name \notin schema
          /\ schema' = IF lacks[w] THEN schema \cup {name} ELSE schema
          /\ column' = [column EXCEPT ![w] = IF @ < 4 THEN @ + 1 ELSE @]
          /\ Goto(w, IF column[w] < 4 THEN "column" ELSE "index")
    /\ UNCHANGED <<ledger, raw, residue, writer, todo, lacks, starts, faults, missed>>

\* Variants: the index is left to create_all; no IF NOT EXISTS.
LeaveIndex(w) ==
    /\ pc[w] = "index" /\ Free
    /\ Goto(w, "record")
    /\ UNCHANGED <<database, locals, starts, faults, missed>>

InsistOnIndex(w) ==
    /\ pc[w] = "index" /\ Free
    /\ schema' = schema \cup {KeyIndex}
    /\ Goto(w, IF KeyIndex \in schema THEN "failed" ELSE "record")
    /\ UNCHANGED <<ledger, raw, residue, writer, locals, starts, faults, missed>>

CreateKeyIndex(w) ==
    /\ pc[w] = "index" /\ Free
    /\ schema' = schema \cup {KeyIndex}
    /\ Goto(w, "record")
    /\ UNCHANGED <<ledger, raw, residue, writer, locals, starts, faults, missed>>

\* A variant with a transaction of its own for each migration.
RecordAndCommit(w) ==
    /\ pc[w] = "record" /\ Free
    /\ IF ledger = {}
       THEN ledger' = {"0001_security_columns"} /\ writer' = w /\ Goto(w, "redact")
       ELSE Goto(w, "failed") /\ UNCHANGED <<ledger, writer>>
    /\ UNCHANGED <<schema, raw, residue, locals, starts, faults, missed>>

\* The INSERT of 0001 opens the transaction; it waits for another worker's, and
\* fails on the primary key if that one has committed the same name.
RecordFirst(w) ==
    /\ pc[w] = "record" /\ Free
    /\ IF ledger = {}
       THEN writer' = w /\ Goto(w, "redact")
       ELSE Goto(w, "failed") /\ UNCHANGED writer
    /\ UNCHANGED <<schema, ledger, raw, residue, locals, starts, faults, missed>>

\* A variant without VACUUM.
CommitAndServe(w) ==
    /\ pc[w] = "redact"
    /\ ledger' = MIGRATIONS
    /\ raw' = FALSE
    /\ residue' = (residue \/ raw)
    /\ writer' = None
    /\ Goto(w, "serving")
    /\ UNCHANGED <<schema, locals, starts, faults, missed>>

\* _0002_redact_existing_evidence, its INSERT and the COMMIT. What was redacted
\* stays in free pages.
RedactAndCommit(w) ==
    /\ pc[w] = "redact"
    /\ ledger' = MIGRATIONS
    /\ raw' = FALSE
    /\ residue' = (residue \/ raw)
    /\ writer' = None
    /\ Goto(w, "vacuum")
    /\ UNCHANGED <<schema, locals, starts, faults, missed>>

Vacuum(w) ==
    /\ pc[w] = "vacuum" /\ Free
    /\ residue' = FALSE
    /\ Goto(w, "serving")
    /\ UNCHANGED <<schema, ledger, raw, writer, locals, starts, faults, missed>>

-----------------------------------------------------------------------------
(* Faults *)

Starting(w) == pc[w] \notin {"down", "failed", "serving"}

\* The open transaction of w, if any, is rolled back.
Abandon(w) ==
    /\ faults < MaxFaults
    /\ faults' = faults + 1
    /\ missed' = (missed \/ pc[w] = "vacuum")
    /\ writer' = IF writer = w THEN None ELSE writer
    /\ UNCHANGED <<schema, ledger, raw, residue, locals, starts>>

\* A statement fails (database locked for too long, disk full): init_db raises.
StatementFails(w) == Starting(w) /\ Abandon(w) /\ Goto(w, "failed")

Crash(w) == (Starting(w) \/ pc[w] = "serving") /\ Abandon(w) /\ Goto(w, "down")

-----------------------------------------------------------------------------
Step(w) ==
    \/ CheckTables(w) \/ CreateObject(w) \/ ReadLedger(w)
    \/ CheckColumn(w) \/ AddColumn(w) \/ CreateKeyIndex(w)
    \/ RecordFirst(w) \/ RedactAndCommit(w) \/ Vacuum(w)

\* Nobody is starting.
Settled == (\A w \in Workers : ~Starting(w)) /\ UNCHANGED vars

Next == \/ \E w \in Workers :
              Start(w) \/ Step(w) \/ StatementFails(w) \/ Crash(w)
        \/ Settled

Spec == Init /\ [][Next]_vars

\* A process that is starting goes on. Nobody has to start one.
FairSpec == Spec /\ \A w \in Workers : WF_vars(Step(w))

-----------------------------------------------------------------------------
(* Properties *)

\* Types; the two rows of schema_migrations come together or not at all.
TypeOK ==
    /\ schema \subseteq Objects
    /\ ledger \in {{}, MIGRATIONS}
    /\ raw \in BOOLEAN /\ residue \in BOOLEAN
    /\ writer \in Workers \cup {None}
    /\ pc \in [Workers -> {"down", "check", "create", "ledger", "column",
                           "alter", "index", "record", "redact", "vacuum",
                           "serving", "failed"}]
    /\ todo \in [Workers -> SUBSET Objects]
    /\ column \in [Workers -> 1..4]
    /\ lacks \in [Workers -> BOOLEAN]
    /\ starts \in 0..MaxStarts
    /\ faults \in 0..MaxFaults
    /\ missed \in BOOLEAN

\* What the rest of the program takes for granted.
Ready == Tables \cup ColumnSet \cup {KeyIndex} \subseteq schema /\ ~raw

\* A worker answers requests only when the tables, the new columns and the
\* unique index exist and no evidence holds a plain credential, whatever other
\* workers did or failed to do before and meanwhile (main.py: lifespan).
ServingIsReady == \A w \in Workers : pc[w] = "serving" => Ready

\* A recorded migration has been carried out: a later start skips it for good
\* (migrations.py: "if name in done").
LedgerHonest == ledger # {} => Ready

\* Redacted credentials stay in free pages only until the worker that redacted
\* them has run VACUUM. If it was stopped just before, they stay: no later start
\* runs VACUUM again (migrations.py: "if ... in applied_now").
ResidueExplained ==
    residue => missed \/ \E w \in Workers : pc[w] = "vacuum"

\* Under FairSpec: if anyone starts, someone comes to serve, unless a process
\* is stopped or a statement fails.
RaceWon == (\E w \in Workers : Starting(w))
               ~> (faults > 0 \/ \E w \in Workers : pc[w] = "serving")

(* What the proofs add to the invariants to make them inductive *)

\* What a worker has come past exists.
ProgressOK ==
    \A w \in Workers :
        /\ pc[w] = "create" => Tables \subseteq schema \cup todo[w]
        /\ pc[w] \in {"ledger", "column", "alter", "index", "record", "redact"}
              => Tables \subseteq schema
        /\ pc[w] \in {"column", "alter"}
              => \A i \in 1..4 : i < column[w] => Columns[i] \in schema
        /\ pc[w] = "alter" /\ ~lacks[w] => Columns[column[w]] \in schema
        /\ pc[w] \in {"index", "record", "redact"} => ColumnSet \subseteq schema
        /\ pc[w] \in {"record", "redact"} => KeyIndex \in schema
        /\ pc[w] \in {"vacuum", "serving"} => ledger # {}

=============================================================================
