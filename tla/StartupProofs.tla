--------------------------- MODULE StartupProofs ---------------------------
(***************************************************************************)
(* Theorems about start-up, for any number of workers, starts and faults.  *)
(***************************************************************************)
EXTENDS Startup, TLAPS

\* The inductive invariant: a worker knows that what it has come past exists,
\* and nothing that exists is ever removed.
IInv == TypeOK /\ LedgerHonest /\ ProgressOK

\* The names of the schema, and the columns in the order of migration 0001.
LEMMA ColumnNames == /\ Tables \subseteq Objects
                     /\ ColumnSet \subseteq Objects
                     /\ KeyIndex \in Objects
                     /\ \A i \in 1..4 : Columns[i] \in Objects
                     /\ \A t \in Tables : IndexesOf(t) \subseteq Objects
                     /\ \A t \in Tables : ColumnsOf(t) \subseteq Objects
                     /\ ColumnSet = {Columns[i] : i \in 1..4}
<1>1. \A i \in 1..4 : Columns[i] \in ColumnSet
  BY DEF ColumnSet
<1>2. KeyIndex \in IndexesOf("callback_deliveries")
  BY DEF IndexesOf
<1>3. "callback_deliveries" \in Tables
  BY DEF Tables
<1>4. \A t \in Tables : ColumnsOf(t) \subseteq ColumnSet
  BY <1>1 DEF ColumnsOf
<1> QED
  BY <1>1, <1>2, <1>3, <1>4 DEF Objects, ColumnSet

\* A new, an old and a current database satisfy the invariant.
LEMMA InitOK == Init => IInv
<1> SUFFICES ASSUME Init PROVE IInv
  OBVIOUS
<1>1. Tables \subseteq Objects /\ Legacy \subseteq Objects
  BY DEF Objects, Legacy, Tables, IndexesOf
<1>2. MIGRATIONS # {}
  BY DEF MIGRATIONS
<1>3. TypeOK
  <2>1. raw \in BOOLEAN /\ residue \in BOOLEAN
    BY DEF Init
  <2>2. lacks \in [Workers -> BOOLEAN] /\ missed \in BOOLEAN
    BY DEF Init
  <2>3. schema \subseteq Objects /\ ledger \in {{}, MIGRATIONS}
    BY <1>1 DEF Init
  <2>4. starts \in 0..MaxStarts /\ faults \in 0..MaxFaults
    BY StartupBounds DEF Init
  <2> QED
    BY <2>1, <2>2, <2>3, <2>4 DEF Init, TypeOK
<1>4. LedgerHonest
  BY ColumnNames DEF Init, LedgerHonest, Ready
<1>5. ProgressOK
  BY DEF Init, ProgressOK
<1> QED
  BY <1>3, <1>4, <1>5 DEF IInv

\* Every statement of every worker, and every fault, preserves it.
LEMMA StepOK == IInv /\ [Next]_vars => IInv'
<1> SUFFICES ASSUME IInv, [Next]_vars PROVE IInv'
  OBVIOUS
<1> USE DEF IInv, Goto
<1>1. CASE UNCHANGED vars
  BY <1>1 DEF vars, database, locals, TypeOK, LedgerHonest, Ready, ProgressOK
<1>2. ASSUME NEW w \in Workers, Start(w) PROVE IInv'
  <2> USE <1>2 DEF Start, database, locals
  <2>1. TypeOK'
    BY StartupBounds DEF TypeOK
  <2>2. LedgerHonest'
    BY DEF LedgerHonest, Ready
  <2>3. ProgressOK'
    BY DEF ProgressOK, TypeOK
  <2> QED BY <2>1, <2>2, <2>3
<1>3. ASSUME NEW w \in Workers, CheckTables(w) PROVE IInv'
  <2> USE <1>3 DEF CheckTables, database
  <2>1. (Tables \ schema) \cup UNION {IndexesOf(t) : t \in Tables \ schema} \in SUBSET Objects
    BY ColumnNames
  <2>2. TypeOK'
    BY <2>1 DEF TypeOK
  <2>3. LedgerHonest'
    BY DEF LedgerHonest, Ready
  <2>4. ProgressOK'
    BY DEF ProgressOK, TypeOK
  <2> QED BY <2>2, <2>3, <2>4
<1>4. ASSUME NEW w \in Workers, CreateObject(w) PROVE IInv'
  <2> USE <1>4
  <2>1. PICK o \in Frontier(todo[w]) :
          \/ /\ o \in schema
             /\ Goto(w, "failed")
             /\ UNCHANGED <<schema, todo>>
          \/ /\ o \notin schema
             /\ schema' = schema \cup {o} \cup
                    IF o \in Tables THEN ColumnsOf(o) ELSE {}
             /\ todo' = [todo EXCEPT ![w] = @ \ {o}]
             /\ Goto(w, IF todo[w] = {o} THEN "ledger" ELSE "create")
    BY DEF CreateObject
  <2>2. Frontier(todo[w]) \subseteq todo[w]
    BY DEF Frontier
  <2>3. o \in todo[w] /\ o \in Objects
    BY <2>1, <2>2 DEF TypeOK
  <2>4. /\ schema \subseteq schema' /\ schema' \subseteq Objects
        /\ o \in schema'
    BY <2>1, <2>3, ColumnNames DEF TypeOK
  <2>5. TypeOK'
    BY <2>1, <2>3, <2>4 DEF TypeOK, CreateObject
  <2>6. LedgerHonest'
    BY <2>4 DEF LedgerHonest, Ready, CreateObject
  <2>7. ProgressOK'
    <3> SUFFICES ASSUME NEW v \in Workers PROVE ProgressOK!(v)'
      BY DEF ProgressOK
    <3>1. CASE v # w
      BY <3>1, <2>1, <2>4 DEF ProgressOK, TypeOK, CreateObject
    <3>2. CASE v = w
      <4>1. Tables \subseteq schema \cup todo[w]
        BY DEF ProgressOK, CreateObject
      <4>2. Tables \subseteq schema' \cup todo'[w]
        BY <4>1, <2>1, <2>4 DEF TypeOK
      <4>3. pc'[w] = "ledger" => Tables \subseteq schema'
        BY <4>1, <2>1, <2>4 DEF TypeOK
      <4> QED
        BY <3>2, <4>2, <4>3, <2>1 DEF TypeOK, CreateObject
    <3> QED BY <3>1, <3>2
  <2> QED BY <2>5, <2>6, <2>7
<1>5. ASSUME NEW w \in Workers, ReadLedger(w) PROVE IInv'
  <2> USE <1>5 DEF ReadLedger, database
  <2>1. TypeOK'
    BY DEF TypeOK
  <2>2. LedgerHonest'
    BY DEF LedgerHonest, Ready
  <2>3. ProgressOK'
    BY DEF ProgressOK, TypeOK
  <2> QED BY <2>1, <2>2, <2>3
<1>6. ASSUME NEW w \in Workers, CheckColumn(w) PROVE IInv'
  <2> USE <1>6 DEF CheckColumn, database
  <2>1. TypeOK'
    BY DEF TypeOK
  <2>2. LedgerHonest'
    BY DEF LedgerHonest, Ready
  <2>3. ProgressOK'
    BY DEF ProgressOK, TypeOK
  <2> QED BY <2>1, <2>2, <2>3
<1>7. ASSUME NEW w \in Workers, AddColumn(w) PROVE IInv'
  <2> USE <1>7 DEF AddColumn
  <2>1. schema \subseteq schema' /\ schema' \subseteq Objects
    BY ColumnNames DEF TypeOK
  <2>2. TypeOK'
    BY <2>1 DEF TypeOK
  <2>3. LedgerHonest'
    BY <2>1 DEF LedgerHonest, Ready
  <2>4. ProgressOK'
    <3> SUFFICES ASSUME NEW v \in Workers PROVE ProgressOK!(v)'
      BY DEF ProgressOK
    <3>1. CASE v # w
      BY <3>1, <2>1 DEF ProgressOK, TypeOK
    <3>2. CASE v = w /\ pc'[w] # "failed"
      <4>1. Columns[column[w]] \in schema'
        BY <3>2 DEF ProgressOK, TypeOK
      <4>2. \A i \in 1..4 : i =< column[w] => Columns[i] \in schema'
        BY <4>1, <2>1 DEF ProgressOK, TypeOK
      <4>3. CASE column[w] < 4
        BY <3>2, <4>2, <4>3, <2>1 DEF ProgressOK, TypeOK
      <4>4. CASE column[w] = 4
        <5>1. ColumnSet \subseteq schema'
          BY <4>2, <4>4 DEF ColumnSet
        <5> QED
          BY <3>2, <4>4, <5>1, <2>1 DEF ProgressOK, TypeOK
      <4> QED BY <4>3, <4>4 DEF TypeOK
    <3>3. CASE v = w /\ pc'[w] = "failed"
      BY <3>3
    <3> QED BY <3>1, <3>2, <3>3
  <2> QED BY <2>2, <2>3, <2>4
<1>8. ASSUME NEW w \in Workers, CreateKeyIndex(w) PROVE IInv'
  <2> USE <1>8 DEF CreateKeyIndex, locals
  <2>1. TypeOK'
    BY ColumnNames DEF TypeOK
  <2>2. LedgerHonest'
    BY DEF LedgerHonest, Ready
  <2>3. ProgressOK'
    BY DEF ProgressOK, TypeOK
  <2> QED BY <2>1, <2>2, <2>3
<1>9. ASSUME NEW w \in Workers, RecordFirst(w) PROVE IInv'
  <2> USE <1>9 DEF RecordFirst, locals
  <2>1. TypeOK'
    BY DEF TypeOK
  <2>2. LedgerHonest'
    BY DEF LedgerHonest, Ready
  <2>3. ProgressOK'
    BY DEF ProgressOK, TypeOK
  <2> QED BY <2>1, <2>2, <2>3
<1>10. ASSUME NEW w \in Workers, RedactAndCommit(w) PROVE IInv'
  <2> USE <1>10 DEF RedactAndCommit, locals
  <2>1. MIGRATIONS # {}
    BY DEF MIGRATIONS
  <2>2. TypeOK'
    BY DEF TypeOK
  <2>3. LedgerHonest'
    BY DEF LedgerHonest, Ready, ProgressOK
  <2>4. ProgressOK'
    BY <2>1 DEF ProgressOK, TypeOK
  <2> QED BY <2>2, <2>3, <2>4
<1>11. ASSUME NEW w \in Workers, Vacuum(w) PROVE IInv'
  <2> USE <1>11 DEF Vacuum, locals
  <2>1. TypeOK'
    BY DEF TypeOK
  <2>2. LedgerHonest'
    BY DEF LedgerHonest, Ready
  <2>3. ProgressOK'
    BY DEF ProgressOK, TypeOK
  <2> QED BY <2>1, <2>2, <2>3
<1>12. ASSUME NEW w \in Workers, StatementFails(w) \/ Crash(w) PROVE IInv'
  <2> USE <1>12 DEF StatementFails, Crash, Abandon, locals
  <2>0. missed' \in BOOLEAN
    <3>1. missed' = (missed \/ pc[w] = "vacuum")
      OBVIOUS
    <3> HIDE <1>12 DEF StatementFails, Crash, Abandon, IInv
    <3> QED BY <3>1
  <2>1. TypeOK'
    BY <2>0, StartupBounds DEF TypeOK
  <2>2. LedgerHonest'
    BY DEF LedgerHonest, Ready
  <2>3. ProgressOK'
    BY DEF ProgressOK, TypeOK
  <2> QED BY <2>1, <2>2, <2>3
<1> QED
  BY <1>1, <1>2, <1>3, <1>4, <1>5, <1>6, <1>7, <1>8, <1>9, <1>10, <1>11, <1>12
  DEF Next, Step, Settled

\* It holds throughout.
LEMMA Invariance == Spec => []IInv
  BY InitOK, StepOK, PTL DEF Spec

\* Every variable keeps its type; schema_migrations has both rows or none.
THEOREM StartupTyped == Spec => []TypeOK
  BY Invariance, PTL DEF IInv

\* What a migration is recorded for has happened, through races and crashes of
\* any number of workers (migrations.py: run_migrations).
THEOREM LedgerIsHonest == Spec => []LedgerHonest
  BY Invariance, PTL DEF IInv

\* Whoever serves finds the schema complete and the evidence redacted
\* (main.py: lifespan).
THEOREM ServiceIsReady == Spec => []ServingIsReady
<1>1. IInv => ServingIsReady
  BY DEF IInv, ServingIsReady, LedgerHonest, ProgressOK
<1> QED
  BY <1>1, Invariance, PTL

\* Old values stay in free pages only if a worker was stopped before its VACUUM
\* (migrations.py: run_migrations). A worker leaves "vacuum" by running it or by
\* being stopped.
THEOREM ResidueIsExplained == Spec => []ResidueExplained
<1>1. Init => ResidueExplained
  BY DEF Init, ResidueExplained
<1>2. TypeOK /\ ResidueExplained /\ [Next]_vars => ResidueExplained'
  <2> SUFFICES ASSUME TypeOK, ResidueExplained, [Next]_vars
               PROVE  ResidueExplained'
    OBVIOUS
  <2>1. CASE UNCHANGED vars
    BY <2>1 DEF vars, database, ResidueExplained
  <2>2. ASSUME NEW w \in Workers, Start(w) PROVE ResidueExplained'
    BY <2>2 DEF Start, Goto, database, ResidueExplained, TypeOK
  <2>3. ASSUME NEW w \in Workers,
               CheckTables(w) \/ ReadLedger(w) \/ CheckColumn(w)
        PROVE  ResidueExplained'
    BY <2>3 DEF CheckTables, ReadLedger, CheckColumn, Goto, database,
                ResidueExplained, TypeOK
  <2>4. ASSUME NEW w \in Workers, CreateObject(w) PROVE ResidueExplained'
    BY <2>4 DEF CreateObject, Goto, ResidueExplained, TypeOK
  <2>5. ASSUME NEW w \in Workers, AddColumn(w) PROVE ResidueExplained'
    BY <2>5 DEF AddColumn, Goto, ResidueExplained, TypeOK
  <2>6. ASSUME NEW w \in Workers, CreateKeyIndex(w) \/ RecordFirst(w)
        PROVE  ResidueExplained'
    BY <2>6 DEF CreateKeyIndex, RecordFirst, Goto, ResidueExplained, TypeOK
  <2>7. ASSUME NEW w \in Workers, RedactAndCommit(w) PROVE ResidueExplained'
    BY <2>7 DEF RedactAndCommit, Goto, ResidueExplained, TypeOK
  <2>8. ASSUME NEW w \in Workers, Vacuum(w) PROVE ResidueExplained'
    BY <2>8 DEF Vacuum, ResidueExplained
  <2>9. ASSUME NEW w \in Workers, StatementFails(w) \/ Crash(w)
        PROVE  ResidueExplained'
    BY <2>9 DEF StatementFails, Crash, Abandon, Goto, ResidueExplained, TypeOK
  <2> QED
    BY <2>1, <2>2, <2>3, <2>4, <2>5, <2>6, <2>7, <2>8, <2>9
    DEF Next, Step, Settled
<1> QED
  BY <1>1, <1>2, StartupTyped, PTL DEF Spec

=============================================================================
