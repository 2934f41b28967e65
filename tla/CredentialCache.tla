-------------------------- MODULE CredentialCache --------------------------
(***************************************************************************)
(* The credential cache of one process (class CredentialCache of           *)
(* app/service.py) under the two calls that fill it, beside an account of  *)
(* what was put when. DeliveryService uses the same operators.             *)
(*                                                                         *)
(* Every handler that touches the cache runs on the event loop of its      *)
(* process and does not await between get and put, so that one action is   *)
(* one call of retry_delivery or create_delivery.                          *)
(***************************************************************************)
EXTENDS CredentialMap

CONSTANT MaxPuts  \* bound on the calls that put something

ASSUME PutsBound == MaxPuts \in Nat

VARIABLES
    cache,   \* the OrderedDict, the least recently put first
    puts,    \* how many calls have put something since the process started
    put_at,  \* id -> the number of the last of them for this id, or 0
    latest   \* id -> the values that the process should know

vars == <<cache, puts, put_at, latest>>

Init ==
    /\ cache = << >>
    /\ puts = 0
    /\ put_at = [id \in Calls |-> 0]
    /\ latest = [id \in Calls |-> NoValues]

Account(id, values) ==
    /\ puts < MaxPuts
    /\ puts' = puts + 1
    /\ put_at' = [put_at EXCEPT ![id] = puts + 1]
    /\ latest' = [latest EXCEPT ![id] = values]

\* create_delivery, the first to put something for its id. No sensitive value, no
\* entry.
Remember(id, names) ==
    /\ put_at[id] = 0
    /\ names # {}
    /\ cache' = Put(cache, id, SuppliedBy(id, names))
    /\ Account(id, SuppliedBy(id, names))

\* retry_delivery with headers that call `by' re-supplies. What was known of the
\* delivery stays known, unless its entry has been dropped.
KeepOverrides(id, by, names) ==
    /\ names # {}
    /\ cache' = Put(cache, id, Merge(Get(cache, id), SuppliedBy(by, names)))
    /\ Account(id, [h \in Headers |->
           IF h \in names THEN by
           ELSE IF id \in Ids(cache) THEN latest[id][h] ELSE None])

\* The process ends and another one starts.
Restart ==
    /\ cache' = << >>
    /\ put_at' = [id \in Calls |-> 0]
    /\ latest' = [id \in Calls |-> NoValues]
    /\ UNCHANGED puts

Next ==
    \/ \E id \in Calls, names \in SUBSET Headers : Remember(id, names)
    \/ \E id, by \in Calls, names \in SUBSET Headers : KeepOverrides(id, by, names)
    \/ Restart

Spec == Init /\ [][Next]_vars

-----------------------------------------------------------------------------
(* Properties *)

\* The cache never holds more than max_entries entries, and no id twice.
Bounded ==
    /\ Len(cache) <= MaxEntries
    /\ \A i, j \in 1..Len(cache) : cache[i].id = cache[j].id => i = j

\* Types, and the bound on the entries of the cache (_max).
TypeOK ==
    /\ cache \in Seq(Entry)
    /\ Bounded
    /\ puts \in Nat
    /\ put_at \in [Calls -> 0..puts]
    /\ latest \in [Calls -> Values]

\* An id is dropped only when the cache is full, and then every id that is left
\* was put more recently: an id outlives the puts of max_entries - 1 other ids.
\* Being read does not count: a retry that re-supplies nothing does not keep the
\* values of its delivery in memory any longer.
RetainsRecent ==
    \A id \in Calls : put_at[id] > 0 /\ id \notin Ids(cache) =>
        /\ Len(cache) = MaxEntries
        /\ \A i \in 1..Len(cache) : put_at[cache[i].id] > put_at[id]

\* A value that is handed out is the one supplied last for its header.
HandsOutLatest == \A id \in Ids(cache) : Get(cache, id) = latest[id]

(* What the proofs add to the invariants to make them inductive *)

\* Entries are in the order in which they were put.
InOrder ==
    \A i, j \in 1..Len(cache) :
        /\ put_at[cache[i].id] > 0
        /\ i < j => put_at[cache[i].id] < put_at[cache[j].id]

=============================================================================
