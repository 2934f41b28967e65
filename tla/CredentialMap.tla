--------------------------- MODULE CredentialMap ---------------------------
(***************************************************************************)
(* The bounded map of class CredentialCache (app/service.py): delivery id  *)
(* to the original values of its sensitive headers. An OrderedDict is a    *)
(* sequence of entries, the least recently put first; no id occurs twice.  *)
(*                                                                         *)
(* The value of a credential is the client call that supplied it, so that  *)
(* a property can say where a transmitted credential came from.            *)
(***************************************************************************)
EXTENDS Naturals, Sequences, Redaction

CONSTANTS Calls,       \* ids of deliveries, and sources of credentials
          None,        \* no value
          MaxEntries   \* max_entries of the cache

ASSUME NoneIsNoCall      == None \notin Calls
ASSUME MaxEntriesPositive == MaxEntries \in Nat \ {0}

Values == [Headers -> Calls \cup {None}]

NoValues == [h \in Headers |-> None]

\* The header names of `names' with the value that call `c' gave them.
SuppliedBy(c, names) == [h \in Headers |-> IF h \in names THEN c ELSE None]

Entry == [id : Calls, values : Values]

Ids(cache) == {cache[i].id : i \in 1..Len(cache)}

\* OrderedDict without the entry of `id', if it has one.
Without(cache, id) ==
    IF id \in Ids(cache)
    THEN LET i == CHOOSE j \in 1..Len(cache) : cache[j].id = id
         IN  SubSeq(cache, 1, i - 1) \o SubSeq(cache, i + 1, Len(cache))
    ELSE cache

\* A variant that lets the map grow by one too many.
EvictLate(cache) ==
    IF Len(cache) > MaxEntries + 1 THEN SubSeq(cache, 2, Len(cache)) ELSE cache

\* popitem(last=False) for as long as there are more than MaxEntries entries.
Evict(cache) ==
    IF Len(cache) > MaxEntries
    THEN SubSeq(cache, Len(cache) - MaxEntries + 1, Len(cache))
    ELSE cache

\* A variant without move_to_end.
PutInPlace(cache, id, values) ==
    IF values = NoValues THEN cache
    ELSE IF id \in Ids(cache)
    THEN [i \in DOMAIN cache |-> IF cache[i].id = id
                                 THEN [id |-> id, values |-> values] ELSE cache[i]]
    ELSE Evict(Append(cache, [id |-> id, values |-> values]))

\* CredentialCache.put: an empty dict is ignored; the entry moves to the end.
Put(cache, id, values) ==
    IF values = NoValues
    THEN cache
    ELSE Evict(Append(Without(cache, id), [id |-> id, values |-> values]))

\* CredentialCache.get: an unknown id has no values.
Get(cache, id) ==
    IF id \in Ids(cache)
    THEN cache[CHOOSE j \in 1..Len(cache) : cache[j].id = id].values
    ELSE NoValues

\* A variant in which the older value wins.
MergeUnder(base, overrides) ==
    [h \in Headers |-> IF base[h] # None THEN base[h] ELSE overrides[h]]

\* {**base, **overrides}
Merge(base, overrides) ==
    [h \in Headers |-> IF overrides[h] # None THEN overrides[h] ELSE base[h]]

=============================================================================
