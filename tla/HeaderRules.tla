---------------------------- MODULE HeaderRules ----------------------------
(***************************************************************************)
(* What happens to the headers of a request between the client and the     *)
(* partner, and between the client and the database, name by name and      *)
(* spelling by spelling: _check_headers (app/schemas.py), the header       *)
(* functions of app/security.py, _set_header and _build_request_headers    *)
(* (app/service.py), Settings.sensitive_headers (app/config.py).           *)
(*                                                                         *)
(* A client gives a sequence of [key, value] pairs. A dict is a set of     *)
(* entries [key, at, value] with no key twice, where `at' is the place of  *)
(* the entry in insertion order. A key is a lower-cased name and a         *)
(* spelling of it, so that two keys may mean one header. Blank names,      *)
(* which are dropped, and the names and values that the two patterns of    *)
(* _check_headers refuse, which end the call, are not modelled.            *)
(***************************************************************************)
EXTENDS Naturals, Sequences, FiniteSetsExt

CONSTANTS Names,            \* lower-cased header names
          Values,           \* header values that clients give
          DefaultSensitive, \* DEFAULT_SENSITIVE_HEADERS
          Generated         \* GENERATED_HEADERS

ASSUME RulesAssumption ==
    DefaultSensitive \cup Generated \cup {"content-type", "x-callback-id"} \subseteq Names

\* "X-Api-Key", "x-api-key" and " X-Api-Key "
Form == {"title", "lower", "padded"}

Key == [name : Names, form : Form]

REDACTED == "***REDACTED***"

\* "own" stands for the values that the service itself sets.
Value == Values \cup {REDACTED, "own"}

\* What a client gives, what a dict holds, and the result of lowering its keys.
Header == [key : Key, value : Value]

Entry == [key : Key, at : Nat, value : Value]

Lowering == UNION {[N -> Value] : N \in SUBSET Names}

Strip(key) == IF key.form = "padded" THEN [key EXCEPT !.form = "title"] ELSE key

NameOf(entry) == entry.key.name

NamesIn(headers) == {NameOf(h) : h \in headers}

Named(headers, n) == {h \in headers : NameOf(h) = n}

\* What is left of the assignments dict[keys[i]] = raw[i].value, one after the other:
\* a key keeps the place where it was new and takes the value that came last.
Assigned(raw, keys) ==
    {LET same == {j \in DOMAIN raw : keys[j] = keys[i]}
     IN  [key |-> keys[i], at |-> Min(same), value |-> raw[Max(same)].value] : i \in DOMAIN raw}

\* A variant that keeps blanks around a name.
CheckUnstripped(raw) == Assigned(raw, [i \in DOMAIN raw |-> raw[i].key])

_check_headers(raw) == Assigned(raw, [i \in DOMAIN raw |-> Strip(raw[i].key)])

Last(headers) == CHOOSE h \in headers : \A g \in headers : g.at <= h.at

\* {key.lower(): value}: the last entry of a name wins.
Lowered(headers) == [n \in NamesIn(headers) |-> Last(Named(headers, n)).value]

\* {**base, **overrides}
Merge(base, overrides) ==
    [n \in DOMAIN base \cup DOMAIN overrides |->
        IF n \in DOMAIN overrides THEN overrides[n] ELSE base[n]]

-----------------------------------------------------------------------------
(* Settings and redaction *)

\* SENSITIVE_HEADERS, a set of keys, extends the defaults.
sensitive_headers(extra) == DefaultSensitive \cup {key.name : key \in extra}

\* A variant that compares names as they are spelled.
RedactAsSpelled(headers, sensitive) ==
    {IF NameOf(h) \in sensitive /\ h.key.form = "lower"
     THEN [h EXCEPT !.value = REDACTED] ELSE h : h \in headers}

redact_headers(headers, sensitive) ==
    {IF NameOf(h) \in sensitive THEN [h EXCEPT !.value = REDACTED] ELSE h : h \in headers}

sensitive_values(headers, sensitive) ==
    Lowered({h \in headers : NameOf(h) \in sensitive /\ h.value # REDACTED})

redacted_header_names(stored) == NamesIn({h \in stored : h.value = REDACTED})

_excluded_from_fingerprint(s) == Generated \cup s.signing_headers

\* Variants: names as spelled; names without values.
FingerprintAsSpelled(headers, s) ==
    {<<h.key, h.value>> : h \in {g \in redact_headers(headers, s.sensitive) :
                                    NameOf(g) \notin _excluded_from_fingerprint(s)}}

FingerprintOfNames(headers, s) ==
    NamesIn(headers) \ _excluded_from_fingerprint(s)

\* The headers of the canonical document; SHA-256 is taken to be injective.
request_fingerprint(headers, s) ==
    Lowered({h \in redact_headers(headers, s.sensitive) :
                NameOf(h) \notin _excluded_from_fingerprint(s)})

-----------------------------------------------------------------------------
(* The outgoing request *)

\* A variant that replaces the same spelling only.
SetAsSpelled(headers, more) ==
    {h \in headers : \A g \in more : g.key # h.key} \cup more

\* _set_header for the entries of another dict, one after the other: each of them
\* replaces whatever has its name.
_set_header(headers, more) ==
    {h \in headers : NameOf(h) \notin NamesIn(more)}
        \cup {Last(Named(more, n)) : n \in NamesIn(more)}

\* Headers that the service itself adds, before and after the client's. User-Agent
\* and X-Callback-Attempt are added beside these two and like them.
Own(name) == {[key |-> [name |-> name, form |-> "title"], at |-> 0, value |-> "own"]}

Before == Own("content-type")
After  == Own("x-callback-id")

\* The timestamp and signature headers of a service that signs.
SignedBy(s) ==
    IF s.signing_enabled THEN UNION {Own(n) : n \in s.signing_headers} ELSE {}

Missing(stored, originals) == redacted_header_names(stored) \ DOMAIN originals

Restored(stored, originals) ==
    {IF h.value = REDACTED THEN [h EXCEPT !.value = originals[NameOf(h)]] ELSE h : h \in stored}

_build_request_headers(stored, originals) ==
    _set_header(_set_header(Before, Restored(stored, originals)), After)

=============================================================================
