-------------------------- MODULE HeaderPipeline --------------------------
(***************************************************************************)
(* The headers of deliveries over several calls and several lives of one   *)
(* server process. Between two lives the operator may change               *)
(* SENSITIVE_HEADERS and the settings of signing; rows stay, redacted by   *)
(* the settings of the day they were written, credentials in memory are    *)
(* lost.                                                                   *)
(*                                                                         *)
(* A call that the service makes up to client.request is one action, its   *)
(* end another. What may interleave or fail in between is the subject of   *)
(* DeliveryService. Payload and destination of all requests are the same.  *)
(***************************************************************************)
EXTENDS HeaderRules

CONSTANTS Calls,       \* client calls, and the deliveries they create
          None,        \* nothing
          Creates,     \* sequences of headers that clients POST
          Resupplies,  \* sequences of headers that clients re-supply
          Settings,    \* what the operator configures for a life, see below
          MaxEntries,  \* max_entries of credential_cache
          MaxRestarts  \* bound on restarts

Code == {"replayed", "conflict", "error", "invalid_headers",
         "unavailable", "sending", "sent", "lost"}

CallRecord == [target : Calls, headers : SUBSET Entry, code : Code,
               life : 0..MaxRestarts, settings : Settings]

Row == [headers : SUBSET Entry, keyed : BOOLEAN,
        status : {"pending", "delivered", "failed"}, fingerprint : Lowering \cup {None}]

AttemptRecord == [delivery : Calls, wire : SUBSET Entry, evidence : SUBSET Entry]

ASSUME NoneIsNoCall  == None \notin Calls
ASSUME NoneIsNoRecord == None \notin CallRecord \cup Row \cup AttemptRecord
ASSUME RestartBound  == MaxRestarts \in Nat
ASSUME MaxEntriesPositive == MaxEntries \in Nat \ {0}
ASSUME SettingsAssumption ==
    Settings \subseteq [sensitive : SUBSET Names, signing_headers : SUBSET Names,
                       signing_enabled : BOOLEAN]
ASSUME ClientsGiveHeaders == Creates \cup Resupplies \subseteq Seq(Header)

VARIABLES
    settings,  \* config.settings of the process
    restarts,  \* how often it has been started again
    memory,    \* delivery -> credential_cache: lower-cased name -> value
    puts,      \* the deliveries whose values the process has put there, in order
    call,      \* call -> what was asked, when, and the answer
    delivery,  \* delivery -> its row: headers, fingerprint, status
    attempt    \* call -> the attempt it made: evidence and wire

vars == <<settings, restarts, memory, puts, call, delivery, attempt>>

NoValues == [n \in {} |-> REDACTED]

Init ==
    /\ settings \in Settings
    /\ restarts = 0
    /\ memory = [d \in Calls |-> NoValues]
    /\ puts = << >>
    /\ call = [c \in Calls |-> None]
    /\ delivery = [d \in Calls |-> None]
    /\ attempt = [c \in Calls |-> None]

Called(c, target, headers, code) ==
    call' = [call EXCEPT ![c] =
        [target |-> target, headers |-> headers, code |-> code,
         life |-> restarts, settings |-> settings]]

\* The attempt of call c on a row with these headers, as recorded and as sent.
Attempt(d, stored, originals) ==
    LET headers == _set_header(_build_request_headers(stored, originals),
                               SignedBy(settings))
    IN  [delivery |-> d, wire |-> headers,
         evidence |-> redact_headers(headers, settings.sensitive)]

\* The place of d in the OrderedDict: where it was put last.
LastPut(d) == Max({i \in DOMAIN puts : puts[i] = d})

\* CredentialCache.put: no values, no entry; the entry of d becomes the newest, and
\* if there are more than MaxEntries the oldest is dropped.
Put(d, values) ==
    LET others  == {x \in Calls \ {d} : memory[x] # NoValues}
        oldest  == {x \in others : \A y \in others : LastPut(x) <= LastPut(y)}
        dropped == IF Cardinality(others) >= MaxEntries THEN oldest ELSE {}
    IN  IF values = NoValues
        THEN UNCHANGED <<memory, puts>>
        ELSE /\ memory' = [x \in Calls |-> IF x = d THEN values
                                          ELSE IF x \in dropped THEN NoValues
                                          ELSE memory[x]]
             /\ puts' = Append(puts, d)

-----------------------------------------------------------------------------
(* POST /api/deliveries. One key for all calls, or none. *)

WithKey == {d \in Calls : delivery[d] # None /\ delivery[d].keyed}

Replay(c, given) ==
    \E d \in WithKey :
        /\ Called(c, d, given,
                  IF delivery[d].fingerprint = request_fingerprint(given, settings)
                  THEN "replayed" ELSE "conflict")
        /\ UNCHANGED <<memory, puts, delivery, attempt>>

\* Without a value for a header that looks redacted the call ends with a 500 and
\* the row stays pending.
Insert(c, given, keyed) ==
    LET stored    == redact_headers(given, settings.sensitive)
        originals == sensitive_values(given, settings.sensitive)
        ready     == Missing(stored, originals) = {}
    IN  /\ delivery' = [delivery EXCEPT ![c] =
               [headers |-> stored, keyed |-> keyed, status |-> "pending",
                fingerprint |-> IF keyed THEN request_fingerprint(given, settings)
                                ELSE None]]
        /\ Put(c, originals)
        /\ Called(c, c, given, IF ready THEN "sending" ELSE "error")
        /\ attempt' = IF ready
               THEN [attempt EXCEPT ![c] = Attempt(c, stored, originals)]
               ELSE attempt

Create(c) ==
    /\ call[c] = None
    /\ \E raw \in Creates, keyed \in BOOLEAN :
          IF keyed /\ WithKey # {}
          THEN Replay(c, _check_headers(raw))
          ELSE Insert(c, _check_headers(raw), keyed)
    /\ UNCHANGED <<settings, restarts>>

-----------------------------------------------------------------------------
(* POST /api/deliveries/{id}/retry *)

Retry(c) ==
    /\ call[c] = None
    /\ \E d \in Calls, raw \in Resupplies :
          LET given     == _check_headers(raw)
              stored    == delivery[d].headers
              originals == Merge(memory[d], Lowered(given))
          IN  /\ delivery[d] # None /\ delivery[d].status = "failed"
              /\ \/ /\ ~NamesIn(given) \subseteq redacted_header_names(stored)
                    /\ Called(c, d, given, "invalid_headers")
                    /\ UNCHANGED <<delivery, attempt>>
                 \/ /\ NamesIn(given) \subseteq redacted_header_names(stored)
                    /\ Missing(stored, originals) # {}
                    /\ Called(c, d, given, "unavailable")
                    /\ UNCHANGED <<delivery, attempt>>
                 \/ /\ NamesIn(given) \subseteq redacted_header_names(stored)
                    /\ Missing(stored, originals) = {}
                    /\ Called(c, d, given, "sending")
                    /\ attempt' = [attempt EXCEPT ![c] = Attempt(d, stored, originals)]
                    /\ delivery' = [delivery EXCEPT ![d].status = "pending"]
    /\ UNCHANGED <<settings, restarts, memory, puts>>

\* A variant that puts the re-supplied values in place of the others.
RememberOnly(c) == Put(call[c].target, Lowered(call[c].headers))

\* Re-supplied values join those that are in memory by now.
Remember(c) ==
    LET d == call[c].target IN
    IF call[c].headers = {}
    THEN UNCHANGED <<memory, puts>>
    ELSE Put(d, Merge(memory[d], Lowered(call[c].headers)))

\* client.request has returned.
Finish(c) ==
    /\ call[c] # None /\ call[c].code = "sending"
    /\ call' = [call EXCEPT ![c].code = "sent"]
    /\ \E status \in {"delivered", "failed"} :
          delivery' = [delivery EXCEPT ![call[c].target].status = status]
    /\ call[c].target # c => Remember(c)
    /\ call[c].target = c => UNCHANGED <<memory, puts>>
    /\ UNCHANGED <<settings, restarts, attempt>>

\* The process ends and another starts, perhaps with other settings.
Restart ==
    /\ restarts < MaxRestarts
    /\ restarts' = restarts + 1
    /\ settings' \in Settings
    /\ memory' = [d \in Calls |-> NoValues]
    /\ puts' = << >>
    /\ call' = [c \in Calls |->
           IF call[c] # None /\ call[c].code = "sending"
           THEN [call[c] EXCEPT !.code = "lost"] ELSE call[c]]
    /\ UNCHANGED <<delivery, attempt>>

Done == (\A c \in Calls : call[c] # None /\ call[c].code # "sending")
        /\ UNCHANGED vars

Next == (\E c \in Calls : Create(c) \/ Retry(c) \/ Finish(c)) \/ Restart \/ Done

Spec == Init /\ [][Next]_vars

-----------------------------------------------------------------------------
(* Properties *)

\* What _check_headers promises: no key twice, no blanks around a name.
IsDict(headers) ==
    /\ \A h \in headers : h.key = Strip(h.key)
    /\ \A g, h \in headers : g.key = h.key \/ g.at = h.at => g = h

\* Types; headers that were accepted are dicts; every attempt has its row.
TypeOK ==
    /\ settings \in Settings
    /\ restarts \in 0..MaxRestarts
    /\ memory \in [Calls -> Lowering]
    /\ puts \in Seq(Calls)
    /\ call \in [Calls -> CallRecord \cup {None}]
    /\ delivery \in [Calls -> Row \cup {None}]
    /\ attempt \in [Calls -> AttemptRecord \cup {None}]
    /\ \A c \in Calls : call[c] # None => IsDict(call[c].headers)
    /\ \A d \in Calls : delivery[d] # None => IsDict(delivery[d].headers)
    /\ \A c \in Calls : attempt[c] # None => delivery[attempt[c].delivery] # None

Supplied(e, n, v) ==
    n \in NamesIn(call[e].headers) /\ Lowered(call[e].headers)[n] = v

\* The value that creation e gave last under a name, the marker left aside.
Given(e, n) ==
    Lowered({h \in call[e].headers : h.value # REDACTED})[n]

\* The finished retries of d that re-supplied n to the process that runs.
Remembered(d, n) ==
    {e \in Calls \ {d} : /\ call[e] # None /\ call[e].code = "sent"
                         /\ call[e].target = d /\ call[e].life = restarts
                         /\ n \in NamesIn(call[e].headers)}

\* An attempt is on the wire as the client and the service meant it. The headers
\* of the service itself are over those of the client.
Faithful(c) ==
    LET d == attempt[c].delivery
        wire == attempt[c].wire
        over == NamesIn(After \cup SignedBy(call[c].settings))
    IN  /\ \A g, h \in wire : NameOf(g) = NameOf(h) => g = h
        /\ NamesIn(wire) = NamesIn(call[d].headers \cup Before) \cup over
        /\ \A h \in wire :
              LET n == NameOf(h)
                  v == h.value
              IN  IF n \in over \/ n \notin NamesIn(call[d].headers)
                  THEN v = "own"
                  ELSE IF c # d /\ n \in NamesIn(call[c].headers)
                  THEN Supplied(c, n, v)
                  ELSE IF Remembered(d, n) # {}
                  THEN \E e \in Remembered(d, n) : Supplied(e, n, v)
                  ELSE /\ v = Given(d, n)
                       /\ n \in redacted_header_names(delivery[d].headers)
                             => call[d].life = restarts

\* Original headers on the wire: each name once in any letter case, the service's
\* own headers on top, the timestamp and the signature among them if this attempt
\* was signed, every other name with the value that this retry
\* re-supplied, else one that a finished retry of the delivery re-supplied to the
\* same process, else the one that the creation gave; and no credential that
\* was given to a process that is gone.
WireFaithful == [][\A c \in Calls : attempt'[c] # attempt[c] => Faithful(c)']_vars

\* Credentials stay out of the evidence: a value that was given under a name
\* sensitive at that time is readable in an attempt only if the name was no
\* longer sensitive when the attempt was recorded.
ReadableOnlyIfDropped ==
    \A c \in Calls : attempt[c] # None =>
        \A e \in {attempt[c].delivery, c}, h \in attempt[c].evidence :
            LET n == NameOf(h)
                v == h.value
            IN  n \in call[e].settings.sensitive /\ Supplied(e, n, v) /\ v # REDACTED
                    => n \notin call[c].settings.sensitive

\* The same logical request: what the README says a fingerprint stands for.
SameRequest(c, e, s) ==
    \A n \in Names \ _excluded_from_fingerprint(s) :
        /\ n \in NamesIn(call[c].headers) <=> n \in NamesIn(call[e].headers)
        /\ n \in NamesIn(call[c].headers) \ s.sensitive =>
              Lowered(call[c].headers)[n] = Lowered(call[e].headers)[n]

\* The answer to a repeated key is decided by the logical request alone, not by
\* letter case, order, a rotated credential or a forged transport header, for as
\* long as the settings stay the same.
RepeatsDecided ==
    \A c \in Calls :
        /\ call[c] # None /\ call[c].code \in {"replayed", "conflict"}
        /\ call[c].settings = call[call[c].target].settings
        => (call[c].code = "replayed" <=> SameRequest(c, call[c].target, call[c].settings))

\* Whatever settings did in between, a replay never hides a difference in a
\* header that neither of the settings excludes or takes for sensitive.
ReplayIsSame ==
    \A c \in Calls : call[c] # None /\ call[c].code = "replayed" =>
        LET d == call[c].target
            both == [sensitive |-> call[c].settings.sensitive
                                       \cup call[d].settings.sensitive,
                     signing_headers |-> call[c].settings.signing_headers
                                       \cup call[d].settings.signing_headers]
        IN  SameRequest(c, d, both)

\* The deliveries whose values the process has put in memory so far.
EverPut == {puts[i] : i \in DOMAIN puts}

\* As many other deliveries as the cache holds are among them, so that the values of
\* d may have been dropped. Those put before d count as well: if the entry of d is
\* dropped while a retry of d waits for its partner, the retry then puts back only
\* what it re-supplied, and d is the newest entry with values missing.
Crowded(d) == Cardinality(EverPut \ {d}) >= MaxEntries

\* A retry is refused for a missing credential only if the cache has taken in so
\* many other deliveries that it may have dropped the credential, or the process
\* that was given it is gone and nobody has re-supplied it since.
RefusedOnlyIfLost ==
    [][\A c \in Calls : call[c] = None /\ call'[c] # None /\ call'[c].code = "unavailable"
          => LET d == call'[c].target
             IN  \/ Crowded(d)
                 \/ /\ call[d].life < restarts
                    /\ \E n \in redacted_header_names(delivery[d].headers)
                                 \ NamesIn(call'[c].headers) :
                          Remembered(d, n) = {}]_vars

=============================================================================
