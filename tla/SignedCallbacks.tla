-------------------------- MODULE SignedCallbacks --------------------------
(***************************************************************************)
(* Signed callbacks between the service and a receiver that verifies them: *)
(* the signing part of send_attempt (app/service.py) with retries and      *)
(* restarts under other settings, and the receiver of                      *)
(* app/mock_receiver.py.                                                   *)
(*                                                                         *)
(* Attempt <<d, n>> is the n-th attempt of delivery d, and the body of     *)
(* delivery d is named d. How attempts are recorded, raced and retried is  *)
(* the subject of DeliveryService; here one attempt of a delivery follows  *)
(* another, and requests are as late as the network likes.                 *)
(*                                                                         *)
(* The receiver's handler awaits the body and then keeps its event loop;   *)
(* set_mode and clear_received are plain functions that FastAPI runs in    *)
(* other threads, so they may run between any two steps of the handler.    *)
(***************************************************************************)
EXTENDS Signing

CONSTANTS None,
          SettingsChoices, \* settings the service may be started with
          CallerHeaders,   \* headers a client may ask to send
          ReceiverSecrets, \* SIGNATURE_SECRET of the receiver, or NoSecret
          Modes,           \* the modes somebody switches the receiver to
          SignatureHeader, \* the names the receiver looks for
          TimestampHeader,
          Tolerance,       \* SIGNATURE_TOLERANCE_SECONDS
          MaxSkew,         \* bound on how far a clock is ahead of the time
          MaxTime,         \* bound on the time
          MaxAttempts,     \* bound on the attempts of a delivery
          MaxRestarts      \* bound on restarts of the service

ASSUME ChoicesAssumption ==
    /\ SettingsChoices \subseteq Settings
    /\ CallerHeaders \subseteq [Names -> Text]
    /\ ReceiverSecrets \subseteq Secrets \cup {NoSecret}
    /\ {SignatureHeader, TimestampHeader} \subseteq Names
    /\ Modes \subseteq {200, 503}
ASSUME NumbersAssumption ==
    {Tolerance, MaxSkew, MaxTime, MaxAttempts, MaxRestarts} \subseteq Nat

Verdict == [found : Reasons \cup {"valid", "unverified"}, at : 0..MaxTime]

Attempts == Bodies \X (1..MaxAttempts)

Handler == [attempt : Attempts, at : {"judged", "recorded"},
            answered_with : {200, 401, 503}]

ASSUME NoneAssumption == /\ None \notin Nat
                         /\ None \notin Settings \cup Verdict \cup Handler

VARIABLES
    now,          \* the time, as the slower of the two clocks shows it
    ahead,        \* how far the clocks of "service" and "receiver" are ahead
    settings,     \* of the running service, or None
    restarts,
    delivery,     \* delivery -> status, attempt_count, the caller's headers
    attempt,      \* attempt -> status, http_status, signature_timestamp
    request,      \* attempt -> what it sent: headers, and when
    mode,         \* the receiver's state["mode"]
    secret,       \* the receiver's state["signature_secret"]
    received,     \* the attempts in the receiver's inbox, and their status
    handler,      \* the receiver's running handler, or None
    verdict,      \* attempt -> what the receiver found, and when
    answer,       \* attempt -> the status it was answered with
    cleared       \* whether the inbox was ever cleared

sender   == <<settings, restarts, delivery, attempt, request>>
receiver == <<mode, secret, received, handler, verdict, answer, cleared>>
vars     == <<now, ahead, sender, receiver>>

Init ==
    /\ now = 0
    /\ ahead \in [{"service", "receiver"} -> 0..MaxSkew]
    /\ 0 \in {ahead["service"], ahead["receiver"]}
    /\ settings = None
    /\ restarts = 0
    /\ delivery = [d \in Bodies |-> [status |-> "absent", count |-> 0,
                                     headers |-> None]]
    /\ attempt = [a \in Attempts |-> [status |-> "absent", http |-> 0,
                                      stamp |-> None, key |-> NoSecret]]
    /\ request = [a \in Attempts |-> None]
    /\ mode = 200
    /\ secret \in ReceiverSecrets
    /\ received = {}
    /\ handler = None
    /\ verdict = [a \in Attempts |-> None]
    /\ answer = [a \in Attempts |-> None]
    /\ cleared = FALSE

Clock(who) == now + ahead[who]

Tick ==
    /\ now < MaxTime
    /\ now' = now + 1
    /\ UNCHANGED <<ahead, sender, receiver>>

-----------------------------------------------------------------------------
(* The service *)

\* The service is started, perhaps instead of a running one, with any settings
\* that create_app accepts. Requests it was waiting for stay unanswered.
Restart ==
    /\ restarts < MaxRestarts
    /\ restarts' = restarts + 1
    /\ \E s \in SettingsChoices : Validated(s) /\ settings' = s
    /\ UNCHANGED <<now, ahead, delivery, attempt, request, receiver>>

\* A variant that signs with the time of the first attempt.
FirstTimestamp(d) == IF delivery[d].count = 0 THEN Clock("service")
                     ELSE attempt[<<d, 1>>].stamp

\* _signing_clock, asked for every attempt.
SignatureTimestamp(d) == Clock("service")

\* The signing part of send_attempt, up to the moment the request leaves: the
\* signature, the commit and the first byte are one instant. What passes between
\* them counts as time on the network, where requests are as late as they like.
Send(d, headers) ==
    LET a == <<d, delivery[d].count + 1>>
        t == SignatureTimestamp(d)
        signed == settings.signing_enabled
    IN  /\ signed => settings.signing_secret # NoSecret
        /\ delivery[d].count < MaxAttempts
        /\ delivery' = [delivery EXCEPT
               ![d] = [status |-> "pending", count |-> @.count + 1,
                       headers |-> headers]]
        /\ attempt' = [attempt EXCEPT
               ![a] = [status |-> "pending", http |-> 0,
                       stamp |-> IF signed THEN t ELSE None,
                       key |-> IF signed THEN settings.signing_secret
                               ELSE NoSecret]]
        /\ request' = [request EXCEPT
               ![a] = [headers |-> IF signed
                                   THEN SignOver(headers, settings, t, d)
                                   ELSE headers,
                       sent |-> now, run |-> restarts]]
        /\ UNCHANGED <<now, ahead, settings, restarts, receiver>>

Create(d) == /\ settings # None
             /\ delivery[d].status = "absent"
             /\ \E headers \in CallerHeaders : Send(d, headers)

\* Without re-supplied headers: those replace the values of redacted names, before
\* SignOver, and are the subject of HeaderPipeline.
Retry(d) == /\ settings # None
            /\ delivery[d].status = "failed"
            /\ Send(d, delivery[d].headers)

\* The service that sent attempt a is still waiting for it.
Waiting(a) == attempt[a].status = "pending" /\ request[a].run = restarts

Settle(a, status, http) ==
    /\ Waiting(a)
    /\ attempt' = [attempt EXCEPT ![a].status = status, ![a].http = http]
    /\ delivery' = [delivery EXCEPT ![a[1]].status = status]
    /\ UNCHANGED <<now, ahead, settings, restarts, request, receiver>>

\* The answer arrives, or the wait ends with an httpx.HTTPError.
TakeAnswer(a) ==
    /\ answer[a] # None
    /\ Settle(a, IF answer[a] = 200 THEN "delivered" ELSE "failed", answer[a])

GiveUp(a) == Settle(a, "failed", 0)

-----------------------------------------------------------------------------
(* The receiver *)

\* What a verifying receiver finds when its clock shows t.
Found(a, t) ==
    LET h == request[a].headers
    IN  IF secret = NoSecret THEN "unverified"
        ELSE verify_signature(secret, h[TimestampHeader], h[SignatureHeader],
                              a[1], t, Tolerance)

\* receive_callback has the body: it verifies it and reads the mode.
Judge(a) ==
    LET found == Found(a, Clock("receiver"))
    IN  /\ request[a] # None /\ verdict[a] = None
        /\ handler = None
        /\ verdict' = [verdict EXCEPT ![a] = [found |-> found, at |-> now]]
        /\ handler' = [attempt |-> a, at |-> "judged",
                       answered_with |-> IF found \in Reasons THEN 401 ELSE mode]
        /\ UNCHANGED <<now, ahead, sender, mode, secret, received, answer, cleared>>

\* A variant whose inbox has only what was not rejected.
RecordAccepted ==
    /\ handler # None /\ handler.at = "judged"
    /\ received' = IF handler.answered_with = 401 THEN received
                   ELSE received \cup {<<handler.attempt, handler.answered_with>>}
    /\ handler' = [handler EXCEPT !.at = "recorded"]
    /\ UNCHANGED <<now, ahead, sender, mode, secret, verdict, answer, cleared>>

\* state["received"].append
Record ==
    /\ handler # None /\ handler.at = "judged"
    /\ received' = received \cup {<<handler.attempt, handler.answered_with>>}
    /\ handler' = [handler EXCEPT !.at = "recorded"]
    /\ UNCHANGED <<now, ahead, sender, mode, secret, verdict, answer, cleared>>

\* A variant that answers with the mode whatever it found.
GivenMode == mode

\* The mode is read a second time for the answer.
Given == IF verdict[handler.attempt].found \in Reasons THEN 401 ELSE mode

Respond ==
    /\ handler # None /\ handler.at = "recorded"
    /\ answer' = [answer EXCEPT ![handler.attempt] = Given]
    /\ handler' = None
    /\ UNCHANGED <<now, ahead, sender, mode, secret, received, verdict, cleared>>

set_mode ==
    /\ mode' \in Modes \ {mode}
    /\ UNCHANGED <<now, ahead, sender, secret, received, handler, verdict,
                   answer, cleared>>

clear_received ==
    /\ ~cleared
    /\ cleared' = TRUE
    /\ received' = {}
    /\ UNCHANGED <<now, ahead, sender, mode, secret, handler, verdict, answer>>

-----------------------------------------------------------------------------
\* Every request has been dealt with.
Quiet ==
    /\ now = MaxTime /\ handler = None
    /\ \A a \in Attempts : request[a] # None => verdict[a] # None /\ ~Waiting(a)
    /\ UNCHANGED vars

Next ==
    \/ Tick \/ Restart
    \/ \E d \in Bodies : Create(d) \/ Retry(d)
    \/ \E a \in Attempts : TakeAnswer(a) \/ GiveUp(a) \/ Judge(a)
    \/ Record \/ Respond \/ set_mode \/ clear_received
    \/ Quiet

Spec == Init /\ [][Next]_vars

-----------------------------------------------------------------------------
(* Properties *)

AttemptRecord == [status : {"absent", "pending", "delivered", "failed"},
                  http : {0, 200, 401, 503}, stamp : Nat \cup {None},
                  key : Secrets \cup {NoSecret}]

DeliveryRecord == [status : {"absent", "pending", "delivered", "failed"},
                   count : 0..MaxAttempts, headers : [Names -> Text] \cup {None}]

RequestRecord == [headers : [Names -> Text], sent : 0..MaxTime,
                  run : 0..MaxRestarts]

\* Every variable keeps its type.
TypeOK ==
    /\ now \in 0..MaxTime
    /\ ahead \in [{"service", "receiver"} -> 0..MaxSkew]
    /\ settings \in Settings \cup {None}
    /\ restarts \in 0..MaxRestarts
    /\ delivery \in [Bodies -> DeliveryRecord]
    /\ attempt \in [Attempts -> AttemptRecord]
    /\ request \in [Attempts -> RequestRecord \cup {None}]
    /\ mode \in {200, 503}
    /\ secret \in Secrets \cup {NoSecret}
    /\ received \subseteq Attempts \X {200, 401, 503}
    /\ handler \in Handler \cup {None}
    /\ verdict \in [Attempts -> Verdict \cup {None}]
    /\ answer \in [Attempts -> {200, 401, 503, None}]
    /\ cleared \in BOOLEAN

\* More than the tolerance lies between the signing of a, as the clock of the
\* service shows it, and its verification, as the receiver's clock shows it.
Late(a) == LET v == verdict[a].at + ahead["receiver"]
               r == request[a].sent + ahead["service"]
           IN  v > r + Tolerance \/ r > v + Tolerance

Rejected(a) == verdict[a] # None /\ verdict[a].found \in Reasons

\* What an attempt says of its signature is what went out: the recorded time
\* and a MAC of it and of the body, under the secret in force, whatever headers
\* the caller asked for (README: "overwritten (never trusted)").
SignedAsRecorded ==
    \A a \in Attempts : attempt[a].stamp # None =>
        /\ attempt[a].key \in Secrets
        /\ \E n, m \in Names :
              /\ request[a].headers[n] = Stamp(attempt[a].stamp)
              /\ request[a].headers[m] =
                     compute_signature(attempt[a].key, attempt[a].stamp, a[1])

\* A callback the service signed with the receiver's secret, under the names the
\* receiver looks for, is rejected only for its own delay: the time from its
\* signing to its verification, as the two clocks see it, exceeds the tolerance.
\* Earlier attempts and earlier settings of the service do not matter.
RejectedOnlyIfLate ==
    \A a \in Attempts :
        /\ Rejected(a)
        /\ attempt[a].stamp # None /\ attempt[a].key = secret
        /\ request[a].headers[TimestampHeader] = Stamp(attempt[a].stamp)
        /\ request[a].headers[SignatureHeader] =
               compute_signature(secret, attempt[a].stamp, a[1])
        => Late(a)

\* A verifying receiver takes only what somebody who knows its secret signed for
\* this very body: the service at the time it made the attempt, not longer ago
\* than the tolerance, or the caller, whose signature no header of the service
\* replaced (signing off, or under other names).
AcceptedIsGenuine ==
    \A a \in Attempts : verdict[a] # None /\ verdict[a].found = "valid" =>
        \/ attempt[a].stamp # None /\ attempt[a].key = secret /\ ~Late(a)
        \/ LET given == delivery[a[1]].headers[SignatureHeader]
           IN  given.kind = "mac" /\ given.secret = secret /\ given.body = a[1]

\* A rejection is final: in the inbox, on the wire and in the service's evidence
\* it is a 401, whatever the mode is switched to meanwhile, and the attempt is
\* not delivered (mock_receiver.py: "regardless of mode").
RejectionIsFinal ==
    \A a \in Attempts :
        /\ Rejected(a) => /\ answer[a] \in {None, 401}
                          /\ attempt[a].status # "delivered"
                          /\ \A r \in received : r[1] = a => r[2] = 401
        /\ answer[a] = 401 => Rejected(a)

\* Whatever was answered is in the inbox, unless the inbox was cleared; also
\* what was rejected and what the service has given up.
InboxComplete ==
    \A a \in Attempts : answer[a] # None /\ ~cleared => \E r \in received : r[1] = a

(* What the proofs add to the invariants to make them inductive *)

\* The service runs with settings that it accepted when it started.
SettingsOK == settings # None => settings \in Settings /\ Validated(settings)

\* Nothing is recorded or answered before it was judged.
JudgedFirst ==
    /\ \A a \in Attempts : answer[a] # None => verdict[a] # None
    /\ \A r \in received : verdict[r[1]] # None

\* The running handler has judged its callback and not answered it; what it will
\* record, and has recorded, is the 401 exactly if it rejected it.
HandlerOK ==
    handler # None =>
        /\ verdict[handler.attempt] # None
        /\ answer[handler.attempt] = None
        /\ handler.answered_with = 401 <=> Rejected(handler.attempt)
        /\ handler.at = "recorded" /\ ~cleared
              => \E r \in received : r[1] = handler.attempt

\* An attempt was sent with what it says: the caller's headers, or these under
\* the signature of settings that were in force, made when it was sent.
SentAs ==
    \A a \in Attempts : request[a] # None =>
        /\ a[2] <= delivery[a[1]].count
        /\ \/ /\ attempt[a].stamp = None
              /\ request[a].headers = delivery[a[1]].headers
           \/ /\ attempt[a].stamp = request[a].sent + ahead["service"]
              /\ \E s \in Settings :
                    /\ Validated(s) /\ s.signing_enabled
                    /\ attempt[a].key = s.signing_secret
                    /\ request[a].headers = SignOver(delivery[a[1]].headers, s,
                                                     attempt[a].stamp, a[1])

\* A delivery that does not exist has no attempt.
NoneBeforeFirst ==
    \A d \in Bodies : delivery[d].status = "absent" => delivery[d].count = 0

\* A verdict is what verify_signature said of the request at that time.
VerdictOK ==
    \A a \in Attempts : verdict[a] # None =>
        /\ request[a] # None
        /\ verdict[a].found = Found(a, verdict[a].at + ahead["receiver"])

\* 401 marks the rejected callbacks wherever they appear, and an attempt is
\* delivered by a 200 only.
RejectionOK ==
    /\ \A r \in received : r[2] = 401 <=> Rejected(r[1])
    /\ \A a \in Attempts : answer[a] # None => (answer[a] = 401 <=> Rejected(a))
    /\ \A a \in Attempts : attempt[a].status = "delivered" => answer[a] = 200

=============================================================================
