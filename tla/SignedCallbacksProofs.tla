----------------------- MODULE SignedCallbacksProofs -----------------------
(***************************************************************************)
(* Proofs about SignedCallbacks for any settings, headers, secrets, clocks *)
(* and bounds: what is recorded of a signature is what was sent, and what  *)
(* the receiver rejects stays rejected, while the mode is switched, the    *)
(* inbox cleared and the service restarted at any time.                    *)
(***************************************************************************)
EXTENDS SignedCallbacks, TLAPS

\* A delivery that exists has its headers, for retries.
Complete(h) == h \in [Names -> Text]

HeadersKept ==
    /\ \A d \in Bodies : delivery[d].status # "absent" => Complete(delivery[d].headers)
    /\ \A a \in Attempts :
          attempt[a].status # "absent" => Complete(delivery[a[1]].headers)

IInv == /\ TypeOK /\ HeadersKept /\ SettingsOK /\ SignedAsRecorded
        /\ JudgedFirst /\ HandlerOK /\ RejectionOK /\ InboxComplete

\* What a step of the clock, of the service or of the receiver leaves alone.
ReceiverInv == JudgedFirst /\ HandlerOK /\ InboxComplete

LEMMA InitOK == Init => IInv
<1> SUFFICES ASSUME Init PROVE IInv
  OBVIOUS
<1>1. TypeOK
  <2>1. [status |-> "absent", http |-> 0, stamp |-> None, key |-> NoSecret]
           \in AttemptRecord
    BY DEF AttemptRecord
  <2>2. attempt \in [Attempts -> AttemptRecord]
    BY <2>1 DEF Init
  <2>3. [status |-> "absent", count |-> 0, headers |-> None] \in DeliveryRecord
    BY NumbersAssumption DEF DeliveryRecord
  <2>4. delivery \in [Bodies -> DeliveryRecord]
    BY <2>3 DEF Init
  <2>5. request \in [Attempts -> RequestRecord \cup {None}]
    BY DEF Init
  <2>6. /\ now \in 0..MaxTime /\ restarts \in 0..MaxRestarts
        /\ ahead \in [{"service", "receiver"} -> 0..MaxSkew]
        /\ settings \in Settings \cup {None}
    BY NumbersAssumption DEF Init
  <2>7. mode \in {200, 503} /\ secret \in Secrets \cup {NoSecret}
    BY ChoicesAssumption DEF Init
  <2>8. /\ received \subseteq Attempts \X {200, 401, 503}
        /\ handler \in Handler \cup {None}
        /\ verdict \in [Attempts -> Verdict \cup {None}]
        /\ answer \in [Attempts -> {200, 401, 503, None}]
        /\ cleared \in BOOLEAN
    BY DEF Init
  <2> QED BY <2>2, <2>4, <2>5, <2>6, <2>7, <2>8 DEF TypeOK
<1>2. /\ HeadersKept /\ SettingsOK /\ SignedAsRecorded
      /\ JudgedFirst /\ HandlerOK /\ InboxComplete
  BY DEF Init, HeadersKept, SettingsOK, SignedAsRecorded, JudgedFirst, HandlerOK,
     InboxComplete
<1>3. RejectionOK
  BY DEF Init, RejectionOK
<1> QED BY <1>1, <1>2, <1>3 DEF IInv

-----------------------------------------------------------------------------
(* The service *)

\* Two headers with different names say what the attempt says.
LEMMA SignOverSays ==
    ASSUME NEW headers \in [Names -> Text], NEW s \in Settings, Validated(s),
           s.signing_enabled, NEW t \in Nat, NEW d \in Bodies
    PROVE  /\ s.signing_secret \in Secrets
           /\ SignOver(headers, s, t, d) \in [Names -> Text]
           /\ SignOver(headers, s, t, d)[s.timestamp_header] = Stamp(t)
           /\ SignOver(headers, s, t, d)[s.signature_header] =
                 compute_signature(s.signing_secret, t, d)
<1>1. /\ s.signing_secret \in Secrets
      /\ s.signature_header \in Names /\ s.timestamp_header \in Names
      /\ s.signature_header # s.timestamp_header
  BY DEF Settings, Validated
<1>2. Stamp(t) \in Text /\ compute_signature(s.signing_secret, t, d) \in Text
  BY <1>1 DEF Stamp, compute_signature, Text
<1> HIDE DEF Text, Stamp, compute_signature
<1> QED BY <1>1, <1>2 DEF SignOver

LEMMA SendOK ==
    ASSUME IInv, NEW d \in Bodies, NEW headers \in [Names -> Text],
           settings # None, Send(d, headers)
    PROVE  IInv'
<1> DEFINE a == <<d, delivery[d].count + 1>>
           t == SignatureTimestamp(d)
<1>1. settings \in Settings /\ Validated(settings)
  BY DEF IInv, SettingsOK
<1>2. a \in Attempts /\ delivery[d].count + 1 \in 0..MaxAttempts
  <2>1. delivery[d] \in DeliveryRecord /\ delivery[d].count < MaxAttempts
    BY DEF IInv, TypeOK, Send
  <2> QED BY <2>1, NumbersAssumption DEF DeliveryRecord, Attempts
<1>3. t \in Nat
  BY NumbersAssumption DEF IInv, TypeOK, SignatureTimestamp, Clock
<1>4. settings.signing_secret \in Secrets \cup {NoSecret}
      /\ settings.signing_enabled \in BOOLEAN
  BY <1>1 DEF Settings
<1>5. /\ attempt' = [attempt EXCEPT
             ![a] = [status |-> "pending", http |-> 0,
                     stamp |-> IF settings.signing_enabled THEN t ELSE None,
                     key |-> IF settings.signing_enabled
                             THEN settings.signing_secret ELSE NoSecret]]
      /\ request' = [request EXCEPT
             ![a] = [headers |-> IF settings.signing_enabled
                                 THEN SignOver(headers, settings, t, d)
                                 ELSE headers,
                     sent |-> now, run |-> restarts]]
      /\ delivery' = [delivery EXCEPT
             ![d] = [status |-> "pending", count |-> @.count + 1,
                     headers |-> headers]]
      /\ UNCHANGED <<now, ahead, settings, restarts, receiver>>
  BY DEF Send
<1>6. a[1] = d
  OBVIOUS
<1> HIDE DEF a, t
<1>7. (IF settings.signing_enabled THEN SignOver(headers, settings, t, d) ELSE headers)
          \in [Names -> Text]
  BY <1>1, <1>3, SignOverSays
<1>8. TypeOK'
  <2>1. attempt' \in [Attempts -> AttemptRecord]
    <3>1. [status |-> "pending", http |-> 0,
           stamp |-> IF settings.signing_enabled THEN t ELSE None,
           key |-> IF settings.signing_enabled THEN settings.signing_secret
                   ELSE NoSecret] \in AttemptRecord
      BY <1>3, <1>4 DEF AttemptRecord
    <3>2. attempt \in [Attempts -> AttemptRecord]
      BY DEF IInv, TypeOK
    <3> QED BY <1>5, <3>1, <3>2
  <2>2. request' \in [Attempts -> RequestRecord \cup {None}]
    <3>1. [headers |-> IF settings.signing_enabled
                       THEN SignOver(headers, settings, t, d) ELSE headers,
           sent |-> now, run |-> restarts] \in RequestRecord
      BY <1>7 DEF RequestRecord, IInv, TypeOK
    <3>2. request \in [Attempts -> RequestRecord \cup {None}]
      BY DEF IInv, TypeOK
    <3> QED BY <1>5, <3>1, <3>2
  <2>3. delivery' \in [Bodies -> DeliveryRecord]
    <3>1. [status |-> "pending", count |-> delivery[d].count + 1, headers |-> headers]
             \in DeliveryRecord
      BY <1>2 DEF DeliveryRecord
    <3>2. delivery \in [Bodies -> DeliveryRecord]
      BY DEF IInv, TypeOK
    <3>3. delivery' = [delivery EXCEPT ![d] =
             [status |-> "pending", count |-> delivery[d].count + 1, headers |-> headers]]
      BY <1>5
    <3> QED BY <3>1, <3>2, <3>3
  <2> QED BY <1>5, <2>1, <2>2, <2>3 DEF IInv, TypeOK, receiver
<1>9. SignedAsRecorded'
  <2> SUFFICES ASSUME NEW b \in Attempts, attempt'[b].stamp # None
               PROVE  /\ attempt'[b].key \in Secrets
                      /\ \E n, m \in Names :
                            /\ request'[b].headers[n] = Stamp(attempt'[b].stamp)
                            /\ request'[b].headers[m] =
                                 compute_signature(attempt'[b].key, attempt'[b].stamp, b[1])
    BY DEF SignedAsRecorded
  <2>1. CASE b # a
    BY <1>5, <2>1 DEF IInv, TypeOK, SignedAsRecorded
  <2>2. CASE b = a
    <3>1. /\ settings.signing_enabled
          /\ attempt'[b].stamp = t /\ attempt'[b].key = settings.signing_secret
          /\ request'[b].headers = SignOver(headers, settings, t, d)
      BY <1>2, <1>5, <2>2 DEF IInv, TypeOK
    <3>2. settings.timestamp_header \in Names /\ settings.signature_header \in Names
      BY <1>1 DEF Settings
    <3> QED BY <1>1, <1>3, <1>6, <2>2, <3>1, <3>2, SignOverSays
  <2> QED BY <2>1, <2>2
<1>10. RejectionOK'
  BY <1>5 DEF IInv, TypeOK, RejectionOK, Rejected, receiver
<1>11. SettingsOK' /\ ReceiverInv'
  BY <1>5 DEF IInv, ReceiverInv, SettingsOK, JudgedFirst, HandlerOK, InboxComplete,
     Rejected, receiver
<1>12. HeadersKept'
  <2>1. /\ \A c \in Bodies : delivery'[c].headers =
              IF c = d THEN headers ELSE delivery[c].headers
        /\ \A c \in Bodies \ {d} : delivery'[c].status = delivery[c].status
        /\ \A b \in Attempts \ {a} : attempt'[b].status = attempt[b].status
    BY <1>2, <1>5 DEF IInv, TypeOK
  <2>2. \A b \in Attempts : b[1] \in Bodies
    BY DEF Attempts
  <2>3. Complete(headers)
    BY DEF Complete
  <2> QED BY <1>6, <2>1, <2>2, <2>3 DEF IInv, HeadersKept
<1> QED BY <1>8, <1>9, <1>10, <1>11, <1>12 DEF IInv, ReceiverInv

LEMMA SettleOK ==
    ASSUME IInv, NEW a \in Attempts, TakeAnswer(a) \/ GiveUp(a)
    PROVE  IInv'
<1>1. PICK status \in {"delivered", "failed"}, http \in {0, 200, 401, 503} :
        Settle(a, status, http) /\ (status = "delivered" => answer[a] = 200)
  BY DEF TakeAnswer, GiveUp, IInv, TypeOK
<1>2. a[1] \in Bodies
  BY DEF Attempts
<1>3. /\ attempt' = [attempt EXCEPT ![a].status = status, ![a].http = http]
      /\ delivery' = [delivery EXCEPT ![a[1]].status = status]
      /\ UNCHANGED <<now, ahead, settings, restarts, request, receiver>>
  BY <1>1 DEF Settle
<1>4. TypeOK' /\ SignedAsRecorded' /\ HeadersKept'
  <2>1. attempt \in [Attempts -> AttemptRecord]
    BY DEF IInv, TypeOK
  <2>2. attempt[a] \in AttemptRecord
    BY <2>1
  <2>3. /\ attempt'[a] \in AttemptRecord
        /\ attempt'[a].stamp = attempt[a].stamp /\ attempt'[a].key = attempt[a].key
    <3>1. attempt[a] = [status |-> attempt[a].status, http |-> attempt[a].http,
                        stamp |-> attempt[a].stamp, key |-> attempt[a].key]
      BY <2>2 DEF AttemptRecord
    <3>2. attempt'[a] = [status |-> status, http |-> http,
                         stamp |-> attempt[a].stamp, key |-> attempt[a].key]
      BY <1>3, <2>1, <3>1, ZenonT(30)
    <3>3. /\ attempt[a].stamp \in Nat \cup {None}
          /\ attempt[a].key \in Secrets \cup {NoSecret}
      BY <2>2 DEF AttemptRecord
    <3>4. status \in {"absent", "pending", "delivered", "failed"}
      OBVIOUS
    <3> QED BY <3>2, <3>3, <3>4 DEF AttemptRecord
  <2>4. attempt' \in [Attempts -> AttemptRecord]
    BY <1>3, <2>1, <2>3
  <2>5. delivery \in [Bodies -> DeliveryRecord]
    BY DEF IInv, TypeOK
  <2>6. /\ delivery'[a[1]] \in DeliveryRecord
        /\ delivery'[a[1]].headers = delivery[a[1]].headers
    BY <1>2, <1>3, <2>5 DEF DeliveryRecord
  <2>7. delivery' \in [Bodies -> DeliveryRecord]
    BY <1>2, <1>3, <2>5, <2>6
  <2>8. TypeOK'
    BY <1>3, <2>4, <2>7 DEF IInv, TypeOK, receiver
  <2>9. \A b \in Attempts : /\ attempt'[b].stamp = attempt[b].stamp
                            /\ attempt'[b].key = attempt[b].key
    BY <1>3, <2>1, <2>3
  <2>10. SignedAsRecorded'
    <3>1. request' = request /\ SignedAsRecorded
      BY <1>3 DEF IInv
    <3> QED BY <2>9, <3>1 DEF SignedAsRecorded
  <2>11. HeadersKept'
    <3>1. Complete(delivery[a[1]].headers)
      BY <1>1 DEF Settle, Waiting, IInv, HeadersKept
    <3>2. \A d \in Bodies : /\ delivery'[d].headers = delivery[d].headers
                            /\ d # a[1] => delivery'[d].status = delivery[d].status
      BY <1>3, <2>5, <2>6
    <3>3. \A b \in Attempts \ {a} : attempt'[b].status = attempt[b].status
      BY <1>3, <2>1
    <3>4. \A b \in Attempts : b[1] \in Bodies
      BY DEF Attempts
    <3> QED BY <3>1, <3>2, <3>3, <3>4 DEF IInv, HeadersKept
  <2> QED BY <2>8, <2>10, <2>11
<1>5. RejectionOK'
  BY <1>1 DEF IInv, TypeOK, RejectionOK, Rejected, Settle, receiver
<1>6. SettingsOK' /\ ReceiverInv'
  BY <1>1 DEF IInv, ReceiverInv, SettingsOK, JudgedFirst, HandlerOK, InboxComplete,
     Rejected, Settle, receiver
<1> QED BY <1>4, <1>5, <1>6 DEF IInv, ReceiverInv

LEMMA RestartOK == IInv /\ Restart => IInv'
<1> SUFFICES ASSUME IInv, Restart PROVE IInv'
  OBVIOUS
<1>1. settings' \in Settings /\ Validated(settings')
  BY ChoicesAssumption DEF Restart
<1>2. TypeOK'
  BY <1>1, NumbersAssumption DEF Restart, IInv, TypeOK, receiver
<1> QED BY <1>1, <1>2 DEF Restart, IInv, HeadersKept, SettingsOK, SignedAsRecorded,
        JudgedFirst, HandlerOK, RejectionOK, InboxComplete, Rejected, receiver

-----------------------------------------------------------------------------
(* The receiver *)

LEMMA JudgeOK ==
    ASSUME IInv, NEW a \in Attempts, Judge(a)
    PROVE  IInv'
<1>1. PICK found :
        /\ verdict[a] = None /\ handler = None
        /\ found \in Reasons \cup {"valid", "unverified"}
        /\ verdict' = [verdict EXCEPT ![a] = [found |-> found, at |-> now]]
        /\ handler' = [attempt |-> a, at |-> "judged",
                       answered_with |-> IF found \in Reasons THEN 401 ELSE mode]
        /\ UNCHANGED <<now, ahead, sender, mode, secret, received, answer, cleared>>
  BY ZenonT(30) DEF Judge, Found, verify_signature, Reasons
<1>2. [found |-> found, at |-> now] \in Verdict
  BY <1>1 DEF IInv, TypeOK, Verdict
<1>3. handler' \in Handler /\ mode \in {200, 503}
  BY <1>1 DEF IInv, TypeOK, Handler
<1>4. TypeOK'
  BY <1>1, <1>2, <1>3 DEF IInv, TypeOK, sender
<1>5. /\ verdict'[a] # None /\ answer[a] = None
      /\ verdict'[a].found = found
      /\ \A b \in Attempts \ {a} : verdict'[b] = verdict[b]
      /\ \A r \in received : r[1] # a /\ r[1] \in Attempts
  BY <1>1, <1>2, NoneAssumption DEF IInv, TypeOK, JudgedFirst
<1>6. \A b \in Attempts \ {a} : Rejected(b)' <=> Rejected(b)
  BY <1>5 DEF Rejected
<1>7. Rejected(a)' <=> found \in Reasons
  BY <1>5 DEF Rejected
<1>8. JudgedFirst'
  BY <1>1, <1>5 DEF IInv, JudgedFirst
<1>9. HandlerOK'
  <2>1. handler'.attempt = a /\ handler'.at = "judged"
        /\ (handler'.answered_with = 401 <=> found \in Reasons)
    BY <1>1, <1>3
  <2> QED BY <1>1, <1>5, <1>7, <2>1 DEF HandlerOK
<1>10. RejectionOK'
  <2>1. \A r \in received' : r[2] = 401 <=> Rejected(r[1])'
    BY <1>1, <1>5, <1>6 DEF IInv, RejectionOK
  <2>2. \A b \in Attempts : answer'[b] # None => (answer'[b] = 401 <=> Rejected(b)')
    BY <1>1, <1>5, <1>6 DEF IInv, RejectionOK
  <2> QED BY <1>1, <2>1, <2>2 DEF IInv, RejectionOK, sender
<1>11. InboxComplete' /\ HeadersKept' /\ SettingsOK' /\ SignedAsRecorded'
  BY <1>1 DEF IInv, InboxComplete, HeadersKept, SettingsOK, SignedAsRecorded, sender
<1> QED BY <1>4, <1>8, <1>9, <1>10, <1>11 DEF IInv

LEMMA RecordOK == IInv /\ Record => IInv'
<1> SUFFICES ASSUME IInv, Record PROVE IInv'
  OBVIOUS
<1> DEFINE a == handler.attempt
           r == <<a, handler.answered_with>>
<1>1. /\ handler # None /\ handler \in Handler
      /\ received' = received \cup {r}
      /\ handler' = [handler EXCEPT !.at = "recorded"]
      /\ UNCHANGED <<now, ahead, sender, mode, secret, verdict, answer, cleared>>
  BY DEF Record, IInv, TypeOK
<1>2. /\ a \in Attempts /\ handler.answered_with \in {200, 401, 503}
      /\ handler' \in Handler /\ handler'.attempt = a
      /\ handler'.answered_with = handler.answered_with
  BY <1>1 DEF Handler
<1>3. r \in received' /\ r[1] = a /\ r[2] = handler.answered_with
  BY <1>1
<1>4. TypeOK'
  BY <1>1, <1>2 DEF IInv, TypeOK, sender
<1>5. verdict[a] # None /\ answer[a] = None
      /\ (handler.answered_with = 401 <=> Rejected(a))
  BY <1>1 DEF IInv, HandlerOK
<1> HIDE DEF a, r
<1>6. JudgedFirst'
  BY <1>1, <1>3, <1>5 DEF IInv, JudgedFirst
<1>7. \A b : Rejected(b)' <=> Rejected(b)
  BY <1>1 DEF Rejected
<1>8. HandlerOK'
  BY <1>1, <1>2, <1>3, <1>5, <1>7 DEF HandlerOK
<1>9. RejectionOK'
  BY <1>1, <1>3, <1>5, <1>7 DEF IInv, RejectionOK, sender
<1>10. InboxComplete' /\ HeadersKept' /\ SettingsOK' /\ SignedAsRecorded'
  BY <1>1 DEF IInv, InboxComplete, HeadersKept, SettingsOK, SignedAsRecorded, sender
<1> QED BY <1>4, <1>6, <1>8, <1>9, <1>10 DEF IInv

LEMMA RespondOK == IInv /\ Respond => IInv'
<1> SUFFICES ASSUME IInv, Respond PROVE IInv'
  OBVIOUS
<1> DEFINE a == handler.attempt
<1>1. /\ handler # None /\ handler \in Handler /\ handler.at = "recorded"
      /\ answer' = [answer EXCEPT ![a] = Given]
      /\ handler' = None
      /\ UNCHANGED <<now, ahead, sender, mode, secret, received, verdict, cleared>>
  BY DEF Respond, IInv, TypeOK
<1>2. a \in Attempts
  BY <1>1 DEF Handler
<1>3. verdict[a] # None /\ answer[a] = None
      /\ (~cleared => \E r \in received : r[1] = a)
  BY <1>1 DEF IInv, HandlerOK
<1>4. Given \in {200, 401, 503} /\ (Given = 401 <=> Rejected(a))
  BY <1>3 DEF IInv, TypeOK, Given, Rejected
<1> HIDE DEF a
<1>5. /\ answer'[a] = Given
      /\ \A b \in Attempts \ {a} : answer'[b] = answer[b]
  BY <1>1, <1>2 DEF IInv, TypeOK
<1>6. TypeOK'
  <2>1. answer' \in [Attempts -> {200, 401, 503, None}]
    BY <1>1, <1>2, <1>4 DEF IInv, TypeOK
  <2>2. handler' \in Handler \cup {None}
    BY <1>1
  <2> QED BY <1>1, <2>1, <2>2 DEF IInv, TypeOK, sender
<1>7. \A b : Rejected(b)' <=> Rejected(b)
  BY <1>1 DEF Rejected
<1>8. JudgedFirst'
  BY <1>1, <1>3, <1>5 DEF IInv, JudgedFirst
<1>9. HandlerOK'
  BY <1>1 DEF HandlerOK
<1>10. RejectionOK'
  <2>1. \A b \in Attempts : attempt'[b].status = "delivered" => answer'[b] = 200
    <3> SUFFICES ASSUME NEW b \in Attempts, attempt[b].status = "delivered"
                 PROVE  answer'[b] = 200
      BY <1>1 DEF sender
    <3>1. answer[b] = 200 /\ b # a
      BY <1>3, NoneAssumption DEF IInv, RejectionOK
    <3> QED BY <1>5, <3>1
  <2>2. \A b \in Attempts : answer'[b] # None => (answer'[b] = 401 <=> Rejected(b)')
    BY <1>4, <1>5, <1>7 DEF IInv, RejectionOK
  <2> QED BY <1>1, <1>7, <2>1, <2>2 DEF IInv, RejectionOK
<1>11. InboxComplete'
  BY <1>1, <1>3, <1>5 DEF IInv, InboxComplete
<1>12. HeadersKept' /\ SettingsOK' /\ SignedAsRecorded'
  BY <1>1 DEF IInv, HeadersKept, SettingsOK, SignedAsRecorded, sender
<1> QED BY <1>6, <1>8, <1>9, <1>10, <1>11, <1>12 DEF IInv

LEMMA SwitchOK == IInv /\ (set_mode \/ clear_received \/ Tick) => IInv'
<1> USE DEF HeadersKept, SettingsOK, SignedAsRecorded, JudgedFirst, HandlerOK,
        RejectionOK, InboxComplete, Rejected, sender
<1>1. IInv /\ set_mode => IInv'
  <2> SUFFICES ASSUME IInv, set_mode PROVE IInv'
    OBVIOUS
  <2>1. mode' \in {200, 503}
    BY ChoicesAssumption DEF set_mode
  <2>2. TypeOK'
    BY <2>1 DEF set_mode, IInv, TypeOK
  <2> QED BY <2>2 DEF set_mode, IInv
<1>2. IInv /\ clear_received => IInv'
  BY DEF clear_received, IInv, TypeOK
<1>3. IInv /\ Tick => IInv'
  BY NumbersAssumption DEF Tick, receiver, IInv, TypeOK
<1> QED BY <1>1, <1>2, <1>3

-----------------------------------------------------------------------------
LEMMA StepOK == IInv /\ [Next]_vars => IInv'
<1> SUFFICES ASSUME IInv, [Next]_vars PROVE IInv'
  OBVIOUS
<1>1. ASSUME NEW d \in Bodies, Create(d) \/ Retry(d) PROVE IInv'
  <2>1. CASE Create(d)
    BY <2>1, ChoicesAssumption, SendOK DEF Create
  <2>2. CASE Retry(d)
    <3>1. delivery[d].headers \in [Names -> Text]
      BY <2>2 DEF Retry, IInv, HeadersKept, Complete
    <3> QED BY <2>2, <3>1, SendOK DEF Retry
  <2> QED BY <1>1, <2>1, <2>2
<1>2. ASSUME UNCHANGED vars PROVE IInv'
  BY <1>2 DEF vars, sender, receiver, IInv, TypeOK, HeadersKept, SettingsOK,
     SignedAsRecorded, JudgedFirst, HandlerOK, RejectionOK, InboxComplete, Rejected
<1> QED BY <1>1, <1>2, RestartOK, SettleOK, JudgeOK, RecordOK, RespondOK, SwitchOK
        DEF Next, Quiet

LEMMA Invariance == Spec => []IInv
BY InitOK, StepOK, PTL DEF Spec

\* Every variable keeps its type.
THEOREM SignedTyped == Spec => []TypeOK
<1>1. IInv => TypeOK
  BY DEF IInv
<1> QED BY <1>1, Invariance, PTL

\* What an attempt says of its signature went out, over anything the caller gave
\* (send_attempt: timestamp, MAC, evidence).
THEOREM RecordedIsSigned == Spec => []SignedAsRecorded
<1>1. IInv => SignedAsRecorded
  BY DEF IInv
<1> QED BY <1>1, Invariance, PTL

\* A rejected callback is a 401 everywhere and never delivered, although the mode
\* is read twice and may change between (receive_callback).
THEOREM RejectedForGood == Spec => []RejectionIsFinal
<1>1. IInv => RejectionIsFinal
  <2> SUFFICES ASSUME IInv, NEW a \in Attempts
               PROVE  /\ Rejected(a) => /\ answer[a] \in {None, 401}
                                        /\ attempt[a].status # "delivered"
                                        /\ \A r \in received : r[1] = a => r[2] = 401
                      /\ answer[a] = 401 => Rejected(a)
    BY DEF RejectionIsFinal
  <2>1. answer[a] = 401 => Rejected(a)
    BY NoneAssumption DEF IInv, RejectionOK
  <2>2. ASSUME Rejected(a)
        PROVE  /\ answer[a] \in {None, 401}
               /\ attempt[a].status # "delivered"
               /\ \A r \in received : r[1] = a => r[2] = 401
    BY <2>2, NoneAssumption DEF IInv, RejectionOK
  <2> QED BY <2>1, <2>2
<1> QED BY <1>1, Invariance, PTL

\* What was answered is in the inbox unless somebody cleared it (receive_callback
\* appends before it answers).
THEOREM AnswersAreRecorded == Spec => []InboxComplete
<1>1. IInv => InboxComplete
  BY DEF IInv
<1> QED BY <1>1, Invariance, PTL

-----------------------------------------------------------------------------
(* What was sent, and what the receiver made of it *)

JInv == SentAs /\ NoneBeforeFirst /\ VerdictOK

\* A step that leaves the requests, what is said of them and the verdicts alone.
LEMMA Quietly ==
    ASSUME JInv, UNCHANGED <<ahead, secret, request, verdict>>,
           \A a \in Attempts : /\ attempt'[a].stamp = attempt[a].stamp
                               /\ attempt'[a].key = attempt[a].key,
           \A d \in Bodies : /\ delivery'[d].count = delivery[d].count
                             /\ delivery'[d].headers = delivery[d].headers
                             /\ delivery'[d].status = "absent"
                                   => delivery[d].status = "absent"
    PROVE  JInv'
<1>1. \A a \in Attempts : a[1] \in Bodies
  BY DEF Attempts
<1>2. SentAs'
  <2> SUFFICES ASSUME NEW a \in Attempts, request[a] # None
               PROVE  /\ a[2] <= delivery[a[1]].count
                      /\ \/ /\ attempt[a].stamp = None
                            /\ request[a].headers = delivery[a[1]].headers
                         \/ /\ attempt[a].stamp = request[a].sent + ahead["service"]
                            /\ \E s \in Settings :
                                  /\ Validated(s) /\ s.signing_enabled
                                  /\ attempt[a].key = s.signing_secret
                                  /\ request[a].headers =
                                        SignOver(delivery[a[1]].headers, s,
                                                 attempt[a].stamp, a[1])
    BY <1>1 DEF SentAs
  <2> QED BY DEF JInv, SentAs
<1>3. NoneBeforeFirst'
  BY DEF JInv, NoneBeforeFirst
<1>4. \A a, t : Found(a, t)' = Found(a, t)
  BY DEF Found
<1>5. VerdictOK'
  BY <1>4 DEF JInv, VerdictOK
<1> QED BY <1>2, <1>3, <1>5 DEF JInv

LEMMA SendJ ==
    ASSUME IInv, JInv, NEW d \in Bodies, NEW headers \in [Names -> Text],
           settings # None, Send(d, headers),
           delivery[d].count = 0 \/ headers = delivery[d].headers
    PROVE  JInv'
<1> DEFINE a == <<d, delivery[d].count + 1>>
           t == SignatureTimestamp(d)
           signed == settings.signing_enabled
<1>1. settings \in Settings /\ Validated(settings)
  BY DEF IInv, SettingsOK
<1>2. /\ a \in Attempts /\ a[1] = d /\ a[2] = delivery[d].count + 1
      /\ delivery[d].count \in Nat
  <2>1. delivery[d] \in DeliveryRecord /\ delivery[d].count < MaxAttempts
    BY DEF IInv, TypeOK, Send
  <2> QED BY <2>1, NumbersAssumption DEF DeliveryRecord, Attempts
<1>3. t = now + ahead["service"]
  BY DEF SignatureTimestamp, Clock
<1>4. /\ attempt'[a].stamp = IF signed THEN t ELSE None
      /\ attempt'[a].key = IF signed THEN settings.signing_secret ELSE NoSecret
      /\ request'[a] = [headers |-> IF signed THEN SignOver(headers, settings, t, d)
                                    ELSE headers,
                        sent |-> now, run |-> restarts]
      /\ \A b \in Attempts \ {a} : attempt'[b] = attempt[b] /\ request'[b] = request[b]
      /\ delivery'[d].status = "pending" /\ delivery'[d].headers = headers
      /\ delivery'[d].count = delivery[d].count + 1
      /\ \A c \in Bodies \ {d} : delivery'[c] = delivery[c]
      /\ UNCHANGED <<ahead, secret, verdict>>
  BY <1>2 DEF Send, IInv, TypeOK, receiver
<1>5. \A b \in Attempts : b[1] \in Bodies /\ b[2] \in Nat
  BY NumbersAssumption DEF Attempts
<1>6. request[a] = None /\ verdict[a] = None
  BY <1>2 DEF JInv, SentAs, VerdictOK
<1> HIDE DEF a, t
<1>7. SentAs'
  <2> SUFFICES ASSUME NEW b \in Attempts, request'[b] # None
               PROVE  /\ b[2] <= delivery'[b[1]].count
                      /\ \/ /\ attempt'[b].stamp = None
                            /\ request'[b].headers = delivery'[b[1]].headers
                         \/ /\ attempt'[b].stamp = request'[b].sent + ahead'["service"]
                            /\ \E s \in Settings :
                                  /\ Validated(s) /\ s.signing_enabled
                                  /\ attempt'[b].key = s.signing_secret
                                  /\ request'[b].headers =
                                        SignOver(delivery'[b[1]].headers, s,
                                                 attempt'[b].stamp, b[1])
    BY DEF SentAs
  <2>1. CASE b = a
    <3>1. b[2] <= delivery'[b[1]].count /\ delivery'[b[1]].headers = headers
      BY <1>2, <1>4, <2>1
    <3>2. CASE ~signed
      BY <1>4, <2>1, <3>1, <3>2
    <3>3. CASE signed
      <4>1. attempt'[b].stamp = t /\ attempt'[b].key = settings.signing_secret
            /\ request'[b].headers = SignOver(headers, settings, t, d)
            /\ request'[b].sent = now
        BY <1>4, <2>1, <3>3
      <4> QED BY <1>1, <1>2, <1>3, <1>4, <2>1, <3>1, <3>3, <4>1
    <3> QED BY <3>2, <3>3
  <2>2. CASE b # a
    <3>1. request'[b] = request[b] /\ attempt'[b] = attempt[b]
      BY <1>4, <2>2
    <3>2. /\ b[2] <= delivery[b[1]].count
          /\ b[2] <= delivery'[b[1]].count
          /\ delivery'[b[1]].headers = delivery[b[1]].headers
      <4>1. b[2] <= delivery[b[1]].count
        BY <3>1 DEF JInv, SentAs
      <4>2. CASE b[1] = d
        <5>1. 1 <= b[2]
          BY NumbersAssumption DEF Attempts
        <5> QED BY <1>2, <1>4, <1>5, <4>1, <4>2, <5>1
      <4>3. CASE b[1] # d
        BY <1>4, <1>5, <4>1, <4>3
      <4> QED BY <4>1, <4>2, <4>3
    <3> QED BY <1>4, <3>1, <3>2 DEF JInv, SentAs
  <2> QED BY <2>1, <2>2
<1>8. NoneBeforeFirst'
  BY <1>4 DEF JInv, NoneBeforeFirst
<1>9. VerdictOK'
  <2> SUFFICES ASSUME NEW b \in Attempts, verdict[b] # None
               PROVE  /\ request'[b] # None
                      /\ verdict[b].found
                            = Found(b, verdict[b].at + ahead["receiver"])'
    BY <1>4 DEF VerdictOK
  <2>1. request'[b] = request[b]
    BY <1>4, <1>6
  <2>2. \A u : Found(b, u)' = Found(b, u)
    BY <1>4, <2>1 DEF Found
  <2> QED BY <1>4, <2>1, <2>2 DEF JInv, VerdictOK
<1> QED BY <1>7, <1>8, <1>9 DEF JInv

LEMMA JudgeJ ==
    ASSUME IInv, JInv, NEW a \in Attempts, Judge(a)
    PROVE  JInv'
<1>1. /\ request[a] # None
      /\ verdict' = [verdict EXCEPT ![a] =
                        [found |-> Found(a, now + ahead["receiver"]), at |-> now]]
      /\ UNCHANGED <<now, ahead, sender, secret>>
  BY DEF Judge, Clock
<1>2. \A b, t : Found(b, t)' = Found(b, t)
  BY <1>1 DEF Found, sender
<1>3. VerdictOK'
  <2> SUFFICES ASSUME NEW b \in Attempts, verdict'[b] # None
               PROVE  /\ request[b] # None
                      /\ verdict'[b].found = Found(b, verdict'[b].at + ahead["receiver"])
    BY <1>1, <1>2 DEF VerdictOK, sender
  <2>1. CASE b = a
    BY <1>1, <2>1 DEF IInv, TypeOK
  <2>2. CASE b # a
    BY <1>1, <2>2 DEF IInv, TypeOK, JInv, VerdictOK
  <2> QED BY <2>1, <2>2
<1>4. SentAs' /\ NoneBeforeFirst'
  BY <1>1 DEF sender, JInv, SentAs, NoneBeforeFirst
<1> QED BY <1>3, <1>4 DEF JInv

LEMMA SettleJ ==
    ASSUME IInv, JInv, NEW a \in Attempts, TakeAnswer(a) \/ GiveUp(a)
    PROVE  JInv'
<1>1. PICK status, http :
        status \in {"delivered", "failed"} /\ Settle(a, status, http)
  BY DEF TakeAnswer, GiveUp
<1>2. a[1] \in Bodies
  BY DEF Attempts
<1>3. /\ attempt' = [attempt EXCEPT ![a].status = status, ![a].http = http]
      /\ delivery' = [delivery EXCEPT ![a[1]].status = status]
      /\ UNCHANGED <<ahead, secret, request, verdict>>
  BY <1>1 DEF Settle, receiver
<1>4. \A b \in Attempts : /\ attempt'[b].stamp = attempt[b].stamp
                          /\ attempt'[b].key = attempt[b].key
  <2>1. attempt[a].stamp = attempt'[a].stamp /\ attempt[a].key = attempt'[a].key
    <3>1. attempt[a] \in AttemptRecord /\ attempt \in [Attempts -> AttemptRecord]
      BY DEF IInv, TypeOK
    <3>2. attempt[a] = [status |-> attempt[a].status, http |-> attempt[a].http,
                        stamp |-> attempt[a].stamp, key |-> attempt[a].key]
      BY <3>1 DEF AttemptRecord
    <3>3. attempt'[a] = [status |-> status, http |-> http,
                         stamp |-> attempt[a].stamp, key |-> attempt[a].key]
      BY <1>3, <3>1, <3>2
    <3> QED BY <3>3
  <2>2. \A b \in Attempts \ {a} : attempt'[b] = attempt[b]
    BY <1>3 DEF IInv, TypeOK
  <2> QED BY <2>1, <2>2
<1>5. \A d \in Bodies : /\ delivery'[d].count = delivery[d].count
                        /\ delivery'[d].headers = delivery[d].headers
                        /\ delivery'[d].status = "absent"
                              => delivery[d].status = "absent"
  BY <1>1, <1>2, <1>3 DEF IInv, TypeOK, DeliveryRecord
<1> QED BY <1>3, <1>4, <1>5, Quietly

LEMMA StepJ == IInv /\ JInv /\ [Next]_vars => JInv'
<1> SUFFICES ASSUME IInv, JInv, [Next]_vars PROVE JInv'
  OBVIOUS
<1>1. ASSUME NEW d \in Bodies, Create(d) PROVE JInv'
  BY <1>1, ChoicesAssumption, SendJ DEF Create, JInv, NoneBeforeFirst
<1>2. ASSUME NEW d \in Bodies, Retry(d) PROVE JInv'
  <2>1. delivery[d].headers \in [Names -> Text]
    BY <1>2 DEF Retry, IInv, HeadersKept, Complete
  <2> QED BY <1>2, <2>1, SendJ DEF Retry
<1>3. CASE Tick \/ Restart \/ Record \/ Respond \/ set_mode \/ clear_received
           \/ UNCHANGED vars
  <2>1. UNCHANGED <<ahead, secret, delivery, attempt, request, verdict>>
    BY <1>3 DEF Tick, Restart, Record, Respond, set_mode, clear_received, vars,
       sender, receiver
  <2> QED BY <2>1, Quietly
<1> QED BY <1>1, <1>2, <1>3, SettleJ, JudgeJ DEF Next, Quiet

LEMMA Traced == Spec => [](IInv /\ JInv)
<1>1. Init => JInv
  BY DEF Init, JInv, SentAs, NoneBeforeFirst, VerdictOK
<1> QED BY <1>1, Invariance, StepJ, PTL DEF Spec

\* The two clocks of an attempt are numbers.
LEMMA ClocksAreNumbers ==
    ASSUME IInv, NEW a \in Attempts, request[a] # None, verdict[a] # None
    PROVE  /\ request[a].sent \in Nat /\ verdict[a].at \in Nat
           /\ ahead["service"] \in Nat /\ ahead["receiver"] \in Nat
           /\ Tolerance \in Nat
<1>1. request[a] \in RequestRecord /\ verdict[a] \in Verdict
  BY DEF IInv, TypeOK
<1>2. ahead \in [{"service", "receiver"} -> 0..MaxSkew]
  BY DEF IInv, TypeOK
<1> QED BY <1>1, <1>2, NumbersAssumption DEF RequestRecord, Verdict

\* What verify_signature finds when it finds nothing wrong, and what it finds in
\* a request that carries the right signature.
LEMMA Verified ==
    ASSUME NEW k, NEW ts, NEW sg, NEW body, NEW t, NEW tolerance
    PROVE  /\ verify_signature(k, ts, sg, body, t, tolerance) = "valid" =>
                 /\ ts.kind = "stamp" /\ ~OutOfTolerance(t, ts.at, tolerance)
                 /\ sg = compute_signature(k, ts.at, body)
           /\ \A u : /\ ts = Stamp(u) /\ sg = compute_signature(k, u, body)
                     /\ ~OutOfTolerance(t, u, tolerance)
                     => verify_signature(k, ts, sg, body, t, tolerance) = "valid"
<1>1. verify_signature(k, ts, sg, body, t, tolerance) = "valid" =>
         /\ ts.kind = "stamp" /\ ~OutOfTolerance(t, ts.at, tolerance)
         /\ sg = compute_signature(k, ts.at, body)
  <2> HIDE DEF OutOfTolerance, compute_signature
  <2> QED BY DEF verify_signature
<1>2. ASSUME NEW u, ts = Stamp(u), sg = compute_signature(k, u, body),
             ~OutOfTolerance(t, u, tolerance)
      PROVE  verify_signature(k, ts, sg, body, t, tolerance) = "valid"
  <2>1. ts # NoText /\ ts.kind = "stamp" /\ ts.at = u /\ sg # NoText
    <3>1. NoText.kind = "none" /\ ts.kind = "stamp" /\ sg.kind = "mac" /\ ts.at = u
      BY <1>2 DEF NoText, Stamp, compute_signature
    <3> QED BY <3>1
  <2> HIDE DEF OutOfTolerance, compute_signature, NoText
  <2> QED BY <1>2, <2>1 DEF verify_signature
<1> QED BY <1>1, <1>2

\* Only a signature by somebody who knows the receiver's secret is accepted, and
\* only while it is fresh (verify_signature, over what send_attempt signed).
THEOREM AcceptedGenuinely == Spec => []AcceptedIsGenuine
<1>1. IInv /\ JInv => AcceptedIsGenuine
  <2> SUFFICES ASSUME IInv, JInv, NEW a \in Attempts,
                      verdict[a] # None, verdict[a].found = "valid"
               PROVE  \/ attempt[a].stamp # None /\ attempt[a].key = secret /\ ~Late(a)
                      \/ LET given == delivery[a[1]].headers[SignatureHeader]
                         IN  given.kind = "mac" /\ given.secret = secret
                             /\ given.body = a[1]
    BY DEF AcceptedIsGenuine
  <2> DEFINE h == request[a].headers
             v == verdict[a].at + ahead["receiver"]
  <2>1. /\ request[a] # None
        /\ verify_signature(secret, h[TimestampHeader], h[SignatureHeader], a[1],
                            v, Tolerance) = "valid"
    BY DEF JInv, VerdictOK, Found
  <2>2. /\ ~OutOfTolerance(v, h[TimestampHeader].at, Tolerance)
        /\ h[SignatureHeader] =
              compute_signature(secret, h[TimestampHeader].at, a[1])
    BY <2>1, Verified
  <2>3. /\ h[SignatureHeader].kind = "mac" /\ h[SignatureHeader].secret = secret
        /\ h[SignatureHeader].body = a[1]
        /\ h[SignatureHeader].at = h[TimestampHeader].at
    BY <2>2 DEF compute_signature
  <2>4. CASE h = delivery[a[1]].headers
    BY <2>3, <2>4
  <2>5. ASSUME attempt[a].stamp = request[a].sent + ahead["service"],
               NEW s \in Settings, Validated(s), s.signing_enabled,
               attempt[a].key = s.signing_secret,
               h = SignOver(delivery[a[1]].headers, s, attempt[a].stamp, a[1])
        PROVE  \/ attempt[a].stamp # None /\ attempt[a].key = secret /\ ~Late(a)
               \/ h[SignatureHeader] = delivery[a[1]].headers[SignatureHeader]
    <3>1. /\ SignatureHeader \in Names
          /\ delivery[a[1]].headers \in [Names -> Text]
      <4>1. a[1] \in Bodies /\ a[2] \in Nat /\ 1 <= a[2]
        BY NumbersAssumption DEF Attempts
      <4>2. a[2] <= delivery[a[1]].count
        BY <2>1 DEF JInv, SentAs
      <4>3. delivery[a[1]].count # 0
        BY <4>1, <4>2
      <4>4. delivery[a[1]].status # "absent"
        BY <4>1, <4>3 DEF JInv, NoneBeforeFirst
      <4> QED BY <4>1, <4>4, ChoicesAssumption DEF IInv, HeadersKept, Complete
    <3>2. h[SignatureHeader] =
            IF SignatureHeader = s.signature_header
            THEN compute_signature(s.signing_secret, attempt[a].stamp, a[1])
            ELSE IF SignatureHeader = s.timestamp_header
            THEN Stamp(attempt[a].stamp)
            ELSE delivery[a[1]].headers[SignatureHeader]
      <4> HIDE DEF Stamp, compute_signature, Text
      <4> QED BY <2>5, <3>1 DEF SignOver, Settings, Validated
    <3>3. CASE SignatureHeader = s.signature_header
      <4>1. /\ s.signing_secret = secret
            /\ h[TimestampHeader].at = attempt[a].stamp
        BY <2>3, <3>2, <3>3 DEF compute_signature
      <4>2. ~Late(a)
        BY <2>1, <2>2, <2>5, <4>1, ClocksAreNumbers DEF Late, OutOfTolerance
      <4>3. attempt[a].stamp # None
        BY <2>1, <2>5, NoneAssumption, ClocksAreNumbers
      <4> QED BY <2>5, <4>1, <4>2, <4>3
    <3>4. CASE SignatureHeader = s.timestamp_header /\ SignatureHeader # s.signature_header
      <4>1. h[SignatureHeader].kind = "stamp"
        BY <3>2, <3>4 DEF Stamp
      <4> QED BY <2>3, <4>1
    <3> QED BY <3>2, <3>3, <3>4
  <2> QED BY <2>1, <2>3, <2>4, <2>5 DEF JInv, SentAs
<1> QED BY <1>1, Traced, PTL

\* A callback signed with the receiver's secret under its header names is rejected
\* for its own lateness only (verify_signature, the timestamp of send_attempt).
THEOREM RejectedForLateness == Spec => []RejectedOnlyIfLate
<1>1. IInv /\ JInv => RejectedOnlyIfLate
  <2> SUFFICES ASSUME IInv, JInv, NEW a \in Attempts, Rejected(a),
                      attempt[a].stamp # None, attempt[a].key = secret,
                      request[a].headers[TimestampHeader] = Stamp(attempt[a].stamp),
                      request[a].headers[SignatureHeader] =
                         compute_signature(secret, attempt[a].stamp, a[1])
               PROVE  Late(a)
    BY DEF RejectedOnlyIfLate
  <2> DEFINE h == request[a].headers
             v == verdict[a].at + ahead["receiver"]
  <2>1. /\ verdict[a] # None /\ request[a] # None
        /\ verdict[a].found = Found(a, v)
        /\ verdict[a].found # "valid" /\ verdict[a].found # "unverified"
    BY DEF Rejected, Reasons, JInv, VerdictOK
  <2>2. verify_signature(secret, h[TimestampHeader], h[SignatureHeader], a[1],
                         v, Tolerance) # "valid"
    BY <2>1 DEF Found
  <2>3. OutOfTolerance(v, attempt[a].stamp, Tolerance)
    BY <2>2, Verified
  <2>4. attempt[a].stamp = request[a].sent + ahead["service"]
    BY <2>1 DEF JInv, SentAs
  <2> QED BY <2>1, <2>3, <2>4, ClocksAreNumbers DEF Late, OutOfTolerance
<1> QED BY <1>1, Traced, PTL

=============================================================================
