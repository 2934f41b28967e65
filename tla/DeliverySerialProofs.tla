------------------------ MODULE DeliverySerialProofs ------------------------
(***************************************************************************)
(* What one worker promises and several do not: the attempts of a delivery *)
(* are made one after the other, and its row shows the latest of them.     *)
(* Workers is a set of at most one process here; everything else, the      *)
(* faults included, is as general as in DeliveryService.                   *)
(***************************************************************************)
EXTENDS DeliveryServiceProofs, FiniteSetTheorems, FunctionTheorems, SequenceTheorems

OneWorker == \A v, w \in Workers : v = w

\* The points between two awaits.
Running == {"validate", "lookup", "insert", "relookup", "inserted", "load", "begin",
            "finished"}

\* A handler that is not awaiting the partner holds the event loop of its worker.
LoopHeld == \A c \in Calls : pc[c] \in Running => loop[on[c]] = c

\* The columns of a row that a session loads: Snapshot(d) is Columns(delivery[d]).
Columns(row) == [status |-> row.status, count |-> row.count,
                 http |-> row.http, error |-> row.error]

\* What a session holds is what the tables hold.
SessionsOK ==
    \A c \in Calls :
        /\ pc[c] \in {"inserted", "begin", "await"} => view[c] = Columns(delivery[Subject(c)])
        /\ pc[c] \in {"inserted", "begin"} /\ req[c].kind = "create"
              => delivery[c].status = "pending" /\ delivery[c].count = 0
        /\ pc[c] = "begin" /\ req[c].kind = "retry"
              => delivery[Subject(c)].status = "failed"
        /\ pc[c] = "await" => /\ delivery[Subject(c)].status = "pending"
                              /\ attempt[c].number = delivery[Subject(c)].count

\* The attempts of a delivery have the numbers 1 to count, each of them once.
Numbered(d) ==
    /\ \A c \in Attempts(d) : attempt[c].number \in 1..delivery[d].count
    /\ \A n \in 1..delivery[d].count : \E c \in Attempts(d) : attempt[c].number = n
    /\ \A c, e \in Attempts(d) : attempt[c].number = attempt[e].number => c = e

NumbersOK == \A d \in Calls : Numbered(d)

Serial == LoopHeld /\ SessionsOK /\ NumbersOK /\ SummaryIsLatest

-----------------------------------------------------------------------------
(* The event loop *)

\* Answering gives the loop back, which nobody else held.
LEMMA AnswerHeld ==
    ASSUME Typing, LoopHeld, NEW c \in Calls, NEW code, NEW d, Answer(c, code, d),
           loop[on[c]] \in {c, None}, UNCHANGED on, on[c] \in Workers
    PROVE  LoopHeld'
<1> SUFFICES ASSUME NEW e \in Calls, pc'[e] \in Running PROVE loop'[on'[e]] = e
  BY DEF LoopHeld
<1>1. e # c /\ pc[e] \in Running
  BY DEF Answer, Goto, Typing, TypeOK, Running
<1>2. loop[on[e]] = e /\ on[e] \in Workers
  BY <1>1 DEF LoopHeld, Typing, ControlOK, Running
<1>3. on[e] # on[c]
  BY <1>1, <1>2, NoneIsNoCall
<1> QED
  BY <1>2, <1>3 DEF Answer, Typing, TypeOK

LEMMA NextLoopHeld == Typing /\ LoopHeld /\ [Next]_vars => LoopHeld'
<1> SUFFICES ASSUME Typing, LoopHeld, [Next]_vars PROVE LoopHeld'
  OBVIOUS
<1> USE DEF Typing
<1>1. ASSUME NEW c \in Calls, NEW w \in Workers, Receive(c, w) PROVE LoopHeld'
  <2>1. PICK r \in Request, label \in {"insert", "validate", "load"} :
          Accept(c, w, r, label)
    BY <1>1, ReceiveAccepts
  <2> SUFFICES ASSUME NEW e \in Calls, pc'[e] \in Running PROVE loop'[on'[e]] = e
    BY DEF LoopHeld
  <2>2. CASE e = c
    BY <2>1, <2>2 DEF Accept, TypeOK
  <2>3. CASE e # c
    <3>1. pc[e] \in Running /\ on'[e] = on[e]
      BY <2>1, <2>3 DEF Accept, Goto, TypeOK
    <3>2. loop[on[e]] = e /\ on[e] \in Workers
      BY <3>1 DEF LoopHeld, ControlOK, Running
    <3>3. on[e] # w
      BY <2>1, <3>2, NoneIsNoCall DEF Accept
    <3> QED
      BY <2>1, <3>1, <3>2, <3>3 DEF Accept, TypeOK
  <2> QED
    BY <2>2, <2>3
\* A step of call c that keeps the loop, or takes it.
<1>2. ASSUME NEW c \in Calls, NEW label, Goto(c, label), loop[on[c]] = c,
             UNCHANGED <<loop, on>>
      PROVE  LoopHeld'
  BY <1>2 DEF Goto, TypeOK, LoopHeld
<1>3. ASSUME NEW c \in Calls, NEW code, NEW d, Answer(c, code, d),
             loop[on[c]] \in {c, None}, UNCHANGED on, pc[c] # "waiting"
      PROVE  LoopHeld'
  BY <1>3, AnswerHeld DEF ControlOK
<1>4. ASSUME NEW c \in Calls, Validate(c) \/ Lookup(c) \/ Relookup(c) \/ Load(c)
      PROVE  LoopHeld'
  <2>1. pc[c] # "waiting" /\ loop[on[c]] = c /\ UNCHANGED on
    BY <1>4 DEF Validate, Lookup, Relookup, Load, At
  <2>2. \/ \E code, d : Answer(c, code, d)
        \/ \E label : Goto(c, label) /\ UNCHANGED loop
    BY <1>4 DEF Validate, Lookup, Relookup, Load, _replay_or_conflict
  <2> QED
    BY <1>2, <1>3, <2>1, <2>2
<1>5. ASSUME NEW c \in Calls, Insert(c) \/ Remember(c) PROVE LoopHeld'
  <2>1. loop[on[c]] = c /\ UNCHANGED <<loop, on>> /\ \E label : Goto(c, label)
    BY <1>5 DEF Insert, Remember, At
  <2> QED
    BY <1>2, <2>1
<1>6. ASSUME NEW c \in Calls, Refuse(c) \/ Respond(c) PROVE LoopHeld'
  <2>1. pc[c] # "waiting" /\ loop[on[c]] = c /\ UNCHANGED on
    BY <1>6 DEF Refuse, Respond, At
  <2>2. \E code, d : Answer(c, code, d)
    BY <1>6 DEF Refuse, Respond
  <2> QED
    BY <1>3, <2>1, <2>2
<1>7. ASSUME NEW c \in Calls, Begin(c) PROVE LoopHeld'
  <2>1. /\ pc[c] = "begin" /\ loop[on[c]] = c /\ UNCHANGED on
        /\ on[c] \in Workers
    BY <1>7 DEF Begin, At, ControlOK
  <2>2. CASE Answer(c, "error", Subject(c))
    BY <1>3, <2>1, <2>2
  <2>3. CASE loop' = [loop EXCEPT ![on[c]] = None] /\ Goto(c, "await")
    <3> SUFFICES ASSUME NEW e \in Calls, pc'[e] \in Running PROVE loop'[on'[e]] = e
      BY DEF LoopHeld
    <3>1. e # c /\ pc[e] \in Running
      BY <2>3 DEF Goto, TypeOK, Running
    <3>2. loop[on[e]] = e /\ on[e] \in Workers
      BY <3>1 DEF LoopHeld, ControlOK, Running
    <3>3. on[e] # on[c]
      BY <2>1, <3>1, <3>2
    <3> QED
      BY <2>1, <2>3, <3>2, <3>3 DEF TypeOK
  <2> QED
    BY <1>7, <2>2, <2>3 DEF Begin
<1>8. ASSUME NEW c \in Calls, Finish(c) PROVE LoopHeld'
  <2>1. /\ loop[on[c]] = None /\ on[c] \in Workers /\ UNCHANGED on
        /\ loop' = [loop EXCEPT ![on[c]] = c] /\ Goto(c, "finished")
    BY <1>8 DEF Finish, ControlOK
  <2> SUFFICES ASSUME NEW e \in Calls, pc'[e] \in Running PROVE loop'[on'[e]] = e
    BY DEF LoopHeld
  <2>2. CASE e = c
    BY <2>1, <2>2 DEF TypeOK
  <2>3. CASE e # c
    <3>1. pc[e] \in Running
      BY <2>1, <2>3 DEF Goto, TypeOK
    <3>2. loop[on[e]] = e /\ on[e] \in Workers
      BY <3>1 DEF LoopHeld, ControlOK, Running
    <3>3. on[e] # on[c]
      BY <2>1, <3>2, NoneIsNoCall
    <3> QED
      BY <2>1, <3>2, <3>3 DEF TypeOK
  <2> QED
    BY <2>2, <2>3
<1>9. ASSUME NEW c \in Calls, StoreError(c) PROVE LoopHeld'
  <2>1. pc[c] # "waiting" /\ loop[on[c]] \in {c, None} /\ UNCHANGED on
    BY <1>9 DEF StoreError, At
  <2>2. Answer(c, "error", None)
    BY <1>9 DEF StoreError
  <2> QED
    BY <1>3, <2>1, <2>2
<1>10. ASSUME NEW w \in Workers, Crash(w) PROVE LoopHeld'
  <2> SUFFICES ASSUME NEW e \in Calls, pc'[e] \in Running PROVE loop'[on'[e]] = e
    BY DEF LoopHeld
  <2>1. pc[e] \in Running /\ on[e] # w /\ on'[e] = on[e]
    BY <1>10 DEF Crash, Active, TypeOK, Running
  <2>2. loop[on[e]] = e /\ on[e] \in Workers
    BY <2>1 DEF LoopHeld, ControlOK, Running
  <2> QED
    BY <1>10, <2>1, <2>2 DEF Crash, TypeOK
<1>11. ASSUME NEW c \in Calls, Transmit(c) PROVE LoopHeld'
  BY <1>11 DEF Transmit, LoopHeld
<1>12. CASE UNCHANGED vars \/ Terminated
  BY <1>12 DEF vars, Terminated, LoopHeld
<1> QED
  BY <1>1, <1>4, <1>5, <1>6, <1>7, <1>8, <1>9, <1>10, <1>11, <1>12 DEF Next, Step

\* With one worker, the handler that holds the loop runs alone.
LEMMA RunsAlone ==
    ASSUME OneWorker, Typing, LoopHeld, NEW c \in Calls, pc[c] \in Running,
           NEW e \in Calls, pc[e] # "waiting", loop[on[e]] \in {e, None}
    PROVE  e = c
<1>1. loop[on[c]] = c /\ on[c] \in Workers /\ on[e] \in Workers
  BY DEF LoopHeld, Typing, ControlOK, Running
<1>2. on[c] = on[e]
  BY <1>1 DEF OneWorker
<1> QED
  BY <1>1, <1>2, NoneIsNoCall

-----------------------------------------------------------------------------
(* Steps of one call *)

LEMMA TableEffect ==
    ASSUME Typing, [Next]_vars
    PROVE  \/ UNCHANGED <<delivery, attempt>>
           \/ \E c \in Calls : Insert(c) \/ Begin(c) \/ Finish(c)
<1>1. CASE QuietStep
  BY <1>1, QuietEffect, QuietRows
<1>2. ASSUME NEW c \in Calls, Transmit(c) PROVE UNCHANGED <<delivery, attempt>>
  BY <1>2 DEF Transmit, tables
<1> QED
  BY <1>1, <1>2 DEF Next, Step, QuietStep, Terminated

\* How a call comes to the points at which it holds a snapshot of its delivery.
Stays(c) == pc'[c] = pc[c] /\ view'[c] = view[c] /\ req'[c] = req[c]

LEMMA SessionEffect ==
    ASSUME Typing, [Next]_vars, NEW c \in Calls, pc'[c] \in {"inserted", "begin", "await"}
    PROVE  Stays(c) \/ Insert(c) \/ Remember(c) \/ Load(c) \/ Begin(c)
<1> DEFINE Goes == pc'[c] \in {"inserted", "begin", "await"}
           Effect == Goes => \/ Stays(c)
                             \/ Insert(c) \/ Remember(c) \/ Load(c) \/ Begin(c)
<1> USE DEF Typing
<1>1. ASSUME NEW e \in Calls, NEW w \in Workers, Receive(e, w) PROVE Effect
  <2>1. PICK r \in Request, label \in {"insert", "validate", "load"} :
          Accept(e, w, r, label)
    BY <1>1, ReceiveAccepts
  <2> QED
    BY <2>1 DEF Accept, Goto, Stays, TypeOK
<1>2. ASSUME NEW e \in Calls, Validate(e) \/ Lookup(e) \/ Relookup(e) PROVE Effect
  BY <1>2 DEF Validate, Lookup, Relookup, _replay_or_conflict, Answer, Goto, Stays, TypeOK
<1>3. ASSUME NEW e \in Calls, Insert(e), e # c PROVE Effect
  BY <1>3 DEF Insert, Goto, Stays, TypeOK
<1>4. ASSUME NEW e \in Calls, Remember(e) \/ Load(e), e # c PROVE Effect
  BY <1>4 DEF Remember, Load, Answer, Goto, Stays, TypeOK
<1>5. ASSUME NEW e \in Calls, Begin(e), e # c PROVE Effect
  BY <1>5 DEF Begin, RecordAttempt, Answer, Goto, Stays, TypeOK
<1>6. ASSUME NEW e \in Calls, Finish(e) \/ Transmit(e) PROVE Effect
  BY <1>6 DEF Finish, Transmit, Goto, Stays, TypeOK
<1>7. ASSUME NEW e \in Calls, Refuse(e) \/ Respond(e) \/ StoreError(e) PROVE Effect
  BY <1>7 DEF Refuse, Respond, StoreError, Answer, Goto, Stays, TypeOK
<1>8. ASSUME NEW w \in Workers, Crash(w) PROVE Effect
  BY <1>8 DEF Crash, Stays, TypeOK
<1>9. ASSUME UNCHANGED vars \/ Terminated PROVE Effect
  BY <1>9 DEF vars, Terminated, Stays
<1> QED
  BY <1>1, <1>2, <1>3, <1>4, <1>5, <1>6, <1>7, <1>8, <1>9 DEF Next, Step

\* The three steps that write the tables, as they do when the session's snapshot
\* is what the tables hold.
LEMMA InsertWrites ==
    ASSUME Typing, Evidence, RowsOK, NEW c \in Calls, Insert(c)
    PROVE  \/ UNCHANGED <<delivery, attempt>> /\ pc'[c] # "inserted"
           \/ /\ ~Stored(c) /\ Attempts(c) = {}
              /\ delivery'[c].status = "pending" /\ delivery'[c].count = 0
              /\ view'[c] = Columns(delivery'[c])
              /\ \A d \in Calls \ {c} : delivery'[d] = delivery[d]
              /\ UNCHANGED attempt
<1>1. ~Stored(c)
  BY DEF RowsOK, Insert, At
<1>2. Attempts(c) = {}
  BY <1>1 DEF Attempts, Evidence, AwaitOK
<1>3. CASE Goto(c, "relookup") /\ UNCHANGED <<view, delivery>>
  BY <1>3 DEF Insert, Goto, Typing, TypeOK
<1>4. CASE ~(Goto(c, "relookup") /\ UNCHANGED <<view, delivery>>)
  BY <1>1, <1>2, <1>4 DEF Insert, Columns, Typing, TypeOK
<1> QED
  BY <1>3, <1>4

LEMMA BeginWrites ==
    ASSUME Typing, Evidence, SessionsOK, NEW c \in Calls, Begin(c)
    PROVE  /\ Subject(c) \in Calls /\ Stored(Subject(c)) /\ ~Recorded(c) /\ pc[c] = "begin"
           /\ attempt'[c].status = "pending" /\ attempt'[c].delivery = Subject(c)
           /\ attempt'[c].number = delivery[Subject(c)].count + 1
           /\ delivery'[Subject(c)].status = "pending"
           /\ delivery'[Subject(c)].count = delivery[Subject(c)].count + 1
           /\ view'[c] = Columns(delivery'[Subject(c)])
           /\ \A x \in Calls \ {c} : attempt'[x] = attempt[x]
           /\ \A x \in Calls \ {Subject(c)} : delivery'[x] = delivery[x]
<1>0. PICK d : d = Subject(c)
  OBVIOUS
<1>1. d \in Calls /\ Stored(d) /\ pc[c] = "begin" /\ view[c] \in View
  BY <1>0, SubjectType DEF Begin, At, Typing, ControlOK
<1>2. view[c] = Columns(delivery[d])
  BY <1>0, <1>1 DEF SessionsOK
<1>3. view[c].status = delivery[d].status /\ view[c].count = delivery[d].count
  BY <1>2 DEF Columns
<1>4. ~Recorded(c)
  BY <1>1 DEF Evidence, AwaitOK
<1>5. /\ attempt' = [attempt EXCEPT ![c] =
              [status |-> "pending", delivery |-> d, number |-> NextNumber(c),
               http |-> "none", error |-> "none"]]
      /\ delivery' = [delivery EXCEPT
              ![d].status = Flush(view[c].status, "pending", @),
              ![d].count = NextNumber(c)]
      /\ view' = [view EXCEPT ![c].status = "pending", ![c].count = NextNumber(c)]
  BY <1>0 DEF Begin, RecordAttempt
<1>6. NextNumber(c) = delivery[d].count + 1
  BY <1>3 DEF NextNumber
<1>7. /\ delivery'[d].status = "pending"
      /\ delivery'[d].count = delivery[d].count + 1
      /\ delivery'[d].http = delivery[d].http
      /\ delivery'[d].error = delivery[d].error
  BY <1>1, <1>3, <1>5, <1>6 DEF Flush, Typing, TypeOK, CallbackDelivery
<1>8. view'[c] = Columns(delivery'[d])
  <2>1. view'[c] = [status |-> "pending", count |-> NextNumber(c),
                    http |-> view[c].http, error |-> view[c].error]
    BY <1>1, <1>5 DEF Typing, TypeOK, View
  <2>2. view[c].http = delivery[d].http /\ view[c].error = delivery[d].error
    BY <1>2 DEF Columns
  <2> QED
    BY <1>6, <1>7, <2>1, <2>2 DEF Columns
<1> QED
  BY <1>0, <1>1, <1>4, <1>5, <1>6, <1>7, <1>8 DEF Typing, TypeOK

LEMMA FinishWrites ==
    ASSUME Typing, Evidence, SessionsOK, NEW c \in Calls, Finish(c)
    PROVE  \E o \in Outcome :
               /\ Subject(c) \in Calls /\ Stored(Subject(c)) /\ pc[c] = "await"
               /\ c \in Attempts(Subject(c))
               /\ delivery[Subject(c)].status = "pending"
               /\ attempt[c].number = delivery[Subject(c)].count
               /\ attempt'[c].delivery = attempt[c].delivery
               /\ attempt'[c].number = attempt[c].number
               /\ attempt'[c].status = o.status /\ attempt'[c].http = o.http
               /\ attempt'[c].error = o.error
               /\ delivery'[Subject(c)].count = delivery[Subject(c)].count
               /\ delivery'[Subject(c)].status = o.status
               /\ delivery'[Subject(c)].http = o.http
               /\ delivery'[Subject(c)].error = o.error
               /\ \A x \in Calls \ {c} : attempt'[x] = attempt[x]
               /\ \A x \in Calls \ {Subject(c)} : delivery'[x] = delivery[x]
<1>0. PICK d : d = Subject(c)
  OBVIOUS
<1>1. /\ d \in Calls /\ Stored(d) /\ pc[c] = "await" /\ view[c] \in View
      /\ c \in Attempts(d)
  BY <1>0, SubjectType DEF Finish, Typing, ControlOK, Evidence, AwaitOK, Attempts
<1>2. /\ view[c] = Columns(delivery[d]) /\ delivery[d].status = "pending"
      /\ attempt[c].number = delivery[d].count
  BY <1>0, <1>1 DEF SessionsOK
<1>3. /\ view[c].status = delivery[d].status /\ view[c].http = delivery[d].http
      /\ view[c].error = delivery[d].error
  BY <1>2 DEF Columns
<1>4. PICK o \in Outcome :
        /\ attempt' = [attempt EXCEPT ![c].status = o.status,
                                      ![c].http = o.http, ![c].error = o.error]
        /\ delivery' = [delivery EXCEPT
               ![d].status = Flush(view[c].status, o.status, @),
               ![d].http = Flush(view[c].http, o.http, @),
               ![d].error = Flush(view[c].error, o.error, @),
               ![d].stamped = @ \/ o.status = "delivered"]
  BY <1>0 DEF Finish, RecordOutcome
<1>5. /\ attempt'[c].delivery = attempt[c].delivery
      /\ attempt'[c].number = attempt[c].number
      /\ attempt'[c].status = o.status /\ attempt'[c].http = o.http
      /\ attempt'[c].error = o.error
  BY <1>4 DEF Typing, TypeOK, DeliveryAttempt
<1>6. /\ delivery'[d].count = delivery[d].count
      /\ delivery'[d].status = o.status
      /\ delivery'[d].http = o.http /\ delivery'[d].error = o.error
  BY <1>1, <1>3, <1>4 DEF Flush, Typing, TypeOK, CallbackDelivery
<1> QED
  BY <1>0, <1>1, <1>2, <1>4, <1>5, <1>6 DEF Typing, TypeOK

-----------------------------------------------------------------------------
(* Sessions stay fresh *)

\* While a call awaits the partner, no other call is about to send its delivery.
LEMMA AwaitAlone ==
    ASSUME Typing, Evidence, SessionsOK, NumbersOK, NEW c \in Calls, NEW e \in Calls,
           pc[e] = "await", Subject(e) = Subject(c), pc[c] \in {"begin", "await"}
    PROVE  c = e
<1> DEFINE d == Subject(c)
<1>1. d \in Calls /\ req[c] \in Request
  BY SubjectType DEF Typing, ControlOK
<1>2. e \in Attempts(d) /\ attempt[e].number \in 1..delivery[d].count
  BY <1>1 DEF Evidence, AwaitOK, Attempts, NumbersOK, Numbered
<1>3. delivery[d].status = "pending" /\ attempt[e].number = delivery[d].count
  BY DEF SessionsOK
<1>4. CASE pc[c] = "await"
  <2>1. c \in Attempts(d) /\ attempt[c].number = delivery[d].count
    BY <1>4 DEF Evidence, AwaitOK, Attempts, SessionsOK
  <2> QED
    BY <1>1, <1>2, <1>3, <2>1 DEF NumbersOK, Numbered
<1>5. CASE pc[c] = "begin"
  <2>1. CASE req[c].kind = "create"
    <3>1. d = c /\ delivery[d].count = 0
      BY <1>5, <2>1 DEF SessionsOK, Subject
    <3> QED
      BY <1>2, <3>1
  <2>2. CASE req[c].kind = "retry"
    BY <1>3, <1>5, <2>2 DEF SessionsOK
  <2> QED
    BY <1>1, <2>1, <2>2 DEF Request
<1> QED
  BY <1>4, <1>5

LEMMA NextSessions ==
    ASSUME OneWorker, Typing, Evidence, RowsOK, LoopHeld, SessionsOK, NumbersOK, [Next]_vars
    PROVE  SessionsOK'
<1> DEFINE Fresh(c) ==
        /\ pc[c] \in {"inserted", "begin", "await"} => view[c] = Columns(delivery[Subject(c)])
        /\ pc[c] \in {"inserted", "begin"} /\ req[c].kind = "create"
              => delivery[c].status = "pending" /\ delivery[c].count = 0
        /\ pc[c] = "begin" /\ req[c].kind = "retry"
              => delivery[Subject(c)].status = "failed"
        /\ pc[c] = "await" => /\ delivery[Subject(c)].status = "pending"
                              /\ attempt[c].number = delivery[Subject(c)].count
<1> SUFFICES ASSUME NEW c \in Calls, pc'[c] \in {"inserted", "begin", "await"}
             PROVE  Fresh(c)'
  BY DEF SessionsOK
<1>1. CASE Insert(c)
  <2>1. /\ req[c].kind = "create" /\ UNCHANGED req
        /\ pc'[c] \in {"inserted", "relookup"}
    BY <1>1 DEF Insert, At, Goto, Typing, TypeOK, ControlOK
  <2>2. /\ delivery'[c].status = "pending" /\ delivery'[c].count = 0
        /\ view'[c] = Columns(delivery'[c])
    BY <1>1, <2>1, InsertWrites
  <2>3. Subject(c)' = c
    BY <2>1 DEF Subject
  <2> QED
    BY <2>1, <2>2, <2>3
<1>2. CASE Remember(c)
  <2>1. /\ pc[c] = "inserted" /\ pc'[c] = "begin" /\ req[c].kind = "create"
        /\ UNCHANGED <<req, view, delivery, attempt>>
    BY <1>2 DEF Remember, At, Goto, tables, Typing, TypeOK, ControlOK
  <2>2. /\ view[c] = Columns(delivery[Subject(c)])
        /\ delivery[c].status = "pending" /\ delivery[c].count = 0
    BY <2>1 DEF SessionsOK
  <2>3. Subject(c)' = Subject(c)
    BY <2>1 DEF Subject
  <2> QED
    BY <2>1, <2>2, <2>3
<1>3. CASE Load(c)
  <2> DEFINE d == req[c].target
  <2>1. /\ req[c].kind = "retry" /\ UNCHANGED <<req, delivery, attempt>>
        /\ Subject(c) = d /\ d \in Calls
    BY <1>3, SubjectType DEF Load, At, tables, Typing, ControlOK, Subject
  <2>2. delivery[d].status = "failed" /\ view'[c] = Snapshot(d) /\ pc'[c] = "begin"
    BY <1>3 DEF Load, RetryAllowed, Answer, Goto, Typing, TypeOK
  <2>3. view'[c] = Columns(delivery[d])
    BY <2>2 DEF Snapshot, Columns
  <2>4. Subject(c)' = d
    BY <2>1 DEF Subject
  <2> QED
    BY <2>1, <2>2, <2>3, <2>4
<1>4. CASE Begin(c)
  <2> DEFINE d == Subject(c)
  <2>1. /\ delivery'[d].status = "pending" /\ delivery'[d].count = delivery[d].count + 1
        /\ attempt'[c].number = delivery[d].count + 1
        /\ view'[c] = Columns(delivery'[Subject(c)])
    BY <1>4, BeginWrites
  <2>2. pc'[c] = "await" /\ UNCHANGED req
    BY <1>4 DEF Begin, Answer, Goto, Typing, TypeOK
  <2>3. Subject(c)' = Subject(c)
    BY <2>2 DEF Subject
  <2> QED
    BY <2>1, <2>2, <2>3
<1>5. CASE Stays(c)
  <2>1. /\ req[c] \in Request /\ Subject(c) \in Calls /\ Stored(Subject(c))
        /\ pc[c] \in {"inserted", "begin", "await"} /\ pc[c] # "waiting"
    BY <1>5, SubjectType DEF Stays, Typing, ControlOK
  <2>2. /\ delivery'[c] = delivery[c] \/ ~(req[c].kind = "create")
        /\ delivery'[Subject(c)] = delivery[Subject(c)]
        /\ attempt'[c] = attempt[c]
    <3>1. ASSUME NEW e \in Calls, Insert(e)
          PROVE  delivery'[Subject(c)] = delivery[Subject(c)] /\ attempt'[c] = attempt[c]
      <4>1. Subject(c) # e \/ UNCHANGED <<delivery, attempt>>
        BY <2>1, <3>1, InsertWrites
      <4> QED
        BY <2>1, <3>1, <4>1, InsertWrites
    <3>2. ASSUME NEW e \in Calls, Begin(e)
          PROVE  delivery'[Subject(c)] = delivery[Subject(c)] /\ attempt'[c] = attempt[c]
      <4>1. e # c
        BY <1>5, <3>2 DEF Begin, Answer, Goto, At, Stays, Typing, TypeOK
      <4>2. pc[e] = "begin" /\ loop[on[e]] = e
        BY <3>2 DEF Begin, At
      <4>3. pc[c] = "await"
        BY <2>1, <4>1, <4>2, RunsAlone DEF Running
      <4>4. Subject(c) # Subject(e)
        BY <4>1, <4>2, <4>3, AwaitAlone
      <4> QED
        BY <2>1, <3>2, <4>1, <4>4, BeginWrites
    <3>3. ASSUME NEW e \in Calls, Finish(e)
          PROVE  delivery'[Subject(c)] = delivery[Subject(c)] /\ attempt'[c] = attempt[c]
      <4>1. e # c
        BY <1>5, <3>3 DEF Finish, Goto, Stays, Typing, TypeOK
      <4>2. pc[e] = "await" /\ loop[on[e]] = None
        BY <3>3 DEF Finish
      <4>3. pc[c] = "await"
        BY <2>1, <4>1, <4>2, RunsAlone DEF Running
      <4>4. Subject(c) # Subject(e)
        BY <4>1, <4>2, <4>3, AwaitAlone
      <4>5. /\ \A x \in Calls \ {e} : attempt'[x] = attempt[x]
            /\ \A x \in Calls \ {Subject(e)} : delivery'[x] = delivery[x]
        BY <3>3, FinishWrites
      <4> QED
        BY <2>1, <4>1, <4>4, <4>5
    <3> QED
      BY <3>1, <3>2, <3>3, TableEffect DEF Subject
  <2>3. Subject(c)' = Subject(c)
    BY <1>5 DEF Stays, Subject
  <2> QED
    BY <1>5, <2>1, <2>2, <2>3 DEF SessionsOK, Stays
<1> QED
  BY <1>1, <1>2, <1>3, <1>4, <1>5, SessionEffect

-----------------------------------------------------------------------------
(* Numbers without gap or repetition *)

\* What the attempts of delivery d are, after a step.
SameAttempts(d) ==
    \A c \in Calls : \/ attempt'[c] = attempt[c]
                     \/ c \notin Attempts(d) /\ c \notin Attempts(d)'

\* The attempts of a delivery no step is about keep what they say.
LEMMA OthersKept ==
    ASSUME Typing, Evidence, RowsOK, SessionsOK, [Next]_vars, NEW d \in Calls
    PROVE  \/ /\ SameAttempts(d)
              /\ delivery'[d] = delivery[d]
           \/ /\ Insert(d) /\ Attempts(d) = {} /\ UNCHANGED attempt
              /\ delivery'[d].count = 0 /\ delivery'[d].status = "pending"
           \/ \E c \in Calls : (Begin(c) \/ Finish(c)) /\ Subject(c) = d
<1>1. CASE UNCHANGED <<delivery, attempt>>
  BY <1>1 DEF SameAttempts
<1>2. ASSUME NEW c \in Calls, Insert(c)
      PROVE  \/ SameAttempts(d) /\ delivery'[d] = delivery[d]
             \/ /\ c = d /\ Attempts(d) = {} /\ UNCHANGED attempt
                /\ delivery'[d].count = 0 /\ delivery'[d].status = "pending"
  BY <1>2, InsertWrites DEF SameAttempts
<1>3. ASSUME NEW c \in Calls, Begin(c), Subject(c) # d
      PROVE  SameAttempts(d) /\ delivery'[d] = delivery[d]
  <2>1. /\ ~Recorded(c) /\ attempt'[c].delivery = Subject(c)
        /\ \A x \in Calls \ {c} : attempt'[x] = attempt[x]
        /\ \A x \in Calls \ {Subject(c)} : delivery'[x] = delivery[x]
    BY <1>3, BeginWrites
  <2> QED
    BY <1>3, <2>1 DEF SameAttempts, Attempts
<1>4. ASSUME NEW c \in Calls, Finish(c), Subject(c) # d
      PROVE  SameAttempts(d) /\ delivery'[d] = delivery[d]
  <2>1. /\ c \in Attempts(Subject(c)) /\ attempt'[c].delivery = attempt[c].delivery
        /\ \A x \in Calls \ {c} : attempt'[x] = attempt[x]
        /\ \A x \in Calls \ {Subject(c)} : delivery'[x] = delivery[x]
    BY <1>4, FinishWrites
  <2> QED
    BY <1>4, <2>1 DEF SameAttempts, Attempts
<1> QED
  BY <1>1, <1>2, <1>3, <1>4, TableEffect

\* A commit before the call adds one attempt, with the next number.
LEMMA BeginAdds ==
    ASSUME Typing, Evidence, SessionsOK, NEW c \in Calls, Begin(c)
    PROVE  /\ Attempts(Subject(c))' = Attempts(Subject(c)) \cup {c}
           /\ c \notin Attempts(Subject(c))
<1> DEFINE d == Subject(c)
<1>1. Attempts(Subject(c))' = {x \in Calls : Recorded(x)' /\ attempt'[x].delivery = Subject(c)}
  BY DEF Attempts, Begin, Subject
<1>2. /\ ~Recorded(c) /\ attempt'[c].status = "pending" /\ attempt'[c].delivery = Subject(c)
      /\ \A x \in Calls \ {c} : attempt'[x] = attempt[x]
  BY BeginWrites
<1> QED
  BY <1>1, <1>2 DEF Attempts, Recorded

LEMMA FinishKeeps ==
    ASSUME Typing, Evidence, SessionsOK, NEW c \in Calls, Finish(c)
    PROVE  Attempts(Subject(c))' = Attempts(Subject(c))
<1>1. Attempts(Subject(c))' = {x \in Calls : Recorded(x)' /\ attempt'[x].delivery = Subject(c)}
  BY DEF Attempts, Finish, Subject
<1>2. /\ c \in Attempts(Subject(c)) /\ attempt'[c].delivery = attempt[c].delivery
      /\ attempt'[c].status # "absent"
      /\ \A x \in Calls \ {c} : attempt'[x] = attempt[x]
  BY FinishWrites DEF Outcome
<1> QED
  BY <1>1, <1>2 DEF Attempts, Recorded

LEMMA NextNumbers ==
    ASSUME Typing, Evidence, RowsOK, SessionsOK, NumbersOK, [Next]_vars
    PROVE  NumbersOK'
<1> SUFFICES ASSUME NEW d \in Calls PROVE Numbered(d)'
  BY DEF NumbersOK
<1>1. Numbered(d) /\ delivery[d].count \in Nat
  BY DEF NumbersOK, Typing, TypeOK, CallbackDelivery
<1>2. CASE SameAttempts(d) /\ delivery'[d] = delivery[d]
  <2>1. \A c \in Calls : c \in Attempts(d)' <=> c \in Attempts(d)
    BY <1>2 DEF SameAttempts, Attempts, Recorded
  <2>2. \A c \in Attempts(d) : attempt'[c] = attempt[c]
    BY <1>2 DEF SameAttempts, Attempts
  <2>3. Attempts(d)' = Attempts(d)
    BY <2>1 DEF Attempts
  <2> QED
    BY <1>1, <1>2, <2>2, <2>3 DEF Numbered
<1>3. CASE Attempts(d) = {} /\ UNCHANGED attempt /\ delivery'[d].count = 0
  <2>1. Attempts(d)' = {}
    BY <1>3 DEF Attempts, Recorded
  <2> QED
    BY <1>3, <2>1 DEF Numbered
<1>4. ASSUME NEW c \in Calls, Begin(c), Subject(c) = d PROVE Numbered(d)'
  <2>1. c \notin Attempts(d) /\ Attempts(d)' = Attempts(d) \cup {c}
    <3>1. Attempts(Subject(c))' = Attempts(d)'
      BY <1>4 DEF Begin, Attempts, Subject
    <3> QED
      BY <1>4, <3>1, BeginAdds
  <2>2. /\ attempt'[c].number = delivery[d].count + 1
        /\ delivery'[d].count = delivery[d].count + 1
        /\ \A x \in Calls \ {c} : attempt'[x] = attempt[x]
    BY <1>4, BeginWrites
  <2>3. \A x \in Attempts(d) : attempt'[x] = attempt[x]
    BY <2>1, <2>2 DEF Attempts
  <2>4. \A x \in Attempts(d)' : attempt'[x].number \in 1..delivery'[d].count
    BY <1>1, <2>1, <2>2, <2>3 DEF Numbered
  <2>5. ASSUME NEW n \in 1..delivery'[d].count
        PROVE  \E x \in Attempts(d)' : attempt'[x].number = n
    <3>1. CASE n = delivery[d].count + 1
      BY <2>1, <2>2, <3>1
    <3>2. CASE n # delivery[d].count + 1
      <4>1. n \in 1..delivery[d].count
        BY <1>1, <2>2, <3>2
      <4> QED
        BY <1>1, <2>1, <2>3, <4>1 DEF Numbered
    <3> QED
      BY <3>1, <3>2
  <2>6. ASSUME NEW x \in Attempts(d)', NEW y \in Attempts(d)',
               attempt'[x].number = attempt'[y].number
        PROVE  x = y
    <3>1. \A z \in Attempts(d) : attempt'[z].number \in 1..delivery[d].count
      BY <1>1, <2>3 DEF Numbered
    <3>2. CASE x = c \/ y = c
      BY <1>1, <2>1, <2>2, <2>6, <3>1, <3>2
    <3>3. CASE x # c /\ y # c
      BY <1>1, <2>1, <2>3, <2>6, <3>3 DEF Numbered
    <3> QED
      BY <3>2, <3>3
  <2> QED
    BY <2>4, <2>5, <2>6 DEF Numbered
<1>5. ASSUME NEW c \in Calls, Finish(c), Subject(c) = d PROVE Numbered(d)'
  <2>1. Attempts(d)' = Attempts(d)
    <3>1. Attempts(Subject(c))' = Attempts(d)'
      BY <1>5 DEF Finish, Attempts, Subject
    <3> QED
      BY <1>5, <3>1, FinishKeeps
  <2>2. /\ attempt'[c].number = attempt[c].number
        /\ delivery'[d].count = delivery[d].count
        /\ \A x \in Calls \ {c} : attempt'[x] = attempt[x]
    BY <1>5, FinishWrites
  <2>3. \A x \in Attempts(d) : attempt'[x].number = attempt[x].number
    BY <2>2 DEF Attempts
  <2> QED
    BY <1>1, <2>1, <2>2, <2>3 DEF Numbered
<1> QED
  BY <1>2, <1>3, <1>4, <1>5, OthersKept

-----------------------------------------------------------------------------
(* The row shows the latest attempt *)

LEMMA NextSummary ==
    ASSUME Typing, Evidence, RowsOK, SessionsOK, SummaryIsLatest, [Next]_vars
    PROVE  SummaryIsLatest'
<1> SUFFICES ASSUME NEW d \in Calls, delivery'[d].status \in {"delivered", "failed"}
             PROVE  \E c \in Attempts(d)' :
                        /\ attempt'[c].number = delivery'[d].count
                        /\ attempt'[c].status = delivery'[d].status
                        /\ attempt'[c].http = delivery'[d].http
                        /\ attempt'[c].error = delivery'[d].error
  BY DEF SummaryIsLatest
<1>1. CASE SameAttempts(d) /\ delivery'[d] = delivery[d]
  <2>1. PICK c \in Attempts(d) :
          /\ attempt[c].number = delivery[d].count
          /\ attempt[c].status = delivery[d].status
          /\ attempt[c].http = delivery[d].http
          /\ attempt[c].error = delivery[d].error
    BY <1>1 DEF SummaryIsLatest
  <2>2. attempt'[c] = attempt[c] /\ c \in Attempts(d)'
    BY <1>1 DEF SameAttempts, Attempts, Recorded
  <2> QED
    BY <1>1, <2>1, <2>2
<1>2. ASSUME NEW c \in Calls, Begin(c), Subject(c) = d PROVE FALSE
  BY <1>2, BeginWrites
<1>3. ASSUME NEW c \in Calls, Finish(c), Subject(c) = d
      PROVE  \E x \in Attempts(d)' :
                 /\ attempt'[x].number = delivery'[d].count
                 /\ attempt'[x].status = delivery'[d].status
                 /\ attempt'[x].http = delivery'[d].http
                 /\ attempt'[x].error = delivery'[d].error
  <2>1. PICK o \in Outcome :
          /\ c \in Attempts(d) /\ attempt[c].number = delivery[d].count
          /\ attempt'[c].delivery = attempt[c].delivery
          /\ attempt'[c].number = attempt[c].number
          /\ attempt'[c].status = o.status /\ attempt'[c].http = o.http
          /\ attempt'[c].error = o.error
          /\ delivery'[d].count = delivery[d].count
          /\ delivery'[d].status = o.status
          /\ delivery'[d].http = o.http
          /\ delivery'[d].error = o.error
    BY <1>3, FinishWrites
  <2>2. o.status # "absent"
    BY DEF Outcome
  <2>3. c \in Attempts(d)'
    BY <2>1, <2>2 DEF Attempts, Recorded
  <2> QED
    BY <2>1, <2>3
<1> QED
  BY <1>1, <1>2, <1>3, OthersKept

-----------------------------------------------------------------------------
(* The promises of one worker *)

Invariant == Typing /\ Evidence /\ Creation /\ Serial

LEMMA InitInvariant == Init => Invariant
<1> SUFFICES ASSUME Init PROVE Invariant
  OBVIOUS
<1>1. \A d \in Calls : Attempts(d) = {} /\ delivery[d].count = 0
                       /\ delivery[d].status = "absent"
  BY DEF Init, Attempts, Recorded
<1>2. NumbersOK /\ SummaryIsLatest
  BY <1>1 DEF NumbersOK, Numbered, SummaryIsLatest
<1>3. LoopHeld /\ SessionsOK
  BY DEF Init, LoopHeld, SessionsOK, Running
<1> QED
  BY <1>2, <1>3, InitTyping, InitEvidence, InitCreation DEF Invariant, Serial

LEMMA NextInvariant ==
    ASSUME OneWorker
    PROVE  Invariant /\ [Next]_vars => Invariant'
<1>1. Typing /\ Evidence /\ Creation /\ [Next]_vars => Typing' /\ Evidence' /\ Creation'
  BY NextTyping, NextEvidence, NextCreation
<1> QED
  BY <1>1, NextLoopHeld, NextSessions, NextNumbers, NextSummary
     DEF Invariant, Serial, Creation

\* A set whose members are numbered 1 to n, each number once, has n members.
LEMMA NumberedSet ==
    ASSUME NEW S, NEW n \in Nat, NEW f \in [S -> 1..n],
           \A m \in 1..n : \E x \in S : f[x] = m,
           \A x, y \in S : f[x] = f[y] => x = y
    PROVE  IsFiniteSet(S) /\ Cardinality(S) = n
<1>1. f \in Bijection(S, 1..n)
  BY Fun_IsBij
<1>2. ExistsBijection(1..n, S)
  BY <1>1, Fun_ExistsBij, Fun_ExistsBijSymmetric
<1> QED
  BY <1>2, FS_CountingElements, FS_NatBijection

LEMMA CountIsAttempts ==
    ASSUME Typing, NumbersOK, NEW d \in Calls
    PROVE  /\ {attempt[c].number : c \in Attempts(d)} = 1..delivery[d].count
           /\ IsFiniteSet(Attempts(d))
           /\ Cardinality(Attempts(d)) = delivery[d].count
<1>1. delivery[d].count \in Nat /\ Numbered(d)
  BY DEF Typing, TypeOK, CallbackDelivery, NumbersOK
<1> DEFINE f == [c \in Attempts(d) |-> attempt[c].number]
<1>2. f \in [Attempts(d) -> 1..delivery[d].count]
  BY <1>1 DEF Numbered
<1>3. \A m \in 1..delivery[d].count : \E x \in Attempts(d) : f[x] = m
  BY <1>1 DEF Numbered
<1>4. \A x, y \in Attempts(d) : f[x] = f[y] => x = y
  BY <1>1 DEF Numbered
<1> HIDE DEF f
<1>5. IsFiniteSet(Attempts(d)) /\ Cardinality(Attempts(d)) = delivery[d].count
  BY <1>1, <1>2, <1>3, <1>4, NumberedSet
<1>6. {attempt[c].number : c \in Attempts(d)} = 1..delivery[d].count
  BY <1>1 DEF Numbered
<1> QED
  BY <1>5, <1>6

LEMMA OneInFlight ==
    ASSUME Invariant, NEW d \in Calls
    PROVE  /\ Cardinality(InFlight(d)) <= 1
           /\ InFlight(d) # {} => delivery[d].status = "pending"
<1>1. CASE InFlight(d) = {}
  BY <1>1, FS_EmptySet
<1>2. ASSUME NEW c \in InFlight(d)
      PROVE  Cardinality(InFlight(d)) = 1 /\ delivery[d].status = "pending"
  <2>1. c \in Calls /\ pc[c] = "await" /\ Subject(c) = d
    BY DEF InFlight
  <2>2. \A e \in InFlight(d) : e = c
    BY <2>1, AwaitAlone DEF InFlight, Invariant, Serial
  <2>3. InFlight(d) = {c}
    BY <2>2
  <2>4. Cardinality({c}) = 1
    BY FS_Singleton
  <2> QED
    BY <2>1, <2>3, <2>4 DEF Invariant, Serial, SessionsOK
<1> QED
  BY <1>1, <1>2

\* With one worker a delivery is sent by one call at a time, is pending meanwhile,
\* and has attempts numbered 1 to attempt_count, whatever crashes or fails.
THEOREM AttemptsAreSerial ==
    ASSUME OneWorker
    PROVE  Spec => []SerialAttempts
<1>1. Invariant => SerialAttempts
  BY CountIsAttempts, OneInFlight DEF SerialAttempts, Invariant, Serial
<1>2. Invariant /\ [Next]_vars => Invariant'
  BY NextInvariant
<1> QED
  BY <1>1, <1>2, InitInvariant, PTL DEF Spec

\* With one worker a delivery that is not pending shows its latest attempt.
THEOREM RowShowsLatest ==
    ASSUME OneWorker
    PROVE  Spec => []SummaryIsLatest
<1>1. Invariant => SummaryIsLatest
  BY DEF Invariant, Serial
<1>2. Invariant /\ [Next]_vars => Invariant'
  BY NextInvariant
<1> QED
  BY <1>1, <1>2, InitInvariant, PTL DEF Spec

\* With one worker no number is given twice: two workers break this.
THEOREM NumbersAreNew ==
    ASSUME OneWorker
    PROVE  Spec => []AlwaysNewAttempt
<1>1. Invariant => AlwaysNewAttempt
  <2> SUFFICES ASSUME Invariant, NEW c \in Calls, NEW e \in Calls,
                      Recorded(c), Recorded(e), attempt[c].delivery = attempt[e].delivery,
                      attempt[c].number = attempt[e].number
               PROVE  c = e
    BY DEF AlwaysNewAttempt
  <2> DEFINE d == attempt[c].delivery
  <2>1. d \in Calls
    BY SubjectType DEF Invariant, Evidence, AwaitOK, Typing, ControlOK
  <2>2. c \in Attempts(d) /\ e \in Attempts(d)
    BY DEF Attempts
  <2> QED
    BY <2>1, <2>2 DEF Invariant, Serial, NumbersOK, Numbered
<1>2. Invariant /\ [Next]_vars => Invariant'
  BY NextInvariant
<1> QED
  BY <1>1, <1>2, InitInvariant, PTL DEF Spec

\* A failed attempt has an error, and with one worker its delivery shows it.
FailuresSayWhy == \A c \in Calls : attempt[c].status = "failed" => attempt[c].error # "none"

LEMMA NextFailures ==
    ASSUME Typing, Evidence, SessionsOK, FailuresSayWhy, [Next]_vars
    PROVE  FailuresSayWhy'
<1> SUFFICES ASSUME NEW c \in Calls, attempt'[c].status = "failed"
             PROVE  attempt'[c].error # "none"
  BY DEF FailuresSayWhy
<1>1. CASE attempt'[c] = attempt[c]
  BY <1>1 DEF FailuresSayWhy
<1>2. ASSUME NEW e \in Calls, Begin(e) PROVE attempt'[c] = attempt[c]
  BY <1>2, BeginWrites
<1>3. ASSUME NEW e \in Calls, Finish(e), attempt'[c] # attempt[c]
      PROVE  attempt'[c].error # "none"
  <2>1. PICK o \in Outcome : attempt'[c].status = o.status /\ attempt'[c].error = o.error
    BY <1>3, FinishWrites
  <2> QED
    BY <2>1 DEF Outcome
<1>4. ASSUME NEW e \in Calls, Insert(e) PROVE UNCHANGED attempt
  BY <1>4 DEF Insert
<1> QED
  BY <1>1, <1>2, <1>3, <1>4, TableEffect

\* With one worker no delivery is failed without a reason: two workers break this.
THEOREM FailedHasReason ==
    ASSUME OneWorker
    PROVE  Spec => []FailedSaysWhy
<1>1. Init => FailuresSayWhy
  BY DEF Init, FailuresSayWhy
<1>2. Invariant /\ FailuresSayWhy => FailedSaysWhy
  BY DEF Invariant, Serial, SummaryIsLatest, FailuresSayWhy, FailedSaysWhy, Attempts
<1>3. Invariant /\ FailuresSayWhy /\ [Next]_vars => Invariant' /\ FailuresSayWhy'
  BY NextInvariant, NextFailures DEF Invariant, Serial
<1> QED
  BY <1>1, <1>2, <1>3, InitInvariant, PTL DEF Spec

-----------------------------------------------------------------------------
(* The ledger *)

\* The history of a delivery has the status of each attempt at its number.
HistoryOK ==
    /\ History \in [Calls -> Seq(Status)]
    /\ \A d \in Calls : Len(History[d]) = delivery[d].count
    /\ \A c, d \in Calls :
          attempt[c].status # "absent" /\ attempt[c].delivery = d
              => History[d][attempt[c].number] = attempt[c].status

LEMMA HistoryTells == Invariant => HistoryOK
<1> SUFFICES ASSUME Invariant PROVE HistoryOK
  OBVIOUS
<1>1. ASSUME NEW d \in Calls
      PROVE  /\ History[d] \in Seq(Status) /\ Len(History[d]) = delivery[d].count
             /\ \A c \in Attempts(d) : History[d][attempt[c].number] = attempt[c].status
  <2> DEFINE k == delivery[d].count
             Nth(n) == CHOOSE e \in Attempts(d) : attempt[e].number = n
             h == [n \in 1..k |-> attempt[Nth(n)].status]
  <2>1. k \in Nat /\ Numbered(d)
    BY DEF Invariant, Serial, NumbersOK, Typing, TypeOK, CallbackDelivery
  <2>2. History[d] = h
    BY DEF History
  <2>3. \A n \in 1..k : Nth(n) \in Attempts(d) /\ attempt[Nth(n)].number = n
    BY <2>1 DEF Numbered
  <2>4. \A c \in Attempts(d) : Nth(attempt[c].number) = c
    BY <2>1, <2>3 DEF Numbered
  <2>5. \A c \in Attempts(d) : attempt[c].number \in 1..k /\ attempt[c].status \in Status
    BY <2>1 DEF Numbered, Attempts, Recorded, Invariant, Typing, TypeOK, DeliveryAttempt
  <2> HIDE DEF k, Nth
  <2>6. \A n \in 1..k : attempt[Nth(n)].status \in Status
    BY <2>3, <2>5
  <2>7. h \in Seq(Status) /\ Len(h) = k
    BY <2>1, <2>6
  <2>8. \A c \in Attempts(d) : h[attempt[c].number] = attempt[c].status
    BY <2>4, <2>5
  <2> QED
    BY <2>2, <2>7, <2>8 DEF k
<1>2. History \in [Calls -> Seq(Status)]
  BY <1>1 DEF History
<1> QED
  BY <1>1, <1>2 DEF HistoryOK, Attempts, Recorded

\* A history is what its attempts say.
LEMMA HistoryEqual ==
    ASSUME Invariant, HistoryOK, NEW d \in Calls, NEW h \in Seq(Status),
           Len(h) = delivery[d].count,
           \A c \in Attempts(d) : h[attempt[c].number] = attempt[c].status
    PROVE  h = History[d]
<1>1. ASSUME NEW n \in 1..delivery[d].count PROVE h[n] = History[d][n]
  <2>1. PICK c \in Attempts(d) : attempt[c].number = n
    BY DEF Invariant, Serial, NumbersOK, Numbered
  <2> QED
    BY <2>1 DEF HistoryOK, Attempts, Recorded
<1>2. History[d] \in Seq(Status) /\ Len(History[d]) = delivery[d].count
  BY DEF HistoryOK
<1> QED
  BY <1>1, <1>2, SeqEqual

LEMMA Tells ==
    ASSUME HistoryOK, NEW c \in Calls, NEW d \in Calls,
           attempt[c].status # "absent", attempt[c].delivery = d
    PROVE  History[d][attempt[c].number] = attempt[c].status
BY DEF HistoryOK

\* The same after a step.
LEMMA Told ==
    ASSUME HistoryOK', NEW c \in Calls, NEW d \in Calls,
           attempt'[c].status # "absent", attempt'[c].delivery = d
    PROVE  History'[d][attempt'[c].number] = attempt'[c].status
BY DEF HistoryOK

\* A delivery whose attempts a step keeps, keeps its history.
LEMMA SameHistory ==
    ASSUME Invariant, HistoryOK, HistoryOK', NEW d \in Calls, SameAttempts(d),
           delivery'[d].count = delivery[d].count
    PROVE  History'[d] = History[d]
<1>1. History'[d] \in Seq(Status) /\ Len(History'[d]) = delivery[d].count
  BY DEF HistoryOK
<1>2. ASSUME NEW c \in Attempts(d) PROVE History'[d][attempt[c].number] = attempt[c].status
  <2>1. attempt'[c] = attempt[c] /\ attempt[c].status # "absent" /\ attempt[c].delivery = d
        /\ c \in Calls
    BY DEF SameAttempts, Attempts, Recorded
  <2> QED
    BY <2>1 DEF HistoryOK
<1> QED
  BY <1>1, <1>2, HistoryEqual

\* The row a create call inserts opens the delivery.
LEMMA InsertOpens ==
    ASSUME Invariant, HistoryOK, HistoryOK', NEW c \in Calls, Insert(c), [Next]_vars
    PROVE  UNCHANGED <<Opened, History>> \/ Ledger!Open(c)
<1> USE DEF Invariant, Creation
<1>1. CASE UNCHANGED <<delivery, attempt>>
  BY <1>1 DEF Opened, Stored, History, Attempts, Recorded
<1>2. CASE ~(UNCHANGED <<delivery, attempt>>)
  <2>1. /\ ~Stored(c) /\ Attempts(c) = {}
        /\ delivery'[c].status = "pending" /\ delivery'[c].count = 0
        /\ \A d \in Calls \ {c} : delivery'[d] = delivery[d]
        /\ UNCHANGED attempt
    BY <1>2, InsertWrites
  <2>2. c \notin Opened /\ Opened' = Opened \cup {c}
    BY <2>1 DEF Opened, Stored
  <2>3. ASSUME NEW d \in Calls PROVE History'[d] = History[d]
    <3>1. delivery[c].count = 0
      <4>1. Numbered(c) /\ delivery[c].count \in Nat
        BY DEF Serial, NumbersOK, Typing, TypeOK, CallbackDelivery
      <4> QED
        BY <2>1, <4>1 DEF Numbered
    <3>2. delivery'[d].count = delivery[d].count /\ SameAttempts(d)
      BY <2>1, <3>1 DEF SameAttempts
    <3> QED
      BY <3>2, SameHistory
  <2>4. UNCHANGED History
    BY <2>3 DEF HistoryOK
  <2> QED
    BY <2>2, <2>4 DEF Ledger!Open
<1> QED
  BY <1>1, <1>2

\* No commit but the insert opens a delivery, and none closes one.
LEMMA OpenedStays ==
    ASSUME Typing, [Next]_vars, \A c \in Calls : ~Insert(c)
    PROVE  UNCHANGED Opened
<1>1. \A d \in Calls : Stored(d) <=> Stored(d)'
  BY RowEffect
<1> QED
  BY <1>1 DEF Opened, Stored

\* The commit before the call makes the next attempt.
LEMMA BeginAttempts ==
    ASSUME Invariant, HistoryOK, HistoryOK', NEW c \in Calls, Begin(c), [Next]_vars
    PROVE  Ledger!Attempt(Subject(c))
<1> USE DEF Invariant, Creation, Serial
<1>0. PICK d : d = Subject(c)
  OBVIOUS
<1>1. /\ d \in Calls /\ Stored(d) /\ ~Recorded(c) /\ pc[c] = "begin"
      /\ attempt'[c].status = "pending" /\ attempt'[c].delivery = d
      /\ attempt'[c].number = delivery[d].count + 1
      /\ delivery'[d].count = delivery[d].count + 1
      /\ \A x \in Calls \ {c} : attempt'[x] = attempt[x]
      /\ \A x \in Calls \ {d} : delivery'[x] = delivery[x]
  BY <1>0, BeginWrites
<1>2. /\ req[c].kind \in {"create", "retry"} /\ delivery[d].count \in Nat
      /\ Numbered(d)
  BY <1>1 DEF Typing, TypeOK, ControlOK, CallbackDelivery, Request, NumbersOK
<1>3. /\ History \in [Calls -> Seq(Status)] /\ History' \in [Calls -> Seq(Status)]
      /\ Len(History[d]) = delivery[d].count
      /\ Len(History'[d]) = delivery[d].count + 1
  BY <1>1 DEF HistoryOK
<1>4. d \in Opened /\ UNCHANGED Opened
  <2>1. \A e \in Calls : ~Insert(e)
    <3>1. ASSUME NEW e \in Calls, Insert(e) PROVE FALSE
      BY <1>1, <3>1 DEF Insert, Begin, RecordAttempt, Recorded
    <3> QED
      BY <3>1
  <2> QED
    BY <1>1, <2>1, OpenedStays DEF Opened
<1>5. ASSUME History[d] # << >> PROVE History[d][Len(History[d])] = "failed"
  <2>1. delivery[d].count # 0
    BY <1>1, <1>3, <1>5
  <2>2. delivery[d].status = "failed"
    BY <1>0, <1>1, <1>2, <2>1 DEF SessionsOK, Subject
  <2>3. PICK e \in Attempts(d) :
          attempt[e].number = delivery[d].count /\ attempt[e].status = delivery[d].status
    BY <1>1, <2>2 DEF SummaryIsLatest
  <2> QED
    <3>1. e \in Calls /\ attempt[e].status # "absent" /\ attempt[e].delivery = d
      BY <2>3 DEF Attempts, Recorded
    <3>2. History[d][attempt[e].number] = attempt[e].status
      BY <1>1, <3>1, Tells
    <3> QED
      BY <1>3, <2>2, <2>3, <3>2
<1>6. History'[d] = Append(History[d], "pending")
  <2> DEFINE old == History[d]
             new == History'[d]
  <2>1. /\ old \in Seq(Status) /\ new \in Seq(Status)
        /\ Len(old) = delivery[d].count /\ Len(new) = delivery[d].count + 1
    BY <1>1, <1>3
  <2>2. \A x \in Attempts(d) : /\ attempt'[x] = attempt[x] /\ x \in Calls
                               /\ attempt[x].status # "absent" /\ attempt[x].delivery = d
    BY <1>1 DEF Attempts, Recorded
  <2>3. ASSUME NEW n \in 1..delivery[d].count PROVE new[n] = old[n]
    <3>1. PICK x \in Attempts(d) : attempt[x].number = n
      BY <1>2 DEF Numbered
    <3>2. /\ x \in Calls /\ attempt'[x] = attempt[x]
          /\ attempt[x].status # "absent" /\ attempt[x].delivery = d
      BY <2>2
    <3>3. old[n] = attempt[x].status
      BY <1>1, <3>1, <3>2, Tells
    <3>4. new[attempt'[x].number] = attempt'[x].status
      BY <1>1, <3>2, Told
    <3> QED
      BY <3>1, <3>2, <3>3, <3>4
  <2>4. new[delivery[d].count + 1] = "pending"
    BY <1>1 DEF HistoryOK
  <2> HIDE DEF old, new
  <2> DEFINE grown == Append(old, "pending")
  <2>5. /\ grown \in Seq(Status) /\ Len(grown) = delivery[d].count + 1
        /\ \A n \in 1..(delivery[d].count + 1) :
              grown[n] = IF n = delivery[d].count + 1 THEN "pending" ELSE old[n]
    BY <1>2, <2>1, SMTT(30) DEF Status
  <2> HIDE DEF grown
  <2>6. \A n \in 1..Len(new) : new[n] = grown[n]
    <3> SUFFICES ASSUME NEW n \in 1..(delivery[d].count + 1) PROVE new[n] = grown[n]
      BY <2>1
    <3>1. CASE n = delivery[d].count + 1
      BY <2>4, <2>5, <3>1
    <3>2. CASE n # delivery[d].count + 1
      <4>1. n \in 1..delivery[d].count
        BY <1>2, <3>2
      <4> QED
        BY <2>3, <2>5, <3>2, <4>1
    <3> QED
      BY <3>1, <3>2
  <2>7. new = grown
    BY <2>1, <2>5, <2>6, SeqEqual
  <2> QED
    BY <2>7 DEF old, new, grown
<1>7. ASSUME NEW x \in Calls, x # d PROVE History'[x] = History[x]
  <2>1. SameAttempts(x)
    BY <1>1, <1>7 DEF SameAttempts, Attempts
  <2> QED
    BY <1>1, <1>7, <2>1, SameHistory
<1>8. History' = [History EXCEPT ![d] = Append(@, "pending")]
  BY <1>3, <1>6, <1>7
<1> QED
  BY <1>0, <1>4, <1>5, <1>8 DEF Ledger!Attempt

\* The commit after the call settles the attempt it recorded.
LEMMA FinishSettles ==
    ASSUME Invariant, HistoryOK, HistoryOK', NEW c \in Calls, Finish(c), [Next]_vars
    PROVE  \E outcome \in Ledger!Settled : Ledger!Settle(Subject(c), outcome)
<1> USE DEF Invariant, Creation, Serial
<1>0. PICK d : d = Subject(c)
  OBVIOUS
<1>1. PICK o \in Outcome :
        /\ d \in Calls /\ Stored(d) /\ pc[c] = "await" /\ c \in Attempts(d)
        /\ attempt[c].number = delivery[d].count
        /\ attempt'[c].delivery = attempt[c].delivery
        /\ attempt'[c].number = attempt[c].number
        /\ attempt'[c].status = o.status
        /\ delivery'[d].count = delivery[d].count
        /\ \A x \in Calls \ {c} : attempt'[x] = attempt[x]
        /\ \A x \in Calls \ {d} : delivery'[x] = delivery[x]
  BY <1>0, FinishWrites
<1>2. /\ delivery[d].count \in Nat /\ Numbered(d) /\ attempt[c].status = "pending"
      /\ delivery[d].count \in 1..delivery[d].count
      /\ o.status \in Ledger!Settled /\ o.status \in Status
  BY <1>1 DEF Typing, TypeOK, CallbackDelivery, NumbersOK, Numbered, Evidence, AwaitOK,
     Outcome, Ledger!Settled, Status
<1>3. /\ History \in [Calls -> Seq(Status)] /\ History' \in [Calls -> Seq(Status)]
      /\ Len(History[d]) = delivery[d].count /\ Len(History'[d]) = delivery[d].count
  BY <1>1 DEF HistoryOK
<1>4. UNCHANGED Opened
  <2>1. ASSUME NEW e \in Calls, Insert(e) PROVE FALSE
    <3>1. attempt'[c] = attempt[c]
      BY <2>1 DEF Insert
    <3> QED
      BY <1>1, <1>2, <3>1 DEF Outcome
  <2> QED
    BY <2>1, OpenedStays
<1>5. \A x \in Attempts(d) : /\ x \in Calls /\ attempt[x].delivery = d
                             /\ attempt[x].status # "absent"
                             /\ attempt'[x].delivery = d /\ attempt'[x].status # "absent"
                             /\ attempt'[x].number = attempt[x].number
                             /\ x # c => attempt'[x].status = attempt[x].status
  BY <1>1 DEF Attempts, Recorded, Outcome
<1>6. History[d] # << >> /\ History[d][Len(History[d])] = "pending"
  BY <1>1, <1>2, <1>3, <1>5 DEF HistoryOK
<1>7. History'[d] = [History[d] EXCEPT ![Len(History[d])] = o.status]
  <2> DEFINE old == History[d]
             new == History'[d]
             k == delivery[d].count
  <2>1. old \in Seq(Status) /\ new \in Seq(Status) /\ Len(old) = k /\ Len(new) = k
    BY <1>1, <1>3
  <2>2. new[k] = o.status
    BY <1>1, <1>5 DEF HistoryOK
  <2>3. ASSUME NEW n \in 1..k, n # k PROVE new[n] = old[n]
    <3>1. PICK x \in Attempts(d) : attempt[x].number = n
      BY <1>2 DEF Numbered
    <3>2. x # c
      BY <1>1, <2>3, <3>1
    <3>3. /\ x \in Calls /\ attempt[x].status # "absent" /\ attempt[x].delivery = d
          /\ attempt'[x].status # "absent" /\ attempt'[x].delivery = d
          /\ attempt'[x].number = n /\ attempt'[x].status = attempt[x].status
      BY <1>5, <3>1, <3>2
    <3>4. old[n] = attempt[x].status
      BY <1>1, <3>1, <3>3, Tells
    <3>5. new[n] = attempt'[x].status
      BY <1>1, <3>3, Told
    <3> QED
      BY <3>3, <3>4, <3>5
  <2>4. k \in Nat /\ k \in 1..k
    BY <1>2
  <2> HIDE DEF old, new, k
  <2> DEFINE settled == [old EXCEPT ![k] = o.status]
  <2>5. /\ settled \in Seq(Status) /\ Len(settled) = k
        /\ \A n \in 1..k : settled[n] = IF n = k THEN o.status ELSE old[n]
    BY <1>2, <2>1, <2>4
  <2> HIDE DEF settled
  <2>6. new = settled
    BY <2>1, <2>2, <2>3, <2>5, SeqEqual
  <2> QED
    BY <1>3, <2>6 DEF old, new, k, settled
<1>8. ASSUME NEW x \in Calls, x # d PROVE History'[x] = History[x]
  <2>1. SameAttempts(x)
    BY <1>1, <1>8, <1>5 DEF SameAttempts, Attempts
  <2> QED
    BY <1>1, <1>8, <2>1, SameHistory
<1>9. History' = [History EXCEPT ![d][Len(History[d])] = o.status]
  BY <1>3, <1>7, <1>8
<1> QED
  BY <1>0, <1>2, <1>4, <1>6, <1>9 DEF Ledger!Settle

\* With one worker the tables are a ledger: every delivery is opened once, its
\* attempts follow each other, each only after the one before it failed.
THEOREM TablesAreLedger ==
    ASSUME OneWorker
    PROVE  Spec => ImplementsLedger
<1>1. Init => Ledger!Init
  <2> SUFFICES ASSUME Init PROVE Opened = {} /\ History = [d \in Calls |-> << >>]
    BY DEF Ledger!Init
  <2>1. HistoryOK
    BY InitInvariant, HistoryTells
  <2>2. \A d \in Calls : ~Stored(d) /\ delivery[d].count = 0
    BY DEF Init, Stored
  <2>3. \A d \in Calls : History[d] = << >>
    BY <2>1, <2>2 DEF HistoryOK
  <2> QED
    BY <2>1, <2>2, <2>3 DEF Opened, HistoryOK
<1>2. Invariant /\ [Next]_vars => Invariant'
  BY NextInvariant
<1>3. Invariant /\ HistoryOK /\ HistoryOK' /\ [Next]_vars
          => [Ledger!Next]_<<Opened, History>>
  <2> SUFFICES ASSUME Invariant, HistoryOK, HistoryOK', [Next]_vars
               PROVE  [Ledger!Next]_<<Opened, History>>
    OBVIOUS
  <2>1. CASE UNCHANGED <<delivery, attempt>>
    BY <2>1 DEF Opened, Stored, History, Attempts, Recorded
  <2>2. ASSUME NEW c \in Calls, Insert(c) PROVE [Ledger!Next]_<<Opened, History>>
    BY <2>2, InsertOpens DEF Ledger!Next
  <2>3. ASSUME NEW c \in Calls, Begin(c) \/ Finish(c)
        PROVE  [Ledger!Next]_<<Opened, History>>
    <3>1. Subject(c) \in Calls
      BY <2>3, SubjectType DEF Begin, At, Finish, Invariant, Typing, ControlOK
    <3> QED
      BY <2>3, <3>1, BeginAttempts, FinishSettles DEF Ledger!Next
  <2> QED
    BY <2>1, <2>2, <2>3, TableEffect DEF Invariant
<1> QED
  BY <1>1, <1>2, <1>3, InitInvariant, HistoryTells, PTL
     DEF Spec, ImplementsLedger, Ledger!Spec

=============================================================================
