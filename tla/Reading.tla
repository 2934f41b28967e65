------------------------------ MODULE Reading ------------------------------
(***************************************************************************)
(* What readers see while deliveries are being written: list_deliveries    *)
(* and get_delivery (app/service.py) under the GET handlers of app/api.py  *)
(* and app/web.py.                                                         *)
(*                                                                         *)
(* A SELECT opens no transaction, so the two statements of either query    *)
(* may see different states of the tables. A client lists all deliveries   *)
(* page by page, or opens the page of one delivery. There is one client:   *)
(* readers change nothing, and what one of them sees does not depend on    *)
(* another.                                                                *)
(*                                                                         *)
(* The writer is one worker: attempts of a delivery follow one another and *)
(* the row shows the last of them, which DeliveryService checks.           *)
(***************************************************************************)
EXTENDS Naturals, Sequences, FiniteSets, SequencesExt

CONSTANTS Deliveries,
          None,        \* nothing
          Limit,       \* the limit of the pages that the client asks for
          MaxTime,     \* bound on the clock
          MaxAttempts  \* bound on the attempts of all deliveries

ASSUME LimitAssumption == Limit \in Nat \ {0}
ASSUME ReadingBounds   == MaxTime \in Nat /\ MaxAttempts \in Nat

VARIABLES
    now,         \* the clock, utcnow()
    created_at,  \* delivery -> its time stamp, or None
    updated_at,  \* delivery -> the time of its last change, or None
    rows,        \* the deliveries that are committed
    attempts,    \* delivery -> the statuses of its attempts, by number
    listing,     \* the client that lists
    detail       \* the client that looks at one delivery

tables == <<created_at, updated_at, rows, attempts>>
vars   == <<now, tables, listing, detail>>

Init ==
    /\ now = 0
    /\ created_at = [d \in Deliveries |-> None]
    /\ updated_at = [d \in Deliveries |-> None]
    /\ rows = {}
    /\ attempts = [d \in Deliveries |-> << >>]
    /\ listing = None
    /\ detail = None

-----------------------------------------------------------------------------
(* The writer *)

\* Two deliveries may be created within one tick of the clock.
Tick ==
    /\ now < MaxTime
    /\ now' = now + 1
    /\ UNCHANGED <<tables, listing, detail>>

\* The default of created_at is computed before the INSERT, which may have to
\* wait for another writer.
Stamp(d) ==
    /\ created_at[d] = None
    /\ created_at' = [created_at EXCEPT ![d] = now]
    /\ updated_at' = [updated_at EXCEPT ![d] = now]
    /\ UNCHANGED <<now, rows, attempts, listing, detail>>

Commit(d) ==
    /\ created_at[d] # None /\ d \notin rows
    /\ rows' = rows \cup {d}
    /\ UNCHANGED <<now, created_at, updated_at, attempts, listing, detail>>

\* The bound allows another attempt.
MoreAttempts == SumFunction([e \in Deliveries |-> Len(attempts[e])]) < MaxAttempts

Status(d) == IF attempts[d] = << >> THEN "pending" ELSE Last(attempts[d])

\* A variant that sends again whatever the status.
BeginAnytime(d) ==
    /\ d \in rows /\ MoreAttempts
    /\ attempts' = [attempts EXCEPT ![d] = Append(@, "pending")]
    /\ updated_at' = [updated_at EXCEPT ![d] = now]
    /\ UNCHANGED <<now, created_at, rows, listing, detail>>

\* The two commits of send_attempt.
Begin(d) ==
    /\ d \in rows /\ MoreAttempts
    /\ attempts[d] = << >> \/ Status(d) = "failed"
    /\ attempts' = [attempts EXCEPT ![d] = Append(@, "pending")]
    /\ updated_at' = [updated_at EXCEPT ![d] = now]
    /\ UNCHANGED <<now, created_at, rows, listing, detail>>

Settle(d) ==
    /\ attempts[d] # << >> /\ Status(d) = "pending"
    /\ \E status \in {"delivered", "failed"} :
          attempts' = [attempts EXCEPT ![d][Len(attempts[d])] = status]
    /\ updated_at' = [updated_at EXCEPT ![d] = now]
    /\ UNCHANGED <<now, created_at, rows, listing, detail>>

-----------------------------------------------------------------------------
(* GET /api/deliveries?limit=&offset= *)

\* The client asks for pages until one is not full, or until it has as many as
\* the total says.
StartListing ==
    /\ listing = None /\ detail = None
    /\ \E rule \in {"short", "total"} :
          listing' = [step |-> "count", rule |-> rule, offset |-> 0, seen |-> << >>,
                      before |-> rows, counted |-> rows]
    /\ UNCHANGED <<now, tables, detail>>

CountRows ==
    /\ listing # None /\ listing.step = "count"
    /\ listing' = [listing EXCEPT !.step = "select", !.counted = rows]
    /\ UNCHANGED <<now, tables, detail>>

\* A variant that shows what has changed last.
UpdatedLater(d, e) == updated_at[d] > updated_at[e]

\* ORDER BY created_at DESC
CreatedLater(d, e) == created_at[d] > created_at[e]

\* The orders that a query may return: equal time stamps come in any order, and
\* in another one in the next query.
Orders == {s \in SetToSeqs(rows) :
              \A i, j \in DOMAIN s : CreatedLater(s[i], s[j]) => i < j}

SelectPage ==
    /\ listing # None /\ listing.step = "select"
    /\ \E order \in Orders :
          LET end  == listing.offset + Limit
              page == SubSeq(order, listing.offset + 1,
                             IF end < Len(order) THEN end ELSE Len(order))
              last == IF listing.rule = "total"
                      THEN Cardinality(listing.counted) <= end
                      ELSE Len(page) < Limit
          IN  listing' = [listing EXCEPT
                  !.seen = @ \o page,
                  !.offset = end,
                  !.step = IF last THEN "done" ELSE "count"]
    /\ UNCHANGED <<now, tables, detail>>

-----------------------------------------------------------------------------
(* GET /api/deliveries/{id} *)

\* A variant that loads the attempts first.
AttemptsFirst == << "attempts", "row" >>

\* selectinload: the row, then its attempts.
Queries == << "row", "attempts" >>

OpenDetail ==
    /\ detail = None /\ listing = None
    /\ \E d \in rows : detail' = [of |-> d, step |-> 1, status |-> "pending",
                                  count |-> 0, shown |-> << >>]
    /\ UNCHANGED <<now, tables, listing>>

QueryDetail ==
    /\ detail # None /\ detail.step <= 2
    /\ detail' = IF Queries[detail.step] = "row"
                 THEN [detail EXCEPT !.step = @ + 1, !.status = Status(detail.of),
                                     !.count = Len(attempts[detail.of])]
                 ELSE [detail EXCEPT !.step = @ + 1, !.shown = attempts[detail.of]]
    /\ UNCHANGED <<now, tables, listing>>

-----------------------------------------------------------------------------
\* Nothing is left to read or to write.
Idle ==
    /\ now = MaxTime /\ rows = Deliveries
    /\ \A d \in Deliveries :
          Status(d) = "delivered" \/ (~MoreAttempts /\ (attempts[d] = << >> \/ Status(d) = "failed"))
    /\ \/ listing # None /\ listing.step = "done"
       \/ detail # None /\ detail.step = 3
    /\ UNCHANGED vars

Next ==
    \/ Tick
    \/ \E d \in Deliveries : Stamp(d) \/ Commit(d) \/ Begin(d) \/ Settle(d)
    \/ StartListing \/ CountRows \/ SelectPage
    \/ OpenDetail \/ QueryDetail
    \/ Idle

Spec == Init /\ [][Next]_vars

-----------------------------------------------------------------------------
(* Properties *)

\* Only the last attempt of a delivery is anything but failed.
History == {h \in Seq({"pending", "delivered", "failed"}) :
               \A i \in DOMAIN h : i < Len(h) => h[i] = "failed"}

\* Types, and what the code keeps with them: attempts follow one another, a row
\* changes after it was created, a reader sees committed rows only.
TypeOK ==
    /\ now \in 0..MaxTime
    /\ created_at \in [Deliveries -> 0..MaxTime \cup {None}]
    /\ updated_at \in [Deliveries -> 0..MaxTime \cup {None}]
    /\ \A d \in rows : created_at[d] # None /\ created_at[d] <= updated_at[d]
    /\ attempts \in [Deliveries -> History]
    /\ listing = None \/ (/\ listing.step \in {"count", "select", "done"}
                          /\ listing.seen \in Seq(rows)
                          /\ listing.before \subseteq listing.counted
                          /\ listing.counted \subseteq rows)
    /\ detail = None \/ (detail.of \in rows /\ detail.step \in 1..3)

SeenAt(d) == {i \in DOMAIN listing.seen : listing.seen[i] = d}

Tied(d) == \E e \in rows \ {d} : created_at[e] = created_at[d]

\* A delivery that was committed before the listing began is on one of its pages,
\* whatever is committed meanwhile and however late, unless it shares its time
\* stamp with another one; a client that trusts the total may also lose one to a
\* commit between the count and the page.
NoneMissed ==
    listing # None /\ listing.step = "done" =>
        \A d \in listing.before :
            SeenAt(d) # {} \/ Tied(d)
            \/ (listing.rule = "total" /\ rows # listing.counted)

\* A delivery is on two pages only if another was committed meanwhile, or if it
\* shares its time stamp.
RepeatsExplained ==
    listing # None =>
        \A d \in rows : Cardinality(SeenAt(d)) <= 1 \/ Tied(d) \/ rows # listing.before

\* The page of a delivery may be ahead of its row but never behind: as many
\* attempts as the row counts, and the outcome that the row shows.
DetailNeverBehind ==
    detail # None /\ detail.step = 3 =>
        /\ Len(detail.shown) >= detail.count
        /\ detail.status # "pending" => detail.shown[detail.count] = detail.status

=============================================================================
