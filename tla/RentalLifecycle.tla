--------------------------- MODULE RentalLifecycle ---------------------------
(***************************************************************************)
(* The rental, payment and invoice rows, the HTTP handlers that change     *)
(* them and the background worker that ages them.                          *)
(*                                                                         *)
(* A handler is at least two steps: the service reads rows and decides,    *)
(* and a later repository transaction writes.  Nothing holds a lock        *)
(* between the two, so other handlers and the worker run in the gap.  What *)
(* the write still remembers of the read is the record in req[q].  Each    *)
(* repository transaction is one step.                                     *)
(***************************************************************************)
EXTENDS Naturals

CONSTANTS
    Rentals,    \* rental ids; a payment or invoice is named by its rental (UNIQUE rental_id)
    Cars,
    Requests,   \* HTTP requests that can be in flight at the same time
    LastDay,    \* bound: days are 0..LastDay
    WorkerOverlaps \* may a payment be inserted while the worker's statement runs?

ASSUME LastDayAssumption == LastDay \in Nat
ASSUME WorkerOverlapsAssumption == WorkerOverlaps \in BOOLEAN

VARIABLES
    status,     \* rentals.status, "absent" before the row is inserted
    booking,    \* rentals.car_id, start_date, end_date; never updated
    payment,    \* payments.status of the rental, "none" while there is no row
    invoice,    \* invoices.status of the rental, "none" while there is no row
    today,      \* the UTC date every process reads
    req         \* what each request has decided and not yet written

vars == <<status, booking, payment, invoice, today, req>>

-----------------------------------------------------------------------------
(* Rows and requests *)

Blocking == {"requested", "approved", "pending_payment", "confirmed", "active"}
Status   == Blocking \cup {"rejected", "cancelled", "completed"}
Days     == 0 .. LastDay
Booking  == [car : Cars, start : Days, end : Days]
Unbooked == [car |-> "none"]

PaymentStatus == {"pending", "paid", "failed", "refunded"}
InvoiceStatus == {"issued", "paid", "void"}

Idle == [op |-> "idle"]
Task == [op : {"create"}, booking : Booking]
        \cup [op : {"setStatus"}, rental : Rentals, to : Status]
        \cup [op : {"pay"}, rental : Rentals, expected : {"approved", "pending_payment"}]
        \cup [op : {"invoice"}, rental : Rentals, as : {"issued", "paid"}]
        \cup [op : {"markPaid"}, rental : Rentals]

Exists(r) == status[r] # "absent"

Init ==
    /\ status  = [r \in Rentals |-> "absent"]
    /\ booking = [r \in Rentals |-> Unbooked]
    /\ payment = [r \in Rentals |-> "none"]
    /\ invoice = [r \in Rentals |-> "none"]
    /\ today   = 0
    /\ req     = [q \in Requests |-> Idle]

\* The request q has read and validated; it will write task later.
Decide(q, task) ==
    /\ req[q] = Idle
    /\ req' = [req EXCEPT ![q] = task]
    /\ UNCHANGED <<status, booking, payment, invoice, today>>

\* The request q has answered.
Done(q) == req' = [req EXCEPT ![q] = Idle]

Overlap(b, c) == b.car = c.car /\ b.start <= c.end /\ c.start <= b.end

\* Mutant: the constraint as migration 003 first declared it.
ConstraintOfMigration003(r, s, b) ==
    s \in {"pending_payment", "confirmed"} =>
        \A o \in Rentals \ {r} :
            status[o] \in {"pending_payment", "confirmed"} => ~Overlap(booking[o], b)

\* rentals_no_double_booking: PostgreSQL refuses a statement that would give
\* row r the status s and the booking b when another blocking row overlaps it.
ConstraintAllows(r, s, b) ==
    s \in Blocking =>
        \A o \in Rentals \ {r} : status[o] \in Blocking => ~Overlap(booking[o], b)

-----------------------------------------------------------------------------
(* RentalService.Create *)

DatesValid(b) == today <= b.start /\ b.start <= b.end

Free(b) == \A o \in Rentals : status[o] \in Blocking => ~Overlap(booking[o], b)

\* The dates are checked against the clock and the calendar now, the row is
\* inserted later.  A car out of service refuses the request: see Abandon.
CreateRead(q) ==
    \E b \in Booking :
        /\ DatesValid(b)
        /\ Free(b)
        /\ Decide(q, [op |-> "create", booking |-> b])

\* One transaction with the car row locked: refuse on overlap, else insert.
CreateWithAvailability(q) ==
    /\ req[q].op = "create"
    /\ Free(req[q].booking)
    /\ \E r \in Rentals :
        /\ ~Exists(r)
        /\ ConstraintAllows(r, "requested", req[q].booking)
        /\ status'  = [status EXCEPT ![r] = "requested"]
        /\ booking' = [booking EXCEPT ![r] = req[q].booking]
    /\ Done(q)
    /\ UNCHANGED <<payment, invoice, today>>

-----------------------------------------------------------------------------
(* Status changes: validate what was read, write it without a guard *)

\* Mutant: a paid payment no longer blocks the change.
NoPendingPayment(r) == payment[r] # "pending"

NoOpenPayment(r) == payment[r] \notin {"pending", "paid"}

PaymentPaid(r) == payment[r] = "paid"

StatusChangeAllowed(r, next) ==
    \/ next = status[r]
    \/ /\ next = "approved"
       /\ status[r] \in {"requested", "rejected", "cancelled"}
       /\ NoOpenPayment(r)
    \/ /\ next = "rejected"
       /\ status[r] \in {"requested", "approved"}
       /\ NoOpenPayment(r)
    \/ /\ next = "cancelled"
       /\ status[r] # "completed"
       /\ NoOpenPayment(r)
    \/ next = "active" /\ PaymentPaid(r) /\ status[r] = "confirmed"
    \/ next = "completed" /\ PaymentPaid(r) /\ status[r] = "active"

SetStatus(r, next) == [op |-> "setStatus", rental |-> r, to |-> next]

UpdateStatus(q) ==
    \E r \in Rentals, next \in Status :
        /\ Exists(r)
        /\ StatusChangeAllowed(r, next)
        /\ Decide(q, SetStatus(r, next))

Approve(q) ==
    \E r \in Rentals :
        /\ status[r] = "requested"
        /\ NoOpenPayment(r)
        /\ Decide(q, SetStatus(r, "approved"))

Reject(q) ==
    \E r \in Rentals :
        /\ status[r] \in {"requested", "approved"}
        /\ NoOpenPayment(r)
        /\ Decide(q, SetStatus(r, "rejected"))

Cancel(q) ==
    \E r \in Rentals :
        /\ Exists(r)
        /\ status[r] \notin {"cancelled", "completed"}
        /\ NoOpenPayment(r)
        /\ status[r] = "confirmed" => today < booking[r].start
        /\ Decide(q, SetStatus(r, "cancelled"))

\* The invoices of rs are voided unless they are already paid or void.
VoidIssued(rs) ==
    [r \in Rentals |-> IF r \in rs /\ invoice[r] = "issued" THEN "void" ELSE invoice[r]]

\* The repository's UpdateStatus and Cancel: UPDATE rentals ... WHERE id, with
\* no condition on the status the service read.
WriteStatus(q) ==
    /\ req[q].op = "setStatus"
    /\ LET r == req[q].rental
           s == req[q].to
       IN  /\ ConstraintAllows(r, s, booking[r])
           /\ status' = [status EXCEPT ![r] = s]
           /\ invoice' = VoidIssued(IF s \in {"cancelled", "rejected"} THEN {r} ELSE {})
    /\ Done(q)
    /\ UNCHANGED <<booking, payment, today>>

-----------------------------------------------------------------------------
(* Payments *)

\* Payment rows are never deleted, so the look-up for an existing payment and
\* the UNIQUE constraint of the insert come to the same test in the write.
CreatePayment(q) ==
    \E r \in Rentals :
        /\ status[r] \in {"pending_payment", "approved"}
        /\ Decide(q, [op |-> "pay", rental |-> r, expected |-> status[r]])

CreateForRental(q) ==
    /\ req[q].op = "pay"
    /\ LET r == req[q].rental
       IN  /\ status[r] = req[q].expected
           /\ payment[r] = "none"
           /\ payment' = [payment EXCEPT ![r] = "pending"]
           /\ status'  = [status EXCEPT ![r] = "pending_payment"]
    /\ Done(q)
    /\ UNCHANGED <<booking, invoice, today>>

\* Mutant: the UPDATE of payments without AND status = 'pending'.
ConfirmableWithoutPaymentGuard(r) ==
    payment[r] # "none" /\ status[r] = "pending_payment"

Confirmable(r) == payment[r] = "pending" /\ status[r] = "pending_payment"

\* The handler goes on to mark the invoice, in a transaction of its own.
ThenMarkPaid(q, r) == req' = [req EXCEPT ![q] = [op |-> "markPaid", rental |-> r]]

Confirm(q) ==
    /\ req[q] = Idle
    /\ \E r \in Rentals :
        /\ Confirmable(r)
        /\ payment' = [payment EXCEPT ![r] = "paid"]
        /\ status'  = [status EXCEPT ![r] = "confirmed"]
        /\ ThenMarkPaid(q, r)
    /\ UNCHANGED <<booking, invoice, today>>

\* Mutant: MarkPaid without AND status = 'issued'.
MarkableIfPresent(r) == invoice[r] # "none"

Markable(r) == invoice[r] = "issued"

MarkPaid(q) ==
    /\ req[q].op = "markPaid"
    /\ LET r == req[q].rental
       IN  invoice' = IF Markable(r) THEN [invoice EXCEPT ![r] = "paid"] ELSE invoice
    /\ Done(q)
    /\ UNCHANGED <<status, booking, payment, today>>

\* The rental is cancelled whatever its status is.
Fail(q) ==
    /\ req[q] = Idle
    /\ \E r \in Rentals :
        /\ payment[r] = "pending"
        /\ payment' = [payment EXCEPT ![r] = "failed"]
        /\ status'  = [status EXCEPT ![r] = "cancelled"]
        /\ invoice' = VoidIssued({r})
    /\ UNCHANGED <<booking, today, req>>

\* Mutant: the invoice takes the payment's new status.
VoidedWithPaymentStatus(r) ==
    IF invoice[r] \in {"issued", "paid"} THEN [invoice EXCEPT ![r] = "refunded"] ELSE invoice

\* Mutant: only the invoices still unpaid are voided, as in Fail.
VoidedByRefundIfIssued(r) == VoidIssued({r})

VoidedByRefund(r) ==
    IF invoice[r] \in {"issued", "paid"} THEN [invoice EXCEPT ![r] = "void"] ELSE invoice

Refund(q) ==
    /\ req[q] = Idle
    /\ \E r \in Rentals :
        /\ payment[r] = "paid"
        /\ payment' = [payment EXCEPT ![r] = "refunded"]
        /\ status'  = IF status[r] = "completed" THEN status
                      ELSE [status EXCEPT ![r] = "cancelled"]
        /\ invoice' = VoidedByRefund(r)
    /\ UNCHANGED <<booking, today, req>>

-----------------------------------------------------------------------------
(* Invoices *)

\* Mutant: any payment row counts as a paid one.
IssueAsIfPresent(r) == IF payment[r] = "none" THEN "issued" ELSE "paid"

IssueAs(r) == IF PaymentPaid(r) THEN "paid" ELSE "issued"

GetOrCreate(q) ==
    \E r \in Rentals :
        /\ Exists(r)
        /\ invoice[r] = "none"
        /\ Decide(q, [op |-> "invoice", rental |-> r, as |-> IssueAs(r)])

CreateInvoice(q) ==
    /\ req[q].op = "invoice"
    /\ invoice[req[q].rental] = "none"
    /\ invoice' = [invoice EXCEPT ![req[q].rental] = req[q].as]
    /\ Done(q)
    /\ UNCHANGED <<status, booking, payment, today>>

-----------------------------------------------------------------------------
(* The lifecycle worker, the clock and failures *)

\* Mutant: approved rentals are left out of expired_unpaid.
ExpiredButNotApproved(r) ==
    status[r] \in {"requested", "pending_payment"} /\ booking[r].end < today

ExpiredUnpaid(r) ==
    status[r] \in {"requested", "approved", "pending_payment"} /\ booking[r].end < today

\* Mutant: the status of a started rental is not looked at.
ActivatedWhenApproved(r) ==
    status[r] \in {"approved", "confirmed"} /\ booking[r].start <= today /\ today <= booking[r].end

Activated(r) ==
    status[r] = "confirmed" /\ booking[r].start <= today /\ today <= booking[r].end

Completed(r) == status[r] \in {"confirmed", "active"} /\ booking[r].end < today

\* Mutant: the expired rentals are cancelled, their payments are forgotten.
PaymentsLeftBySync == payment

PaymentsAfterSync ==
    [r \in Rentals |-> IF ExpiredUnpaid(r) /\ payment[r] = "pending" THEN "failed"
                       ELSE payment[r]]

StatusAfterSync ==
    [r \in Rentals |->
        CASE ExpiredUnpaid(r) -> "cancelled"
          [] Activated(r)     -> "active"
          [] Completed(r)     -> "completed"
          [] OTHER            -> status[r]]

\* One statement over every rental row.
SyncLifecycle ==
    /\ status'  = StatusAfterSync
    /\ payment' = PaymentsAfterSync
    /\ invoice' = VoidIssued({r \in Rentals : ExpiredUnpaid(r)})
    /\ UNCHANGED <<booking, today, req>>

\* At READ COMMITTED the statement reads payments from the snapshot it began
\* with, but waits for the rental row CreateForRental holds and then cancels
\* the rental: the payment committed in between is not seen.  Every other pair of
\* transactions leaves the rows of a rental as one of their serial orders does,
\* or as the handler does while the worker leaves that rental to its next run.
SyncDuringCreateForRental(q) ==
    /\ WorkerOverlaps
    /\ req[q].op = "pay"
    /\ LET r == req[q].rental
       IN  /\ status[r] = req[q].expected
           /\ payment[r] = "none"
           /\ ExpiredUnpaid(r)
           /\ status'  = StatusAfterSync
           /\ payment' = [PaymentsAfterSync EXCEPT ![r] = "pending"]
           /\ invoice' = VoidIssued({o \in Rentals : ExpiredUnpaid(o)})
    /\ Done(q)
    /\ UNCHANGED <<booking, today>>

\* A request ends without its write: refused, a database error, a dropped
\* connection, a crash of the process.
Abandon(q) ==
    /\ req[q] # Idle
    /\ Done(q)
    /\ UNCHANGED <<status, booking, payment, invoice, today>>

NextDay ==
    /\ today < LastDay
    /\ today' = today + 1
    /\ UNCHANGED <<status, booking, payment, invoice, req>>

Next ==
    \/ \E q \in Requests :
        \/ CreateRead(q) \/ CreateWithAvailability(q)
        \/ UpdateStatus(q) \/ Approve(q) \/ Reject(q) \/ Cancel(q) \/ WriteStatus(q)
        \/ CreatePayment(q) \/ CreateForRental(q)
        \/ Confirm(q) \/ MarkPaid(q) \/ Fail(q) \/ Refund(q)
        \/ GetOrCreate(q) \/ CreateInvoice(q)
        \/ SyncDuringCreateForRental(q) \/ Abandon(q)
    \/ SyncLifecycle
    \/ NextDay

Spec == Init /\ [][Next]_vars

\* The worker's ticker runs the statement again every hour, whatever the last
\* run returned.  No request and no change of date is ever forced.
FairSpec == Spec /\ WF_vars(SyncLifecycle)

-----------------------------------------------------------------------------
(* Properties *)

\* Every row and request stays in its domain, and a rental row has a booking
\* exactly when it exists (migrations 003, 010 and 011, models/rental.go).
TypeOK ==
    /\ status  \in [Rentals -> Status \cup {"absent"}]
    /\ booking \in [Rentals -> Booking \cup {Unbooked}]
    /\ \A r \in Rentals : Exists(r) <=> booking[r] \in Booking
    /\ payment \in [Rentals -> PaymentStatus \cup {"none"}]
    /\ invoice \in [Rentals -> InvoiceStatus \cup {"none"}]
    /\ today   \in Days
    /\ req     \in [Requests -> Task \cup {Idle}]

\* No car is promised twice: two rentals that block dates never overlap on a
\* car, whatever handlers race.  Approving a cancelled rental again after its
\* dates were rebooked, and a late status write, are the steps that could.
NoDoubleBooking ==
    \A r, o \in Rentals :
        r # o /\ status[r] \in Blocking /\ status[o] \in Blocking
            => ~Overlap(booking[r], booking[o])

\* The rental tables implement the abstract reservation calendar: a rental
\* holds the days of its car from its start to its end while it is blocking.
Calendar ==
    INSTANCE ReservationCalendar WITH
        holders <- [c \in Cars |-> [d \in Days |->
            {r \in Rentals : /\ status[r] \in Blocking
                             /\ booking[r].car = c
                             /\ booking[r].start <= d
                             /\ d <= booking[r].end}]]

\* Every step of every handler takes or gives back whole, free bookings: the
\* lifecycle is a ReservationCalendar.
CalendarSpec == Calendar!Spec

\* The customer has paid for r; the money may have been given back since.
Collected(r) == payment[r] \in {"paid", "refunded"}

\* A car is confirmed, handed over or returned only for a rental whose money
\* was collected.  (It may have been refunded since.)
CollectedBeforeService ==
    \A r \in Rentals : status[r] \in {"confirmed", "active", "completed"} => Collected(r)

\* An invoice says "paid" only if the customer's money was collected, although
\* Confirm marks it in a second transaction and GetOrCreate decides early.
PaidInvoiceIsCollected ==
    \A r \in Rentals : invoice[r] = "paid" => Collected(r)

\* The transitions a payment may make.
PaymentMoves == {<<"none", "pending">>, <<"pending", "paid">>, <<"pending", "failed">>,
                 <<"paid", "refunded">>}

\* A payment moves along pending -> paid -> refunded or pending -> failed and
\* never back: no late handler or worker run charges or revives it twice.
PaymentNeverRevived ==
    [][\A r \in Rentals : payment'[r] # payment[r]
            => <<payment[r], payment'[r]>> \in PaymentMoves]_vars

\* A voided invoice stays void: the MarkPaid that Confirm sends late, after a
\* Refund or a cancellation voided the invoice, does not bring it back.
VoidIsFinal ==
    [][\A r \in Rentals : invoice[r] = "void" => invoice'[r] = "void"]_vars

\* An open payment belongs to a rental in the matching state: pending while
\* the rental awaits payment, paid while it is confirmed or in service.  Every
\* validation in rental_service.go is written to keep this; it holds when one
\* request runs at a time beside the worker.
OpenPaymentBacked ==
    \A r \in Rentals :
        /\ payment[r] = "pending" => status[r] = "pending_payment"
        /\ payment[r] = "paid" => status[r] \in {"confirmed", "active", "completed"}

\* A refunded or failed payment leaves no invoice that says "paid", when one
\* request runs at a time: Refund voids the paid invoice too.
PaidInvoiceIsPaid ==
    \A r \in Rentals : invoice[r] = "paid" => payment[r] = "paid"

\* The worker gives the dates of every past rental back: a blocking rental
\* whose last day is over leaves the blocking states.
EndedRentalsReleased ==
    \A r \in Rentals :
        (status[r] \in Blocking /\ booking[r].end < today) ~> (status[r] \notin Blocking)

\* The worker fails a payment that was still pending when its rental's dates
\* passed, so it cannot be confirmed for ever after.
ExpiredPaymentsResolved ==
    \A r \in Rentals :
        (payment[r] = "pending" /\ booking[r].end < today) ~> (payment[r] # "pending")

-----------------------------------------------------------------------------
(* What the code says of itself and concurrent requests break *)

\* "refund the paid payment before cancelling rental" and "fail the pending
\* payment before ..." (rental_service.go, ensureRentalHasNoOpenPayment): a
\* cancelled or rejected rental has no open payment.
ClosedHasNoOpenPayment ==
    \A r \in Rentals : status[r] \in {"cancelled", "rejected"} => NoOpenPayment(r)

\* "completed rental cannot be cancelled" (rental_service.go).
CompletedNotCancelled ==
    [][\A r \in Rentals : status[r] = "completed" => status'[r] # "cancelled"]_vars
=============================================================================
