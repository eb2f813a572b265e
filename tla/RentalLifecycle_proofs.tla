------------------------ MODULE RentalLifecycle_proofs ------------------------
(***************************************************************************)
(* Theorems about RentalLifecycle for any number of rentals, cars,         *)
(* requests in flight and days.                                            *)
(***************************************************************************)
EXTENDS RentalLifecycle, TLAPS

\* A payment or invoice row references an existing rental (its foreign key).
RowsHaveRental ==
    \A r \in Rentals : payment[r] # "none" \/ invoice[r] # "none" => Exists(r)

\* What a request decided before its write still holds when it writes: its
\* rental exists, and the money it saw collected stays collected.
Honest(task) ==
    /\ task.op \in {"setStatus", "pay", "invoice", "markPaid"} => Exists(task.rental)
    /\ task.op = "setStatus" /\ task.to \in {"confirmed", "active", "completed"}
           => Collected(task.rental)
    /\ task.op = "invoice" /\ task.as = "paid" => Collected(task.rental)
    /\ task.op = "markPaid" => Collected(task.rental)

DecisionsHold == \A q \in Requests : Honest(req[q])

\* The inductive invariant.
IInv ==
    /\ TypeOK
    /\ RowsHaveRental
    /\ DecisionsHold
    /\ NoDoubleBooking
    /\ CollectedBeforeService
    /\ PaidInvoiceIsCollected

-----------------------------------------------------------------------------
(* Requests *)

\* Which fields the record of an in-flight request has, by its operation.
LEMMA TaskFields ==
    ASSUME TypeOK, NEW q \in Requests
    PROVE  /\ req[q] \in Task \cup {Idle}
           /\ req[q].op = "create" => req[q].booking \in Booking
           /\ req[q].op = "setStatus" => req[q].rental \in Rentals /\ req[q].to \in Status
           /\ req[q].op = "pay" => /\ req[q].rental \in Rentals
                                  /\ req[q].expected \in {"approved", "pending_payment"}
           /\ req[q].op = "invoice" => /\ req[q].rental \in Rentals
                                      /\ req[q].as \in {"issued", "paid"}
           /\ req[q].op = "markPaid" => req[q].rental \in Rentals
           /\ req[q].op \in {"idle", "create", "setStatus", "pay", "invoice", "markPaid"}
<1>1. req[q] \in Task \cup {Idle}
  BY DEF TypeOK
<1>2. QED
  BY <1>1 DEF Task, Idle

\* Answering or deciding keeps the request table well typed.
LEMMA ReqType ==
    ASSUME TypeOK, NEW q \in Requests, NEW t \in Task \cup {Idle},
           req' = [req EXCEPT ![q] = t]
    PROVE  req' \in [Requests -> Task \cup {Idle}]
BY DEF TypeOK

-----------------------------------------------------------------------------
(* Types *)

\* A step that inserts no rental keeps the types when each written table
\* keeps its own.
LEMMA SameRentals ==
    ASSUME TypeOK, booking' = booking,
           status' \in [Rentals -> Status \cup {"absent"}],
           \A r \in Rentals : Exists(r)' <=> Exists(r),
           payment' \in [Rentals -> PaymentStatus \cup {"none"}],
           invoice' \in [Rentals -> InvoiceStatus \cup {"none"}],
           today' \in Days,
           req' \in [Requests -> Task \cup {Idle}]
    PROVE  TypeOK'
BY DEF TypeOK, Exists

\* Setting the status of an existing rental inserts no rental.
LEMMA SetStatusType ==
    ASSUME TypeOK, NEW r \in Rentals, NEW s \in Status, Exists(r),
           status' = [status EXCEPT ![r] = s]
    PROVE  /\ status' \in [Rentals -> Status \cup {"absent"}]
           /\ \A o \in Rentals : Exists(o)' <=> Exists(o)
BY DEF TypeOK, Exists, Status, Blocking

LEMMA VoidType ==
    ASSUME TypeOK, NEW rs, invoice' = VoidIssued(rs)
    PROVE  /\ invoice' \in [Rentals -> InvoiceStatus \cup {"none"}]
           /\ \A r \in Rentals : invoice'[r] = "none" <=> invoice[r] = "none"
           /\ \A r \in Rentals : invoice'[r] = "paid" => invoice[r] = "paid"
BY DEF TypeOK, VoidIssued, InvoiceStatus

\* One step of any action keeps the types.  RowsHaveRental tells that Fail and
\* Refund write to an existing rental, DecisionsHold that WriteStatus does.
THEOREM TypeStep ==
    ASSUME TypeOK, RowsHaveRental, DecisionsHold, [Next]_vars
    PROVE  TypeOK'
<1> USE TypeOK
<1>1. ASSUME NEW q \in Requests, CreateRead(q) PROVE TypeOK'
  <2>1. PICK b \in Booking : Decide(q, [op |-> "create", booking |-> b])
    BY <1>1 DEF CreateRead
  <2>2. [op |-> "create", booking |-> b] \in Task
    BY DEF Task
  <2>3. QED
    BY <2>1, <2>2, ReqType DEF Decide, TypeOK, Exists
<1>2. ASSUME NEW q \in Requests, CreateWithAvailability(q) PROVE TypeOK'
  <2>1. PICK r \in Rentals :
           /\ status'  = [status EXCEPT ![r] = "requested"]
           /\ booking' = [booking EXCEPT ![r] = req[q].booking]
    BY <1>2 DEF CreateWithAvailability
  <2>2. req[q].booking \in Booking
    BY <1>2, TaskFields DEF CreateWithAvailability
  <2>3. QED
    BY <1>2, <2>1, <2>2, ReqType
       DEF CreateWithAvailability, Done, TypeOK, Exists, Status, Blocking
<1>3. ASSUME NEW q \in Requests, NEW r \in Rentals, NEW s \in Status,
             Decide(q, SetStatus(r, s))
      PROVE  TypeOK'
  <2>1. SetStatus(r, s) \in Task
    BY DEF Task, SetStatus
  <2>2. QED
    BY <1>3, <2>1, ReqType DEF Decide, TypeOK, Exists
<1>4. ASSUME NEW q \in Requests, WriteStatus(q) PROVE TypeOK'
  <2> DEFINE r == req[q].rental
             s == req[q].to
  <2>1. r \in Rentals /\ s \in Status /\ Exists(r)
    BY <1>4, TaskFields, DecisionsHold DEF WriteStatus, DecisionsHold, Honest
  <2>2. status' = [status EXCEPT ![r] = s]
    BY <1>4 DEF WriteStatus
  <2>3. invoice' \in [Rentals -> InvoiceStatus \cup {"none"}]
    BY <1>4, VoidType DEF WriteStatus
  <2> HIDE DEF r, s
  <2>4. /\ booking' = booking
        /\ payment' \in [Rentals -> PaymentStatus \cup {"none"}]
        /\ today' \in Days
        /\ req' \in [Requests -> Task \cup {Idle}]
    BY <1>4, ReqType DEF WriteStatus, Done, TypeOK
  <2>5. QED
    BY <2>1, <2>2, <2>3, <2>4, SetStatusType, SameRentals
<1>5. ASSUME NEW q \in Requests, CreatePayment(q) PROVE TypeOK'
  <2>1. PICK r \in Rentals :
           /\ status[r] \in {"pending_payment", "approved"}
           /\ Decide(q, [op |-> "pay", rental |-> r, expected |-> status[r]])
    BY <1>5 DEF CreatePayment
  <2>2. [op |-> "pay", rental |-> r, expected |-> status[r]] \in Task
    BY <2>1 DEF Task
  <2>3. QED
    BY <2>1, <2>2, ReqType DEF Decide, TypeOK, Exists
<1>6. ASSUME NEW q \in Requests, CreateForRental(q) PROVE TypeOK'
  <2> DEFINE r == req[q].rental
  <2>1. r \in Rentals /\ Exists(r)
    BY <1>6, TaskFields, DecisionsHold DEF CreateForRental, DecisionsHold, Honest
  <2>2. /\ status' = [status EXCEPT ![r] = "pending_payment"]
        /\ payment' = [payment EXCEPT ![r] = "pending"]
    BY <1>6 DEF CreateForRental
  <2> HIDE DEF r
  <2>3. payment' \in [Rentals -> PaymentStatus \cup {"none"}]
    BY <2>1, <2>2 DEF TypeOK, PaymentStatus
  <2>4. /\ booking' = booking
        /\ invoice' \in [Rentals -> InvoiceStatus \cup {"none"}]
        /\ today' \in Days
        /\ req' \in [Requests -> Task \cup {Idle}]
    BY <1>6, ReqType DEF CreateForRental, Done, TypeOK
  <2>5. "pending_payment" \in Status
    BY DEF Status, Blocking
  <2>6. QED
    BY <2>1, <2>2, <2>3, <2>4, <2>5, SetStatusType, SameRentals
<1>7. ASSUME NEW q \in Requests, Confirm(q) PROVE TypeOK'
  <2>1. PICK r \in Rentals :
           /\ Confirmable(r)
           /\ payment' = [payment EXCEPT ![r] = "paid"]
           /\ status'  = [status EXCEPT ![r] = "confirmed"]
           /\ req'     = [req EXCEPT ![q] = [op |-> "markPaid", rental |-> r]]
    BY <1>7 DEF Confirm, ThenMarkPaid
  <2>2. "confirmed" \in Status /\ Exists(r)
    BY <2>1 DEF Status, Blocking, Confirmable, Exists
  <2>3. payment' \in [Rentals -> PaymentStatus \cup {"none"}]
    BY <2>1 DEF TypeOK, PaymentStatus
  <2>4. [op |-> "markPaid", rental |-> r] \in Task
    BY DEF Task
  <2>5. /\ booking' = booking
        /\ invoice' \in [Rentals -> InvoiceStatus \cup {"none"}]
        /\ today' \in Days
        /\ req' \in [Requests -> Task \cup {Idle}]
    BY <1>7, <2>1, <2>4, ReqType DEF Confirm, TypeOK
  <2>6. QED
    BY <2>1, <2>2, <2>3, <2>5, SetStatusType, SameRentals
<1>8. ASSUME NEW q \in Requests, MarkPaid(q) PROVE TypeOK'
  <2>1. invoice' \in [Rentals -> InvoiceStatus \cup {"none"}]
    BY <1>8, TaskFields DEF MarkPaid, TypeOK, InvoiceStatus
  <2>2. QED
    BY <1>8, <2>1, ReqType DEF MarkPaid, Done, TypeOK, Exists
<1>9. ASSUME NEW q \in Requests, Fail(q) PROVE TypeOK'
  <2>1. PICK r \in Rentals :
           /\ payment[r] = "pending"
           /\ payment' = [payment EXCEPT ![r] = "failed"]
           /\ status'  = [status EXCEPT ![r] = "cancelled"]
           /\ invoice' = VoidIssued({r})
    BY <1>9 DEF Fail
  <2>2. "cancelled" \in Status /\ Exists(r)
    BY <2>1, RowsHaveRental DEF Status, RowsHaveRental
  <2>3. payment' \in [Rentals -> PaymentStatus \cup {"none"}]
    BY <2>1 DEF TypeOK, PaymentStatus
  <2>4. invoice' \in [Rentals -> InvoiceStatus \cup {"none"}]
    BY <2>1, VoidType
  <2>5. booking' = booking /\ today' \in Days /\ req' \in [Requests -> Task \cup {Idle}]
    BY <1>9 DEF Fail, TypeOK
  <2>6. QED
    BY <2>1, <2>2, <2>3, <2>4, <2>5, SetStatusType, SameRentals
<1>10. ASSUME NEW q \in Requests, Refund(q) PROVE TypeOK'
  <2>1. PICK r \in Rentals :
           /\ payment[r] = "paid"
           /\ payment' = [payment EXCEPT ![r] = "refunded"]
           /\ status'  = IF status[r] = "completed" THEN status
                         ELSE [status EXCEPT ![r] = "cancelled"]
           /\ invoice' = VoidedByRefund(r)
    BY <1>10 DEF Refund
  <2>2. "cancelled" \in Status /\ Exists(r)
    BY <2>1, RowsHaveRental DEF Status, RowsHaveRental
  <2>3. payment' \in [Rentals -> PaymentStatus \cup {"none"}]
    BY <2>1 DEF TypeOK, PaymentStatus
  <2>4. invoice' \in [Rentals -> InvoiceStatus \cup {"none"}]
    BY <2>1 DEF TypeOK, VoidedByRefund, InvoiceStatus
  <2>5. booking' = booking /\ today' \in Days /\ req' \in [Requests -> Task \cup {Idle}]
    BY <1>10 DEF Refund, TypeOK
  <2>6. CASE status[r] = "completed"
    BY <2>1, <2>3, <2>4, <2>5, <2>6 DEF TypeOK, Exists
  <2>7. CASE status[r] # "completed"
    BY <2>1, <2>2, <2>3, <2>4, <2>5, <2>7, SetStatusType, SameRentals
  <2>8. QED
    BY <2>6, <2>7
<1>11. ASSUME NEW q \in Requests, GetOrCreate(q) PROVE TypeOK'
  <2>1. PICK r \in Rentals :
           Decide(q, [op |-> "invoice", rental |-> r, as |-> IssueAs(r)])
    BY <1>11 DEF GetOrCreate
  <2>2. [op |-> "invoice", rental |-> r, as |-> IssueAs(r)] \in Task
    BY DEF Task, IssueAs
  <2>3. QED
    BY <2>1, <2>2, ReqType DEF Decide, TypeOK, Exists
<1>12. ASSUME NEW q \in Requests, CreateInvoice(q) PROVE TypeOK'
  <2>1. invoice' \in [Rentals -> InvoiceStatus \cup {"none"}]
    BY <1>12, TaskFields DEF CreateInvoice, TypeOK, InvoiceStatus
  <2>2. QED
    BY <1>12, <2>1, ReqType DEF CreateInvoice, Done, TypeOK, Exists
<1>13. /\ StatusAfterSync \in [Rentals -> Status \cup {"absent"}]
       /\ \A r \in Rentals : StatusAfterSync[r] # "absent" <=> Exists(r)
  BY DEF TypeOK, StatusAfterSync, ExpiredUnpaid, Activated, Completed, Exists, Status, Blocking
<1>14. PaymentsAfterSync \in [Rentals -> PaymentStatus \cup {"none"}]
  BY DEF TypeOK, PaymentsAfterSync, PaymentStatus
<1>15. ASSUME NEW q \in Requests, SyncDuringCreateForRental(q) PROVE TypeOK'
  <2>1. payment' \in [Rentals -> PaymentStatus \cup {"none"}]
    BY <1>14, <1>15 DEF SyncDuringCreateForRental, PaymentStatus
  <2>2. invoice' \in [Rentals -> InvoiceStatus \cup {"none"}]
    BY <1>15, VoidType DEF SyncDuringCreateForRental
  <2>3. status' = StatusAfterSync /\ booking' = booking /\ today' = today /\ Done(q)
    BY <1>15 DEF SyncDuringCreateForRental
  <2>4. req' \in [Requests -> Task \cup {Idle}]
    BY <2>3, ReqType DEF Done
  <2>5. QED
    BY <1>13, <2>1, <2>2, <2>3, <2>4, SameRentals DEF TypeOK, Exists
<1>16. ASSUME SyncLifecycle PROVE TypeOK'
  <2>1. invoice' \in [Rentals -> InvoiceStatus \cup {"none"}]
    BY <1>16, VoidType DEF SyncLifecycle
  <2>2. /\ status' = StatusAfterSync /\ payment' = PaymentsAfterSync
        /\ booking' = booking /\ today' = today /\ req' = req
    BY <1>16 DEF SyncLifecycle
  <2>3. QED
    BY <1>13, <1>14, <2>1, <2>2, SameRentals DEF TypeOK, Exists
<1>17. ASSUME NEW q \in Requests, Abandon(q) PROVE TypeOK'
  BY <1>17, ReqType DEF Abandon, Done, TypeOK, Exists
<1>18. ASSUME NextDay PROVE TypeOK'
  BY <1>18, LastDayAssumption DEF NextDay, TypeOK, Exists, Days
<1>19. CASE UNCHANGED vars
  BY <1>19 DEF vars, TypeOK, Exists
<1>20. ASSUME NEW q \in Requests, UpdateStatus(q) \/ Approve(q) \/ Reject(q) \/ Cancel(q)
       PROVE  TypeOK'
  BY <1>3, <1>20 DEF UpdateStatus, Approve, Reject, Cancel, Status, Blocking
<1>21. QED
  BY <1>1, <1>2, <1>4, <1>5, <1>6, <1>7, <1>8, <1>9, <1>10, <1>11, <1>12, <1>15, <1>16,
     <1>17, <1>18, <1>19, <1>20 DEF Next

-----------------------------------------------------------------------------
(* Payments *)

\* One step moves a payment forward or leaves it: every transition is guarded
\* by the old status, in the UPDATE or by the payment row being absent.
THEOREM PaymentStep ==
    ASSUME TypeOK, [Next]_vars
    PROVE  \A r \in Rentals : payment'[r] # payment[r]
               => <<payment[r], payment'[r]>> \in PaymentMoves
<1> USE DEF PaymentMoves
<1>1. ASSUME NEW q \in Requests, CreateForRental(q)
      PROVE  \A r \in Rentals : payment'[r] # payment[r]
                 => <<payment[r], payment'[r]>> \in PaymentMoves
  BY <1>1 DEF CreateForRental, TypeOK
<1>2. ASSUME NEW q \in Requests, Confirm(q) \/ Fail(q) \/ Refund(q)
      PROVE  \A r \in Rentals : payment'[r] # payment[r]
                 => <<payment[r], payment'[r]>> \in PaymentMoves
  BY <1>2 DEF Confirm, Confirmable, Fail, Refund, TypeOK
<1>3. ASSUME NEW q \in Requests, SyncDuringCreateForRental(q)
      PROVE  \A r \in Rentals : payment'[r] # payment[r]
                 => <<payment[r], payment'[r]>> \in PaymentMoves
  BY <1>3 DEF SyncDuringCreateForRental, PaymentsAfterSync, TypeOK
<1>4. CASE SyncLifecycle
  BY <1>4 DEF SyncLifecycle, PaymentsAfterSync, TypeOK
<1>5. CASE NextDay \/ UNCHANGED vars
  BY <1>5 DEF NextDay, vars
<1>6. ASSUME NEW q \in Requests,
             \/ CreateRead(q) \/ CreateWithAvailability(q)
             \/ UpdateStatus(q) \/ Approve(q) \/ Reject(q) \/ Cancel(q) \/ WriteStatus(q)
             \/ CreatePayment(q) \/ MarkPaid(q) \/ GetOrCreate(q) \/ CreateInvoice(q)
             \/ Abandon(q)
      PROVE  payment' = payment
  BY <1>6 DEF CreateRead, CreateWithAvailability, UpdateStatus, Approve, Reject, Cancel,
              WriteStatus, CreatePayment, MarkPaid, GetOrCreate, CreateInvoice, Abandon, Decide
<1>7. QED
  BY <1>1, <1>2, <1>3, <1>4, <1>5, <1>6 DEF Next

\* Money once collected stays collected (it may be refunded), and payment rows
\* are never deleted.
LEMMA CollectedStays ==
    ASSUME TypeOK, [Next]_vars
    PROVE  /\ \A r \in Rentals : Collected(r) => Collected(r)'
           /\ \A r \in Rentals : payment[r] # "none" => payment'[r] # "none"
BY PaymentStep DEF PaymentMoves, Collected

-----------------------------------------------------------------------------
(* Rental rows *)

\* What one step may do to the status of a rental: it stays, it leaves the
\* states that need money, or the money is there.  The late WriteStatus is the
\* case that needs DecisionsHold.
LEMMA StatusStep ==
    ASSUME IInv, [Next]_vars, NEW r \in Rentals
    PROVE  /\ Exists(r) => Exists(r)'
           /\ status'[r] \in {"confirmed", "active", "completed"} =>
                  Collected(r)'
<1> USE DEF IInv
<1>1. Collected(r) => Collected(r)'
  BY CollectedStays
<1>2. status[r] \in {"confirmed", "active", "completed"} => Collected(r)'
  BY <1>1 DEF CollectedBeforeService
<1>3. ASSUME NEW q \in Requests, CreateWithAvailability(q)
      PROVE  \/ status'[r] = status[r]
             \/ ~Exists(r) /\ status'[r] = "requested"
  BY <1>3 DEF CreateWithAvailability, TypeOK
<1>4. ASSUME NEW q \in Requests, WriteStatus(q)
      PROVE  \/ status'[r] = status[r]
             \/ /\ Exists(r)'
                /\ status'[r] \in {"confirmed", "active", "completed"} => Collected(r)
  <2>1. /\ req[q].op = "setStatus"
        /\ status' = [status EXCEPT ![req[q].rental] = req[q].to]
    BY <1>4 DEF WriteStatus
  <2>2. req[q].to \in Status /\ req[q].rental \in Rentals
    BY <2>1, TaskFields
  <2>3. req[q].to \in {"confirmed", "active", "completed"} => Collected(req[q].rental)
    BY <2>1 DEF DecisionsHold, Honest
  <2>4. QED
    BY <2>1, <2>2, <2>3 DEF TypeOK, Exists, Status, Blocking
<1>5. ASSUME NEW q \in Requests, CreateForRental(q) \/ Fail(q) \/ Refund(q)
      PROVE  \/ status'[r] = status[r]
             \/ status'[r] \in {"pending_payment", "cancelled"}
  BY <1>5 DEF CreateForRental, Fail, Refund, TypeOK
<1>6. ASSUME NEW q \in Requests, Confirm(q)
      PROVE  \/ status'[r] = status[r]
             \/ status'[r] = "confirmed" /\ Collected(r)'
  BY <1>6 DEF Confirm, Collected, TypeOK
<1>7. \/ StatusAfterSync[r] = status[r]
      \/ StatusAfterSync[r] = "cancelled"
      \/ /\ StatusAfterSync[r] \in {"active", "completed"}
         /\ status[r] \in {"confirmed", "active"}
  BY DEF StatusAfterSync, ExpiredUnpaid, Activated, Completed
<1>8. ASSUME NEW q \in Requests, SyncDuringCreateForRental(q)
      PROVE  status'[r] = StatusAfterSync[r]
  BY <1>8 DEF SyncDuringCreateForRental
<1>9. ASSUME SyncLifecycle PROVE status'[r] = StatusAfterSync[r]
  BY <1>9 DEF SyncLifecycle
<1>10. ASSUME \/ NextDay \/ UNCHANGED vars
              \/ \E q \in Requests :
                    \/ CreateRead(q) \/ UpdateStatus(q) \/ Approve(q) \/ Reject(q) \/ Cancel(q)
                    \/ CreatePayment(q) \/ MarkPaid(q) \/ GetOrCreate(q) \/ CreateInvoice(q)
                    \/ Abandon(q)
       PROVE  status'[r] = status[r]
  BY <1>10 DEF NextDay, vars, CreateRead, UpdateStatus, Approve, Reject, Cancel, CreatePayment,
               MarkPaid, GetOrCreate, CreateInvoice, Abandon, Decide
<1>11. \/ status'[r] = status[r]
       \/ /\ Exists(r)'
          /\ status'[r] \in {"confirmed", "active", "completed"} => Collected(r)'
  BY <1>1, <1>2, <1>3, <1>4, <1>5, <1>6, <1>7, <1>8, <1>9, <1>10 DEF Next, Exists
<1>12. QED
  BY <1>2, <1>11 DEF Exists

\* A payment or invoice is inserted for a rental that exists, and rentals are
\* never deleted.
LEMMA RowsStep ==
    ASSUME IInv, [Next]_vars
    PROVE  RowsHaveRental'
<1> USE DEF IInv
<1> SUFFICES ASSUME NEW r \in Rentals, payment'[r] # "none" \/ invoice'[r] # "none"
             PROVE  Exists(r)'
  BY DEF RowsHaveRental, Exists
<1>1. Exists(r) => Exists(r)'
  BY StatusStep
<1>2. CASE payment[r] # "none" \/ invoice[r] # "none"
  BY <1>1, <1>2 DEF RowsHaveRental
<1>3. ASSUME NEW q \in Requests,
             \/ CreateForRental(q) \/ SyncDuringCreateForRental(q) \/ CreateInvoice(q)
             \/ MarkPaid(q),
             \/ payment'[r] # payment[r]
             \/ invoice[r] = "none" /\ invoice'[r] # "none"
      PROVE  Exists(r)
  <2>1. req[q].op \in {"pay", "invoice", "markPaid"} => Exists(req[q].rental)
    BY DEF DecisionsHold, Honest
  <2>2. CASE CreateForRental(q)
    BY <1>3, <2>1, <2>2, TaskFields DEF CreateForRental, TypeOK
  <2>3. CASE SyncDuringCreateForRental(q)
    <3>1. payment'[r] # payment[r] => r = req[q].rental \/ ExpiredUnpaid(r)
      BY <2>3, TaskFields DEF SyncDuringCreateForRental, PaymentsAfterSync, TypeOK
    <3>2. ExpiredUnpaid(r) => Exists(r)
      BY DEF ExpiredUnpaid, Exists
    <3>3. invoice[r] = "none" => invoice'[r] = "none"
      BY <2>3, VoidType DEF SyncDuringCreateForRental
    <3>4. QED
      BY <1>3, <2>1, <2>3, <3>1, <3>2, <3>3 DEF SyncDuringCreateForRental
  <2>4. CASE CreateInvoice(q)
    BY <1>3, <2>1, <2>4, TaskFields DEF CreateInvoice, TypeOK
  <2>5. CASE MarkPaid(q)
    BY <1>3, <2>1, <2>5, TaskFields DEF MarkPaid, Markable, TypeOK
  <2>6. QED
    BY <1>3, <2>2, <2>3, <2>4, <2>5
<1>4. ASSUME NEW q \in Requests, Confirm(q) \/ Fail(q) \/ Refund(q)
      PROVE  (payment'[r] # "none" => payment[r] # "none")
  BY <1>4 DEF Confirm, Confirmable, Fail, Refund, TypeOK
<1>5. ASSUME NEW q \in Requests, Fail(q) \/ Refund(q) \/ WriteStatus(q)
      PROVE  (invoice'[r] # "none" => invoice[r] # "none")
  BY <1>5, VoidType DEF Fail, Refund, WriteStatus, VoidedByRefund, TypeOK
<1>6. ASSUME SyncLifecycle
      PROVE  (payment'[r] # "none" => payment[r] # "none") /\ (invoice'[r] # "none" => invoice[r] # "none")
  BY <1>6, VoidType DEF SyncLifecycle, PaymentsAfterSync, TypeOK
<1>7. ASSUME \/ NextDay \/ UNCHANGED vars
             \/ \E q \in Requests :
                    \/ CreateRead(q) \/ CreateWithAvailability(q)
                    \/ UpdateStatus(q) \/ Approve(q) \/ Reject(q) \/ Cancel(q)
                    \/ CreatePayment(q) \/ GetOrCreate(q) \/ Abandon(q)
      PROVE  payment'[r] = payment[r] /\ invoice'[r] = invoice[r]
  BY <1>7 DEF NextDay, vars, CreateRead, CreateWithAvailability, UpdateStatus, Approve, Reject,
              Cancel, CreatePayment, GetOrCreate, Abandon, Decide
<1>8. ASSUME NEW q \in Requests, Confirm(q) PROVE invoice' = invoice
  BY <1>8 DEF Confirm
<1>9. ASSUME NEW q \in Requests, WriteStatus(q) PROVE payment' = payment
  BY <1>9 DEF WriteStatus
<1>10. QED
  BY <1>1, <1>2, <1>3, <1>4, <1>5, <1>6, <1>7, <1>8, <1>9 DEF Next

\* Honest decisions stay honest, and new ones are honest when they are made.
LEMMA DecisionsStep ==
    ASSUME IInv, [Next]_vars
    PROVE  DecisionsHold'
<1> USE DEF IInv
<1>1. ASSUME NEW t \in Task \cup {Idle}, Honest(t) PROVE Honest(t)'
  <2>1. \A r \in Rentals : /\ Exists(r) => Exists(r)'
                           /\ Collected(r) => Collected(r)'
    BY StatusStep, CollectedStays
  <2>2. t.op \in {"setStatus", "pay", "invoice", "markPaid"} => t.rental \in Rentals
    BY <1>1 DEF Task, Idle
  <2>3. QED
    BY <1>1, <2>1, <2>2 DEF Honest
<1>2. ASSUME NEW q \in Requests, NEW t \in Task \cup {Idle},
             req' = [req EXCEPT ![q] = t], Honest(t)'
      PROVE  DecisionsHold'
  <2> SUFFICES ASSUME NEW p \in Requests PROVE Honest(req[p])'
    BY DEF DecisionsHold
  <2>1. CASE p = q
    <3>1. req'[p] = t
      BY <1>2, <2>1 DEF TypeOK
    <3>2. QED
      BY <1>2, <3>1 DEF Honest, Exists, Collected
  <2>2. CASE p # q
    <3>1. req'[p] = req[p] /\ req[p] \in Task \cup {Idle}
      BY <1>2, <2>2 DEF TypeOK
    <3>2. Honest(req[p])
      BY DEF DecisionsHold
    <3>3. PICK t1 \in Task \cup {Idle} : t1 = req[p]
      BY <3>1
    <3>4. Honest(t1)'
      BY <1>1, <3>2, <3>3
    <3>5. QED
      BY <3>1, <3>3, <3>4 DEF Honest, Exists, Collected
  <2>3. QED
    BY <2>1, <2>2
<1>3. ASSUME req' = req PROVE DecisionsHold'
  <2> SUFFICES ASSUME NEW p \in Requests PROVE Honest(req[p])'
    BY DEF DecisionsHold
  <2>1. PICK t \in Task \cup {Idle} : t = req[p]
    BY DEF TypeOK
  <2>2. Honest(t)'
    BY <1>1, <2>1 DEF DecisionsHold
  <2>3. QED
    BY <1>3, <2>1, <2>2 DEF Honest, Exists, Collected
<1>4. ASSUME NEW q \in Requests, Done(q) PROVE DecisionsHold'
  BY <1>2, <1>4 DEF Done, Honest, Idle
<1>5. ASSUME NEW q \in Requests, NEW t \in Task, Decide(q, t), Honest(t)
      PROVE  DecisionsHold'
  BY <1>1, <1>2, <1>5 DEF Decide
<1>6. ASSUME NEW q \in Requests, CreateRead(q) PROVE DecisionsHold'
  <2>1. PICK b \in Booking : Decide(q, [op |-> "create", booking |-> b])
    BY <1>6 DEF CreateRead
  <2>2. [op |-> "create", booking |-> b] \in Task
    BY DEF Task
  <2>3. QED
    BY <1>5, <2>1, <2>2 DEF Honest
<1>7. ASSUME NEW q \in Requests, NEW r \in Rentals, NEW next \in Status, Exists(r),
             StatusChangeAllowed(r, next), Decide(q, SetStatus(r, next))
      PROVE  DecisionsHold'
  <2>1. SetStatus(r, next) \in Task
    BY DEF Task, SetStatus
  <2>2. next \in {"confirmed", "active", "completed"} => Collected(r)
    BY <1>7 DEF StatusChangeAllowed, PaymentPaid, Collected, CollectedBeforeService
  <2>3. Honest(SetStatus(r, next))
    BY <1>7, <2>2 DEF Honest, SetStatus
  <2>4. QED
    BY <1>5, <1>7, <2>1, <2>3
<1>8. ASSUME NEW q \in Requests, UpdateStatus(q) PROVE DecisionsHold'
  BY <1>7, <1>8 DEF UpdateStatus
<1>9. ASSUME NEW q \in Requests, Approve(q) \/ Reject(q) \/ Cancel(q) PROVE DecisionsHold'
  BY <1>7, <1>9 DEF Approve, Reject, Cancel, StatusChangeAllowed, Exists, Status, Blocking
<1>10. ASSUME NEW q \in Requests, CreatePayment(q) PROVE DecisionsHold'
  <2>1. PICK r \in Rentals :
           /\ status[r] \in {"pending_payment", "approved"}
           /\ Decide(q, [op |-> "pay", rental |-> r, expected |-> status[r]])
    BY <1>10 DEF CreatePayment
  <2>2. [op |-> "pay", rental |-> r, expected |-> status[r]] \in Task
    BY <2>1 DEF Task
  <2>3. QED
    BY <1>5, <2>1, <2>2 DEF Honest, Exists
<1>11. ASSUME NEW q \in Requests, Confirm(q) PROVE DecisionsHold'
  <2>1. PICK r \in Rentals :
           /\ Confirmable(r)
           /\ payment' = [payment EXCEPT ![r] = "paid"]
           /\ req'     = [req EXCEPT ![q] = [op |-> "markPaid", rental |-> r]]
    BY <1>11 DEF Confirm, ThenMarkPaid
  <2>2. [op |-> "markPaid", rental |-> r] \in Task
    BY DEF Task
  <2>3. Exists(r)' /\ Collected(r)'
    BY <2>1, StatusStep DEF Confirmable, Exists, Collected, TypeOK
  <2>4. Honest([op |-> "markPaid", rental |-> r])'
    BY <2>3 DEF Honest
  <2>5. QED
    BY <1>2, <2>1, <2>2, <2>4
<1>12. ASSUME NEW q \in Requests, GetOrCreate(q) PROVE DecisionsHold'
  <2>1. PICK r \in Rentals :
           /\ Exists(r)
           /\ Decide(q, [op |-> "invoice", rental |-> r, as |-> IssueAs(r)])
    BY <1>12 DEF GetOrCreate
  <2>2. [op |-> "invoice", rental |-> r, as |-> IssueAs(r)] \in Task
    BY DEF Task, IssueAs
  <2>3. IssueAs(r) = "paid" => Collected(r)
    BY DEF IssueAs, PaymentPaid, Collected
  <2>4. QED
    BY <1>5, <2>1, <2>2, <2>3 DEF Honest
<1>13. ASSUME NEW q \in Requests,
              \/ CreateWithAvailability(q) \/ WriteStatus(q) \/ CreateForRental(q) \/ MarkPaid(q)
              \/ CreateInvoice(q) \/ SyncDuringCreateForRental(q) \/ Abandon(q)
       PROVE  Done(q)
  BY <1>13 DEF CreateWithAvailability, WriteStatus, CreateForRental, MarkPaid, CreateInvoice,
               SyncDuringCreateForRental, Abandon
<1>14. ASSUME \/ SyncLifecycle \/ NextDay \/ UNCHANGED vars
              \/ \E q \in Requests : Fail(q) \/ Refund(q)
       PROVE  req' = req
  BY <1>14 DEF SyncLifecycle, NextDay, vars, Fail, Refund
<1>15. QED
  BY <1>3, <1>4, <1>6, <1>8, <1>9, <1>10, <1>11, <1>12, <1>13, <1>14 DEF Next

-----------------------------------------------------------------------------
(* Reservations *)

\* How a step may touch the blocking rentals: none is added, or exactly one is,
\* with the exclusion constraint's consent.
NoneReserved ==
    /\ booking' = booking
    /\ \A r \in Rentals : status'[r] \in Blocking => status[r] \in Blocking

OneReserved(r) ==
    /\ status[r] \notin Blocking
    /\ status'[r] \in Blocking
    /\ \A o \in Rentals \ {r} : status'[o] = status[o] /\ booking'[o] = booking[o]
    /\ \A o \in Rentals \ {r} : status[o] \in Blocking => ~Overlap(booking[o], booking'[r])

LEMMA ReservationStep ==
    ASSUME IInv, [Next]_vars
    PROVE  NoneReserved \/ \E r \in Rentals : OneReserved(r)
<1> USE DEF IInv
<1>1. ASSUME NEW q \in Requests, CreateWithAvailability(q)
      PROVE  \E r \in Rentals : OneReserved(r)
  <2>1. PICK r \in Rentals :
           /\ ~Exists(r)
           /\ ConstraintAllows(r, "requested", req[q].booking)
           /\ status'  = [status EXCEPT ![r] = "requested"]
           /\ booking' = [booking EXCEPT ![r] = req[q].booking]
    BY <1>1 DEF CreateWithAvailability
  <2>2. OneReserved(r)
    BY <2>1 DEF OneReserved, ConstraintAllows, Blocking, Exists, TypeOK
  <2>3. QED
    BY <2>2
<1>2. ASSUME NEW q \in Requests, WriteStatus(q)
      PROVE  NoneReserved \/ \E r \in Rentals : OneReserved(r)
  <2> DEFINE r == req[q].rental
             s == req[q].to
  <2>1. r \in Rentals /\ s \in Status
    BY <1>2, TaskFields DEF WriteStatus
  <2>2. /\ ConstraintAllows(r, s, booking[r])
        /\ status' = [status EXCEPT ![r] = s]
        /\ booking' = booking
    BY <1>2 DEF WriteStatus
  <2> HIDE DEF r, s
  <2>3. CASE s \in Blocking /\ status[r] \notin Blocking
    BY <2>1, <2>2, <2>3 DEF OneReserved, ConstraintAllows, TypeOK
  <2>4. CASE s \notin Blocking \/ status[r] \in Blocking
    BY <2>1, <2>2, <2>4 DEF NoneReserved, TypeOK
  <2>5. QED
    BY <2>3, <2>4
<1>3. ASSUME NEW q \in Requests, CreateForRental(q) PROVE NoneReserved
  <2>1. req[q].op = "pay" /\ status[req[q].rental] = req[q].expected
    BY <1>3 DEF CreateForRental
  <2>2. req[q].rental \in Rentals /\ req[q].expected \in Blocking
    BY <2>1, TaskFields DEF Blocking
  <2>3. QED
    BY <1>3, <2>1, <2>2 DEF CreateForRental, NoneReserved, TypeOK
<1>4. ASSUME NEW q \in Requests, Confirm(q) PROVE NoneReserved
  BY <1>4 DEF Confirm, Confirmable, NoneReserved, Blocking, TypeOK
<1>5. ASSUME NEW q \in Requests, Fail(q) \/ Refund(q) PROVE NoneReserved
  BY <1>5 DEF Fail, Refund, NoneReserved, Blocking, TypeOK
<1>6. \A r \in Rentals : StatusAfterSync[r] \in Blocking => status[r] \in Blocking
  BY DEF StatusAfterSync, ExpiredUnpaid, Activated, Completed, Blocking
<1>7. ASSUME SyncLifecycle \/ \E q \in Requests : SyncDuringCreateForRental(q)
      PROVE  NoneReserved
  BY <1>6, <1>7 DEF SyncLifecycle, SyncDuringCreateForRental, NoneReserved
<1>8. ASSUME \/ NextDay \/ UNCHANGED vars
             \/ \E q \in Requests :
                    \/ CreateRead(q) \/ UpdateStatus(q) \/ Approve(q) \/ Reject(q) \/ Cancel(q)
                    \/ CreatePayment(q) \/ MarkPaid(q) \/ GetOrCreate(q) \/ CreateInvoice(q)
                    \/ Abandon(q)
      PROVE  NoneReserved
  BY <1>8 DEF NextDay, vars, CreateRead, UpdateStatus, Approve, Reject, Cancel, CreatePayment,
              MarkPaid, GetOrCreate, CreateInvoice, Abandon, Decide, NoneReserved
<1>9. QED
  BY <1>1, <1>2, <1>3, <1>4, <1>5, <1>7, <1>8 DEF Next

LEMMA NoDoubleBookingStep ==
    ASSUME IInv, [Next]_vars
    PROVE  NoDoubleBooking'
<1>1. CASE NoneReserved
  BY <1>1 DEF IInv, NoneReserved, NoDoubleBooking
<1>2. ASSUME NEW r \in Rentals, OneReserved(r) PROVE NoDoubleBooking'
  BY <1>2 DEF IInv, OneReserved, NoDoubleBooking, Overlap
<1>3. QED
  BY <1>1, <1>2, ReservationStep

-----------------------------------------------------------------------------
(* Invoices *)

\* An invoice turns paid only in MarkPaid and CreateInvoice, whose requests
\* saw the money; refunding leaves it collected.
LEMMA InvoiceStep ==
    ASSUME IInv, [Next]_vars
    PROVE  PaidInvoiceIsCollected'
<1> USE DEF IInv
<1> SUFFICES ASSUME NEW r \in Rentals, invoice'[r] = "paid"
             PROVE  Collected(r)'
  BY DEF PaidInvoiceIsCollected, Collected
<1>1. Collected(r) => Collected(r)'
  BY CollectedStays
<1>2. invoice[r] = "paid" => Collected(r)'
  BY <1>1 DEF PaidInvoiceIsCollected
<1>3. ASSUME NEW q \in Requests, CreateInvoice(q) \/ MarkPaid(q)
      PROVE  invoice[r] = "paid" \/ Collected(r)
  BY <1>3, TaskFields DEF CreateInvoice, MarkPaid, TypeOK, DecisionsHold, Honest
<1>4. ASSUME NEW q \in Requests,
             WriteStatus(q) \/ Fail(q) \/ Refund(q) \/ SyncDuringCreateForRental(q)
      PROVE  invoice[r] = "paid"
  BY <1>4, VoidType DEF WriteStatus, Fail, Refund, VoidedByRefund, SyncDuringCreateForRental, TypeOK
<1>5. ASSUME SyncLifecycle PROVE invoice[r] = "paid"
  BY <1>5, VoidType DEF SyncLifecycle
<1>6. ASSUME \/ NextDay \/ UNCHANGED vars
             \/ \E q \in Requests :
                    \/ CreateRead(q) \/ CreateWithAvailability(q)
                    \/ UpdateStatus(q) \/ Approve(q) \/ Reject(q) \/ Cancel(q)
                    \/ CreatePayment(q) \/ CreateForRental(q) \/ Confirm(q) \/ GetOrCreate(q)
                    \/ Abandon(q)
      PROVE  invoice' = invoice
  BY <1>6 DEF NextDay, vars, CreateRead, CreateWithAvailability, UpdateStatus, Approve, Reject,
              Cancel, CreatePayment, CreateForRental, Confirm, GetOrCreate, Abandon, Decide
<1>7. QED
  BY <1>1, <1>2, <1>3, <1>4, <1>5, <1>6 DEF Next

-----------------------------------------------------------------------------
(* The invariant and what follows from it *)

LEMMA InitIInv == Init => IInv
BY LastDayAssumption
   DEF Init, IInv, TypeOK, RowsHaveRental, DecisionsHold, Honest, NoDoubleBooking, Blocking,
       CollectedBeforeService, PaidInvoiceIsCollected, Exists, Idle, Unbooked, Booking, Days

LEMMA NextIInv ==
    ASSUME IInv, [Next]_vars
    PROVE  IInv'
<1>1. TypeOK'
  BY TypeStep DEF IInv
<1>2. RowsHaveRental' /\ DecisionsHold' /\ NoDoubleBooking' /\ PaidInvoiceIsCollected'
  BY RowsStep, DecisionsStep, NoDoubleBookingStep, InvoiceStep
<1>3. CollectedBeforeService'
  BY StatusStep DEF CollectedBeforeService, Collected
<1>4. QED
  BY <1>1, <1>2, <1>3 DEF IInv

THEOREM Invariance == Spec => []IInv
<1>1. Init => IInv
  BY InitIInv
<1>2. IInv /\ [Next]_vars => IInv'
  BY NextIInv
<1>3. QED
  BY <1>1, <1>2, PTL DEF Spec

\* The tables and requests are well typed in every reachable state.
THEOREM TypeCorrect == Spec => []TypeOK
<1>1. IInv => TypeOK
  BY DEF IInv
<1>2. QED
  BY <1>1, Invariance, PTL

\* No two rentals ever block the same day of a car.
THEOREM DoubleBookingExcluded == Spec => []NoDoubleBooking
<1>1. IInv => NoDoubleBooking
  BY DEF IInv
<1>2. QED
  BY <1>1, Invariance, PTL

\* No rental is ever confirmed, active or completed without its money having
\* been collected.
THEOREM ServiceIsCollected == Spec => []CollectedBeforeService
<1>1. IInv => CollectedBeforeService
  BY DEF IInv
<1>2. QED
  BY <1>1, Invariance, PTL

\* No invoice ever says "paid" for money that was never collected.
THEOREM InvoicesAreTruthful == Spec => []PaidInvoiceIsCollected
<1>1. IInv => PaidInvoiceIsCollected
  BY DEF IInv
<1>2. QED
  BY <1>1, Invariance, PTL

\* A payment only moves forward.
THEOREM PaymentsOnlyForward == Spec => PaymentNeverRevived
<1>1. TypeOK /\ [Next]_vars
         => [\A r \in Rentals : payment'[r] # payment[r]
                => <<payment[r], payment'[r]>> \in PaymentMoves]_vars
  BY PaymentStep
<1>2. QED
  BY <1>1, TypeCorrect, PTL DEF Spec, PaymentNeverRevived

\* A voided invoice stays void, whatever MarkPaid or CreateInvoice comes late.
THEOREM VoidStaysVoid == Spec => VoidIsFinal
<1> DEFINE A == \A r \in Rentals : invoice[r] = "void" => invoice'[r] = "void"
<1>1. ASSUME TypeOK, [Next]_vars PROVE A
  <2> USE <1>1
  <2>1. ASSUME NEW q \in Requests, CreateInvoice(q) \/ MarkPaid(q) PROVE A
    BY <2>1, TaskFields DEF CreateInvoice, MarkPaid, Markable, TypeOK
  <2>2. ASSUME NEW rs, invoice' = VoidIssued(rs) PROVE A
    BY <2>2 DEF VoidIssued
  <2>3. ASSUME NEW q \in Requests,
               WriteStatus(q) \/ Fail(q) \/ SyncDuringCreateForRental(q)
        PROVE  A
    BY <2>2, <2>3 DEF WriteStatus, Fail, SyncDuringCreateForRental
  <2>4. ASSUME NEW q \in Requests, Refund(q) PROVE A
    BY <2>4 DEF Refund, VoidedByRefund, TypeOK
  <2>5. ASSUME SyncLifecycle PROVE A
    BY <2>2, <2>5 DEF SyncLifecycle
  <2>6. ASSUME \/ NextDay \/ UNCHANGED vars
               \/ \E q \in Requests :
                    \/ CreateRead(q) \/ CreateWithAvailability(q)
                    \/ UpdateStatus(q) \/ Approve(q) \/ Reject(q) \/ Cancel(q)
                    \/ CreatePayment(q) \/ CreateForRental(q) \/ Confirm(q) \/ GetOrCreate(q)
                    \/ Abandon(q)
        PROVE  invoice' = invoice
    BY <2>6 DEF NextDay, vars, CreateRead, CreateWithAvailability, UpdateStatus, Approve, Reject,
                Cancel, CreatePayment, CreateForRental, Confirm, GetOrCreate, Abandon, Decide
  <2>7. QED
    BY <1>1, <2>1, <2>3, <2>4, <2>5, <2>6 DEF Next
<1>2. TypeOK /\ [Next]_vars => [A]_vars
  BY <1>1
<1>3. QED
  BY <1>2, TypeCorrect, PTL DEF Spec, VoidIsFinal

-----------------------------------------------------------------------------
(* The lifecycle implements the reservation calendar *)

\* Rental r holds day d of car c.
HoldsDay(r, c, d) ==
    /\ status[r] \in Blocking
    /\ booking[r].car = c
    /\ booking[r].start <= d
    /\ d <= booking[r].end

\* The value the refinement gives to the variable holders of the calendar.
HoldersOf == [c \in Cars |-> [d \in Days |-> {r \in Rentals : HoldsDay(r, c, d)}]]

LEMMA InitCalendar == Init => Calendar!Init
BY DEF Init, Calendar!Init, Blocking

\* Giving days back is one Release of the rentals that leave the blocking states.
LEMMA ReleaseStep ==
    ASSUME NoneReserved
    PROVE  Calendar!Next
<1> DEFINE rs == {r \in Rentals : status[r] \in Blocking /\ status'[r] \notin Blocking}
<1>1. ASSUME NEW r \in Rentals, NEW c \in Cars, NEW d \in Days
      PROVE  HoldsDay(r, c, d)' <=> HoldsDay(r, c, d) /\ r \notin rs
  BY DEF NoneReserved, HoldsDay
<1>2. HoldersOf' = [c \in Cars |-> [d \in Days |-> HoldersOf[c][d] \ rs]]
  <2>1. ASSUME NEW c \in Cars, NEW d \in Days
        PROVE  {r \in Rentals : HoldsDay(r, c, d)'} = {r \in Rentals : HoldsDay(r, c, d)} \ rs
    BY <1>1
  <2>2. HoldersOf' = [c \in Cars |-> [d \in Days |-> {r \in Rentals : HoldsDay(r, c, d)'}]]
    BY DEF HoldersOf
  <2>3. QED
    BY <2>1, <2>2 DEF HoldersOf
<1>3. PICK R \in SUBSET Rentals : R = rs
  OBVIOUS
<1>4. Calendar!Release(R)
  BY <1>2, <1>3 DEF Calendar!Release, HoldersOf, HoldsDay
<1>5. QED
  BY <1>4 DEF Calendar!Next

\* Taking days is one Reserve: the constraint's "no overlap" means that every
\* day of the new booking is free.
LEMMA ReserveStep ==
    ASSUME TypeOK, TypeOK', NEW r \in Rentals, OneReserved(r)
    PROVE  Calendar!Next
<1> DEFINE b == booking'[r]
<1>1. b \in Booking /\ b.car \in Cars /\ b.start \in Days /\ b.end \in Days
  BY DEF TypeOK, Exists, OneReserved, Blocking, Booking
<1>2. ASSUME NEW o \in Rentals, status[o] \in Blocking
      PROVE  booking[o] \in Booking
  BY <1>2 DEF TypeOK, Exists, Blocking
<1>3. ASSUME NEW d \in Days, b.start <= d, d <= b.end, NEW o \in Rentals, HoldsDay(o, b.car, d)
      PROVE  FALSE
  <2>1. o # r
    BY <1>3 DEF OneReserved, HoldsDay
  <2>2. ~Overlap(booking[o], b) /\ booking[o] \in Booking
    BY <1>2, <1>3, <2>1 DEF OneReserved, HoldsDay
  <2>3. booking[o].start \in Nat /\ booking[o].end \in Nat /\ d \in Nat
        /\ b.start \in Nat /\ b.end \in Nat
    BY <1>1, <2>2 DEF Booking, Days
  <2> HIDE DEF b
  <2>4. booking[o].start <= b.end /\ b.start <= booking[o].end
    BY <1>3, <2>3 DEF HoldsDay
  <2>5. QED
    BY <1>3, <2>2, <2>4 DEF Overlap, HoldsDay
<1>4. ASSUME NEW o \in Rentals, NEW c \in Cars, NEW d \in Days
      PROVE  HoldsDay(o, c, d)' <=>
                \/ o = r /\ c = b.car /\ b.start <= d /\ d <= b.end
                \/ o # r /\ HoldsDay(o, c, d)
  BY DEF OneReserved, HoldsDay
<1>5. \A c \in Cars, d \in Days : ~HoldsDay(r, c, d)
  BY DEF OneReserved, HoldsDay
<1> HIDE DEF b
<1>6. HoldersOf' = [c \in Cars |-> [d \in Days |->
          IF c = b.car /\ b.start <= d /\ d <= b.end THEN {r} ELSE HoldersOf[c][d]]]
  <2>1. ASSUME NEW c \in Cars, NEW d \in Days
        PROVE  {o \in Rentals : HoldsDay(o, c, d)'} =
                  IF c = b.car /\ b.start <= d /\ d <= b.end THEN {r}
                  ELSE {o \in Rentals : HoldsDay(o, c, d)}
    BY <1>3, <1>4, <1>5
  <2>2. HoldersOf' = [c \in Cars |-> [d \in Days |-> {o \in Rentals : HoldsDay(o, c, d)'}]]
    BY DEF HoldersOf
  <2>3. QED
    BY <2>1, <2>2 DEF HoldersOf
<1>7. \A c \in Cars, d \in Days : r \notin HoldersOf[c][d]
  BY <1>5 DEF HoldersOf
<1>8. \A d \in Days : b.start <= d /\ d <= b.end => HoldersOf[b.car][d] = {}
  BY <1>1, <1>3 DEF HoldersOf
<1>9. PICK car \in Cars, from \in Days, to \in Days :
         car = b.car /\ from = b.start /\ to = b.end
  BY <1>1
<1>10. Calendar!Reserve(r, car, from, to)
  BY <1>6, <1>7, <1>8, <1>9 DEF Calendar!Reserve, Calendar!Holds, HoldersOf, HoldsDay
<1>11. QED
  BY <1>10 DEF Calendar!Next

\* Every behaviour of the rental lifecycle is a behaviour of the reservation
\* calendar: a rental takes whole, free bookings and gives them back whole.
THEOREM ImplementsCalendar == Spec => CalendarSpec
<1>1. Init => Calendar!Init
  BY InitCalendar
<1>2. ASSUME IInv, [Next]_vars PROVE Calendar!Next
  <2>1. TypeOK /\ TypeOK'
    BY <1>2, NextIInv DEF IInv
  <2>2. QED
    BY <1>2, <2>1, ReservationStep, ReserveStep, ReleaseStep
<1>3. QED
  BY <1>1, <1>2, Invariance, PTL DEF Spec, CalendarSpec, Calendar!Spec

\* No day of a car ever has two holders: the calendar's promise, kept by the
\* rental tables.
THEOREM DaysHaveOneHolder == Spec => []Calendar!OneHolder
<1>1. ASSUME IInv PROVE Calendar!OneHolder
  <2> SUFFICES ASSUME NEW c \in Cars, NEW d \in Days, NEW r \in Rentals, NEW o \in Rentals,
                      HoldsDay(r, c, d), HoldsDay(o, c, d), r # o
               PROVE  FALSE
    BY DEF Calendar!OneHolder, HoldsDay
  <2>1. booking[r] \in Booking /\ booking[o] \in Booking
    BY <1>1 DEF IInv, TypeOK, Exists, HoldsDay, Blocking
  <2>2. /\ booking[r].start \in Nat /\ booking[r].end \in Nat
        /\ booking[o].start \in Nat /\ booking[o].end \in Nat
        /\ d \in Nat
    BY <2>1 DEF Booking, Days
  <2>3. booking[r].start <= booking[o].end /\ booking[o].start <= booking[r].end
    BY <2>2 DEF HoldsDay
  <2>4. QED
    BY <1>1, <2>3 DEF IInv, NoDoubleBooking, Overlap, HoldsDay
<1>2. QED
  BY <1>1, Invariance, PTL

-----------------------------------------------------------------------------
(* Undisturbed requests *)

\* While a request is between its read and its write, nobody but the worker
\* writes the rental it read, nor its payment: what SELECT ... FOR UPDATE held
\* until the write would give.  CreateForRental needs no such help, it looks
\* again at what CreatePayment read.
Undisturbed ==
    \A q \in Requests :
        req'[q] = req[q] /\ req[q].op \in {"setStatus", "invoice", "markPaid"} =>
            \/ SyncLifecycle
            \/ /\ status'[req[q].rental] = status[req[q].rental]
               /\ payment'[req[q].rental] = payment[req[q].rental]

InService == {"confirmed", "active", "completed"}

\* The status s of a rental and the status p of its payment go together.
Fits(s, p) ==
    /\ p = "pending" => s = "pending_payment"
    /\ p = "paid" => s \in InService
    /\ s \in {"confirmed", "active"} => p = "paid"

\* What the request read still justifies what it is going to write, though the
\* worker ran since.
Current(task) ==
    /\ task.op = "setStatus" => Fits(task.to, payment[task.rental])
    /\ task.op = "setStatus" /\ task.to = "cancelled" => status[task.rental] # "completed"
    /\ task.op = "invoice" /\ task.as = "paid" => PaymentPaid(task.rental)
    /\ task.op = "markPaid" => PaymentPaid(task.rental)

\* The inductive invariant of undisturbed requests, beside IInv.
SInv ==
    /\ \A r \in Rentals : Fits(status[r], payment[r])
    /\ PaidInvoiceIsPaid
    /\ \A q \in Requests : Current(req[q])

\* A request that does not move in a step of another request stays current.
LEMMA OtherCurrent ==
    ASSUME IInv, SInv, Undisturbed, ~SyncLifecycle, NEW p \in Requests, req'[p] = req[p]
    PROVE  Current(req[p])'
<1>1. Current(req[p])
  BY DEF SInv
<1>2. req[p].op \in {"setStatus", "invoice", "markPaid"}
         => /\ status'[req[p].rental] = status[req[p].rental]
            /\ payment'[req[p].rental] = payment[req[p].rental]
  BY DEF Undisturbed
<1>3. QED
  BY <1>1, <1>2 DEF Current, PaymentPaid

\* A request that decides writes nothing, so SInv needs its new task only.
LEMMA DecideCurrent ==
    ASSUME IInv, SInv, NEW q \in Requests, NEW t \in Task \cup {Idle},
           Decide(q, t), Current(t)
    PROVE  SInv'
<1>1. req' = [req EXCEPT ![q] = t] /\ UNCHANGED <<status, payment, invoice>>
  BY DEF Decide
<1>2. \A p \in Requests : req'[p] = IF p = q THEN t ELSE req[p]
  BY <1>1 DEF IInv, TypeOK
<1>3. ASSUME NEW p \in Requests PROVE Current(req[p])'
  <2>1. CASE p = q
    BY <1>1, <1>2, <2>1 DEF Current, PaymentPaid
  <2>2. CASE p # q
    BY <1>1, <1>2, <2>2 DEF SInv, Current, PaymentPaid
  <2>3. QED
    BY <2>1, <2>2
<1>4. QED
  BY <1>1, <1>3 DEF SInv, PaidInvoiceIsPaid

\* A request that ends leaves no task behind.
LEMMA DoneCurrent ==
    ASSUME IInv, SInv, Undisturbed, ~SyncLifecycle, NEW q \in Requests, Done(q)
    PROVE  \A p \in Requests : Current(req[p])'
<1>1. \A p \in Requests : req'[p] = IF p = q THEN Idle ELSE req[p]
  BY DEF Done, IInv, TypeOK
<1>2. Current(req[q])'
  BY <1>1 DEF Current, Idle
<1>3. QED
  BY <1>1, <1>2, OtherCurrent

\* Reading and deciding: what is decided fits what was read.
LEMMA DecisionCurrent ==
    ASSUME IInv, SInv, NEW q \in Requests,
           \/ CreateRead(q) \/ UpdateStatus(q) \/ Approve(q) \/ Reject(q) \/ Cancel(q)
           \/ CreatePayment(q) \/ GetOrCreate(q)
    PROVE  SInv'
<1>1. ASSUME NEW r \in Rentals, NEW s \in Status, Decide(q, SetStatus(r, s)),
             Fits(s, payment[r]), s = "cancelled" => status[r] # "completed"
      PROVE  SInv'
  <2>1. SetStatus(r, s) \in Task /\ Current(SetStatus(r, s))
    BY <1>1 DEF Task, SetStatus, Current
  <2>2. QED
    BY <1>1, <2>1, DecideCurrent
<1>2. ASSUME NEW r \in Rentals, NEW s \in Status, StatusChangeAllowed(r, s)
      PROVE  Fits(s, payment[r]) /\ (s = "cancelled" => status[r] # "completed")
  BY <1>2 DEF StatusChangeAllowed, SInv, Fits, InService, NoOpenPayment, PaymentPaid
<1>3. CASE UpdateStatus(q)
  BY <1>1, <1>2, <1>3 DEF UpdateStatus
<1>4. CASE Approve(q) \/ Reject(q) \/ Cancel(q)
  <2>1. PICK r \in Rentals, s \in {"approved", "rejected", "cancelled"} :
           /\ NoOpenPayment(r)
           /\ s = "cancelled" => status[r] # "completed"
           /\ Decide(q, SetStatus(r, s))
    BY <1>4 DEF Approve, Reject, Cancel
  <2>2. s \in Status /\ Fits(s, payment[r])
    BY <2>1 DEF Status, Blocking, Fits, NoOpenPayment
  <2>3. QED
    BY <1>1, <2>1, <2>2
<1>5. CASE CreateRead(q)
  <2>1. PICK b \in Booking : Decide(q, [op |-> "create", booking |-> b])
    BY <1>5 DEF CreateRead
  <2>2. [op |-> "create", booking |-> b] \in Task /\ Current([op |-> "create", booking |-> b])
    BY DEF Task, Current
  <2>3. QED
    BY <2>1, <2>2, DecideCurrent
<1>6. CASE CreatePayment(q)
  <2>1. PICK r \in Rentals, s \in {"approved", "pending_payment"} :
           Decide(q, [op |-> "pay", rental |-> r, expected |-> s])
    BY <1>6 DEF CreatePayment
  <2> DEFINE t == [op |-> "pay", rental |-> r, expected |-> s]
  <2>2. t \in Task /\ Current(t)
    BY DEF Task, Current
  <2>3. QED
    BY <2>1, <2>2, DecideCurrent
<1>7. CASE GetOrCreate(q)
  <2>1. PICK r \in Rentals : Decide(q, [op |-> "invoice", rental |-> r, as |-> IssueAs(r)])
    BY <1>7 DEF GetOrCreate
  <2> DEFINE t == [op |-> "invoice", rental |-> r, as |-> IssueAs(r)]
  <2>2. t \in Task /\ Current(t)
    BY DEF Task, Current, IssueAs
  <2>3. QED
    BY <2>1, <2>2, DecideCurrent
<1>8. QED
  BY <1>3, <1>4, <1>5, <1>6, <1>7

\* The write of a request and its end.
LEMMA WriteCurrent ==
    ASSUME IInv, SInv, Undisturbed, ~SyncLifecycle, NEW q \in Requests,
           \/ CreateWithAvailability(q) \/ WriteStatus(q) \/ CreateForRental(q)
           \/ MarkPaid(q) \/ CreateInvoice(q) \/ Abandon(q)
    PROVE  SInv'
<1> USE DEF IInv
<1>1. Current(req[q]) /\ PaidInvoiceIsPaid /\ \A r \in Rentals : Fits(status[r], payment[r])
  BY DEF SInv
<1>2. Done(q)
  BY DEF CreateWithAvailability, WriteStatus, CreateForRental, MarkPaid, CreateInvoice, Abandon
<1>3. \A p \in Requests : Current(req[p])'
  BY <1>2, DoneCurrent
<1>4. CASE CreateWithAvailability(q)
  <2>1. PICK r \in Rentals :
           ~Exists(r) /\ status' = [status EXCEPT ![r] = "requested"]
    BY <1>4 DEF CreateWithAvailability
  <2>2. payment[r] = "none" /\ UNCHANGED <<payment, invoice>>
    BY <1>4, <2>1 DEF CreateWithAvailability, RowsHaveRental
  <2>3. \A o \in Rentals : Fits(status[o], payment[o])'
    BY <1>1, <2>1, <2>2 DEF Fits, TypeOK
  <2>4. QED
    BY <1>1, <1>3, <2>2, <2>3 DEF SInv, PaidInvoiceIsPaid
<1>5. CASE WriteStatus(q)
  <2>1. req[q].op = "setStatus" /\ req[q].rental \in Rentals
    BY <1>5, TaskFields DEF WriteStatus
  <2>2. status' = [status EXCEPT ![req[q].rental] = req[q].to] /\ payment' = payment
    BY <1>5 DEF WriteStatus
  <2>3. \A o \in Rentals : Fits(status[o], payment[o])'
    BY <1>1, <2>1, <2>2 DEF Current, Fits, TypeOK
  <2>4. \A o \in Rentals : invoice'[o] = "paid" => invoice[o] = "paid"
    BY <1>5, VoidType DEF WriteStatus
  <2>5. QED
    BY <1>1, <1>3, <2>2, <2>3, <2>4 DEF SInv, PaidInvoiceIsPaid
<1>6. CASE CreateForRental(q)
  <2>1. req[q].rental \in Rentals
    BY <1>6, TaskFields DEF CreateForRental
  <2>2. /\ payment[req[q].rental] = "none"
        /\ status'  = [status EXCEPT ![req[q].rental] = "pending_payment"]
        /\ payment' = [payment EXCEPT ![req[q].rental] = "pending"]
        /\ invoice' = invoice
    BY <1>6 DEF CreateForRental
  <2>3. \A o \in Rentals : Fits(status[o], payment[o])'
    BY <1>1, <2>1, <2>2 DEF Fits, TypeOK
  <2>4. PaidInvoiceIsPaid'
    BY <1>1, <2>1, <2>2 DEF PaidInvoiceIsPaid, TypeOK
  <2>5. QED
    BY <1>3, <2>3, <2>4 DEF SInv
<1>7. CASE MarkPaid(q) \/ CreateInvoice(q)
  <2>1. status' = status /\ payment' = payment
    BY <1>7 DEF MarkPaid, CreateInvoice
  <2>2. \A o \in Rentals : invoice'[o] = "paid" => invoice[o] = "paid" \/ PaymentPaid(o)
    BY <1>1, <1>7, TaskFields DEF MarkPaid, CreateInvoice, Current, TypeOK
  <2>3. QED
    BY <1>1, <1>3, <2>1, <2>2 DEF SInv, PaidInvoiceIsPaid, PaymentPaid
<1>8. CASE Abandon(q)
  BY <1>1, <1>3, <1>8 DEF Abandon, SInv, PaidInvoiceIsPaid
<1>9. QED
  BY <1>4, <1>5, <1>6, <1>7, <1>8

\* The payment handlers that are one transaction.
LEMMA PaymentCurrent ==
    ASSUME IInv, SInv, Undisturbed, ~SyncLifecycle, NEW q \in Requests,
           Confirm(q) \/ Fail(q) \/ Refund(q)
    PROVE  SInv'
<1> USE DEF IInv
<1>1. \A p \in Requests : req'[p] = req[p] => Current(req[p])'
  BY OtherCurrent
<1>2. /\ PaidInvoiceIsPaid
      /\ \A r \in Rentals : Fits(status[r], payment[r])
  BY DEF SInv
<1>3. CASE Confirm(q)
  <2>1. PICK r \in Rentals :
           /\ Confirmable(r)
           /\ payment' = [payment EXCEPT ![r] = "paid"]
           /\ status'  = [status EXCEPT ![r] = "confirmed"]
           /\ req'     = [req EXCEPT ![q] = [op |-> "markPaid", rental |-> r]]
           /\ invoice' = invoice
    BY <1>3 DEF Confirm, ThenMarkPaid
  <2>2. \A o \in Rentals : Fits(status[o], payment[o])'
    BY <1>2, <2>1 DEF Fits, InService, TypeOK
  <2>3. PaidInvoiceIsPaid'
    BY <1>2, <2>1 DEF PaidInvoiceIsPaid, TypeOK
  <2>4. \A p \in Requests : Current(req[p])'
    <3>1. req'[q] = [op |-> "markPaid", rental |-> r] /\ payment'[r] = "paid"
      BY <2>1 DEF TypeOK
    <3>2. \A p \in Requests : p # q => req'[p] = req[p]
      BY <2>1 DEF TypeOK
    <3>3. Current(req[q])'
      BY <3>1 DEF Current, PaymentPaid
    <3>4. QED
      BY <1>1, <3>2, <3>3
  <2>5. QED
    BY <2>2, <2>3, <2>4 DEF SInv
<1>4. CASE Fail(q) \/ Refund(q)
  <2>1. PICK r \in Rentals :
           /\ \/ /\ payment[r] = "pending"
                 /\ payment' = [payment EXCEPT ![r] = "failed"]
                 /\ status'  = [status EXCEPT ![r] = "cancelled"]
                 /\ invoice' = VoidIssued({r})
              \/ /\ payment[r] = "paid"
                 /\ payment' = [payment EXCEPT ![r] = "refunded"]
                 /\ status'  = IF status[r] = "completed" THEN status
                               ELSE [status EXCEPT ![r] = "cancelled"]
                 /\ invoice' = VoidedByRefund(r)
           /\ req' = req
    BY <1>4 DEF Fail, Refund
  <2>2. \A o \in Rentals : Fits(status[o], payment[o])'
    BY <1>2, <2>1 DEF Fits, InService, TypeOK
  <2>3. PaidInvoiceIsPaid'
    <3>1. CASE payment[r] = "pending"
      <4>1. \A o \in Rentals : invoice'[o] = "paid" => invoice[o] = "paid"
        BY <2>1, <3>1, VoidType
      <4>2. QED
        BY <1>2, <2>1, <3>1, <4>1 DEF PaidInvoiceIsPaid, TypeOK
    <3>2. CASE payment[r] = "paid"
      BY <1>2, <2>1, <3>2 DEF PaidInvoiceIsPaid, VoidedByRefund, TypeOK
    <3>3. QED
      BY <2>1, <3>1, <3>2
  <2>4. \A p \in Requests : Current(req[p])'
    BY <1>1, <2>1
  <2>5. QED
    BY <2>2, <2>3, <2>4 DEF SInv
<1>5. QED
  BY <1>3, <1>4

\* What a run of the worker does to one rental: only an unpaid rental is
\* cancelled, only a paid one goes on, and no payment opens.
LEMMA SyncCurrent ==
    ASSUME IInv, SInv, SyncLifecycle
    PROVE  SInv'
<1> USE DEF IInv
<1>1. /\ PaidInvoiceIsPaid
      /\ \A r \in Rentals : Fits(status[r], payment[r])
      /\ \A q \in Requests : Current(req[q])
  BY DEF SInv
<1>2. \A r \in Rentals : /\ status'[r] = StatusAfterSync[r]
                         /\ payment'[r] = PaymentsAfterSync[r]
  BY DEF SyncLifecycle
<1>3. ASSUME NEW r \in Rentals PROVE Fits(status'[r], payment'[r])
  BY <1>1, <1>2 DEF Fits, InService, StatusAfterSync, PaymentsAfterSync, ExpiredUnpaid,
                    Activated, Completed
<1>4. ASSUME NEW r \in Rentals
      PROVE  /\ payment[r] = "paid" <=> payment'[r] = "paid"
             /\ payment'[r] = "pending" => payment[r] = "pending"
             /\ status'[r] = "completed" => status[r] = "completed" \/ payment[r] = "paid"
  BY <1>1, <1>2 DEF Fits, InService, StatusAfterSync, PaymentsAfterSync, ExpiredUnpaid,
                    Activated, Completed
<1>5. PaidInvoiceIsPaid'
  <2>1. \A r \in Rentals : invoice'[r] = "paid" => invoice[r] = "paid"
    BY VoidType DEF SyncLifecycle
  <2>2. QED
    BY <1>1, <1>4, <2>1 DEF PaidInvoiceIsPaid
<1>6. ASSUME NEW q \in Requests PROVE Current(req[q])'
  <2>1. req' = req
    BY DEF SyncLifecycle
  <2>2. Current(req[q])
    BY <1>1
  <2>3. QED
    BY <1>4, <2>1, <2>2, TaskFields DEF Current, Fits, InService, PaymentPaid
<1>7. QED
  BY <1>3, <1>5, <1>6 DEF SInv

LEMMA InitSInv == Init => SInv
BY DEF Init, SInv, Fits, PaidInvoiceIsPaid, Current, Idle

LEMMA NextSInv ==
    ASSUME IInv, SInv, ~WorkerOverlaps, [Next]_vars, [Undisturbed]_vars
    PROVE  SInv'
<1>1. CASE NextDay \/ UNCHANGED vars
  BY <1>1 DEF NextDay, vars, SInv, PaidInvoiceIsPaid, Current, PaymentPaid
<1>2. ~\E q \in Requests : SyncDuringCreateForRental(q)
  BY DEF SyncDuringCreateForRental
<1>3. QED
  BY <1>1, <1>2, DecisionCurrent, WriteCurrent, PaymentCurrent, SyncCurrent DEF Next

\* Status, payment and invoice of a rental go together as long as requests are
\* undisturbed, whatever the worker does between their reads and writes.
THEOREM UndisturbedInvariance ==
    ASSUME ~WorkerOverlaps
    PROVE  Spec /\ [][Undisturbed]_vars => []SInv
<1>1. Init => SInv
  BY InitSInv
<1>2. IInv /\ SInv /\ [Next]_vars /\ [Undisturbed]_vars => SInv'
  BY NextSInv
<1>3. QED
  BY <1>1, <1>2, Invariance, PTL DEF Spec

\* What SInv says to a reader of the rental, payment and invoice rows.
LEMMA SInvMeans == SInv => OpenPaymentBacked /\ PaidInvoiceIsPaid /\ ClosedHasNoOpenPayment
BY DEF SInv, OpenPaymentBacked, ClosedHasNoOpenPayment, NoOpenPayment, Fits, InService

\* While requests are undisturbed, an open payment always belongs to a rental
\* in the matching state, with the worker running between the read and the
\* write of every handler.
THEOREM OpenPaymentsAreBacked ==
    ASSUME ~WorkerOverlaps
    PROVE  Spec /\ [][Undisturbed]_vars => []OpenPaymentBacked
BY SInvMeans, UndisturbedInvariance, PTL

\* While requests are undisturbed, no invoice says "paid" for a payment that
\* was refunded or failed.
THEOREM PaidInvoicesArePaid ==
    ASSUME ~WorkerOverlaps
    PROVE  Spec /\ [][Undisturbed]_vars => []PaidInvoiceIsPaid
BY SInvMeans, UndisturbedInvariance, PTL

\* While requests are undisturbed, no rental is cancelled or rejected with a
\* payment still open: only a write between the read and the write of another
\* request breaks what ensureRentalHasNoOpenPayment promises.
THEOREM ClosingIsSafe ==
    ASSUME ~WorkerOverlaps
    PROVE  Spec /\ [][Undisturbed]_vars => []ClosedHasNoOpenPayment
BY SInvMeans, UndisturbedInvariance, PTL

\* While requests are undisturbed, a completed rental is never cancelled.
THEOREM CompletedStays ==
    ASSUME ~WorkerOverlaps
    PROVE  Spec /\ [][Undisturbed]_vars => CompletedNotCancelled
<1> DEFINE A == \A r \in Rentals : status[r] = "completed" => status'[r] # "cancelled"
<1>1. ASSUME IInv, SInv, [Next]_vars PROVE A
  <2> SUFFICES ASSUME NEW r \in Rentals, status[r] = "completed" PROVE status'[r] # "cancelled"
    OBVIOUS
  <2> USE <1>1 DEF IInv
  <2>1. payment[r] # "pending" /\ \A q \in Requests : Current(req[q])
    BY DEF SInv, Fits
  <2>2. ASSUME NEW q \in Requests, WriteStatus(q) PROVE status'[r] # "cancelled"
    BY <2>1, <2>2, TaskFields DEF WriteStatus, Current, TypeOK
  <2>3. ASSUME NEW q \in Requests,
               CreateWithAvailability(q) \/ CreateForRental(q) \/ Confirm(q)
        PROVE  status'[r] # "cancelled"
    BY <2>3, TaskFields DEF CreateWithAvailability, CreateForRental, Confirm, TypeOK
  <2>4. ASSUME NEW q \in Requests, Fail(q) \/ Refund(q) PROVE status'[r] # "cancelled"
    BY <2>1, <2>4 DEF Fail, Refund, TypeOK
  <2>5. ASSUME SyncLifecycle PROVE status'[r] # "cancelled"
    BY <2>5 DEF SyncLifecycle, StatusAfterSync, ExpiredUnpaid
  <2>6. ~\E q \in Requests : SyncDuringCreateForRental(q)
    BY DEF SyncDuringCreateForRental
  <2>7. ASSUME \/ NextDay \/ UNCHANGED vars
               \/ \E q \in Requests :
                    \/ CreateRead(q) \/ UpdateStatus(q) \/ Approve(q) \/ Reject(q) \/ Cancel(q)
                    \/ CreatePayment(q) \/ MarkPaid(q) \/ GetOrCreate(q) \/ CreateInvoice(q)
                    \/ Abandon(q)
        PROVE  status' = status
    BY <2>7 DEF NextDay, vars, CreateRead, UpdateStatus, Approve, Reject, Cancel, CreatePayment,
                MarkPaid, GetOrCreate, CreateInvoice, Abandon, Decide
  <2>8. QED
    BY <2>2, <2>3, <2>4, <2>5, <2>6, <2>7 DEF Next
<1>2. IInv /\ SInv /\ [Next]_vars => [A]_vars
  BY <1>1
<1>3. QED
  BY <1>2, Invariance, UndisturbedInvariance, PTL DEF Spec, CompletedNotCancelled

\* One request runs at a time beside the worker and the clock.
OneAtATime == (\A p, q \in Requests : p = q) /\ ~WorkerOverlaps

\* A request that runs alone is undisturbed.
LEMMA AloneIsUndisturbed ==
    ASSUME IInv, OneAtATime, [Next]_vars
    PROVE  Undisturbed
<1> SUFFICES ASSUME NEW q \in Requests, req'[q] = req[q], ~SyncLifecycle,
                    req[q].op \in {"setStatus", "invoice", "markPaid"}
             PROVE  UNCHANGED <<status, payment>>
  BY DEF Undisturbed
<1>1. req[q] # Idle /\ \A p \in Requests : p = q
  BY DEF Idle, OneAtATime
<1>2. ~Done(q)
  BY <1>1 DEF Done, IInv, TypeOK
<1>3. CASE NextDay \/ UNCHANGED vars
  BY <1>3 DEF NextDay, vars
<1>4. ASSUME NEW p \in Requests,
             \/ CreateRead(p) \/ UpdateStatus(p) \/ Approve(p) \/ Reject(p) \/ Cancel(p)
             \/ CreatePayment(p) \/ Confirm(p) \/ Fail(p) \/ Refund(p) \/ GetOrCreate(p)
      PROVE  FALSE
  BY <1>1, <1>4 DEF CreateRead, UpdateStatus, Approve, Reject, Cancel, CreatePayment, Confirm,
                    Fail, Refund, GetOrCreate, Decide
<1>5. ASSUME NEW p \in Requests,
             \/ CreateWithAvailability(p) \/ WriteStatus(p) \/ CreateForRental(p)
             \/ MarkPaid(p) \/ CreateInvoice(p) \/ SyncDuringCreateForRental(p) \/ Abandon(p)
      PROVE  FALSE
  <2>1. Done(p) /\ p = q
    BY <1>1, <1>5 DEF CreateWithAvailability, WriteStatus, CreateForRental, MarkPaid,
                      CreateInvoice, SyncDuringCreateForRental, Abandon
  <2>2. QED
    BY <1>2, <2>1
<1>6. QED
  BY <1>3, <1>4, <1>5 DEF Next

\* The four promises hold when one request runs at a time beside the worker,
\* the case rental_service.go is written for.
THEOREM SerialRequestsAreSafe ==
    ASSUME OneAtATime
    PROVE  Spec => /\ []OpenPaymentBacked
                   /\ []PaidInvoiceIsPaid
                   /\ []ClosedHasNoOpenPayment
                   /\ CompletedNotCancelled
<1>1. ~WorkerOverlaps
  BY DEF OneAtATime
<1>2. IInv /\ [Next]_vars => [Undisturbed]_vars
  BY AloneIsUndisturbed
<1>3. Spec => [][Undisturbed]_vars
  BY <1>2, Invariance, PTL DEF Spec
<1>4. QED
  BY <1>1, <1>3, OpenPaymentsAreBacked, PaidInvoicesArePaid, ClosingIsSafe, CompletedStays
=============================================================================
