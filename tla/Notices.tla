------------------------------- MODULE Notices -------------------------------
(***************************************************************************)
(* What a customer hears of his rental: the notices in his inbox and the   *)
(* mail about it.  The handler reads the rental, the service reads it      *)
(* again, decides and writes its status, then the handler inserts a notice *)
(* and sends a mail and drops the errors of both; no transaction or lock   *)
(* spans two of these steps.  Payments, the worker and the customer's own  *)
(* cancellation change the status and tell nobody.                         *)
(*                                                                         *)
(* A notice does not name its rental, so each customer here has one.  What *)
(* the calendar, the payments and the dates refuse is in RentalLifecycle;  *)
(* here such a refusal is an Abandon, and may happen or not.               *)
(*                                                                         *)
(* doubt and overtaken are history: no guard reads them.                   *)
(***************************************************************************)
EXTENDS Naturals, Sequences, FiniteSets

CONSTANTS
    Rentals,    \* rentals, each the only one of its customer
    Requests,   \* HTTP requests that can be in flight at the same time
    PageSize,   \* the LIMIT of ListByUserID, 50 in the code
    MaxNotices  \* bound: notices in an inbox

ASSUME PageSizeAssumption == PageSize \in Nat \ {0}
ASSUME MaxNoticesAssumption == MaxNotices \in Nat

VARIABLES
    status,     \* rentals.status, "absent" before the row is inserted
    inbox,      \* the customer's notifications, in the order of created_at
    mailed,     \* what the last mail to the customer said, "absent" before
    req,        \* what each request still has to do
    doubt,      \* history: channels that may not tell the status of a rental
    overtaken   \* history: requests whose last read or write another write passed

vars == <<status, inbox, mailed, req, doubt, overtaken>>

-----------------------------------------------------------------------------
(* Rows, notices and requests *)

Status == {"requested", "approved", "pending_payment", "confirmed", "active",
           "rejected", "cancelled", "completed"}

\* rentalStatusNotification has a message for these.
Notable == {"approved", "rejected", "cancelled"}
About   == Notable \cup {"requested"}
Notice  == [about : About, read : BOOLEAN]
Channel == {"inbox", "mail"}

Idle == [op |-> "idle"]

\* After the write: tell of it, read again first, tell nobody as the customer
\* asked for it, or tell nobody as UpdateStatus found nothing to tell.
Task == [op : {"found"}, rental : Rentals, before : Status]
        \cup [op : {"write"}, rental : Rentals, to : Status,
             then : {"tell", "reread", "withdrawn", "nothing"}]
        \cup [op : {"reread"}, rental : Rentals]
        \cup [op : {"notify", "mail"}, rental : Rentals, about : About]

Exists(r) == status[r] # "absent"

Init ==
    /\ status = [r \in Rentals |-> "absent"]
    /\ inbox  = [r \in Rentals |-> <<>>]
    /\ mailed = [r \in Rentals |-> "absent"]
    /\ req    = [q \in Requests |-> Idle]
    /\ doubt  = {}
    /\ overtaken = {}

Become(q, task) == req' = [req EXCEPT ![q] = task]

\* The requests about r that are under way.
Handling(r) == {q \in Requests : req[q] # Idle /\ req[q].rental = r}

Doubtful(channels, r) == doubt \cup (channels \X {r})

-----------------------------------------------------------------------------
(* The status of a rental changes *)

\* POST /rentals: the row is inserted; a notice follows and no mail.
Create(q) ==
    /\ req[q] = Idle
    /\ \E r \in Rentals :
        /\ ~Exists(r)
        /\ status' = [status EXCEPT ![r] = "requested"]
        /\ doubt' = Doubtful({"mail"}, r)
        /\ Become(q, [op |-> "notify", rental |-> r, about |-> "requested"])
    /\ UNCHANGED <<inbox, mailed, overtaken>>

Write(r, s, then) == [op |-> "write", rental |-> r, to |-> s, then |-> then]

\* The handler of UpdateStatus reads the rental, to compare in Tells.  What the
\* other handlers read before they call the service serves their audit rows only.
FindRental(q) ==
    /\ req[q] = Idle
    /\ \E r \in Rentals :
        /\ Exists(r)
        /\ Become(q, [op |-> "found", rental |-> r, before |-> status[r]])
    /\ UNCHANGED <<status, inbox, mailed, doubt, overtaken>>

\* validateRentalStatusChange, without the payments
ChangeAllowed(from, to) ==
    \/ to = from
    \/ to = "approved"  /\ from \in {"requested", "rejected", "cancelled"}
    \/ to = "rejected"  /\ from \in {"requested", "approved"}
    \/ to = "cancelled" /\ from # "completed"
    \/ to = "active"    /\ from = "confirmed"
    \/ to = "completed" /\ from = "active"

\* Mutant: the comparison of UpdateStatus is inverted.
TellsOfNoDifference(before, to) == before = to /\ to \in Notable

Tells(before, to) == before # to /\ to \in Notable

\* The service of UpdateStatus reads the rental again.
ValidateUpdate(q) ==
    /\ req[q].op = "found"
    /\ LET r == req[q].rental
       IN  \E s \in Status :
            /\ ChangeAllowed(status[r], s)
            /\ Become(q, Write(r, s, IF Tells(req[q].before, s) THEN "tell" ELSE "nothing"))
    /\ UNCHANGED <<status, inbox, mailed, doubt, overtaken>>

\* The services of Approve, Reject and Cancel.
Validate(q) ==
    /\ req[q] = Idle
    /\ \E r \in Rentals :
        \/ /\ status[r] = "requested"
           /\ Become(q, Write(r, "approved", "tell"))
        \/ /\ status[r] \in {"requested", "approved"}
           /\ Become(q, Write(r, "rejected", "tell"))
        \/ /\ status[r] \notin {"absent", "cancelled", "completed"}
           /\ \E then \in {"reread", "withdrawn"} : Become(q, Write(r, "cancelled", then))
    /\ UNCHANGED <<status, inbox, mailed, doubt, overtaken>>

Afterwards(task) ==
    CASE task.then = "tell"   -> [op |-> "notify", rental |-> task.rental, about |-> task.to]
      [] task.then = "reread" -> [op |-> "reread", rental |-> task.rental]
      [] OTHER                -> Idle

\* A change of which nobody is told: the customer's own, one to a status without
\* a message, and one from a status other than the one UpdateStatus had read.
MaySurprise(q) ==
    \/ req[q].then = "withdrawn"
    \/ req[q].then = "nothing" /\ (req[q].to \notin Notable \/ q \in overtaken)

\* The repository's UpdateStatus and Cancel have no condition on the status.
WriteStatus(q) ==
    /\ req[q].op = "write"
    /\ LET r == req[q].rental
           s == req[q].to
           changes == s # status[r]
       IN  /\ status' = [status EXCEPT ![r] = s]
           /\ doubt' = IF changes /\ MaySurprise(q) THEN Doubtful(Channel, r) ELSE doubt
           /\ overtaken' = (IF changes THEN overtaken \cup Handling(r) ELSE overtaken) \ {q}
    /\ Become(q, Afterwards(req[q]))
    /\ UNCHANGED <<inbox, mailed>>

\* What payments and the lifecycle worker may do to the status of a rental.
SilentlyTo(s) ==
    CASE s = "pending_payment" -> {"approved"}
      [] s = "confirmed" -> {"pending_payment"}
      [] s = "active"    -> {"confirmed"}
      [] s = "completed" -> {"confirmed", "active"}
      [] s = "cancelled" -> {"requested", "approved", "pending_payment", "confirmed",
                             "active", "rejected", "completed"}
      [] OTHER -> {}

SilentChange ==
    /\ \E r \in Rentals, s \in Status :
        /\ status[r] \in SilentlyTo(s)
        /\ status' = [status EXCEPT ![r] = s]
        /\ doubt' = Doubtful(Channel, r)
        /\ overtaken' = overtaken \cup Handling(r)
    /\ UNCHANGED <<inbox, mailed, req>>

-----------------------------------------------------------------------------
(* Telling the customer *)

\* Mutant: the administrator's cancellation is told whatever is read.
WorthTelling(s) == TRUE

IsNotable(s) == s \in Notable

\* Cancel reads the rental again and tells of what it finds.
Reread(q) ==
    /\ req[q].op = "reread"
    /\ LET r == req[q].rental
       IN  IF IsNotable(status[r])
           THEN /\ Become(q, [op |-> "notify", rental |-> r, about |-> status[r]])
                /\ doubt' = doubt
           ELSE /\ Become(q, Idle)
                /\ doubt' = Doubtful(Channel, r)
    /\ overtaken' = overtaken \ {q}
    /\ UNCHANGED <<status, inbox, mailed>>

\* q has told r on this channel, by the write it made or after another's.
ToldOn(channel, q, r) ==
    doubt' = IF q \in overtaken THEN Doubtful({channel}, r) ELSE doubt \ {<<channel, r>>}

\* POST /rentals has nothing to mail.
AfterNotice(task) ==
    IF task.about = "requested" THEN Idle ELSE [task EXCEPT !.op = "mail"]

StillOvertaken(q) ==
    IF AfterNotice(req[q]) = Idle THEN overtaken \ {q} ELSE overtaken

Notify(q) ==
    /\ req[q].op = "notify"
    /\ LET r == req[q].rental
       IN  /\ Len(inbox[r]) < MaxNotices
           /\ inbox' = [inbox EXCEPT ![r] =
                            Append(@, [about |-> req[q].about, read |-> FALSE])]
           /\ ToldOn("inbox", q, r)
    /\ overtaken' = StillOvertaken(q)
    /\ Become(q, AfterNotice(req[q]))
    /\ UNCHANGED <<status, mailed>>

\* The insert fails and the handler goes on to the mail.
LoseNotice(q) ==
    /\ req[q].op = "notify"
    /\ doubt' = Doubtful({"inbox"}, req[q].rental)
    /\ overtaken' = StillOvertaken(q)
    /\ Become(q, AfterNotice(req[q]))
    /\ UNCHANGED <<status, inbox, mailed>>

\* The server took the mail, whatever it answers to QUIT.
Mail(q) ==
    /\ req[q].op = "mail"
    /\ mailed' = [mailed EXCEPT ![req[q].rental] = req[q].about]
    /\ ToldOn("mail", q, req[q].rental)
    /\ overtaken' = overtaken \ {q}
    /\ Become(q, Idle)
    /\ UNCHANGED <<status, inbox>>

\* Channels on which a request would still have told the customer.
Untold(task) ==
    CASE task.op \in {"found", "write"} -> {}
      [] task.op = "reread" -> Channel
      [] task.op = "notify" -> IF task.about = "requested" THEN {"inbox"} ELSE Channel
      [] task.op = "mail"   -> {"mail"}

\* A refusal, a database or mail error, a dropped connection or a crash.
Abandon(q) ==
    /\ req[q] # Idle
    /\ doubt' = Doubtful(Untold(req[q]), req[q].rental)
    /\ overtaken' = overtaken \ {q}
    /\ Become(q, Idle)
    /\ UNCHANGED <<status, inbox, mailed>>

-----------------------------------------------------------------------------
(* The inbox *)

Unread(r) == {i \in DOMAIN inbox[r] : ~inbox[r][i].read}

\* ORDER BY created_at DESC LIMIT
Page(items) == {i \in items : Cardinality({j \in items : j > i}) < PageSize}

\* Mutant: the rows are filtered after they are limited.
UnreadOfPage(r) == Page(DOMAIN inbox[r]) \cap Unread(r)

\* GET /notifications?unread=true
UnreadPage(r) == Page(Unread(r))

\* GET /notifications/unread-count
CountUnread(r) == Cardinality(Unread(r))

\* POST /notifications/:id/read, of a notice of one's own.
MarkRead ==
    /\ \E r \in Rentals : \E i \in DOMAIN inbox[r] :
        inbox' = [inbox EXCEPT ![r][i].read = TRUE]
    /\ UNCHANGED <<status, mailed, req, doubt, overtaken>>

Next ==
    \/ SilentChange \/ MarkRead
    \/ \E q \in Requests :
        \/ Create(q) \/ FindRental(q) \/ ValidateUpdate(q) \/ Validate(q)
        \/ WriteStatus(q) \/ Reread(q) \/ Notify(q) \/ LoseNotice(q) \/ Mail(q) \/ Abandon(q)

Spec == Init /\ [][Next]_vars

-----------------------------------------------------------------------------
(* Properties *)

\* Rows and requests stay in their domains (migrations 002 and 011, the notices
\* that rentalStatusNotification and Create can make).
TypeOK ==
    /\ status \in [Rentals -> Status \cup {"absent"}]
    /\ inbox  \in [Rentals -> Seq(Notice)]
    /\ mailed \in [Rentals -> About \cup {"absent"}]
    /\ req    \in [Requests -> Task \cup {Idle}]
    /\ doubt  \in SUBSET (Channel \X Rentals)
    /\ overtaken \in SUBSET Requests

Newest(channel, r) ==
    IF channel = "mail" THEN mailed[r]
    ELSE IF inbox[r] = <<>> THEN "absent" ELSE inbox[r][Len(inbox[r])].about

Telling(channel, r) ==
    \E q \in Requests : req[q] # Idle /\ req[q].rental = r /\ channel \in Untold(req[q])

\* The newest notice and the newest mail tell the status the rental has, unless
\* it was last changed without a message, a message was lost, or changes of the
\* rental overlapped; the next change that nothing overtakes puts the channel
\* right again (RentalHandler: Create, UpdateStatus, Approve, Reject, Cancel).
CustomerKnowsTheStatus ==
    \A channel \in Channel, r \in Rentals :
        <<channel, r>> \notin doubt /\ ~Telling(channel, r) =>
            Newest(channel, r) = status[r]

\* An unread notice is missing from the unread page only behind a full page of
\* newer ones, so the page is empty when and only when the counter is zero
\* (NotificationPostgresRepository: ListByUserID, CountUnreadByUserID).
UnreadPageHidesNothing ==
    \A r \in Rentals :
        /\ \A i \in Unread(r) \ UnreadPage(r) :
              /\ \A j \in UnreadPage(r) : i < j
              /\ Cardinality(UnreadPage(r)) = PageSize
        /\ UnreadPage(r) = {} <=> CountUnread(r) = 0
=============================================================================
