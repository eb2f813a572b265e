---------------------------- MODULE Availability ----------------------------
(***************************************************************************)
(* Booking, maintenance and the row of the car meet on the days of a car.  *)
(* A booking locks the row of its car, checks the status, the rentals and  *)
(* the windows in statements of their own and inserts.  The lock keeps out *)
(* whatever locks or references that row: other bookings, writes of the    *)
(* car, inserts of windows.  It does not keep out updates of rentals and   *)
(* windows.  The calendar reads the rentals and then the windows without   *)
(* any lock, and whoever writes a car writes the whole row as it was read. *)
(*                                                                         *)
(* Cars exist from the start, and how a sync finds the status it writes is *)
(* the matter of FleetMaintenance; which status a rental moves between is  *)
(* that of RentalLifecycle.  Here a rental blocks its days or does not.    *)
(* The variables from "edited" on are history: no guard reads them.        *)
(***************************************************************************)
EXTENDS Integers

CONSTANTS
    Cars, Rentals, Works,   \* ids of rows
    Rates,                  \* daily rates
    Requests,               \* HTTP requests that can be in flight at once
    Horizon,                \* bound: days are 1 .. Horizon
    MonthStart, MonthEnd    \* the month the calendar is asked for

ASSUME RatesAssumption == Rates # {}
ASSUME DaysAssumption ==
    /\ Horizon \in Nat \ {0}
    /\ MonthStart \in 1 .. Horizon
    /\ MonthEnd \in 1 .. Horizon

VARIABLES
    car,        \* cars.status and cars.daily_rate
    rental,     \* rentals.car_id, the dates, and whether the status blocks them
    work,       \* car_maintenances.car_id, the dates, and whether it is open
    req,        \* what each request still has to do
    edited,     \* the rate an administrator set last
    reverted,   \* cars whose rate a sync that an edit overtook has written back
    overtaken,  \* syncs that an edit of their car overtook
    revived,    \* rentals that began to block since a booking checked them
    moved,      \* windows that were updated since a booking checked them
    seenFree,   \* days that were free at some moment since a calendar's first read
    clash       \* <<car, day>> where a rental was written over an open window since

rows == <<car, rental, work>>
vars == <<car, rental, work, req, edited, reverted, overtaken, revived, moved, seenFree, clash>>

-----------------------------------------------------------------------------
(* Rows and days *)

CarStatus == {"available", "maintenance", "inactive"}
CarRow    == [status : CarStatus, rate : Rates]

Day   == 1 .. Horizon
Month == MonthStart .. MonthEnd

\* The dates a request may name: end_date is not before start_date.
Span    == {s \in [first : Day, last : Day] : s.first <= s.last}
Booking == [car : Cars, dates : Span, blocks : BOOLEAN]
Absent  == [blocks |-> FALSE, car |-> "none"]

\* start_date <= $3 AND end_date >= $2, in every query.
Overlaps(s, t) == s.first <= t.last /\ s.last >= t.first

\* The rows of car c in a table that block days.
Blocking(table, c) == {i \in DOMAIN table : table[i].car = c /\ table[i].blocks}

Taken(table, c, s) == \E i \in Blocking(table, c) : Overlaps(table[i].dates, s)

IsAvailable(c, s) == ~Taken(rental, c, s) /\ ~Taken(work, c, s)

\* Mutant: the last day of a booking counts as free.
AvailableOnLastDay(c, d) ==
    \A i \in Blocking(rental, c) : ~(rental[i].dates.first <= d /\ rental[i].dates.last > d)

\* The filter available_on of the list of cars.
AvailableOn(c, d) ==
    /\ \A i \in Blocking(rental, c) : ~(rental[i].dates.first <= d /\ rental[i].dates.last >= d)
    /\ \A i \in Blocking(work, c)   : ~(work[i].dates.first <= d /\ work[i].dates.last >= d)

maxTime(a, b) == IF a > b THEN a ELSE b
minTime(a, b) == IF a < b THEN a ELSE b

\* ListCalendarRanges
Ranges(table, c) ==
    {table[i].dates : i \in {j \in Blocking(table, c) :
        Overlaps(table[j].dates, [first |-> MonthStart, last |-> MonthEnd])}}

\* Mutant: a range is not cut at the end of the month.
ClippedAtStart(s) == maxTime(s.first, MonthStart) .. s.last

Clipped(s) == maxTime(s.first, MonthStart) .. minTime(s.last, MonthEnd)

BlockedDays(ranges) == UNION {Clipped(s) : s \in ranges}

FreeDays(c) == {d \in Month : AvailableOn(c, d)}

-----------------------------------------------------------------------------
(* Requests *)

Idle == [op |-> "idle"]
Task == [op : {"priced", "wanted", "locked", "unbooked", "cleared"}, car : Cars, dates : Span]
        \cup [op : {"calendar"}, car : Cars, blocked : SUBSET Int]
        \cup [op : {"shown"}, car : Cars, free : SUBSET Int]
        \cup [op : {"sync"}, car : Cars, row : CarRow]

Init ==
    /\ car \in [Cars -> CarRow]
    /\ rental = [r \in Rentals |-> Absent]
    /\ work = [w \in Works |-> Absent]
    /\ req = [q \in Requests |-> Idle]
    /\ edited = [c \in Cars |-> car[c].rate]
    /\ reverted = {}
    /\ overtaken = {}
    /\ revived = [q \in Requests |-> {}]
    /\ moved = [q \in Requests |-> {}]
    /\ seenFree = [q \in Requests |-> {}]
    /\ clash = [q \in Requests |-> {}]

Become(q, task) == req' = [req EXCEPT ![q] = task]

\* SELECT ... FOR UPDATE holds the row of the car until the transaction ends.
Locks(q, c) == req[q].op \in {"locked", "unbooked", "cleared"} /\ req[q].car = c
Locked(c)   == \E q \in Requests : Locks(q, c)

\* History, after the step has set car, rental, work and req: rs are the
\* rentals it revived, ws the windows it updated, ds the <<car, day>> where it
\* wrote a rental over an open window.
Remember(rs, ws, ds) ==
    /\ revived' = [o \in Requests |->
          IF req'[o].op \in {"unbooked", "cleared"} THEN revived[o] \cup rs ELSE {}]
    /\ moved' = [o \in Requests |-> IF req'[o].op = "cleared" THEN moved[o] \cup ws ELSE {}]
    /\ seenFree' = [o \in Requests |->
          IF req'[o].op \in {"calendar", "shown"}
          THEN seenFree[o] \cup FreeDays(req[o].car)' ELSE {}]
    /\ clash' = [o \in Requests |->
          IF req'[o].op \in {"calendar", "shown"} THEN clash[o] \cup ds ELSE {}]

\* A step of request q that writes no row.
Goes(q, task) ==
    /\ Become(q, task)
    /\ UNCHANGED <<rows, edited, reverted>>
    /\ overtaken' = overtaken \ {q}
    /\ Remember({}, {}, {})

\* The days of span s on which car c is under maintenance.
OverWork(c, s) ==
    {c} \X {d \in s.first .. s.last : Taken(work, c, [first |-> d, last |-> d])}

-----------------------------------------------------------------------------
(* RentalService.Create and CreateWithAvailability *)

\* The car is read for its status and its rate.
FindCar(q) ==
    /\ req[q] = Idle
    /\ \E c \in Cars, s \in Span :
        /\ car[c].status \notin {"maintenance", "inactive"}
        /\ Goes(q, [op |-> "priced", car |-> c, dates |-> s])

Step(q, from, to) ==
    req[q].op = from /\ Goes(q, [op |-> to, car |-> req[q].car, dates |-> req[q].dates])

CheckAvailable(q) == Step(q, "priced", "wanted") /\ IsAvailable(req[q].car, req[q].dates)

\* Mutant: the row is read without FOR UPDATE.
LockableAnytime(c) == TRUE

\* What waits for the lock of another transaction on the row of the car.
Lockable(c) == ~Locked(c)

LockCar(q) ==
    /\ Step(q, "wanted", "locked")
    /\ Lockable(req[q].car)
    /\ car[req[q].car].status \notin {"maintenance", "inactive"}

CheckRentals(q) == Step(q, "locked", "unbooked") /\ ~Taken(rental, req[q].car, req[q].dates)

CheckWorks(q) == Step(q, "unbooked", "cleared") /\ ~Taken(work, req[q].car, req[q].dates)

\* rentals_no_double_booking, about the row of rental r.
ConstraintAllows(r, c, s) ==
    \A i \in Blocking(rental, c) \ {r} : ~Overlaps(rental[i].dates, s)

\* INSERT INTO rentals and COMMIT.
Insert(q) ==
    /\ req[q].op = "cleared"
    /\ \E r \in Rentals :
        /\ rental[r] = Absent
        /\ ConstraintAllows(r, req[q].car, req[q].dates)
        /\ rental' = [rental EXCEPT ![r] =
              [car |-> req[q].car, dates |-> req[q].dates, blocks |-> TRUE]]
    /\ Become(q, Idle)
    /\ UNCHANGED <<car, work, edited, reverted, overtaken>>
    /\ Remember({}, {}, OverWork(req[q].car, req[q].dates))

\* An answer, a refusal, an error, a rollback, a dropped connection.
End(q) == req[q] # Idle /\ Goes(q, Idle)

-----------------------------------------------------------------------------
(* AvailabilityCalendar *)

\* Mutant: the windows are read first.
ReadsWindowsFirst(c) == <<Ranges(work, c), Ranges(rental, c)>>

\* The two lists of ranges, in the order of their queries.
Reads(c) == <<Ranges(rental, c), Ranges(work, c)>>

CalendarRentals(q) ==
    /\ req[q] = Idle
    /\ \E c \in Cars :
        Goes(q, [op |-> "calendar", car |-> c, blocked |-> BlockedDays(Reads(c)[1])])

CalendarWorks(q) ==
    /\ req[q].op = "calendar"
    /\ LET c == req[q].car
           blocked == req[q].blocked \cup BlockedDays(Reads(c)[2])
       IN  Goes(q, [op |-> "shown", car |-> c, free |-> Month \ blocked])

-----------------------------------------------------------------------------
(* What other components write *)

\* A rental gives its days back: rejected, cancelled or completed.
Release ==
    /\ \E r \in Rentals :
        /\ rental[r].blocks
        /\ rental' = [rental EXCEPT ![r].blocks = FALSE]
    /\ UNCHANGED <<car, work, req, edited, reverted, overtaken>>
    /\ Remember({}, {}, {})

\* A rejected or cancelled rental is approved again: neither the windows nor
\* the status of the car are looked at.
Revive ==
    /\ \E r \in Rentals :
        /\ rental[r] # Absent /\ ~rental[r].blocks
        /\ ConstraintAllows(r, rental[r].car, rental[r].dates)
        /\ rental' = [rental EXCEPT ![r].blocks = TRUE]
        /\ UNCHANGED <<car, work, req, edited, reverted, overtaken>>
        /\ Remember({r}, {}, OverWork(rental[r].car, rental[r].dates))

\* car_maintenances_no_overlap
WorkAllowed(w, new) ==
    new.blocks => \A i \in Blocking(work, new.car) \ {w} : ~Overlaps(work[i].dates, new.dates)

\* A window is inserted; its foreign key needs the row of the car.
CreateWork ==
    /\ \E w \in Works, new \in Booking :
        /\ work[w] = Absent
        /\ Lockable(new.car)
        /\ WorkAllowed(w, new)
        /\ work' = [work EXCEPT ![w] = new]
    /\ UNCHANGED <<car, rental, req, edited, reverted, overtaken>>
    /\ Remember({}, {}, {})

\* A window is updated; the foreign key is looked at when it changes.
UpdateWork ==
    /\ \E w \in Works, new \in Booking :
        /\ work[w] # Absent
        /\ new.car # work[w].car => Lockable(new.car)
        /\ WorkAllowed(w, new)
        /\ work' = [work EXCEPT ![w] = new]
        /\ UNCHANGED <<car, rental, req, edited, reverted, overtaken>>
        /\ Remember({}, {w}, {})

DeleteWork ==
    /\ \E w \in Works : work[w] # Absent /\ work' = [work EXCEPT ![w] = Absent]
    /\ UNCHANGED <<car, rental, req, edited, reverted, overtaken>>
    /\ Remember({}, {}, {})

\* CarService.Update: every column comes from the administrator.
EditCar ==
    /\ \E c \in Cars, row \in CarRow :
        /\ Lockable(c)
        /\ car' = [car EXCEPT ![c] = row]
        /\ edited' = [edited EXCEPT ![c] = row.rate]
        /\ reverted' = reverted \ {c}
        /\ overtaken' = overtaken \cup {o \in Requests : req[o].op = "sync" /\ req[o].car = c}
    /\ UNCHANGED <<rental, work, req>>
    /\ Remember({}, {}, {})

\* syncCarMaintenanceStatus reads the row ...
SyncRead(q) ==
    /\ req[q] = Idle
    /\ \E c \in Cars : Goes(q, [op |-> "sync", car |-> c, row |-> car[c]])

\* Mutant: the car is written as migration 008 forbids.
RentedRow(row, status) == [row EXCEPT !.status = "rented"]

\* Mutant: the row is made anew and its other columns are not filled in.
NewRow(row, status) == [status |-> status, rate |-> CHOOSE r \in Rates : r # row.rate]

SyncedRow(row, status) == [row EXCEPT !.status = status]

\* ... and writes it back with another status.
SyncWrite(q) ==
    /\ req[q].op = "sync"
    /\ Lockable(req[q].car)
    /\ \E status \in {"available", "maintenance"} :
        /\ status = "available" => req[q].row.status = "maintenance"
        /\ car' = [car EXCEPT ![req[q].car] = SyncedRow(req[q].row, status)]
    /\ Become(q, Idle)
    /\ reverted' = IF q \in overtaken THEN reverted \cup {req[q].car} ELSE reverted
    /\ overtaken' = overtaken \ {q}
    /\ UNCHANGED <<rental, work, edited>>
    /\ Remember({}, {}, {})

Next ==
    \/ Release \/ Revive \/ CreateWork \/ UpdateWork \/ DeleteWork \/ EditCar
    \/ \E q \in Requests :
        \/ FindCar(q) \/ CheckAvailable(q) \/ LockCar(q) \/ CheckRentals(q) \/ CheckWorks(q)
        \/ Insert(q) \/ End(q) \/ CalendarRentals(q) \/ CalendarWorks(q)
        \/ SyncRead(q) \/ SyncWrite(q)

Spec == Init /\ [][Next]_vars

-----------------------------------------------------------------------------
(* Properties *)

\* Rows, requests and history stay in their domains (migrations 002, 003, 010
\* and 012).
TypeOK ==
    /\ car \in [Cars -> CarRow]
    /\ rental \in [Rentals -> Booking \cup {Absent}]
    /\ work \in [Works -> Booking \cup {Absent}]
    /\ req \in [Requests -> Task \cup {Idle}]
    /\ edited \in [Cars -> Rates]
    /\ reverted \in SUBSET Cars
    /\ overtaken \in SUBSET Requests
    /\ revived \in [Requests -> SUBSET Rentals]
    /\ moved \in [Requests -> SUBSET Works]
    /\ seenFree \in [Requests -> SUBSET Month]
    /\ clash \in [Requests -> SUBSET (Cars \X Day)]

\* The three ways to ask agree: the days of the month the calendar shows as
\* blocked, the filter available_on and the check of a span (car_repository.go,
\* ListCalendarRanges, AvailabilityCalendar).
ViewsAgree ==
    \A c \in Cars :
        /\ \A s \in Span : IsAvailable(c, s) <=> \A d \in s.first .. s.last : AvailableOn(c, d)
        /\ BlockedDays(Ranges(rental, c) \cup Ranges(work, c)) = Month \ FreeDays(c)

\* What a booking has checked still holds when it inserts: the car is in
\* service, and its days are free but for rentals approved again and windows
\* updated since (CreateWithAvailability).
ChecksHold ==
    \A q \in Requests :
        LET c == req[q].car
            s == req[q].dates
        IN  /\ req[q].op \in {"locked", "unbooked", "cleared"} => car[c].status = "available"
            /\ req[q].op \in {"unbooked", "cleared"} =>
                  \A i \in Blocking(rental, c) : Overlaps(rental[i].dates, s) => i \in revived[q]
            /\ req[q].op = "cleared" =>
                  \A i \in Blocking(work, c) : Overlaps(work[i].dates, s) => i \in moved[q]

\* A day the calendar shows as free was free at some moment while it was read,
\* although rentals and windows are read one after the other: unless a rental
\* was meanwhile written over an open window (AvailabilityCalendar).
FreeDaysWereFree ==
    \A q \in Requests :
        req[q].op = "shown" =>
            \A d \in req[q].free : d \in seenFree[q] \/ <<req[q].car, d>> \in clash[q]

\* The rate is the one an administrator set last, although every sync writes
\* it back: unless an edit came between its read and its write.
RateIsKept == \A c \in Cars : car[c].rate = edited[c] \/ c \in reverted
=============================================================================
