------------------------- MODULE Availability_proofs -------------------------
(***************************************************************************)
(* The three views of a car's days agree, what a booking checked still     *)
(* holds when it inserts, the calendar shows no day as free that never was *)
(* and an edited rate is lost to overtaken syncs only: proved for any      *)
(* number of cars, rentals, windows and requests and any month.            *)
(***************************************************************************)
EXTENDS Availability, TLAPS

\* A row of the table blocks day d of car c.
On(table, c, d) ==
    \E i \in Blocking(table, c) : table[i].dates.first <= d /\ d <= table[i].dates.last

\* One transaction at a time holds the row of a car.
LockExclusive ==
    \A p, q \in Requests, c \in Cars : Locks(p, c) /\ Locks(q, c) => p = q

\* A sync that no edit overtook holds the rate set last.
SyncsKnow ==
    \A q \in Requests :
        req[q].op = "sync" /\ q \notin overtaken =>
            \/ req[q].row.rate = edited[req[q].car]
            \/ req[q].car \in reverted

\* Between the two reads of a calendar: a day that was not rented then and has
\* not been free since has been under maintenance all along.
CalendarsKnow ==
    \A q \in Requests :
        req[q].op = "calendar" =>
            \A d \in Month \ req[q].blocked :
                \/ d \in seenFree[q]
                \/ <<req[q].car, d>> \in clash[q]
                \/ ~On(rental, req[q].car, d) /\ On(work, req[q].car, d)

IInv ==
    /\ TypeOK
    /\ LockExclusive
    /\ ChecksHold
    /\ RateIsKept
    /\ SyncsKnow
    /\ CalendarsKnow
    /\ FreeDaysWereFree

-----------------------------------------------------------------------------
(* Days, spans and tables *)

\* A table of bookings: rentals or windows.
IsTable(table) == \E ids : table \in [ids -> Booking \cup {Absent}]

\* A row that blocks days of a car has dates.
LEMMA BlockingRows ==
    ASSUME NEW table, IsTable(table), NEW c, NEW i \in Blocking(table, c)
    PROVE  /\ i \in DOMAIN table
           /\ table[i] \in Booking
           /\ table[i].car = c
           /\ table[i].dates \in Span
BY DEF IsTable, Blocking, Booking, Absent

\* Two spans overlap exactly when they share a day.
LEMMA OverlapSharesADay ==
    ASSUME NEW s \in Span, NEW t \in Span
    PROVE  Overlaps(s, t) <=> \E d \in t.first .. t.last : s.first <= d /\ d <= s.last
<1>1. /\ s.first \in Int /\ s.last \in Int /\ s.first <= s.last
      /\ t.first \in Int /\ t.last \in Int /\ t.first <= t.last
  BY DaysAssumption DEF Span, Day
<1>2. ASSUME Overlaps(s, t)
      PROVE  \E d \in t.first .. t.last : s.first <= d /\ d <= s.last
  <2>1. CASE s.first >= t.first
    <3>1. s.first \in t.first .. t.last
      BY <1>1, <1>2, <2>1 DEF Overlaps
    <3>2. QED
      BY <1>1, <3>1
  <2>2. CASE s.first < t.first
    <3>1. t.first \in t.first .. t.last /\ t.first <= s.last
      BY <1>1, <1>2, <2>2 DEF Overlaps
    <3>2. QED
      BY <1>1, <2>2, <3>1
  <2>3. QED
    BY <1>1, <2>1, <2>2
<1>3. ASSUME NEW d \in t.first .. t.last, s.first <= d, d <= s.last
      PROVE  Overlaps(s, t)
  BY <1>1, <1>3 DEF Overlaps
<1>4. QED
  BY <1>2, <1>3

\* A span is taken exactly when one of its days is.
LEMMA TakenOnADay ==
    ASSUME NEW table, IsTable(table), NEW c, NEW s \in Span
    PROVE  Taken(table, c, s) <=> \E d \in s.first .. s.last : On(table, c, d)
<1>1. ASSUME NEW i \in Blocking(table, c)
      PROVE  Overlaps(table[i].dates, s) <=>
               \E d \in s.first .. s.last :
                   table[i].dates.first <= d /\ d <= table[i].dates.last
  <2>1. PICK t \in Span : t = table[i].dates
    BY BlockingRows
  <2>2. QED
    BY <2>1, OverlapSharesADay
<1>2. QED
  BY <1>1 DEF Taken, On

\* A single day is a span.
LEMMA DayIsSpan ==
    ASSUME NEW d \in Day
    PROVE  [first |-> d, last |-> d] \in Span
BY DaysAssumption DEF Day, Span

\* The calendar blocks the days of the month that a row of the table covers.
LEMMA BlockedDaysAreCovered ==
    ASSUME NEW table, IsTable(table), NEW c
    PROVE  BlockedDays(Ranges(table, c)) = {d \in Month : On(table, c, d)}
<1> DEFINE month == [first |-> MonthStart, last |-> MonthEnd]
<1>1. ASSUME NEW d \in BlockedDays(Ranges(table, c))
      PROVE  d \in Month /\ On(table, c, d)
  <2>1. PICK s \in Ranges(table, c) : d \in Clipped(s)
    BY <1>1 DEF BlockedDays
  <2>2. PICK i \in Blocking(table, c) : s = table[i].dates
    BY <2>1 DEF Ranges
  <2>3. s \in Span
    BY <2>2, BlockingRows
  <2>4. s.first \in Int /\ s.last \in Int
    BY <2>3, DaysAssumption DEF Span, Day
  <2>5. d \in Month /\ s.first <= d /\ d <= s.last
    BY <2>1, <2>4, DaysAssumption DEF Clipped, Month, maxTime, minTime
  <2>6. QED
    BY <2>2, <2>5 DEF On
<1>2. ASSUME NEW d \in Month, On(table, c, d)
      PROVE  d \in BlockedDays(Ranges(table, c))
  <2>1. PICK i \in Blocking(table, c) :
          table[i].dates.first <= d /\ d <= table[i].dates.last
    BY <1>2 DEF On
  <2>2. PICK s \in Span : s = table[i].dates
    BY BlockingRows
  <2>3. s.first \in Int /\ s.last \in Int /\ s.first <= d /\ d <= s.last
    BY <2>1, <2>2, DaysAssumption DEF Span, Day
  <2>4. Overlaps(s, month)
    BY <2>3, DaysAssumption DEF Overlaps, Month
  <2>5. s \in Ranges(table, c)
    BY <2>2, <2>4 DEF Ranges, Blocking
  <2>6. d \in Clipped(s)
    BY <2>3, DaysAssumption DEF Clipped, Month, maxTime, minTime
  <2>7. QED
    BY <2>5, <2>6 DEF BlockedDays
<1>3. QED
  BY <1>1, <1>2

\* The filter available_on, in terms of the days the tables cover.
LEMMA AvailableOnDays ==
    ASSUME TypeOK, NEW c, NEW d \in Int
    PROVE  AvailableOn(c, d) <=> ~On(rental, c, d) /\ ~On(work, c, d)
BY DEF AvailableOn, On

\* Both tables are tables of bookings.
LEMMA TablesTyped ==
    ASSUME TypeOK
    PROVE  IsTable(rental) /\ IsTable(work)
BY DEF TypeOK, IsTable

\* The three views of the days of a car agree in every well typed state.
LEMMA TypedViewsAgree ==
    ASSUME TypeOK
    PROVE  ViewsAgree
<1>1. SUFFICES ASSUME NEW c \in Cars
               PROVE  /\ \A s \in Span :
                           IsAvailable(c, s) <=> \A d \in s.first .. s.last : AvailableOn(c, d)
                      /\ BlockedDays(Ranges(rental, c) \cup Ranges(work, c))
                           = Month \ FreeDays(c)
  BY DEF ViewsAgree
<1>2. ASSUME NEW s \in Span
      PROVE  IsAvailable(c, s) <=> \A d \in s.first .. s.last : AvailableOn(c, d)
  <2>1. Taken(rental, c, s) <=> \E d \in s.first .. s.last : On(rental, c, d)
    BY TablesTyped, TakenOnADay
  <2>2. Taken(work, c, s) <=> \E d \in s.first .. s.last : On(work, c, d)
    BY TablesTyped, TakenOnADay
  <2>3. s.first .. s.last \subseteq Int
    OBVIOUS
  <2>4. \A d \in s.first .. s.last : AvailableOn(c, d) <=> ~On(rental, c, d) /\ ~On(work, c, d)
    BY <2>3, AvailableOnDays
  <2>5. QED
    BY <2>1, <2>2, <2>4 DEF IsAvailable
<1>3. BlockedDays(Ranges(rental, c) \cup Ranges(work, c)) = Month \ FreeDays(c)
  <2>1. BlockedDays(Ranges(rental, c) \cup Ranges(work, c))
          = BlockedDays(Ranges(rental, c)) \cup BlockedDays(Ranges(work, c))
    BY DEF BlockedDays
  <2>2. /\ BlockedDays(Ranges(rental, c)) = {d \in Month : On(rental, c, d)}
        /\ BlockedDays(Ranges(work, c)) = {d \in Month : On(work, c, d)}
    BY TablesTyped, BlockedDaysAreCovered
  <2>3. \A d \in Month : AvailableOn(c, d) <=> ~On(rental, c, d) /\ ~On(work, c, d)
    BY AvailableOnDays DEF Month
  <2>4. QED
    BY <2>1, <2>2, <2>3 DEF FreeDays
<1>4. QED
  BY <1>2, <1>3

-----------------------------------------------------------------------------
(* Requests and history *)

\* The fields of a request's task have the types its operation gives them.
LEMMA TaskFields ==
    ASSUME TypeOK, NEW q \in Requests
    PROVE  /\ req[q].op \in {"idle", "priced", "wanted", "locked", "unbooked", "cleared",
                             "calendar", "shown", "sync"}
           /\ req[q].op # "idle" => req[q].car \in Cars
           /\ req[q].op \in {"priced", "wanted", "locked", "unbooked", "cleared"} =>
                 req[q].dates \in Span
           /\ req[q].op = "sync" => req[q].row \in CarRow
<1>1. req[q] \in Task \cup {Idle}
  BY DEF TypeOK
<1>2. QED
  BY <1>1 DEF Task, Idle

\* Moving one request on moves only that request.
LEMMA ReqMoved ==
    ASSUME TypeOK, NEW q \in Requests, NEW t \in Task \cup {Idle}, Become(q, t)
    PROVE  /\ req' \in [Requests -> Task \cup {Idle}]
           /\ req'[q] = t
           /\ \A o \in Requests : o # q => req'[o] = req[o]
BY DEF TypeOK, Become

\* What Remember leaves is well typed.
LEMMA HistoryTyped ==
    ASSUME TypeOK, NEW rs \in SUBSET Rentals, NEW ws \in SUBSET Works,
           NEW ds \in SUBSET (Cars \X Day), Remember(rs, ws, ds)
    PROVE  /\ revived' \in [Requests -> SUBSET Rentals]
           /\ moved' \in [Requests -> SUBSET Works]
           /\ seenFree' \in [Requests -> SUBSET Month]
           /\ clash' \in [Requests -> SUBSET (Cars \X Day)]
<1>1. \A c : FreeDays(c)' \subseteq Month
  BY DEF FreeDays, Month
<1>2. QED
  BY <1>1 DEF TypeOK, Remember

\* The days written over open windows are days of cars.
LEMMA OverWorkTyped ==
    ASSUME TypeOK, NEW c \in Cars, NEW s \in Span
    PROVE  OverWork(c, s) \in SUBSET (Cars \X Day)
<1>1. ASSUME NEW d \in s.first .. s.last
      PROVE  d \in Day
  BY <1>1, DaysAssumption DEF Span, Day
<1>2. QED
  BY <1>1 DEF OverWork

\* OverWork is the days of the span that are under maintenance.
LEMMA OverWorkDays ==
    ASSUME TypeOK, NEW c \in Cars, NEW s \in Span, NEW d \in Day
    PROVE  <<c, d>> \in OverWork(c, s) <=> s.first <= d /\ d <= s.last /\ On(work, c, d)
<1>1. s.first \in Int /\ s.last \in Int /\ d \in Int
  BY DaysAssumption DEF Span, Day
<1>2. PICK t \in Span : t = [first |-> d, last |-> d]
  BY DayIsSpan
<1>3. Taken(work, c, t) <=> \E e \in d .. d : On(work, c, e)
  BY <1>2, TablesTyped, TakenOnADay
<1>4. \A e : e \in d .. d <=> e = d
  BY <1>1
<1>5. Taken(work, c, [first |-> d, last |-> d]) <=> On(work, c, d)
  BY <1>2, <1>3, <1>4
<1>6. QED
  BY <1>1, <1>5 DEF OverWork

\* The days of the month are days.
LEMMA MonthOfDays == Month \subseteq Day /\ Month \subseteq Int
<1>1. ASSUME NEW d \in Month
      PROVE  d \in Int /\ d \in Day
  BY <1>1, DaysAssumption DEF Month, Day
<1>2. QED
  BY <1>1

\* The days Remember adds to a calendar are those free after the step.
LEMMA FreeAfter ==
    ASSUME TypeOK', NEW o \in Requests, NEW c \in Cars, req'[o].car = c,
           req'[o].op \in {"calendar", "shown"},
           NEW rs, NEW ws, NEW ds, Remember(rs, ws, ds)
    PROVE  /\ \A d \in Month : d \in seenFree'[o] <=>
                d \in seenFree[o] \/ (~On(rental', c, d) /\ ~On(work', c, d))
           /\ clash'[o] = clash[o] \cup ds
<1>1. seenFree'[o] = seenFree[o] \cup FreeDays(req[o].car)'
  BY DEF Remember
<1>2. FreeDays(req[o].car)' = {d \in Month : AvailableOn(c, d)'}
  BY DEF FreeDays, AvailableOn, Month
<1>3. \A d \in Month : AvailableOn(c, d)' <=> ~On(rental', c, d) /\ ~On(work', c, d)
  BY DEF AvailableOn, On
<1>4. QED
  BY <1>1, <1>2, <1>3 DEF Remember

-----------------------------------------------------------------------------
(* Calendars *)

\* A day that a step rents out was rented, was not under maintenance, or is
\* on record in ds.
RentsOnRecord(ds) ==
    \A c \in Cars, d \in Month :
        On(rental', c, d) => On(rental, c, d) \/ ~On(work, c, d) \/ <<c, d>> \in ds

\* A calendar that does not move stays true.
CalendarTrue(o) ==
    /\ req[o].op = "calendar" =>
          \A d \in Month \ req[o].blocked :
              \/ d \in seenFree[o]
              \/ <<req[o].car, d>> \in clash[o]
              \/ ~On(rental, req[o].car, d) /\ On(work, req[o].car, d)
    /\ req[o].op = "shown" =>
          \A d \in req[o].free : d \in seenFree[o] \/ <<req[o].car, d>> \in clash[o]

LEMMA CalendarStands ==
    ASSUME IInv, TypeOK', NEW o \in Requests, req'[o] = req[o],
           NEW rs, NEW ws, NEW ds, Remember(rs, ws, ds), RentsOnRecord(ds)
    PROVE  CalendarTrue(o)'
<1>1. CASE req[o].op = "calendar"
  <2>1. PICK c \in Cars : c = req[o].car
    BY <1>1, TaskFields DEF IInv
  <2>2. SUFFICES ASSUME NEW d \in Month \ req[o].blocked
                 PROVE  \/ d \in seenFree'[o]
                        \/ <<c, d>> \in clash'[o]
                        \/ ~On(rental', c, d) /\ On(work', c, d)
    BY <1>1, <2>1 DEF CalendarTrue
  <2>3. \/ d \in seenFree[o]
        \/ <<c, d>> \in clash[o]
        \/ ~On(rental, c, d) /\ On(work, c, d)
    BY <1>1, <2>1 DEF IInv, CalendarsKnow
  <2>4. /\ d \in seenFree'[o] <=> d \in seenFree[o] \/ (~On(rental', c, d) /\ ~On(work', c, d))
        /\ clash'[o] = clash[o] \cup ds
    BY <1>1, <2>1, FreeAfter
  <2>5. QED
    BY <2>3, <2>4 DEF RentsOnRecord
<1>2. CASE req[o].op = "shown"
  <2>1. seenFree[o] \subseteq seenFree'[o] /\ clash[o] \subseteq clash'[o]
    BY <1>2 DEF Remember
  <2>2. QED
    BY <1>2, <2>1 DEF IInv, FreeDaysWereFree, CalendarTrue
<1>3. CASE req[o].op \notin {"calendar", "shown"}
  BY <1>3 DEF CalendarTrue
<1>4. QED
  BY <1>1, <1>2, <1>3

\* The two invariants about calendars are CalendarTrue of every request.
LEMMA CalendarsTrue ==
    ASSUME \A o \in Requests : CalendarTrue(o)'
    PROVE  CalendarsKnow' /\ FreeDaysWereFree'
BY DEF CalendarTrue, CalendarsKnow, FreeDaysWereFree

-----------------------------------------------------------------------------
(* Two kinds of steps *)

\* What one request has checked still holds.
CheckTrue(q) ==
    LET c == req[q].car
        s == req[q].dates
    IN  /\ req[q].op \in {"locked", "unbooked", "cleared"} => car[c].status = "available"
        /\ req[q].op \in {"unbooked", "cleared"} =>
              \A i \in Blocking(rental, c) : Overlaps(rental[i].dates, s) => i \in revived[q]
        /\ req[q].op = "cleared" =>
              \A i \in Blocking(work, c) : Overlaps(work[i].dates, s) => i \in moved[q]

\* A request goes on and no row is written.
LEMMA GoesOn ==
    ASSUME IInv, NEW q \in Requests, NEW task \in Task \cup {Idle}, Goes(q, task),
           \A c \in Cars : Locks(q, c)' => Locks(q, c) \/ ~Locked(c),
           CheckTrue(q)', CalendarTrue(q)',
           task.op = "sync" => task.row.rate = edited[task.car] \/ task.car \in reverted
    PROVE  IInv'
<1>1. /\ req' \in [Requests -> Task \cup {Idle}]
      /\ req'[q] = task
      /\ \A o \in Requests : o # q => req'[o] = req[o]
  BY ReqMoved DEF IInv, Goes
<1>2. UNCHANGED <<car, rental, work, edited, reverted>> /\ overtaken' = overtaken \ {q}
  BY DEF Goes, rows
<1>3. /\ revived' \in [Requests -> SUBSET Rentals]
      /\ moved' \in [Requests -> SUBSET Works]
      /\ seenFree' \in [Requests -> SUBSET Month]
      /\ clash' \in [Requests -> SUBSET (Cars \X Day)]
  BY HistoryTyped DEF IInv, Goes
<1>4. TypeOK'
  BY <1>1, <1>2, <1>3 DEF IInv, TypeOK
<1>5. LockExclusive'
  <2>1. \A o \in Requests, c \in Cars : o # q => (Locks(o, c)' <=> Locks(o, c))
    BY <1>1 DEF Locks
  <2>2. QED
    BY <2>1 DEF IInv, LockExclusive, Locked
<1>6. ChecksHold'
  <2>1. \A o \in Requests : o # q => CheckTrue(o)'
    BY <1>1, <1>2 DEF IInv, ChecksHold, CheckTrue, Goes, Remember
  <2>2. QED
    BY <2>1 DEF ChecksHold, CheckTrue
<1>7. RateIsKept' /\ SyncsKnow'
  BY <1>1, <1>2 DEF IInv, RateIsKept, SyncsKnow
<1>8. CalendarsKnow' /\ FreeDaysWereFree'
  <2>1. RentsOnRecord({})
    BY <1>2 DEF RentsOnRecord
  <2>2. Remember({}, {}, {})
    BY DEF Goes
  <2>3. ASSUME NEW o \in Requests
        PROVE  CalendarTrue(o)'
    <3>1. CASE o = q
      BY <3>1
    <3>2. CASE o # q
      BY <1>1, <1>4, <2>1, <2>2, <3>2, CalendarStands
    <3>3. QED
      BY <3>1, <3>2
  <2>4. QED
    BY <2>3, CalendarsTrue
<1>9. QED
  BY <1>4, <1>5, <1>6, <1>7, <1>8 DEF IInv

\* Rows are written; requests stay as they are or end.
LEMMA RowsWritten ==
    ASSUME IInv, TypeOK', RateIsKept', SyncsKnow',
           \A o \in Requests : req'[o] = req[o] \/ req'[o] = Idle,
           NEW rs, NEW ws, NEW ds, Remember(rs, ws, ds), RentsOnRecord(ds),
           \A o \in Requests, c \in Cars : Locks(o, c) /\ req'[o] = req[o] =>
               /\ car'[c].status = car[c].status
               /\ \A i \in Blocking(rental', c) :
                     i \notin rs => i \in Blocking(rental, c) /\ rental'[i] = rental[i]
               /\ \A i \in Blocking(work', c) :
                     i \notin ws => i \in Blocking(work, c) /\ work'[i] = work[i]
    PROVE  IInv'
<1>1. LockExclusive'
  <2>1. \A o \in Requests, c \in Cars : Locks(o, c)' => Locks(o, c)
    BY DEF Locks, Idle
  <2>2. QED
    BY <2>1 DEF IInv, LockExclusive
<1>2. ChecksHold'
  <2>1. ASSUME NEW o \in Requests, req'[o] = req[o],
               req[o].op \in {"locked", "unbooked", "cleared"}
        PROVE  CheckTrue(o)'
    <3>1. PICK c \in Cars : c = req[o].car
      BY <2>1, TaskFields DEF IInv
    <3>2. Locks(o, c)
      BY <2>1, <3>1 DEF Locks
    <3>3. /\ car'[c].status = car[c].status
          /\ \A i \in Blocking(rental', c) :
                i \notin rs => i \in Blocking(rental, c) /\ rental'[i] = rental[i]
          /\ \A i \in Blocking(work', c) :
                i \notin ws => i \in Blocking(work, c) /\ work'[i] = work[i]
      BY <2>1, <3>2
    <3>4. /\ car[c].status = "available"
          /\ req[o].op \in {"unbooked", "cleared"} =>
                \A i \in Blocking(rental, c) :
                    Overlaps(rental[i].dates, req[o].dates) => i \in revived[o]
          /\ req[o].op = "cleared" =>
                \A i \in Blocking(work, c) :
                    Overlaps(work[i].dates, req[o].dates) => i \in moved[o]
      BY <2>1, <3>1 DEF IInv, ChecksHold
    <3>5. /\ req[o].op \in {"unbooked", "cleared"} => revived'[o] = revived[o] \cup rs
          /\ req[o].op = "cleared" => moved'[o] = moved[o] \cup ws
      BY <2>1 DEF Remember
    <3>6. QED
      BY <2>1, <3>1, <3>3, <3>4, <3>5 DEF CheckTrue
  <2>2. QED
    BY <2>1 DEF ChecksHold, CheckTrue, Idle
<1>3. CalendarsKnow' /\ FreeDaysWereFree'
  <2>1. ASSUME NEW o \in Requests
        PROVE  CalendarTrue(o)'
    <3>1. CASE req'[o] = req[o]
      BY <3>1, CalendarStands
    <3>2. CASE req'[o] = Idle
      BY <3>2 DEF CalendarTrue, Idle
    <3>3. QED
      BY <3>1, <3>2
  <2>2. QED
    BY <2>1, CalendarsTrue
<1>4. QED
  BY <1>1, <1>2, <1>3 DEF IInv

-----------------------------------------------------------------------------
(* One lemma for each action *)

\* A request moves to a task that neither holds a lock nor shows a calendar.
LEMMA GoesFreely ==
    ASSUME IInv, NEW q \in Requests, NEW task \in Task \cup {Idle}, Goes(q, task),
           task.op \notin {"locked", "unbooked", "cleared", "calendar", "shown"},
           task.op = "sync" => task.row.rate = edited[task.car] \/ task.car \in reverted
    PROVE  IInv'
<1>1. req'[q] = task
  BY ReqMoved DEF IInv, Goes
<1>2. \A c \in Cars : ~Locks(q, c)'
  BY <1>1 DEF Locks
<1>3. CheckTrue(q)' /\ CalendarTrue(q)'
  BY <1>1 DEF CheckTrue, CalendarTrue
<1>4. QED
  BY <1>2, <1>3, GoesOn

\* The car is read.
LEMMA FindCarKeeps ==
    ASSUME IInv, NEW q \in Requests, FindCar(q)
    PROVE  IInv'
<1>1. PICK c \in Cars, s \in Span : Goes(q, [op |-> "priced", car |-> c, dates |-> s])
  BY DEF FindCar
<1>2. PICK task \in Task : task = [op |-> "priced", car |-> c, dates |-> s]
  BY DEF Task
<1>3. QED
  BY <1>1, <1>2, GoesFreely

\* A step of a booking, in terms of constants.
LEMMA StepTaken ==
    ASSUME IInv, NEW q \in Requests, NEW from, NEW to, Step(q, from, to),
           from \in {"priced", "wanted", "locked", "unbooked"},
           to \in {"wanted", "locked", "unbooked", "cleared"}
    PROVE  \E c \in Cars, s \in Span, task \in Task :
               /\ c = req[q].car /\ s = req[q].dates /\ req[q].op = from
               /\ task = [op |-> to, car |-> c, dates |-> s]
               /\ Goes(q, task)
               /\ req'[q] = task
<1>1. PICK c \in Cars, s \in Span : c = req[q].car /\ s = req[q].dates /\ req[q].op = from
  BY TaskFields DEF IInv, Step
<1>2. PICK task \in Task : task = [op |-> to, car |-> c, dates |-> s]
  BY DEF Task
<1>3. Goes(q, task)
  BY <1>1, <1>2 DEF Step
<1>4. req'[q] = task
  BY <1>3, ReqMoved DEF IInv, Goes
<1>5. QED
  BY <1>1, <1>2, <1>3, <1>4

\* The first check of the dates, outside of the transaction.
LEMMA CheckAvailableKeeps ==
    ASSUME IInv, NEW q \in Requests, CheckAvailable(q)
    PROVE  IInv'
<1>1. PICK c \in Cars, s \in Span, task \in Task :
         task = [op |-> "wanted", car |-> c, dates |-> s] /\ Goes(q, task)
  BY StepTaken DEF CheckAvailable
<1>2. QED
  BY <1>1, GoesFreely

\* The lock is taken from nobody, and the car is in service.
LEMMA LockCarKeeps ==
    ASSUME IInv, NEW q \in Requests, LockCar(q)
    PROVE  IInv'
<1>1. PICK c \in Cars, s \in Span, task \in Task :
         /\ c = req[q].car /\ task = [op |-> "locked", car |-> c, dates |-> s]
         /\ Goes(q, task) /\ req'[q] = task
  BY StepTaken DEF LockCar
<1>2. \A b \in Cars : Locks(q, b)' => ~Locked(b)
  BY <1>1 DEF LockCar, Lockable, Locks
<1>3. car'[c].status = "available"
  BY <1>1 DEF LockCar, IInv, TypeOK, CarRow, CarStatus, Goes, rows
<1>4. CheckTrue(q)' /\ CalendarTrue(q)'
  BY <1>1, <1>3 DEF CheckTrue, CalendarTrue
<1>5. QED
  BY <1>1, <1>2, <1>4, GoesOn

\* The rentals are checked under the lock.
LEMMA CheckRentalsKeeps ==
    ASSUME IInv, NEW q \in Requests, CheckRentals(q)
    PROVE  IInv'
<1>1. PICK c \in Cars, s \in Span, task \in Task :
         /\ c = req[q].car /\ s = req[q].dates /\ req[q].op = "locked"
         /\ task = [op |-> "unbooked", car |-> c, dates |-> s]
         /\ Goes(q, task) /\ req'[q] = task
  BY StepTaken DEF CheckRentals
<1>2. \A b \in Cars : Locks(q, b)' => Locks(q, b)
  BY <1>1 DEF Locks
<1>3. ~Taken(rental, c, s)
  BY <1>1 DEF CheckRentals
<1>4. UNCHANGED <<car, rental, work>>
  BY <1>1 DEF Goes, rows
<1>5. car[c].status = "available"
  BY <1>1 DEF IInv, ChecksHold
<1>6. CheckTrue(q)' /\ CalendarTrue(q)'
  BY <1>1, <1>3, <1>4, <1>5 DEF CheckTrue, CalendarTrue, Taken
<1>7. QED
  BY <1>1, <1>2, <1>6, GoesOn

\* The windows are checked under the lock.
LEMMA CheckWorksKeeps ==
    ASSUME IInv, NEW q \in Requests, CheckWorks(q)
    PROVE  IInv'
<1>1. PICK c \in Cars, s \in Span, task \in Task :
         /\ c = req[q].car /\ s = req[q].dates /\ req[q].op = "unbooked"
         /\ task = [op |-> "cleared", car |-> c, dates |-> s]
         /\ Goes(q, task) /\ req'[q] = task
  BY StepTaken DEF CheckWorks
<1>2. \A b \in Cars : Locks(q, b)' => Locks(q, b)
  BY <1>1 DEF Locks
<1>3. ~Taken(work, c, s)
  BY <1>1 DEF CheckWorks
<1>4. UNCHANGED <<car, rental, work>> /\ revived'[q] = revived[q]
  BY <1>1 DEF Goes, rows, Remember
<1>5. /\ car[c].status = "available"
      /\ \A i \in Blocking(rental, c) : Overlaps(rental[i].dates, s) => i \in revived[q]
  BY <1>1 DEF IInv, ChecksHold
<1>6. CheckTrue(q)' /\ CalendarTrue(q)'
  BY <1>1, <1>3, <1>4, <1>5 DEF CheckTrue, CalendarTrue, Taken
<1>7. QED
  BY <1>1, <1>2, <1>6, GoesOn

\* The request ends without a write.
LEMMA EndKeeps ==
    ASSUME IInv, NEW q \in Requests, End(q)
    PROVE  IInv'
<1>1. Idle \in Task \cup {Idle} /\ Idle.op = "idle" /\ Goes(q, Idle)
  BY DEF End, Idle
<1>2. QED
  BY <1>1, GoesFreely

\* A sync reads the row of the car.
LEMMA SyncReadKeeps ==
    ASSUME IInv, NEW q \in Requests, SyncRead(q)
    PROVE  IInv'
<1>1. PICK c \in Cars : Goes(q, [op |-> "sync", car |-> c, row |-> car[c]])
  BY DEF SyncRead
<1>2. PICK task \in Task : task = [op |-> "sync", car |-> c, row |-> car[c]]
  BY DEF IInv, TypeOK, Task
<1>3. task.row.rate = edited[c] \/ c \in reverted
  BY <1>2 DEF IInv, RateIsKept
<1>4. QED
  BY <1>1, <1>2, <1>3, GoesFreely

\* A calendar reads the rentals: what is not rented is free or under
\* maintenance.
LEMMA CalendarRentalsKeeps ==
    ASSUME IInv, NEW q \in Requests, CalendarRentals(q)
    PROVE  IInv'
<1>1. PICK c \in Cars :
         Goes(q, [op |-> "calendar", car |-> c, blocked |-> BlockedDays(Reads(c)[1])])
  BY DEF CalendarRentals
<1>2. BlockedDays(Reads(c)[1]) = {d \in Month : On(rental, c, d)}
  BY TablesTyped, BlockedDaysAreCovered DEF IInv, Reads
<1>3. PICK task \in Task :
         task = [op |-> "calendar", car |-> c, blocked |-> {d \in Month : On(rental, c, d)}]
  BY MonthOfDays DEF Task
<1>4. Goes(q, task)
  BY <1>1, <1>2, <1>3
<1>5. /\ req' \in [Requests -> Task \cup {Idle}]
      /\ req'[q] = task
  BY <1>4, ReqMoved DEF IInv, Goes
<1>6. UNCHANGED <<car, rental, work, edited, reverted>> /\ Remember({}, {}, {})
  BY <1>4 DEF Goes, rows
<1>7. TypeOK'
  BY <1>4, <1>5, <1>6, HistoryTyped DEF IInv, TypeOK, Goes
<1>8. \A d \in Month :
          d \in seenFree'[q] <=> d \in seenFree[q] \/ (~On(rental', c, d) /\ ~On(work', c, d))
  BY <1>3, <1>5, <1>6, <1>7, FreeAfter
<1>9. CalendarTrue(q)'
  BY <1>3, <1>5, <1>6, <1>8 DEF CalendarTrue
<1>10. CheckTrue(q)' /\ \A b \in Cars : ~Locks(q, b)'
  BY <1>3, <1>5 DEF CheckTrue, Locks
<1>11. QED
  BY <1>3, <1>4, <1>9, <1>10, GoesOn

\* A calendar reads the windows: what is left was free or is on record.
LEMMA CalendarWorksKeeps ==
    ASSUME IInv, NEW q \in Requests, CalendarWorks(q)
    PROVE  IInv'
<1>1. PICK c \in Cars : c = req[q].car /\ req[q].op = "calendar"
  BY TaskFields DEF IInv, CalendarWorks
<1>2. PICK free \in SUBSET Int :
         /\ free = Month \ (req[q].blocked \cup BlockedDays(Reads(c)[2]))
         /\ Goes(q, [op |-> "shown", car |-> c, free |-> free])
  BY <1>1, MonthOfDays DEF CalendarWorks
<1>3. free = {d \in Month : d \notin req[q].blocked /\ ~On(work, c, d)}
  BY <1>2, TablesTyped, BlockedDaysAreCovered DEF IInv, Reads
<1>4. PICK task \in Task : task = [op |-> "shown", car |-> c, free |-> free]
  BY DEF Task
<1>5. Goes(q, task)
  BY <1>2, <1>4
<1>6. req'[q] = task
  BY <1>5, ReqMoved DEF IInv, Goes
<1>7. \A d \in free : d \in seenFree[q] \/ <<c, d>> \in clash[q]
  BY <1>1, <1>3 DEF IInv, CalendarsKnow
<1>8. seenFree[q] \subseteq seenFree'[q] /\ clash[q] \subseteq clash'[q]
  BY <1>4, <1>5, <1>6 DEF Goes, Remember
<1>9. CalendarTrue(q)'
  BY <1>4, <1>6, <1>7, <1>8 DEF CalendarTrue
<1>10. CheckTrue(q)' /\ \A b \in Cars : ~Locks(q, b)'
  BY <1>4, <1>6 DEF CheckTrue, Locks
<1>11. QED
  BY <1>4, <1>5, <1>9, <1>10, GoesOn

-----------------------------------------------------------------------------
(* The actions that write rows *)

\* When the rate and the syncs stay, what is known of them does.
LEMMA RatesStand ==
    ASSUME IInv, UNCHANGED <<car, edited, reverted, overtaken>>,
           \A o \in Requests : req'[o] = req[o] \/ req'[o] = Idle
    PROVE  RateIsKept' /\ SyncsKnow'
BY DEF IInv, RateIsKept, SyncsKnow, Idle

\* The history stays well typed whatever a row step records.
LEMMA WriteTyped ==
    ASSUME IInv, UNCHANGED <<car, edited, reverted, overtaken>>,
           req' \in [Requests -> Task \cup {Idle}],
           rental' \in [Rentals -> Booking \cup {Absent}],
           work' \in [Works -> Booking \cup {Absent}],
           NEW rs \in SUBSET Rentals, NEW ws \in SUBSET Works,
           NEW ds \in SUBSET (Cars \X Day), Remember(rs, ws, ds)
    PROVE  TypeOK'
BY HistoryTyped DEF IInv, TypeOK

\* A rental that comes to block dates of a car is on record where they are
\* under maintenance.
LEMMA RentedOnRecord ==
    ASSUME TypeOK, NEW r \in Rentals, NEW c \in Cars, NEW s \in Span,
           rental' \in [Rentals -> Booking \cup {Absent}],
           rental'[r].car = c, rental'[r].dates = s,
           \A i \in Rentals : i # r => rental'[i] = rental[i]
    PROVE  RentsOnRecord(OverWork(c, s))
<1>1. SUFFICES ASSUME NEW b \in Cars, NEW d \in Month, On(rental', b, d), ~On(rental, b, d),
                      On(work, b, d)
               PROVE  <<b, d>> \in OverWork(c, s)
  BY DEF RentsOnRecord
<1>2. PICK i \in Blocking(rental', b) :
         rental'[i].dates.first <= d /\ d <= rental'[i].dates.last
  BY <1>1 DEF On
<1>3. i \in Rentals /\ (i # r => rental'[i] = rental[i])
  BY <1>2 DEF Blocking
<1>4. i = r
  <2>1. SUFFICES ASSUME i # r
                 PROVE  FALSE
    OBVIOUS
  <2>2. i \in Blocking(rental, b)
    BY <1>2, <1>3, <2>1 DEF TypeOK, Blocking
  <2>3. QED
    BY <1>1, <1>2, <1>3, <2>1, <2>2 DEF On
<1>5. b = c /\ s.first <= d /\ d <= s.last
  BY <1>2, <1>4 DEF Blocking
<1>6. QED
  BY <1>1, <1>5, OverWorkDays, MonthOfDays

\* Release: fewer rentals block.
LEMMA ReleaseKeeps ==
    ASSUME IInv, Release
    PROVE  IInv'
<1>1. PICK r \in Rentals : rental[r].blocks /\ rental' = [rental EXCEPT ![r].blocks = FALSE]
  BY DEF Release
<1>2. UNCHANGED <<car, work, req, edited, reverted, overtaken>> /\ Remember({}, {}, {})
  BY DEF Release
<1>3. rental[r] \in Booking
  BY <1>1 DEF IInv, TypeOK, Absent
<1>4. rental' \in [Rentals -> Booking \cup {Absent}]
  BY <1>1, <1>3 DEF IInv, TypeOK, Booking
<1>5. TypeOK'
  BY <1>2, <1>4, WriteTyped DEF IInv, TypeOK
<1>6. \A c : \A i \in Blocking(rental', c) : i \in Blocking(rental, c) /\ rental'[i] = rental[i]
  BY <1>1, <1>3 DEF Blocking, IInv, TypeOK, Booking
<1>7. RentsOnRecord({})
  BY <1>6 DEF RentsOnRecord, On
<1>8. RateIsKept' /\ SyncsKnow'
  BY <1>2, RatesStand
<1>9. QED
  BY <1>2, <1>5, <1>6, <1>7, <1>8, RowsWritten

\* Revive: the rental is on record with every booking that has checked.
LEMMA ReviveKeeps ==
    ASSUME IInv, Revive
    PROVE  IInv'
<1>1. PICK r \in Rentals :
         /\ rental[r] # Absent
         /\ rental' = [rental EXCEPT ![r].blocks = TRUE]
         /\ UNCHANGED <<car, work, req, edited, reverted, overtaken>>
         /\ Remember({r}, {}, OverWork(rental[r].car, rental[r].dates))
  BY DEF Revive
<1>2. rental[r] \in Booking
  BY <1>1 DEF IInv, TypeOK
<1>3. PICK c \in Cars, s \in Span : c = rental[r].car /\ s = rental[r].dates
  BY <1>2 DEF Booking
<1>4. /\ rental'[r].car = c /\ rental'[r].dates = s
      /\ \A i \in Rentals : i # r => rental'[i] = rental[i]
  BY <1>1, <1>2, <1>3 DEF IInv, TypeOK, Booking
<1>5. rental' \in [Rentals -> Booking \cup {Absent}]
  BY <1>1, <1>2 DEF IInv, TypeOK, Booking
<1>6. PICK ds \in SUBSET (Cars \X Day) : ds = OverWork(c, s)
  BY OverWorkTyped DEF IInv
<1>7. PICK rs \in SUBSET Rentals : rs = {r} /\ Remember(rs, {}, ds)
  BY <1>1, <1>3, <1>6
<1>8. TypeOK'
  BY <1>1, <1>5, <1>7, WriteTyped DEF IInv, TypeOK
<1>9. RentsOnRecord(ds)
  BY <1>4, <1>5, <1>6, RentedOnRecord DEF IInv
<1>10. \A b : \A i \in Blocking(rental', b) :
           i \notin rs => i \in Blocking(rental, b) /\ rental'[i] = rental[i]
  BY <1>4, <1>5, <1>7 DEF Blocking, IInv, TypeOK
<1>11. RateIsKept' /\ SyncsKnow'
  BY <1>1, RatesStand
<1>12. \A o \in Requests, b \in Cars : Locks(o, b) /\ req'[o] = req[o] =>
          /\ car'[b].status = car[b].status
          /\ \A i \in Blocking(rental', b) :
                i \notin rs => i \in Blocking(rental, b) /\ rental'[i] = rental[i]
          /\ \A i \in Blocking(work', b) :
                i \notin {} => i \in Blocking(work, b) /\ work'[i] = work[i]
  BY <1>1, <1>10
<1>13. req' = req
  BY <1>1
<1>14. QED
  BY <1>7, <1>8, <1>9, <1>11, <1>12, <1>13, RowsWritten

\* Insert: no other transaction holds the car.
LEMMA InsertKeeps ==
    ASSUME IInv, NEW q \in Requests, Insert(q)
    PROVE  IInv'
<1>1. PICK c \in Cars, s \in Span : c = req[q].car /\ s = req[q].dates
  BY TaskFields DEF IInv, Insert
<1>2. PICK r \in Rentals :
         rental' = [rental EXCEPT ![r] = [car |-> c, dates |-> s, blocks |-> TRUE]]
  BY <1>1 DEF Insert
<1>3. /\ req[q].op = "cleared" /\ Become(q, Idle)
      /\ UNCHANGED <<car, work, edited, reverted, overtaken>>
  BY DEF Insert
<1>4. PICK ds \in SUBSET (Cars \X Day) : ds = OverWork(c, s)
  BY OverWorkTyped DEF IInv
<1>5. Remember({}, {}, ds)
  BY <1>1, <1>4 DEF Insert
<1>6. /\ req' \in [Requests -> Task \cup {Idle}]
      /\ req'[q] = Idle
      /\ \A o \in Requests : o # q => req'[o] = req[o]
  BY <1>3, ReqMoved DEF IInv
<1>7. rental' \in [Rentals -> Booking \cup {Absent}]
  BY <1>2 DEF IInv, TypeOK, Booking
<1>8. TypeOK'
  BY <1>3, <1>5, <1>6, <1>7, WriteTyped DEF IInv, TypeOK
<1>9. RentsOnRecord(ds)
  <2>1. /\ rental'[r].car = c /\ rental'[r].dates = s
        /\ \A i \in Rentals : i # r => rental'[i] = rental[i]
    BY <1>2 DEF IInv, TypeOK
  <2>2. QED
    BY <1>4, <1>7, <2>1, RentedOnRecord DEF IInv
<1>10. RateIsKept' /\ SyncsKnow'
  BY <1>3, <1>6, RatesStand
<1>11. ASSUME NEW o \in Requests, NEW b \in Cars, Locks(o, b), req'[o] = req[o]
       PROVE  /\ car'[b].status = car[b].status
              /\ \A i \in Blocking(rental', b) :
                    i \notin {} => i \in Blocking(rental, b) /\ rental'[i] = rental[i]
              /\ \A i \in Blocking(work', b) :
                    i \notin {} => i \in Blocking(work, b) /\ work'[i] = work[i]
  <2>1. o # q
    BY <1>6, <1>11 DEF Locks, Idle
  <2>2. Locks(q, c)
    BY <1>1, <1>3 DEF Locks
  <2>3. b # c
    BY <1>11, <2>1, <2>2 DEF IInv, LockExclusive
  <2>4. QED
    BY <1>2, <1>3, <2>3 DEF Blocking, IInv, TypeOK
<1>12. QED
  BY <1>5, <1>6, <1>8, <1>9, <1>10, <1>11, RowsWritten

\* A step that writes windows only: the calendars and rates stand.
LEMMA OnlyWindows ==
    ASSUME IInv, UNCHANGED <<car, rental, req, edited, reverted, overtaken>>,
           work' \in [Works -> Booking \cup {Absent}],
           NEW ws \in SUBSET Works, Remember({}, ws, {}),
           \A c \in Cars : Locked(c) =>
               \A i \in Blocking(work', c) :
                   i \notin ws => i \in Blocking(work, c) /\ work'[i] = work[i]
    PROVE  IInv'
<1>1. TypeOK'
  BY WriteTyped DEF IInv, TypeOK
<1>2. RentsOnRecord({})
  BY DEF RentsOnRecord
<1>3. RateIsKept' /\ SyncsKnow'
  BY RatesStand
<1>4. \A o \in Requests, c \in Cars : Locks(o, c) => Locked(c)
  BY DEF Locked
<1>5. QED
  BY <1>1, <1>2, <1>3, <1>4, RowsWritten

\* CreateWork waits for the lock of the car.
LEMMA CreateWorkKeeps ==
    ASSUME IInv, CreateWork
    PROVE  IInv'
<1>1. PICK w \in Works, new \in Booking :
         Lockable(new.car) /\ work' = [work EXCEPT ![w] = new]
  BY DEF CreateWork
<1>2. UNCHANGED <<car, rental, req, edited, reverted, overtaken>> /\ Remember({}, {}, {})
  BY DEF CreateWork
<1>3. work' \in [Works -> Booking \cup {Absent}]
  BY <1>1 DEF IInv, TypeOK
<1>4. ASSUME NEW c \in Cars, Locked(c), NEW i \in Blocking(work', c)
      PROVE  i \in Blocking(work, c) /\ work'[i] = work[i]
  <2>1. PICK b \in Cars : b = new.car
    BY DEF Booking
  <2>2. c # b
    BY <1>1, <1>4, <2>1 DEF Lockable
  <2>3. QED
    BY <1>1, <1>4, <2>1, <2>2 DEF Blocking, IInv, TypeOK
<1>5. QED
  BY <1>2, <1>3, <1>4, OnlyWindows

\* UpdateWork: the window is on record with every booking that has checked.
LEMMA UpdateWorkKeeps ==
    ASSUME IInv, UpdateWork
    PROVE  IInv'
<1>1. PICK w \in Works, new \in Booking :
         /\ work' = [work EXCEPT ![w] = new]
         /\ UNCHANGED <<car, rental, req, edited, reverted, overtaken>>
         /\ Remember({}, {w}, {})
  BY DEF UpdateWork
<1> PICK ws \in SUBSET Works : ws = {w}
  OBVIOUS
<1>2. work' \in [Works -> Booking \cup {Absent}]
  BY <1>1 DEF IInv, TypeOK
<1>3. \A c : \A i \in Blocking(work', c) :
          i \notin ws => i \in Blocking(work, c) /\ work'[i] = work[i]
  BY <1>1 DEF Blocking, IInv, TypeOK
<1>4. Remember({}, ws, {})
  BY <1>1
<1>5. QED
  BY <1>1, <1>2, <1>3, <1>4, OnlyWindows

\* DeleteWork: fewer windows are open.
LEMMA DeleteWorkKeeps ==
    ASSUME IInv, DeleteWork
    PROVE  IInv'
<1>1. PICK w \in Works : work' = [work EXCEPT ![w] = Absent]
  BY DEF DeleteWork
<1>2. UNCHANGED <<car, rental, req, edited, reverted, overtaken>> /\ Remember({}, {}, {})
  BY DEF DeleteWork
<1>3. work' \in [Works -> Booking \cup {Absent}]
  BY <1>1 DEF IInv, TypeOK
<1>4. \A c : \A i \in Blocking(work', c) : i \in Blocking(work, c) /\ work'[i] = work[i]
  BY <1>1 DEF Blocking, IInv, TypeOK, Absent
<1>5. QED
  BY <1>2, <1>3, <1>4, OnlyWindows

\* A step that writes the row of one car, which no transaction holds.
LEMMA OnlyACar ==
    ASSUME IInv, TypeOK', RateIsKept', SyncsKnow', UNCHANGED <<rental, work>>,
           NEW c \in Cars, ~Locked(c), NEW row \in CarRow, car' = [car EXCEPT ![c] = row],
           \A o \in Requests : req'[o] = req[o] \/ req'[o] = Idle,
           Remember({}, {}, {})
    PROVE  IInv'
<1>1. RentsOnRecord({})
  BY DEF RentsOnRecord
<1>2. \A o \in Requests, b \in Cars : Locks(o, b) => car'[b].status = car[b].status
  BY DEF Locked, IInv, TypeOK
<1>3. QED
  BY <1>1, <1>2, RowsWritten

\* EditCar: the edit overtakes every sync of the car.
LEMMA EditCarKeeps ==
    ASSUME IInv, EditCar
    PROVE  IInv'
<1>1. PICK c \in Cars, row \in CarRow :
         /\ Lockable(c)
         /\ car' = [car EXCEPT ![c] = row]
         /\ edited' = [edited EXCEPT ![c] = row.rate]
         /\ reverted' = reverted \ {c}
         /\ overtaken' = overtaken \cup {o \in Requests : req[o].op = "sync" /\ req[o].car = c}
  BY DEF EditCar
<1>2. UNCHANGED <<rental, work, req>> /\ Remember({}, {}, {})
  BY DEF EditCar
<1>3. TypeOK'
  BY <1>1, <1>2, HistoryTyped DEF IInv, TypeOK, CarRow
<1>4. RateIsKept'
  BY <1>1 DEF IInv, TypeOK, RateIsKept
<1>5. SyncsKnow'
  <2>1. ASSUME NEW o \in Requests, req[o].op = "sync", o \notin overtaken'
        PROVE  req[o].row.rate = edited'[req[o].car] \/ req[o].car \in reverted'
    <3>1. o \notin overtaken /\ req[o].car # c /\ req[o].car \in Cars
      BY <1>1, <2>1, TaskFields DEF IInv
    <3>2. QED
      BY <1>1, <2>1, <3>1 DEF IInv, TypeOK, SyncsKnow
  <2>2. QED
    BY <1>2, <2>1 DEF SyncsKnow
<1>6. QED
  BY <1>1, <1>2, <1>3, <1>4, <1>5, OnlyACar DEF Lockable

\* SyncWrite: a sync that no edit overtook writes the rate set last.
LEMMA SyncWriteKeeps ==
    ASSUME IInv, NEW q \in Requests, SyncWrite(q)
    PROVE  IInv'
<1>1. PICK c \in Cars, old \in CarRow : c = req[q].car /\ old = req[q].row
  BY TaskFields DEF IInv, SyncWrite
<1>2. PICK status \in {"available", "maintenance"} :
         car' = [car EXCEPT ![c] = SyncedRow(old, status)]
  BY <1>1 DEF SyncWrite
<1>3. PICK row \in CarRow : row = SyncedRow(old, status) /\ row.rate = old.rate
  <2>1. SyncedRow(old, status) = [status |-> status, rate |-> old.rate]
    BY DEF SyncedRow, CarRow
  <2>2. [status |-> status, rate |-> old.rate] \in CarRow
    BY DEF CarRow, CarStatus
  <2>3. QED
    BY <2>1, <2>2
<1>4. car' = [car EXCEPT ![c] = row]
  BY <1>2, <1>3
<1>5. /\ req[q].op = "sync" /\ Become(q, Idle) /\ ~Locked(c)
      /\ UNCHANGED <<rental, work, edited>> /\ Remember({}, {}, {})
      /\ reverted' = IF q \in overtaken THEN reverted \cup {c} ELSE reverted
      /\ overtaken' = overtaken \ {q}
  BY <1>1 DEF SyncWrite, Lockable
<1>6. /\ req' \in [Requests -> Task \cup {Idle}]
      /\ req'[q] = Idle
      /\ \A o \in Requests : o # q => req'[o] = req[o]
  BY <1>5, ReqMoved DEF IInv
<1>7. TypeOK'
  BY <1>4, <1>5, <1>6, HistoryTyped DEF IInv, TypeOK
<1>8. row.rate = edited[c] \/ c \in reverted'
  BY <1>1, <1>3, <1>5 DEF IInv, SyncsKnow
<1>9. RateIsKept'
  BY <1>4, <1>5, <1>8 DEF IInv, TypeOK, RateIsKept
<1>10. SyncsKnow'
  BY <1>5, <1>6 DEF IInv, SyncsKnow, Idle
<1>11. QED
  BY <1>4, <1>5, <1>6, <1>7, <1>9, <1>10, OnlyACar

-----------------------------------------------------------------------------
(* The theorems *)

\* Every reachable state satisfies the inductive invariant: locks are
\* exclusive, checks still hold, and what calendars and syncs have read is
\* still true or on record.
THEOREM Invariance == Spec => []IInv
<1>1. Init => IInv
  <2>1. SUFFICES ASSUME Init
                 PROVE  IInv
    OBVIOUS
  <2>2. \A q \in Requests : req[q] = Idle /\ req[q].op = "idle"
    BY <2>1 DEF Init, Idle
  <2>3. TypeOK
    BY <2>1 DEF Init, TypeOK, CarRow
  <2>4. LockExclusive /\ ChecksHold /\ SyncsKnow /\ CalendarsKnow /\ FreeDaysWereFree
    BY <2>2 DEF LockExclusive, ChecksHold, SyncsKnow, CalendarsKnow, FreeDaysWereFree, Locks
  <2>5. RateIsKept
    BY <2>1 DEF Init, RateIsKept
  <2>6. QED
    BY <2>3, <2>4, <2>5 DEF IInv
<1>2. IInv /\ [Next]_vars => IInv'
  <2>1. SUFFICES ASSUME IInv, [Next]_vars
                 PROVE  IInv'
    OBVIOUS
  <2>2. CASE Release \/ Revive \/ CreateWork \/ UpdateWork \/ DeleteWork \/ EditCar
    BY <2>1, <2>2, ReleaseKeeps, ReviveKeeps, CreateWorkKeeps, UpdateWorkKeeps,
       DeleteWorkKeeps, EditCarKeeps
  <2>3. ASSUME NEW q \in Requests,
               \/ FindCar(q) \/ CheckAvailable(q) \/ LockCar(q) \/ CheckRentals(q)
               \/ CheckWorks(q) \/ Insert(q) \/ End(q)
        PROVE  IInv'
    BY <2>1, <2>3, FindCarKeeps, CheckAvailableKeeps, LockCarKeeps, CheckRentalsKeeps,
       CheckWorksKeeps, InsertKeeps, EndKeeps
  <2>4. ASSUME NEW q \in Requests,
               CalendarRentals(q) \/ CalendarWorks(q) \/ SyncRead(q) \/ SyncWrite(q)
        PROVE  IInv'
    BY <2>1, <2>4, CalendarRentalsKeeps, CalendarWorksKeeps, SyncReadKeeps, SyncWriteKeeps
  <2>5. CASE UNCHANGED vars
    BY <2>1, <2>5 DEF vars, rows, IInv, TypeOK, LockExclusive, ChecksHold, RateIsKept,
       SyncsKnow, CalendarsKnow, FreeDaysWereFree, Locks
  <2>6. QED
    BY <2>1, <2>2, <2>3, <2>4, <2>5 DEF Next
<1>3. QED
  BY <1>1, <1>2, PTL DEF Spec

\* Every reachable state of rows, requests and history is well typed.
THEOREM TypeCorrect == Spec => []TypeOK
<1>1. IInv => TypeOK
  BY DEF IInv
<1>2. QED
  BY <1>1, Invariance, PTL

\* The calendar, the filter available_on and the check of a span agree on
\* every day of every car (car_repository.go, AvailabilityCalendar).
THEOREM TheViewsAgree == Spec => []ViewsAgree
<1>1. TypeOK => ViewsAgree
  BY TypedViewsAgree
<1>2. QED
  BY <1>1, TypeCorrect, PTL

\* A booking inserts with its checks still true, but for rentals approved
\* again and windows updated meanwhile (CreateWithAvailability).
THEOREM BookingsStayChecked == Spec => []ChecksHold
<1>1. IInv => ChecksHold
  BY DEF IInv
<1>2. QED
  BY <1>1, Invariance, PTL

\* A day the calendar shows as free was free at a moment of its two reads,
\* unless a rental was written over an open window (AvailabilityCalendar).
THEOREM CalendarsWereTrue == Spec => []FreeDaysWereFree
<1>1. IInv => FreeDaysWereFree
  BY DEF IInv
<1>2. QED
  BY <1>1, Invariance, PTL

\* An administrator's rate is lost only to a sync that read the car before it
\* (syncCarMaintenanceStatus).
THEOREM RatesAreKept == Spec => []RateIsKept
<1>1. IInv => RateIsKept
  BY DEF IInv
<1>2. QED
  BY <1>1, Invariance, PTL
=============================================================================
