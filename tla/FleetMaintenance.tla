-------------------------- MODULE FleetMaintenance --------------------------
(***************************************************************************)
(* Cars and their maintenance windows.  cars.status is a cache of "the car *)
(* has open maintenance": every maintenance request writes its own row and *)
(* then, in a sequence of separate statements, reads the car, lists the    *)
(* open windows and writes the whole car row back.  Nothing is locked, so  *)
(* other requests run between any two of these statements.                 *)
(*                                                                         *)
(* The dates of a window matter here only as a reason to refuse a write:   *)
(* see Refuse.  suspect, disturbed and retired are history variables, no   *)
(* guard reads them.                                                       *)
(***************************************************************************)
CONSTANTS
    Cars,       \* car ids
    Works,      \* ids of maintenance windows
    Requests,   \* HTTP requests that can be in flight at the same time
    Mishaps     \* may a request be cut short, or a status be set by hand?

ASSUME NoneAssumption == "none" \notin Cars
ASSUME MishapsAssumption == Mishaps \in BOOLEAN

VARIABLES
    car,        \* cars.status, "absent" before the insert, "deleted" at the end
    work,       \* car_maintenances.car_id and status
    req,        \* what each request still has to do
    suspect,    \* history: cars a mishap or a race may have left with a wrong status
    disturbed,  \* history: requests whose reads of their car are out of date
    retired     \* history: cars set inactive while no sync had read them, see Retire

vars == <<car, work, req, suspect, disturbed, retired>>

-----------------------------------------------------------------------------
(* Rows and requests *)

CarStatus  == {"available", "maintenance", "inactive"}
Open       == {"scheduled", "in_progress"}
WorkStatus == Open \cup {"closed"}    \* completed or cancelled

Work    == [car : Cars, status : WorkStatus]
Unused  == [car |-> "none", status |-> "unused"]
Removed == [car |-> "none", status |-> "removed"]

Exists(c) == car[c] \in CarStatus
Listed(c, s) == \E w \in Works : work[w].car = c /\ work[w].status = s
OpenWork(c) == \E s \in Open : Listed(c, s)

Idle == [op |-> "idle"]
Task == [op : {"update"}, work : Works, from : Cars, to : Work]
        \cup [op : {"delete"}, work : Works, from : Cars]
        \cup [op : {"sync"}, car : Cars, next : Cars \cup {"none"},
              step : {"read", "scheduled", "in_progress", "withdraw", "restore"},
              seen : CarStatus \cup {"unread"}]

Init ==
    /\ car  = [c \in Cars |-> "absent"]
    /\ work = [w \in Works |-> Unused]
    /\ req  = [q \in Requests |-> Idle]
    /\ suspect = {}
    /\ disturbed = {}
    /\ retired = {}

Become(q, task) == req' = [req EXCEPT ![q] = task]

\* syncCarMaintenanceStatus of car c, about to take a step; next comes after c.
SyncAt(c, next, step, seen) ==
    [op |-> "sync", car |-> c, next |-> next, step |-> step, seen |-> seen]

Sync(c, next) == SyncAt(c, next, "read", "unread")

Syncing(q, c) == req[q].op = "sync" /\ req[q].car = c

\* Requests that have begun to read about a car of cs.
Readers(cs) == {o \in Requests : \E c \in cs : Syncing(o, c) /\ req[o].step # "read"}

\* q has written a row the readers of cs rely on.
Touch(q, cs) == disturbed' = disturbed \cup (Readers(cs) \ {q})

\* An administrator sets the status of c to s.  That retires c when s is
\* "inactive", c has no open window and no sync has begun to read about it.
Retire(c, s) ==
    retired' = IF s = "inactive" /\ (c \in retired \/ (Readers({c}) = {} /\ ~OpenWork(c)))
               THEN retired \cup {c} ELSE retired \ {c}

\* Opening a window of a car ends its retirement.
RetireNoWork == retired' = {c \in retired : ~OpenWork(c)'}

-----------------------------------------------------------------------------
(* MaintenanceService: the request writes its row *)

Create(q) ==
    /\ req[q] = Idle
    /\ \E w \in Works, new \in Work :
        /\ work[w] = Unused
        /\ Exists(new.car)
        /\ work' = [work EXCEPT ![w] = new]
        /\ Become(q, Sync(new.car, "none"))
        /\ Touch(q, {new.car})
    /\ RetireNoWork
    /\ UNCHANGED <<car, suspect>>

UpdateRead(q) ==
    /\ req[q] = Idle
    /\ \E w \in Works, to \in Work :
        /\ work[w] \in Work
        /\ Exists(to.car)
        /\ Become(q, [op |-> "update", work |-> w, from |-> work[w].car, to |-> to])
    /\ UNCHANGED <<car, work, suspect, disturbed, retired>>

\* Mutant: only the car the window moved to is synced.
CarsToSyncNewOnly(from, to) == Sync(to, "none")

CarsToSync(from, to) == IF from # to THEN Sync(from, to) ELSE Sync(to, "none")

\* from is the car read before; another request may have moved the window since.
Update(q) ==
    /\ req[q].op = "update"
    /\ LET w    == req[q].work
           from == req[q].from
           to   == req[q].to
       IN  /\ work[w] \in Work
           /\ Exists(to.car)
           /\ work' = [work EXCEPT ![w] = to]
           /\ Become(q, CarsToSync(from, to.car))
           /\ Touch(q, {work[w].car, to.car})
           /\ suspect' = suspect \cup ({work[w].car} \ {from, to.car})
    /\ RetireNoWork
    /\ UNCHANGED car

DeleteRead(q) ==
    /\ req[q] = Idle
    /\ \E w \in Works :
        /\ work[w] \in Work
        /\ Become(q, [op |-> "delete", work |-> w, from |-> work[w].car])
    /\ UNCHANGED <<car, work, suspect, disturbed, retired>>

Delete(q) ==
    /\ req[q].op = "delete"
    /\ LET w    == req[q].work
           from == req[q].from
       IN  /\ work[w] \in Work
           /\ work' = [work EXCEPT ![w] = Removed]
           /\ Become(q, Sync(from, "none"))
           /\ Touch(q, {work[w].car})
           /\ suspect' = suspect \cup ({work[w].car} \ {from})
    /\ UNCHANGED <<car, retired>>

\* The write is not made: the row is gone, the window starts in the past or
\* overlaps another open one of the car, the database fails.
Refuse(q) ==
    /\ req[q].op \in {"update", "delete"}
    /\ Become(q, Idle)
    /\ UNCHANGED <<car, work, suspect, disturbed, retired>>

-----------------------------------------------------------------------------
(* syncCarMaintenanceStatus *)

ReadCar(q) ==
    /\ req[q].op = "sync" /\ req[q].step = "read"
    /\ Exists(req[q].car)
    /\ Become(q, SyncAt(req[q].car, req[q].next, "scheduled", car[req[q].car]))
    /\ disturbed' = disturbed \ {q}
    /\ UNCHANGED <<car, work, suspect, retired>>

\* Mutant: hasActiveMaintenance stops after the list of scheduled windows.
AfterScheduledOnly(c) == IF Listed(c, "scheduled") THEN "withdraw" ELSE "restore"

AfterScheduled(c) == IF Listed(c, "scheduled") THEN "withdraw" ELSE "in_progress"

AfterInProgress(c) == IF Listed(c, "in_progress") THEN "withdraw" ELSE "restore"

\* hasActiveMaintenance: one query for each open status.
List(q) ==
    /\ req[q].op = "sync" /\ req[q].step \in Open
    /\ LET c == req[q].car
           after == IF req[q].step = "scheduled" THEN AfterScheduled(c) ELSE AfterInProgress(c)
       IN  Become(q, SyncAt(c, req[q].next, after, req[q].seen))
    /\ UNCHANGED <<car, work, suspect, disturbed, retired>>

\* Mutant: whatever the car was before, it becomes available.
WantedAlways(step, seen) == IF step = "withdraw" THEN "maintenance" ELSE "available"

\* Mutant: a car whose windows are closed is written as migration 008 forbids.
WantedRented(step, seen) ==
    IF step = "withdraw" THEN "maintenance"
    ELSE IF seen = "maintenance" THEN "rented" ELSE seen

\* The status to write, the one seen when nothing is to be written.
Wanted(step, seen) ==
    IF step = "withdraw" THEN "maintenance"
    ELSE IF seen = "maintenance" THEN "available" ELSE seen

\* cars.Update writes the row as it was read, with the new status.
WriteCar(q) ==
    /\ req[q].op = "sync" /\ req[q].step \in {"withdraw", "restore"}
    /\ LET c      == req[q].car
           wanted == Wanted(req[q].step, req[q].seen)
           writes == wanted # req[q].seen
       IN  /\ writes => Exists(c)
           /\ car' = IF writes THEN [car EXCEPT ![c] = wanted] ELSE car
           /\ Become(q, IF req[q].next = "none" THEN Idle ELSE Sync(req[q].next, "none"))
           /\ suspect' = IF q \in disturbed THEN suspect \cup {c} ELSE suspect \ {c}
           /\ disturbed' = (disturbed \cup IF writes THEN Readers({c}) ELSE {}) \ {q}
    /\ UNCHANGED <<work, retired>>

\* The cars q was still to bring up to date.
Owed(q) ==
    IF req[q].op = "sync" THEN {req[q].car, req[q].next} \ {"none"} ELSE {}

\* The car is gone: the request ends with an error, the next car is forgotten.
CarGone(q) ==
    /\ req[q].op = "sync" /\ req[q].step \notin Open
    /\ ~Exists(req[q].car)
    /\ req[q].step # "read" => Wanted(req[q].step, req[q].seen) # req[q].seen
    /\ suspect' = suspect \cup Owed(q)
    /\ Become(q, Idle)
    /\ UNCHANGED <<car, work, disturbed, retired>>

\* A database error, a dropped connection or a crash between two statements.
Interrupt(q) ==
    /\ Mishaps
    /\ req[q].op = "sync"
    /\ suspect' = suspect \cup Owed(q)
    /\ Become(q, Idle)
    /\ UNCHANGED <<car, work, disturbed, retired>>

-----------------------------------------------------------------------------
(* CarService: one statement each *)

CreateCar(q) ==
    /\ req[q] = Idle
    /\ \E c \in Cars, s \in CarStatus :
        /\ car[c] = "absent"
        /\ s = "maintenance" => Mishaps
        /\ car' = [car EXCEPT ![c] = s]
        /\ suspect' = IF s = "maintenance" THEN suspect \cup {c} ELSE suspect
        /\ Retire(c, s)
    /\ UNCHANGED <<work, req, disturbed>>

EditCar(q) ==
    /\ Mishaps
    /\ req[q] = Idle
    /\ \E c \in Cars, s \in CarStatus :
        /\ Exists(c)
        /\ car' = [car EXCEPT ![c] = s]
        /\ suspect' = suspect \cup {c}
        /\ Touch(q, {c})
        /\ Retire(c, s)
    /\ UNCHANGED <<work, req>>

\* The windows of the car go with it.
DeleteCar(q) ==
    /\ req[q] = Idle
    /\ \E c \in Cars :
        /\ Exists(c)
        /\ car'  = [car EXCEPT ![c] = "deleted"]
        /\ work' = [w \in Works |-> IF work[w].car = c THEN Removed ELSE work[w]]
        /\ Touch(q, {c})
        /\ retired' = retired \ {c}
    /\ UNCHANGED <<req, suspect>>

Next ==
    \E q \in Requests :
        \/ Create(q) \/ UpdateRead(q) \/ Update(q) \/ DeleteRead(q) \/ Delete(q) \/ Refuse(q)
        \/ ReadCar(q) \/ List(q) \/ WriteCar(q) \/ CarGone(q) \/ Interrupt(q)
        \/ CreateCar(q) \/ EditCar(q) \/ DeleteCar(q)

Spec == Init /\ [][Next]_vars

-----------------------------------------------------------------------------
(* Properties *)

\* Every row, request and history variable stays in its domain (migrations
\* 002 and 012, models/car.go and models/maintenance.go).
TypeOK ==
    /\ car \in [Cars -> CarStatus \cup {"absent", "deleted"}]
    /\ work \in [Works -> Work \cup {Unused, Removed}]
    /\ req \in [Requests -> Task \cup {Idle}]
    /\ suspect \in SUBSET Cars
    /\ disturbed \in SUBSET Requests
    /\ retired \in SUBSET Cars

\* The car's status agrees with its windows.
InStep(c) == car[c] = "maintenance" <=> OpenWork(c)

\* A car is in status "maintenance" exactly when it has an open window, once
\* the requests that changed its windows have finished.  Only a mishap or two
\* overlapping requests can break that, and the next sync that nothing
\* disturbs repairs it (syncCarMaintenanceStatus, maintenance_service.go).
StatusFollowsWork ==
    \A c \in Cars :
        Exists(c) /\ c \notin suspect /\ (\A q \in Requests : c \notin Owed(q)) => InStep(c)

\* A car an administrator sets inactive, while it has no open window and no sync
\* has begun to read about it, stays inactive until it is edited or deleted or
\* one of its windows is opened: no sync of it, overtaken or not, and no window
\* that is closed, moved away or deleted brings it back (the early return of
\* syncCarMaintenanceStatus for a car that is not in maintenance).  A window
\* that opens does: the sync forgets that the car was inactive, and makes it
\* available once no window is open.
RetiredStaysInactive == \A c \in retired : car[c] = "inactive"

\* "TestMaintenanceUpdateCompletedRestoresAvailableWhenNoActiveMaintenance"
\* and "TestMaintenanceCreateSetsCarStatusToMaintenance": when all requests
\* have finished, a car is available only without open windows.
AvailableMeansNoWork ==
    (\A q \in Requests : req[q] = Idle)
        => \A c \in Cars : car[c] = "available" => ~OpenWork(c)
=============================================================================
