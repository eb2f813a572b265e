----------------------- MODULE FleetMaintenance_proofs -----------------------
(***************************************************************************)
(* Theorems about FleetMaintenance for any number of cars, windows and     *)
(* requests in flight, mishaps included unless a theorem excludes them.    *)
(***************************************************************************)
EXTENDS FleetMaintenance, TLAPS

\* A window references an existing car (foreign key, ON DELETE CASCADE).
WorkHasCar == \A w \in Works : work[w] \in Work => Exists(work[w].car)

\* What a request that nothing has disturbed has read is still true.
ReadsHold(q) ==
    req[q].op = "sync" /\ req[q].step # "read" /\ q \notin disturbed =>
        /\ req[q].seen = car[req[q].car]
        /\ req[q].step = "in_progress" => ~Listed(req[q].car, "scheduled")
        /\ req[q].step = "withdraw" => OpenWork(req[q].car)
        /\ req[q].step = "restore" => ~OpenWork(req[q].car)

\* The inductive invariant.
IInv ==
    /\ TypeOK
    /\ WorkHasCar
    /\ \A q \in Requests : ReadsHold(q)
    /\ StatusFollowsWork

-----------------------------------------------------------------------------
(* Requests and windows *)

\* Which fields the record of an in-flight request has, by its operation.
LEMMA TaskFields ==
    ASSUME TypeOK, NEW q \in Requests
    PROVE  /\ req[q] \in Task \cup {Idle}
           /\ req[q].op = "update" => /\ req[q].work \in Works
                                     /\ req[q].from \in Cars
                                     /\ req[q].to \in Work
           /\ req[q].op = "delete" => req[q].work \in Works /\ req[q].from \in Cars
           /\ req[q].op = "sync" =>
                 /\ req[q].car \in Cars
                 /\ req[q].next \in Cars \cup {"none"}
                 /\ req[q].step \in {"read", "scheduled", "in_progress", "withdraw", "restore"}
                 /\ req[q].seen \in CarStatus \cup {"unread"}
           /\ req[q].op \in {"idle", "update", "delete", "sync"}
<1>1. req[q] \in Task \cup {Idle}
  BY DEF TypeOK
<1>2. QED
  BY <1>1 DEF Task, Idle

\* Moving one request on keeps the request table well typed.
LEMMA ReqType ==
    ASSUME TypeOK, NEW q \in Requests, NEW t \in Task \cup {Idle}, Become(q, t)
    PROVE  /\ req' \in [Requests -> Task \cup {Idle}]
           /\ req'[q] = t
           /\ \A o \in Requests : o # q => req'[o] = req[o]
BY DEF TypeOK, Become

LEMMA SyncIsTask ==
    ASSUME NEW c \in Cars, NEW next \in Cars \cup {"none"}
    PROVE  Sync(c, next) \in Task
BY DEF Sync, SyncAt, Task

\* Both ends of a move are synced.
LEMMA SyncsBoth ==
    ASSUME NEW from \in Cars, NEW to \in Cars
    PROVE  /\ CarsToSync(from, to) \in Task
           /\ CarsToSync(from, to).op = "sync"
           /\ CarsToSync(from, to).step = "read"
           /\ {CarsToSync(from, to).car, CarsToSync(from, to).next} \ {"none"} = {from, to}
BY SyncIsTask, NoneAssumption DEF CarsToSync, Sync, SyncAt

\* A window belongs to one car, or to none.
LEMMA WorkFields ==
    ASSUME TypeOK, NEW w \in Works
    PROVE  /\ work[w] \in Work \cup {Unused, Removed}
           /\ work[w] \in Work => work[w].car \in Cars /\ work[w].status \in WorkStatus
           /\ work[w] \notin Work => work[w].car = "none"
BY NoneAssumption DEF TypeOK, Work, Unused, Removed

\* A listed window is a row of the table.
LEMMA ListedRow ==
    ASSUME TypeOK, NEW c \in Cars, NEW s, Listed(c, s)
    PROVE  \E w \in Works : work[w] \in Work /\ work[w].car = c
BY WorkFields, NoneAssumption DEF Listed

\* Writing one window leaves the lists of every other car alone.
LEMMA ListedSame ==
    ASSUME TypeOK, NEW w \in Works, NEW v, work' = [work EXCEPT ![w] = v],
           NEW c \in Cars, c # work[w].car, c # v.car
    PROVE  \A s : Listed(c, s)' <=> Listed(c, s)
BY DEF TypeOK, Listed

-----------------------------------------------------------------------------
(* Types *)

\* One step of any action keeps every variable in its domain.
THEOREM TypeStep ==
    ASSUME TypeOK, [Next]_vars
    PROVE  TypeOK'
<1> USE TypeOK
<1>1. ASSUME NEW q \in Requests, Create(q) PROVE TypeOK'
  <2>1. PICK w \in Works, new \in Work :
           work' = [work EXCEPT ![w] = new] /\ Become(q, Sync(new.car, "none"))
    BY <1>1 DEF Create
  <2>2. Sync(new.car, "none") \in Task
    BY SyncIsTask DEF Work
  <2>3. QED
    BY <1>1, <2>1, <2>2, ReqType DEF Create, RetireNoWork, Touch, Readers, TypeOK
<1>2. ASSUME NEW q \in Requests, UpdateRead(q) PROVE TypeOK'
  <2>1. PICK w \in Works, to \in Work :
           /\ work[w] \in Work
           /\ Become(q, [op |-> "update", work |-> w, from |-> work[w].car, to |-> to])
    BY <1>2 DEF UpdateRead
  <2>2. [op |-> "update", work |-> w, from |-> work[w].car, to |-> to] \in Task
    BY <2>1 DEF Task, Work
  <2>3. QED
    BY <1>2, <2>1, <2>2, ReqType DEF UpdateRead, TypeOK
<1>3. ASSUME NEW q \in Requests, Update(q) PROVE TypeOK'
  <2>1. /\ req[q].work \in Works /\ req[q].from \in Cars /\ req[q].to \in Work
        /\ req[q].to.car \in Cars
    BY <1>3, TaskFields DEF Update, Work
  <2>2. work[req[q].work].car \in Cars
    BY <1>3, <2>1, WorkFields DEF Update
  <2>3. req' \in [Requests -> Task \cup {Idle}]
    BY <1>3, <2>1, SyncsBoth, ReqType DEF Update
  <2>4. QED
    BY <1>3, <2>1, <2>2, <2>3 DEF Update, RetireNoWork, Touch, Readers, TypeOK
<1>4. ASSUME NEW q \in Requests, DeleteRead(q) PROVE TypeOK'
  <2>1. PICK w \in Works :
           work[w] \in Work /\ Become(q, [op |-> "delete", work |-> w, from |-> work[w].car])
    BY <1>4 DEF DeleteRead
  <2>2. [op |-> "delete", work |-> w, from |-> work[w].car] \in Task
    BY <2>1 DEF Task, Work
  <2>3. QED
    BY <1>4, <2>1, <2>2, ReqType DEF DeleteRead, TypeOK
<1>5. ASSUME NEW q \in Requests, Delete(q) PROVE TypeOK'
  <2>1. req[q].work \in Works /\ req[q].from \in Cars
    BY <1>5, TaskFields DEF Delete
  <2>2. work[req[q].work].car \in Cars
    BY <1>5, <2>1, WorkFields DEF Delete
  <2>3. req' \in [Requests -> Task \cup {Idle}]
    BY <1>5, <2>1, SyncIsTask, ReqType DEF Delete
  <2>4. QED
    BY <1>5, <2>1, <2>2, <2>3 DEF Delete, Touch, Readers, TypeOK
<1>6. ASSUME NEW q \in Requests, Refuse(q) PROVE TypeOK'
  BY <1>6, ReqType DEF Refuse, TypeOK
<1>7. ASSUME NEW q \in Requests, ReadCar(q) PROVE TypeOK'
  <2>1. SyncAt(req[q].car, req[q].next, "scheduled", car[req[q].car]) \in Task
    BY <1>7, TaskFields DEF ReadCar, Exists, SyncAt, Task
  <2>2. QED
    BY <1>7, <2>1, ReqType DEF ReadCar, TypeOK
<1>8. ASSUME NEW q \in Requests, List(q) PROVE TypeOK'
  <2> DEFINE step == IF req[q].step = "scheduled" THEN AfterScheduled(req[q].car)
                     ELSE AfterInProgress(req[q].car)
  <2>1. step \in {"in_progress", "withdraw", "restore"}
    BY DEF AfterScheduled, AfterInProgress
  <2>2. Become(q, SyncAt(req[q].car, req[q].next, step, req[q].seen))
    BY <1>8 DEF List
  <2> HIDE DEF step
  <2>3. SyncAt(req[q].car, req[q].next, step, req[q].seen) \in Task
    BY <1>8, <2>1, TaskFields DEF List, SyncAt, Task
  <2>4. QED
    BY <1>8, <2>2, <2>3, ReqType DEF List, TypeOK
<1>9. ASSUME NEW q \in Requests, WriteCar(q) PROVE TypeOK'
  <2>1. /\ req[q].car \in Cars /\ req[q].next \in Cars \cup {"none"}
        /\ req[q].seen \in CarStatus \cup {"unread"}
    BY <1>9, TaskFields DEF WriteCar
  <2>2. req' \in [Requests -> Task \cup {Idle}]
    BY <1>9, <2>1, SyncIsTask, ReqType DEF WriteCar
  <2>3. car' \in [Cars -> CarStatus \cup {"absent", "deleted"}]
    BY <1>9, <2>1 DEF WriteCar, Wanted, CarStatus, TypeOK
  <2>4. QED
    BY <1>9, <2>1, <2>2, <2>3 DEF WriteCar, Readers, TypeOK
<1>10. ASSUME NEW q \in Requests, CarGone(q) \/ Interrupt(q) PROVE TypeOK'
  <2>1. Owed(q) \subseteq Cars
    BY TaskFields DEF Owed
  <2>2. QED
    BY <1>10, <2>1, ReqType DEF CarGone, Interrupt, TypeOK
<1>11. ASSUME NEW q \in Requests, CreateCar(q) \/ EditCar(q) \/ DeleteCar(q) PROVE TypeOK'
  BY <1>11 DEF CreateCar, EditCar, DeleteCar, Retire, Touch, Readers, TypeOK
<1>12. ASSUME UNCHANGED vars PROVE TypeOK'
  BY <1>12 DEF vars, TypeOK
<1>13. QED
  BY <1>1, <1>2, <1>3, <1>4, <1>5, <1>6, <1>7, <1>8, <1>9, <1>10, <1>11, <1>12 DEF Next

-----------------------------------------------------------------------------
(* The inductive invariant, one action at a time *)

\* A step of q that writes rows of the cars cs, and marks their readers as
\* disturbed, leaves what every other request has read true.
LEMMA OthersReads ==
    ASSUME TypeOK, \A o \in Requests : ReadsHold(o), NEW q, NEW cs,
           \A o \in Requests : o # q => req'[o] = req[o],
           \A o \in Requests : o # q /\ (o \in disturbed \/ o \in Readers(cs)) => o \in disturbed',
           \A c \in Cars : c \notin cs => /\ car'[c] = car[c]
                                         /\ \A s : Listed(c, s)' <=> Listed(c, s),
           NEW o \in Requests, o # q
    PROVE  ReadsHold(o)'
<1> SUFFICES ASSUME req'[o].op = "sync", req'[o].step # "read", o \notin disturbed'
             PROVE  ReadsHold(o)'
  BY DEF ReadsHold
<1>1. req'[o] = req[o] /\ o \notin disturbed /\ o \notin Readers(cs)
  OBVIOUS
<1>2. req[o].car \in Cars
  BY <1>1, TaskFields
<1>3. req[o].car \notin cs
  BY <1>1 DEF Readers, Syncing
<1>4. /\ car'[req[o].car] = car[req[o].car]
      /\ \A s : Listed(req[o].car, s)' <=> Listed(req[o].car, s)
  BY <1>2, <1>3
<1>5. ReadsHold(o)
  OBVIOUS
<1>6. QED
  BY <1>1, <1>4, <1>5 DEF ReadsHold, OpenWork

\* No request has car c left to sync, and nothing has put its status in doubt.
Settled(c) ==
    Exists(c) /\ c \notin suspect /\ \A q \in Requests : c \notin Owed(q)

\* A car whose row and lists a step leaves alone stays in step, if it was settled.
LEMMA OthersInStep ==
    ASSUME StatusFollowsWork, NEW c \in Cars, Settled(c),
           car'[c] = car[c], \A s : Listed(c, s)' <=> Listed(c, s)
    PROVE  InStep(c)'
BY DEF StatusFollowsWork, Settled, InStep, OpenWork

\* Writing a window: the request then owes its old and its new car a sync, or
\* the old car is suspect.
LEMMA WindowWritten ==
    ASSUME IInv, NEW q \in Requests, NEW w \in Works, NEW v \in Work \cup {Removed},
           NEW t \in Task, t.op = "sync", t.step = "read",
           v \in Work => Exists(v.car),
           work' = [work EXCEPT ![w] = v],
           car' = car, Become(q, t),
           NEW cs, cs = {work[w].car, v.car} \ {"none"}, Touch(q, cs),
           suspect \subseteq suspect', Owed(q) = {},
           \A c \in Cars : (c = work[w].car \/ c = v.car) => c \in suspect' \/ c \in Owed(q)'
    PROVE  WorkHasCar' /\ (\A o \in Requests : ReadsHold(o)') /\ StatusFollowsWork'
<1>1. TypeOK
  BY DEF IInv
<1>2. /\ req'[q] = t
      /\ \A o \in Requests : o # q => req'[o] = req[o]
  BY <1>1, ReqType
<1>3. \A c \in Cars : c \notin cs =>
          /\ car'[c] = car[c]
          /\ \A s : Listed(c, s)' <=> Listed(c, s)
  BY <1>1, ListedSame, NoneAssumption
<1>4. WorkHasCar'
  BY <1>1 DEF IInv, WorkHasCar, TypeOK, Exists
<1>5. ASSUME NEW o \in Requests PROVE ReadsHold(o)'
  <2>1. CASE o = q
    BY <1>2, <2>1 DEF ReadsHold
  <2>2. CASE o # q
    BY <1>1, <1>2, <1>3, <2>2, OthersReads DEF IInv, Touch
  <2>3. QED
    BY <2>1, <2>2
<1>6. ASSUME NEW c \in Cars, Settled(c)' PROVE InStep(c)'
  <2>1. c # work[w].car /\ c # v.car /\ c \notin suspect
    BY <1>6 DEF Settled
  <2>2. \A o \in Requests : c \notin Owed(o)
    BY <1>2, <1>6 DEF Settled, Owed
  <2>3. Settled(c)
    BY <1>6, <2>1, <2>2 DEF Settled, Exists
  <2>4. QED
    BY <1>3, <2>1, <2>3, OthersInStep DEF IInv
<1>7. QED
  BY <1>4, <1>5, <1>6 DEF StatusFollowsWork, Settled

\* A step that writes no car and no window and disturbs nobody new.
LEMMA OnlyRequestMoves ==
    ASSUME IInv, NEW q \in Requests, NEW t \in Task \cup {Idle}, Become(q, t),
           car' = car, work' = work, suspect \subseteq suspect',
           disturbed \ {q} \subseteq disturbed',
           \A c \in Owed(q) : c \in suspect' \/ c \in Owed(q)',
           ReadsHold(q)'
    PROVE  WorkHasCar' /\ (\A o \in Requests : ReadsHold(o)') /\ StatusFollowsWork'
<1>1. TypeOK
  BY DEF IInv
<1>2. /\ req'[q] = t
      /\ \A o \in Requests : o # q => req'[o] = req[o]
  BY <1>1, ReqType
<1>3. \A c \in Cars : \A s : Listed(c, s)' <=> Listed(c, s)
  BY DEF Listed
<1>4. WorkHasCar'
  BY DEF IInv, WorkHasCar, Exists
<1>5. ASSUME NEW o \in Requests, o # q PROVE ReadsHold(o)'
  <2>1. Readers({}) = {}
    BY DEF Readers
  <2>2. QED
    BY <1>1, <1>2, <1>3, <1>5, <2>1, OthersReads DEF IInv
<1>6. ASSUME NEW c \in Cars, Settled(c)' PROVE InStep(c)'
  <2>1. Settled(c)
    BY <1>2, <1>6 DEF Settled, Owed, Exists
  <2>2. QED
    BY <1>3, <2>1, OthersInStep DEF IInv
<1>7. QED
  BY <1>4, <1>5, <1>6 DEF StatusFollowsWork, Settled

\* The statement that writes the car ends a sync.
LEMMA CarWritten ==
    ASSUME IInv, NEW q \in Requests, WriteCar(q)
    PROVE  WorkHasCar' /\ (\A o \in Requests : ReadsHold(o)') /\ StatusFollowsWork'
<1> DEFINE c == req[q].car
           wanted == Wanted(req[q].step, req[q].seen)
           writes == wanted # req[q].seen
           t == IF req[q].next = "none" THEN Idle ELSE Sync(req[q].next, "none")
<1>1. TypeOK
  BY DEF IInv
<1>2. /\ req[q].op = "sync" /\ req[q].step \in {"withdraw", "restore"}
      /\ c \in Cars /\ req[q].next \in Cars \cup {"none"}
      /\ req[q].seen \in CarStatus \cup {"unread"}
  BY <1>1, TaskFields DEF WriteCar
<1>3. /\ writes => Exists(c)
      /\ car' = IF writes THEN [car EXCEPT ![c] = wanted] ELSE car
      /\ work' = work /\ Become(q, t)
      /\ suspect' = IF q \in disturbed THEN suspect \cup {c} ELSE suspect \ {c}
      /\ disturbed' = (disturbed \cup IF writes THEN Readers({c}) ELSE {}) \ {q}
  BY DEF WriteCar
<1>4. t \in Task \cup {Idle}
  BY <1>2, SyncIsTask
<1>5. t.op = "sync" => t.step = "read"
  BY DEF Sync, SyncAt, Idle
<1>6. wanted \in CarStatus \cup {"unread"} /\ (writes => wanted \in CarStatus)
  BY <1>2 DEF Wanted, CarStatus
<1>7. req'[q] = t /\ \A o \in Requests : o # q => req'[o] = req[o]
  BY <1>1, <1>3, <1>4, ReqType
<1>8. \A d \in Cars : /\ d # c \/ ~writes => car'[d] = car[d]
                      /\ \A s : Listed(d, s)' <=> Listed(d, s)
                      /\ Exists(d)' <=> Exists(d)
  BY <1>1, <1>2, <1>3, <1>6 DEF TypeOK, Exists, Listed
<1>9. WorkHasCar'
  BY <1>1, <1>3, <1>8, WorkFields DEF IInv, WorkHasCar, Exists
<1>10. t.op = "sync" => t.car = req[q].next /\ t.next = "none"
  BY DEF Sync, SyncAt, Idle
<1>11. t.op = "sync" <=> req[q].next # "none"
  BY DEF Sync, SyncAt, Idle
<1>12. Owed(q)' = Owed(q) \ {c} \/ Owed(q)' = Owed(q)
  BY <1>2, <1>7, <1>10, <1>11, NoneAssumption DEF Owed
<1> HIDE DEF t
<1>13. ASSUME NEW o \in Requests PROVE ReadsHold(o)'
  <2>1. CASE o = q
    BY <1>5, <1>7, <2>1 DEF ReadsHold
  <2>2. CASE o # q
    <3> DEFINE cs == IF writes THEN {c} ELSE {}
    <3>1. /\ \A d \in Cars : d \notin cs => car'[d] = car[d]
          /\ \A p \in Readers(cs) : p \in Readers({c}) /\ writes
      BY <1>8 DEF Readers
    <3>2. \A p \in Requests : p # q /\ (p \in disturbed \/ p \in Readers(cs)) => p \in disturbed'
      BY <1>3, <3>1
    <3> HIDE DEF cs
    <3>3. QED
      BY <1>1, <1>7, <1>8, <2>2, <3>1, <3>2, OthersReads DEF IInv
  <2>3. QED
    BY <2>1, <2>2
<1>14. ASSUME NEW d \in Cars, Settled(d)' PROVE InStep(d)'
  <2>1. CASE d = c
    <3>1. q \notin disturbed
      BY <1>3, <1>14, <2>1 DEF Settled
    <3>2. /\ req[q].seen = car[c]
          /\ req[q].step = "withdraw" => OpenWork(c)
          /\ req[q].step = "restore" => ~OpenWork(c)
      BY <1>2, <3>1 DEF IInv, ReadsHold
    <3>3. car'[d] = wanted
      BY <1>1, <1>2, <1>3, <2>1, <3>2 DEF TypeOK
    <3>4. wanted = "maintenance" <=> OpenWork(d)
      BY <1>2, <2>1, <3>2 DEF Wanted
    <3>5. OpenWork(d)' <=> OpenWork(d)
      BY <1>8 DEF OpenWork
    <3>6. QED
      BY <3>3, <3>4, <3>5 DEF InStep
  <2>2. CASE d # c
    <3>1. \A o \in Requests : d \notin Owed(o)
      BY <1>7, <1>12, <1>14, <2>2 DEF Settled, Owed
    <3>2. Settled(d)
      BY <1>3, <1>8, <1>14, <2>2, <3>1 DEF Settled
    <3>3. QED
      BY <1>8, <2>2, <3>2, OthersInStep DEF IInv
  <2>3. QED
    BY <2>1, <2>2
<1>15. QED
  BY <1>9, <1>13, <1>14 DEF StatusFollowsWork, Settled

\* CarService's statements: a new car has no window, an edited one is suspect,
\* a deleted one takes its windows with it.
LEMMA CarServiceStep ==
    ASSUME IInv, NEW q \in Requests, CreateCar(q) \/ EditCar(q) \/ DeleteCar(q)
    PROVE  WorkHasCar' /\ (\A o \in Requests : ReadsHold(o)') /\ StatusFollowsWork'
<1>1. TypeOK /\ WorkHasCar /\ StatusFollowsWork /\ \A o \in Requests : ReadsHold(o)
  BY DEF IInv
<1>2. PICK c \in Cars, v \in CarStatus \cup {"deleted"} :
         /\ car' = [car EXCEPT ![c] = v]
         /\ \/ /\ car[c] = "absent" /\ work' = work /\ disturbed' = disturbed
               /\ v = "maintenance" => c \in suspect'
               /\ suspect \subseteq suspect'
            \/ /\ Exists(c) /\ work' = work /\ Touch(q, {c}) /\ v \in CarStatus
               /\ suspect' = suspect \cup {c}
            \/ /\ Exists(c) /\ v = "deleted" /\ Touch(q, {c})
               /\ work' = [w \in Works |-> IF work[w].car = c THEN Removed ELSE work[w]]
               /\ suspect' = suspect
  <2>1. CASE CreateCar(q)
    BY <2>1 DEF CreateCar
  <2>2. CASE EditCar(q)
    BY <2>2 DEF EditCar
  <2>3. CASE DeleteCar(q)
    BY <2>3 DEF DeleteCar
  <2>4. QED
    BY <2>1, <2>2, <2>3
<1>3. req' = req /\ req[q] = Idle
  BY DEF CreateCar, EditCar, DeleteCar
<1>4. \A d \in Cars : d # c => /\ car'[d] = car[d]
                              /\ \A s : Listed(d, s)' <=> Listed(d, s)
  <2>1. ASSUME NEW d \in Cars, d # c, NEW s PROVE Listed(d, s)' <=> Listed(d, s)
    <3>1. CASE work' = work
      BY <3>1 DEF Listed
    <3>2. CASE work' = [w \in Works |-> IF work[w].car = c THEN Removed ELSE work[w]]
      BY <2>1, <3>2, NoneAssumption DEF Listed, Removed
    <3>3. QED
      BY <1>2, <3>1, <3>2
  <2>2. QED
    BY <1>1, <1>2, <2>1 DEF TypeOK
<1>5. WorkHasCar'
  BY <1>1, <1>2, <1>4, WorkFields, NoneAssumption DEF WorkHasCar, Exists, Removed, TypeOK, CarStatus, Work
<1>6. ReadsHold(q)'
  BY <1>3 DEF ReadsHold, Idle
<1>7. ASSUME NEW o \in Requests, o # q PROVE ReadsHold(o)'
  <2>1. CASE car[c] = "absent" /\ disturbed' = disturbed /\ work' = work
    <3>1. ASSUME req[o].op = "sync", req[o].step # "read", o \notin disturbed
          PROVE  req[o].car # c /\ req[o].car \in Cars
      \* Whatever o read about an absent car, it has not seen it as absent.
      BY <1>1, <2>1, <3>1, TaskFields DEF ReadsHold, CarStatus
    <3>2. QED
      BY <1>1, <1>3, <1>4, <2>1, <3>1 DEF ReadsHold, OpenWork
  <2>2. CASE Touch(q, {c})
    BY <1>1, <1>3, <1>4, <1>7, <2>2, OthersReads DEF Touch
  <2>3. QED
    BY <1>2, <2>1, <2>2
<1>8. ASSUME NEW d \in Cars, Settled(d)' PROVE InStep(d)'
  <2>1. CASE d # c
    <3>1. Settled(d)
      BY <1>2, <1>3, <1>4, <1>8, <2>1 DEF Settled, Owed, Exists
    <3>2. QED
      BY <1>1, <1>4, <2>1, <3>1, OthersInStep
  <2>2. CASE d = c
    <3>0. Exists(c)' /\ c \notin suspect'
      BY <1>8, <2>2 DEF Settled, Exists
    <3>1. car[c] = "absent" /\ work' = work
      <4>1. CASE Exists(c) /\ suspect' = suspect \cup {c}
        BY <3>0, <4>1
      <4>2. CASE v = "deleted"
        BY <1>1, <1>2, <3>0, <4>2 DEF Exists, CarStatus, TypeOK
      <4>3. QED
        BY <1>2, <4>1, <4>2
    <3>2. ~OpenWork(d)
      <4>1. ASSUME NEW s, Listed(d, s) PROVE FALSE
        <5>1. PICK w \in Works : work[w] \in Work /\ work[w].car = d
          BY <1>1, <4>1, ListedRow
        <5>2. QED
          BY <1>1, <2>2, <3>1, <5>1 DEF WorkHasCar, Exists, CarStatus
      <4>2. QED
        BY <4>1 DEF OpenWork
    <3>3. ~OpenWork(d)'
      BY <3>1, <3>2 DEF OpenWork, Listed
    <3>4. car'[d] # "maintenance"
      <4>1. ~Exists(c)
        BY <3>1 DEF Exists, CarStatus
      <4>2. QED
        BY <1>1, <1>2, <2>2, <3>0, <4>1 DEF TypeOK
    <3>5. QED
      BY <3>3, <3>4 DEF InStep
  <2>3. QED
    BY <2>1, <2>2
<1>9. QED
  BY <1>5, <1>6, <1>7, <1>8 DEF StatusFollowsWork, Settled

-----------------------------------------------------------------------------
(* The theorems *)

THEOREM InitIInv == Init => IInv
<1> SUFFICES ASSUME Init PROVE IInv
  OBVIOUS
<1>1. TypeOK
  BY DEF Init, TypeOK
<1>2. WorkHasCar
  BY NoneAssumption DEF Init, WorkHasCar, Work, Unused
<1>3. \A q \in Requests : ReadsHold(q)
  BY DEF Init, ReadsHold, Idle
<1>4. StatusFollowsWork
  BY DEF Init, StatusFollowsWork, Exists, CarStatus
<1>5. QED
  BY <1>1, <1>2, <1>3, <1>4 DEF IInv

THEOREM NextIInv == IInv /\ [Next]_vars => IInv'
<1> SUFFICES ASSUME IInv, [Next]_vars PROVE IInv'
  OBVIOUS
<1> DEFINE Goal == WorkHasCar' /\ (\A o \in Requests : ReadsHold(o)') /\ StatusFollowsWork'
<1>1. TypeOK /\ TypeOK'
  BY TypeStep DEF IInv
<1>2. ASSUME NEW q \in Requests, Create(q) PROVE Goal
  <2>1. PICK w \in Works, new \in Work :
           /\ work[w] = Unused /\ Exists(new.car)
           /\ work' = [work EXCEPT ![w] = new]
           /\ Become(q, Sync(new.car, "none"))
           /\ Touch(q, {new.car})
    BY <1>2 DEF Create
  <2>2. new.car \in Cars /\ new.car # "none" /\ work[w].car = "none"
    BY <2>1, NoneAssumption DEF Work, Unused
  <2>3. Sync(new.car, "none") \in Task
    BY <2>2, SyncIsTask
  <2>4. Sync(new.car, "none").op = "sync" /\ Sync(new.car, "none").step = "read"
    BY DEF Sync, SyncAt
  <2>5. req'[q] = Sync(new.car, "none")
    BY <1>1, <2>1, <2>3, ReqType
  <2>6. Owed(q) = {} /\ new.car \in Owed(q)'
    BY <1>2, <2>2, <2>5 DEF Create, Owed, Idle, Sync, SyncAt
  <2>7. PICK cs : cs = {work[w].car, new.car} \ {"none"} /\ cs = {new.car} /\ Touch(q, cs)
    BY <2>1, <2>2
  <2>8. car' = car /\ suspect' = suspect
    BY <1>2 DEF Create
  <2>9. \A c \in Cars : (c = work[w].car \/ c = new.car) => c \in Owed(q)'
    BY <2>2, <2>6, NoneAssumption
  <2>10. QED
    BY <2>1, <2>3, <2>4, <2>6, <2>7, <2>8, <2>9, WindowWritten
<1>3. ASSUME NEW q \in Requests, Update(q) PROVE Goal
  <2>1. PICK w \in Works, from \in Cars, to \in Work :
           w = req[q].work /\ from = req[q].from /\ to = req[q].to
    BY <1>1, <1>3, TaskFields DEF Update
  <2>2. /\ work[w] \in Work /\ Exists(to.car)
        /\ work' = [work EXCEPT ![w] = to]
        /\ Become(q, CarsToSync(from, to.car))
        /\ Touch(q, {work[w].car, to.car})
        /\ suspect' = suspect \cup ({work[w].car} \ {from, to.car})
        /\ car' = car /\ req[q].op = "update"
    BY <1>3, <2>1 DEF Update
  <2>3. to.car \in Cars /\ work[w].car \in Cars
    BY <2>2 DEF Work
  <2>4. PICK t \in Task : t = CarsToSync(from, to.car)
    BY <2>3, SyncsBoth
  <2>5. t.op = "sync" /\ t.step = "read" /\ {t.car, t.next} \ {"none"} = {from, to.car}
    BY <2>3, <2>4, SyncsBoth
  <2>6. req'[q] = t
    BY <1>1, <2>2, <2>4, ReqType
  <2>7. Owed(q) = {} /\ Owed(q)' = {from, to.car}
    BY <2>2, <2>5, <2>6 DEF Owed
  <2>8. PICK cs : cs = {work[w].car, to.car} \ {"none"} /\ Touch(q, cs)
    <3>1. {work[w].car, to.car} \ {"none"} = {work[w].car, to.car}
      BY <2>3, NoneAssumption
    <3>2. PICK cs : cs = {work[w].car, to.car} /\ disturbed' = disturbed \cup (Readers(cs) \ {q})
      BY <2>2 DEF Touch
    <3>3. QED
      BY <3>1, <3>2 DEF Touch
  <2>9. \A c \in Cars : (c = work[w].car \/ c = to.car) => c \in suspect' \/ c \in Owed(q)'
    BY <2>2, <2>7
  <2>10. suspect \subseteq suspect' /\ Become(q, t)
    BY <2>2, <2>4 DEF Become
  <2>11. to \in Work \cup {Removed} /\ (to \in Work => Exists(to.car))
    BY <2>2
  <2>12. work' = [work EXCEPT ![w] = to] /\ car' = car /\ Owed(q) = {}
    BY <2>2, <2>7
  <2>13. QED
    BY <2>5, <2>8, <2>9, <2>10, <2>11, <2>12, WindowWritten
<1>4. ASSUME NEW q \in Requests, Delete(q) PROVE Goal
  <2>1. PICK w \in Works, from \in Cars : w = req[q].work /\ from = req[q].from
    BY <1>1, <1>4, TaskFields DEF Delete
  <2>2. /\ work[w] \in Work
        /\ work' = [work EXCEPT ![w] = Removed]
        /\ Become(q, Sync(from, "none"))
        /\ Touch(q, {work[w].car})
        /\ suspect' = suspect \cup ({work[w].car} \ {from})
        /\ car' = car /\ req[q].op = "delete"
    BY <1>4, <2>1 DEF Delete
  <2>3. work[w].car \in Cars /\ Removed.car = "none" /\ Removed \notin Work
    BY <2>2, NoneAssumption DEF Work, Removed
  <2>4. PICK t \in Task : t = Sync(from, "none")
    BY SyncIsTask
  <2>5. t.op = "sync" /\ t.step = "read" /\ t.car = from
    BY <2>4 DEF Sync, SyncAt
  <2>6. req'[q] = t
    BY <1>1, <2>2, <2>4, ReqType
  <2>7. Owed(q) = {} /\ from \in Owed(q)'
    BY <2>2, <2>5, <2>6, NoneAssumption DEF Owed
  <2>8. PICK cs : cs = {work[w].car, Removed.car} \ {"none"} /\ Touch(q, cs)
    <3>1. {work[w].car, Removed.car} \ {"none"} = {work[w].car}
      BY <2>3, NoneAssumption
    <3>2. PICK cs : cs = {work[w].car} /\ disturbed' = disturbed \cup (Readers(cs) \ {q})
      BY <2>2 DEF Touch
    <3>3. QED
      BY <3>1, <3>2 DEF Touch
  <2>9. \A c \in Cars : (c = work[w].car \/ c = Removed.car) => c \in suspect' \/ c \in Owed(q)'
    BY <2>2, <2>3, <2>7, NoneAssumption
  <2>10. QED
    BY <2>2, <2>3, <2>4, <2>5, <2>7, <2>8, <2>9, WindowWritten
<1>5. ASSUME NEW q \in Requests, NEW t \in Task \cup {Idle}, Become(q, t),
             t.op # "sync", Owed(q) = {} \/ Owed(q) \subseteq suspect',
             car' = car, work' = work, suspect \subseteq suspect', disturbed' = disturbed
      PROVE  Goal
  <2>1. ReadsHold(q)'
    BY <1>1, <1>5, ReqType DEF ReadsHold
  <2>2. QED
    BY <1>5, <2>1, OnlyRequestMoves
<1>6. ASSUME NEW q \in Requests,
             UpdateRead(q) \/ DeleteRead(q) \/ Refuse(q) \/ CarGone(q) \/ Interrupt(q)
      PROVE  Goal
  <2>1. Owed(q) = {} \/ Owed(q) \subseteq suspect'
    BY <1>6 DEF UpdateRead, DeleteRead, Refuse, CarGone, Interrupt, Owed, Idle
  <2>2. /\ car' = car /\ work' = work /\ disturbed' = disturbed
        /\ suspect \subseteq suspect'
    BY <1>6 DEF UpdateRead, DeleteRead, Refuse, CarGone, Interrupt
  <2>3. \E t \in Task \cup {Idle} : Become(q, t) /\ t.op # "sync"
    <3>1. CASE UpdateRead(q)
      <4>1. PICK w \in Works, to \in Work :
               /\ work[w] \in Work
               /\ Become(q, [op |-> "update", work |-> w, from |-> work[w].car, to |-> to])
        BY <3>1 DEF UpdateRead
      <4>2. [op |-> "update", work |-> w, from |-> work[w].car, to |-> to] \in Task
        BY <4>1 DEF Task, Work
      <4>3. QED
        BY <4>1, <4>2
    <3>2. CASE DeleteRead(q)
      <4>1. PICK w \in Works :
               /\ work[w] \in Work
               /\ Become(q, [op |-> "delete", work |-> w, from |-> work[w].car])
        BY <3>2 DEF DeleteRead
      <4>2. [op |-> "delete", work |-> w, from |-> work[w].car] \in Task
        BY <4>1 DEF Task, Work
      <4>3. QED
        BY <4>1, <4>2
    <3>3. CASE Refuse(q) \/ CarGone(q) \/ Interrupt(q)
      BY <3>3 DEF Refuse, CarGone, Interrupt, Idle
    <3>4. QED
      BY <1>6, <3>1, <3>2, <3>3
  <2>4. QED
    BY <1>5, <2>1, <2>2, <2>3
<1>7. ASSUME NEW q \in Requests, ReadCar(q) \/ List(q) PROVE Goal
  <2>1. PICK c \in Cars, next \in Cars \cup {"none"},
             s \in {"read", "scheduled", "in_progress", "withdraw", "restore"},
             v \in CarStatus \cup {"unread"} :
           /\ req[q].op = "sync" /\ req[q].car = c /\ req[q].next = next
           /\ req[q].step = s /\ req[q].seen = v
    BY <1>1, <1>7, TaskFields DEF ReadCar, List
  <2>2. PICK step \in {"scheduled", "in_progress", "withdraw", "restore"},
             seen \in CarStatus \cup {"unread"} :
           /\ Become(q, SyncAt(c, next, step, seen))
           /\ q \notin disturbed' => seen = car[c]
           /\ q \notin disturbed' /\ step = "in_progress" => ~Listed(c, "scheduled")
           /\ q \notin disturbed' /\ step = "withdraw" => OpenWork(c)
           /\ q \notin disturbed' /\ step = "restore" => ~OpenWork(c)
    <3>1. CASE ReadCar(q)
      BY <2>1, <3>1 DEF ReadCar, Exists
    <3>2. CASE List(q)
      <4>1. /\ s \in Open /\ disturbed' = disturbed
            /\ Become(q, SyncAt(c, next, IF s = "scheduled" THEN AfterScheduled(c)
                                         ELSE AfterInProgress(c), v))
        BY <2>1, <3>2 DEF List
      <4>2. v \in CarStatus \cup {"unread"} /\ ReadsHold(q)
        BY <1>1, <2>1, TaskFields DEF IInv
      <4>3. q \notin disturbed => /\ v = car[c]
                                  /\ s = "in_progress" => ~Listed(c, "scheduled")
        BY <2>1, <4>1, <4>2 DEF ReadsHold, Open
      <4>4. OpenWork(c) <=> Listed(c, "scheduled") \/ Listed(c, "in_progress")
        BY DEF OpenWork, Open
      <4>5. QED
        BY <4>1, <4>2, <4>3, <4>4 DEF AfterScheduled, AfterInProgress, Open
    <3>3. QED
      BY <1>7, <3>1, <3>2
  <2>3. PICK t \in Task : t = SyncAt(c, next, step, seen)
    BY <2>2 DEF SyncAt, Task
  <2>4. req'[q] = t
    BY <1>1, <2>2, <2>3, ReqType
  <2>5. t.op = "sync" /\ t.car = c /\ t.next = next /\ t.step = step /\ t.seen = seen
    BY <2>3 DEF SyncAt
  <2>6. /\ car' = car /\ work' = work /\ suspect' = suspect
        /\ disturbed \ {q} \subseteq disturbed'
    BY <1>7 DEF ReadCar, List
  <2>7. Listed(c, "scheduled")' <=> Listed(c, "scheduled")
    BY <2>6 DEF Listed
  <2>8. OpenWork(c)' <=> OpenWork(c)
    BY <2>6 DEF OpenWork, Listed
  <2>9. ReadsHold(q)'
    BY <2>2, <2>4, <2>5, <2>6, <2>7, <2>8 DEF ReadsHold
  <2>10. Owed(q)' = Owed(q)
    BY <2>1, <2>4, <2>5 DEF Owed
  <2>11. QED
    BY <2>2, <2>3, <2>6, <2>9, <2>10, OnlyRequestMoves
<1>8. ASSUME UNCHANGED vars PROVE Goal
  BY <1>8 DEF vars, IInv, WorkHasCar, Exists, ReadsHold, Listed, OpenWork, StatusFollowsWork,
              Owed, InStep
<1>9. QED
  BY <1>1, <1>2, <1>3, <1>4, <1>6, <1>7, <1>8, CarWritten, CarServiceStep DEF Next, IInv

\* The inductive invariant holds in every reachable state: what an undisturbed
\* request has read is still true when it writes.
THEOREM Invariance == Spec => []IInv
<1>1. QED
  BY InitIInv, NextIInv, PTL DEF Spec

\* Every reachable state is well typed.
THEOREM TypeCorrect == Spec => []TypeOK
<1>1. IInv => TypeOK
  BY DEF IInv
<1>2. QED
  BY <1>1, Invariance, PTL

\* A car's status follows its windows, for any number of overlapping requests,
\* except where a race or a mishap is known to have left it in doubt.
THEOREM StatusIsFollowed == Spec => []StatusFollowsWork
<1>1. IInv => StatusFollowsWork
  BY DEF IInv
<1>2. QED
  BY <1>1, Invariance, PTL

-----------------------------------------------------------------------------
(* Cars taken out of the fleet *)

\* Why a retired car stays inactive: it has no open window, and whoever has
\* read it for a sync has seen it inactive and listed no open window.
RetiredInv ==
    \A c \in retired :
        /\ car[c] = "inactive" /\ ~OpenWork(c)
        /\ \A q \in Readers({c}) : req[q].seen = "inactive" /\ req[q].step # "withdraw"

\* A car that is retired already stays so, whatever request moves, if its row
\* and its lists stay and no request comes to read it that has not seen this.
LEMMA StillRetired ==
    ASSUME RetiredInv, NEW c \in retired, car'[c] = car[c],
           OpenWork(c)' => OpenWork(c),
           \A o \in Readers({c})' :
               \/ o \in Readers({c}) /\ req'[o] = req[o]
               \/ req'[o].seen = "inactive" /\ req'[o].step # "withdraw"
    PROVE  /\ car'[c] = "inactive" /\ ~OpenWork(c)'
           /\ \A o \in Readers({c})' : req'[o].seen = "inactive" /\ req'[o].step # "withdraw"
BY DEF RetiredInv

\* One step of any action keeps it.
THEOREM RetiredStep ==
    ASSUME TypeOK, RetiredInv, [Next]_vars
    PROVE  RetiredInv'
<1>0. retired \in SUBSET Cars
  BY DEF TypeOK
<1>1. ASSUME NEW q \in Requests, Create(q) PROVE RetiredInv'
  <2>1. PICK w \in Works, new \in Work : Become(q, Sync(new.car, "none"))
    BY <1>1 DEF Create
  <2>2. Sync(new.car, "none") \in Task /\ Sync(new.car, "none").step = "read"
    BY SyncIsTask DEF Work, Sync, SyncAt
  <2>3. /\ req'[q].step = "read" /\ \A o \in Requests : o # q => req'[o] = req[o]
    BY <2>1, <2>2, ReqType
  <2>4. QED
    BY <1>1, <2>3 DEF Create, RetireNoWork, RetiredInv, Readers, Syncing
<1>2. ASSUME NEW q \in Requests, Update(q) PROVE RetiredInv'
  <2>1. PICK from \in Cars, to \in Cars : Become(q, CarsToSync(from, to))
    BY <1>2, TaskFields DEF Update, Work
  <2>2. /\ req'[q].step = "read" /\ \A o \in Requests : o # q => req'[o] = req[o]
    BY <2>1, SyncsBoth, ReqType
  <2>3. QED
    BY <1>2, <2>2 DEF Update, RetireNoWork, RetiredInv, Readers, Syncing
<1>3. ASSUME NEW q \in Requests, Delete(q) PROVE RetiredInv'
  <2>1. PICK w \in Works, from \in Cars :
          Become(q, Sync(from, "none")) /\ work' = [work EXCEPT ![w] = Removed]
    BY <1>3, TaskFields DEF Delete
  <2>2. Sync(from, "none") \in Task /\ Sync(from, "none").step = "read"
    BY SyncIsTask DEF Sync, SyncAt
  <2>3. /\ req'[q].step = "read" /\ \A o \in Requests : o # q => req'[o] = req[o]
    BY <2>1, <2>2, ReqType
  <2>4. ASSUME NEW c \in Cars, OpenWork(c)' PROVE OpenWork(c)
    BY <2>1, <2>4, NoneAssumption DEF TypeOK, OpenWork, Listed, Removed
  <2>5. QED
    BY <1>0, <1>3, <2>3, <2>4 DEF Delete, RetiredInv, Readers, Syncing
<1>4. ASSUME NEW q \in Requests, NEW t \in Task \cup {Idle}, Become(q, t), t.op # "sync",
             UNCHANGED <<car, work, retired>>
      PROVE  RetiredInv'
  <2>1. req'[q].op # "sync" /\ \A o \in Requests : o # q => req'[o] = req[o]
    BY <1>4, ReqType
  <2>2. QED
    BY <1>4, <2>1 DEF RetiredInv, Readers, Syncing, OpenWork, Listed
<1>5. ASSUME NEW q \in Requests, UpdateRead(q) PROVE RetiredInv'
  <2>1. PICK w \in Works, to \in Work :
           /\ work[w] \in Work
           /\ Become(q, [op |-> "update", work |-> w, from |-> work[w].car, to |-> to])
    BY <1>5 DEF UpdateRead
  <2>2. [op |-> "update", work |-> w, from |-> work[w].car, to |-> to] \in Task
    BY <2>1 DEF Task, Work
  <2>3. QED
    BY <1>4, <1>5, <2>1, <2>2 DEF UpdateRead
<1>6. ASSUME NEW q \in Requests, DeleteRead(q) PROVE RetiredInv'
  <2>1. PICK w \in Works :
           work[w] \in Work /\ Become(q, [op |-> "delete", work |-> w, from |-> work[w].car])
    BY <1>6 DEF DeleteRead
  <2>2. [op |-> "delete", work |-> w, from |-> work[w].car] \in Task
    BY <2>1 DEF Task, Work
  <2>3. QED
    BY <1>4, <1>6, <2>1, <2>2 DEF DeleteRead
<1>7. ASSUME NEW q \in Requests, Refuse(q) \/ CarGone(q) \/ Interrupt(q) PROVE RetiredInv'
  BY <1>4, <1>7 DEF Refuse, CarGone, Interrupt, Idle
<1>8. ASSUME NEW q \in Requests, ReadCar(q) \/ List(q) PROVE RetiredInv'
  <2>1. PICK c \in Cars, next \in Cars \cup {"none"},
             step \in {"scheduled", "in_progress", "withdraw", "restore"},
             seen \in CarStatus \cup {"unread"} :
           /\ req[q].op = "sync" /\ req[q].car = c
           /\ Become(q, SyncAt(c, next, step, seen))
           /\ step = "withdraw" => OpenWork(c)
           /\ seen = car[c] \/ (seen = req[q].seen /\ req[q].step # "read")
    <3>1. CASE ReadCar(q)
      BY <3>1, TaskFields DEF ReadCar, Exists
    <3>2. CASE List(q)
      BY <3>2, TaskFields DEF List, AfterScheduled, AfterInProgress, OpenWork, Open
    <3>3. QED
      BY <1>8, <3>1, <3>2
  <2>2. PICK t \in Task : t = SyncAt(c, next, step, seen)
    BY <2>1 DEF SyncAt, Task
  <2>3. req'[q] = t /\ \A o \in Requests : o # q => req'[o] = req[o]
    BY <2>1, <2>2, ReqType
  <2>4. t.op = "sync" /\ t.car = c /\ t.step = step /\ t.seen = seen
    BY <2>2 DEF SyncAt
  <2>5. UNCHANGED <<car, work, retired>>
    BY <1>8 DEF ReadCar, List
  <2>6. ASSUME NEW d \in retired, NEW o \in Readers({d})'
        PROVE  req'[o].seen = "inactive" /\ req'[o].step # "withdraw"
    <3>1. CASE o # q
      BY <2>3, <2>6, <3>1 DEF RetiredInv, Readers, Syncing
    <3>2. CASE o = q
      <4>1. d = c
        BY <2>3, <2>4, <2>6, <3>2 DEF Readers, Syncing
      <4>2. req[q].step # "read" => q \in Readers({d})
        BY <2>1, <4>1 DEF Readers, Syncing
      <4>3. seen = "inactive" /\ step # "withdraw"
        BY <2>1, <4>1, <4>2 DEF RetiredInv
      <4>4. QED
        BY <2>3, <2>4, <3>2, <4>3
    <3>3. QED
      BY <3>1, <3>2
  <2>7. QED
    BY <2>5, <2>6, StillRetired DEF RetiredInv, OpenWork, Listed
<1>9. ASSUME NEW q \in Requests, WriteCar(q) PROVE RetiredInv'
  <2>1. PICK c \in Cars : req[q].car = c /\ req[q].op = "sync"
    BY <1>9, TaskFields DEF WriteCar
  <2>2. ASSUME c \in retired PROVE car' = car
    <3>1. q \in Readers({c})
      BY <1>9, <2>1 DEF WriteCar, Readers, Syncing
    <3>2. req[q].seen = "inactive" /\ req[q].step = "restore"
      BY <1>9, <2>2, <3>1 DEF RetiredInv, WriteCar
    <3>3. QED
      BY <1>9, <3>2 DEF WriteCar, Wanted
  <2>3. \A d \in retired : car'[d] = car[d]
    BY <1>0, <1>9, <2>1, <2>2 DEF WriteCar, TypeOK
  <2>4. /\ req'[q].op # "sync" \/ req'[q].step = "read"
        /\ \A o \in Requests : o # q => req'[o] = req[o]
    <3>1. PICK t \in Task \cup {Idle} :
             Become(q, t) /\ (t.op # "sync" \/ t.step = "read")
      <4>1. CASE req[q].next = "none"
        BY <1>9, <4>1 DEF WriteCar, Idle
      <4>2. CASE req[q].next # "none"
        <5>1. req[q].next \in Cars
          BY <1>9, <4>2, TaskFields DEF WriteCar
        <5>2. Sync(req[q].next, "none") \in Task /\ Sync(req[q].next, "none").step = "read"
          BY <5>1, SyncIsTask DEF Sync, SyncAt
        <5>3. QED
          BY <1>9, <4>2, <5>2 DEF WriteCar
      <4>3. QED
        BY <4>1, <4>2
    <3>2. QED
      BY <3>1, ReqType
  <2>5. QED
    BY <1>9, <2>3, <2>4, StillRetired
       DEF WriteCar, RetiredInv, OpenWork, Listed, Readers, Syncing
<1>10. ASSUME NEW q \in Requests, CreateCar(q) \/ EditCar(q) PROVE RetiredInv'
  <2>1. PICK c \in Cars, s \in CarStatus :
           /\ car' = [car EXCEPT ![c] = s] /\ Retire(c, s)
           /\ UNCHANGED <<work, req>>
    BY <1>10 DEF CreateCar, EditCar
  <2>2. \A d \in Cars : Readers({d})' = Readers({d}) /\ (OpenWork(d)' <=> OpenWork(d))
    BY <2>1 DEF Readers, Syncing, OpenWork, Listed
  <2>3. ASSUME NEW d \in retired'
        PROVE  /\ car'[d] = "inactive" /\ ~OpenWork(d)
               /\ \A o \in Readers({d}) : req[o].seen = "inactive" /\ req[o].step # "withdraw"
    <3>1. CASE d = c
      BY <2>1, <2>3, <3>1 DEF Retire, RetiredInv, TypeOK
    <3>2. CASE d # c
      BY <1>0, <2>1, <2>3, <3>2 DEF Retire, RetiredInv, TypeOK
    <3>3. QED
      BY <3>1, <3>2
  <2>4. retired' \in SUBSET Cars
    BY <1>0, <2>1 DEF Retire
  <2>5. QED
    BY <2>1, <2>2, <2>3, <2>4 DEF RetiredInv
<1>11. ASSUME NEW q \in Requests, DeleteCar(q) PROVE RetiredInv'
  <2>1. PICK c \in Cars :
           /\ car' = [car EXCEPT ![c] = "deleted"]
           /\ work' = [w \in Works |-> IF work[w].car = c THEN Removed ELSE work[w]]
           /\ retired' = retired \ {c} /\ UNCHANGED req
    BY <1>11 DEF DeleteCar
  <2>2. \A d \in Cars : OpenWork(d)' => OpenWork(d)
    BY <2>1, NoneAssumption DEF OpenWork, Listed, Removed
  <2>3. \A d \in Cars : d # c => car'[d] = car[d]
    BY <2>1 DEF TypeOK
  <2>4. QED
    BY <1>0, <2>1, <2>2, <2>3 DEF RetiredInv, Readers, Syncing
<1>12. ASSUME UNCHANGED vars PROVE RetiredInv'
  BY <1>12 DEF vars, RetiredInv, Readers, Syncing, OpenWork, Listed
<1>13. QED
  BY <1>1, <1>2, <1>3, <1>5, <1>6, <1>7, <1>8, <1>9, <1>10, <1>11, <1>12 DEF Next

\* Once an administrator has taken a car out of the fleet unseen by any sync,
\* only an edit, its deletion or a window that opens changes its status.
THEOREM RetiredIsKept == Spec => []RetiredStaysInactive
<1>1. Init => RetiredInv
  BY DEF Init, RetiredInv
<1>2. TypeOK /\ RetiredInv /\ [Next]_vars => RetiredInv'
  BY RetiredStep
<1>3. RetiredInv => RetiredStaysInactive
  BY DEF RetiredInv, RetiredStaysInactive
<1>4. QED
  BY <1>1, <1>2, <1>3, TypeCorrect, PTL DEF Spec

-----------------------------------------------------------------------------
(* Requests about different cars *)

\* The cars a request has read or written about and is not done with.
Concerns(q) ==
    CASE req[q].op = "update" -> {req[q].from, req[q].to.car}
      [] req[q].op = "delete" -> {req[q].from}
      [] OTHER -> Owed(q)

\* No two requests in flight are about one car.
Apart == \A p, q \in Requests : p # q => Concerns(p) \cap Concerns(q) = {}

\* No car is deleted under a request that is about it.
LeftAlone ==
    \A c \in Cars : Exists(c) /\ ~Exists(c)' => \A q \in Requests : c \notin Concerns(q)

\* The cars a request is to sync are there.
CarsAreThere(q) == req[q].op = "sync" => \A c \in Owed(q) : Exists(c)

\* A request knows which car its window belongs to, until the window is gone.
KnowsItsWindow(q) ==
    req[q].op \in {"update", "delete"} =>
        LET row == work[req[q].work]
        IN  row # Unused /\ (row \in Work => row.car = req[q].from)

\* With requests kept apart, no car is in doubt.
Clear ==
    /\ suspect = {} /\ disturbed = {}
    /\ \A q \in Requests : CarsAreThere(q) /\ KnowsItsWindow(q)

\* What a request is about, by its operation.
LEMMA ConcernsAre ==
    ASSUME TypeOK, NEW q \in Requests
    PROVE  /\ req[q].op = "update" => Concerns(q) = {req[q].from, req[q].to.car}
           /\ req[q].op = "delete" => Concerns(q) = {req[q].from}
           /\ req[q].op = "sync" => /\ Concerns(q) = {req[q].car, req[q].next} \ {"none"}
                                   /\ req[q].car \in Concerns(q)
           /\ req[q].op = "idle" => Concerns(q) = {}
BY TaskFields, NoneAssumption DEF Concerns, Owed

\* Nobody else reads for a sync a car that is no other request's concern.
LEMMA NoOtherReader ==
    ASSUME TypeOK, NEW q \in Requests, NEW cs,
           \A o \in Requests \ {q} : cs \cap Concerns(o) = {}
    PROVE  Readers(cs) \ {q} = {}
<1>1. \A o \in Requests \ {q}, c \in cs : ~Syncing(o, c)
  BY ConcernsAre DEF Syncing
<1>2. QED
  BY <1>1 DEF Readers

\* A window that changes hands is known to one request only.
LEMMA OneWindow ==
    ASSUME TypeOK, Apart, NEW q \in Requests, NEW o \in Requests, o # q,
           KnowsItsWindow(q), KnowsItsWindow(o),
           req[q].op \in {"update", "delete"}, req[o].op \in {"update", "delete"},
           work[req[q].work] \in Work
    PROVE  req[o].work # req[q].work
<1>1. req[q].from \in Concerns(q) /\ req[o].from \in Concerns(o)
  BY ConcernsAre
<1>2. req[q].from # req[o].from
  BY <1>1 DEF Apart
<1>3. QED
  BY <1>2 DEF KnowsItsWindow

\* A request that does not move still finds its cars and its window.
LEMMA OthersClear ==
    ASSUME TypeOK, NEW o \in Requests, req'[o] = req[o],
           CarsAreThere(o), KnowsItsWindow(o),
           \A c \in Concerns(o) : Exists(c) => Exists(c)',
           req[o].op \in {"update", "delete"} =>
               work'[req[o].work] \in {work[req[o].work], Removed}
    PROVE  CarsAreThere(o)' /\ KnowsItsWindow(o)'
<1>1. CarsAreThere(o)'
  BY ConcernsAre DEF CarsAreThere, Owed
<1>2. Removed # Unused /\ Removed \notin Work
  BY NoneAssumption DEF Removed, Unused, Work
<1>3. KnowsItsWindow(o)'
  BY <1>2 DEF KnowsItsWindow
<1>4. QED
  BY <1>1, <1>3

\* A request that goes on to a task writes no row: the others are not disturbed.
LEMMA OnlyTaskChanges ==
    ASSUME TypeOK, Clear, NEW q \in Requests, NEW t \in Task \cup {Idle}, Become(q, t),
           UNCHANGED <<car, work>>, suspect' = {}, disturbed' = {},
           t.op = "sync" => \A c \in {t.car, t.next} \ {"none"} : Exists(c),
           t.op \in {"update", "delete"} => /\ work[t.work] # Unused
                                            /\ work[t.work] \in Work => work[t.work].car = t.from
    PROVE  Clear'
<1>1. req'[q] = t /\ \A o \in Requests : o # q => req'[o] = req[o]
  BY ReqType
<1>2. \A c \in Cars : Exists(c)' <=> Exists(c)
  BY DEF Exists
<1>3. CarsAreThere(q)' /\ KnowsItsWindow(q)'
  BY <1>1 DEF CarsAreThere, KnowsItsWindow, Owed, Exists
<1>4. ASSUME NEW o \in Requests, o # q
      PROVE  CarsAreThere(o)' /\ KnowsItsWindow(o)'
  BY <1>1, <1>4, OthersClear DEF Clear, Exists
<1>5. QED
  BY <1>3, <1>4 DEF Clear

\* A request writes its window and goes on to sync cars that are there.
LEMMA WindowWrittenClear ==
    ASSUME TypeOK, Clear, NEW q \in Requests, NEW t \in Task, Become(q, t),
           NEW w \in Works, \A x \in Works : x # w => work'[x] = work[x],
           car' = car, suspect' = {}, disturbed' = {},
           t.op = "sync", \A c \in {t.car, t.next} \ {"none"} : Exists(c),
           \A o \in Requests \ {q} : req[o].op \in {"update", "delete"} => req[o].work # w
    PROVE  Clear'
<1>1. req'[q] = t /\ \A o \in Requests : o # q => req'[o] = req[o]
  BY ReqType
<1>2. CarsAreThere(q)' /\ KnowsItsWindow(q)'
  BY <1>1 DEF CarsAreThere, KnowsItsWindow, Owed, Exists
<1>3. ASSUME NEW o \in Requests, o # q
      PROVE  CarsAreThere(o)' /\ KnowsItsWindow(o)'
  <2>1. req[o].op \in {"update", "delete"} => work'[req[o].work] = work[req[o].work]
    BY <1>3, TaskFields
  <2>2. QED
    BY <1>1, <1>3, <2>1, OthersClear DEF Clear, Exists
<1>4. QED
  BY <1>2, <1>3 DEF Clear

\* A new window: the request is about its car from now on, so nobody else is.
LEMMA CreateClear ==
    ASSUME IInv, Clear, Apart', NEW q \in Requests, Create(q)
    PROVE  Clear'
<1>1. TypeOK
  BY DEF IInv
<1>2. PICK w \in Works, new \in Work :
        /\ work[w] = Unused /\ Exists(new.car)
        /\ work' = [work EXCEPT ![w] = new]
        /\ Become(q, Sync(new.car, "none"))
        /\ Touch(q, {new.car})
        /\ car' = car /\ suspect' = suspect
  BY DEF Create
<1>3. PICK t \in Task : t = Sync(new.car, "none") /\ Become(q, t)
  BY <1>2, SyncIsTask DEF Work, Become
<1>4. t.op = "sync" /\ t.car = new.car /\ t.next = "none"
  BY <1>3 DEF Sync, SyncAt
<1>5. req'[q] = t /\ \A o \in Requests : o # q => req'[o] = req[o]
  BY <1>1, <1>3, ReqType
<1>6. new.car \in Concerns(q)'
  BY <1>4, <1>5, NoneAssumption DEF Concerns, Owed, Work
<1>7. ASSUME NEW o \in Requests \ {q}
      PROVE  {new.car} \cap Concerns(o) = {}
  <2>1. Concerns(o)' = Concerns(o)
    BY <1>5 DEF Concerns, Owed
  <2>2. QED
    BY <1>6, <2>1 DEF Apart
<1>8. disturbed' = {}
  BY <1>1, <1>2, <1>7, NoOtherReader DEF Touch, Clear
<1>9. \A o \in Requests \ {q} : req[o].op \in {"update", "delete"} => req[o].work # w
  BY <1>2 DEF Clear, KnowsItsWindow
<1>10. suspect' = {}
  BY <1>2 DEF Clear
<1>11. \A c \in {t.car, t.next} \ {"none"} : Exists(c)
  BY <1>2, <1>4
<1>12. \A x \in Works : x # w => work'[x] = work[x]
  BY <1>1, <1>2 DEF TypeOK
<1>13. QED
  BY <1>1, <1>2, <1>3, <1>4, <1>8, <1>9, <1>10, <1>11, <1>12, WindowWrittenClear

\* A window is changed or moved by the only request that is about its cars.
LEMMA UpdateClear ==
    ASSUME IInv, Clear, Apart, NEW q \in Requests, Update(q)
    PROVE  Clear'
<1>1. TypeOK /\ WorkHasCar
  BY DEF IInv
<1>2. PICK w \in Works, from \in Cars, to \in Work :
        req[q].op = "update" /\ w = req[q].work /\ from = req[q].from /\ to = req[q].to
  BY <1>1, TaskFields DEF Update
<1>3. /\ work[w] \in Work /\ Exists(to.car)
      /\ work' = [work EXCEPT ![w] = to]
      /\ Become(q, CarsToSync(from, to.car))
      /\ Touch(q, {work[w].car, to.car})
      /\ suspect' = suspect \cup ({work[w].car} \ {from, to.car})
      /\ car' = car
  BY <1>2 DEF Update
<1>4. work[w].car = from /\ Exists(from)
  BY <1>1, <1>2, <1>3 DEF Clear, KnowsItsWindow, WorkHasCar
<1>5. to.car \in Cars
  BY DEF Work
<1>6. PICK t \in Task : t = CarsToSync(from, to.car) /\ Become(q, t)
  BY <1>3, <1>5, SyncsBoth DEF Become
<1>7. t.op = "sync" /\ {t.car, t.next} \ {"none"} = {from, to.car}
  BY <1>5, <1>6, SyncsBoth
<1>8. \A o \in Requests \ {q} : {work[w].car, to.car} \cap Concerns(o) = {}
  BY <1>1, <1>2, <1>4, ConcernsAre DEF Apart
<1>9. disturbed' = {}
  BY <1>1, <1>3, <1>8, NoOtherReader DEF Touch, Clear
<1>10. suspect' = {}
  BY <1>3, <1>4 DEF Clear
<1>11. \A o \in Requests \ {q} : req[o].op \in {"update", "delete"} => req[o].work # w
  BY <1>1, <1>2, <1>3, OneWindow DEF Clear
<1>12. \A c \in {t.car, t.next} \ {"none"} : Exists(c)
  BY <1>3, <1>4, <1>7
<1>13. \A x \in Works : x # w => work'[x] = work[x]
  BY <1>1, <1>3 DEF TypeOK
<1>14. QED
  BY <1>1, <1>3, <1>6, <1>7, <1>9, <1>10, <1>11, <1>12, <1>13, WindowWrittenClear

\* A window is deleted by the only request that is about its car.
LEMMA DeleteClear ==
    ASSUME IInv, Clear, Apart, NEW q \in Requests, Delete(q)
    PROVE  Clear'
<1>1. TypeOK /\ WorkHasCar
  BY DEF IInv
<1>2. PICK w \in Works, from \in Cars :
        req[q].op = "delete" /\ w = req[q].work /\ from = req[q].from
  BY <1>1, TaskFields DEF Delete
<1>3. /\ work[w] \in Work
      /\ work' = [work EXCEPT ![w] = Removed]
      /\ Become(q, Sync(from, "none"))
      /\ Touch(q, {work[w].car})
      /\ suspect' = suspect \cup ({work[w].car} \ {from})
      /\ car' = car
  BY <1>2 DEF Delete
<1>4. work[w].car = from /\ Exists(from)
  BY <1>1, <1>2, <1>3 DEF Clear, KnowsItsWindow, WorkHasCar
<1>5. PICK t \in Task : t = Sync(from, "none") /\ Become(q, t)
  BY <1>3, SyncIsTask DEF Become
<1>6. t.op = "sync" /\ t.car = from /\ t.next = "none"
  BY <1>5 DEF Sync, SyncAt
<1>7. \A o \in Requests \ {q} : {work[w].car} \cap Concerns(o) = {}
  BY <1>1, <1>2, <1>4, ConcernsAre DEF Apart
<1>8. disturbed' = {}
  BY <1>1, <1>3, <1>7, NoOtherReader DEF Touch, Clear
<1>9. suspect' = {}
  BY <1>3, <1>4 DEF Clear
<1>10. \A o \in Requests \ {q} : req[o].op \in {"update", "delete"} => req[o].work # w
  BY <1>1, <1>2, <1>3, OneWindow DEF Clear
<1>11. \A c \in {t.car, t.next} \ {"none"} : Exists(c)
  BY <1>4, <1>6
<1>12. \A x \in Works : x # w => work'[x] = work[x]
  BY <1>1, <1>3 DEF TypeOK
<1>13. QED
  BY <1>1, <1>3, <1>5, <1>6, <1>8, <1>9, <1>10, <1>11, <1>12, WindowWrittenClear

\* The status is written by the only request that is about the car.
LEMMA WriteCarClear ==
    ASSUME IInv, Clear, Apart, NEW q \in Requests, WriteCar(q)
    PROVE  Clear'
<1>1. TypeOK /\ TypeOK'
  BY TypeStep DEF IInv, Next
<1>2. PICK c \in Cars, next \in Cars \cup {"none"} :
        req[q].op = "sync" /\ c = req[q].car /\ next = req[q].next
  BY <1>1, TaskFields DEF WriteCar
<1>3. \A d \in Cars : Exists(d) => Exists(d)'
  BY <1>1, <1>2 DEF WriteCar, TypeOK, Exists, Wanted, CarStatus
<1>4. PICK t \in Task \cup {Idle} :
        t = (IF next = "none" THEN Idle ELSE Sync(next, "none")) /\ Become(q, t)
  <2>1. next # "none" => Sync(next, "none") \in Task
    BY SyncIsTask
  <2>2. QED
    BY <1>2, <2>1 DEF WriteCar, Become
<1>5. req'[q] = t /\ \A o \in Requests : o # q => req'[o] = req[o]
  BY <1>1, <1>4, ReqType
<1>6. \A o \in Requests \ {q} : {c} \cap Concerns(o) = {}
  BY <1>1, <1>2, ConcernsAre DEF Apart
<1>7. Readers({c}) \ {q} = {}
  BY <1>1, <1>6, NoOtherReader
<1>8. suspect' = {} /\ disturbed' = {}
  BY <1>2, <1>7 DEF WriteCar, Clear
<1>9. CarsAreThere(q)' /\ KnowsItsWindow(q)'
  <2>1. next # "none" => Exists(next)'
    BY <1>2, <1>3 DEF Clear, CarsAreThere, Owed
  <2>2. t.op \in {"idle", "sync"}
    BY <1>4 DEF Idle, Sync, SyncAt
  <2>3. t.op = "sync" => next # "none" /\ t.car = next /\ t.next = "none"
    BY <1>4 DEF Idle, Sync, SyncAt
  <2>4. req'[q].op = "sync" => {req'[q].car, req'[q].next} \ {"none"} = {next} /\ Exists(next)'
    BY <1>5, <2>1, <2>3
  <2>5. QED
    BY <1>5, <2>2, <2>4 DEF CarsAreThere, KnowsItsWindow, Owed, Exists
<1>10. ASSUME NEW o \in Requests, o # q
       PROVE  CarsAreThere(o)' /\ KnowsItsWindow(o)'
  <2>1. work' = work
    BY DEF WriteCar
  <2>2. \A d \in Concerns(o) : Exists(d) => Exists(d)'
    <3>1. \A d : Exists(d) => Exists(d)'
      BY <1>1, <1>2 DEF WriteCar, TypeOK, Exists, Wanted, CarStatus
    <3>2. QED
      BY <3>1
  <2>3. QED
    BY <1>1, <1>5, <1>10, <2>1, <2>2, OthersClear DEF Clear
<1>11. QED
  BY <1>8, <1>9, <1>10 DEF Clear

\* Cars are created, or deleted when no request is about them.
LEMMA CarServiceClear ==
    ASSUME IInv, Clear, LeftAlone, ~Mishaps, NEW q \in Requests,
           CreateCar(q) \/ EditCar(q) \/ DeleteCar(q)
    PROVE  Clear'
<1>1. TypeOK
  BY DEF IInv
<1>2. req' = req /\ suspect' = {}
  BY DEF CreateCar, EditCar, DeleteCar, Clear
<1>3. disturbed' = {}
  <2>1. CASE CreateCar(q)
    BY <2>1 DEF CreateCar, Clear
  <2>2. CASE DeleteCar(q)
    <3>1. PICK c \in Cars : Exists(c) /\ car' = [car EXCEPT ![c] = "deleted"] /\ Touch(q, {c})
      BY <2>2 DEF DeleteCar
    <3>2. ~Exists(c)'
      BY <1>1, <3>1 DEF TypeOK, Exists, CarStatus
    <3>3. \A o \in Requests \ {q} : {c} \cap Concerns(o) = {}
      BY <3>1, <3>2 DEF LeftAlone
    <3>4. QED
      BY <1>1, <3>1, <3>3, NoOtherReader DEF Touch, Clear
  <2>3. QED
    BY <2>1, <2>2 DEF EditCar
<1>4. ASSUME NEW o \in Requests
      PROVE  CarsAreThere(o)' /\ KnowsItsWindow(o)'
  <2>1. \A c \in Cars : Exists(c) /\ c \in Concerns(o) => Exists(c)'
    BY DEF LeftAlone
  <2>2. req[o].op = "sync" => Owed(o) \subseteq Cars /\ Owed(o) = Concerns(o)
    BY <1>1, TaskFields, ConcernsAre DEF Owed
  <2>3. \A w \in Works : work'[w] \in {work[w], Removed}
    BY DEF CreateCar, EditCar, DeleteCar
  <2>4. CarsAreThere(o)'
    BY <1>2, <2>1, <2>2 DEF Clear, CarsAreThere, Owed
  <2>5. Removed # Unused /\ Removed \notin Work
    BY NoneAssumption DEF Removed, Unused, Work
  <2>6. KnowsItsWindow(o)'
    BY <1>1, <1>2, <2>3, <2>5, TaskFields DEF Clear, KnowsItsWindow
  <2>7. QED
    BY <2>4, <2>6
<1>5. QED
  BY <1>2, <1>3, <1>4 DEF Clear

\* The other steps write no row: a request reads, gives up or is refused.
LEMMA ReadingClear ==
    ASSUME IInv, Clear, ~Mishaps, NEW q \in Requests,
           \/ UpdateRead(q) \/ DeleteRead(q) \/ Refuse(q)
           \/ ReadCar(q) \/ List(q) \/ CarGone(q) \/ Interrupt(q)
    PROVE  Clear'
<1>1. TypeOK
  BY DEF IInv
<1>2. Unused \notin Work
  BY NoneAssumption DEF Unused, Work
<1>3. CASE UpdateRead(q)
  <2>1. PICK w \in Works, to \in Work :
          /\ work[w] \in Work
          /\ Become(q, [op |-> "update", work |-> w, from |-> work[w].car, to |-> to])
    BY <1>3 DEF UpdateRead
  <2>2. PICK t \in Task : /\ t = [op |-> "update", work |-> w, from |-> work[w].car, to |-> to]
                          /\ Become(q, t)
    BY <2>1 DEF Task, Work, Become
  <2>3. t.op = "update" /\ t.work = w /\ t.from = work[w].car
    BY <2>2
  <2>4. QED
    BY <1>1, <1>2, <1>3, <2>1, <2>2, <2>3, OnlyTaskChanges DEF UpdateRead, Clear
<1>4. CASE DeleteRead(q)
  <2>1. PICK w \in Works :
          /\ work[w] \in Work
          /\ Become(q, [op |-> "delete", work |-> w, from |-> work[w].car])
    BY <1>4 DEF DeleteRead
  <2>2. PICK t \in Task : /\ t = [op |-> "delete", work |-> w, from |-> work[w].car]
                          /\ Become(q, t)
    BY <2>1 DEF Task, Work, Become
  <2>3. t.op = "delete" /\ t.work = w /\ t.from = work[w].car
    BY <2>2
  <2>4. QED
    BY <1>1, <1>2, <1>4, <2>1, <2>2, <2>3, OnlyTaskChanges DEF DeleteRead, Clear
<1>5. CASE Refuse(q)
  BY <1>1, <1>5, OnlyTaskChanges DEF Refuse, Clear, Idle
<1>6. CASE ReadCar(q) \/ List(q)
  <2>1. PICK c \in Cars, next \in Cars \cup {"none"}, seen \in CarStatus \cup {"unread"},
             step \in {"scheduled", "in_progress", "withdraw", "restore"} :
          /\ req[q].op = "sync" /\ c = req[q].car /\ next = req[q].next
          /\ Become(q, SyncAt(c, next, step, seen))
    <3>1. CASE ReadCar(q)
      BY <1>1, <3>1, TaskFields DEF ReadCar, Exists
    <3>2. CASE List(q)
      BY <1>1, <3>2, TaskFields DEF List, AfterScheduled, AfterInProgress
    <3>3. QED
      BY <1>6, <3>1, <3>2
  <2>2. PICK t \in Task : t = SyncAt(c, next, step, seen) /\ Become(q, t)
    BY <2>1 DEF SyncAt, Task, Become
  <2>3. t.op = "sync" /\ t.car = c /\ t.next = next
    BY <2>2 DEF SyncAt
  <2>4. \A d \in {c, next} \ {"none"} : Exists(d)
    BY <2>1 DEF Clear, CarsAreThere, Owed
  <2>5. UNCHANGED <<car, work>> /\ suspect' = {} /\ disturbed' = {}
    BY <1>6 DEF ReadCar, List, Clear
  <2>6. QED
    BY <1>1, <2>2, <2>3, <2>4, <2>5, OnlyTaskChanges
<1>7. CASE CarGone(q)
  <2>1. req[q].op = "sync" /\ req[q].car \in Owed(q) /\ ~Exists(req[q].car)
    BY <1>1, <1>7, TaskFields, NoneAssumption DEF CarGone, Owed
  <2>2. QED
    BY <2>1 DEF Clear, CarsAreThere
<1>8. QED
  BY <1>3, <1>4, <1>5, <1>6, <1>7 DEF Interrupt

\* No step puts a car in doubt while requests about different cars only overlap.
LEMMA NextClear ==
    ASSUME IInv, Clear, Apart, Apart', LeftAlone, ~Mishaps, [Next]_vars
    PROVE  Clear'
<1>1. CASE UNCHANGED vars
  BY <1>1 DEF vars, Clear, CarsAreThere, KnowsItsWindow, Owed, Exists
<1>2. CASE Next
  BY <1>2, CreateClear, UpdateClear, DeleteClear, WriteCarClear, CarServiceClear, ReadingClear
     DEF Next
<1>3. QED
  BY <1>1, <1>2

\* Without mishaps, while no two requests in flight are about one car and no car is
\* deleted under a request, an available car has no open window once all requests
\* have finished, whatever else overlaps: what the tests of MaintenanceService expect
\* is true of requests about different cars, and a race on one car is all that
\* breaks it.
THEOREM ApartRequestsAreSafe ==
    ASSUME ~Mishaps
    PROVE  Spec /\ []Apart /\ [][LeftAlone]_vars => []AvailableMeansNoWork
<1>1. Init => Clear
  BY DEF Init, Clear, CarsAreThere, KnowsItsWindow, Idle
<1>2. IInv /\ Clear /\ Apart /\ Apart' /\ [LeftAlone]_vars /\ [Next]_vars => Clear'
  <2>1. UNCHANGED vars /\ Clear => Clear'
    BY DEF vars, Clear, CarsAreThere, KnowsItsWindow, Owed, Exists
  <2>2. QED
    BY <2>1, NextClear
<1>3. IInv /\ Clear => AvailableMeansNoWork
  <2>1. SUFFICES ASSUME IInv, Clear, \A q \in Requests : req[q] = Idle,
                        NEW c \in Cars, car[c] = "available"
                 PROVE  ~OpenWork(c)
    BY DEF AvailableMeansNoWork
  <2>2. Exists(c) /\ c \notin suspect /\ \A q \in Requests : c \notin Owed(q)
    BY <2>1 DEF Exists, CarStatus, Clear, Owed, Idle
  <2>3. QED
    BY <2>1, <2>2 DEF IInv, StatusFollowsWork, InStep
<1>4. QED
  BY <1>1, <1>2, <1>3, Invariance, PTL DEF Spec
=============================================================================
