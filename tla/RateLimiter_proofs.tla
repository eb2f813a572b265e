------------------------- MODULE RateLimiter_proofs -------------------------
(***************************************************************************)
(* A counter without an expiry has its owner, Retry-After is kept, and the *)
(* table lets a client through for two windows at the most within one:     *)
(* proved for any limit, window and number of clients and requests.        *)
(***************************************************************************)
EXTENDS RateLimiter, FiniteSetTheorems, TLAPS

\* The request that created the counter of c and has yet to send EXPIRE.
Owner(q, c) == req[q].op = "expire" /\ req[q].client = c

\* A counter has one owner at the most, and no expiry as long as it has one.
OneOwner(c) ==
    \A q \in Requests :
        Owner(q, c) => /\ counter[c].ttl = NoExpiry
                       /\ ~lost[c]
                       /\ \A o \in Requests : Owner(o, c) => o = q

\* A counter whose owner is gone stays without an expiry.
LostForGood(c) == lost[c] => counter[c].ttl = NoExpiry

\* What was promised for a counter that has no expiry was promised after its
\* owner came.
PromiseWhileOwed(c) ==
    counter[c].ttl = NoExpiry /\ ~lost[c] =>
        \E q \in Requests : Owner(q, c) /\ promise[c] >= Window - req[q].age

\* What was promised for a counter that expires is wrong by Delay at the most.
PromiseWhileExpiring(c) ==
    counter[c].ttl > 0 => promise[c] >= counter[c].ttl - Delay

\* Nothing is promised for a counter that does not exist.
NoCounterNoPromise(c) == ~Exists(c) => promise[c] = NoPromise

CounterInv(c) ==
    /\ OneOwner(c)
    /\ LostForGood(c)
    /\ PromiseWhileOwed(c)
    /\ PromiseWhileExpiring(c)
    /\ NoCounterNoPromise(c)

IInv == TypeOK /\ \A c \in Clients : CounterInv(c)

-----------------------------------------------------------------------------
(* Lemmas *)

\* The constants are integers in their ranges.
LEMMA Constants ==
    /\ Max \in Nat /\ Max >= 1
    /\ Window \in Nat /\ Window >= 1
    /\ Delay \in Nat
BY LimitAssumption, WindowAssumption

\* The fields of a request have the types its operation gives them.
LEMMA TaskFields ==
    ASSUME TypeOK, NEW q \in Requests
    PROVE  /\ req[q] \in {Idle} \cup Task
           /\ req[q].op \in {"idle", "incr", "expire", "ttl", "local"}
           /\ req[q] # Idle <=> req[q].op # "idle"
           /\ req[q] # Idle => /\ req[q] \in Task
                               /\ req[q].client \in Clients
                               /\ req[q].age \in 0 .. Delay
           /\ req[q].op \in {"expire", "ttl"} => req[q].count \in 1 .. Max + 1
<1>1. req[q] \in {Idle} \cup Task
  BY DEF TypeOK
<1>2. QED
  BY <1>1 DEF Task, Idle

\* The fields of a counter have their types; one that exists has been counted.
LEMMA KeyFields ==
    ASSUME TypeOK, NEW c \in Clients
    PROVE  /\ counter[c] \in Key
           /\ counter[c].ttl \in {NoKey, NoExpiry} \cup 1 .. Window
           /\ Exists(c) <=> counter[c].ttl # NoKey
           /\ Exists(c) => counter[c] \in [count : 1 .. Max + 1,
                                           ttl : {NoExpiry} \cup 1 .. Window]
           /\ ~Exists(c) => counter[c].count = 0
           /\ promise[c] \in -Delay .. Window + 1
           /\ lost[c] \in BOOLEAN
<1>1. counter[c] \in Key
  BY DEF TypeOK
<1>2. promise[c] \in -Delay .. Window + 1 /\ lost[c] \in BOOLEAN
  BY DEF TypeOK
<1>3. QED
  BY <1>1, <1>2, Constants DEF Key, Absent, NoKey, NoExpiry, Exists

\* Moving one request on moves only that request.
LEMMA ReqMoved ==
    ASSUME TypeOK, NEW q \in Requests, NEW r \in {Idle} \cup Task, Become(q, r)
    PROVE  /\ req' \in [Requests -> {Idle} \cup Task]
           /\ req'[q] = r
           /\ \A o \in Requests : o # q => req'[o] = req[o]
BY DEF TypeOK, Become

\* INCR leaves a counter that exists, created without an expiry.
LEMMA IncrementedKey ==
    ASSUME TypeOK, NEW c \in Clients
    PROVE  /\ Incremented(c) \in [count : 1 .. Max + 1, ttl : {NoExpiry} \cup 1 .. Window]
           /\ Incremented(c) \in Key
           /\ Incremented(c).count = 1 <=> ~Exists(c)
           /\ Exists(c) => Incremented(c).ttl = counter[c].ttl
           /\ ~Exists(c) => Incremented(c).ttl = NoExpiry
<1>1. CASE Exists(c)
  <2>1. counter[c].count \in 1 .. Max + 1 /\ counter[c].ttl \in {NoExpiry} \cup 1 .. Window
    BY <1>1, KeyFields
  <2>2. OneMore(counter[c].count) \in 2 .. Max + 1
    BY <2>1, Constants DEF OneMore
  <2>3. QED
    BY <1>1, <2>1, <2>2, Constants DEF Incremented, Key
<1>2. CASE ~Exists(c)
  <2>1. OneMore(counter[c].count) = 1
    BY <1>2, KeyFields, Constants DEF OneMore
  <2>2. QED
    BY <1>2, <2>1, Constants DEF Incremented, Key, NoExpiry
<1>3. QED
  BY <1>1, <1>2

\* EXPIRE gives a counter that exists the whole window.
LEMMA ExpiringKey ==
    ASSUME TypeOK, NEW c \in Clients, Exists(c)
    PROVE  /\ Expiring(c) \in Key
           /\ Expiring(c) # Absent
           /\ Expiring(c).ttl = Window
<1>1. counter[c] \in [count : 1 .. Max + 1, ttl : {NoExpiry} \cup 1 .. Window]
  BY KeyFields
<1>2. Window \in 1 .. Window
  BY Constants
<1>3. QED
  BY <1>1, <1>2, Constants DEF Expiring, Key, Absent, NoKey

\* A step that leaves the counter of a client, its promise and its owners as
\* they are keeps the invariant of that counter.
LEMMA CounterKept ==
    ASSUME NEW c \in Clients, CounterInv(c),
           counter'[c].ttl = counter[c].ttl, Exists(c)' <=> Exists(c),
           lost'[c] = lost[c], promise'[c] = promise[c],
           \A o \in Requests : /\ Owner(o, c)' <=> Owner(o, c)
                               /\ Owner(o, c) => req'[o].age = req[o].age
    PROVE  CounterInv(c)'
BY DEF CounterInv, OneOwner, LostForGood, PromiseWhileOwed, PromiseWhileExpiring,
       NoCounterNoPromise

-----------------------------------------------------------------------------
(* Each action keeps the invariant *)

LEMMA ArriveKeeps ==
    ASSUME IInv, NEW q \in Requests, Arrive(q)
    PROVE  IInv'
<1>1. PICK c \in Clients : Become(q, [op |-> "incr", client |-> c, age |-> 0])
  BY DEF Arrive
<1>2. [op |-> "incr", client |-> c, age |-> 0] \in Task
  BY Constants DEF Task
<1>3. /\ req' \in [Requests -> {Idle} \cup Task]
      /\ req'[q].op = "incr"
      /\ \A o \in Requests : o # q => req'[o] = req[o]
  BY <1>1, <1>2, ReqMoved DEF IInv
<1>4. req[q].op = "idle"
  BY DEF Arrive, Idle
<1>5. UNCHANGED <<counter, table, swept, lost, promise, passed>>
  BY DEF Arrive
<1>6. TypeOK'
  BY <1>3, <1>5 DEF IInv, TypeOK
<1>7. ASSUME NEW d \in Clients
      PROVE  CounterInv(d)'
  <2>1. \A o \in Requests : /\ Owner(o, d)' <=> Owner(o, d)
                            /\ Owner(o, d) => req'[o].age = req[o].age
    BY <1>3, <1>4 DEF Owner
  <2>2. Exists(d)' <=> Exists(d)
    BY <1>5 DEF Exists
  <2>3. QED
    BY <1>5, <2>1, <2>2, CounterKept DEF IInv
<1>8. QED
  BY <1>6, <1>7 DEF IInv

LEMMA IncrKeeps ==
    ASSUME IInv, NEW q \in Requests, Incr(q)
    PROVE  IInv'
<1>1. req[q].op = "incr" /\ req[q] # Idle
  BY DEF Incr, Idle
<1>2. PICK c \in Clients : c = req[q].client
  BY <1>1, TaskFields DEF IInv
<1>3. PICK key \in Key : key = Incremented(c)
  BY IncrementedKey DEF IInv
<1>4. key.count \in 1 .. Max + 1
  BY <1>3, IncrementedKey DEF IInv
<1>5. PICK task : task = [op     |-> IF SetsExpiry(key.count) THEN "expire" ELSE "ttl",
                          client |-> c, age |-> req[q].age, count |-> key.count]
  OBVIOUS
<1>6. /\ Become(q, task)
      /\ counter' = [counter EXCEPT ![c] = key]
      /\ UNCHANGED <<table, swept, lost, promise, passed>>
  BY <1>2, <1>3, <1>5 DEF Incr
<1>7. req[q].age \in 0 .. Delay
  BY <1>1, TaskFields DEF IInv
<1>8. task \in Task
  BY <1>4, <1>5, <1>7 DEF Task
<1>9. /\ req' \in [Requests -> {Idle} \cup Task]
      /\ req'[q] = task
      /\ \A o \in Requests : o # q => req'[o] = req[o]
  BY <1>6, <1>8, ReqMoved DEF IInv
<1>10. /\ counter' \in [Clients -> Key]
       /\ counter'[c] = key
       /\ \A d \in Clients : d # c => counter'[d] = counter[d]
  BY <1>6 DEF IInv, TypeOK
<1>11. TypeOK'
  BY <1>6, <1>9, <1>10 DEF IInv, TypeOK
<1>12. ASSUME NEW d \in Clients, d # c
       PROVE  CounterInv(d)'
  <2>1. \A o \in Requests : /\ Owner(o, d)' <=> Owner(o, d)
                            /\ Owner(o, d) => req'[o].age = req[o].age
    BY <1>1, <1>5, <1>9, <1>12 DEF Owner
  <2>2. counter'[d] = counter[d] /\ (Exists(d)' <=> Exists(d))
    BY <1>10, <1>12 DEF Exists
  <2>3. QED
    BY <1>6, <2>1, <2>2, CounterKept DEF IInv
<1>13. CounterInv(c)'
  <2>1. CASE Exists(c)
    <3>1. key.count # 1 /\ key.ttl = counter[c].ttl
      BY <1>3, <2>1, IncrementedKey DEF IInv
    <3>2. task.op = "ttl"
      BY <1>5, <3>1 DEF SetsExpiry
    <3>3. \A o \in Requests : /\ Owner(o, c)' <=> Owner(o, c)
                              /\ Owner(o, c) => req'[o].age = req[o].age
      BY <1>1, <1>9, <3>2 DEF Owner
    <3>4. Exists(c)'
      BY <1>10, <3>1, <2>1, KeyFields DEF IInv, Exists, Absent
    <3>5. QED
      BY <1>6, <1>10, <2>1, <3>1, <3>3, <3>4, CounterKept DEF IInv
  <2>2. CASE ~Exists(c)
    <3>1. key.count = 1 /\ key.ttl = NoExpiry
      BY <1>3, <2>2, IncrementedKey DEF IInv
    <3>2. task.op = "expire" /\ task.client = c /\ task.age = req[q].age
      BY <1>5, <3>1 DEF SetsExpiry
    <3>3. counter[c].ttl = NoKey
      BY <2>2, KeyFields DEF IInv
    <3>4. ~lost[c] /\ \A o \in Requests : ~Owner(o, c)
      BY <3>3 DEF IInv, CounterInv, OneOwner, LostForGood, NoKey, NoExpiry
    <3>5. \A o \in Requests : Owner(o, c)' <=> o = q
      BY <1>9, <3>2, <3>4 DEF Owner
    <3>6. promise[c] = Window + 1
      BY <2>2 DEF IInv, CounterInv, NoCounterNoPromise, NoPromise
    <3>7. promise'[c] >= Window - req'[q].age
      BY <1>6, <1>7, <1>9, <3>2, <3>6, Constants
    <3>8. Exists(c)'
      BY <1>10, <3>1 DEF Exists, Absent
    <3>9. ~lost'[c] /\ counter'[c].ttl = NoExpiry
      BY <1>6, <1>10, <3>1, <3>4
    <3>10. QED
      BY <3>5, <3>7, <3>8, <3>9
      DEF CounterInv, OneOwner, LostForGood, PromiseWhileOwed, PromiseWhileExpiring,
          NoCounterNoPromise, NoExpiry
  <2>3. QED
    BY <2>1, <2>2
<1>14. QED
  BY <1>11, <1>12, <1>13 DEF IInv

\* The owner sends EXPIRE: nobody owns the counter, and it expires in time for
\* what was promised since the owner came.
LEMMA OwnerExpires ==
    ASSUME IInv, NEW q \in Requests, NEW c \in Clients, Owner(q, c),
           counter' = [counter EXCEPT ![c] = Expiring(c)],
           UNCHANGED <<lost, promise>>,
           \A o \in Requests : o # q => req'[o] = req[o],
           req'[q].op # "expire"
    PROVE  /\ counter' \in [Clients -> Key]
           /\ \A d \in Clients : CounterInv(d)'
<1>1. /\ counter[c].ttl = NoExpiry
      /\ ~lost[c]
      /\ \A o \in Requests : Owner(o, c) => o = q
  BY DEF IInv, CounterInv, OneOwner
<1>2. Exists(c)
  BY <1>1, KeyFields DEF IInv, NoKey, NoExpiry
<1>3. PICK key \in Key : key = Expiring(c) /\ key # Absent /\ key.ttl = Window
  BY <1>2, ExpiringKey DEF IInv
<1>4. /\ counter' \in [Clients -> Key]
      /\ counter'[c] = key
      /\ \A d \in Clients : d # c => counter'[d] = counter[d]
  BY <1>3 DEF IInv, TypeOK
<1>5. ASSUME NEW d \in Clients, d # c
      PROVE  CounterInv(d)'
  <2>1. \A o \in Requests : /\ Owner(o, d)' <=> Owner(o, d)
                            /\ Owner(o, d) => req'[o].age = req[o].age
    BY <1>5 DEF Owner
  <2>2. counter'[d] = counter[d] /\ (Exists(d)' <=> Exists(d))
    BY <1>4, <1>5 DEF Exists
  <2>3. QED
    BY <2>1, <2>2, CounterKept DEF IInv
<1>6. CounterInv(c)'
  <2>1. \A o \in Requests : ~Owner(o, c)'
    BY <1>1 DEF Owner
  <2>2. promise[c] >= Window - req[q].age
    BY <1>1 DEF IInv, CounterInv, PromiseWhileOwed
  <2>3. req[q].age \in 0 .. Delay
    BY TaskFields DEF IInv, Owner
  <2>4. promise[c] \in Int
    BY KeyFields, Constants DEF IInv
  <2>5. promise'[c] >= counter'[c].ttl - Delay
    BY <1>3, <1>4, <2>2, <2>3, <2>4, Constants
  <2>6. Exists(c)' /\ ~lost'[c] /\ counter'[c].ttl # NoExpiry
    BY <1>1, <1>3, <1>4, Constants DEF Exists, NoExpiry
  <2>7. QED
    BY <2>1, <2>5, <2>6
    DEF CounterInv, OneOwner, LostForGood, PromiseWhileOwed, PromiseWhileExpiring,
        NoCounterNoPromise
<1>7. QED
  BY <1>4, <1>5, <1>6

LEMMA ExpireKeeps ==
    ASSUME IInv, NEW q \in Requests, Expire(q)
    PROVE  IInv'
<1>1. req[q].op = "expire" /\ req[q] # Idle
  BY DEF Expire, Idle
<1>2. PICK c \in Clients : c = req[q].client
  BY <1>1, TaskFields DEF IInv
<1>3. PICK task : task = [req[q] EXCEPT !.op = "ttl"]
  OBVIOUS
<1>4. task \in Task /\ task.op = "ttl"
  BY <1>1, <1>3, TaskFields DEF IInv, Task
<1>5. /\ Become(q, task)
      /\ counter' = [counter EXCEPT ![c] = Expiring(c)]
      /\ UNCHANGED <<table, swept, lost, promise, passed>>
  BY <1>2, <1>3 DEF Expire
<1>6. /\ req' \in [Requests -> {Idle} \cup Task]
      /\ req'[q] = task
      /\ \A o \in Requests : o # q => req'[o] = req[o]
  BY <1>4, <1>5, ReqMoved DEF IInv
<1>7. /\ counter' \in [Clients -> Key]
      /\ \A d \in Clients : CounterInv(d)'
  BY <1>1, <1>2, <1>4, <1>5, <1>6, OwnerExpires DEF Owner
<1>8. TypeOK'
  BY <1>5, <1>6, <1>7 DEF IInv, TypeOK
<1>9. QED
  BY <1>7, <1>8 DEF IInv

LEMMA TtlKeeps ==
    ASSUME IInv, NEW q \in Requests, Ttl(q)
    PROVE  IInv'
<1>1. req[q].op = "ttl" /\ req[q] # Idle
  BY DEF Ttl, Idle
<1>2. PICK c \in Clients : c = req[q].client
  BY <1>1, TaskFields DEF IInv
<1>3. PICK p : p = IF req[q].count > Max /\ Exists(c)
                     THEN Sooner(promise[c], Told(counter[c].ttl)) ELSE promise[c]
  OBVIOUS
<1>4. /\ promise' = [promise EXCEPT ![c] = p]
      /\ Become(q, Idle)
      /\ UNCHANGED <<counter, table, swept, lost, passed>>
  BY <1>2, <1>3 DEF Ttl
<1>5. /\ req' \in [Requests -> {Idle} \cup Task]
      /\ req'[q] = Idle
      /\ \A o \in Requests : o # q => req'[o] = req[o]
  BY <1>4, ReqMoved DEF IInv
<1>6. /\ counter[c].ttl \in {NoKey, NoExpiry} \cup 1 .. Window
      /\ Exists(c) <=> counter[c].ttl # NoKey
      /\ promise[c] \in -Delay .. Window + 1
  BY KeyFields DEF IInv
<1>7. Told(counter[c].ttl) \in 1 .. Window
  BY <1>6, Constants DEF Told, NoKey, NoExpiry
<1>8. /\ p \in -Delay .. Window + 1
      /\ p = promise[c] \/ (Exists(c) /\ p = Told(counter[c].ttl))
  BY <1>3, <1>6, <1>7, Constants DEF Sooner
<1>9. /\ promise' \in [Clients -> -Delay .. Window + 1]
      /\ promise'[c] = p
      /\ \A d \in Clients : d # c => promise'[d] = promise[d]
  BY <1>4, <1>8 DEF IInv, TypeOK
<1>10. TypeOK'
  BY <1>4, <1>5, <1>9 DEF IInv, TypeOK
<1>11. \A d \in Clients, o \in Requests :
           /\ Owner(o, d)' <=> Owner(o, d)
           /\ Owner(o, d) => req'[o].age = req[o].age
  BY <1>1, <1>5 DEF Owner, Idle
<1>12. \A d \in Clients : Exists(d)' <=> Exists(d)
  BY <1>4 DEF Exists
<1>13. ASSUME NEW d \in Clients, d # c \/ p = promise[c]
       PROVE  CounterInv(d)'
  BY <1>4, <1>9, <1>11, <1>12, <1>13, CounterKept DEF IInv
<1>14. ASSUME Exists(c), p = Told(counter[c].ttl)
       PROVE  CounterInv(c)'
  <2>1. CounterInv(c)
    BY DEF IInv
  <2>2. OneOwner(c)' /\ LostForGood(c)'
    BY <1>4, <1>11, <2>1 DEF CounterInv, OneOwner, LostForGood
  <2>3. PromiseWhileOwed(c)'
    <3>1. SUFFICES ASSUME counter[c].ttl = NoExpiry, ~lost[c]
                   PROVE  \E o \in Requests : Owner(o, c)' /\ p >= Window - req'[o].age
      BY <1>4, <1>9 DEF PromiseWhileOwed
    <3>2. PICK o \in Requests : Owner(o, c)
      BY <2>1, <3>1 DEF CounterInv, PromiseWhileOwed
    <3>3. req[o].age \in 0 .. Delay
      BY <3>2, TaskFields DEF IInv, Owner
    <3>4. p = Window
      BY <1>14, <3>1 DEF Told, NoExpiry
    <3>5. p >= Window - req'[o].age
      BY <1>11, <3>2, <3>3, <3>4, Constants
    <3>6. QED
      BY <1>11, <3>2, <3>5
  <2>4. PromiseWhileExpiring(c)'
    BY <1>4, <1>6, <1>9, <1>14, Constants
    DEF PromiseWhileExpiring, Told, NoKey, NoExpiry
  <2>5. NoCounterNoPromise(c)'
    BY <1>12, <1>14 DEF NoCounterNoPromise
  <2>6. QED
    BY <2>2, <2>3, <2>4, <2>5 DEF CounterInv
<1>15. QED
  BY <1>8, <1>10, <1>13, <1>14 DEF IInv

LEMMA FailKeeps ==
    ASSUME IInv, NEW q \in Requests, Fail(q)
    PROVE  IInv'
<1>1. req[q].op \in {"incr", "expire", "ttl"} /\ req[q] # Idle
  BY DEF Fail, Idle
<1>2. PICK c \in Clients : c = req[q].client
  BY <1>1, TaskFields DEF IInv
<1>3. PICK task : task = [op |-> "local", client |-> c, age |-> req[q].age]
  OBVIOUS
<1>4. task \in Task /\ task.op = "local"
  BY <1>1, <1>3, TaskFields DEF IInv, Task
<1>5. Become(q, task) /\ UNCHANGED <<table, swept, promise, passed>>
  BY <1>2, <1>3 DEF Fail
<1>6. /\ req' \in [Requests -> {Idle} \cup Task]
      /\ req'[q] = task
      /\ \A o \in Requests : o # q => req'[o] = req[o]
  BY <1>4, <1>5, ReqMoved DEF IInv
<1>7. \A d \in Clients, o \in Requests :
          (o # q \/ d # c \/ req[q].op # "expire") =>
              /\ Owner(o, d)' <=> Owner(o, d)
              /\ Owner(o, d) => req'[o].age = req[o].age
  BY <1>2, <1>4, <1>6 DEF Owner
<1>8. SUFFICES /\ counter' \in [Clients -> Key]
               /\ lost' \in [Clients -> BOOLEAN]
               /\ \A d \in Clients : CounterInv(d)'
  BY <1>5, <1>6 DEF IInv, TypeOK
<1>9. CASE req[q].op # "expire" /\ UNCHANGED <<counter, lost>>
  <2>1. \A d \in Clients : Exists(d)' <=> Exists(d)
    BY <1>9 DEF Exists
  <2>2. \A d \in Clients : CounterInv(d)'
    BY <1>5, <1>7, <1>9, <2>1, CounterKept DEF IInv
  <2>3. QED
    BY <1>9, <2>2 DEF IInv, TypeOK
<1>10. CASE /\ req[q].op = "incr"
            /\ counter' = [counter EXCEPT ![c] = Incremented(c)]
            /\ lost' = [lost EXCEPT ![c] = @ \/ ~Exists(c)]
  <2>1. PICK key \in Key : key = Incremented(c)
    BY IncrementedKey DEF IInv
  <2>2. /\ counter' \in [Clients -> Key]
        /\ counter'[c] = key
        /\ \A d \in Clients : d # c => counter'[d] = counter[d]
    BY <1>10, <2>1 DEF IInv, TypeOK
  <2>3. /\ lost' \in [Clients -> BOOLEAN]
        /\ lost'[c] = (lost[c] \/ ~Exists(c))
        /\ \A d \in Clients : d # c => lost'[d] = lost[d]
    BY <1>10 DEF IInv, TypeOK
  <2>4. ASSUME NEW d \in Clients, d # c
        PROVE  CounterInv(d)'
    <3>1. Exists(d)' <=> Exists(d)
      BY <2>2, <2>4 DEF Exists
    <3>2. QED
      BY <1>5, <1>7, <2>2, <2>3, <2>4, <3>1, CounterKept DEF IInv
  <2>5. CounterInv(c)'
    <3>1. Exists(c)'
      <4>1. key # Absent
        BY <2>1, IncrementedKey, Constants DEF IInv, Absent
      <4>2. QED
        BY <2>2, <4>1 DEF Exists
    <3>2. CASE Exists(c)
      <4>1. key.ttl = counter[c].ttl
        BY <2>1, <3>2, IncrementedKey DEF IInv
      <4>2. lost'[c] = lost[c]
        BY <2>3, <3>2 DEF IInv, TypeOK
      <4>3. QED
        BY <1>5, <1>7, <1>10, <2>2, <3>1, <3>2, <4>1, <4>2, CounterKept DEF IInv
    <3>3. CASE ~Exists(c)
      <4>1. key.ttl = NoExpiry
        BY <2>1, <3>3, IncrementedKey DEF IInv
      <4>2. counter[c].ttl = NoKey
        BY <3>3, KeyFields DEF IInv
      <4>3. \A o \in Requests : ~Owner(o, c)
        BY <4>2 DEF IInv, CounterInv, OneOwner, NoKey, NoExpiry
      <4>4. lost'[c] /\ \A o \in Requests : ~Owner(o, c)'
        BY <1>7, <1>10, <2>3, <3>3, <4>3
      <4>5. QED
        BY <2>2, <3>1, <4>1, <4>4
        DEF CounterInv, OneOwner, LostForGood, PromiseWhileOwed, PromiseWhileExpiring,
            NoCounterNoPromise, NoExpiry
    <3>4. QED
      BY <3>2, <3>3
  <2>6. QED
    BY <2>2, <2>3, <2>4, <2>5
<1>11. CASE /\ req[q].op = "expire"
            /\ lost' = [lost EXCEPT ![c] = @ \/ counter[c].ttl = NoExpiry]
            /\ UNCHANGED counter
  <2>1. /\ counter[c].ttl = NoExpiry
        /\ \A o \in Requests : Owner(o, c) => o = q
    BY <1>2, <1>11 DEF IInv, CounterInv, OneOwner, Owner
  <2>2. /\ lost' \in [Clients -> BOOLEAN]
        /\ lost'[c]
        /\ \A d \in Clients : d # c => lost'[d] = lost[d]
    BY <1>11, <2>1 DEF IInv, TypeOK
  <2>3. \A d \in Clients : Exists(d)' <=> Exists(d)
    BY <1>11 DEF Exists
  <2>4. ASSUME NEW d \in Clients, d # c
        PROVE  CounterInv(d)'
    BY <1>5, <1>7, <1>11, <2>2, <2>3, <2>4, CounterKept DEF IInv
  <2>5. CounterInv(c)'
    <3>1. \A o \in Requests : ~Owner(o, c)'
      BY <1>4, <1>6, <2>1 DEF Owner
    <3>2. Exists(c)'
      BY <2>1, <2>3, KeyFields DEF IInv, NoKey, NoExpiry
    <3>3. QED
      BY <1>11, <2>1, <2>2, <3>1, <3>2
      DEF CounterInv, OneOwner, LostForGood, PromiseWhileOwed, PromiseWhileExpiring,
          NoCounterNoPromise, NoExpiry
  <2>6. QED
    BY <1>11, <2>2, <2>4, <2>5 DEF IInv, TypeOK
<1>12. CASE /\ req[q].op = "expire"
            /\ counter' = [counter EXCEPT ![c] = Expiring(c)]
            /\ UNCHANGED lost
  BY <1>2, <1>4, <1>5, <1>6, <1>12, OwnerExpires DEF Owner, IInv, TypeOK
<1>13. QED
  BY <1>2, <1>9, <1>10, <1>11, <1>12 DEF Fail

\* The table plays no part in the invariant but for its type.
LEMMA CheckLocalKeeps ==
    ASSUME IInv, NEW q \in Requests, CheckLocal(q)
    PROVE  IInv'
<1>1. req[q].op = "local" /\ req[q] # Idle
  BY DEF CheckLocal, Idle
<1>2. PICK c \in Clients : c = req[q].client
  BY <1>1, TaskFields DEF IInv
<1>3. PICK age \in 0 .. Delay : age = req[q].age
  BY <1>1, TaskFields DEF IInv
<1>4. PICK swept1 \in [Clients -> Entry] : swept1 = Sweep(age)
  <2>1. Unknown \in Entry
    BY Constants DEF Unknown, Entry
  <2>2. QED
    BY <2>1 DEF IInv, TypeOK, Sweep
<1>5. PICK entry : entry = Counted(swept1[c], age)
  OBVIOUS
<1>6. entry \in Entry
  <2>1. PICK e \in Entry : e = swept1[c]
    BY <1>4
  <2>2. e.count \in 0 .. Max + 1 /\ e.left \in -Delay - 1 .. Window
    BY DEF Entry
  <2>3. OneMore(e.count) \in 0 .. Max + 1
    BY <2>2, Constants DEF OneMore
  <2>4. [count |-> 1, left |-> Window - age] \in Entry
    BY Constants DEF Entry
  <2>5. [e EXCEPT !.count = OneMore(@)] \in Entry
    BY <2>2, <2>3 DEF Entry
  <2>6. QED
    BY <1>5, <2>1, <2>4, <2>5 DEF Counted
<1>7. /\ table' = [swept1 EXCEPT ![c] = entry]
      /\ swept' = IF swept - age > Window THEN age ELSE swept
      /\ passed' = [passed EXCEPT ![c][0] = IF entry.count > Max THEN @ ELSE @ + 1]
      /\ Become(q, Idle)
      /\ UNCHANGED <<counter, lost, promise>>
  BY <1>2, <1>3, <1>4, <1>5 DEF CheckLocal
<1>8. /\ req' \in [Requests -> {Idle} \cup Task]
      /\ req'[q] = Idle
      /\ \A o \in Requests : o # q => req'[o] = req[o]
  BY <1>7, ReqMoved DEF IInv
<1>9. TypeOK'
  <2>1. table' \in [Clients -> Entry]
    BY <1>6, <1>7
  <2>2. swept' \in 0 .. Window + Delay + 1
    BY <1>7, Constants DEF IInv, TypeOK
  <2>3. passed' \in [Clients -> [0 .. Window - 1 -> Nat]]
    <3>1. 0 \in 0 .. Window - 1
      BY Constants
    <3>2. passed[c][0] \in Nat
      BY <3>1 DEF IInv, TypeOK
    <3>3. PICK n \in Nat : n = IF entry.count > Max THEN passed[c][0] ELSE passed[c][0] + 1
      BY <3>2
    <3>4. passed' = [passed EXCEPT ![c][0] = n]
      BY <1>7, <3>3
    <3>5. QED
      BY <3>4 DEF IInv, TypeOK
  <2>4. QED
    BY <1>7, <1>8, <2>1, <2>2, <2>3 DEF IInv, TypeOK
<1>10. ASSUME NEW d \in Clients
       PROVE  CounterInv(d)'
  <2>1. \A o \in Requests : /\ Owner(o, d)' <=> Owner(o, d)
                            /\ Owner(o, d) => req'[o].age = req[o].age
    BY <1>1, <1>8 DEF Owner, Idle
  <2>2. Exists(d)' <=> Exists(d)
    BY <1>7 DEF Exists
  <2>3. QED
    BY <1>7, <2>1, <2>2, CounterKept DEF IInv
<1>11. QED
  BY <1>9, <1>10 DEF IInv

\* A tick brings the expiry of a counter and what was promised nearer alike,
\* and no request of the counter is older than Delay after it.
LEMMA TickKeeps ==
    ASSUME IInv, Tick
    PROVE  IInv'
<1>1. ASSUME NEW o \in Requests
      PROVE  /\ req'[o] \in {Idle} \cup Task
             /\ \A c \in Clients : Owner(o, c)' <=> Owner(o, c)
             /\ req[o] # Idle => req'[o].age = req[o].age + 1 /\ req[o].age < Delay
  <2>1. PICK r \in {Idle} \cup Task : r = req[o]
    BY DEF IInv, TypeOK
  <2>2. r # Idle => r \in Task /\ r.age \in 0 .. Delay /\ r.age < Delay
    BY <2>1, TaskFields DEF IInv, Tick
  <2>3. req'[o] = IF r = Idle THEN Idle ELSE [r EXCEPT !.age = @ + 1]
    BY <2>1 DEF Tick
  <2>4. r # Idle => /\ [r EXCEPT !.age = @ + 1] \in Task
                    /\ [r EXCEPT !.age = @ + 1].age = r.age + 1
                    /\ [r EXCEPT !.age = @ + 1].op = r.op
                    /\ [r EXCEPT !.age = @ + 1].client = r.client
    BY <2>2, Constants DEF Task
  <2>5. QED
    BY <2>1, <2>2, <2>3, <2>4 DEF Owner, Idle
<1>2. req' \in [Requests -> {Idle} \cup Task]
  <2>1. req' = [o \in Requests |-> req'[o]]
    BY DEF Tick
  <2>2. QED
    BY <1>1, <2>1
<1>3. ASSUME NEW c \in Clients
      PROVE  /\ counter'[c] \in Key
             /\ promise'[c] \in -Delay .. Window + 1
             /\ CounterInv(c)'
  <2>1. CounterInv(c) /\ lost'[c] = lost[c]
    BY DEF IInv, Tick
  <2>2. /\ counter[c].ttl \in {NoKey, NoExpiry} \cup 1 .. Window
        /\ Exists(c) <=> counter[c].ttl # NoKey
        /\ counter[c] \in Key
        /\ promise[c] \in -Delay .. Window + 1
    BY KeyFields DEF IInv
  <2>3. promise'[c] = IF promise[c] = NoPromise \/ counter[c].ttl = 1
                        THEN NoPromise ELSE Down(promise[c], -Delay)
    BY DEF Tick
  <2>4. promise'[c] \in -Delay .. Window + 1
    BY <2>2, <2>3, Constants DEF Down, NoPromise
  <2>5. CASE counter[c].ttl = NoKey
    <3>1. counter'[c] = counter[c] /\ ~Exists(c)
      BY <2>2, <2>5 DEF Tick, NoKey
    <3>2. promise'[c] = promise[c]
      BY <2>1, <2>3, <3>1 DEF CounterInv, NoCounterNoPromise
    <3>3. \A o \in Requests : ~Owner(o, c)
      BY <2>1, <2>5 DEF CounterInv, OneOwner, NoKey, NoExpiry
    <3>4. CounterInv(c)'
      BY <1>1, <2>1, <3>1, <3>2, <3>3, CounterKept DEF Exists
    <3>5. QED
      BY <2>2, <2>4, <3>1, <3>4
  <2>6. CASE counter[c].ttl = NoExpiry
    <3>1. counter'[c] = counter[c] /\ Exists(c)'
      BY <2>2, <2>6 DEF Tick, NoKey, NoExpiry, Exists
    <3>2. OneOwner(c)' /\ LostForGood(c)'
      BY <1>1, <2>1, <2>6, <3>1 DEF CounterInv, OneOwner, LostForGood
    <3>3. PromiseWhileOwed(c)'
      <4>1. SUFFICES ASSUME ~lost[c]
                     PROVE  \E o \in Requests :
                                Owner(o, c)' /\ promise'[c] >= Window - req'[o].age
        BY <2>1 DEF PromiseWhileOwed
      <4>2. PICK o \in Requests : Owner(o, c) /\ promise[c] >= Window - req[o].age
        BY <2>1, <2>6, <4>1 DEF CounterInv, PromiseWhileOwed
      <4>3. req[o] # Idle /\ req[o].age \in 0 .. Delay
        BY <4>2, TaskFields DEF IInv, Owner
      <4>4. req'[o].age = req[o].age + 1 /\ req[o].age < Delay
        BY <1>1, <4>3
      <4>5. promise'[c] >= Window - req'[o].age
        BY <2>2, <2>3, <2>6, <4>2, <4>3, <4>4, Constants DEF Down, NoPromise, NoExpiry
      <4>6. QED
        BY <1>1, <4>2, <4>5
    <3>4. PromiseWhileExpiring(c)' /\ NoCounterNoPromise(c)'
      BY <2>6, <3>1 DEF PromiseWhileExpiring, NoCounterNoPromise, NoExpiry
    <3>5. QED
      BY <2>2, <2>4, <3>1, <3>2, <3>3, <3>4 DEF CounterInv
  <2>7. CASE counter[c].ttl = 1
    <3>1. counter'[c] = Absent
      BY <2>7 DEF Tick
    <3>2. promise'[c] = NoPromise
      BY <2>3, <2>7
    <3>3. ~lost[c] /\ \A o \in Requests : ~Owner(o, c)
      BY <2>1, <2>7 DEF CounterInv, OneOwner, LostForGood, NoExpiry
    <3>4. \A o \in Requests : ~Owner(o, c)'
      BY <1>1, <3>3
    <3>5. CounterInv(c)'
      BY <2>1, <3>1, <3>2, <3>3, <3>4
      DEF CounterInv, OneOwner, LostForGood, PromiseWhileOwed, PromiseWhileExpiring,
          NoCounterNoPromise, Absent, NoKey, NoExpiry, NoPromise
    <3>6. QED
      BY <2>4, <3>1, <3>5 DEF Key
  <2>8. CASE counter[c].ttl \in 2 .. Window
    <3>1. counter[c] \in [count : 1 .. Max + 1, ttl : {NoExpiry} \cup 1 .. Window]
      BY <2>2, <2>8, KeyFields DEF IInv, NoKey
    <3>2. PICK k \in [count : 1 .. Max + 1, ttl : {NoExpiry} \cup 1 .. Window] : k = counter[c]
      BY <3>1
    <3>3. counter'[c] = [k EXCEPT !.ttl = @ - 1]
      BY <2>8, <3>2 DEF Tick
    <3>4. /\ [k EXCEPT !.ttl = @ - 1] \in [count : 1 .. Max + 1, ttl : 1 .. Window]
          /\ [k EXCEPT !.ttl = @ - 1].ttl = k.ttl - 1
      BY <2>8, <3>2, Constants
    <3>5. counter'[c] \in Key /\ counter'[c].ttl = counter[c].ttl - 1
      BY <3>2, <3>3, <3>4 DEF Key
    <3>6. ~lost[c] /\ \A o \in Requests : ~Owner(o, c)
      BY <2>1, <2>8 DEF CounterInv, OneOwner, LostForGood, NoExpiry
    <3>7. \A o \in Requests : ~Owner(o, c)'
      BY <1>1, <3>6
    <3>8. promise[c] >= counter[c].ttl - Delay
      BY <2>1, <2>8 DEF CounterInv, PromiseWhileExpiring
    <3>9. promise'[c] >= counter'[c].ttl - Delay
      BY <2>2, <2>3, <2>8, <3>5, <3>8, Constants DEF Down, NoPromise
    <3>10. Exists(c)' /\ counter'[c].ttl # NoExpiry
      BY <2>8, <3>5 DEF Exists, Absent, NoKey, NoExpiry
    <3>11. CounterInv(c)'
      BY <2>1, <3>6, <3>7, <3>9, <3>10
      DEF CounterInv, OneOwner, LostForGood, PromiseWhileOwed, PromiseWhileExpiring,
          NoCounterNoPromise
    <3>12. QED
      BY <2>4, <3>5, <3>11
  <2>9. QED
    BY <2>2, <2>5, <2>6, <2>7, <2>8
<1>4. TypeOK'
  <2>1. counter' \in [Clients -> Key]
    <3>1. counter' = [c \in Clients |-> counter'[c]]
      BY DEF Tick
    <3>2. QED
      BY <1>3, <3>1
  <2>2. promise' \in [Clients -> -Delay .. Window + 1]
    <3>1. promise' = [c \in Clients |-> promise'[c]]
      BY DEF Tick
    <3>2. QED
      BY <1>3, <3>1
  <2>3. table' \in [Clients -> Entry]
    <3>1. ASSUME NEW e \in Entry
          PROVE  [e EXCEPT !.left = Down(@, -Delay - 1)] \in Entry
      BY Constants DEF Entry, Down
    <3>2. Unknown \in Entry
      BY Constants DEF Unknown, Entry
    <3>3. QED
      BY <3>1, <3>2 DEF Tick, IInv, TypeOK
  <2>4. swept' \in 0 .. Window + Delay + 1
    BY Constants DEF Tick, IInv, TypeOK
  <2>5. passed' \in [Clients -> [0 .. Window - 1 -> Nat]]
    <3>1. \A c \in Clients, n \in 0 .. Window - 1 : n # 0 => passed[c][n - 1] \in Nat
      BY Constants DEF IInv, TypeOK
    <3>2. QED
      BY <3>1 DEF Tick
  <2>6. QED
    BY <1>2, <2>1, <2>2, <2>3, <2>4, <2>5 DEF Tick, IInv, TypeOK
<1>5. QED
  BY <1>3, <1>4 DEF IInv

\* Requests that die with the process leave their counters without an owner.
LEMMA RestartKeeps ==
    ASSUME IInv, Restart
    PROVE  IInv'
<1>1. req' = [o \in Requests |-> Idle] /\ UNCHANGED <<counter, promise>>
  BY DEF Restart
<1>2. ASSUME NEW c \in Clients
      PROVE  /\ lost'[c] \in BOOLEAN
             /\ lost'[c] <=> \/ lost[c]
                             \/ counter[c].ttl = NoExpiry /\ \E o \in Requests : Owner(o, c)
  BY DEF Restart, Owner
<1>3. TypeOK'
  <2>1. lost' \in [Clients -> BOOLEAN]
    BY <1>2 DEF Restart
  <2>2. Unknown \in Entry /\ NoneYet \in [Clients -> [0 .. Window - 1 -> Nat]]
    BY Constants DEF Unknown, Entry, NoneYet
  <2>3. 0 \in 0 .. Window + Delay + 1
    BY Constants
  <2>4. QED
    BY <2>1, <2>2, <2>3 DEF Restart, IInv, TypeOK
<1>4. ASSUME NEW c \in Clients
      PROVE  CounterInv(c)'
  <2>1. CounterInv(c)
    BY DEF IInv
  <2>2. \A o \in Requests : ~Owner(o, c)'
    BY <1>1 DEF Owner, Idle
  <2>3. counter[c].ttl = NoExpiry => lost'[c]
    BY <1>2, <2>1 DEF CounterInv, PromiseWhileOwed
  <2>4. lost'[c] => counter[c].ttl = NoExpiry
    BY <1>2, <2>1 DEF CounterInv, LostForGood
  <2>5. Exists(c)' <=> Exists(c)
    BY <1>1 DEF Exists
  <2>6. QED
    BY <1>1, <2>1, <2>2, <2>3, <2>4, <2>5
    DEF CounterInv, OneOwner, LostForGood, PromiseWhileOwed, PromiseWhileExpiring,
        NoCounterNoPromise
<1>5. QED
  BY <1>3, <1>4 DEF IInv

-----------------------------------------------------------------------------
(* Theorems *)

\* The inductive invariant: a counter without an expiry has an owner that came
\* before anything was promised for it, or it has been lost.
THEOREM Invariance == Spec => []IInv
<1>1. Init => IInv
  <2>1. SUFFICES ASSUME Init
                 PROVE  IInv
    OBVIOUS
  <2>2. TypeOK
    <3>1. Absent \in Key /\ Unknown \in Entry /\ NoPromise \in -Delay .. Window + 1
      BY Constants DEF Key, Unknown, Entry, NoPromise
    <3>2. NoneYet \in [Clients -> [0 .. Window - 1 -> Nat]] /\ 0 \in 0 .. Window + Delay + 1
      BY Constants DEF NoneYet
    <3>3. QED
      BY <2>1, <3>1, <3>2 DEF Init, TypeOK
  <2>3. ASSUME NEW c \in Clients
        PROVE  CounterInv(c)
    <3>1. counter[c].ttl = -2 /\ lost[c] = FALSE /\ promise[c] = NoPromise
      BY <2>1 DEF Init, Absent, NoKey
    <3>2. \A q \in Requests : ~Owner(q, c)
      BY <2>1 DEF Init, Owner, Idle
    <3>3. QED
      BY <3>1, <3>2
      DEF CounterInv, OneOwner, LostForGood, PromiseWhileOwed, PromiseWhileExpiring,
          NoCounterNoPromise, NoExpiry
  <2>4. QED
    BY <2>2, <2>3 DEF IInv
<1>2. IInv /\ [Next]_vars => IInv'
  <2>1. SUFFICES ASSUME IInv, [Next]_vars
                 PROVE  IInv'
    OBVIOUS
  <2>2. ASSUME NEW q \in Requests, Arrive(q) \/ Proceed(q)
        PROVE  IInv'
    BY <2>1, <2>2, ArriveKeeps, IncrKeeps, ExpireKeeps, TtlKeeps, FailKeeps, CheckLocalKeeps
    DEF Proceed
  <2>3. CASE Tick
    BY <2>1, <2>3, TickKeeps
  <2>4. CASE Restart
    BY <2>1, <2>4, RestartKeeps
  <2>5. CASE UNCHANGED vars
    BY <2>1, <2>5
    DEF vars, IInv, TypeOK, CounterInv, OneOwner, LostForGood, PromiseWhileOwed,
        PromiseWhileExpiring, NoCounterNoPromise, Owner, Exists
  <2>6. QED
    BY <2>1, <2>2, <2>3, <2>4, <2>5 DEF Next
<1>3. QED
  BY <1>1, <1>2, PTL DEF Spec

\* Every reachable state of counters, table and requests is well typed.
THEOREM TypeCorrect == Spec => []TypeOK
<1>1. IInv => TypeOK
  BY DEF IInv
<1>2. QED
  BY <1>1, Invariance, PTL

\* A counter without an expiry is about to get one or has been lost.
THEOREM ExpiryComes == Spec => []ExpiryIsOwed
<1>1. IInv => ExpiryIsOwed
  BY DEF IInv, CounterInv, PromiseWhileOwed, ExpiryIsOwed, Owner
<1>2. QED
  BY <1>1, Invariance, PTL

\* A client that waits as long as it was told finds a new counter, for any
\* limit, window and longest stay on Redis.
THEOREM RetryAfterHolds == Spec => []RetryAfterIsKept
<1>1. IInv => RetryAfterIsKept
  <2>1. SUFFICES ASSUME IInv, NEW c \in Clients, ~lost[c]
                 PROVE  promise[c] > -Delay
    BY DEF RetryAfterIsKept
  <2>2. /\ counter[c].ttl \in {NoKey, NoExpiry} \cup 1 .. Window
        /\ Exists(c) <=> counter[c].ttl # NoKey
        /\ promise[c] \in -Delay .. Window + 1
    BY <2>1, KeyFields DEF IInv
  <2>3. CASE counter[c].ttl = NoKey
    BY <2>1, <2>2, <2>3, Constants DEF IInv, CounterInv, NoCounterNoPromise, NoPromise
  <2>4. CASE counter[c].ttl = NoExpiry
    <3>1. PICK o \in Requests : Owner(o, c) /\ promise[c] >= Window - req[o].age
      BY <2>1, <2>4 DEF IInv, CounterInv, PromiseWhileOwed
    <3>2. req[o].age \in 0 .. Delay
      BY <2>1, <3>1, TaskFields DEF IInv, Owner
    <3>3. QED
      BY <2>2, <3>1, <3>2, Constants
  <2>5. CASE counter[c].ttl \in 1 .. Window
    BY <2>1, <2>2, <2>5, Constants DEF IInv, CounterInv, PromiseWhileExpiring
  <2>6. QED
    BY <2>2, <2>3, <2>4, <2>5
<1>2. QED
  BY <1>1, Invariance, PTL

-----------------------------------------------------------------------------
(* Two windows at the most *)

\* The passes of a client are those the entry in the table counts, cur, and
\* those of the window before, old: no more than the limit in either, and the
\* old ones so long ago that they are no longer recent when the entry is over.
Split(cur, old, entry) ==
    /\ IsFiniteSet(cur) /\ Cardinality(cur) <= entry.count /\ Cardinality(cur) <= Max
    /\ IsFiniteSet(old) /\ Cardinality(old) <= Max
    /\ entry.count > 0 => \A p \in old : p[1] >= Window - entry.left - Delay

PassesInv(c) == \E cur \in SUBSET Passes(c) : Split(cur, Passes(c) \ cur, table[c])

\* A pass is a recent tick and the place of the request in it.
LEMMA PassFields ==
    ASSUME NEW c \in Clients, NEW k, NEW i
    PROVE  <<k, i>> \in Passes(c) <=> k \in Recent /\ i \in 1 .. passed[c][k]
<1>1. ASSUME k \in Recent, i \in 1 .. passed[c][k]
      PROVE  <<k, i>> \in Passes(c)
  BY <1>1 DEF Passes
<1>2. ASSUME <<k, i>> \in Passes(c)
      PROVE  k \in Recent /\ i \in 1 .. passed[c][k]
  BY <1>2 DEF Passes
<1>3. QED
  BY <1>1, <1>2

\* A pass is a pair of numbers, the first of them a recent tick.
LEMMA PassPair ==
    ASSUME NEW c \in Clients, NEW p \in Passes(c)
    PROVE  /\ p = <<p[1], p[2]>>
           /\ p[1] \in Int /\ p[2] \in Int
           /\ p[1] \in Recent
<1>1. PICK k \in Recent : p \in {k} \X (1 .. passed[c][k])
  BY DEF Passes
<1>2. k \in Int
  BY DEF Recent
<1>3. QED
  BY <1>1, <1>2

\* A set whose pairs come from different pairs of T, a tick younger, is no
\* larger than T.
LEMMA OlderNoMore ==
    ASSUME NEW T, IsFiniteSet(T), NEW U \in SUBSET (Int \X Int),
           \A p \in U : <<p[1] - 1, p[2]>> \in T
    PROVE  IsFiniteSet(U) /\ Cardinality(U) <= Cardinality(T)
<1> DEFINE f == [p \in U |-> <<p[1] - 1, p[2]>>]
<1>1. f \in [U -> T]
  OBVIOUS
<1>2. ASSUME NEW p \in U, NEW o \in U, f[p] = f[o] PROVE p = o
  <2>1. p[1] - 1 = o[1] - 1 /\ p[2] = o[2]
    BY <1>2
  <2>2. p \in Int \X Int /\ o \in Int \X Int
    OBVIOUS
  <2>3. p[1] = o[1]
    BY <2>1, <2>2
  <2>4. QED
    BY <2>1, <2>2, <2>3
<1>3. f \in Injection(U, T)
  BY <1>1, <1>2 DEF Injection, IsInjective
<1>4. QED
  BY <1>3, FS_Injection

\* Nothing recent is older than an entry that is over.
LEMMA NothingOlder ==
    ASSUME TypeOK, NEW c \in Clients, NEW old \in SUBSET Passes(c), NEW cur,
           NEW entry \in Entry, Split(cur, old, entry), entry.count > 0,
           NEW age \in 0 .. Delay, Over(entry, age)
    PROVE  old = {}
<1>1. SUFFICES ASSUME NEW p \in old PROVE FALSE
  OBVIOUS
<1>2. p[1] >= Window - entry.left - Delay
  BY DEF Split
<1>3. p[1] \in Int /\ p[1] <= Window - Delay
  BY PassPair DEF Recent
<1>4. entry.left \in Int /\ entry.left + age < 0
  BY Constants DEF Entry, Over
<1>5. QED
  BY <1>2, <1>3, <1>4, Constants

\* The sizes of disjoint sets add up.
LEMMA DisjointUnion ==
    ASSUME NEW S, IsFiniteSet(S), NEW T, IsFiniteSet(T), S \cap T = {}
    PROVE  /\ IsFiniteSet(S \cup T)
           /\ Cardinality(S \cup T) = Cardinality(S) + Cardinality(T)
<1>1. Cardinality(S \cap T) = 0
  BY FS_EmptySet
<1>2. Cardinality(S) \in Nat /\ Cardinality(T) \in Nat
  BY FS_CardinalityType
<1>3. /\ IsFiniteSet(S \cup T)
      /\ Cardinality(S \cup T) = Cardinality(S) + Cardinality(T) - Cardinality(S \cap T)
  BY FS_Union, Zenon
<1>4. \A m, n \in Nat : m + n - 0 = m + n
  OBVIOUS
<1>5. QED
  BY <1>1, <1>2, <1>3, <1>4, Zenon

\* When the window of an entry has ended, or there is none, the passes are
\* those of one window.
LEMMA WindowEnded ==
    ASSUME TypeOK, NEW c \in Clients, NEW cur \in SUBSET Passes(c),
           NEW entry \in Entry, Split(cur, Passes(c) \ cur, entry),
           NEW age \in 0 .. Delay, entry.count = 0 \/ Over(entry, age)
    PROVE  IsFiniteSet(Passes(c)) /\ Cardinality(Passes(c)) <= Max
<1>1. CASE entry.count = 0
  <2>1. cur = {}
    <3>1. IsFiniteSet(cur) /\ Cardinality(cur) <= 0
      BY <1>1 DEF Split
    <3>2. Cardinality(cur) \in Nat
      BY <3>1, FS_CardinalityType
    <3>3. QED
      BY <3>1, <3>2, FS_EmptySet
  <2>2. Passes(c) \ cur = Passes(c)
    BY <2>1
  <2>3. QED
    BY <2>2 DEF Split
<1>2. CASE entry.count # 0
  <2>1. entry.count > 0 /\ Over(entry, age)
    BY <1>2, Constants DEF Entry
  <2>2. Passes(c) \ cur = {}
    BY <2>1, NothingOlder
  <2>3. Passes(c) = cur
    BY <2>2
  <2>4. QED
    BY <2>3 DEF Split
<1>3. QED
  BY <1>1, <1>2

\* A dropped entry, and one whose window begins now, leave what passed before
\* to the window before.
LEMMA BeforeNow ==
    ASSUME TypeOK, NEW c \in Clients, IsFiniteSet(Passes(c)), Cardinality(Passes(c)) <= Max,
           NEW age \in 0 .. Delay, NEW cur, IsFiniteSet(cur), Cardinality(cur) <= 1
    PROVE  /\ Split({}, Passes(c), Unknown)
           /\ Split(cur, Passes(c), [count |-> 1, left |-> Window - age])
<1>1. Cardinality({}) = 0 /\ IsFiniteSet({})
  BY FS_EmptySet
<1>2. Split({}, Passes(c), Unknown)
  BY <1>1, Constants DEF Split, Unknown
<1>3. ASSUME NEW p \in Passes(c) PROVE p[1] >= Window - (Window - age) - Delay
  <2>1. p[1] \in Int /\ p[1] >= 0
    BY PassPair DEF Recent
  <2>2. QED
    BY <2>1, Constants
<1>4. Cardinality(cur) \in Nat
  BY FS_CardinalityType
<1>5. QED
  BY <1>2, <1>3, <1>4, Constants DEF Split

\* The cleanup keeps the split.
LEMMA SweptSplit ==
    ASSUME TypeOK, NEW c \in Clients, PassesInv(c), NEW age \in 0 .. Delay
    PROVE  \E cur \in SUBSET Passes(c) : Split(cur, Passes(c) \ cur, Sweep(age)[c])
<1>1. PICK cur \in SUBSET Passes(c) : Split(cur, Passes(c) \ cur, table[c])
  BY DEF PassesInv
<1>2. CASE Sweep(age)[c] = table[c]
  BY <1>1, <1>2
<1>3. CASE Sweep(age)[c] # table[c]
  <2>1. Sweep(age)[c] = Unknown /\ Over(table[c], age) /\ table[c] \in Entry
    BY <1>3 DEF Sweep, TypeOK
  <2>2. IsFiniteSet(Passes(c)) /\ Cardinality(Passes(c)) <= Max
    BY <1>1, <2>1, WindowEnded
  <2>3. IsFiniteSet({}) /\ Cardinality({}) <= 1
    BY FS_EmptySet
  <2>4. Split({}, Passes(c), Unknown)
    BY <2>2, <2>3, BeforeNow
  <2>5. Passes(c) \ {} = Passes(c) /\ {} \in SUBSET Passes(c)
    OBVIOUS
  <2>6. QED
    BY <2>1, <2>4, <2>5
<1>4. QED
  BY <1>2, <1>3

\* A request that is counted in a window of the table passes in it.
LEMMA CountedSplit ==
    ASSUME TypeOK, NEW c \in Clients, NEW age \in 0 .. Delay, NEW entry \in Entry,
           NEW cur \in SUBSET Passes(c), Split(cur, Passes(c) \ cur, entry),
           Passes(c) \subseteq Passes(c)', NEW x, Passes(c)' \ Passes(c) \subseteq {x},
           Counted(entry, age).count > Max => Passes(c)' = Passes(c)
    PROVE  \E now \in SUBSET Passes(c)' : Split(now, Passes(c)' \ now, Counted(entry, age))
<1> DEFINE new == Passes(c)' \ Passes(c)
<1>1. IsFiniteSet(new) /\ Cardinality(new) \in Nat /\ Cardinality(new) <= 1
  <2>1. IsFiniteSet({x}) /\ Cardinality({x}) = 1
    BY FS_Singleton
  <2>2. new \in SUBSET {x}
    OBVIOUS
  <2>3. QED
    BY <2>1, <2>2, FS_Subset, FS_CardinalityType
<1>2. CASE entry.count = 0 \/ Over(entry, age)
  <2>1. IsFiniteSet(Passes(c)) /\ Cardinality(Passes(c)) <= Max
    BY <1>2, WindowEnded
  <2>2. Split(new, Passes(c), [count |-> 1, left |-> Window - age])
    BY <1>1, <2>1, BeforeNow
  <2>3. Passes(c)' \ new = Passes(c) /\ new \in SUBSET Passes(c)'
    OBVIOUS
  <2>4. QED
    BY <1>2, <2>2, <2>3 DEF Counted
<1>3. CASE ~(entry.count = 0 \/ Over(entry, age))
  <2>1. /\ Counted(entry, age) = [entry EXCEPT !.count = OneMore(@)]
        /\ Counted(entry, age).count = OneMore(entry.count)
        /\ Counted(entry, age).left = entry.left
    BY <1>3 DEF Counted, Entry
  <2>2. entry.count \in 0 .. Max + 1 /\ entry.count > 0
    BY <1>3, Constants DEF Entry
  <2>3. IsFiniteSet(cur) /\ Cardinality(cur) \in Nat
    BY FS_CardinalityType DEF Split
  <2>4. Cardinality(cur) <= entry.count /\ Cardinality(cur) <= Max
    BY DEF Split
  <2>5. CASE OneMore(entry.count) > Max
    <3>1. Passes(c)' = Passes(c)
      BY <2>1, <2>5
    <3>2. OneMore(entry.count) >= entry.count
      BY <2>2, Constants DEF OneMore
    <3>3. Split(cur, Passes(c) \ cur, Counted(entry, age))
      BY <2>1, <2>2, <2>3, <2>4, <3>2, Constants DEF Split, OneMore
    <3>4. QED
      BY <3>1, <3>3
  <2>6. CASE ~(OneMore(entry.count) > Max)
    <3>1. OneMore(entry.count) = entry.count + 1 /\ entry.count + 1 <= Max
      BY <2>2, <2>6, Constants DEF OneMore
    <3>2. cur \cap new = {}
      OBVIOUS
    <3>3. /\ IsFiniteSet(cur \cup new)
          /\ Cardinality(cur \cup new) = Cardinality(cur) + Cardinality(new)
      <4> HIDE DEF new
      <4>1. QED
        BY <1>1, <2>3, <3>2, DisjointUnion
    <3>4. /\ Cardinality(cur \cup new) <= Counted(entry, age).count
          /\ Cardinality(cur \cup new) <= Max
      BY <1>1, <2>1, <2>2, <2>3, <2>4, <3>1, <3>3, Constants
    <3>5. Passes(c)' \ (cur \cup new) = Passes(c) \ cur /\ cur \cup new \in SUBSET Passes(c)'
      OBVIOUS
    <3>6. Split(cur \cup new, Passes(c) \ cur, Counted(entry, age))
      BY <2>1, <2>2, <3>1, <3>3, <3>4 DEF Split
    <3>7. QED
      BY <3>5, <3>6
  <2>7. QED
    BY <2>5, <2>6
<1>4. QED
  BY <1>2, <1>3

\* One critical section of the table keeps the passes of every client split.
LEMMA CheckLocalSplits ==
    ASSUME TypeOK, NEW q \in Requests, CheckLocal(q), \A d \in Clients : PassesInv(d)
    PROVE  \A d \in Clients : PassesInv(d)'
<1>1. req[q].op = "local" /\ req[q] # Idle
  BY DEF CheckLocal, Idle
<1>2. PICK c \in Clients : c = req[q].client
  BY <1>1, TaskFields
<1>3. PICK age \in 0 .. Delay : age = req[q].age
  BY <1>1, TaskFields
<1>4. PICK clean \in [Clients -> Entry] : clean = Sweep(age)
  <2>1. Unknown \in Entry
    BY Constants DEF Unknown, Entry
  <2>2. QED
    BY <2>1 DEF TypeOK, Sweep
<1>5. PICK entry : entry = Counted(clean[c], age)
  OBVIOUS
<1>6. /\ table' = [clean EXCEPT ![c] = entry]
      /\ passed' = [passed EXCEPT ![c][0] = IF entry.count > Max THEN @ ELSE @ + 1]
  BY <1>2, <1>3, <1>4, <1>5 DEF CheckLocal
<1>7. 0 \in 0 .. Window - 1 /\ passed \in [Clients -> [0 .. Window - 1 -> Nat]]
  BY Constants DEF TypeOK
<1>8. ASSUME NEW d \in Clients, d # c PROVE PassesInv(d)'
  <2>1. Passes(d)' = Passes(d)
    BY <1>6, <1>7, <1>8 DEF Passes
  <2>2. table'[d] = Sweep(age)[d]
    BY <1>4, <1>6, <1>8
  <2>3. QED
    BY <2>1, <2>2, SweptSplit DEF PassesInv
<1>9. PassesInv(c)'
  <2>1. PICK cur \in SUBSET Passes(c) : Split(cur, Passes(c) \ cur, clean[c])
    BY <1>4, SweptSplit
  <2>2. \A k \in 0 .. Window - 1 :
            passed'[c][k] = IF k = 0 /\ ~(entry.count > Max) THEN passed[c][k] + 1
                            ELSE passed[c][k]
    BY <1>6, <1>7
  <2>3. \A k \in Recent : k \in 0 .. Window - 1
    BY DEF Recent
  <2>4. \A k \in 0 .. Window - 1 : passed[c][k] \in Nat
    BY <1>7
  <2>5. ASSUME NEW p \in Passes(c)
        PROVE  p \in Passes(c)'
    <3>1. PICK k \in Recent : p \in {k} \X (1 .. passed[c][k])
      BY DEF Passes
    <3>2. 1 .. passed[c][k] \subseteq 1 .. passed'[c][k]
      BY <2>2, <2>3, <2>4
    <3>3. p \in {k} \X (1 .. passed'[c][k])
      BY <3>1, <3>2
    <3>4. Passes(c)' = UNION {{n} \X (1 .. passed'[c][n]) : n \in Recent}
      BY DEF Passes, Recent
    <3>5. QED
      BY <3>3, <3>4
  <2>6. ASSUME NEW p \in Passes(c)', p \notin Passes(c)
        PROVE  p = <<0, passed[c][0] + 1>> /\ ~(entry.count > Max)
    <3>1. Passes(c)' = UNION {{n} \X (1 .. passed'[c][n]) : n \in Recent}
      BY DEF Passes, Recent
    <3>2. PICK k \in Recent : p \in {k} \X (1 .. passed'[c][k])
      BY <3>1
    <3>3. PICK i \in 1 .. passed'[c][k] : p = <<k, i>>
      BY <3>2
    <3>4. i \notin 1 .. passed[c][k]
      BY <2>6, <3>3, PassFields
    <3>5. k = 0 /\ ~(entry.count > Max) /\ i = passed[c][k] + 1
      BY <2>2, <2>3, <2>4, <3>3, <3>4
    <3>6. QED
      BY <3>3, <3>5
  <2>7. Passes(c) \subseteq Passes(c)'
    BY <2>5
  <2>8. Passes(c)' \ Passes(c) \subseteq {<<0, passed[c][0] + 1>>}
    BY <2>6
  <2>9. Counted(clean[c], age).count > Max => Passes(c)' = Passes(c)
    BY <1>5, <2>6, <2>7
  <2>10. clean[c] \in Entry
    OBVIOUS
  <2>11. PICK now \in SUBSET Passes(c)' : Split(now, Passes(c)' \ now, Counted(clean[c], age))
    BY <2>1, <2>7, <2>8, <2>9, <2>10, CountedSplit
  <2>12. table'[c] = Counted(clean[c], age)
    BY <1>5, <1>6
  <2>13. QED
    BY <2>11, <2>12 DEF PassesInv, Split
<1>10. QED
  BY <1>8, <1>9

\* A tick makes every pass a tick older, and drops those that are not recent.
LEMMA TickSplits ==
    ASSUME TypeOK, Tick, NEW c \in Clients, PassesInv(c)
    PROVE  PassesInv(c)'
<1>1. PICK cur \in SUBSET Passes(c) : Split(cur, Passes(c) \ cur, table[c])
  BY DEF PassesInv
<1>2. table[c].count \in 0 .. Max + 1 /\ table[c].left \in -Delay - 1 .. Window
  BY DEF TypeOK, Entry
<1>3. ASSUME NEW p \in Passes(c)'
      PROVE  /\ p \in Int \X Int
             /\ <<p[1] - 1, p[2]>> \in Passes(c)
             /\ p[1] \in Recent
  <2>1. Passes(c)' = UNION {{n} \X (1 .. passed'[c][n]) : n \in Recent}
    BY DEF Passes, Recent
  <2>2. PICK k \in Recent : p \in {k} \X (1 .. passed'[c][k])
    BY <2>1
  <2>3. k \in 0 .. Window - 1 /\ k <= Window - Delay /\ k \in Int
    BY DEF Recent
  <2>4. passed'[c][k] = IF k = 0 THEN 0 ELSE passed[c][k - 1]
    BY <2>3 DEF Tick
  <2>5. k # 0
    BY <2>2, <2>4
  <2>6. k - 1 \in Recent
    BY <2>3, <2>5, Constants DEF Recent
  <2>7. PICK i \in 1 .. passed[c][k - 1] : p = <<k, i>>
    BY <2>2, <2>4, <2>5
  <2>8. i \in Int
    BY <2>7
  <2>9. <<k - 1, i>> \in Passes(c)
    BY <2>6, <2>7, PassFields
  <2>10. QED
    BY <2>3, <2>7, <2>8, <2>9
<1> DEFINE now  == {p \in Passes(c)' : <<p[1] - 1, p[2]>> \in cur}
           then == Passes(c)' \ now
<1>4. IsFiniteSet(now) /\ Cardinality(now) <= Cardinality(cur) /\ Cardinality(now) \in Nat
  <2>1. now \in SUBSET (Int \X Int) /\ \A p \in now : <<p[1] - 1, p[2]>> \in cur
    BY <1>3
  <2>2. IsFiniteSet(cur)
    BY <1>1 DEF Split
  <2> HIDE DEF now
  <2>3. IsFiniteSet(now) /\ Cardinality(now) <= Cardinality(cur)
    BY <2>1, <2>2, OlderNoMore
  <2>4. QED
    BY <2>3, FS_CardinalityType
<1>5. /\ IsFiniteSet(then) /\ Cardinality(then) <= Cardinality(Passes(c) \ cur)
      /\ Cardinality(then) \in Nat
  <2>1. PICK old \in SUBSET Passes(c) : old = Passes(c) \ cur
    OBVIOUS
  <2>2. then \in SUBSET (Int \X Int) /\ \A p \in then : <<p[1] - 1, p[2]>> \in old
    BY <1>3, <2>1
  <2>3. IsFiniteSet(old)
    BY <1>1, <2>1 DEF Split
  <2> HIDE DEF then
  <2>4. IsFiniteSet(then) /\ Cardinality(then) <= Cardinality(old)
    BY <2>2, <2>3, OlderNoMore
  <2>5. QED
    BY <2>1, <2>4, FS_CardinalityType
<1>6. table'[c] = IF table[c].count = 0 THEN Unknown
                  ELSE [table[c] EXCEPT !.left = Down(@, -Delay - 1)]
  BY DEF Tick
<1>7. table'[c].count = table[c].count
  BY <1>6 DEF Unknown, TypeOK, Entry
<1>8. ASSUME table[c].count > 0, NEW p \in then
      PROVE  p[1] >= Window - table'[c].left - Delay
  <2>1. <<p[1] - 1, p[2]>> \in Passes(c) \ cur
    BY <1>3
  <2>2. p[1] - 1 >= Window - table[c].left - Delay
    BY <1>1, <1>8, <2>1 DEF Split
  <2>3. p[1] \in Int /\ p[1] <= Window - Delay
    BY <1>3 DEF Recent
  <2>4. table'[c].left = Down(table[c].left, -Delay - 1)
    BY <1>2, <1>6, <1>8 DEF TypeOK, Entry
  <2>5. QED
    BY <1>2, <2>2, <2>3, <2>4, Constants DEF Down
<1>9. Split(now, then, table'[c])
  <2>1. /\ Cardinality(cur) <= table[c].count /\ Cardinality(cur) <= Max
        /\ Cardinality(Passes(c) \ cur) <= Max
        /\ Cardinality(cur) \in Nat /\ Cardinality(Passes(c) \ cur) \in Nat
    BY <1>1, FS_CardinalityType DEF Split
  <2> HIDE DEF now, then
  <2>2. QED
    BY <1>2, <1>4, <1>5, <1>7, <1>8, <2>1, Constants DEF Split
<1>10. now \in SUBSET Passes(c)' /\ then = Passes(c)' \ now
  OBVIOUS
<1> HIDE DEF now, then
<1>11. QED
  BY <1>9, <1>10 DEF PassesInv, Split

\* A step that leaves the table and its passes as they are keeps them split.
LEMMA PassesKept ==
    ASSUME NEW c \in Clients, PassesInv(c), table' = table, passed' = passed
    PROVE  PassesInv(c)'
<1>1. Passes(c)' = Passes(c)
  BY DEF Passes
<1>2. QED
  BY <1>1 DEF PassesInv, Split

\* A new table has let nothing through.
LEMMA NothingPassed ==
    ASSUME NEW c \in Clients, table[c] = Unknown, passed = NoneYet
    PROVE  PassesInv(c)
<1>1. ASSUME NEW p \in Passes(c) PROVE FALSE
  <2>1. PICK k \in Recent : p \in {k} \X (1 .. passed[c][k])
    BY DEF Passes
  <2>2. passed[c][k] = 0
    BY DEF NoneYet, Recent
  <2>3. QED
    BY <2>1, <2>2
<1>2. Passes(c) = {}
  BY <1>1
<1>3. Split({}, {}, Unknown)
  BY FS_EmptySet, Constants DEF Split, Unknown
<1>4. Passes(c) \ {} = {} /\ {} \in SUBSET Passes(c)
  BY <1>2
<1>5. QED
  BY <1>3, <1>4 DEF PassesInv

\* The passes of every client are split over two windows in every reachable
\* state.
THEOREM PassesSplit == Spec => [](\A c \in Clients : PassesInv(c))
<1> DEFINE PInv == \A c \in Clients : PassesInv(c)
           Anew == passed = NoneYet /\ \A c \in Clients : table[c] = Unknown
<1>1. Anew => PInv
  BY NothingPassed
<1>2. ASSUME TypeOK, PInv, [Next]_vars PROVE PInv'
  <2>1. ASSUME NEW q \in Requests, CheckLocal(q) PROVE PInv'
    BY <1>2, <2>1, CheckLocalSplits
  <2>2. CASE Tick
    BY <1>2, <2>2, TickSplits
  <2>3. CASE Restart
    <3>1. Anew'
      BY <2>3 DEF Restart, NoneYet, Unknown
    <3>2. QED
      BY <1>1, <3>1, PTL
  <2>4. ASSUME \/ UNCHANGED vars
               \/ \E q \in Requests : Arrive(q) \/ Incr(q) \/ Expire(q) \/ Ttl(q) \/ Fail(q)
        PROVE  table' = table /\ passed' = passed
    BY <2>4 DEF vars, Arrive, Incr, Expire, Ttl, Fail
  <2>5. QED
    BY <1>2, <2>1, <2>2, <2>3, <2>4, PassesKept DEF Next, Proceed
<1>3. Init => Anew
  BY DEF Init
<1>4. QED
  BY <1>1, <1>2, <1>3, TypeCorrect, PTL DEF Spec

\* The table lets a client through for two windows at the most within one, for
\* any limit, window and longest stay on Redis.
THEOREM TwoWindowsHold == Spec => []TwoWindowsAtMost
<1>1. ASSUME \A c \in Clients : PassesInv(c), NEW c \in Clients
      PROVE  Cardinality(Passes(c)) <= 2 * Max
  <2>1. PICK cur \in SUBSET Passes(c) : Split(cur, Passes(c) \ cur, table[c])
    BY <1>1 DEF PassesInv
  <2>2. PICK old \in SUBSET Passes(c) : old = Passes(c) \ cur
    OBVIOUS
  <2>3. /\ IsFiniteSet(cur) /\ Cardinality(cur) <= Max
        /\ IsFiniteSet(old) /\ Cardinality(old) <= Max
    BY <2>1, <2>2 DEF Split
  <2>4. Cardinality(cur) \in Nat /\ Cardinality(old) \in Nat
    BY <2>3, FS_CardinalityType
  <2>5. Cardinality(cur \cup old) = Cardinality(cur) + Cardinality(old)
    BY <2>2, <2>3, DisjointUnion
  <2>6. Passes(c) = cur \cup old
    BY <2>2
  <2>7. QED
    BY <2>3, <2>4, <2>5, <2>6, Constants
<1>2. (\A c \in Clients : PassesInv(c)) => TwoWindowsAtMost
  BY <1>1 DEF TwoWindowsAtMost
<1>3. QED
  BY <1>2, PassesSplit, PTL
=============================================================================
