----------------------------- MODULE RateLimiter -----------------------------
(***************************************************************************)
(* The rate limiter of one API process.  A request is counted in Redis by  *)
(* INCR, EXPIRE (by the request that created the counter) and TTL, three   *)
(* commands that no transaction binds.  When any of them fails the request *)
(* is counted in a table of the process instead, at the time it arrived.   *)
(*                                                                         *)
(* Times are kept relative to the present: what is left of a window, how   *)
(* long ago a request came.  A request spends at most Delay ticks on Redis *)
(* (the dial timeout and the connection deadline).  Counts above Max are   *)
(* alike.  lost, promise and passed are history, no guard reads them.      *)
(***************************************************************************)
EXTENDS Integers, FiniteSets

CONSTANTS
    Clients,    \* IP addresses
    Requests,   \* requests that can be in the limiter at the same time
    Max,        \* RATE_LIMIT_MAX_REQUESTS, limiting is on
    Window,     \* RATE_LIMIT_WINDOW in ticks
    Delay       \* the longest stay of a request on Redis in ticks

ASSUME LimitAssumption  == Max \in Nat \ {0}
ASSUME WindowAssumption == Window \in Nat \ {0} /\ Delay \in Nat

VARIABLES
    counter,    \* the Redis keys rate_limit:<client>
    table,      \* visitors
    swept,      \* ticks since lastCleanup
    req,        \* the requests in the limiter
    lost,       \* history: the creator of this counter cannot give it an expiry any more
    promise,    \* history: ticks left of the soonest Retry-After sent for this counter
    passed      \* history: requests the table let through, by how long ago

vars == <<counter, table, swept, req, lost, promise, passed>>

-----------------------------------------------------------------------------
(* Counters, table entries and requests *)

\* What the TTL command answers for no key and for a key without an expiry.
NoKey     == -2
NoExpiry  == -1
NoPromise == Window + 1

Absent  == [count |-> 0, ttl |-> NoKey]
Exists(c) == counter[c] # Absent

\* A visitor that is not in the table has the zero count.
Unknown == [count |-> 0, left |-> 0]
NoneYet == [c \in Clients |-> [k \in 0 .. Window - 1 |-> 0]]

Idle == [op |-> "idle"]

Init ==
    /\ counter = [c \in Clients |-> Absent]
    /\ table   = [c \in Clients |-> Unknown]
    /\ swept   = 0
    /\ req     = [q \in Requests |-> Idle]
    /\ lost    = [c \in Clients |-> FALSE]
    /\ promise = [c \in Clients |-> NoPromise]
    /\ passed  = NoneYet

Become(q, r) == req' = [req EXCEPT ![q] = r]

OneMore(n) == IF n > Max THEN n ELSE n + 1

-----------------------------------------------------------------------------
(* The count in Redis *)

\* The limiter takes the time, then goes to the store.
Arrive(q) ==
    /\ req[q] = Idle
    /\ \E c \in Clients : Become(q, [op |-> "incr", client |-> c, age |-> 0])
    /\ UNCHANGED <<counter, table, swept, lost, promise, passed>>

\* INCR creates the key without an expiry.
Incremented(c) ==
    [count |-> OneMore(counter[c].count),
     ttl   |-> IF Exists(c) THEN counter[c].ttl ELSE NoExpiry]

\* Mutant: the expiry is set again by every request.
ExpiresAlways(count) == TRUE

\* Mutant: the expiry is set when the limit is reached.
ExpiresAtLimit(count) == count = Max

SetsExpiry(count) == count = 1

Incr(q) ==
    /\ req[q].op = "incr"
    /\ LET c   == req[q].client
           key == Incremented(c)
       IN  /\ counter' = [counter EXCEPT ![c] = key]
           /\ Become(q, [op     |-> IF SetsExpiry(key.count) THEN "expire" ELSE "ttl",
                         client |-> c,
                         age    |-> req[q].age,
                         count  |-> key.count])
    /\ UNCHANGED <<table, swept, lost, promise, passed>>

\* Mutant: the window is rounded up to the next second.
ExpiringRounded(c) == IF Exists(c) THEN [counter[c] EXCEPT !.ttl = Window + 1] ELSE Absent

Expiring(c) == IF Exists(c) THEN [counter[c] EXCEPT !.ttl = Window] ELSE Absent

Expire(q) ==
    /\ req[q].op = "expire"
    /\ counter' = [counter EXCEPT ![req[q].client] = Expiring(req[q].client)]
    /\ Become(q, [req[q] EXCEPT !.op = "ttl"])
    /\ UNCHANGED <<table, swept, lost, promise, passed>>

\* Mutant: a client refused on a counter without expiry may come back at once.
ToldNothing(ttl) == IF ttl < 0 THEN 0 ELSE ttl

Told(ttl) == IF ttl < 0 THEN Window ELSE ttl

Sooner(a, b) == IF a < b THEN a ELSE b

\* TTL, then the answer: pass, or 429 with Retry-After.
Ttl(q) ==
    /\ req[q].op = "ttl"
    /\ LET c == req[q].client
       IN  promise' = [promise EXCEPT ![c] =
               IF req[q].count > Max /\ Exists(c)
                 THEN Sooner(@, Told(counter[c].ttl)) ELSE @]
    /\ Become(q, Idle)
    /\ UNCHANGED <<counter, table, swept, lost, passed>>

\* An error at any command: refused, cut off, timed out or cancelled.  The
\* command has taken effect or not, what follows it is never sent.
Fail(q) ==
    /\ req[q].op \in {"incr", "expire", "ttl"}
    /\ LET c == req[q].client
       IN  /\ \/ /\ req[q].op # "expire"
                 /\ UNCHANGED <<counter, lost>>
              \/ /\ req[q].op = "incr"
                 /\ counter' = [counter EXCEPT ![c] = Incremented(c)]
                 /\ lost' = [lost EXCEPT ![c] = @ \/ ~Exists(c)]
              \/ /\ req[q].op = "expire"
                 /\ lost' = [lost EXCEPT ![c] = @ \/ counter[c].ttl = NoExpiry]
                 /\ UNCHANGED counter
              \/ /\ req[q].op = "expire"
                 /\ counter' = [counter EXCEPT ![c] = Expiring(c)]
                 /\ UNCHANGED lost
           /\ Become(q, [op |-> "local", client |-> c, age |-> req[q].age])
    /\ UNCHANGED <<table, swept, promise, passed>>

-----------------------------------------------------------------------------
(* The count in the process *)

\* now.After(ResetTime), for the now of a request that came age ticks ago.
Over(entry, age) == entry.left + age < 0

\* The cleanup, once a window: visitors whose window is over are dropped.
Sweep(age) ==
    [c \in Clients |->
        IF swept - age > Window /\ Over(table[c], age) THEN Unknown ELSE table[c]]

\* Mutant: windows end when the cleanup is due, not a window after they began.
CountedAligned(entry, age) ==
    IF entry.count = 0 \/ Over(entry, age)
      THEN [count |-> 1, left |-> Window - swept]
      ELSE [entry EXCEPT !.count = OneMore(@)]

Counted(entry, age) ==
    IF entry.count = 0 \/ Over(entry, age)
      THEN [count |-> 1, left |-> Window - age]
      ELSE [entry EXCEPT !.count = OneMore(@)]

\* One critical section: clean up, find or start the window, count, decide.
CheckLocal(q) ==
    /\ req[q].op = "local"
    /\ LET c     == req[q].client
           age   == req[q].age
           entry == Counted(Sweep(age)[c], age)
       IN  /\ table'  = [Sweep(age) EXCEPT ![c] = entry]
           /\ swept'  = IF swept - age > Window THEN age ELSE swept
           /\ passed' = [passed EXCEPT ![c][0] =
                            IF entry.count > Max THEN @ ELSE @ + 1]
    /\ Become(q, Idle)
    /\ UNCHANGED <<counter, lost, promise>>

-----------------------------------------------------------------------------
(* Time and restarts *)

Down(n, least) == IF n > least THEN n - 1 ELSE least

Tick ==
    /\ \A q \in Requests : req[q] # Idle => req[q].age < Delay
    /\ req' = [q \in Requests |->
                  IF req[q] = Idle THEN Idle ELSE [req[q] EXCEPT !.age = @ + 1]]
    /\ counter' = [c \in Clients |->
                      CASE counter[c].ttl < 0 -> counter[c]
                        [] counter[c].ttl = 1 -> Absent
                        [] OTHER              -> [counter[c] EXCEPT !.ttl = @ - 1]]
    /\ promise' = [c \in Clients |->
                      IF promise[c] = NoPromise \/ counter[c].ttl = 1
                        THEN NoPromise ELSE Down(promise[c], -Delay)]
    /\ table' = [c \in Clients |->
                    IF table[c].count = 0 THEN Unknown
                      ELSE [table[c] EXCEPT !.left = Down(@, -Delay - 1)]]
    /\ swept' = IF swept > Window + Delay THEN swept ELSE swept + 1
    /\ passed' = [c \in Clients |-> [k \in 0 .. Window - 1 |->
                    IF k = 0 THEN 0 ELSE passed[c][k - 1]]]
    /\ UNCHANGED lost

\* The process starts anew; Redis keeps its counters.
Restart ==
    /\ req'    = [q \in Requests |-> Idle]
    /\ table'  = [c \in Clients |-> Unknown]
    /\ swept'  = 0
    /\ passed' = NoneYet
    /\ lost'   = [c \in Clients |->
                     \/ lost[c]
                     \/ \E q \in Requests :
                            /\ req[q].op = "expire"
                            /\ req[q].client = c
                            /\ counter[c].ttl = NoExpiry]
    /\ UNCHANGED <<counter, promise>>

Proceed(q) == Incr(q) \/ Expire(q) \/ Ttl(q) \/ Fail(q) \/ CheckLocal(q)

Next ==
    \/ \E q \in Requests : Arrive(q) \/ Proceed(q)
    \/ Tick
    \/ Restart

Spec == Init /\ [][Next]_vars

\* Every command has a deadline, and time goes on.
FairSpec == Spec /\ WF_vars(Tick) /\ \A q \in Requests : WF_vars(Proceed(q))

-----------------------------------------------------------------------------
(* Properties *)

Key   == {Absent} \cup [count : 1 .. Max + 1, ttl : {NoExpiry} \cup 1 .. Window]
Entry == [count : 0 .. Max + 1, left : -Delay - 1 .. Window]
Task  == [op : {"incr", "local"}, client : Clients, age : 0 .. Delay]
         \cup [op : {"expire", "ttl"}, client : Clients, age : 0 .. Delay,
               count : 1 .. Max + 1]

\* Every counter, table entry, request and record is well formed.
TypeOK ==
    /\ counter \in [Clients -> Key]
    /\ table \in [Clients -> Entry]
    /\ swept \in 0 .. Window + Delay + 1
    /\ req \in [Requests -> {Idle} \cup Task]
    /\ lost \in [Clients -> BOOLEAN]
    /\ promise \in [Clients -> -Delay .. Window + 1]
    /\ passed \in [Clients -> [0 .. Window - 1 -> Nat]]

\* A counter without an expiry never goes away: whoever created it is about
\* to send EXPIRE, unless its connection failed or the process died first
\* (RedisRateLimitStore.Increment).
ExpiryIsOwed ==
    \A c \in Clients :
        counter[c].ttl = NoExpiry =>
            \/ lost[c]
            \/ \E q \in Requests : req[q].op = "expire" /\ req[q].client = c

\* A client that waits as long as Retry-After said finds a new counter,
\* whatever other requests did between INCR, EXPIRE and TTL.  Only a counter
\* without expiry may break it, and the one whose EXPIRE came late does by
\* less than the time a request may spend on Redis.
RetryAfterIsKept ==
    \A c \in Clients : lost[c] \/ promise[c] > -Delay

\* The last Window ticks, less what a request may spend on Redis beyond a tick.
Recent == {k \in 0 .. Window - 1 : k <= Window - Delay}

\* The requests of c the table let through in that time, a pair for each.
Passes(c) == UNION {{k} \X (1 .. passed[c][k]) : k \in Recent}

\* In that time the process's own table lets a client through for two windows
\* at the most, though requests are counted late, in another order than they
\* came, and entries are cleaned up between.
TwoWindowsAtMost == \A c \in Clients : Cardinality(Passes(c)) <= 2 * Max

\* A counter that is over the limit goes away, even when the client never
\* stops asking, unless its expiry was lost.
RefusedIsReadmitted ==
    \A c \in Clients : counter[c].count > Max ~> (~Exists(c) \/ lost[c])
=============================================================================
