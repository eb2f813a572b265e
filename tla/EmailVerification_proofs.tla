----------------------- MODULE EmailVerification_proofs -----------------------
(***************************************************************************)
(* The number of wrong guesses on a code and of codes sent in a cooldown   *)
(* are bounded by the requests in flight, for any limit and any number of  *)
(* accounts and requests.                                                  *)
(***************************************************************************)
EXTENDS EmailVerification, FiniteSetTheorems, TLAPS

\* Requests that have compared a wrong guess with the present code of u.
Counting(u) ==
    {q \in Requests : /\ req[q].op = "count"
                      /\ req[q].user = u
                      /\ req[q].code = user[u].code}

\* Requests that have yet to save a code for u.
Saving(u) == {q \in Requests : req[q].op = "save" /\ req[q].user = u}

\* Every wrong guess on the present code is counted, lost, or in flight.
GuessesAccounted ==
    \A u \in Users : user[u].code # 0 =>
        wrong[u] <= user[u].attempts + lost[u] + Cardinality(Counting(u))

\* A code saved in a cooldown, or about to be, was asked for before it.
SendsAccounted ==
    \A u \in Users :
        IF Exists(u) /\ user[u].cooling
        THEN sent[u] + Cardinality(Saving(u)) <= Cardinality(Requests)
        ELSE sent[u] = 0

\* A request about to mark an unverified account was given the right code for
\* the address that the account still has.
MarksAgree ==
    \A q \in Requests, u \in Users :
        req[q].op = "mark" /\ req[q].user = u /\ ~user[u].verified =>
            req[q].address = email[u]

IInv ==
    TypeOK /\ GuessesAccounted /\ SendsAccounted /\ WrongGuessesBounded /\ MarksAgree

-----------------------------------------------------------------------------
(* Lemmas *)

\* Sets of requests are finite and no larger than Requests.
LEMMA RequestSets ==
    ASSUME NEW S \in SUBSET Requests
    PROVE  /\ IsFiniteSet(S)
           /\ Cardinality(S) \in Nat
           /\ Cardinality(Requests) \in Nat
           /\ Cardinality(S) <= Cardinality(Requests)
           /\ \A q \in S : Cardinality(S \ {q}) = Cardinality(S) - 1
           /\ \A q \in Requests \ S : Cardinality(S \cup {q}) = Cardinality(S) + 1
           /\ \A q \in Requests \ S : Cardinality(S) + 1 <= Cardinality(Requests)
<1>1. /\ IsFiniteSet(S) /\ Cardinality(S) <= Cardinality(Requests)
      /\ Cardinality(S) \in Nat /\ Cardinality(Requests) \in Nat
  BY RequestsAssumption, FS_Subset, FS_CardinalityType
<1>2. \A q \in S : Cardinality(S \ {q}) = Cardinality(S) - 1
  BY <1>1, FS_RemoveElement
<1>3. \A q \in Requests \ S : Cardinality(S \cup {q}) = Cardinality(S) + 1
  BY <1>1, FS_AddElement
<1>4. ASSUME NEW q \in Requests \ S
      PROVE  Cardinality(S) + 1 <= Cardinality(Requests)
  <2>1. S \cup {q} \in SUBSET Requests
    OBVIOUS
  <2>2. Cardinality(S \cup {q}) <= Cardinality(Requests)
    BY <2>1, RequestsAssumption, FS_Subset
  <2>3. QED
    BY <1>3, <1>4, <2>2
<1>5. QED
  BY <1>1, <1>2, <1>3, <1>4

\* The fields of a request's task have the types its operation gives them.
LEMMA TaskFields ==
    ASSUME TypeOK, NEW q \in Requests
    PROVE  /\ req[q].op \in {"idle", "save", "mark", "count"}
           /\ req[q].op # "idle" => req[q].user \in Users /\ Exists(req[q].user)
           /\ req[q].op = "count" => req[q].code \in 1 .. MaxCodes
           /\ req[q].op \in {"save", "mark"} => req[q].address \in Addresses
<1>1. req[q] \in Task \cup {Idle}
  BY DEF TypeOK
<1>2. QED
  BY <1>1 DEF TypeOK, Task, Idle

\* The row of an account that exists, and the code of one that does not.
LEMMA RowFields ==
    ASSUME TypeOK, NEW u \in Users
    PROVE  /\ Exists(u) <=> user[u] \in Row
           /\ ~Exists(u) => user[u].code = 0
           /\ user[u].code \in 0 .. MaxCodes
           /\ Exists(u) => user[u].attempts \in Nat /\ user[u].cooling \in BOOLEAN
<1>1. Absent \notin Row
  BY DEF Absent, Row
<1>2. QED
  BY <1>1, MaxCodesAssumption DEF TypeOK, Exists, Row, Absent

\* The tasks that name the present address of an account that exists.
LEMMA TasksWritten ==
    ASSUME TypeOK, NEW u \in Users, Exists(u)
    PROVE  SaveFor(u, email[u]) \in Task /\ MarkFor(u, email[u]) \in Task
<1>1. email[u] \in Addresses
  BY DEF TypeOK
<1>2. QED
  BY <1>1 DEF Task, SaveFor, MarkFor

\* Moving one request on moves only that request.
LEMMA ReqMoved ==
    ASSUME TypeOK, NEW q \in Requests, NEW t \in Task \cup {Idle}, Become(q, t)
    PROVE  /\ req' \in [Requests -> Task \cup {Idle}]
           /\ req'[q] = t
           /\ \A o \in Requests : o # q => req'[o] = req[o]
BY DEF TypeOK, Become

\* A request in flight is about an account that still exists.
LEMMA InFlightExist ==
    ASSUME TypeOK, NEW q \in Requests, NEW t \in Task \cup {Idle}, Become(q, t),
           t # Idle => (t.user \in Users /\ Exists(t.user)'),
           \A u \in Users : Exists(u) => Exists(u)'
    PROVE  (\A o \in Requests : req[o] # Idle => Exists(req[o].user))'
<1>1. SUFFICES ASSUME NEW o \in Requests, req'[o] # Idle
               PROVE  user'[req'[o].user] # Absent
  BY DEF Exists
<1>2. CASE o = q
  <2>1. req'[o] = t
    BY <1>2, ReqMoved
  <2>2. QED
    BY <1>1, <2>1 DEF Exists
<1>3. CASE o # q
  <2>1. req'[o] = req[o] /\ req[o] # Idle
    BY <1>1, <1>3, ReqMoved
  <2>2. PICK u \in Users : u = req[o].user
    BY <2>1 DEF TypeOK, Task
  <2>3. user[u] # Absent
    BY <2>1, <2>2 DEF TypeOK, Exists
  <2>4. user'[u] # Absent
    BY <2>3 DEF Exists
  <2>5. QED
    BY <2>1, <2>2, <2>4
<1>4. QED
  BY <1>2, <1>3

\* A set of requests that q joins, or else that q is not left in.
LEMMA SetMoved ==
    ASSUME NEW C \in SUBSET Requests, NEW N, NEW q \in Requests,
           N = C \cup {q} \/ N = C \ {q}
    PROVE  /\ Cardinality(C) \in Nat /\ Cardinality(N) \in Nat
           /\ Cardinality(Requests) \in Nat
           /\ Cardinality(C) <= Cardinality(Requests)
           /\ Cardinality(N) >= Cardinality(C) - 1
           /\ q \notin C => Cardinality(N) >= Cardinality(C)
           /\ q \notin C => Cardinality(C) + 1 <= Cardinality(Requests)
           /\ (q \notin C /\ q \in N) => Cardinality(N) = Cardinality(C) + 1
           /\ q \notin N => Cardinality(N) <= Cardinality(C)
           /\ (q \in C /\ q \notin N) => Cardinality(N) = Cardinality(C) - 1
<1>1. /\ Cardinality(C) \in Nat /\ Cardinality(Requests) \in Nat
      /\ Cardinality(C) <= Cardinality(Requests)
      /\ q \in C => Cardinality(C \ {q}) = Cardinality(C) - 1
      /\ q \notin C => Cardinality(C \cup {q}) = Cardinality(C) + 1
      /\ q \notin C => Cardinality(C) + 1 <= Cardinality(Requests)
  BY RequestSets
<1>2. N \in SUBSET Requests
  OBVIOUS
<1>3. Cardinality(N) \in Nat
  BY <1>2, RequestSets
<1>4. CASE N = C
  BY <1>1, <1>4
<1>5. CASE q \in C /\ N = C \ {q}
  BY <1>1, <1>3, <1>5
<1>6. CASE q \notin C /\ N = C \cup {q}
  BY <1>1, <1>3, <1>6
<1>7. N = C \/ (q \in C /\ N = C \ {q}) \/ (q \notin C /\ N = C \cup {q})
  OBVIOUS
<1>8. QED
  BY <1>4, <1>5, <1>6, <1>7

\* Moving q on moves only q in and out of the guesses in flight.
LEMMA CountingMoved ==
    ASSUME TypeOK, NEW q \in Requests, NEW t \in Task \cup {Idle}, Become(q, t),
           NEW u \in Users, user'[u].code = user[u].code
    PROVE  \E C \in SUBSET Requests, N \in SUBSET Requests :
               /\ C = Counting(u)
               /\ N = Counting(u)'
               /\ (N = C \cup {q}) \/ (N = C \ {q})
               /\ q \in C <=>
                    req[q].op = "count" /\ req[q].user = u /\ req[q].code = user[u].code
               /\ q \in N <=>
                    t.op = "count" /\ t.user = u /\ t.code = user[u].code
<1>1. /\ req'[q] = t
      /\ \A o \in Requests : o # q => req'[o] = req[o]
  BY ReqMoved
<1>2. Counting(u)' =
        {o \in Requests : /\ req'[o].op = "count"
                          /\ req'[o].user = u
                          /\ req'[o].code = user'[u].code}
  BY DEF Counting
<1>3. PICK C \in SUBSET Requests : C = Counting(u)
  BY DEF Counting
<1>4. PICK N \in SUBSET Requests : N = Counting(u)'
  BY <1>2
<1>5. (N = C \cup {q}) \/ (N = C \ {q})
  <2>1. \A o \in Requests : o # q => (o \in N <=> o \in C)
    BY <1>1, <1>2, <1>3, <1>4 DEF Counting
  <2>2. QED
    BY <2>1
<1>6. QED
  BY <1>1, <1>2, <1>3, <1>4, <1>5 DEF Counting

\* Moving q on moves only q in and out of the saves in flight.
LEMMA SavingMoved ==
    ASSUME TypeOK, NEW q \in Requests, NEW t \in Task \cup {Idle}, Become(q, t),
           NEW u \in Users
    PROVE  \E C \in SUBSET Requests, N \in SUBSET Requests :
               /\ C = Saving(u)
               /\ N = Saving(u)'
               /\ (N = C \cup {q}) \/ (N = C \ {q})
               /\ q \in C <=> req[q].op = "save" /\ req[q].user = u
               /\ q \in N <=> t.op = "save" /\ t.user = u
<1>1. /\ req'[q] = t
      /\ \A o \in Requests : o # q => req'[o] = req[o]
  BY ReqMoved
<1>2. Saving(u)' = {o \in Requests : req'[o].op = "save" /\ req'[o].user = u}
  BY DEF Saving
<1>3. PICK C \in SUBSET Requests : C = Saving(u)
  BY DEF Saving
<1>4. PICK N \in SUBSET Requests : N = Saving(u)'
  BY <1>2
<1>5. (N = C \cup {q}) \/ (N = C \ {q})
  <2>1. \A o \in Requests : o # q => (o \in N <=> o \in C)
    BY <1>1, <1>2, <1>3, <1>4 DEF Saving
  <2>2. QED
    BY <2>1
<1>6. QED
  BY <1>1, <1>2, <1>3, <1>4, <1>5 DEF Saving

\* A step that leaves an account's code, counts and guesses in flight alone.
LEMMA GuessesQuiet ==
    ASSUME TypeOK, GuessesAccounted,
           NEW q \in Requests, NEW t \in Task \cup {Idle}, Become(q, t),
           NEW u \in Users,
           user'[u].code = user[u].code, user'[u].attempts = user[u].attempts,
           wrong'[u] = wrong[u], lost'[u] = lost[u],
           ~(req[q].op = "count" /\ req[q].user = u /\ req[q].code = user[u].code)
    PROVE  user'[u].code # 0 =>
               wrong'[u] <= user'[u].attempts + lost'[u] + Cardinality(Counting(u)')
<1>1. PICK C \in SUBSET Requests, N \in SUBSET Requests :
          /\ C = Counting(u)
          /\ N = Counting(u)'
          /\ (N = C \cup {q}) \/ (N = C \ {q})
          /\ q \notin C
  BY CountingMoved
<1>2. /\ Cardinality(C) \in Nat /\ Cardinality(N) \in Nat
      /\ Cardinality(N) >= Cardinality(C)
  BY <1>1, SetMoved
<1>3. SUFFICES ASSUME user[u].code # 0
               PROVE  wrong[u] <= user[u].attempts + lost[u] + Cardinality(N)
  BY <1>1
<1>4. wrong[u] <= user[u].attempts + lost[u] + Cardinality(C)
  BY <1>1, <1>3 DEF GuessesAccounted
<1>5. wrong[u] \in Nat /\ lost[u] \in Nat /\ user[u].attempts \in Nat
  BY <1>3, RowFields DEF TypeOK
<1>6. QED
  BY <1>2, <1>4, <1>5

\* A step that sends nothing and asks for nothing for an account.
LEMMA SendsQuiet ==
    ASSUME TypeOK, SendsAccounted,
           NEW q \in Requests, NEW t \in Task \cup {Idle}, Become(q, t),
           NEW u \in Users,
           Exists(u)' <=> Exists(u), user'[u].cooling = user[u].cooling,
           sent'[u] = sent[u], ~(t.op = "save" /\ t.user = u)
    PROVE  IF Exists(u)' /\ user'[u].cooling
           THEN sent'[u] + Cardinality(Saving(u)') <= Cardinality(Requests)
           ELSE sent'[u] = 0
<1>1. PICK C \in SUBSET Requests, N \in SUBSET Requests :
          /\ C = Saving(u)
          /\ N = Saving(u)'
          /\ (N = C \cup {q}) \/ (N = C \ {q})
          /\ q \notin N
  BY SavingMoved
<1>2. /\ Cardinality(C) \in Nat /\ Cardinality(N) \in Nat
      /\ Cardinality(Requests) \in Nat
      /\ Cardinality(N) <= Cardinality(C)
  BY <1>1, SetMoved
<1>3. CASE Exists(u) /\ user[u].cooling
  <2>1. sent[u] + Cardinality(C) <= Cardinality(Requests)
    BY <1>1, <1>3 DEF SendsAccounted
  <2>2. sent[u] \in Nat
    BY DEF TypeOK
  <2>3. sent[u] + Cardinality(N) <= Cardinality(Requests)
    BY <1>2, <2>1, <2>2
  <2>4. QED
    BY <1>1, <1>3, <2>3
<1>4. CASE ~(Exists(u) /\ user[u].cooling)
  BY <1>4 DEF SendsAccounted
<1>5. QED
  BY <1>3, <1>4

-----------------------------------------------------------------------------
(* Types *)

LEMMA InitIInv == Init => IInv
<1> SUFFICES ASSUME Init PROVE IInv
  OBVIOUS
<1>1. TypeOK
  <2>1. user \in [Users -> Row \cup {Absent}] /\ drawn \in [Users -> 0 .. MaxCodes]
    BY MaxCodesAssumption DEF Init
  <2>2. \A u \in Users : Exists(u) => email[u] \in Addresses
    BY DEF Init, Exists
  <2>3. \A q \in Requests : req[q] # Idle => Exists(req[q].user)
    BY DEF Init
  <2>4. QED
    BY <2>1, <2>2, <2>3 DEF Init, TypeOK
<1>2. GuessesAccounted
  BY DEF Init, GuessesAccounted, Absent
<1>3. SendsAccounted
  BY DEF Init, SendsAccounted, Exists
<1>4. WrongGuessesBounded
  <2>1. Cardinality(Requests) \in Nat
    BY RequestsAssumption, FS_CardinalityType
  <2>2. \A u \in Users : wrong[u] = 0 /\ lost[u] = 0
    BY DEF Init
  <2>3. QED
    BY <2>1, <2>2, MaxAttemptsAssumption DEF WrongGuessesBounded
<1>5. MarksAgree
  BY DEF Init, MarksAgree, Idle
<1>6. QED
  BY <1>1, <1>2, <1>3, <1>4, <1>5 DEF IInv

\* The rows that the actions write.
LEMMA RowsWritten ==
    /\ Fresh \in Row
    /\ [Fresh EXCEPT !.verified = TRUE] \in Row
    /\ Absent \notin Row
    /\ \A r \in Row :
        /\ [r EXCEPT !.attempts = r.attempts + 1] \in Row
        /\ [r EXCEPT !.expired = TRUE] \in Row
        /\ [r EXCEPT !.cooling = FALSE] \in Row
        /\ \A c \in 0 .. MaxCodes : WithCode(r, c) \in Row
<1>1. Fresh \in Row /\ [Fresh EXCEPT !.verified = TRUE] \in Row
  <2>1. 0 \in 0 .. MaxCodes
    BY MaxCodesAssumption
  <2>2. Fresh \in Row
    BY <2>1 DEF Row, Fresh
  <2>3. QED
    BY <2>2 DEF Row
<1>2. Absent \notin Row
  BY DEF Row, Absent
<1>3. ASSUME NEW r \in Row
      PROVE  /\ [r EXCEPT !.attempts = r.attempts + 1] \in Row
             /\ [r EXCEPT !.expired = TRUE] \in Row
             /\ [r EXCEPT !.cooling = FALSE] \in Row
  <2>1. r.attempts + 1 \in Nat
    BY DEF Row
  <2>2. [r EXCEPT !.attempts = r.attempts + 1] \in Row
    BY <2>1 DEF Row
  <2>3. [r EXCEPT !.expired = TRUE] \in Row
    BY DEF Row
  <2>4. [r EXCEPT !.cooling = FALSE] \in Row
    BY DEF Row
  <2>5. QED
    BY <2>2, <2>3, <2>4
<1>4. ASSUME NEW r \in Row, NEW c \in 0 .. MaxCodes PROVE WithCode(r, c) \in Row
  BY DEF Row, WithCode
<1>5. QED
  BY <1>1, <1>2, <1>3, <1>4

\* An account has an address from the moment that it exists.
LEMMA AddressesNext ==
    ASSUME TypeOK, [Next]_vars
    PROVE  /\ email'  \in [Users -> Addresses \cup {NoAddress}]
           /\ hashed' \in [Users -> Addresses \cup {NoAddress}]
           /\ \A u \in Users : Exists(u)' => email'[u] \in Addresses
<1> DEFINE Goal == /\ email'  \in [Users -> Addresses \cup {NoAddress}]
                   /\ hashed' \in [Users -> Addresses \cup {NoAddress}]
                   /\ \A u \in Users : Exists(u)' => email'[u] \in Addresses
<1>1. ASSUME NEW q \in Requests, Register(q)
      PROVE Goal
  BY <1>1 DEF Register, TypeOK, Exists
<1>2. ASSUME NEW q \in Requests, SaveEmailVerification(q)
      PROVE Goal
  <2>1. req[q].address \in Addresses
    BY <1>2, TaskFields DEF SaveEmailVerification
  <2>2. PICK u \in Users : u = req[q].user /\ Exists(u)
    BY <1>2, TaskFields DEF SaveEmailVerification
  <2>3. /\ user' = [user EXCEPT ![u] = WithCode(user[u], drawn[u] + 1)]
        /\ hashed' = [hashed EXCEPT ![u] = req[q].address]
        /\ email' = email
    BY <1>2, <2>2 DEF SaveEmailVerification
  <2>4. QED
    BY <2>1, <2>2, <2>3 DEF TypeOK, Exists
<1>3. ASSUME NEW q \in Requests, MarkEmailVerified(q)
      PROVE Goal
  <2>1. PICK u \in Users : u = req[q].user /\ Exists(u)
    BY <1>3, TaskFields DEF MarkEmailVerified
  <2>2. /\ user' = [user EXCEPT ![u] = [Fresh EXCEPT !.verified = TRUE]]
        /\ hashed' = [hashed EXCEPT ![u] = NoAddress]
        /\ email' = email
    BY <1>3, <2>1 DEF MarkEmailVerified
  <2>3. QED
    BY <2>1, <2>2 DEF TypeOK, Exists
<1>4. ASSUME NEW q \in Requests, IncrementEmailVerificationAttempts(q)
      PROVE Goal
  <2>1. PICK u \in Users : u = req[q].user /\ Exists(u)
    BY <1>4, TaskFields DEF IncrementEmailVerificationAttempts
  <2>2. /\ user' = [user EXCEPT ![u] = [user[u] EXCEPT !.attempts = user[u].attempts + 1]]
        /\ hashed' = hashed
        /\ email' = email
    BY <1>4, <2>1 DEF IncrementEmailVerificationAttempts
  <2>3. QED
    BY <2>1, <2>2 DEF TypeOK, Exists
<1>5. CASE UpdateProfile
  BY <1>5 DEF UpdateProfile, TypeOK, Exists
<1>6. CASE CodeExpires
  <2>1. PICK u \in Users :
            /\ Exists(u)
            /\ user' = [user EXCEPT ![u] = [user[u] EXCEPT !.expired = TRUE]]
    BY <1>6, RowFields DEF CodeExpires
  <2>2. UNCHANGED <<email, hashed>>
    BY <1>6 DEF CodeExpires
  <2>3. QED
    BY <2>1, <2>2 DEF TypeOK, Exists
<1>7. CASE CooldownEnds
  <2>1. PICK u \in Users :
            /\ Exists(u)
            /\ user' = [user EXCEPT ![u] = [user[u] EXCEPT !.cooling = FALSE]]
    BY <1>7 DEF CooldownEnds
  <2>2. UNCHANGED <<email, hashed>>
    BY <1>7 DEF CooldownEnds
  <2>3. QED
    BY <2>1, <2>2 DEF TypeOK, Exists
<1>8. ASSUME UNCHANGED <<user, email, hashed>>
      PROVE Goal
  BY <1>8 DEF TypeOK, Exists
<1>9. ASSUME NEW q \in Requests,
             \/ ResendEmailVerification(q) \/ VerifyRightCode(q) \/ VerifyWrongCode(q)
             \/ Abandon(q) \/ LoseCount(q)
      PROVE  UNCHANGED <<user, email, hashed>>
  BY <1>9 DEF ResendEmailVerification, VerifyRightCode, VerifyWrongCode, Abandon, LoseCount
<1>10. CASE UNCHANGED vars
  BY <1>8, <1>10 DEF vars
<1>11. QED
  BY <1>1, <1>2, <1>3, <1>4, <1>5, <1>6, <1>7, <1>8, <1>9, <1>10 DEF Next

LEMMA TypeNext == TypeOK /\ [Next]_vars => TypeOK'
<1> SUFFICES ASSUME TypeOK, [Next]_vars PROVE TypeOK'
  OBVIOUS
<1>0. /\ email'  \in [Users -> Addresses \cup {NoAddress}]
      /\ hashed' \in [Users -> Addresses \cup {NoAddress}]
      /\ \A u \in Users : Exists(u)' => email'[u] \in Addresses
  BY AddressesNext
<1>1. ASSUME NEW q \in Requests, Register(q) PROVE TypeOK'
  <2>1. PICK u \in Users, a \in Addresses :
            /\ ~Exists(u)
            /\ user' = [user EXCEPT ![u] = Fresh]
            /\ Become(q, SaveFor(u, a))
    BY <1>1 DEF Register
  <2>2. PICK t \in Task \cup {Idle} : t = SaveFor(u, a)
    BY DEF Task, SaveFor
  <2>3. Become(q, t) /\ t.user = u
    BY <2>1, <2>2 DEF SaveFor
  <2>4. user' \in [Users -> Row \cup {Absent}] /\ user'[u] # Absent
    BY <2>1, RowsWritten DEF TypeOK
  <2>5. \A v \in Users : Exists(v) => Exists(v)'
    BY <2>1, <2>4 DEF Exists, TypeOK
  <2>6. Exists(u)'
    BY <2>4 DEF Exists
  <2>7. (\A o \in Requests : req[o] # Idle => Exists(req[o].user))'
    BY <2>3, <2>5, <2>6, InFlightExist
  <2>8. QED
    BY <1>0, <1>1, <2>3, <2>4, <2>7, ReqMoved DEF TypeOK, Register
<1>2. ASSUME NEW q \in Requests, ResendEmailVerification(q) PROVE TypeOK'
  <2>1. PICK u \in Users : MayResend(u) /\ Become(q, SaveFor(u, email[u]))
    BY <1>2 DEF ResendEmailVerification
  <2>2. PICK t \in Task \cup {Idle} : t = SaveFor(u, email[u])
    BY <2>1, TasksWritten DEF MayResend
  <2>3. Become(q, t) /\ t.user = u /\ UNCHANGED <<user, drawn, wrong, lost, sent>>
    BY <1>2, <2>1, <2>2 DEF SaveFor, ResendEmailVerification
  <2>4. Exists(u)' /\ \A v \in Users : Exists(v) => Exists(v)'
    BY <2>1, <2>3 DEF Exists, MayResend
  <2>5. (\A o \in Requests : req[o] # Idle => Exists(req[o].user))'
    BY <2>3, <2>4, InFlightExist
  <2>6. QED
    BY <1>0, <2>3, <2>5, ReqMoved DEF TypeOK
<1>3. ASSUME NEW q \in Requests, SaveEmailVerification(q) PROVE TypeOK'
  <2>1. PICK u \in Users : u = req[q].user /\ Exists(u)
    BY <1>3, TaskFields DEF SaveEmailVerification
  <2>2. /\ drawn[u] < MaxCodes
        /\ drawn' = [drawn EXCEPT ![u] = drawn[u] + 1]
        /\ user'  = [user EXCEPT ![u] = WithCode(user[u], drawn[u] + 1)]
        /\ wrong' = [wrong EXCEPT ![u] = 0]
        /\ lost'  = [lost EXCEPT ![u] = 0]
        /\ sent'  = [sent EXCEPT ![u] = sent[u] + 1]
        /\ Become(q, Idle)
    BY <1>3, <2>1 DEF SaveEmailVerification
  <2>3. drawn[u] + 1 \in 0 .. MaxCodes
    BY <2>2, MaxCodesAssumption DEF TypeOK
  <2>4. WithCode(user[u], drawn[u] + 1) \in Row
    BY <2>1, <2>3, RowFields, RowsWritten
  <2>5. /\ user' \in [Users -> Row \cup {Absent}]
        /\ \A v \in Users : Exists(v) => Exists(v)'
    BY <2>2, <2>4, RowsWritten DEF TypeOK, Exists
  <2>6. (\A o \in Requests : req[o] # Idle => Exists(req[o].user))'
    BY <2>2, <2>5, InFlightExist
  <2>7. /\ drawn' \in [Users -> 0 .. MaxCodes] /\ wrong' \in [Users -> Nat]
        /\ lost' \in [Users -> Nat] /\ sent' \in [Users -> Nat]
    BY <2>2, <2>3 DEF TypeOK
  <2>8. QED
    BY <1>0, <2>2, <2>5, <2>6, <2>7, ReqMoved DEF TypeOK
<1>4. ASSUME NEW q \in Requests, VerifyRightCode(q) PROVE TypeOK'
  <2>1. PICK u \in Users : MayGuess(u) /\ Become(q, MarkFor(u, email[u]))
    BY <1>4 DEF VerifyRightCode
  <2>2. PICK t \in Task \cup {Idle} : t = MarkFor(u, email[u])
    BY <2>1, TasksWritten DEF MayGuess
  <2>3. Become(q, t) /\ t.user = u /\ UNCHANGED <<user, drawn, wrong, lost, sent>>
    BY <1>4, <2>1, <2>2 DEF VerifyRightCode, MarkFor
  <2>4. Exists(u)' /\ \A v \in Users : Exists(v) => Exists(v)'
    BY <2>1, <2>3 DEF Exists, MayGuess
  <2>5. (\A o \in Requests : req[o] # Idle => Exists(req[o].user))'
    BY <2>3, <2>4, InFlightExist
  <2>6. QED
    BY <1>0, <2>3, <2>5, ReqMoved DEF TypeOK
<1>5. ASSUME NEW q \in Requests, VerifyWrongCode(q) PROVE TypeOK'
  <2>1. PICK u \in Users :
            /\ MayGuess(u)
            /\ wrong' = [wrong EXCEPT ![u] = wrong[u] + 1]
            /\ Become(q, [op |-> "count", user |-> u, code |-> user[u].code])
    BY <1>5 DEF VerifyWrongCode
  <2>2. user[u].code \in 1 .. MaxCodes
    BY <2>1, RowFields, MaxCodesAssumption DEF MayGuess
  <2>3. PICK t \in Task \cup {Idle} : t = [op |-> "count", user |-> u, code |-> user[u].code]
    BY <2>2 DEF Task
  <2>4. Become(q, t) /\ t.user = u /\ UNCHANGED <<user, drawn, lost, sent>>
    BY <1>5, <2>1, <2>3 DEF VerifyWrongCode
  <2>5. Exists(u)' /\ \A v \in Users : Exists(v) => Exists(v)'
    BY <2>1, <2>4 DEF Exists, MayGuess
  <2>6. (\A o \in Requests : req[o] # Idle => Exists(req[o].user))'
    BY <2>4, <2>5, InFlightExist
  <2>7. wrong' \in [Users -> Nat]
    BY <2>1 DEF TypeOK
  <2>8. QED
    BY <1>0, <2>4, <2>6, <2>7, ReqMoved DEF TypeOK
<1>6. ASSUME NEW q \in Requests, IncrementEmailVerificationAttempts(q) PROVE TypeOK'
  <2>1. PICK u \in Users : u = req[q].user /\ Exists(u)
    BY <1>6, TaskFields DEF IncrementEmailVerificationAttempts
  <2>2. /\ user' = [user EXCEPT ![u] = [user[u] EXCEPT !.attempts = user[u].attempts + 1]]
        /\ Become(q, Idle)
        /\ UNCHANGED <<drawn, wrong, lost, sent>>
    BY <1>6, <2>1 DEF IncrementEmailVerificationAttempts
  <2>3. user[u] \in Row
    BY <2>1, RowFields
  <2>4. /\ user' \in [Users -> Row \cup {Absent}]
        /\ \A v \in Users : Exists(v) => Exists(v)'
    BY <2>2, <2>3, RowsWritten DEF TypeOK, Exists
  <2>5. (\A o \in Requests : req[o] # Idle => Exists(req[o].user))'
    BY <2>2, <2>4, InFlightExist
  <2>6. QED
    BY <1>0, <2>2, <2>4, <2>5, ReqMoved DEF TypeOK
<1>7. ASSUME NEW q \in Requests, MarkEmailVerified(q) PROVE TypeOK'
  <2>1. PICK u \in Users : u = req[q].user /\ Exists(u)
    BY <1>7, TaskFields DEF MarkEmailVerified
  <2>2. /\ user' = [user EXCEPT ![u] = [Fresh EXCEPT !.verified = TRUE]]
        /\ wrong' = [wrong EXCEPT ![u] = 0]
        /\ lost'  = [lost EXCEPT ![u] = 0]
        /\ sent'  = [sent EXCEPT ![u] = 0]
        /\ Become(q, Idle)
        /\ UNCHANGED drawn
    BY <1>7, <2>1 DEF MarkEmailVerified
  <2>3. /\ user' \in [Users -> Row \cup {Absent}]
        /\ \A v \in Users : Exists(v) => Exists(v)'
    BY <2>2, RowsWritten DEF TypeOK, Exists
  <2>4. (\A o \in Requests : req[o] # Idle => Exists(req[o].user))'
    BY <2>2, <2>3, InFlightExist
  <2>5. QED
    BY <1>0, <2>2, <2>3, <2>4, ReqMoved DEF TypeOK
<1>8. ASSUME NEW q \in Requests, Abandon(q) PROVE TypeOK'
  <2>1. Become(q, Idle) /\ UNCHANGED <<user, drawn, wrong, lost, sent>>
    BY <1>8 DEF Abandon
  <2>2. (\A o \in Requests : req[o] # Idle => Exists(req[o].user))'
    BY <2>1, InFlightExist DEF Exists
  <2>3. QED
    BY <1>0, <2>1, <2>2, ReqMoved DEF TypeOK
<1>9. ASSUME NEW q \in Requests, LoseCount(q) PROVE TypeOK'
  <2>1. Become(q, Idle) /\ UNCHANGED <<user, drawn, wrong, sent>>
    BY <1>9 DEF LoseCount
  <2>2. (\A o \in Requests : req[o] # Idle => Exists(req[o].user))'
    <3>1. \A v \in Users : Exists(v) => Exists(v)'
      BY <2>1 DEF Exists
    <3>2. QED
      BY <2>1, <3>1, InFlightExist
  <2>3. lost' \in [Users -> Nat]
    <3>1. PICK u \in Users : u = req[q].user
      BY <1>9, TaskFields DEF LoseCount
    <3>2. (lost' = [lost EXCEPT ![u] = lost[u] + 1]) \/ (lost' = lost)
      BY <1>9, <3>1 DEF LoseCount
    <3>3. QED
      BY <3>2 DEF TypeOK
  <2>4. QED
    BY <1>0, <2>1, <2>2, <2>3, ReqMoved DEF TypeOK
<1>10. CASE CodeExpires
  <2>1. PICK u \in Users :
            /\ user[u].code # 0
            /\ user' = [user EXCEPT ![u] = [user[u] EXCEPT !.expired = TRUE]]
    BY <1>10 DEF CodeExpires
  <2>2. user[u] \in Row
    BY <2>1, RowFields
  <2>3. /\ user' \in [Users -> Row \cup {Absent}]
        /\ \A v \in Users : Exists(v) => Exists(v)'
    BY <2>1, <2>2, RowsWritten DEF TypeOK, Exists
  <2>4. (\A o \in Requests : req[o] # Idle => Exists(req[o].user))'
    <3>1. ASSUME NEW o \in Requests, req'[o] # Idle PROVE user'[req'[o].user] # Absent
      <4>1. req' = req /\ req[o] # Idle
        BY <1>10, <3>1 DEF CodeExpires
      <4>2. req[o].user \in Users /\ Exists(req[o].user)
        BY <4>1 DEF TypeOK, Task
      <4>3. PICK v \in Users : v = req[o].user /\ Exists(v)
        BY <4>2
      <4>4. QED
        BY <2>3, <4>1, <4>3 DEF Exists
    <3>2. QED
      BY <3>1 DEF Exists
  <2>5. QED
    BY <1>0, <1>10, <2>1, <2>3, <2>4 DEF CodeExpires, TypeOK
<1>11. CASE CooldownEnds
  <2>1. PICK u \in Users :
            /\ Exists(u)
            /\ user' = [user EXCEPT ![u] = [user[u] EXCEPT !.cooling = FALSE]]
            /\ sent' = [sent EXCEPT ![u] = 0]
    BY <1>11 DEF CooldownEnds
  <2>2. user[u] \in Row
    BY <2>1, RowFields
  <2>3. /\ user' \in [Users -> Row \cup {Absent}]
        /\ \A v \in Users : Exists(v) => Exists(v)'
    BY <2>1, <2>2, RowsWritten DEF TypeOK, Exists
  <2>4. (\A o \in Requests : req[o] # Idle => Exists(req[o].user))'
    <3>1. ASSUME NEW o \in Requests, req'[o] # Idle PROVE user'[req'[o].user] # Absent
      <4>1. req' = req /\ req[o] # Idle
        BY <1>11, <3>1 DEF CooldownEnds
      <4>2. req[o].user \in Users /\ Exists(req[o].user)
        BY <4>1 DEF TypeOK, Task
      <4>3. PICK v \in Users : v = req[o].user /\ Exists(v)
        BY <4>2
      <4>4. QED
        BY <2>3, <4>1, <4>3 DEF Exists
    <3>2. QED
      BY <3>1 DEF Exists
  <2>5. QED
    BY <1>0, <1>11, <2>1, <2>3, <2>4 DEF CooldownEnds, TypeOK
<1>12. CASE UNCHANGED vars
  BY <1>12 DEF vars, TypeOK, Exists
<1>13. CASE UpdateProfile
  BY <1>0, <1>13 DEF UpdateProfile, TypeOK, Exists
<1>14. QED
  BY <1>1, <1>2, <1>3, <1>4, <1>5, <1>6, <1>7, <1>8, <1>9, <1>10, <1>11, <1>12, <1>13 DEF Next

-----------------------------------------------------------------------------
(* Wrong guesses *)

\* What a row updated in one field keeps in the others.
LEMMA RowsKept ==
    ASSUME TypeOK, NEW u \in Users, Exists(u)
    PROVE  /\ \A n \in Nat : LET r == [user[u] EXCEPT !.attempts = n]
                             IN  /\ r.code = user[u].code
                                 /\ r.attempts = n
                                 /\ r.cooling = user[u].cooling
           /\ LET r == [user[u] EXCEPT !.expired = TRUE]
              IN  /\ r.code = user[u].code
                  /\ r.attempts = user[u].attempts
                  /\ r.cooling = user[u].cooling
           /\ LET r == [user[u] EXCEPT !.cooling = FALSE]
              IN  /\ r.code = user[u].code
                  /\ r.attempts = user[u].attempts
                  /\ r.cooling = FALSE
<1>1. user[u] \in Row
  BY RowFields
<1>2. QED
  BY <1>1 DEF Row

\* A step that moves no request and keeps the code and the counts.
LEMMA GuessesStill ==
    ASSUME TypeOK, GuessesAccounted, req' = req, NEW u \in Users,
           user'[u].code = user[u].code, user'[u].attempts = user[u].attempts,
           wrong'[u] = wrong[u], lost'[u] = lost[u]
    PROVE  user'[u].code # 0 =>
               wrong'[u] <= user'[u].attempts + lost'[u] + Cardinality(Counting(u)')
<1>1. Counting(u)' = Counting(u)
  BY DEF Counting
<1>2. PICK C : C = Counting(u)
  OBVIOUS
<1>3. C = Counting(u)'
  BY <1>1, <1>2
<1>4. QED
  BY <1>2, <1>3 DEF GuessesAccounted

\* The one guess in flight that the request's row knows of is settled.
LEMMA GuessSettled ==
    ASSUME TypeOK, GuessesAccounted, NEW q \in Requests, Become(q, Idle),
           NEW u \in Users, user'[u].code = user[u].code,
           wrong'[u] = wrong[u],
           user'[u].attempts \in Nat, lost'[u] \in Nat,
           user'[u].attempts + lost'[u] >= user[u].attempts + lost[u],
           (req[q].op = "count" /\ req[q].user = u /\ req[q].code = user[u].code) =>
               user'[u].attempts + lost'[u] = user[u].attempts + lost[u] + 1
    PROVE  user'[u].code # 0 =>
               wrong'[u] <= user'[u].attempts + lost'[u] + Cardinality(Counting(u)')
<1>1. PICK C \in SUBSET Requests, N \in SUBSET Requests :
          /\ C = Counting(u)
          /\ N = Counting(u)'
          /\ (N = C \cup {q}) \/ (N = C \ {q})
          /\ q \in C <=>
                req[q].op = "count" /\ req[q].user = u /\ req[q].code = user[u].code
  BY CountingMoved
<1>2. /\ Cardinality(C) \in Nat /\ Cardinality(N) \in Nat
      /\ q \notin C => Cardinality(N) >= Cardinality(C)
      /\ Cardinality(N) >= Cardinality(C) - 1
  BY <1>1, SetMoved
<1>3. SUFFICES ASSUME user[u].code # 0
               PROVE  wrong[u] <= user'[u].attempts + lost'[u] + Cardinality(N)
  BY <1>1
<1>4. wrong[u] <= user[u].attempts + lost[u] + Cardinality(C)
  BY <1>1, <1>3 DEF GuessesAccounted
<1>5. wrong[u] \in Nat /\ lost[u] \in Nat /\ user[u].attempts \in Nat
  BY <1>3, RowFields DEF TypeOK
<1>6. CASE q \in C
  BY <1>1, <1>2, <1>4, <1>5, <1>6
<1>7. CASE q \notin C
  BY <1>2, <1>4, <1>5, <1>7
<1>8. QED
  BY <1>6, <1>7

LEMMA GuessesNext == TypeOK /\ GuessesAccounted /\ [Next]_vars => GuessesAccounted'
<1> SUFFICES ASSUME TypeOK, GuessesAccounted, [Next]_vars,
                    NEW v \in Users
             PROVE  user'[v].code # 0 =>
                        wrong'[v] <= user'[v].attempts + lost'[v] + Cardinality(Counting(v)')
  BY DEF GuessesAccounted
<1> DEFINE Goal == user'[v].code # 0 =>
                       wrong'[v] <= user'[v].attempts + lost'[v] + Cardinality(Counting(v)')
<1>1. ASSUME NEW q \in Requests, Register(q) PROVE Goal
  <2>1. PICK u \in Users, a \in Addresses :
            user' = [user EXCEPT ![u] = Fresh] /\ Become(q, SaveFor(u, a))
    BY <1>1 DEF Register
  <2>2. PICK t \in Task \cup {Idle} : t = SaveFor(u, a)
    BY DEF Task, SaveFor
  <2>3. Become(q, t) /\ req[q].op # "count" /\ UNCHANGED <<wrong, lost>>
    BY <1>1, <2>1, <2>2 DEF Register, Idle
  <2>4. CASE v = u
    BY <2>1, <2>4 DEF TypeOK, Fresh
  <2>5. CASE v # u
    <3>1. user'[v] = user[v]
      BY <2>1, <2>5 DEF TypeOK
    <3>2. QED
      BY <2>3, <3>1, GuessesQuiet
  <2>6. QED
    BY <2>4, <2>5
<1>2. ASSUME NEW q \in Requests, ResendEmailVerification(q) PROVE Goal
  <2>1. PICK u \in Users : MayResend(u) /\ Become(q, SaveFor(u, email[u]))
    BY <1>2 DEF ResendEmailVerification
  <2>2. PICK t \in Task \cup {Idle} : t = SaveFor(u, email[u])
    BY <2>1, TasksWritten DEF MayResend
  <2>3. Become(q, t) /\ req[q].op # "count" /\ UNCHANGED <<user, wrong, lost>>
    BY <1>2, <2>1, <2>2 DEF ResendEmailVerification, Idle
  <2>4. QED
    BY <2>3, GuessesQuiet
<1>3. ASSUME NEW q \in Requests, SaveEmailVerification(q) PROVE Goal
  <2>1. PICK u \in Users : u = req[q].user
    BY <1>3, TaskFields DEF SaveEmailVerification
  <2>2. /\ user'  = [user EXCEPT ![u] = WithCode(user[u], drawn[u] + 1)]
        /\ wrong' = [wrong EXCEPT ![u] = 0]
        /\ lost'  = [lost EXCEPT ![u] = 0]
        /\ Become(q, Idle)
        /\ req[q].op # "count"
    BY <1>3, <2>1 DEF SaveEmailVerification
  <2>3. CASE v = u
    <3>1. wrong'[v] = 0 /\ lost'[v] = 0 /\ user'[v].attempts = 0
      BY <2>2, <2>3 DEF TypeOK, WithCode
    <3>2. PICK N \in SUBSET Requests : N = Counting(v)'
      BY DEF Counting
    <3>3. Cardinality(N) \in Nat
      BY <3>2, RequestSets
    <3>4. QED
      BY <3>1, <3>2, <3>3
  <2>4. CASE v # u
    <3>1. user'[v] = user[v] /\ wrong'[v] = wrong[v] /\ lost'[v] = lost[v]
      BY <2>2, <2>4 DEF TypeOK
    <3>2. QED
      BY <2>2, <3>1, GuessesQuiet
  <2>5. QED
    BY <2>3, <2>4
<1>4. ASSUME NEW q \in Requests, VerifyRightCode(q) PROVE Goal
  <2>1. PICK u \in Users : MayGuess(u) /\ Become(q, MarkFor(u, email[u]))
    BY <1>4 DEF VerifyRightCode
  <2>2. PICK t \in Task \cup {Idle} : t = MarkFor(u, email[u])
    BY <2>1, TasksWritten DEF MayGuess
  <2>3. Become(q, t) /\ req[q].op # "count" /\ UNCHANGED <<user, wrong, lost>>
    BY <1>4, <2>1, <2>2 DEF VerifyRightCode, MarkFor, Idle
  <2>4. QED
    BY <2>3, GuessesQuiet
<1>5. ASSUME NEW q \in Requests, VerifyWrongCode(q) PROVE Goal
  <2>1. PICK u \in Users :
            /\ MayGuess(u)
            /\ wrong' = [wrong EXCEPT ![u] = wrong[u] + 1]
            /\ Become(q, [op |-> "count", user |-> u, code |-> user[u].code])
    BY <1>5 DEF VerifyWrongCode
  <2>2. user[u].code \in 1 .. MaxCodes
    BY <2>1, RowFields, MaxCodesAssumption DEF MayGuess
  <2>3. PICK t \in Task \cup {Idle} : t = [op |-> "count", user |-> u, code |-> user[u].code]
    BY <2>2 DEF Task
  <2>4. Become(q, t) /\ req[q].op # "count" /\ UNCHANGED <<user, lost>>
    BY <1>5, <2>1, <2>3 DEF VerifyWrongCode, Idle
  <2>5. CASE v = u
    <3>1. PICK C \in SUBSET Requests, N \in SUBSET Requests :
              /\ C = Counting(u)
              /\ N = Counting(u)'
              /\ (N = C \cup {q}) \/ (N = C \ {q})
              /\ q \notin C
              /\ q \in N
      BY <2>3, <2>4, CountingMoved
    <3>2. Cardinality(C) \in Nat /\ Cardinality(N) = Cardinality(C) + 1
      BY <3>1, SetMoved
    <3>3. wrong[u] <= user[u].attempts + lost[u] + Cardinality(C)
      BY <2>2, <3>1 DEF GuessesAccounted
    <3>4. wrong[u] \in Nat /\ lost[u] \in Nat /\ user[u].attempts \in Nat
      BY <2>1, RowFields DEF TypeOK, MayGuess
    <3>5. wrong'[u] = wrong[u] + 1
      BY <2>1 DEF TypeOK
    <3>6. QED
      BY <2>4, <2>5, <3>1, <3>2, <3>3, <3>4, <3>5
  <2>6. CASE v # u
    <3>1. wrong'[v] = wrong[v]
      BY <2>1, <2>6 DEF TypeOK
    <3>2. QED
      BY <2>4, <3>1, GuessesQuiet
  <2>7. QED
    BY <2>5, <2>6
<1>6. ASSUME NEW q \in Requests, IncrementEmailVerificationAttempts(q) PROVE Goal
  <2>1. PICK u \in Users : u = req[q].user /\ Exists(u)
    BY <1>6, TaskFields DEF IncrementEmailVerificationAttempts
  <2>2. /\ user' = [user EXCEPT ![u] = [user[u] EXCEPT !.attempts = user[u].attempts + 1]]
        /\ Become(q, Idle)
        /\ UNCHANGED <<wrong, lost>>
    BY <1>6, <2>1 DEF IncrementEmailVerificationAttempts
  <2>3. CASE v = u
    <3>1. user[u].attempts \in Nat /\ lost[u] \in Nat
      BY <2>1, RowFields DEF TypeOK
    <3>2. user'[u].code = user[u].code /\ user'[u].attempts = user[u].attempts + 1
      BY <2>1, <2>2, <3>1, RowsKept DEF TypeOK
    <3>3. QED
      BY <2>2, <2>3, <3>1, <3>2, GuessSettled
  <2>4. CASE v # u
    <3>1. user'[v] = user[v]
      BY <2>2, <2>4 DEF TypeOK
    <3>2. QED
      BY <2>1, <2>2, <2>4, <3>1, GuessesQuiet
  <2>5. QED
    BY <2>3, <2>4
<1>7. ASSUME NEW q \in Requests, MarkEmailVerified(q) PROVE Goal
  <2>1. PICK u \in Users : u = req[q].user
    BY <1>7, TaskFields DEF MarkEmailVerified
  <2>2. /\ user' = [user EXCEPT ![u] = [Fresh EXCEPT !.verified = TRUE]]
        /\ wrong' = [wrong EXCEPT ![u] = 0]
        /\ lost'  = [lost EXCEPT ![u] = 0]
        /\ Become(q, Idle)
        /\ req[q].op # "count"
    BY <1>7, <2>1 DEF MarkEmailVerified
  <2>3. CASE v = u
    BY <2>2, <2>3 DEF TypeOK, Fresh
  <2>4. CASE v # u
    <3>1. user'[v] = user[v] /\ wrong'[v] = wrong[v] /\ lost'[v] = lost[v]
      BY <2>2, <2>4 DEF TypeOK
    <3>2. QED
      BY <2>2, <3>1, GuessesQuiet
  <2>5. QED
    BY <2>3, <2>4
<1>8. ASSUME NEW q \in Requests, Abandon(q) PROVE Goal
  <2>1. Become(q, Idle) /\ req[q].op # "count" /\ UNCHANGED <<user, wrong, lost>>
    BY <1>8 DEF Abandon
  <2>2. QED
    BY <2>1, GuessesQuiet
<1>9. ASSUME NEW q \in Requests, LoseCount(q) PROVE Goal
  <2>1. PICK u \in Users : u = req[q].user /\ Exists(u)
    BY <1>9, TaskFields DEF LoseCount
  <2>2. /\ lost' = IF user[u].code = req[q].code
                   THEN [lost EXCEPT ![u] = lost[u] + 1] ELSE lost
        /\ Become(q, Idle)
        /\ UNCHANGED <<user, wrong>>
    BY <1>9, <2>1 DEF LoseCount
  <2>3. CASE v = u
    <3>1. user[u].attempts \in Nat /\ lost[u] \in Nat
      BY <2>1, RowFields DEF TypeOK
    <3>2. /\ user[u].code = req[q].code => lost'[u] = lost[u] + 1
          /\ user[u].code # req[q].code => lost'[u] = lost[u]
      BY <2>2 DEF TypeOK
    <3>3. QED
      BY <2>2, <2>3, <3>1, <3>2, GuessSettled
  <2>4. CASE v # u
    <3>1. lost'[v] = lost[v]
      BY <2>2, <2>4 DEF TypeOK
    <3>2. QED
      BY <2>1, <2>2, <2>4, <3>1, GuessesQuiet
  <2>5. QED
    BY <2>3, <2>4
<1>10. CASE CodeExpires
  <2>1. PICK u \in Users :
            /\ user[u].code # 0
            /\ user' = [user EXCEPT ![u] = [user[u] EXCEPT !.expired = TRUE]]
    BY <1>10 DEF CodeExpires
  <2>2. Exists(u)
    BY <2>1, RowFields
  <2>3. user'[v].code = user[v].code /\ user'[v].attempts = user[v].attempts
    BY <2>1, <2>2, RowsKept DEF TypeOK
  <2>4. QED
    BY <1>10, <2>3, GuessesStill DEF CodeExpires
<1>11. CASE CooldownEnds
  <2>1. PICK u \in Users :
            /\ Exists(u)
            /\ user' = [user EXCEPT ![u] = [user[u] EXCEPT !.cooling = FALSE]]
    BY <1>11 DEF CooldownEnds
  <2>2. user'[v].code = user[v].code /\ user'[v].attempts = user[v].attempts
    BY <2>1, RowsKept DEF TypeOK
  <2>3. QED
    BY <1>11, <2>2, GuessesStill DEF CooldownEnds
<1>12. CASE UNCHANGED vars
  BY <1>12, GuessesStill DEF vars
<1>13. CASE UpdateProfile
  BY <1>13, GuessesStill DEF UpdateProfile
<1>14. QED
  BY <1>1, <1>2, <1>3, <1>4, <1>5, <1>6, <1>7, <1>8, <1>9, <1>10, <1>11, <1>12, <1>13 DEF Next

-----------------------------------------------------------------------------
(* Codes sent *)

\* A step that moves no request, sends nothing and keeps the cooldown.
LEMMA SendsStill ==
    ASSUME TypeOK, SendsAccounted, req' = req, NEW u \in Users,
           Exists(u)' <=> Exists(u), user'[u].cooling = user[u].cooling,
           sent'[u] = sent[u]
    PROVE  IF Exists(u)' /\ user'[u].cooling
           THEN sent'[u] + Cardinality(Saving(u)') <= Cardinality(Requests)
           ELSE sent'[u] = 0
<1>1. Saving(u)' = Saving(u)
  BY DEF Saving
<1>2. PICK C : C = Saving(u)
  OBVIOUS
<1>3. C = Saving(u)'
  BY <1>1, <1>2
<1>4. QED
  BY <1>2, <1>3 DEF SendsAccounted

\* A request that asks for a code, of an account that is not cooling.
LEMMA SendAsked ==
    ASSUME TypeOK, SendsAccounted,
           NEW q \in Requests, NEW t \in Task \cup {Idle}, Become(q, t),
           NEW u \in Users, t.user = u, ~(Exists(u) /\ user[u].cooling),
           ~user'[u].cooling,
           sent' = sent,
           \A w \in Users : w # u => user'[w] = user[w],
           NEW v \in Users
    PROVE  IF Exists(v)' /\ user'[v].cooling
           THEN sent'[v] + Cardinality(Saving(v)') <= Cardinality(Requests)
           ELSE sent'[v] = 0
<1>1. CASE v = u
  BY <1>1 DEF SendsAccounted
<1>2. CASE v # u
  <2>1. (Exists(v)' <=> Exists(v)) /\ user'[v].cooling = user[v].cooling
    BY <1>2 DEF Exists
  <2>2. QED
    BY <1>2, <2>1, SendsQuiet
<1>3. QED
  BY <1>1, <1>2

LEMMA SendsNext == TypeOK /\ SendsAccounted /\ [Next]_vars => SendsAccounted'
<1> DEFINE Goal(v) == IF Exists(v)' /\ user'[v].cooling
                      THEN sent'[v] + Cardinality(Saving(v)') <= Cardinality(Requests)
                      ELSE sent'[v] = 0
<1> SUFFICES ASSUME TypeOK, SendsAccounted, [Next]_vars,
                    NEW v \in Users
             PROVE  Goal(v)
  BY DEF SendsAccounted
<1>1. ASSUME NEW q \in Requests, Register(q) PROVE Goal(v)
  <2>1. PICK u \in Users, a \in Addresses :
            /\ ~Exists(u)
            /\ user' = [user EXCEPT ![u] = Fresh]
            /\ Become(q, SaveFor(u, a))
    BY <1>1 DEF Register
  <2>2. PICK t \in Task \cup {Idle} : t = SaveFor(u, a)
    BY DEF Task, SaveFor
  <2>3. Become(q, t) /\ t.user = u /\ sent' = sent
    BY <1>1, <2>1, <2>2 DEF Register, SaveFor
  <2>4. ~user'[u].cooling /\ \A w \in Users : w # u => user'[w] = user[w]
    BY <2>1 DEF TypeOK, Fresh
  <2>5. QED
    BY <2>1, <2>3, <2>4, SendAsked
<1>2. ASSUME NEW q \in Requests, ResendEmailVerification(q) PROVE Goal(v)
  <2>1. PICK u \in Users : MayResend(u) /\ Become(q, SaveFor(u, email[u]))
    BY <1>2 DEF ResendEmailVerification
  <2>2. PICK t \in Task \cup {Idle} : t = SaveFor(u, email[u])
    BY <2>1, TasksWritten DEF MayResend
  <2>3. Become(q, t) /\ t.user = u /\ sent' = sent /\ user' = user
    BY <1>2, <2>1, <2>2 DEF ResendEmailVerification, SaveFor
  <2>4. QED
    BY <2>1, <2>3, SendAsked DEF MayResend
<1>3. ASSUME NEW q \in Requests, SaveEmailVerification(q) PROVE Goal(v)
  <2>1. PICK u \in Users : u = req[q].user
    BY <1>3, TaskFields DEF SaveEmailVerification
  <2>2. /\ user' = [user EXCEPT ![u] = WithCode(user[u], drawn[u] + 1)]
        /\ sent' = [sent EXCEPT ![u] = sent[u] + 1]
        /\ Become(q, Idle)
        /\ req[q].op = "save"
    BY <1>3, <2>1 DEF SaveEmailVerification
  <2>3. CASE v = u
    <3>1. PICK C \in SUBSET Requests, N \in SUBSET Requests :
              /\ C = Saving(u)
              /\ N = Saving(u)'
              /\ (N = C \cup {q}) \/ (N = C \ {q})
              /\ q \in C
              /\ q \notin N
      BY <2>1, <2>2, SavingMoved DEF Idle
    <3>2. /\ Cardinality(C) \in Nat /\ Cardinality(Requests) \in Nat
          /\ Cardinality(C) <= Cardinality(Requests)
          /\ Cardinality(N) = Cardinality(C) - 1
      BY <3>1, SetMoved
    <3>3. sent[u] \in Nat /\ sent'[u] = sent[u] + 1
      BY <2>2 DEF TypeOK
    <3>4. sent[u] + Cardinality(C) <= Cardinality(Requests)
      BY <3>1, <3>2 DEF SendsAccounted
    <3>5. sent'[u] + Cardinality(N) <= Cardinality(Requests)
      BY <3>2, <3>3, <3>4
    <3>6. Exists(u)' /\ user'[u].cooling
      <4>1. user'[u] = WithCode(user[u], drawn[u] + 1)
        BY <2>2 DEF TypeOK
      <4>2. Exists(u)
        BY <2>1, <2>2, TaskFields
      <4>3. drawn[u] + 1 \in 0 .. MaxCodes
        BY <1>3, <2>1, MaxCodesAssumption DEF SaveEmailVerification, TypeOK
      <4>4. WithCode(user[u], drawn[u] + 1) \in Row
        BY <4>2, <4>3, RowFields, RowsWritten
      <4>5. user'[u].cooling
        BY <4>1 DEF WithCode
      <4>6. user'[u] # Absent
        BY <4>1, <4>4, RowsWritten
      <4>7. QED
        BY <4>5, <4>6 DEF Exists
    <3>7. QED
      BY <2>3, <3>1, <3>5, <3>6
  <2>4. CASE v # u
    <3>1. user'[v] = user[v] /\ sent'[v] = sent[v]
      BY <2>2, <2>4 DEF TypeOK
    <3>2. Exists(v)' <=> Exists(v)
      BY <3>1 DEF Exists
    <3>3. QED
      BY <2>2, <3>1, <3>2, SendsQuiet DEF Idle
  <2>5. QED
    BY <2>3, <2>4
<1>4. ASSUME NEW q \in Requests, VerifyRightCode(q) PROVE Goal(v)
  <2>1. PICK u \in Users : MayGuess(u) /\ Become(q, MarkFor(u, email[u]))
    BY <1>4 DEF VerifyRightCode
  <2>2. PICK t \in Task \cup {Idle} : t = MarkFor(u, email[u])
    BY <2>1, TasksWritten DEF MayGuess
  <2>3. Become(q, t) /\ t.op # "save" /\ UNCHANGED <<user, sent>>
    BY <1>4, <2>1, <2>2 DEF VerifyRightCode, MarkFor
  <2>4. Exists(v)' <=> Exists(v)
    BY <2>3 DEF Exists
  <2>5. QED
    BY <2>3, <2>4, SendsQuiet
<1>5. ASSUME NEW q \in Requests, VerifyWrongCode(q) PROVE Goal(v)
  <2>1. PICK u \in Users :
            /\ MayGuess(u)
            /\ Become(q, [op |-> "count", user |-> u, code |-> user[u].code])
    BY <1>5 DEF VerifyWrongCode
  <2>2. user[u].code \in 1 .. MaxCodes
    BY <2>1, RowFields, MaxCodesAssumption DEF MayGuess
  <2>3. PICK t \in Task \cup {Idle} : t = [op |-> "count", user |-> u, code |-> user[u].code]
    BY <2>2 DEF Task
  <2>4. Become(q, t) /\ t.op # "save" /\ UNCHANGED <<user, sent>>
    BY <1>5, <2>1, <2>3 DEF VerifyWrongCode
  <2>5. Exists(v)' <=> Exists(v)
    BY <2>4 DEF Exists
  <2>6. QED
    BY <2>4, <2>5, SendsQuiet
<1>6. ASSUME NEW q \in Requests, IncrementEmailVerificationAttempts(q) PROVE Goal(v)
  <2>1. PICK u \in Users : u = req[q].user /\ Exists(u)
    BY <1>6, TaskFields DEF IncrementEmailVerificationAttempts
  <2>2. /\ user' = [user EXCEPT ![u] = [user[u] EXCEPT !.attempts = user[u].attempts + 1]]
        /\ Become(q, Idle)
        /\ sent' = sent
    BY <1>6, <2>1 DEF IncrementEmailVerificationAttempts
  <2>3. user[u].attempts + 1 \in Nat
    BY <2>1, RowFields
  <2>4. user'[v].cooling = user[v].cooling
    BY <2>1, <2>2, <2>3, RowsKept DEF TypeOK
  <2>5. Exists(v)' <=> Exists(v)
    <3>1. user[u] \in Row
      BY <2>1, RowFields
    <3>2. [user[u] EXCEPT !.attempts = user[u].attempts + 1] # Absent
      BY <3>1, RowsWritten
    <3>3. QED
      BY <2>1, <2>2, <3>2 DEF Exists, TypeOK
  <2>6. QED
    BY <2>2, <2>4, <2>5, SendsQuiet DEF Idle
<1>7. ASSUME NEW q \in Requests, MarkEmailVerified(q) PROVE Goal(v)
  <2>1. PICK u \in Users : u = req[q].user
    BY <1>7, TaskFields DEF MarkEmailVerified
  <2>2. /\ user' = [user EXCEPT ![u] = [Fresh EXCEPT !.verified = TRUE]]
        /\ sent' = [sent EXCEPT ![u] = 0]
        /\ Become(q, Idle)
    BY <1>7, <2>1 DEF MarkEmailVerified
  <2>3. CASE v = u
    BY <2>2, <2>3 DEF TypeOK, Fresh
  <2>4. CASE v # u
    <3>1. user'[v] = user[v] /\ sent'[v] = sent[v]
      BY <2>2, <2>4 DEF TypeOK
    <3>2. Exists(v)' <=> Exists(v)
      BY <3>1 DEF Exists
    <3>3. PICK t \in Task \cup {Idle} : t = Idle /\ t.op # "save" /\ Become(q, t)
      BY <2>2 DEF Idle
    <3>4. user'[v].cooling = user[v].cooling
      BY <3>1
    <3>5. QED
      BY <3>1, <3>2, <3>3, <3>4, SendsQuiet
  <2>5. QED
    BY <2>3, <2>4
<1>8. ASSUME NEW q \in Requests, Abandon(q) \/ LoseCount(q) PROVE Goal(v)
  <2>1. Become(q, Idle) /\ UNCHANGED <<user, sent>>
    BY <1>8 DEF Abandon, LoseCount
  <2>2. Exists(v)' <=> Exists(v)
    BY <2>1 DEF Exists
  <2>3. QED
    BY <2>1, <2>2, SendsQuiet DEF Idle
<1>9. CASE CodeExpires
  <2>1. PICK u \in Users :
            /\ user[u].code # 0
            /\ user' = [user EXCEPT ![u] = [user[u] EXCEPT !.expired = TRUE]]
    BY <1>9 DEF CodeExpires
  <2>2. Exists(u) /\ user[u] \in Row
    BY <2>1, RowFields
  <2>3. user'[v].cooling = user[v].cooling
    BY <2>1, <2>2, RowsKept DEF TypeOK
  <2>4. [user[u] EXCEPT !.expired = TRUE] # Absent
    BY <2>2, RowsWritten
  <2>5. Exists(v)' <=> Exists(v)
    BY <2>1, <2>2, <2>4 DEF Exists, TypeOK
  <2>6. QED
    BY <1>9, <2>3, <2>5, SendsStill DEF CodeExpires
<1>10. CASE CooldownEnds
  <2>1. PICK u \in Users :
            /\ Exists(u)
            /\ user' = [user EXCEPT ![u] = [user[u] EXCEPT !.cooling = FALSE]]
            /\ sent' = [sent EXCEPT ![u] = 0]
    BY <1>10 DEF CooldownEnds
  <2>2. CASE v = u
    <3>1. user'[u].cooling = FALSE
      BY <2>1, RowsKept DEF TypeOK
    <3>2. QED
      BY <2>1, <2>2, <3>1 DEF TypeOK
  <2>3. CASE v # u
    <3>1. user'[v] = user[v] /\ sent'[v] = sent[v]
      BY <2>1, <2>3 DEF TypeOK
    <3>2. Exists(v)' <=> Exists(v)
      BY <3>1 DEF Exists
    <3>3. QED
      BY <1>10, <3>1, <3>2, SendsStill DEF CooldownEnds
  <2>4. QED
    BY <2>2, <2>3
<1>11. CASE UNCHANGED vars
  <2>1. Exists(v)' <=> Exists(v)
    BY <1>11 DEF Exists, vars
  <2>2. QED
    BY <1>11, <2>1, SendsStill DEF vars
<1>12. CASE UpdateProfile
  <2>1. Exists(v)' <=> Exists(v)
    BY <1>12 DEF Exists, UpdateProfile
  <2>2. QED
    BY <1>12, <2>1, SendsStill DEF UpdateProfile
<1>13. QED
  BY <1>1, <1>2, <1>3, <1>4, <1>5, <1>6, <1>7, <1>8, <1>9, <1>10, <1>11, <1>12 DEF Next

-----------------------------------------------------------------------------
(* The bounds *)

\* Only a wrong guess raises wrong, and nothing lowers lost but a new code.
LEMMA WrongNext ==
    TypeOK /\ GuessesAccounted /\ WrongGuessesBounded /\ [Next]_vars => WrongGuessesBounded'
<1> DEFINE Goal(v) == wrong'[v] <= MaxAttempts - 1 + Cardinality(Requests) + lost'[v]
<1> SUFFICES ASSUME TypeOK, GuessesAccounted, WrongGuessesBounded, [Next]_vars,
                    NEW v \in Users
             PROVE  Goal(v)
  BY DEF WrongGuessesBounded
<1>1. /\ Cardinality(Requests) \in Nat
      /\ MaxAttempts \in Nat \ {0}
      /\ wrong[v] \in Nat /\ lost[v] \in Nat
  BY RequestsAssumption, FS_CardinalityType, MaxAttemptsAssumption DEF TypeOK
<1>2. wrong[v] <= MaxAttempts - 1 + Cardinality(Requests) + lost[v]
  BY DEF WrongGuessesBounded
<1>3. ASSUME wrong'[v] = 0, lost'[v] = 0 PROVE Goal(v)
  BY <1>1, <1>3
<1>4. ASSUME wrong'[v] = wrong[v], lost'[v] = lost[v] \/ lost'[v] = lost[v] + 1
      PROVE  Goal(v)
  BY <1>1, <1>2, <1>4
<1>5. ASSUME NEW q \in Requests, SaveEmailVerification(q) \/ MarkEmailVerified(q)
      PROVE  Goal(v)
  <2>1. PICK u \in Users : u = req[q].user
    BY <1>5, TaskFields DEF SaveEmailVerification, MarkEmailVerified
  <2>2. wrong' = [wrong EXCEPT ![u] = 0] /\ lost' = [lost EXCEPT ![u] = 0]
    BY <1>5, <2>1 DEF SaveEmailVerification, MarkEmailVerified
  <2>3. QED
    BY <1>3, <1>4, <2>2 DEF TypeOK
<1>6. ASSUME NEW q \in Requests, VerifyWrongCode(q) PROVE Goal(v)
  <2>1. PICK u \in Users :
            /\ MayGuess(u)
            /\ wrong' = [wrong EXCEPT ![u] = wrong[u] + 1]
    BY <1>6 DEF VerifyWrongCode
  <2>2. lost' = lost /\ req[q].op # "count"
    BY <1>6 DEF VerifyWrongCode, Idle
  <2>3. CASE v = u
    <3>1. PICK C \in SUBSET Requests : C = Counting(u)
      BY DEF Counting
    <3>2. q \notin C
      BY <2>2, <3>1 DEF Counting
    <3>3. Cardinality(C) \in Nat /\ Cardinality(C) + 1 <= Cardinality(Requests)
      BY <3>2, RequestSets
    <3>4. user[u].attempts \in Nat /\ user[u].attempts <= MaxAttempts - 1
      BY <1>1, <2>1, RowFields DEF MayGuess
    <3>5. wrong[u] <= user[u].attempts + lost[u] + Cardinality(C)
      BY <2>1, <3>1 DEF GuessesAccounted, MayGuess
    <3>6. wrong'[u] = wrong[u] + 1
      BY <2>1 DEF TypeOK
    <3>7. wrong[u] + 1 <= MaxAttempts - 1 + Cardinality(Requests) + lost[u]
      BY <1>1, <2>3, <3>3, <3>4, <3>5
    <3>8. QED
      BY <2>2, <2>3, <3>6, <3>7
  <2>4. CASE v # u
    BY <1>4, <2>1, <2>2, <2>4 DEF TypeOK
  <2>5. QED
    BY <2>3, <2>4
<1>7. ASSUME NEW q \in Requests, LoseCount(q) PROVE Goal(v)
  <2>1. PICK u \in Users : u = req[q].user
    BY <1>7, TaskFields DEF LoseCount
  <2>2. /\ (lost' = [lost EXCEPT ![u] = lost[u] + 1]) \/ (lost' = lost)
        /\ wrong' = wrong
    BY <1>7, <2>1 DEF LoseCount
  <2>3. lost'[v] = lost[v] \/ lost'[v] = lost[v] + 1
    BY <2>2 DEF TypeOK
  <2>4. QED
    BY <1>4, <2>2, <2>3
<1>8. ASSUME UNCHANGED <<wrong, lost>> PROVE Goal(v)
  BY <1>4, <1>8
<1>9. ASSUME NEW q \in Requests,
             \/ Register(q) \/ ResendEmailVerification(q) \/ VerifyRightCode(q)
             \/ IncrementEmailVerificationAttempts(q) \/ Abandon(q)
      PROVE  Goal(v)
  BY <1>8, <1>9 DEF Register, ResendEmailVerification, VerifyRightCode,
                    IncrementEmailVerificationAttempts, Abandon
<1>10. CASE UpdateProfile \/ CodeExpires \/ CooldownEnds \/ UNCHANGED vars
  BY <1>8, <1>10 DEF UpdateProfile, CodeExpires, CooldownEnds, vars
<1>11. QED
  BY <1>5, <1>6, <1>7, <1>9, <1>10 DEF Next

-----------------------------------------------------------------------------
(* The address that is verified *)

\* An account stays verified, and an address changes in no unverified row.
LEMMA AddressKept ==
    ASSUME TypeOK, [Next]_vars, NEW u \in Users, Exists(u)
    PROVE  /\ user[u].verified => user'[u].verified
           /\ user[u].verified \/ email'[u] = email[u]
<1> DEFINE Goal == /\ user[u].verified => user'[u].verified
                   /\ user[u].verified \/ email'[u] = email[u]
<1>0. user[u] \in Row
  BY RowFields
<1>1. ASSUME NEW q \in Requests, Register(q) PROVE Goal
  BY <1>1 DEF Register, TypeOK
<1>2. ASSUME NEW q \in Requests, SaveEmailVerification(q) PROVE Goal
  <2>1. PICK w \in Users : w = req[q].user
    BY <1>2, TaskFields DEF SaveEmailVerification
  <2>2. /\ user' = [user EXCEPT ![w] = WithCode(user[w], drawn[w] + 1)]
        /\ email' = email
    BY <1>2, <2>1 DEF SaveEmailVerification
  <2>3. QED
    BY <2>2 DEF TypeOK, WithCode
<1>3. ASSUME NEW q \in Requests, MarkEmailVerified(q) PROVE Goal
  <2>1. PICK w \in Users : w = req[q].user
    BY <1>3, TaskFields DEF MarkEmailVerified
  <2>2. /\ user' = [user EXCEPT ![w] = [Fresh EXCEPT !.verified = TRUE]]
        /\ email' = email
    BY <1>3, <2>1 DEF MarkEmailVerified
  <2>3. QED
    BY <2>2 DEF TypeOK, Fresh
<1>4. ASSUME NEW q \in Requests, IncrementEmailVerificationAttempts(q) PROVE Goal
  <2>1. PICK w \in Users : w = req[q].user
    BY <1>4, TaskFields DEF IncrementEmailVerificationAttempts
  <2>2. /\ user' = [user EXCEPT ![w] = [user[w] EXCEPT !.attempts = user[w].attempts + 1]]
        /\ email' = email
    BY <1>4, <2>1 DEF IncrementEmailVerificationAttempts
  <2>3. QED
    BY <1>0, <2>2 DEF TypeOK, Row
<1>5. CASE UpdateProfile
  BY <1>5 DEF UpdateProfile, MaySignIn, TypeOK
<1>6. CASE CodeExpires
  BY <1>0, <1>6 DEF CodeExpires, TypeOK, Row
<1>7. CASE CooldownEnds
  BY <1>0, <1>7 DEF CooldownEnds, TypeOK, Row
<1>8. ASSUME UNCHANGED <<user, email>> PROVE Goal
  BY <1>8
<1>9. ASSUME NEW q \in Requests,
             \/ ResendEmailVerification(q) \/ VerifyRightCode(q) \/ VerifyWrongCode(q)
             \/ Abandon(q) \/ LoseCount(q)
      PROVE  UNCHANGED <<user, email>>
  BY <1>9 DEF ResendEmailVerification, VerifyRightCode, VerifyWrongCode, Abandon, LoseCount
<1>10. CASE UNCHANGED vars
  BY <1>8, <1>10 DEF vars
<1>11. QED
  BY <1>1, <1>2, <1>3, <1>4, <1>5, <1>6, <1>7, <1>8, <1>9, <1>10 DEF Next

\* Only MarkEmailVerified makes an account verified.
LEMMA Verifier ==
    ASSUME TypeOK, [Next]_vars, NEW u \in Users,
           Exists(u), ~user[u].verified, user'[u].verified
    PROVE  \E q \in Requests : MarkEmailVerified(q) /\ req[q].user = u
<1>0. user[u] \in Row
  BY RowFields
<1>1. ASSUME NEW q \in Requests, Register(q) PROVE FALSE
  BY <1>1 DEF Register, TypeOK
<1>2. ASSUME NEW q \in Requests, SaveEmailVerification(q) PROVE FALSE
  <2>1. PICK w \in Users : w = req[q].user
    BY <1>2, TaskFields DEF SaveEmailVerification
  <2>2. user' = [user EXCEPT ![w] = WithCode(user[w], drawn[w] + 1)]
    BY <1>2, <2>1 DEF SaveEmailVerification
  <2>3. QED
    BY <2>2 DEF TypeOK, WithCode
<1>3. ASSUME NEW q \in Requests, MarkEmailVerified(q) PROVE req[q].user = u
  BY <1>3 DEF MarkEmailVerified, TypeOK
<1>4. ASSUME NEW q \in Requests, IncrementEmailVerificationAttempts(q) PROVE FALSE
  <2>1. PICK w \in Users : w = req[q].user
    BY <1>4, TaskFields DEF IncrementEmailVerificationAttempts
  <2>2. user' = [user EXCEPT ![w] = [user[w] EXCEPT !.attempts = user[w].attempts + 1]]
    BY <1>4, <2>1 DEF IncrementEmailVerificationAttempts
  <2>3. QED
    BY <1>0, <2>2 DEF TypeOK, Row
<1>5. CASE CodeExpires
  BY <1>0, <1>5 DEF CodeExpires, TypeOK, Row
<1>6. CASE CooldownEnds
  BY <1>0, <1>6 DEF CooldownEnds, TypeOK, Row
<1>7. ASSUME NEW q \in Requests,
             \/ ResendEmailVerification(q) \/ VerifyRightCode(q) \/ VerifyWrongCode(q)
             \/ Abandon(q) \/ LoseCount(q)
      PROVE  FALSE
  BY <1>7 DEF ResendEmailVerification, VerifyRightCode, VerifyWrongCode, Abandon, LoseCount
<1>8. CASE UpdateProfile \/ UNCHANGED vars
  BY <1>8 DEF UpdateProfile, vars
<1>9. QED
  BY <1>1, <1>2, <1>3, <1>4, <1>5, <1>6, <1>7, <1>8 DEF Next

\* A step leaves a request as it is, ends it or gives it a task; the task of
\* marking an account names the address that the account has.
LEMMA MarksGiven ==
    ASSUME TypeOK, [Next]_vars, NEW q \in Requests, req'[q] # req[q], req'[q].op = "mark"
    PROVE  \E u \in Users : req'[q] = MarkFor(u, email[u]) /\ Exists(u) /\ UNCHANGED email
<1> DEFINE Goal ==
      \E u \in Users : req'[q] = MarkFor(u, email[u]) /\ Exists(u) /\ UNCHANGED email
<1>1. ASSUME NEW o \in Requests, NEW t, Become(o, t), t.op # "mark" PROVE Goal
  BY <1>1 DEF Become, TypeOK
<1>2. ASSUME NEW o \in Requests, Register(o) \/ ResendEmailVerification(o) PROVE Goal
  BY <1>1, <1>2 DEF Register, ResendEmailVerification, SaveFor
<1>3. ASSUME NEW o \in Requests, VerifyWrongCode(o) PROVE Goal
  BY <1>1, <1>3 DEF VerifyWrongCode
<1>4. ASSUME NEW o \in Requests,
             \/ SaveEmailVerification(o) \/ IncrementEmailVerificationAttempts(o)
             \/ MarkEmailVerified(o) \/ Abandon(o) \/ LoseCount(o)
      PROVE  Goal
  <2>1. Become(o, Idle)
    BY <1>4 DEF SaveEmailVerification, IncrementEmailVerificationAttempts,
                MarkEmailVerified, Abandon, LoseCount
  <2>2. QED
    BY <1>1, <2>1 DEF Idle
<1>5. ASSUME NEW o \in Requests, VerifyRightCode(o) PROVE Goal
  <2>1. PICK u \in Users : MayGuess(u) /\ Become(o, MarkFor(u, email[u]))
    BY <1>5 DEF VerifyRightCode
  <2>2. o = q
    BY <2>1 DEF Become, TypeOK
  <2>3. QED
    BY <1>5, <2>1, <2>2 DEF Become, TypeOK, MayGuess, VerifyRightCode
<1>6. CASE UpdateProfile \/ CodeExpires \/ CooldownEnds \/ UNCHANGED vars
  BY <1>6 DEF UpdateProfile, CodeExpires, CooldownEnds, vars
<1>7. QED
  BY <1>2, <1>3, <1>4, <1>5, <1>6 DEF Next

LEMMA MarksNext == TypeOK /\ MarksAgree /\ [Next]_vars => MarksAgree'
<1> SUFFICES ASSUME TypeOK, MarksAgree, [Next]_vars,
                    NEW q \in Requests, NEW u \in Users,
                    req'[q].op = "mark", req'[q].user = u, ~user'[u].verified
             PROVE  req'[q].address = email'[u]
  BY DEF MarksAgree
<1>1. CASE req'[q] = req[q]
  <2>1. Exists(u)
    BY <1>1, TaskFields
  <2>2. ~user[u].verified /\ email'[u] = email[u]
    BY <2>1, AddressKept
  <2>3. QED
    BY <1>1, <2>2 DEF MarksAgree
<1>2. CASE req'[q] # req[q]
  <2>1. PICK w \in Users : req'[q] = MarkFor(w, email[w]) /\ UNCHANGED email
    BY <1>2, MarksGiven
  <2>2. w = u /\ req'[q].address = email[w]
    BY <2>1 DEF MarkFor
  <2>3. QED
    BY <2>1, <2>2
<1>3. QED
  BY <1>1, <1>2

-----------------------------------------------------------------------------
(* Theorems *)

\* Every step keeps the invariant.
LEMMA NextKeeps == IInv /\ [Next]_vars => IInv'
BY TypeNext, GuessesNext, SendsNext, WrongNext, MarksNext DEF IInv

\* The inductive invariant holds in every reachable state.
THEOREM Invariance == Spec => []IInv
<1>1. Init => IInv
  BY InitIInv
<1>2. IInv /\ [Next]_vars => IInv'
  BY NextKeeps
<1>3. QED
  BY <1>1, <1>2, PTL DEF Spec

\* Rows and requests keep their types, and a request in flight is about an
\* account that exists, for any number of accounts and requests.
THEOREM TypeCorrect == Spec => []TypeOK
<1>1. IInv => TypeOK
  BY DEF IInv
<1>2. QED
  BY <1>1, Invariance, PTL

\* However guesses race, the wrong guesses on one code stay within the limit
\* plus the requests in flight plus the counts that were lost.
THEOREM GuessesAreBounded == Spec => []WrongGuessesBounded
<1>1. IInv => WrongGuessesBounded
  BY DEF IInv
<1>2. QED
  BY <1>1, Invariance, PTL

\* Within one cooldown an account is sent at most one code per request that
\* can be in flight.
THEOREM SendsAreBounded == Spec => []SendsBounded
<1>1. IInv => SendsBounded
  <2>1. SUFFICES ASSUME TypeOK, SendsAccounted, NEW u \in Users
                 PROVE  sent[u] <= Cardinality(Requests)
    BY DEF IInv, SendsBounded
  <2>2. PICK C \in SUBSET Requests : C = Saving(u)
    BY DEF Saving
  <2>3. Cardinality(C) \in Nat /\ Cardinality(Requests) \in Nat /\ sent[u] \in Nat
    BY <2>1, RequestSets DEF TypeOK
  <2>4. sent[u] = 0 \/ sent[u] + Cardinality(C) <= Cardinality(Requests)
    BY <2>1, <2>2 DEF SendsAccounted
  <2>5. QED
    BY <2>3, <2>4
<1>2. QED
  BY <1>1, Invariance, PTL

\* An account is verified only for the address it has at that moment, however
\* guesses, resends and changes of profile of any number of clients mix.
THEOREM AddressIsProved == Spec => VerifiesPresentAddress
<1>1. ASSUME IInv, [Next]_vars, NEW u \in Users,
             Exists(u), ~user[u].verified, user'[u].verified
      PROVE  \E q \in Requests :
                 /\ req[q] = MarkFor(u, email[u])
                 /\ req'[q] = Idle
                 /\ email'[u] = email[u]
  <2>1. TypeOK /\ MarksAgree /\ user[u] \in Row
    BY <1>1, RowFields DEF IInv
  <2>2. email'[u] = email[u]
    BY <1>1, <2>1, AddressKept
  <2>3. PICK q \in Requests : MarkEmailVerified(q) /\ req[q].user = u
    BY <1>1, <2>1, Verifier
  <2>4. req[q].address = email[u] /\ req[q].op = "mark"
    BY <1>1, <2>1, <2>3 DEF MarksAgree, MarkEmailVerified
  <2>5. req[q] \in Task
    BY <2>1, <2>4 DEF TypeOK, Idle
  <2>6. req[q] = MarkFor(u, email[u])
    BY <2>3, <2>4, <2>5 DEF Task, MarkFor
  <2>7. req'[q] = Idle
    BY <2>1, <2>3 DEF MarkEmailVerified, Become, TypeOK
  <2>8. QED
    BY <2>2, <2>6, <2>7
<1>2. IInv /\ [Next]_vars =>
        [\A u \in Users :
            Exists(u) /\ ~user[u].verified /\ user'[u].verified =>
                \E q \in Requests :
                    /\ req[q] = MarkFor(u, email[u])
                    /\ req'[q] = Idle
                    /\ email'[u] = email[u]]_vars
  BY <1>1
<1>3. QED
  BY <1>2, Invariance, PTL DEF Spec, VerifiesPresentAddress
=============================================================================
