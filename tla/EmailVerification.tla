-------------------------- MODULE EmailVerification --------------------------
(***************************************************************************)
(* The address and the verification columns of users.  A request that      *)
(* sends a code reads the row, then saves a new code; a guess reads the    *)
(* row, compares, and then counts the failure or marks the account         *)
(* verified; a change of profile rewrites the address.  The reads and the  *)
(* writes of different requests mix.                                       *)
(*                                                                         *)
(* Sending the mail comes after the save and changes no row, whether it    *)
(* succeeds or not.  wrong, lost and sent are history variables: no guard  *)
(* reads them, except for the bound MaxLost.                               *)
(***************************************************************************)
EXTENDS Naturals, FiniteSets

CONSTANTS
    Users,       \* accounts
    Addresses,   \* e-mail addresses, normalised
    NoAddress,   \* the address of a row that does not exist
    Requests,    \* HTTP requests that can be in flight at the same time
    MaxAttempts, \* maxEmailVerificationAttempts
    MaxCodes,    \* bound: codes drawn for one account
    MaxLost      \* bound: failures against one code that are never counted

ASSUME RequestsAssumption == IsFiniteSet(Requests)
ASSUME MaxAttemptsAssumption == MaxAttempts \in Nat \ {0}
ASSUME MaxCodesAssumption == MaxCodes \in Nat
ASSUME MaxLostAssumption == MaxLost \in Nat
ASSUME NoAddressAssumption == NoAddress \notin Addresses

VARIABLES
    user,       \* the verification columns of users
    email,      \* the address of each account
    hashed,     \* the address that the saved code was hashed with
    drawn,      \* the number of codes drawn for each account so far
    req,        \* what each request still has to do
    wrong,      \* history: wrong guesses compared with the present code
    lost,       \* history: those among them that will never be counted
    sent        \* history: codes saved in the present cooldown

vars == <<user, email, hashed, drawn, req, wrong, lost, sent>>

-----------------------------------------------------------------------------
(* Rows and requests *)

\* code is the number of the code in the row, 0 for NULL; expired and cooling
\* are what the row's dates say by the clock.
Row ==
    [verified : BOOLEAN, code : 0 .. MaxCodes, expired : BOOLEAN, cooling : BOOLEAN,
     attempts : Nat]
Fresh ==
    [verified |-> FALSE, code |-> 0, expired |-> FALSE, cooling |-> FALSE, attempts |-> 0]
Absent == [code |-> 0]

Exists(u) == user[u] # Absent

Idle == [op |-> "idle"]
Task == [op : {"save", "mark"}, user : Users, address : Addresses]
        \cup [op : {"count"}, user : Users, code : 1 .. MaxCodes]

Init ==
    /\ user  = [u \in Users |-> Absent]
    /\ email  = [u \in Users |-> NoAddress]
    /\ hashed = [u \in Users |-> NoAddress]
    /\ drawn = [u \in Users |-> 0]
    /\ req   = [q \in Requests |-> Idle]
    /\ wrong = [u \in Users |-> 0]
    /\ lost  = [u \in Users |-> 0]
    /\ sent  = [u \in Users |-> 0]

Become(q, task) == req' = [req EXCEPT ![q] = task]

\* The task keeps the address that the request has read.
SaveFor(u, a) == [op |-> "save", user |-> u, address |-> a]
MarkFor(u, a) == [op |-> "mark", user |-> u, address |-> a]

\* users.email is unique: a is free for u.
Free(a, u) == \A v \in Users \ {u} : email[v] # a

-----------------------------------------------------------------------------
(* Sending a code *)

\* The account is inserted, then a code is saved and sent.
Register(q) ==
    /\ req[q] = Idle
    /\ \E u \in Users, a \in Addresses :
        /\ ~Exists(u)
        /\ Free(a, u)
        /\ user'  = [user EXCEPT ![u] = Fresh]
        /\ email' = [email EXCEPT ![u] = a]
        /\ Become(q, SaveFor(u, a))
    /\ UNCHANGED <<hashed, drawn, wrong, lost, sent>>

\* Mutant: the cooldown is not looked at.
MayResendAnytime(u) == Exists(u) /\ ~user[u].verified

\* Mutant: the error of an unknown address is dropped.
MayResendUnknown(u) == Exists(u) => ~user[u].verified /\ ~user[u].cooling

MayResend(u) == Exists(u) /\ ~user[u].verified /\ ~user[u].cooling

ResendEmailVerification(q) ==
    /\ req[q] = Idle
    /\ \E u \in Users : MayResend(u) /\ Become(q, SaveFor(u, email[u]))
    /\ UNCHANGED <<user, email, hashed, drawn, wrong, lost, sent>>

WithCode(row, c) ==
    [verified |-> row.verified, code |-> c, expired |-> FALSE, cooling |-> TRUE, attempts |-> 0]

\* One UPDATE with no condition on the row that was read.
SaveEmailVerification(q) ==
    /\ req[q].op = "save"
    /\ LET u == req[q].user
       IN  /\ drawn[u] < MaxCodes
           /\ drawn' = [drawn EXCEPT ![u] = drawn[u] + 1]
           /\ user'  = [user EXCEPT ![u] = WithCode(user[u], drawn[u] + 1)]
           /\ hashed' = [hashed EXCEPT ![u] = req[q].address]
           /\ wrong' = [wrong EXCEPT ![u] = 0]
           /\ lost'  = [lost EXCEPT ![u] = 0]
           /\ sent'  = [sent EXCEPT ![u] = sent[u] + 1]
    /\ Become(q, Idle)
    /\ UNCHANGED email

-----------------------------------------------------------------------------
(* Entering a code *)

\* Mutant: one attempt too many.
MayGuessOnceMore(u) ==
    /\ Exists(u)
    /\ ~user[u].verified
    /\ user[u].code # 0
    /\ ~user[u].expired
    /\ user[u].attempts <= MaxAttempts

MayGuess(u) ==
    /\ Exists(u)
    /\ ~user[u].verified
    /\ user[u].code # 0
    /\ ~user[u].expired
    /\ user[u].attempts < MaxAttempts

\* A code is right for the address that it was hashed with.
VerifyRightCode(q) ==
    /\ req[q] = Idle
    /\ \E u \in Users :
        /\ MayGuess(u)
        /\ hashed[u] = email[u]
        /\ Become(q, MarkFor(u, email[u]))
    /\ UNCHANGED <<user, email, hashed, drawn, wrong, lost, sent>>

VerifyWrongCode(q) ==
    /\ req[q] = Idle
    /\ \E u \in Users :
        /\ MayGuess(u)
        /\ wrong' = [wrong EXCEPT ![u] = wrong[u] + 1]
        /\ Become(q, [op |-> "count", user |-> u, code |-> user[u].code])
    /\ UNCHANGED <<user, email, hashed, drawn, lost, sent>>

\* The failure counts against whatever code the row now has.
IncrementEmailVerificationAttempts(q) ==
    /\ req[q].op = "count"
    /\ LET u == req[q].user
       IN  user' = [user EXCEPT ![u] = [user[u] EXCEPT !.attempts = user[u].attempts + 1]]
    /\ Become(q, Idle)
    /\ UNCHANGED <<email, hashed, drawn, wrong, lost, sent>>

\* One UPDATE by id: the address that was read is not compared.  The request
\* goes on to issue a session: see Sessions.
MarkEmailVerified(q) ==
    /\ req[q].op = "mark"
    /\ LET u == req[q].user
       IN  /\ user' = [user EXCEPT ![u] = [Fresh EXCEPT !.verified = TRUE]]
           /\ hashed' = [hashed EXCEPT ![u] = NoAddress]
           /\ wrong' = [wrong EXCEPT ![u] = 0]
           /\ lost'  = [lost EXCEPT ![u] = 0]
           /\ sent'  = [sent EXCEPT ![u] = 0]
    /\ Become(q, Idle)
    /\ UNCHANGED <<email, drawn>>

-----------------------------------------------------------------------------
(* Changing the address *)

\* Mutant: an account that has not verified its address is let in.
MaySignInUnverified(u) == Exists(u)

\* No access token is issued to an account that is not verified.
MaySignIn(u) == Exists(u) /\ user[u].verified

\* The bearer of an access token writes any free address, by id; the
\* verification columns stay as they are.
UpdateProfile ==
    /\ \E u \in Users, a \in Addresses :
        /\ MaySignIn(u)
        /\ Free(a, u)
        /\ email' = [email EXCEPT ![u] = a]
    /\ UNCHANGED <<user, hashed, drawn, req, wrong, lost, sent>>

-----------------------------------------------------------------------------
(* Failures and time *)

\* A request ends without its write: a database error (which a wrong guess
\* ignores), a dropped connection, a crash.
Abandon(q) ==
    /\ req[q].op \in {"save", "mark"}
    /\ Become(q, Idle)
    /\ UNCHANGED <<user, email, hashed, drawn, wrong, lost, sent>>

LoseCount(q) ==
    /\ req[q].op = "count"
    /\ LET u == req[q].user
       IN  /\ lost[u] < MaxLost
           /\ lost' = IF user[u].code = req[q].code
                      THEN [lost EXCEPT ![u] = lost[u] + 1] ELSE lost
    /\ Become(q, Idle)
    /\ UNCHANGED <<user, email, hashed, drawn, wrong, sent>>

CodeExpires ==
    /\ \E u \in Users :
        /\ user[u].code # 0
        /\ ~user[u].expired
        /\ user' = [user EXCEPT ![u] = [user[u] EXCEPT !.expired = TRUE]]
    /\ UNCHANGED <<email, hashed, drawn, req, wrong, lost, sent>>

CooldownEnds ==
    /\ \E u \in Users :
        /\ Exists(u)
        /\ user[u].cooling
        /\ user' = [user EXCEPT ![u] = [user[u] EXCEPT !.cooling = FALSE]]
        /\ sent' = [sent EXCEPT ![u] = 0]
    /\ UNCHANGED <<email, hashed, drawn, req, wrong, lost>>

Next ==
    \/ \E q \in Requests :
        \/ Register(q) \/ ResendEmailVerification(q) \/ SaveEmailVerification(q)
        \/ VerifyRightCode(q) \/ VerifyWrongCode(q)
        \/ IncrementEmailVerificationAttempts(q) \/ MarkEmailVerified(q)
        \/ Abandon(q) \/ LoseCount(q)
    \/ UpdateProfile
    \/ CodeExpires
    \/ CooldownEnds

Spec == Init /\ [][Next]_vars

-----------------------------------------------------------------------------
(* Properties *)

\* Rows and requests stay in their domains, an account has an address, and a
\* request in flight is about an account that exists (migrations 001 and 016,
\* models/user.go).
TypeOK ==
    /\ user  \in [Users -> Row \cup {Absent}]
    /\ email  \in [Users -> Addresses \cup {NoAddress}]
    /\ hashed \in [Users -> Addresses \cup {NoAddress}]
    /\ drawn \in [Users -> 0 .. MaxCodes]
    /\ req   \in [Requests -> Task \cup {Idle}]
    /\ wrong \in [Users -> Nat]
    /\ lost  \in [Users -> Nat]
    /\ sent  \in [Users -> Nat]
    /\ \A u \in Users : Exists(u) => email[u] \in Addresses
    /\ \A q \in Requests : req[q] # Idle => Exists(req[q].user)

\* However guesses race, no code is compared with more wrong guesses than
\* the limit, one for each other request in flight and those whose count was
\* lost: the limit is soft by the number of requests, never without bound.
WrongGuessesBounded ==
    \A u \in Users : wrong[u] <= MaxAttempts - 1 + Cardinality(Requests) + lost[u]

\* Within one cooldown no account is sent more codes than there are requests
\* in flight: racing resends may pass the check together, later ones do not.
SendsBounded == \A u \in Users : sent[u] <= Cardinality(Requests)

\* An account becomes verified only by a request that was given the right code
\* for the very address the account has at that moment.  MarkEmailVerified
\* goes by id and compares nothing: it is right because the address cannot be
\* changed while the account is unverified, and a verified one stays so.
VerifiesPresentAddress ==
    [][\A u \in Users :
        Exists(u) /\ ~user[u].verified /\ user'[u].verified =>
            \E q \in Requests :
                /\ req[q] = MarkFor(u, email[u])
                /\ req'[q] = Idle
                /\ email'[u] = email[u]]_vars
=============================================================================
