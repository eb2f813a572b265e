--------------------------- MODULE Sessions_proofs ---------------------------
(***************************************************************************)
(* A login never has two live refresh tokens, a login that has ended stays *)
(* ended, and Sessions implements LoginHolders: proved for any number of   *)
(* users, tokens and requests.                                             *)
(***************************************************************************)
EXTENDS Sessions, TLAPS

\* Every token belongs to a login that was issued, and every token a request
\* or a cookie names was issued.
TokensKnown ==
    /\ \A t \in Tokens : Issued(t) => login[t] \in Tokens /\ Issued(login[t])
    /\ \A b \in Browsers : cookie[b] # "none" => Issued(cookie[b])
    /\ \A q \in Requests :
        /\ req[q].op = "issue" /\ req[q].for # "none" => Issued(req[q].for)
        /\ req[q].op \in {"revoke", "logout"} => Issued(req[q].token)
        /\ req[q].op = "answer" /\ req[q].cookie # "none" => Issued(req[q].cookie)

\* While a token is being exchanged no token of its login is live.
RenewedIsNotLive ==
    \A q \in Requests, t \in Tokens : Renewing(q, login[t]) => ~Live(t)

\* A login is renewed by one request at a time.
OneRenewal ==
    \A p, q \in Requests, l \in Tokens : Renewing(p, l) /\ Renewing(q, l) => p = q

IInv == TypeOK /\ TokensKnown /\ OneLiveTokenPerLogin /\ RenewedIsNotLive /\ OneRenewal

-----------------------------------------------------------------------------
(* Lemmas *)

\* The fields of a request's task have the types its operation gives them.
LEMMA TaskFields ==
    ASSUME TypeOK, NEW q \in Requests
    PROVE  /\ req[q].op \in {"idle", "issue", "revoke", "logout", "answer"}
           /\ req[q].op # "idle" => req[q].browser \in Browsers
           /\ req[q].op = "issue" => /\ req[q].user \in Users
                                    /\ req[q].for \in Tokens \cup {"none"}
           /\ req[q].op = "revoke" => req[q].user \in Users /\ req[q].token \in Tokens
           /\ req[q].op = "logout" => req[q].token \in Tokens
           /\ req[q].op = "answer" => req[q].cookie \in Tokens \cup {"none"}
<1>1. req[q] \in Task \cup {Idle}
  BY DEF TypeOK
<1>2. QED
  BY <1>1 DEF Task, Idle

\* Moving one request on moves only that request.
LEMMA ReqMoved ==
    ASSUME TypeOK, NEW q \in Requests, NEW t \in Task \cup {Idle}, Become(q, t)
    PROVE  /\ req' \in [Requests -> Task \cup {Idle}]
           /\ req'[q] = t
           /\ \A o \in Requests : o # q => req'[o] = req[o]
BY DEF TypeOK, Become

\* A row is one of its domain exactly when it is issued.
LEMMA RowIsIssued ==
    ASSUME TypeOK, NEW t \in Tokens
    PROVE  Issued(t) <=> token[t] \in Row
<1>1. Unused \notin Row
  BY NoneAssumption DEF Unused, Row
<1>2. QED
  BY <1>1 DEF TypeOK, Issued

\* Revoking tokens changes no other row, and leaves those rows issued.
LEMMA RevokedRows ==
    ASSUME TypeOK, NEW ts \in SUBSET Tokens, \A t \in ts : Issued(t), token' = Revoked(ts)
    PROVE  /\ token' \in [Tokens -> Row \cup {Unused}]
           /\ \A t \in Tokens : /\ Issued(t)' <=> Issued(t)
                                /\ Live(t)' <=> (Live(t) /\ t \notin ts)
<1>1. \A t \in ts : token'[t] \in Row /\ token'[t].revoked
  BY RowIsIssued DEF Revoked, Row
<1>2. \A t \in Tokens \ ts : token'[t] = token[t]
  BY DEF Revoked
<1>3. token' \in [Tokens -> Row \cup {Unused}]
  BY <1>1, <1>2 DEF TypeOK, Revoked
<1>4. Unused \notin Row
  BY NoneAssumption DEF Unused, Row
<1>5. ASSUME NEW t \in Tokens
      PROVE  (Issued(t)' <=> Issued(t)) /\ (Live(t)' <=> (Live(t) /\ t \notin ts))
  <2>1. CASE t \in ts
    BY <1>1, <1>4, <2>1 DEF Issued, Live
  <2>2. CASE t \notin ts
    BY <1>2, <2>2 DEF Issued, Live
  <2>3. QED
    BY <2>1, <2>2
<1>6. QED
  BY <1>3, <1>5

\* A step that makes no token live and no request renew keeps the three
\* invariants about logins, and a login that has ended stays so.
LEMMA NothingRevived ==
    ASSUME IInv, login' = login,
           \A t \in Tokens : (Issued(t) => Issued(t)') /\ (Live(t)' => Live(t)),
           \A q \in Requests, l \in Tokens : Renewing(q, l)' => Renewing(q, l)
    PROVE  /\ OneLiveTokenPerLogin'
           /\ RenewedIsNotLive'
           /\ OneRenewal'
           /\ \A l \in Tokens : Ended(l) => Ended(l)'
<1>1. OneLiveTokenPerLogin'
  BY DEF IInv, OneLiveTokenPerLogin
<1>2. OneRenewal'
  BY DEF IInv, OneRenewal
<1>3. RenewedIsNotLive'
  <2>1. SUFFICES ASSUME NEW q \in Requests, NEW t \in Tokens, Renewing(q, login[t])', Live(t)'
                 PROVE  FALSE
    BY DEF RenewedIsNotLive
  <2>2. Live(t) /\ login[t] \in Tokens
    BY <2>1 DEF IInv, TokensKnown, Live
  <2>3. PICK l \in Tokens : l = login[t]
    BY <2>2
  <2>4. Renewing(q, l)
    BY <2>1, <2>3 DEF Renewing
  <2>5. QED
    BY <2>2, <2>3, <2>4 DEF IInv, RenewedIsNotLive
<1>4. \A l \in Tokens : Ended(l) => Ended(l)'
  BY DEF Ended
<1>5. QED
  BY <1>1, <1>2, <1>3, <1>4

\* A request that moves to another task than the exchange of a token renews nothing.
LEMMA RenewsNothing ==
    ASSUME TypeOK, NEW q \in Requests, NEW task \in Task \cup {Idle}, Become(q, task),
           task.op = "issue" => task.for = "none", login' = login
    PROVE  \A o \in Requests, l \in Tokens : Renewing(o, l)' => Renewing(o, l)
<1>1. SUFFICES ASSUME NEW o \in Requests, NEW l \in Tokens, Renewing(o, l)'
               PROVE  Renewing(o, l)
  OBVIOUS
<1>2. o # q
  BY <1>1, ReqMoved DEF Renewing
<1>3. QED
  BY <1>1, <1>2, ReqMoved DEF Renewing

\* Goal of every action of the next lemmas.
Kept == IInv' /\ \A l \in Tokens : Ended(l) => Ended(l)'

\* A request goes on, the token rows stay as they are.
LEMMA OnlyRequestMoves ==
    ASSUME IInv, NEW q \in Requests, NEW task \in Task \cup {Idle}, Become(q, task),
           task.op = "issue" => task.for = "none",
           task.op \in {"revoke", "logout"} => Issued(task.token),
           task.op = "answer" => task.cookie = "none",
           UNCHANGED <<token, login>>,
           cookie' \in [Browsers -> Tokens \cup {"none"}],
           \A b \in Browsers : cookie'[b] # "none" => Issued(cookie'[b])
    PROVE  Kept
<1>1. TypeOK'
  BY ReqMoved DEF IInv, TypeOK, Issued
<1>2. \A t \in Tokens : (Issued(t)' <=> Issued(t)) /\ (Live(t)' <=> Live(t))
  BY DEF Issued, Live
<1>3. TokensKnown'
  <2>1. \A t \in Tokens : Issued(t)' => login'[t] \in Tokens /\ Issued(login[t])'
    BY <1>2 DEF IInv, TokensKnown
  <2>2. \A b \in Browsers : cookie'[b] # "none" => Issued(cookie[b])'
    BY DEF Issued
  <2>3. ASSUME NEW o \in Requests
        PROVE  /\ req'[o].op = "issue" /\ req'[o].for # "none" => Issued(req[o].for)'
               /\ req'[o].op \in {"revoke", "logout"} => Issued(req[o].token)'
               /\ req'[o].op = "answer" /\ req'[o].cookie # "none" => Issued(req[o].cookie)'
    <3>1. CASE o = q
      BY <3>1, ReqMoved DEF IInv, Issued
    <3>2. CASE o # q
      BY <3>2, ReqMoved DEF IInv, TokensKnown, Issued
    <3>3. QED
      BY <3>1, <3>2
  <2>4. QED
    BY <2>1, <2>2, <2>3 DEF TokensKnown
<1>4. \A o \in Requests, l \in Tokens : Renewing(o, l)' => Renewing(o, l)
  BY RenewsNothing DEF IInv
<1>5. QED
  BY <1>1, <1>2, <1>3, <1>4, NothingRevived DEF IInv, Kept

\* A logout revokes tokens and answers.
LEMMA TokensRevoked ==
    ASSUME IInv, NEW q \in Requests, NEW b \in Browsers, Become(q, Answer(b, "none")),
           NEW ts \in SUBSET Tokens, \A t \in ts : Issued(t), token' = Revoked(ts),
           UNCHANGED <<cookie, login>>
    PROVE  Kept
<1>1. Answer(b, "none") \in Task
  BY DEF Answer, Task
<1>2. /\ token' \in [Tokens -> Row \cup {Unused}]
      /\ \A t \in Tokens : (Issued(t)' <=> Issued(t)) /\ (Live(t)' => Live(t))
  BY RevokedRows DEF IInv
<1>3. PICK task \in Task : task = Answer(b, "none") /\ Become(q, task)
  BY <1>1 DEF Become
<1>4. /\ req' \in [Requests -> Task \cup {Idle}]
      /\ req'[q] = task
      /\ \A o \in Requests : o # q => req'[o] = req[o]
  BY <1>3, ReqMoved DEF IInv
<1>5. TypeOK'
  BY <1>2, <1>4 DEF IInv, TypeOK
<1>6. TokensKnown'
  <2>1. \A t \in Tokens : Issued(t)' => login'[t] \in Tokens /\ Issued(login[t])'
    BY <1>2 DEF IInv, TokensKnown
  <2>2. \A c \in Browsers : cookie'[c] # "none" => Issued(cookie[c])'
    BY <1>2 DEF IInv, TypeOK, TokensKnown
  <2>3. ASSUME NEW o \in Requests
        PROVE  /\ req'[o].op = "issue" /\ req'[o].for # "none" => Issued(req[o].for)'
               /\ req'[o].op \in {"revoke", "logout"} => Issued(req[o].token)'
               /\ req'[o].op = "answer" /\ req'[o].cookie # "none" => Issued(req[o].cookie)'
    <3>1. CASE o = q
      BY <1>3, <1>4, <3>1 DEF Answer
    <3>2. CASE o # q
      BY <1>2, <1>4, <3>2, TaskFields DEF IInv, TokensKnown
    <3>3. QED
      BY <3>1, <3>2
  <2>4. QED
    BY <2>1, <2>2, <2>3 DEF TokensKnown
<1>7. \A o \in Requests, l \in Tokens : Renewing(o, l)' => Renewing(o, l)
  BY <1>3, RenewsNothing DEF IInv, Answer
<1>8. QED
  BY <1>2, <1>5, <1>6, <1>7, NothingRevived DEF IInv, Kept

\* Rotate: the only live token of the login is revoked, and q alone renews it.
LEMMA RotateKeeps ==
    ASSUME IInv, NEW q \in Requests, Rotate(q)
    PROVE  Kept
<1>1. PICK t \in Tokens, u \in Users, b \in Browsers :
         /\ req[q].op = "revoke" /\ req[q].token = t /\ req[q].user = u /\ req[q].browser = b
         /\ Issued(t)
  BY TaskFields DEF IInv, Rotate, TokensKnown
<1>2. PICK task \in Task : task = Issue(b, u, t) /\ Become(q, task)
  <2>1. Issue(b, u, t) \in Task
    BY DEF Issue, Task
  <2>2. Become(q, Issue(b, u, t))
    BY <1>1 DEF Rotate
  <2>3. QED
    BY <2>1, <2>2 DEF Become
<1>3. /\ req' \in [Requests -> Task \cup {Idle}]
      /\ req'[q] = task
      /\ \A o \in Requests : o # q => req'[o] = req[o]
  BY <1>2, ReqMoved DEF IInv
<1>4. Live(t) /\ token' = Revoked({t}) /\ UNCHANGED <<cookie, login>>
  BY <1>1 DEF Rotate, Revocable
<1>5. /\ token' \in [Tokens -> Row \cup {Unused}]
      /\ \A s \in Tokens : /\ Issued(s)' <=> Issued(s)
                           /\ Live(s)' <=> (Live(s) /\ s \notin {t})
  BY <1>1, <1>4, RevokedRows DEF IInv
<1>6. PICK f \in Tokens : f = login[t]
  BY <1>1 DEF IInv, TokensKnown
<1>7. /\ "none" \notin Tokens
      /\ \A o \in Requests, l \in Tokens : Renewing(o, l)' => Renewing(o, l) \/ (o = q /\ l = f)
      /\ \A o \in Requests : ~Renewing(o, f)
  <2>1. \A o \in Requests : ~Renewing(o, f)
    BY <1>4, <1>6 DEF IInv, RenewedIsNotLive
  <2>2. \A o \in Requests, l \in Tokens : Renewing(o, l)' => Renewing(o, l) \/ (o = q /\ l = f)
    <3>1. SUFFICES ASSUME NEW o \in Requests, NEW l \in Tokens, Renewing(o, l)'
                   PROVE  Renewing(o, l) \/ (o = q /\ l = f)
      OBVIOUS
    <3>2. CASE o = q
      BY <1>2, <1>3, <1>4, <1>6, <3>1, <3>2 DEF Renewing, Issue
    <3>3. CASE o # q
      BY <1>3, <1>4, <3>1, <3>3 DEF Renewing
    <3>4. QED
      BY <3>2, <3>3
  <2>3. QED
    BY <2>1, <2>2, NoneAssumption
<1>8. TypeOK'
  BY <1>3, <1>4, <1>5 DEF IInv, TypeOK
<1>9. TokensKnown'
  <2>1. \A s \in Tokens : Issued(s)' => login'[s] \in Tokens /\ Issued(login[s])'
    BY <1>4, <1>5 DEF IInv, TokensKnown
  <2>2. \A c \in Browsers : cookie'[c] # "none" => Issued(cookie[c])'
    BY <1>4, <1>5 DEF IInv, TypeOK, TokensKnown
  <2>3. ASSUME NEW o \in Requests
        PROVE  /\ req'[o].op = "issue" /\ req'[o].for # "none" => Issued(req[o].for)'
               /\ req'[o].op \in {"revoke", "logout"} => Issued(req[o].token)'
               /\ req'[o].op = "answer" /\ req'[o].cookie # "none" => Issued(req[o].cookie)'
    <3>1. CASE o = q
      BY <1>1, <1>2, <1>3, <1>5, <3>1 DEF Issue
    <3>2. CASE o # q
      BY <1>3, <1>5, <3>2, TaskFields DEF IInv, TokensKnown
    <3>3. QED
      BY <3>1, <3>2
  <2>4. QED
    BY <2>1, <2>2, <2>3 DEF TokensKnown
<1>10. OneLiveTokenPerLogin'
  BY <1>4, <1>5 DEF IInv, OneLiveTokenPerLogin
<1>11. OneRenewal'
  BY <1>7 DEF IInv, OneRenewal
<1>12. RenewedIsNotLive'
  <2>1. SUFFICES ASSUME NEW o \in Requests, NEW s \in Tokens, Renewing(o, login[s])', Live(s)'
                 PROVE  FALSE
    BY DEF RenewedIsNotLive
  <2>2. Live(s) /\ s # t
    BY <1>5, <2>1
  <2>3. PICK l \in Tokens : l = login[s]
    BY <2>2 DEF IInv, TokensKnown, Live
  <2>4. Renewing(o, l)'
    BY <1>4, <2>1, <2>3 DEF Renewing
  <2>5. CASE l = f
    BY <1>4, <1>6, <2>2, <2>3, <2>5 DEF IInv, OneLiveTokenPerLogin
  <2>6. CASE l # f
    BY <1>7, <2>2, <2>3, <2>4, <2>6 DEF IInv, RenewedIsNotLive
  <2>7. QED
    BY <2>5, <2>6
<1>13. ASSUME NEW l \in Tokens, Ended(l) PROVE Ended(l)'
  <2>1. l # f
    BY <1>4, <1>6, <1>13 DEF Ended
  <2>2. \A o \in Requests : ~Renewing(o, l)'
    BY <1>7, <1>13, <2>1 DEF Ended
  <2>3. Issued(l)' /\ \A s \in Tokens : login'[s] = l => ~Live(s)'
    BY <1>4, <1>5, <1>13 DEF Ended
  <2>4. QED
    BY <2>2, <2>3 DEF Ended
<1>14. QED
  BY <1>8, <1>9, <1>10, <1>11, <1>12, <1>13 DEF IInv, Kept

\* CreateToken: the new token is live in a login that had no live token, its
\* own or the one q was renewing, and q no longer renews.
LEMMA CreateTokenKeeps ==
    ASSUME IInv, NEW q \in Requests, CreateToken(q)
    PROVE  Kept
<1>1. PICK u \in Users, b \in Browsers, from \in Tokens \cup {"none"} :
         /\ req[q].op = "issue" /\ req[q].user = u /\ req[q].browser = b /\ req[q].for = from
         /\ from # "none" => Issued(from) /\ Renewing(q, login[from])
  BY TaskFields DEF IInv, CreateToken, TokensKnown, Renewing
<1>2. PICK t \in Tokens :
         /\ ~Issued(t)
         /\ token' = [token EXCEPT ![t] = [user |-> u, revoked |-> FALSE, expired |-> FALSE]]
         /\ login' = [login EXCEPT ![t] = IF from = "none" THEN t ELSE login[from]]
         /\ Become(q, Answer(b, t))
         /\ cookie' = cookie
  BY <1>1 DEF CreateToken
<1>3. PICK l \in Tokens : l = IF from = "none" THEN t ELSE login[from]
  BY <1>1 DEF IInv, TokensKnown
<1>4. PICK task \in Task : task = Answer(b, t) /\ Become(q, task)
  <2>1. Answer(b, t) \in Task
    BY DEF Answer, Task
  <2>2. QED
    BY <1>2, <2>1 DEF Become
<1>5. /\ req' \in [Requests -> Task \cup {Idle}]
      /\ req'[q] = task
      /\ \A o \in Requests : o # q => req'[o] = req[o]
  BY <1>4, ReqMoved DEF IInv
<1>6. /\ token' \in [Tokens -> Row \cup {Unused}]
      /\ login' \in [Tokens -> Tokens \cup {"none"}]
      /\ login'[t] = l /\ Issued(t)' /\ Live(t)'
      /\ \A s \in Tokens \ {t} : /\ login'[s] = login[s]
                                 /\ Issued(s)' <=> Issued(s)
                                 /\ Live(s)' <=> Live(s)
  <2>1. [user |-> u, revoked |-> FALSE, expired |-> FALSE] \in Row \ {Unused}
    BY NoneAssumption DEF Row, Unused
  <2>2. token' \in [Tokens -> Row \cup {Unused}] /\ login' \in [Tokens -> Tokens \cup {"none"}]
    BY <1>2, <1>3, <2>1 DEF IInv, TypeOK
  <2>3. login'[t] = l /\ Issued(t)' /\ Live(t)'
    BY <1>2, <1>3, <2>1 DEF IInv, TypeOK, Issued, Live
  <2>4. \A s \in Tokens \ {t} : login'[s] = login[s] /\ token'[s] = token[s]
    BY <1>2 DEF IInv, TypeOK
  <2>5. QED
    BY <2>2, <2>3, <2>4 DEF Issued, Live
<1>7. /\ from = "none" => l = t
      /\ from # "none" => Issued(l) /\ l # t /\ Renewing(q, l)
  BY <1>1, <1>2, <1>3 DEF IInv, TokensKnown
<1>8. ASSUME NEW o \in Requests, NEW k \in Tokens, Renewing(o, k)'
      PROVE  Renewing(o, k) /\ o # q /\ k # l
  <2>1. o # q
    BY <1>4, <1>5, <1>8 DEF Renewing, Answer
  <2>2. /\ req[o].op = "issue" /\ req[o].for # "none" /\ login'[req[o].for] = k
        /\ req[o].for \in Tokens /\ Issued(req[o].for)
    BY <1>5, <1>8, <2>1, TaskFields DEF Renewing, IInv, TokensKnown
  <2>3. Renewing(o, k) /\ Issued(k)
    BY <1>2, <1>6, <2>2 DEF Renewing, IInv, TokensKnown
  <2>4. k # l
    BY <1>2, <1>7, <2>1, <2>3 DEF IInv, OneRenewal
  <2>5. QED
    BY <2>1, <2>3, <2>4
<1>9. \A s \in Tokens \ {t} : Live(s) => login[s] # l
  <2>1. SUFFICES ASSUME NEW s \in Tokens, Live(s), login[s] = l PROVE FALSE
    OBVIOUS
  <2>2. Issued(l)
    BY <2>1 DEF IInv, TokensKnown, Live
  <2>3. Renewing(q, login[s])
    BY <1>2, <1>7, <2>1, <2>2
  <2>4. QED
    BY <2>1, <2>3 DEF IInv, RenewedIsNotLive
<1>10. TypeOK'
  BY <1>2, <1>3, <1>5, <1>6, NoneAssumption DEF IInv, TypeOK
<1>11. TokensKnown'
  <2>1. \A s \in Tokens : Issued(s) => Issued(s)'
    BY <1>2, <1>6
  <2>2. \A s \in Tokens : Issued(s)' => login'[s] \in Tokens /\ Issued(login[s])'
    <3>1. SUFFICES ASSUME NEW s \in Tokens, Issued(s)'
                   PROVE  login'[s] \in Tokens /\ Issued(login[s])'
      OBVIOUS
    <3>2. PICK k \in Tokens : k = login'[s] /\ (k = t \/ Issued(k))
      BY <1>6, <1>7, <3>1 DEF IInv, TokensKnown
    <3>3. Issued(k)'
      BY <1>6, <2>1, <3>2
    <3>4. QED
      BY <3>2, <3>3 DEF Issued
  <2>3. \A c \in Browsers : cookie'[c] # "none" => Issued(cookie[c])'
    BY <1>2, <2>1 DEF IInv, TypeOK, TokensKnown
  <2>4. ASSUME NEW o \in Requests
        PROVE  /\ req'[o].op = "issue" /\ req'[o].for # "none" => Issued(req[o].for)'
               /\ req'[o].op \in {"revoke", "logout"} => Issued(req[o].token)'
               /\ req'[o].op = "answer" /\ req'[o].cookie # "none" => Issued(req[o].cookie)'
    <3>1. CASE o = q
      BY <1>4, <1>5, <1>6, <3>1 DEF Answer
    <3>2. CASE o # q
      BY <1>5, <2>1, <3>2, TaskFields DEF IInv, TokensKnown
    <3>3. QED
      BY <3>1, <3>2
  <2>5. QED
    BY <2>2, <2>3, <2>4 DEF TokensKnown
<1>12. OneLiveTokenPerLogin'
  BY <1>6, <1>9 DEF IInv, OneLiveTokenPerLogin
<1>13. OneRenewal'
  BY <1>8 DEF IInv, OneRenewal
<1>14. RenewedIsNotLive'
  <2>1. SUFFICES ASSUME NEW o \in Requests, NEW s \in Tokens, Renewing(o, login[s])', Live(s)'
                 PROVE  FALSE
    BY DEF RenewedIsNotLive
  <2>2. PICK k \in Tokens : k = login'[s]
    BY <1>6, <2>1 DEF IInv, TokensKnown, Live
  <2>3. Renewing(o, k)'
    BY <2>1, <2>2 DEF Renewing
  <2>4. Renewing(o, k) /\ k # l
    BY <1>8, <2>3
  <2>5. s # t /\ Live(s) /\ login[s] = k
    BY <1>6, <2>1, <2>2, <2>4
  <2>6. QED
    BY <2>4, <2>5 DEF IInv, RenewedIsNotLive
<1>15. ASSUME NEW k \in Tokens, Ended(k) PROVE Ended(k)'
  <2>1. k # l /\ k # t
    BY <1>2, <1>7, <1>15 DEF Ended
  <2>2. \A o \in Requests : ~Renewing(o, k)'
    BY <1>8, <1>15 DEF Ended
  <2>3. Issued(k)' /\ \A s \in Tokens : login'[s] = k => ~Live(s)'
    BY <1>6, <1>15, <2>1 DEF Ended
  <2>4. QED
    BY <2>2, <2>3 DEF Ended
<1>16. QED
  BY <1>10, <1>11, <1>12, <1>13, <1>14, <1>15 DEF IInv, Kept

\* A token that expires is as live as before: only revoking ends it.
LEMMA ExpireLive ==
    ASSUME IInv, Expire
    PROVE  \A s \in Tokens : (Issued(s)' <=> Issued(s)) /\ (Live(s)' <=> Live(s))
<1>1. PICK t \in Tokens : Issued(t) /\ token' = [token EXCEPT ![t] = [token[t] EXCEPT !.expired = TRUE]]
  BY DEF Expire
<1>2. [token[t] EXCEPT !.expired = TRUE] \in Row /\ [token[t] EXCEPT !.expired = TRUE].revoked = token[t].revoked
  BY <1>1, RowIsIssued DEF IInv, Row
<1>3. Unused \notin Row
  BY NoneAssumption DEF Unused, Row
<1>4. QED
  BY <1>1, <1>2, <1>3 DEF IInv, TypeOK, Issued, Live

-----------------------------------------------------------------------------
(* Theorems *)

\* The invariant holds before any login.
THEOREM InitIInv == Init => IInv
BY NoneAssumption
   DEF Init, IInv, TypeOK, TokensKnown, OneLiveTokenPerLogin, RenewedIsNotLive, OneRenewal,
       Renewing, Live, Issued, Idle

\* Every action keeps the invariant and revives no login that has ended.
THEOREM NextKeeps == IInv /\ [Next]_vars => Kept
<1> SUFFICES ASSUME IInv, [Next]_vars PROVE Kept
  OBVIOUS
<1>1. CASE UNCHANGED vars
  BY <1>1 DEF vars, Kept, IInv, TypeOK, TokensKnown, OneLiveTokenPerLogin, RenewedIsNotLive,
              OneRenewal, Renewing, Ended, Live, Issued
<1>2. ASSUME NEW q \in Requests, Login(q) PROVE Kept
  <2>1. PICK b \in Browsers, u \in Users : Become(q, Issue(b, u, "none"))
    BY <1>2 DEF Login
  <2>2. PICK task \in Task : task = Issue(b, u, "none") /\ Become(q, task)
    <3>1. Issue(b, u, "none") \in Task
      BY DEF Issue, Task
    <3>2. QED
      BY <2>1, <3>1 DEF Become
  <2>3. UNCHANGED <<token, cookie, login>>
    BY <1>2 DEF Login
  <2>4. QED
    BY <2>2, <2>3, OnlyRequestMoves DEF Issue, IInv, TypeOK, TokensKnown
<1>3. ASSUME NEW q \in Requests, Refresh(q) PROVE Kept
  <2>1. PICK b \in Browsers, t \in Tokens, u \in Users :
          /\ Issued(t)
          /\ Become(q, [op |-> "revoke", browser |-> b, user |-> u, token |-> t])
    <3>1. PICK b \in Browsers, t \in Tokens :
            /\ Issued(t)
            /\ Become(q, [op |-> "revoke", browser |-> b, user |-> token[t].user, token |-> t])
      BY <1>3 DEF Refresh, Active, Live
    <3>2. PICK u \in Users : u = token[t].user
      BY <3>1, RowIsIssued DEF IInv, Row
    <3>3. QED
      BY <3>1, <3>2 DEF Become
  <2>2. [op |-> "revoke", browser |-> b, user |-> u, token |-> t] \in Task
    BY DEF Task
  <2>3. UNCHANGED <<token, cookie, login>>
    BY <1>3 DEF Refresh
  <2>4. QED
    BY <2>1, <2>2, <2>3, OnlyRequestMoves DEF IInv, TypeOK, TokensKnown
<1>4. ASSUME NEW q \in Requests, Logout(q) PROVE Kept
  <2>1. PICK b \in Browsers, t \in Tokens :
          cookie[b] = t /\ Become(q, [op |-> "logout", browser |-> b, token |-> t])
    BY <1>4 DEF Logout
  <2>2. [op |-> "logout", browser |-> b, token |-> t] \in Task /\ Issued(t)
    BY <2>1, NoneAssumption DEF Task, IInv, TokensKnown
  <2>3. UNCHANGED <<token, cookie, login>>
    BY <1>4 DEF Logout
  <2>4. QED
    BY <2>1, <2>2, <2>3, OnlyRequestMoves DEF IInv, TypeOK, TokensKnown
<1>5. ASSUME NEW q \in Requests, RevokeByHash(q) PROVE Kept
  <2>1. PICK b \in Browsers, ts \in SUBSET Tokens :
          /\ Become(q, Answer(b, "none"))
          /\ token' = Revoked(ts)
          /\ \A t \in ts : Issued(t)
    <3>1. PICK b \in Browsers : b = req[q].browser
      BY <1>5, TaskFields DEF RevokeByHash, IInv
    <3>2. Become(q, Answer(b, "none"))
      BY <1>5, <3>1 DEF RevokeByHash
    <3>3. PICK ts \in SUBSET Tokens : ts = {req[q].token} \cap {t \in Tokens : Revocable(t)}
      OBVIOUS
    <3>4. token' = Revoked(ts)
      BY <1>5, <3>3 DEF RevokeByHash, Revoked
    <3>5. \A t \in ts : Issued(t)
      BY <3>3 DEF Revocable, Live
    <3>6. QED
      BY <3>2, <3>4, <3>5
  <2>2. UNCHANGED <<cookie, login>>
    BY <1>5 DEF RevokeByHash
  <2>3. QED
    BY <2>1, <2>2, TokensRevoked
<1>6. ASSUME NEW q \in Requests, LogoutAll(q) PROVE Kept
  <2>1. PICK b \in Browsers, ts \in SUBSET Tokens :
          /\ Become(q, Answer(b, "none"))
          /\ token' = Revoked(ts)
          /\ \A t \in ts : Issued(t)
    <3>1. PICK b \in Browsers, u \in Users :
            /\ token' = Revoked({t \in Tokens : Revocable(t) /\ token[t].user = u})
            /\ Become(q, Answer(b, "none"))
      BY <1>6 DEF LogoutAll
    <3>2. PICK ts \in SUBSET Tokens : ts = {t \in Tokens : Revocable(t) /\ token[t].user = u}
      OBVIOUS
    <3>3. token' = Revoked(ts)
      BY <3>1, <3>2 DEF Revoked
    <3>4. \A t \in ts : Issued(t)
      BY <3>2 DEF Revocable, Live
    <3>5. QED
      BY <3>1, <3>3, <3>4
  <2>2. UNCHANGED <<cookie, login>>
    BY <1>6 DEF LogoutAll
  <2>3. QED
    BY <2>1, <2>2, TokensRevoked
<1>7. ASSUME NEW q \in Requests, SetCookie(q) PROVE Kept
  <2>1. PICK b \in Browsers, value \in Tokens \cup {"none"} :
          /\ cookie' = [cookie EXCEPT ![b] = value]
          /\ value # "none" => Issued(value)
    BY <1>7, TaskFields DEF SetCookie, IInv, TokensKnown
  <2>2. /\ cookie' \in [Browsers -> Tokens \cup {"none"}]
        /\ \A c \in Browsers : cookie'[c] # "none" => Issued(cookie'[c])
    BY <2>1 DEF IInv, TypeOK, TokensKnown
  <2>3. UNCHANGED <<token, login>> /\ Become(q, Idle) /\ Idle.op = "idle"
    BY <1>7 DEF SetCookie, Idle
  <2>4. QED
    BY <2>2, <2>3, OnlyRequestMoves
<1>8. ASSUME NEW q \in Requests, Abandon(q) PROVE Kept
  <2>1. UNCHANGED <<token, cookie, login>> /\ Become(q, Idle) /\ Idle.op = "idle"
    BY <1>8 DEF Abandon, Idle
  <2>2. QED
    BY <2>1, OnlyRequestMoves DEF IInv, TypeOK, TokensKnown
<1>9. CASE Expire
  <2>1. PICK t \in Tokens : Issued(t) /\ token' = [token EXCEPT ![t] = [token[t] EXCEPT !.expired = TRUE]]
    BY <1>9 DEF Expire
  <2>2. UNCHANGED <<cookie, req, login>>
    BY <1>9 DEF Expire
  <2>3. [token[t] EXCEPT !.expired = TRUE] \in Row
    BY <2>1, RowIsIssued DEF IInv, Row
  <2>4. \A s \in Tokens : (Issued(s)' <=> Issued(s)) /\ (Live(s)' <=> Live(s))
    BY <1>9, ExpireLive
  <2>5. TypeOK'
    BY <2>1, <2>2, <2>3, <2>4 DEF IInv, TypeOK
  <2>6. TokensKnown'
    BY <2>2, <2>4, TaskFields DEF IInv, TypeOK, TokensKnown
  <2>7. \A o \in Requests, l \in Tokens : Renewing(o, l)' => Renewing(o, l)
    BY <2>2 DEF Renewing
  <2>8. QED
    BY <2>2, <2>4, <2>5, <2>6, <2>7, NothingRevived DEF IInv, Kept
<1>10. ASSUME NEW q \in Requests, LogoutWithoutCookie(q) PROVE Kept
  <2>1. PICK b \in Browsers : Become(q, Answer(b, "none"))
    BY <1>10 DEF LogoutWithoutCookie
  <2>2. PICK task \in Task : task = Answer(b, "none") /\ Become(q, task)
    <3>1. Answer(b, "none") \in Task
      BY DEF Answer, Task
    <3>2. QED
      BY <2>1, <3>1 DEF Become
  <2>3. UNCHANGED <<token, cookie, login>>
    BY <1>10 DEF LogoutWithoutCookie
  <2>4. QED
    BY <2>2, <2>3, OnlyRequestMoves DEF Answer, IInv, TypeOK, TokensKnown
<1>11. QED
  BY <1>1, <1>2, <1>3, <1>4, <1>5, <1>6, <1>7, <1>8, <1>9, <1>10, RotateKeeps, CreateTokenKeeps DEF Next

\* The invariant of the specification.
THEOREM Invariance == Spec => []IInv
<1>1. IInv /\ [Next]_vars => IInv'
  BY NextKeeps DEF Kept
<1>2. QED
  BY InitIInv, <1>1, PTL DEF Spec

\* Every reachable state is well typed.
THEOREM TypeCorrect == Spec => []TypeOK
BY Invariance, PTL DEF IInv

\* Rotation never forks a login, however many requests race.
THEOREM RotationIsLinear == Spec => []OneLiveTokenPerLogin
BY Invariance, PTL DEF IInv

\* No late refresh revives a login that has ended.
THEOREM EndIsFinal == Spec => EndedStaysEnded
<1>1. IInv /\ [Next]_vars => [\A l \in Tokens : Ended(l) => Ended(l)']_vars
  BY NextKeeps DEF Kept
<1>2. QED
  BY Invariance, <1>1, PTL DEF Spec, EndedStaysEnded

\* A logout revokes through Revoked, and its request then only answers.
LEMMA LogoutRevokes ==
    ASSUME IInv, NEW q \in Requests, RevokeByHash(q) \/ LogoutAll(q)
    PROVE  /\ login' = login
           /\ \A t \in Tokens : (Issued(t)' <=> Issued(t)) /\ (Live(t)' => Live(t))
           /\ \A o \in Requests, l \in Tokens : Renewing(o, l)' <=> Renewing(o, l)
<1>1. PICK ts \in SUBSET Tokens : token' = Revoked(ts) /\ \A t \in ts : Issued(t)
  <2>1. CASE RevokeByHash(q)
    <3>1. PICK ts \in SUBSET Tokens : ts = {req[q].token} \cap {t \in Tokens : Revocable(t)}
      OBVIOUS
    <3>2. QED
      BY <2>1, <3>1 DEF RevokeByHash, Revoked, Revocable, Live
  <2>2. CASE LogoutAll(q)
    <3>1. PICK u \in Users :
            token' = Revoked({t \in Tokens : Revocable(t) /\ token[t].user = u})
      BY <2>2 DEF LogoutAll
    <3>2. PICK ts \in SUBSET Tokens : ts = {t \in Tokens : Revocable(t) /\ token[t].user = u}
      OBVIOUS
    <3>3. QED
      BY <3>1, <3>2 DEF Revoked, Revocable, Live
  <2>3. QED
    BY <2>1, <2>2
<1>2. \A t \in Tokens : (Issued(t)' <=> Issued(t)) /\ (Live(t)' => Live(t))
  BY <1>1, RevokedRows DEF IInv
<1>3. login' = login
  BY DEF RevokeByHash, LogoutAll
<1>4. PICK b : Become(q, Answer(b, "none"))
  BY DEF RevokeByHash, LogoutAll
<1>5. \A o \in Requests : o = q \/ req'[o] = req[o]
  BY <1>4 DEF Become, IInv, TypeOK
<1>6. req'[q].op = "answer" /\ req[q].op # "issue"
  BY <1>4 DEF Become, Answer, IInv, TypeOK, RevokeByHash, LogoutAll, Idle
<1>7. \A o \in Requests, l \in Tokens : Renewing(o, l)' <=> Renewing(o, l)
  BY <1>3, <1>5, <1>6 DEF Renewing
<1>8. QED
  BY <1>2, <1>3, <1>7

\* A logout that revokes a token ends its login.
LEMMA LogoutEnds ==
    ASSUME IInv, NEW q \in Requests, NEW l \in Tokens, NEW t \in Tokens,
           RevokeByHash(q) \/ LogoutAll(q), login[t] = l, Live(t), ~Live(t)'
    PROVE  Ended(l)'
<1>1. /\ login' = login
      /\ \A s \in Tokens : (Issued(s)' <=> Issued(s)) /\ (Live(s)' => Live(s))
      /\ \A o \in Requests : Renewing(o, l)' => Renewing(o, l)
  BY LogoutRevokes
<1>2. \A s \in Tokens : login[s] = l /\ Live(s) => s = t
  BY DEF IInv, OneLiveTokenPerLogin
<1>3. \A o \in Requests : ~Renewing(o, l)
  BY DEF IInv, RenewedIsNotLive
<1>4. Issued(l)
  BY DEF IInv, TokensKnown, Live
<1>5. \A s \in Tokens : login'[s] = l => ~Live(s)'
  BY <1>1, <1>2
<1>6. QED
  BY <1>1, <1>3, <1>4, <1>5 DEF Ended

\* A logout leaves nothing of a login it revokes a token of.
THEOREM LogoutIsComplete == Spec => LogoutEndsWhatItRevokes
<1>1. IInv => [\A q \in Requests, l, t \in Tokens :
                (RevokeByHash(q) \/ LogoutAll(q)) /\ login[t] = l /\ Live(t) /\ ~Live(t)'
                    => Ended(l)']_vars
  BY LogoutEnds
<1>2. QED
  BY Invariance, <1>1, PTL DEF Spec, LogoutEndsWhatItRevokes

-----------------------------------------------------------------------------
(* Sessions implements LoginHolders *)

\* The refinement mapping of Logins, by name.
Begun == {l \in Tokens : login[l] = l}

Held(l) ==
    ({"token"} \X {t \in Tokens : Live(t) /\ login[t] = l})
        \cup ({"request"} \X {q \in Requests : Renewing(q, l)})

HeldNow == [l \in Tokens |-> Held(l)]

\* The holders of a login, one by one.
LEMMA HoldersAre ==
    ASSUME NEW l
    PROVE  \A h : h \in Held(l) <=>
                     \/ \E t \in Tokens : h = <<"token", t>> /\ Live(t) /\ login[t] = l
                     \/ \E q \in Requests : h = <<"request", q>> /\ Renewing(q, l)
BY DEF Held

\* A login keeps its holders when its live tokens and its renewal stay.
LEMMA HeldAlike ==
    ASSUME NEW l \in Tokens,
           \A t \in Tokens : (Live(t) /\ login[t] = l)' <=> (Live(t) /\ login[t] = l),
           \A q \in Requests : Renewing(q, l)' <=> Renewing(q, l)
    PROVE  Held(l)' = Held(l)
<1>1. {t \in Tokens : Live(t) /\ login[t] = l}' = {t \in Tokens : Live(t) /\ login[t] = l}
  OBVIOUS
<1>2. {q \in Requests : Renewing(q, l)}' = {q \in Requests : Renewing(q, l)}
  OBVIOUS
<1>3. QED
  BY <1>1, <1>2 DEF Held

\* A step after which some logins have no holder and the others have the ones they
\* had before ends the first.
LEMMA EndStep ==
    ASSUME login' = login, NEW ls \in SUBSET Tokens,
           \A l \in ls : /\ \A t \in Tokens : login[t] = l => ~Live(t)'
                         /\ \A q \in Requests : ~Renewing(q, l)',
           \A t \in Tokens : login[t] \notin ls => (Live(t)' <=> Live(t)),
           \A q \in Requests, l \in Tokens \ ls : Renewing(q, l)' <=> Renewing(q, l)
    PROVE  Logins!Next
<1>1. ASSUME NEW l \in ls
      PROVE  Held(l)' = {}
  <2>1. {t \in Tokens : Live(t) /\ login[t] = l}' = {}
    OBVIOUS
  <2>2. {q \in Requests : Renewing(q, l)}' = {}
    OBVIOUS
  <2>3. QED
    BY <2>1, <2>2 DEF Held
<1>2. ASSUME NEW l \in Tokens \ ls
      PROVE  Held(l)' = Held(l)
  BY HeldAlike
<1>3. HeldNow' = [l \in Tokens |-> IF l \in ls THEN {} ELSE HeldNow[l]]
  BY <1>1, <1>2 DEF HeldNow
<1>4. Begun' = Begun
  BY DEF Begun
<1>5. Logins!End(ls)
  BY <1>3, <1>4 DEF Logins!End, HeldNow, Held, Begun
<1>6. QED
  BY <1>5 DEF Logins!Next

\* A step that touches no live token and no renewal changes no login.
LEMMA QuietStep ==
    ASSUME login' = login,
           \A t \in Tokens : Live(t)' <=> Live(t),
           \A q \in Requests, l \in Tokens : Renewing(q, l)' <=> Renewing(q, l)
    PROVE  Logins!Next
<1>1. PICK ls \in SUBSET Tokens : ls = {}
  OBVIOUS
<1>2. QED
  BY <1>1, EndStep

\* A request that renews nothing before it moves and nothing after.
LEMMA OthersRenew ==
    ASSUME IInv, NEW q \in Requests, NEW task, Become(q, task), login' = login,
           task.op # "issue" \/ task.for = "none"
    PROVE  /\ \A l \in Tokens : ~Renewing(q, l)'
           /\ \A o \in Requests \ {q}, l \in Tokens : Renewing(o, l)' <=> Renewing(o, l)
<1>1. req'[q] = task /\ \A o \in Requests \ {q} : req'[o] = req[o]
  BY DEF Become, IInv, TypeOK
<1>2. QED
  BY <1>1 DEF Renewing

\* A request that is given up while it renews a login was all that held it.
LEMMA AbandonStep ==
    ASSUME IInv, NEW q \in Requests, Abandon(q)
    PROVE  Logins!Next
<1>1. /\ login' = login
      /\ \A t \in Tokens : Live(t)' <=> Live(t)
      /\ Become(q, Idle)
  BY DEF Abandon, Live, Issued
<1>2. /\ \A l \in Tokens : ~Renewing(q, l)'
      /\ \A o \in Requests \ {q}, l \in Tokens : Renewing(o, l)' <=> Renewing(o, l)
  BY <1>1, OthersRenew DEF Idle
<1>3. PICK ls \in SUBSET Tokens : ls = {l \in Tokens : Renewing(q, l)}
  OBVIOUS
<1>4. ASSUME NEW l \in ls
      PROVE  /\ \A t \in Tokens : login[t] = l => ~Live(t)'
             /\ \A o \in Requests : ~Renewing(o, l)'
  BY <1>1, <1>2, <1>3 DEF IInv, RenewedIsNotLive, OneRenewal
<1>5. \A o \in Requests, l \in Tokens \ ls : Renewing(o, l)' <=> Renewing(o, l)
  BY <1>2, <1>3
<1>6. QED
  BY <1>1, <1>4, <1>5, EndStep

\* A logout ends the logins of the tokens it revokes.
LEMMA LogoutStep ==
    ASSUME IInv, NEW q \in Requests, RevokeByHash(q) \/ LogoutAll(q)
    PROVE  Logins!Next
<1>1. /\ login' = login
      /\ \A t \in Tokens : Live(t)' => Live(t)
      /\ \A o \in Requests, l \in Tokens : Renewing(o, l)' <=> Renewing(o, l)
  BY LogoutRevokes
<1>2. PICK ls \in SUBSET Tokens :
         ls = {l \in Tokens : \E t \in Tokens : login[t] = l /\ Live(t) /\ ~Live(t)'}
  OBVIOUS
<1>3. ASSUME NEW l \in ls
      PROVE  /\ \A t \in Tokens : login[t] = l => ~Live(t)'
             /\ \A o \in Requests : ~Renewing(o, l)'
  BY <1>1, <1>2, LogoutEnds DEF Ended
<1>4. ASSUME NEW t \in Tokens, login[t] \notin ls
      PROVE  Live(t)' <=> Live(t)
  BY <1>1, <1>2, <1>4 DEF IInv, TokensKnown, Live
<1>5. QED
  BY <1>1, <1>3, <1>4, EndStep

\* A step that gives one login its only holder, hands it on if it was held.
LEMMA HolderStep ==
    ASSUME NEW l \in Tokens, NEW h \in ({"token"} \X Tokens) \cup ({"request"} \X Requests),
           Held(l)' = {h}, \A k \in Tokens \ {l} : Held(k)' = Held(k),
           \/ Begun' = Begun /\ Held(l) # {}
           \/ Begun' = Begun \cup {l} /\ l \notin Begun
    PROVE  Logins!Next
<1>1. HeldNow' = [HeldNow EXCEPT ![l] = {h}]
  BY DEF HeldNow
<1>2. Logins!Begin(l, h) \/ Logins!HandOn(l, h)
  BY <1>1 DEF Logins!Begin, Logins!HandOn, HeldNow, Held, Begun
<1>3. QED
  BY <1>2 DEF Logins!Next

\* Rotate hands the login from its token to the request.
LEMMA RotateStep ==
    ASSUME IInv, NEW q \in Requests, Rotate(q)
    PROVE  Logins!Next
<1>1. PICK t \in Tokens, f \in Tokens : t = req[q].token /\ f = login[t] /\ Issued(t)
  BY TaskFields DEF IInv, Rotate, TokensKnown
<1>2. Live(t) /\ token' = Revoked({t}) /\ login' = login
  BY <1>1 DEF Rotate, Revocable
<1>3. \A s \in Tokens : Live(s)' <=> (Live(s) /\ s # t)
  BY <1>1, <1>2, RevokedRows DEF IInv
<1>4. /\ req'[q] = Issue(req[q].browser, req[q].user, t)
      /\ \A o \in Requests \ {q} : req'[o] = req[o]
  BY <1>1 DEF Rotate, Become, IInv, TypeOK
<1>5. /\ \A l \in Tokens : Renewing(q, l)' <=> l = f
      /\ \A o \in Requests \ {q}, l \in Tokens : Renewing(o, l)' <=> Renewing(o, l)
  BY <1>1, <1>2, <1>4, NoneAssumption DEF Renewing, Issue
<1>6. \A l \in Tokens : ~Renewing(q, l)
  BY DEF Rotate, Renewing
<1>7. Held(f)' = {<<"request", q>>}
  <2>1. \A s \in Tokens : login[s] = f => ~Live(s)'
    BY <1>1, <1>2, <1>3 DEF IInv, OneLiveTokenPerLogin
  <2>2. \A o \in Requests : Renewing(o, f)' <=> o = q
    BY <1>1, <1>2, <1>5 DEF IInv, RenewedIsNotLive
  <2>3. {s \in Tokens : Live(s) /\ login[s] = f}' = {}
    BY <1>2, <2>1
  <2>4. {o \in Requests : Renewing(o, f)}' = {q}
    BY <2>2
  <2>5. QED
    BY <2>3, <2>4 DEF Held
<1>8. ASSUME NEW k \in Tokens \ {f}
      PROVE  Held(k)' = Held(k)
  BY <1>1, <1>2, <1>3, <1>5, <1>6, HeldAlike
<1>9. Held(f) # {}
  BY <1>1, <1>2, HoldersAre
<1>10. Begun' = Begun
  BY <1>2 DEF Begun
<1>11. QED
  BY <1>7, <1>8, <1>9, <1>10, HolderStep

\* CreateToken begins a login with its first token, or hands one on to the next.
LEMMA CreateTokenStep ==
    ASSUME IInv, NEW q \in Requests, CreateToken(q)
    PROVE  Logins!Next
<1>1. PICK from \in Tokens \cup {"none"} :
         /\ req[q].op = "issue" /\ req[q].for = from
         /\ from # "none" => Issued(from) /\ Renewing(q, login[from])
  BY TaskFields DEF IInv, CreateToken, TokensKnown, Renewing
<1>2. PICK t \in Tokens :
         /\ ~Issued(t)
         /\ token' = [token EXCEPT ![t] =
                         [user |-> req[q].user, revoked |-> FALSE, expired |-> FALSE]]
         /\ login' = [login EXCEPT ![t] = IF from = "none" THEN t ELSE login[from]]
         /\ Become(q, Answer(req[q].browser, t))
  BY <1>1 DEF CreateToken
<1>3. PICK l \in Tokens : l = IF from = "none" THEN t ELSE login[from]
  BY <1>1 DEF IInv, TokensKnown
<1>4. /\ login'[t] = l /\ Live(t)'
      /\ \A s \in Tokens \ {t} : login'[s] = login[s] /\ (Live(s)' <=> Live(s))
  <2>1. req[q].user # "none"
    BY <1>1, TaskFields, NoneAssumption DEF IInv
  <2>2. token'[t] = [user |-> req[q].user, revoked |-> FALSE, expired |-> FALSE]
    BY <1>2 DEF IInv, TypeOK
  <2>3. Live(t)'
    BY <2>1, <2>2 DEF Live, Issued, Unused
  <2>4. \A s \in Tokens \ {t} : login'[s] = login[s] /\ token'[s] = token[s]
    BY <1>2 DEF IInv, TypeOK
  <2>5. login'[t] = l
    BY <1>2, <1>3 DEF IInv, TypeOK
  <2>6. QED
    BY <2>3, <2>4, <2>5 DEF Live, Issued
<1>5. /\ from = "none" => l = t
      /\ from # "none" => Issued(l) /\ l # t /\ Renewing(q, l)
  BY <1>1, <1>2, <1>3 DEF IInv, TokensKnown
<1>6. login[t] = "none" /\ "none" \notin Tokens
  BY <1>2, NoneAssumption DEF IInv, TypeOK
<1>7. /\ req'[q].op = "answer"
      /\ \A o \in Requests \ {q} : req'[o] = req[o]
  BY <1>2 DEF Become, Answer, IInv, TypeOK
<1>8. ASSUME NEW o \in Requests \ {q}, NEW k \in Tokens
      PROVE  Renewing(o, k)' <=> Renewing(o, k)
  <2>1. req[o].op = "issue" /\ req[o].for # "none" => req[o].for \in Tokens \ {t}
    BY <1>2, TaskFields DEF IInv, TokensKnown
  <2>2. QED
    BY <1>4, <1>7, <2>1 DEF Renewing
<1>9. \A k \in Tokens : ~Renewing(q, k)' /\ (Renewing(q, k) => k = l /\ from # "none")
  BY <1>1, <1>3, <1>7 DEF Renewing
<1>10. \A o \in Requests : ~Renewing(o, l)'
  <2>1. ASSUME NEW o \in Requests \ {q}, Renewing(o, l)
        PROVE  FALSE
    <3>1. Issued(l)
      BY <2>1, TaskFields DEF Renewing, IInv, TokensKnown
    <3>2. Renewing(q, l)
      BY <1>2, <1>5, <3>1
    <3>3. QED
      BY <2>1, <3>2 DEF IInv, OneRenewal
  <2>2. QED
    BY <1>8, <1>9, <2>1
<1>11. \A s \in Tokens : (Live(s) /\ login[s] = l)' <=> s = t
  <2>1. ASSUME NEW s \in Tokens \ {t}, Live(s), login[s] = l
        PROVE  FALSE
    <3>1. Issued(l)
      BY <2>1 DEF IInv, TokensKnown, Live
    <3>2. Renewing(q, login[s])
      BY <1>2, <1>5, <2>1, <3>1
    <3>3. QED
      BY <2>1, <3>2 DEF IInv, RenewedIsNotLive
  <2>2. QED
    BY <1>4, <2>1
<1>12. Held(l)' = {<<"token", t>>}
  <2>1. {s \in Tokens : Live(s) /\ login[s] = l}' = {t}
    BY <1>11
  <2>2. {o \in Requests : Renewing(o, l)}' = {}
    BY <1>10
  <2>3. QED
    BY <2>1, <2>2 DEF Held
<1>13. ASSUME NEW k \in Tokens \ {l}
       PROVE  Held(k)' = Held(k)
  <2>1. \A s \in Tokens : (Live(s) /\ login[s] = k)' <=> (Live(s) /\ login[s] = k)
    BY <1>4, <1>6
  <2>2. \A o \in Requests : Renewing(o, k)' <=> Renewing(o, k)
    BY <1>8, <1>9
  <2>3. QED
    BY <2>1, <2>2, HeldAlike
<1>14. \/ Begun' = Begun /\ Held(l) # {}
       \/ Begun' = Begun \cup {l} /\ l \notin Begun
  <2>1. CASE from = "none"
    BY <1>4, <1>5, <1>6, <2>1 DEF Begun
  <2>2. CASE from # "none"
    <3>1. Begun' = Begun
      BY <1>4, <1>5, <1>6, <2>2 DEF Begun
    <3>2. Held(l) # {}
      BY <1>5, <2>2, HoldersAre
    <3>3. QED
      BY <3>1, <3>2
  <2>3. QED
    BY <2>1, <2>2
<1>15. QED
  BY <1>12, <1>13, <1>14, HolderStep

\* The other actions leave the logins alone.
LEMMA OtherStep ==
    ASSUME IInv, NEW q \in Requests,
           \/ Login(q) \/ Refresh(q) \/ Logout(q) \/ LogoutWithoutCookie(q) \/ SetCookie(q)
    PROVE  Logins!Next
<1>1. UNCHANGED <<token, login>> /\ req[q].op # "issue"
  BY DEF Login, Refresh, Logout, LogoutWithoutCookie, SetCookie, Idle
<1>2. PICK task : Become(q, task) /\ (task.op # "issue" \/ task.for = "none")
  <2>1. CASE Login(q)
    BY <2>1 DEF Login, Issue
  <2>2. CASE Refresh(q)
    BY <2>2 DEF Refresh
  <2>3. CASE Logout(q)
    BY <2>3 DEF Logout
  <2>4. CASE LogoutWithoutCookie(q)
    BY <2>4 DEF LogoutWithoutCookie, Answer
  <2>5. CASE SetCookie(q)
    BY <2>5 DEF SetCookie, Idle
  <2>6. QED
    BY <2>1, <2>2, <2>3, <2>4, <2>5
<1>3. \A o \in Requests, l \in Tokens : Renewing(o, l)' <=> Renewing(o, l)
  <2>1. \A l \in Tokens : ~Renewing(q, l)
    BY <1>1 DEF Renewing
  <2>2. QED
    BY <1>1, <1>2, <2>1, OthersRenew
<1>4. QED
  BY <1>1, <1>3, QuietStep DEF Live, Issued

\* Every behaviour of the refresh tokens is one of the abstract logins: each is held
\* by one token or one exchange at a time, handed on and never revived.
THEOREM ImplementsLogins == Spec => LoginsSpec
<1>1. Init => Logins!Init
  <2>1. SUFFICES ASSUME Init PROVE Logins!Init
    OBVIOUS
  <2>2. \A t \in Tokens : ~Live(t) /\ login[t] # t
    BY <2>1, NoneAssumption DEF Init, Live, Issued
  <2>3. \A q \in Requests, l \in Tokens : ~Renewing(q, l)
    BY <2>1 DEF Init, Renewing, Idle
  <2>4. HeldNow = [l \in Tokens |-> {}] /\ Begun = {}
    BY <2>2, <2>3 DEF HeldNow, Held, Begun
  <2>5. QED
    BY <2>4 DEF Logins!Init, HeldNow, Held, Begun
<1>2. ASSUME IInv, [Next]_vars
      PROVE  Logins!Next
  <2>1. CASE UNCHANGED vars
    BY <2>1, QuietStep DEF vars, Live, Issued, Renewing
  <2>2. CASE Expire
    <3>1. \A t \in Tokens : Live(t)' <=> Live(t)
      BY <1>2, <2>2, ExpireLive
    <3>2. QED
      BY <2>2, <3>1, QuietStep DEF Expire, Renewing
  <2>3. QED
    BY <1>2, <2>1, <2>2, AbandonStep, LogoutStep, RotateStep, CreateTokenStep, OtherStep
       DEF Next
<1>3. QED
  BY <1>1, <1>2, Invariance, PTL DEF Spec, LoginsSpec, Logins!Spec

\* A login never has two holders, be it tokens or requests.
THEOREM LoginsHaveOneHolder == Spec => []Logins!OneHolder
<1>1. ASSUME IInv, NEW l \in Tokens, NEW h \in Held(l), NEW o \in Held(l)
      PROVE  h = o
  <2>1. \A s, t \in Tokens : Live(s) /\ Live(t) /\ login[s] = l /\ login[t] = l => s = t
    BY <1>1 DEF IInv, OneLiveTokenPerLogin
  <2>2. \A p, q \in Requests : Renewing(p, l) /\ Renewing(q, l) => p = q
    BY <1>1 DEF IInv, OneRenewal
  <2>3. \A t \in Tokens, q \in Requests : ~(Live(t) /\ login[t] = l /\ Renewing(q, l))
    BY <1>1 DEF IInv, RenewedIsNotLive
  <2>4. QED
    BY <2>1, <2>2, <2>3, HoldersAre
<1>2. IInv => Logins!OneHolder
  BY <1>1 DEF Logins!OneHolder, Held
<1>3. QED
  BY <1>2, Invariance, PTL
=============================================================================
