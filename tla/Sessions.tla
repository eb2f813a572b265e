------------------------------ MODULE Sessions ------------------------------
(***************************************************************************)
(* Refresh tokens (auth_tokens) and the cookie that carries them.  A login *)
(* issues one; a refresh exchanges it for a new one in three statements    *)
(* that no transaction binds: find the active row, revoke it, insert the   *)
(* successor.  Logouts, logins and other refreshes run in between, the     *)
(* answers reach the browser in any order or not at all.                   *)
(*                                                                         *)
(* Access tokens are signed and stateless: no row is read to accept one.   *)
(* login is a history variable, no guard reads it.                         *)
(***************************************************************************)
CONSTANTS
    Users,      \* users whose e-mail address is verified
    Browsers,   \* cookie jars; the tabs of a browser share one
    Tokens,     \* ids of auth_tokens rows
    Requests    \* HTTP requests that can be in flight at the same time

ASSUME NoneAssumption == "none" \notin Tokens /\ "none" \notin Users

VARIABLES
    token,      \* the auth_tokens rows
    cookie,     \* rent_car_refresh_token in each browser, "none" when cleared
    req,        \* what each request still has to do
    login       \* history: the first token of the login a token continues

vars == <<token, cookie, req, login>>

-----------------------------------------------------------------------------
(* Rows and requests *)

Row    == [user : Users, revoked : BOOLEAN, expired : BOOLEAN]
Unused == [user |-> "none"]

Issued(t) == token[t] # Unused
Live(t)   == Issued(t) /\ ~token[t].revoked
Active(t) == Live(t) /\ ~token[t].expired

Idle == [op |-> "idle"]
Task == [op : {"issue"}, browser : Browsers, user : Users, for : Tokens \cup {"none"}]
        \cup [op : {"revoke"}, browser : Browsers, user : Users, token : Tokens]
        \cup [op : {"logout"}, browser : Browsers, token : Tokens]
        \cup [op : {"answer"}, browser : Browsers, cookie : Tokens \cup {"none"}]

Init ==
    /\ token  = [t \in Tokens |-> Unused]
    /\ cookie = [b \in Browsers |-> "none"]
    /\ req    = [q \in Requests |-> Idle]
    /\ login  = [t \in Tokens |-> "none"]

Become(q, task) == req' = [req EXCEPT ![q] = task]

\* createAuthResponse has been called, for a login or for a revoked token.
Issue(b, user, for) == [op |-> "issue", browser |-> b, user |-> user, for |-> for]

\* The handler has answered, with Set-Cookie; the browser has yet to see it.
Answer(b, value) == [op |-> "answer", browser |-> b, cookie |-> value]

-----------------------------------------------------------------------------
(* Login and refresh *)

\* A password was right, or an e-mail code was.
Login(q) ==
    /\ req[q] = Idle
    /\ \E b \in Browsers, u \in Users : Become(q, Issue(b, u, "none"))
    /\ UNCHANGED <<token, cookie, login>>

CreateToken(q) ==
    /\ req[q].op = "issue"
    /\ \E t \in Tokens :
        /\ ~Issued(t)
        /\ token' = [token EXCEPT ![t] =
                        [user |-> req[q].user, revoked |-> FALSE, expired |-> FALSE]]
        /\ login' = [login EXCEPT ![t] =
                        IF req[q].for = "none" THEN t ELSE login[req[q].for]]
        /\ Become(q, Answer(req[q].browser, t))
    /\ UNCHANGED cookie

\* The browser sends its cookie and Refresh finds the active row and its user.
Refresh(q) ==
    /\ req[q] = Idle
    /\ \E b \in Browsers, t \in Tokens :
        /\ cookie[b] = t
        /\ Active(t)
        /\ Become(q, [op |-> "revoke", browser |-> b, user |-> token[t].user, token |-> t])
    /\ UNCHANGED <<token, cookie, login>>

\* Mutant: the UPDATE without AND revoked_at IS NULL.
RevocableIfIssued(t) == Issued(t)

Revocable(t) == Live(t)

\* Mutant: DELETE instead of UPDATE.
RevokedByDelete(ts) == [t \in Tokens |-> IF t \in ts THEN Unused ELSE token[t]]

Revoked(ts) ==
    [t \in Tokens |-> IF t \in ts THEN [token[t] EXCEPT !.revoked = TRUE] ELSE token[t]]

\* Mutant: the error of a token already revoked is dropped, as Logout drops it.
RotateAnyway(q) ==
    /\ req[q].op = "revoke"
    /\ token' = Revoked({req[q].token})
    /\ Become(q, Issue(req[q].browser, req[q].user, req[q].token))
    /\ UNCHANGED <<cookie, login>>

\* The old token is revoked, unless another request has done so.
Rotate(q) ==
    /\ req[q].op = "revoke"
    /\ Revocable(req[q].token)
    /\ token' = Revoked({req[q].token})
    /\ Become(q, Issue(req[q].browser, req[q].user, req[q].token))
    /\ UNCHANGED <<cookie, login>>

-----------------------------------------------------------------------------
(* Logout *)

\* The browser sends the cookie it has now.
Logout(q) ==
    /\ req[q] = Idle
    /\ \E b \in Browsers, t \in Tokens :
        /\ cookie[b] = t
        /\ Become(q, [op |-> "logout", browser |-> b, token |-> t])
    /\ UNCHANGED <<token, cookie, login>>

\* Without a cookie there is nothing to revoke, but the answer clears one.
LogoutWithoutCookie(q) ==
    /\ req[q] = Idle
    /\ \E b \in Browsers : cookie[b] = "none" /\ Become(q, Answer(b, "none"))
    /\ UNCHANGED <<token, cookie, login>>

\* A token that is already revoked is no error: the answer is the same.
RevokeByHash(q) ==
    /\ req[q].op = "logout"
    /\ token' = Revoked({req[q].token} \cap {t \in Tokens : Revocable(t)})
    /\ Become(q, Answer(req[q].browser, "none"))
    /\ UNCHANGED <<cookie, login>>

\* The user is the one of an access token, whatever cookie the browser has.
LogoutAll(q) ==
    /\ req[q] = Idle
    /\ \E b \in Browsers, u \in Users :
        /\ token' = Revoked({t \in Tokens : Revocable(t) /\ token[t].user = u})
        /\ Become(q, Answer(b, "none"))
    /\ UNCHANGED <<cookie, login>>

-----------------------------------------------------------------------------
(* Answers, failures and time *)

SetCookie(q) ==
    /\ req[q].op = "answer"
    /\ cookie' = [cookie EXCEPT ![req[q].browser] = req[q].cookie]
    /\ Become(q, Idle)
    /\ UNCHANGED <<token, login>>

\* A refusal (no cookie is set), a database error, a lost answer, a crash.
Abandon(q) ==
    /\ req[q] # Idle
    /\ Become(q, Idle)
    /\ UNCHANGED <<token, cookie, login>>

\* expires_at passes.
Expire ==
    /\ \E t \in Tokens :
        /\ Issued(t)
        /\ ~token[t].expired
        /\ token' = [token EXCEPT ![t] = [token[t] EXCEPT !.expired = TRUE]]
    /\ UNCHANGED <<cookie, req, login>>

Next ==
    \/ \E q \in Requests :
        \/ Login(q) \/ CreateToken(q) \/ Refresh(q) \/ Rotate(q)
        \/ Logout(q) \/ LogoutWithoutCookie(q) \/ RevokeByHash(q) \/ LogoutAll(q)
        \/ SetCookie(q) \/ Abandon(q)
    \/ Expire

Spec == Init /\ [][Next]_vars

-----------------------------------------------------------------------------
(* Properties *)

\* Rows, cookies and requests stay in their domains; every issued token
\* belongs to a login (migration 009, handler/user_handler.go).
TypeOK ==
    /\ token  \in [Tokens -> Row \cup {Unused}]
    /\ cookie \in [Browsers -> Tokens \cup {"none"}]
    /\ req    \in [Requests -> Task \cup {Idle}]
    /\ login  \in [Tokens -> Tokens \cup {"none"}]
    /\ \A t \in Tokens : Issued(t) <=> login[t] # "none"

\* A login has at most one token that is not revoked, however many tabs and
\* copies of the cookie refresh at once: rotation never forks a session.
OneLiveTokenPerLogin ==
    \A s, t \in Tokens : Live(s) /\ Live(t) /\ login[s] = login[t] => s = t

\* q has revoked a token of login l and has yet to insert its successor.
Renewing(q, l) ==
    req[q].op = "issue" /\ req[q].for # "none" /\ login[req[q].for] = l

\* The refresh tokens implement the abstract logins: a login is held by its live
\* token, or by the request that exchanges one, and begins with its first token.
Logins ==
    INSTANCE LoginHolders WITH
        Logins  <- Tokens,
        Holders <- ({"token"} \X Tokens) \cup ({"request"} \X Requests),
        begun   <- {l \in Tokens : login[l] = l},
        holders <- [l \in Tokens |->
            ({"token"} \X {t \in Tokens : Live(t) /\ login[t] = l})
                \cup ({"request"} \X {q \in Requests : Renewing(q, l)})]

\* Whatever refreshes, logouts and lost answers race for it, a login is handed
\* from one holder to the next, never copied and never revived: the late refresh
\* that found its token active comes too late (UserService.Refresh, LogoutAll).
LoginsSpec == Logins!Spec

\* Nothing of the login l is left: no live token, no exchange under way.
Ended(l) ==
    /\ Issued(l)
    /\ \A t \in Tokens : login[t] = l => ~Live(t)
    /\ \A q \in Requests : ~Renewing(q, l)

\* A login that has ended stays ended: a refresh that found its token active
\* before a logout, a logout-all or another refresh revoked it comes too late.
EndedStaysEnded ==
    [][\A l \in Tokens : Ended(l) => Ended(l)']_vars

\* A token that a logout or logout-all revokes was all that was left of its
\* login: no sibling, successor or exchange under way survives it.  Only a logout
\* whose token a refresh has already revoked leaves a login behind, as it
\* revokes nothing and answers the same (UserService.Logout and LogoutAll).
LogoutEndsWhatItRevokes ==
    [][\A q \in Requests, l, t \in Tokens :
        (RevokeByHash(q) \/ LogoutAll(q)) /\ login[t] = l /\ Live(t) /\ ~Live(t)'
            => Ended(l)']_vars
=============================================================================
