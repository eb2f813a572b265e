----------------------------- MODULE AdminRoles -----------------------------
(***************************************************************************)
(* users.role, the copy of it that an access token carries, and the audit  *)
(* row that tells of a change.  A token is believed until it expires: the  *)
(* permissions of its role are looked up, the role itself is not.  A       *)
(* change of role is admitted by the actor's token, reads the target,      *)
(* writes its role and inserts an audit row, in statements that no         *)
(* transaction binds; a login or refresh reads the user and signs a token  *)
(* later.                                                                  *)
(*                                                                         *)
(* prior, suspect and disturbed, and the field late of a token, are        *)
(* history: no guard reads them.                                           *)
(***************************************************************************)
EXTENDS Naturals

CONSTANTS
    Users,      \* the accounts, registered as customers and verified
    Role,       \* the values of users.role
    Tokens,     \* bound: access tokens that are valid at the same time
    Requests,   \* HTTP requests that can be in flight at the same time
    TTL         \* accessTokenTTL, in ticks

ASSUME RoleAssumption ==
    {"customer", "super_admin"} \subseteq Role /\ "none" \notin Role
ASSUME TTLAssumption == TTL \in Nat \ {0}

VARIABLES
    role,       \* users.role, "customer" when the account is inserted
    token,      \* the access tokens that have not expired
    req,        \* what each request still has to do
    newest,     \* the newest audit row about each account
    since,      \* ticks since the role of an account changed, TTL when longer
    prior,      \* history: the role an account had before its last change
    suspect,    \* history: accounts whose newest audit row may be wrong
    disturbed   \* history: requests overtaken by another change of their target

vars == <<role, token, req, newest, since, prior, suspect, disturbed>>

-----------------------------------------------------------------------------
(* Rows, tokens and requests *)

\* role_permissions, for the permissions the route of UpdateRole asks for.
Granted(permission) ==
    IF permission = "users:manage" THEN {"super_admin"} ELSE {"admin", "super_admin"}

Claims  == [user : Users, role : Role, left : Nat \ {0}, late : BOOLEAN]
Expired == [left |-> 0]
Row     == [before : Role, after : Role]
NoRow   == [after |-> "none"]

Idle == [op |-> "idle"]
Task == [op : {"sign"}, user : Users, role : Role]
        \cup [op : {"admitted"}, actor : Users]
        \cup [op : {"write"}, actor : Users, target : Users, before : Role]
        \cup [op : {"audit"}, target : Users, before : Role, after : Role]

Valid(k)  == token[k] # Expired

SuperAdmins == {u \in Users : role[u] = "super_admin"}

Init ==
    /\ role   = [u \in Users |-> "customer"]
    /\ token  = [k \in Tokens |-> Expired]
    /\ req    = [q \in Requests |-> Idle]
    /\ newest = [u \in Users |-> NoRow]
    /\ since  = [u \in Users |-> TTL]
    /\ prior  = [u \in Users |-> "customer"]
    /\ suspect = {}
    /\ disturbed = {}

Become(q, task) == req' = [req EXCEPT ![q] = task]

\* Requests that have read or written the role of u and have yet to tell of it.
Changing(u) ==
    {q \in Requests : req[q].op \in {"write", "audit"} /\ req[q].target = u}

\* The role of u becomes r, which overtakes some requests.
Assign(u, r, overtaken) ==
    /\ role'  = [role EXCEPT ![u] = r]
    /\ since' = IF r # role[u] THEN [since EXCEPT ![u] = 0] ELSE since
    /\ prior' = [prior EXCEPT ![u] = role[u]]
    /\ disturbed' = disturbed \cup overtaken

-----------------------------------------------------------------------------
(* Accounts and their tokens *)

\* The command cmd/seed makes the account of SUPER_ADMIN_EMAIL a super
\* administrator, for the first time or again, and tells nobody.
Seed ==
    /\ \E u \in Users :
        /\ Assign(u, "super_admin", Changing(u))
        /\ suspect' = suspect \cup {u}
    /\ UNCHANGED <<token, req, newest>>

\* Login, Refresh and VerifyEmail read the user ...
ReadUser(q) ==
    /\ req[q] = Idle
    /\ \E u \in Users : Become(q, [op |-> "sign", user |-> u, role |-> role[u]])
    /\ UNCHANGED <<role, token, newest, since, prior, suspect, disturbed>>

\* Mutant: the expiry is one tick too late.
LifetimeOnceMore == TTL + 1

\* Mutant: the claims carry no expiry.
LifetimeUnset == 0

Lifetime == TTL

\* ... and sign its claims after the password or the refresh token was checked.
GenerateToken(q) ==
    /\ req[q].op = "sign"
    /\ \E k \in Tokens :
        /\ ~Valid(k)
        /\ token' = [token EXCEPT ![k] =
              [user |-> req[q].user, role |-> req[q].role, left |-> Lifetime,
               late |-> req[q].role # role[req[q].user]]]
    /\ Become(q, Idle)
    /\ UNCHANGED <<role, newest, since, prior, suspect, disturbed>>

-----------------------------------------------------------------------------
(* PATCH /admin/users/:id/role *)

\* RequireAuth and RequirePermission: the role is the one in the token.
Admit(q) ==
    /\ req[q] = Idle
    /\ \E k \in Tokens :
        /\ Valid(k)
        /\ token[k].role \in Granted("admin:access") \cap Granted("users:manage")
        /\ Become(q, [op |-> "admitted", actor |-> token[k].user])
    /\ UNCHANGED <<role, token, newest, since, prior, suspect, disturbed>>

\* The handler reads the target for the audit row.
FindTarget(q) ==
    /\ req[q].op = "admitted"
    /\ \E u \in Users :
        Become(q, [op |-> "write", actor |-> req[q].actor, target |-> u, before |-> role[u]])
    /\ UNCHANGED <<role, token, newest, since, prior, suspect, disturbed>>

\* Mutant: nobody is kept from demoting himself.
MayAssignAnyone(actor, target, r) == r \in Role

\* "super admin cannot demote their own account".
MayAssign(actor, target, r) == actor = target => r = "super_admin"

UpdateRole(q) ==
    /\ req[q].op = "write"
    /\ \E r \in Role :
        /\ MayAssign(req[q].actor, req[q].target, r)
        /\ Assign(req[q].target, r, Changing(req[q].target) \ {q})
        /\ Become(q, [op |-> "audit", target |-> req[q].target,
                      before |-> req[q].before, after |-> r])
    /\ UNCHANGED <<token, newest, suspect>>

\* Mutant: the row is written with before and after swapped.
SwappedAuditRow(task) == [before |-> task.after, after |-> task.before]

AuditRow(task) == [before |-> task.before, after |-> task.after]

Audit(q) ==
    /\ req[q].op = "audit"
    /\ newest' = [newest EXCEPT ![req[q].target] = AuditRow(req[q])]
    /\ suspect' = IF q \in disturbed THEN suspect \cup {req[q].target}
                                     ELSE suspect \ {req[q].target}
    /\ disturbed' = disturbed \ {q}
    /\ Become(q, Idle)
    /\ UNCHANGED <<role, token, since, prior>>

\* AuditService.Create drops the error; or the process dies before the insert.
LoseAudit(q) ==
    /\ req[q].op = "audit"
    /\ suspect' = suspect \cup {req[q].target}
    /\ disturbed' = disturbed \ {q}
    /\ Become(q, Idle)
    /\ UNCHANGED <<role, token, newest, since, prior>>

\* A refusal, a database error, a dropped connection or a crash.
Abandon(q) ==
    /\ req[q].op \in {"sign", "admitted", "write"}
    /\ disturbed' = disturbed \ {q}
    /\ Become(q, Idle)
    /\ UNCHANGED <<role, token, newest, since, prior, suspect>>

-----------------------------------------------------------------------------
(* Time *)

Aged(t) == IF t.left = 1 THEN Expired ELSE [t EXCEPT !.left = t.left - 1]

Tick ==
    /\ token' = [k \in Tokens |-> IF Valid(k) THEN Aged(token[k]) ELSE Expired]
    /\ since' = [u \in Users |-> IF since[u] < TTL THEN since[u] + 1 ELSE TTL]
    /\ UNCHANGED <<role, req, newest, prior, suspect, disturbed>>

Next ==
    \/ Seed \/ Tick
    \/ \E q \in Requests :
        \/ ReadUser(q) \/ GenerateToken(q)
        \/ Admit(q) \/ FindTarget(q) \/ UpdateRole(q) \/ Audit(q) \/ LoseAudit(q)
        \/ Abandon(q)

Spec == Init /\ [][Next]_vars

-----------------------------------------------------------------------------
(* Properties *)

\* Rows, claims and requests stay in their domains (migrations 001, 006, 014
\* and 015, auth/token.go).
TypeOK ==
    /\ role   \in [Users -> Role]
    /\ token  \in [Tokens -> Claims \cup {Expired}]
    /\ req    \in [Requests -> Task \cup {Idle}]
    /\ newest \in [Users -> Row \cup {NoRow}]
    /\ since  \in [Users -> 0 .. TTL]
    /\ prior  \in [Users -> Role]
    /\ suspect \in SUBSET Users
    /\ disturbed \in SUBSET Requests

\* A token with a role its user no longer has dies within the lifetime of a
\* token after the change, unless the request that signed it had read the user
\* before the change: then within that lifetime after it was signed
\* (auth/token.go, createAuthResponse).
StaleRoleIsShortLived ==
    \A k \in Tokens :
        Valid(k) /\ token[k].role # role[token[k].user] =>
            \/ token[k].late
            \/ token[k].left + since[token[k].user] <= TTL

\* The system is left without a super administrator only by an actor who was
\* none himself any more, by the table, and acted on an old token or in a
\* request admitted before: two who demote each other (UserService.UpdateRole).
LastSuperAdminLostToAStaleActor ==
    [][SuperAdmins # {} /\ SuperAdmins' = {} =>
        \E q \in Requests : req[q].op = "write" /\ UpdateRole(q)
                            /\ req[q].actor \notin SuperAdmins]_vars

\* The newest audit row about an account tells its last change of role, from
\* and to what, unless changes of it overlapped, a row was lost or cmd/seed
\* ran; the next change that nothing overtakes puts the log right again
\* (UserHandler.UpdateRole, AuditService.Create).
AuditTellsTheRole ==
    \A u \in Users :
        u \notin suspect /\ (\A q \in Changing(u) : req[q].op # "audit") =>
            \/ newest[u] = NoRow /\ role[u] = "customer"
            \/ newest[u] = [before |-> prior[u], after |-> role[u]]
=============================================================================
