-------------------------- MODULE AdminRoles_proofs --------------------------
(***************************************************************************)
(* A role that was taken away lives on in a token for the lifetime of a    *)
(* token at most, the last super administrator is lost only to a stale     *)
(* actor, and the newest audit row is true unless something on record      *)
(* went wrong: proved for any number of accounts, tokens and requests.     *)
(***************************************************************************)
EXTENDS AdminRoles, TLAPS

\* No token outlives the lifetime it was signed with.
TokensExpire == \A k \in Tokens : Valid(k) => token[k].left <= TTL

\* A request that nothing overtook knows the role its target has, before the
\* write, or the role it had and the one it got, after it.
ChangesAreKnown ==
    \A q \in Requests : q \notin disturbed =>
        /\ req[q].op = "write" => req[q].before = role[req[q].target]
        /\ req[q].op = "audit" => /\ req[q].before = prior[req[q].target]
                                  /\ req[q].after = role[req[q].target]

IInv ==
    /\ TypeOK
    /\ TokensExpire
    /\ StaleRoleIsShortLived
    /\ ChangesAreKnown
    /\ AuditTellsTheRole

-----------------------------------------------------------------------------
(* Lemmas *)

\* The fields of a request's task have the types its operation gives them.
LEMMA TaskFields ==
    ASSUME TypeOK, NEW q \in Requests
    PROVE  /\ req[q].op \in {"idle", "sign", "admitted", "write", "audit"}
           /\ req[q].op = "idle" => req[q] = Idle
           /\ req[q].op = "sign" => req[q].user \in Users /\ req[q].role \in Role
           /\ req[q].op = "admitted" => req[q].actor \in Users
           /\ req[q].op = "write" => /\ req[q].actor \in Users
                                    /\ req[q].target \in Users
                                    /\ req[q].before \in Role
           /\ req[q].op = "audit" => /\ req[q].target \in Users
                                    /\ req[q].before \in Role
                                    /\ req[q].after \in Role
<1>1. req[q] \in Task \cup {Idle}
  BY DEF TypeOK
<1>2. QED
  BY <1>1 DEF Task, Idle

\* A valid token holds claims.
LEMMA TokenFields ==
    ASSUME TypeOK, NEW k \in Tokens, Valid(k)
    PROVE  token[k] \in Claims
BY DEF TypeOK, Valid

\* Claims are not the mark of an expired token.
LEMMA ClaimsAreValid ==
    ASSUME NEW t \in Claims
    PROVE  t # Expired
BY DEF Claims, Expired

\* Moving one request on moves only that request.
LEMMA ReqMoved ==
    ASSUME TypeOK, NEW q \in Requests, NEW t \in Task \cup {Idle}, Become(q, t)
    PROVE  /\ req' \in [Requests -> Task \cup {Idle}]
           /\ req'[q] = t
           /\ \A o \in Requests : o # q => req'[o] = req[o]
BY DEF TypeOK, Become

\* A change of role touches the row of that account only.
LEMMA RoleAssigned ==
    ASSUME TypeOK, NEW u \in Users, NEW r \in Role, NEW ov \in SUBSET Requests,
           Assign(u, r, ov)
    PROVE  /\ role' \in [Users -> Role]
           /\ since' \in [Users -> 0 .. TTL]
           /\ prior' \in [Users -> Role]
           /\ disturbed' = disturbed \cup ov
           /\ role'[u] = r /\ prior'[u] = role[u]
           /\ r # role[u] => since'[u] = 0
           /\ r = role[u] => since'[u] = since[u]
           /\ \A v \in Users : v # u => /\ role'[v] = role[v]
                                        /\ since'[v] = since[v]
                                        /\ prior'[v] = prior[v]
BY TTLAssumption DEF TypeOK, Assign

\* The audit row of a change tells what the request knows.
LEMMA AuditRowTrue ==
    ASSUME TypeOK, NEW q \in Requests, req[q].op = "audit"
    PROVE  /\ AuditRow(req[q]) \in Row
           /\ AuditRow(req[q]).before = req[q].before
           /\ AuditRow(req[q]).after = req[q].after
BY TaskFields DEF AuditRow, Row

-----------------------------------------------------------------------------
(* One lemma for each action *)

\* A change of role leaves the tokens truthful within their lifetime.
LEMMA AssignKeepsTokens ==
    ASSUME IInv, NEW u \in Users, NEW r \in Role, NEW ov \in SUBSET Requests,
           Assign(u, r, ov), token' = token
    PROVE  TokensExpire' /\ StaleRoleIsShortLived'
<1>1. TokensExpire'
  BY DEF IInv, TokensExpire, Valid
<1>2. ASSUME NEW k \in Tokens, Valid(k), token[k].role # role'[token[k].user],
             ~token[k].late
      PROVE  token[k].left + since'[token[k].user] <= TTL
  <2>1. PICK v \in Users : v = token[k].user
    BY <1>2, TokenFields DEF IInv, Claims
  <2>2. token[k].left \in Nat /\ token[k].left <= TTL
    BY <1>2, TokenFields DEF IInv, Claims, TokensExpire
  <2>3. CASE v = u /\ r # role[u]
    BY <2>1, <2>2, <2>3, RoleAssigned, TTLAssumption DEF IInv
  <2>4. CASE v # u \/ r = role[u]
    <3>1. role'[v] = role[v] /\ since'[v] = since[v]
      BY <2>4, RoleAssigned DEF IInv
    <3>2. QED
      BY <1>2, <2>1, <3>1 DEF IInv, StaleRoleIsShortLived
  <2>5. QED
    BY <2>3, <2>4
<1>3. QED
  BY <1>1, <1>2 DEF StaleRoleIsShortLived, Valid

\* Seed: the account is under suspicion and its pending changes are disturbed.
LEMMA SeedKeeps ==
    ASSUME IInv, Seed
    PROVE  IInv'
<1>1. PICK u \in Users :
         /\ Assign(u, "super_admin", Changing(u))
         /\ suspect' = suspect \cup {u}
  BY DEF Seed
<1>2. PICK r \in Role : r = "super_admin"
  BY RoleAssumption
<1>3. PICK ov \in SUBSET Requests : ov = Changing(u)
  BY DEF Changing
<1>4. Assign(u, r, ov)
  BY <1>1, <1>2, <1>3
<1>5. UNCHANGED <<token, req, newest>>
  BY DEF Seed
<1>6. TypeOK'
  BY <1>1, <1>4, <1>5, RoleAssigned DEF IInv, TypeOK
<1>7. TokensExpire' /\ StaleRoleIsShortLived'
  BY <1>4, <1>5, AssignKeepsTokens
<1>8. ChangesAreKnown'
  <2>1. ASSUME NEW q \in Requests, q \notin disturbed', req[q].op \in {"write", "audit"}
        PROVE  req[q].target \in Users /\ req[q].target # u /\ q \notin disturbed
    BY <1>3, <1>4, <2>1, RoleAssigned, TaskFields DEF IInv, Changing
  <2>2. QED
    BY <1>4, <1>5, <2>1, RoleAssigned DEF IInv, ChangesAreKnown
<1>9. AuditTellsTheRole'
  BY <1>1, <1>4, <1>5, RoleAssigned DEF IInv, AuditTellsTheRole, Changing
<1>10. QED
  BY <1>6, <1>7, <1>8, <1>9 DEF IInv

\* A request goes on without telling of a change: rows and tokens stay.
LEMMA OnlyRequestMoves ==
    ASSUME IInv, NEW q \in Requests, NEW task \in Task \cup {Idle}, Become(q, task),
           req[q].op # "audit", task.op # "audit",
           task.op = "write" => task.before = role[task.target],
           UNCHANGED <<role, newest, since, prior, suspect>>,
           disturbed' \in SUBSET disturbed, \A o \in disturbed \ disturbed' : o = q,
           token' \in [Tokens -> Claims \cup {Expired}],
           TokensExpire', StaleRoleIsShortLived'
    PROVE  IInv'
<1>1. TypeOK'
  BY ReqMoved DEF IInv, TypeOK
<1>2. ChangesAreKnown'
  BY ReqMoved DEF IInv, ChangesAreKnown
<1>3. AuditTellsTheRole'
  BY ReqMoved DEF IInv, AuditTellsTheRole, Changing
<1>4. QED
  BY <1>1, <1>2, <1>3 DEF IInv

\* The same when the tokens stay as well.
LEMMA OnlyRequestMovesOn ==
    ASSUME IInv, NEW q \in Requests, NEW task \in Task \cup {Idle}, Become(q, task),
           req[q].op # "audit", task.op # "audit",
           task.op = "write" => task.before = role[task.target],
           UNCHANGED <<role, token, newest, since, prior, suspect>>,
           disturbed' \in SUBSET disturbed, \A o \in disturbed \ disturbed' : o = q
    PROVE  IInv'
<1>1. token' \in [Tokens -> Claims \cup {Expired}]
  BY DEF IInv, TypeOK
<1>2. TokensExpire' /\ StaleRoleIsShortLived'
  BY DEF IInv, TokensExpire, StaleRoleIsShortLived, Valid
<1>3. QED
  BY <1>1, <1>2, OnlyRequestMoves

\* Login or refresh: the user is read, nothing is written.
LEMMA ReadUserKeeps ==
    ASSUME IInv, NEW q \in Requests, ReadUser(q)
    PROVE  IInv'
<1>1. PICK u \in Users : Become(q, [op |-> "sign", user |-> u, role |-> role[u]])
  BY DEF ReadUser
<1>2. PICK task \in Task : task = [op |-> "sign", user |-> u, role |-> role[u]]
  BY DEF IInv, TypeOK, Task
<1>3. QED
  BY <1>1, <1>2, OnlyRequestMovesOn DEF ReadUser, Idle

\* A token is signed with the role that was read.
LEMMA GenerateTokenKeeps ==
    ASSUME IInv, NEW q \in Requests, GenerateToken(q)
    PROVE  IInv'
<1>0. PICK k \in Tokens :
         /\ ~Valid(k)
         /\ token' = [token EXCEPT ![k] =
               [user |-> req[q].user, role |-> req[q].role, left |-> Lifetime,
                late |-> req[q].role # role[req[q].user]]]
  BY DEF GenerateToken
<1>1. PICK t :
         /\ ~Valid(k)
         /\ t = [user |-> req[q].user, role |-> req[q].role, left |-> Lifetime,
                 late |-> req[q].role # role[req[q].user]]
         /\ token' = [token EXCEPT ![k] = t]
  BY <1>0
<1>2. /\ t \in Claims
      /\ t.left = TTL
      /\ t.late <=> t.role # role[t.user]
  BY <1>1, TaskFields, TTLAssumption DEF GenerateToken, IInv, Claims, Lifetime
<1>3. token' \in [Tokens -> Claims \cup {Expired}]
  BY <1>1, <1>2 DEF IInv, TypeOK
<1>4. token'[k] = t /\ \A j \in Tokens : j # k => token'[j] = token[j]
  BY <1>1 DEF IInv, TypeOK
<1>5. role' = role /\ since' = since
  BY DEF GenerateToken
<1>6. TokensExpire'
  BY <1>2, <1>4, TTLAssumption DEF IInv, TokensExpire, Valid
<1>7. StaleRoleIsShortLived'
  BY <1>2, <1>4, <1>5 DEF IInv, StaleRoleIsShortLived, Valid
<1>8. Idle \in Task \cup {Idle} /\ Become(q, Idle) /\ Idle.op = "idle"
  BY DEF GenerateToken, Idle
<1>9. QED
  BY <1>3, <1>6, <1>7, <1>8, OnlyRequestMoves DEF GenerateToken

\* The route lets the request in.
LEMMA AdmitKeeps ==
    ASSUME IInv, NEW q \in Requests, Admit(q)
    PROVE  IInv'
<1>1. PICK k \in Tokens : Valid(k) /\ Become(q, [op |-> "admitted", actor |-> token[k].user])
  BY DEF Admit
<1>2. PICK task \in Task : task = [op |-> "admitted", actor |-> token[k].user]
  BY <1>1, TokenFields DEF IInv, Claims, Task
<1>3. QED
  BY <1>1, <1>2, OnlyRequestMovesOn DEF Admit, Idle

\* The handler reads the target.
LEMMA FindTargetKeeps ==
    ASSUME IInv, NEW q \in Requests, FindTarget(q)
    PROVE  IInv'
<1>1. PICK u \in Users, a \in Users :
         /\ a = req[q].actor
         /\ Become(q, [op |-> "write", actor |-> a, target |-> u, before |-> role[u]])
  BY TaskFields DEF FindTarget, IInv
<1>2. PICK task \in Task :
         task = [op |-> "write", actor |-> a, target |-> u, before |-> role[u]]
  BY DEF IInv, TypeOK, Task
<1>3. QED
  BY <1>1, <1>2, OnlyRequestMovesOn DEF FindTarget

\* The role is written: other changes of the account are disturbed, this one
\* knows both roles if nothing overtook it.
LEMMA UpdateRoleKeeps ==
    ASSUME IInv, NEW q \in Requests, UpdateRole(q)
    PROVE  IInv'
<1>1. PICK u \in Users, b \in Role : u = req[q].target /\ b = req[q].before
  BY TaskFields DEF UpdateRole, IInv
<1>2. PICK r \in Role : /\ Assign(u, r, Changing(u) \ {q})
                        /\ Become(q, [op |-> "audit", target |-> u, before |-> b, after |-> r])
  BY <1>1 DEF UpdateRole
<1>3. PICK ov \in SUBSET Requests : ov = Changing(u) \ {q}
  BY DEF Changing
<1>4. PICK task \in Task : task = [op |-> "audit", target |-> u, before |-> b, after |-> r]
  BY DEF Task
<1>5. Assign(u, r, ov) /\ Become(q, task)
  BY <1>2, <1>3, <1>4
<1>6. req[q].op = "write" /\ UNCHANGED <<token, newest, suspect>>
  BY DEF UpdateRole
<1>7. TypeOK'
  BY <1>5, <1>6, RoleAssigned, ReqMoved DEF IInv, TypeOK
<1>8. TokensExpire' /\ StaleRoleIsShortLived'
  BY <1>5, <1>6, AssignKeepsTokens
<1>9. ChangesAreKnown'
  <2>1. SUFFICES ASSUME NEW o \in Requests, o \notin disturbed'
                 PROVE  /\ req'[o].op = "write" => req'[o].before = role'[req'[o].target]
                        /\ req'[o].op = "audit" => /\ req'[o].before = prior'[req'[o].target]
                                                   /\ req'[o].after = role'[req'[o].target]
    BY DEF ChangesAreKnown
  <2>2. o \notin disturbed
    BY <1>5, <2>1, RoleAssigned DEF IInv
  <2>3. CASE o = q
    <3>1. b = role[u]
      BY <1>1, <1>6, <2>2, <2>3 DEF IInv, ChangesAreKnown
    <3>2. req'[o] = task
      BY <1>5, <2>3, ReqMoved DEF IInv
    <3>3. QED
      BY <1>4, <1>5, <3>1, <3>2, RoleAssigned DEF IInv
  <2>4. CASE o # q
    <3>1. req'[o] = req[o]
      BY <1>5, <2>4, ReqMoved DEF IInv
    <3>2. req[o].op \in {"write", "audit"} => req[o].target \in Users /\ req[o].target # u
      BY <1>3, <1>5, <2>1, <2>4, RoleAssigned, TaskFields DEF IInv, Changing
    <3>3. QED
      BY <1>5, <2>2, <3>1, <3>2, RoleAssigned DEF IInv, ChangesAreKnown
  <2>5. QED
    BY <2>3, <2>4
<1>10. AuditTellsTheRole'
  <2>1. SUFFICES ASSUME NEW v \in Users, v \notin suspect,
                        \A o \in Changing(v)' : req'[o].op # "audit"
                 PROVE  \/ newest[v] = NoRow /\ role'[v] = "customer"
                        \/ newest[v] = [before |-> prior'[v], after |-> role'[v]]
    BY <1>6 DEF AuditTellsTheRole
  <2>2. req'[q] = task /\ \A o \in Requests : o # q => req'[o] = req[o]
    BY <1>5, ReqMoved DEF IInv
  <2>3. v # u
    BY <1>4, <2>1, <2>2 DEF Changing
  <2>4. \A o \in Changing(v) : req[o].op # "audit"
    BY <1>1, <1>6, <2>1, <2>2, <2>3 DEF Changing
  <2>5. QED
    BY <1>5, <2>1, <2>3, <2>4, RoleAssigned DEF IInv, AuditTellsTheRole
<1>11. QED
  BY <1>7, <1>8, <1>9, <1>10 DEF IInv

\* The audit row is inserted, or lost: only this request and this account
\* are concerned.
LEMMA ToldKeeps ==
    ASSUME IInv, NEW q \in Requests, req[q].op = "audit", Become(q, Idle),
           NEW u \in Users, u = req[q].target,
           NEW row \in Row \cup {NoRow}, newest' = [newest EXCEPT ![u] = row],
           suspect' \in SUBSET Users, \A v \in suspect : v # u => v \in suspect',
           disturbed' = disturbed \ {q},
           UNCHANGED <<role, token, since, prior>>,
           u \in suspect' \/ row = [before |-> prior[u], after |-> role[u]]
    PROVE  IInv'
<1>1. req' \in [Requests -> Task \cup {Idle}] /\ req'[q] = Idle
      /\ \A o \in Requests : o # q => req'[o] = req[o]
  BY ReqMoved DEF IInv
<1>2. newest'[u] = row /\ \A v \in Users : v # u => newest'[v] = newest[v]
  BY DEF IInv, TypeOK
<1>3. TypeOK'
  BY <1>1 DEF IInv, TypeOK
<1>4. TokensExpire' /\ StaleRoleIsShortLived'
  BY DEF IInv, TokensExpire, StaleRoleIsShortLived, Valid
<1>5. ChangesAreKnown'
  BY <1>1 DEF IInv, ChangesAreKnown, Idle
<1>6. AuditTellsTheRole'
  <2>1. SUFFICES ASSUME NEW v \in Users, v \notin suspect',
                        \A o \in Changing(v)' : req'[o].op # "audit"
                 PROVE  \/ newest'[v] = NoRow /\ role[v] = "customer"
                        \/ newest'[v] = [before |-> prior[v], after |-> role[v]]
    BY DEF AuditTellsTheRole
  <2>2. CASE v = u
    BY <1>2, <2>1, <2>2
  <2>3. CASE v # u
    <3>1. \A o \in Changing(v) : req[o].op # "audit"
      BY <1>1, <2>1, <2>3 DEF Changing
    <3>2. QED
      BY <1>2, <2>1, <2>3, <3>1 DEF IInv, AuditTellsTheRole
  <2>4. QED
    BY <2>2, <2>3
<1>7. QED
  BY <1>3, <1>4, <1>5, <1>6 DEF IInv

\* Audit: what an undisturbed request tells is true.
LEMMA AuditKeeps ==
    ASSUME IInv, NEW q \in Requests, Audit(q)
    PROVE  IInv'
<1>1. PICK u \in Users : u = req[q].target
  BY TaskFields DEF Audit, IInv
<1>2. PICK row \in Row : row = AuditRow(req[q])
  BY AuditRowTrue DEF Audit, IInv
<1>3. newest' = [newest EXCEPT ![u] = row]
  BY <1>1, <1>2 DEF Audit
<1>4. suspect' = IF q \in disturbed THEN suspect \cup {u} ELSE suspect \ {u}
  BY <1>1 DEF Audit
<1>5. suspect' \in SUBSET Users /\ \A v \in suspect : v # u => v \in suspect'
  BY <1>4 DEF IInv, TypeOK
<1>6. u \in suspect' \/ row = [before |-> prior[u], after |-> role[u]]
  <2>1. CASE q \in disturbed
    BY <1>4, <2>1
  <2>2. CASE q \notin disturbed
    <3>1. req[q].before = prior[u] /\ req[q].after = role[u]
      BY <1>1, <2>2 DEF Audit, IInv, ChangesAreKnown
    <3>2. QED
      BY <1>2, <3>1 DEF AuditRow
  <2>3. QED
    BY <2>1, <2>2
<1>7. QED
  BY <1>1, <1>2, <1>3, <1>5, <1>6, ToldKeeps DEF Audit

\* LoseAudit: the account is under suspicion.
LEMMA LoseAuditKeeps ==
    ASSUME IInv, NEW q \in Requests, LoseAudit(q)
    PROVE  IInv'
<1>1. PICK u \in Users : u = req[q].target
  BY TaskFields DEF LoseAudit, IInv
<1>2. PICK row \in Row \cup {NoRow} : row = newest[u]
  BY DEF IInv, TypeOK
<1>3. newest' = [newest EXCEPT ![u] = row]
  BY <1>2 DEF LoseAudit, IInv, TypeOK
<1>4. suspect' = suspect \cup {u}
  BY <1>1 DEF LoseAudit
<1>5. suspect' \in SUBSET Users /\ u \in suspect' /\ \A v \in suspect : v \in suspect'
  BY <1>4 DEF IInv, TypeOK
<1>6. QED
  BY <1>1, <1>2, <1>3, <1>5, ToldKeeps DEF LoseAudit

\* A request ends before it wrote anything.
LEMMA AbandonKeeps ==
    ASSUME IInv, NEW q \in Requests, Abandon(q)
    PROVE  IInv'
<1>1. Idle \in Task \cup {Idle} /\ Idle.op = "idle"
  BY DEF Idle
<1>2. QED
  BY <1>1, OnlyRequestMovesOn DEF Abandon

\* A tick takes as much from every token as it adds to the age of a change.
LEMMA TickKeeps ==
    ASSUME IInv, Tick
    PROVE  IInv'
<1>1. ASSUME NEW k \in Tokens, Valid(k)
      PROVE  /\ token'[k] \in Claims \cup {Expired}
             /\ Valid(k)' => /\ token'[k].user = token[k].user
                             /\ token'[k].role = token[k].role
                             /\ token'[k].late = token[k].late
                             /\ token'[k].left = token[k].left - 1
  <2>1. token[k] \in Claims /\ token'[k] = Aged(token[k])
    BY <1>1, TokenFields DEF IInv, Tick
  <2>2. QED
    BY <2>1 DEF Aged, Claims, Valid
<1>2. ASSUME NEW k \in Tokens, ~Valid(k)
      PROVE  token'[k] = Expired /\ ~Valid(k)'
  BY <1>2 DEF Tick, Valid
<1>3. token' \in [Tokens -> Claims \cup {Expired}]
  BY <1>1, <1>2 DEF Tick
<1>4. \A u \in Users : since[u] \in 0 .. TTL /\ since'[u] \in 0 .. TTL /\ since'[u] <= since[u] + 1
  BY TTLAssumption DEF IInv, TypeOK, Tick
<1>5. TypeOK'
  BY <1>3, <1>4 DEF IInv, TypeOK, Tick
<1>6. TokensExpire'
  <2>1. SUFFICES ASSUME NEW k \in Tokens, Valid(k)'
                 PROVE  token'[k].left <= TTL
    BY DEF TokensExpire
  <2>2. Valid(k) /\ token[k].left \in Nat /\ token[k].left <= TTL
    BY <1>2, <2>1, TokenFields DEF IInv, TokensExpire, Claims
  <2>3. QED
    BY <1>1, <2>1, <2>2, TTLAssumption
<1>7. StaleRoleIsShortLived'
  <2>1. SUFFICES ASSUME NEW k \in Tokens, Valid(k)',
                        token'[k].role # role[token'[k].user], ~token'[k].late
                 PROVE  token'[k].left + since'[token'[k].user] <= TTL
    BY DEF StaleRoleIsShortLived, Tick
  <2>2. Valid(k)
    BY <1>2, <2>1
  <2>3. PICK u \in Users : u = token[k].user
    BY <2>2, TokenFields DEF IInv, Claims
  <2>4. token[k].left \in Nat /\ token[k].left + since[u] <= TTL
    BY <1>1, <2>1, <2>2, <2>3, TokenFields DEF IInv, Claims, StaleRoleIsShortLived
  <2>5. QED
    BY <1>1, <1>4, <2>1, <2>2, <2>3, <2>4, TTLAssumption
<1>8. ChangesAreKnown'
  BY DEF IInv, ChangesAreKnown, Tick
<1>9. AuditTellsTheRole'
  BY DEF IInv, AuditTellsTheRole, Changing, Tick
<1>10. QED
  BY <1>5, <1>6, <1>7, <1>8, <1>9 DEF IInv

-----------------------------------------------------------------------------
(* The theorems *)

\* Every reachable state satisfies the inductive invariant: tokens are within
\* their lifetime, and a change that nothing overtook knows both roles.
THEOREM Invariance == Spec => []IInv
<1>1. Init => IInv
  BY RoleAssumption, TTLAssumption
     DEF Init, IInv, TypeOK, TokensExpire, StaleRoleIsShortLived, ChangesAreKnown,
         AuditTellsTheRole, Valid, Idle
<1>2. IInv /\ [Next]_vars => IInv'
  <2>1. SUFFICES ASSUME IInv, [Next]_vars
                 PROVE  IInv'
    OBVIOUS
  <2>2. CASE Seed
    BY <2>1, <2>2, SeedKeeps
  <2>3. CASE Tick
    BY <2>1, <2>3, TickKeeps
  <2>4. ASSUME NEW q \in Requests,
               \/ ReadUser(q) \/ GenerateToken(q) \/ Admit(q) \/ FindTarget(q)
               \/ UpdateRole(q) \/ Audit(q) \/ LoseAudit(q) \/ Abandon(q)
        PROVE  IInv'
    BY <2>1, <2>4, ReadUserKeeps, GenerateTokenKeeps, AdmitKeeps, FindTargetKeeps,
       UpdateRoleKeeps, AuditKeeps, LoseAuditKeeps, AbandonKeeps
  <2>5. CASE UNCHANGED vars
    BY <2>1, <2>5 DEF vars, IInv, TypeOK, TokensExpire, StaleRoleIsShortLived,
       ChangesAreKnown, AuditTellsTheRole, Valid, Changing
  <2>6. QED
    BY <2>1, <2>2, <2>3, <2>4, <2>5 DEF Next
<1>3. QED
  BY <1>1, <1>2, PTL DEF Spec

\* Every reachable state of accounts, tokens and requests is well typed.
THEOREM TypeCorrect == Spec => []TypeOK
<1>1. IInv => TypeOK
  BY DEF IInv
<1>2. QED
  BY <1>1, Invariance, PTL

\* A token carries a role its user no longer has for the lifetime of a token
\* after the change at most, or after it was signed by a request that read the
\* user before the change (auth/token.go, createAuthResponse).
THEOREM StaleRolesExpire == Spec => []StaleRoleIsShortLived
<1>1. IInv => StaleRoleIsShortLived
  BY DEF IInv
<1>2. QED
  BY <1>1, Invariance, PTL

\* The newest audit row about an account is true unless changes overlapped, a
\* row was lost or cmd/seed ran (UserHandler.UpdateRole, AuditService.Create).
THEOREM AuditIsTrue == Spec => []AuditTellsTheRole
<1>1. IInv => AuditTellsTheRole
  BY DEF IInv
<1>2. QED
  BY <1>1, Invariance, PTL

\* The system loses its last super administrator only to an actor who is none
\* himself by the table (UserService.UpdateRole).
THEOREM LastSuperAdminIsKept == Spec => LastSuperAdminLostToAStaleActor
<1>1. ASSUME IInv, [Next]_vars, SuperAdmins # {}, SuperAdmins' = {}
      PROVE  \E q \in Requests : req[q].op = "write" /\ UpdateRole(q)
                                 /\ req[q].actor \notin SuperAdmins
  <2>1. role' # role
    BY <1>1 DEF SuperAdmins
  <2>2. ~Seed
    <3>1. SUFFICES ASSUME Seed
                   PROVE  FALSE
      OBVIOUS
    <3>2. PICK u \in Users : Assign(u, "super_admin", Changing(u))
      BY <3>1 DEF Seed
    <3>3. role'[u] = "super_admin"
      BY <1>1, <3>2 DEF Assign, IInv, TypeOK
    <3>4. QED
      BY <1>1, <3>3 DEF SuperAdmins
  <2>3. PICK q \in Requests : UpdateRole(q)
    BY <1>1, <2>1, <2>2 DEF Next, vars, Tick, ReadUser, GenerateToken, Admit, FindTarget,
       Audit, LoseAudit, Abandon
  <2>4. req[q].op = "write"
    BY <2>3 DEF UpdateRole
  <2>5. PICK u \in Users, a \in Users : u = req[q].target /\ a = req[q].actor
    BY <1>1, <2>4, TaskFields DEF IInv
  <2>6. PICK r \in Role : /\ MayAssign(a, u, r)
                          /\ Assign(u, r, Changing(u) \ {q})
    BY <2>3, <2>5 DEF UpdateRole
  <2>7. role'[u] = r /\ \A v \in Users : v # u => role'[v] = role[v]
    BY <1>1, <2>6 DEF Assign, IInv, TypeOK
  <2>8. r # "super_admin"
    BY <1>1, <2>7 DEF SuperAdmins
  <2>9. a # u
    BY <2>6, <2>8 DEF MayAssign
  <2>10. a \notin SuperAdmins
    BY <1>1, <2>7, <2>9 DEF SuperAdmins
  <2>11. QED
    BY <2>3, <2>4, <2>5, <2>10
<1>2. IInv /\ [Next]_vars =>
        [SuperAdmins # {} /\ SuperAdmins' = {} =>
            \E q \in Requests : req[q].op = "write" /\ UpdateRole(q)
                                /\ req[q].actor \notin SuperAdmins]_vars
  BY <1>1
<1>3. QED
  BY <1>2, Invariance, PTL DEF Spec, LastSuperAdminLostToAStaleActor
=============================================================================
