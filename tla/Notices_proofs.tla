---------------------------- MODULE Notices_proofs ----------------------------
(***************************************************************************)
(* The newest notice and the newest mail tell a customer the status of his *)
(* rental unless something on record went wrong, and the unread page hides *)
(* nothing: proved for any number of rentals and requests, inboxes and     *)
(* pages of any size.                                                      *)
(***************************************************************************)
EXTENDS Notices, FiniteSetTheorems, TLAPS

\* A request that nothing overtook knows the status of its rental: the one its
\* handler read, the one it found no reason to tell of, or the one it tells.
ReadsAreCurrent ==
    \A q \in Requests : q \notin overtaken =>
        /\ req[q].op = "found" => req[q].before = status[req[q].rental]
        /\ req[q].op = "write" /\ req[q].then = "nothing" /\ req[q].to \in Notable
              => req[q].to = status[req[q].rental]
        /\ req[q].op \in {"notify", "mail"} => req[q].about = status[req[q].rental]

\* What will be told has a message.
TellsMessages ==
    \A q \in Requests :
        /\ req[q].op = "write" /\ req[q].then = "tell" => req[q].to \in Notable
        /\ req[q].op = "mail" => req[q].about \in Notable

IInv ==
    /\ TypeOK
    /\ ReadsAreCurrent
    /\ TellsMessages
    /\ CustomerKnowsTheStatus

-----------------------------------------------------------------------------
(* Lemmas *)

\* The fields of a request's task have the types its operation gives them.
LEMMA TaskFields ==
    ASSUME TypeOK, NEW q \in Requests
    PROVE  /\ req[q].op \in {"idle", "found", "write", "reread", "notify", "mail"}
           /\ req[q].op = "idle" <=> req[q] = Idle
           /\ req[q] # Idle => req[q].rental \in Rentals
           /\ req[q].op = "found" => req[q].before \in Status
           /\ req[q].op = "write" => /\ req[q].to \in Status
                                    /\ req[q].then \in {"tell", "reread", "withdrawn", "nothing"}
           /\ req[q].op \in {"notify", "mail"} => req[q].about \in About
<1>1. req[q] \in Task \cup {Idle}
  BY DEF TypeOK
<1>2. QED
  BY <1>1 DEF Task, Idle

\* Moving one request on moves only that request.
LEMMA ReqMoved ==
    ASSUME TypeOK, NEW q \in Requests, NEW t \in Task \cup {Idle}, Become(q, t)
    PROVE  /\ req' \in [Requests -> Task \cup {Idle}]
           /\ req'[q] = t
           /\ \A o \in Requests : o # q => req'[o] = req[o]
BY DEF TypeOK, Become

\* What each task still has to tell.
LEMMA UntoldOf ==
    ASSUME NEW t
    PROVE  /\ t.op \in {"found", "write"} => Untold(t) = {}
           /\ t.op = "reread" => Untold(t) = Channel
           /\ t.op = "notify" /\ t.about # "requested" => Untold(t) = Channel
           /\ t.op = "notify" /\ t.about = "requested" => Untold(t) = {"inbox"}
           /\ t.op = "mail" => Untold(t) = {"mail"}
BY DEF Untold

\* A channel of a rental stays right when its rental, its newest message and
\* the requests that still have to tell on it stay, or it comes into doubt.
LEMMA ChannelKept ==
    ASSUME CustomerKnowsTheStatus, NEW channel \in Channel, NEW r \in Rentals,
           \/ <<channel, r>> \in doubt'
           \/ Telling(channel, r)'
           \/ /\ status'[r] = status[r]
              /\ Newest(channel, r)' = Newest(channel, r)
              /\ <<channel, r>> \in doubt => <<channel, r>> \in doubt'
              /\ Telling(channel, r) => Telling(channel, r)'
           \/ Newest(channel, r)' = status'[r]
    PROVE  <<channel, r>> \notin doubt' /\ ~Telling(channel, r)' =>
               Newest(channel, r)' = status'[r]
BY DEF CustomerKnowsTheStatus

\* A request that moves on to a task about the same rental, or begins or ends
\* without anything to tell there, leaves the others telling.
LEMMA OthersTell ==
    ASSUME TypeOK, NEW q \in Requests, NEW t \in Task \cup {Idle}, Become(q, t),
           NEW channel \in Channel, NEW r \in Rentals, Telling(channel, r),
           req[q] # Idle /\ req[q].rental = r /\ channel \in Untold(req[q]) =>
               t # Idle /\ t.rental = r /\ channel \in Untold(t)
    PROVE  Telling(channel, r)'
<1>1. PICK o \in Requests : req[o] # Idle /\ req[o].rental = r /\ channel \in Untold(req[o])
  BY DEF Telling
<1>2. CASE o = q
  <2>1. req'[q] = t
    BY ReqMoved
  <2>2. req'[q] # Idle /\ req'[q].rental = r /\ channel \in Untold(t)
    BY <1>1, <1>2, <2>1
  <2>3. channel \in Untold(req'[q])
    BY <2>1, <2>2
  <2>4. QED
    BY <2>2, <2>3 DEF Telling, Untold
<1>3. CASE o # q
  <2>1. req'[o] = req[o]
    BY <1>3, ReqMoved
  <2>2. channel \in Untold(req'[o])
    BY <1>1, <2>1
  <2>3. QED
    BY <1>1, <2>1, <2>2 DEF Telling, Untold
<1>4. QED
  BY <1>2, <1>3

\* A request that has to tell makes its channel wait.
LEMMA TellsIt ==
    ASSUME TypeOK, NEW q \in Requests, NEW t \in Task, Become(q, t),
           NEW channel \in Channel, channel \in Untold(t)
    PROVE  Telling(channel, t.rental)'
<1>1. req'[q] = t
  BY ReqMoved
<1>2. t # Idle
  BY DEF Task, Idle
<1>3. channel \in Untold(req'[q])
  BY <1>1
<1>4. QED
  BY <1>1, <1>2, <1>3 DEF Telling, Untold

\* Doubt is of channels of rentals.
LEMMA DoubtTyped ==
    ASSUME TypeOK, NEW cs \in SUBSET Channel, NEW r \in Rentals
    PROVE  /\ Doubtful(cs, r) \in SUBSET (Channel \X Rentals)
           /\ \A c \in cs : <<c, r>> \in Doubtful(cs, r)
           /\ doubt \subseteq Doubtful(cs, r)
BY DEF TypeOK, Doubtful

\* What is newest depends on the mail and the inbox only.
LEMMA NewestKept ==
    ASSUME NEW channel \in Channel, NEW r \in Rentals,
           inbox'[r] = inbox[r], mailed'[r] = mailed[r]
    PROVE  Newest(channel, r)' = Newest(channel, r)
BY DEF Newest

-----------------------------------------------------------------------------
(* One lemma for each action *)

\* A request reads on: nothing is written and nothing has to be told yet.
LEMMA RequestReads ==
    ASSUME IInv, NEW q \in Requests, NEW t \in Task, Become(q, t),
           req[q].op \in {"idle", "found"}, t.op \in {"found", "write"},
           t.op = "found" => t.before = status[t.rental],
           q \notin overtaken /\ t.op = "write" /\ t.then = "nothing" /\ t.to \in Notable
               => t.to = status[t.rental],
           t.op = "write" /\ t.then = "tell" => t.to \in Notable,
           UNCHANGED <<status, inbox, mailed, doubt, overtaken>>
    PROVE  IInv'
<1>1. TypeOK'
  BY ReqMoved DEF IInv, TypeOK
<1>2. ReadsAreCurrent'
  BY ReqMoved DEF IInv, ReadsAreCurrent
<1>3. TellsMessages'
  BY ReqMoved DEF IInv, TellsMessages
<1>4. ASSUME NEW channel \in Channel, NEW r \in Rentals
      PROVE  <<channel, r>> \notin doubt' /\ ~Telling(channel, r)' =>
                 Newest(channel, r)' = status'[r]
  <2>1. Newest(channel, r)' = Newest(channel, r)
    BY NewestKept
  <2>2. req[q] # Idle => Untold(req[q]) = {}
    BY UntoldOf, TaskFields DEF IInv
  <2>3. Telling(channel, r) => Telling(channel, r)'
    BY <2>2, OthersTell DEF IInv
  <2>4. QED
    BY <2>1, <2>3, ChannelKept DEF IInv
<1>5. CustomerKnowsTheStatus'
  BY <1>4 DEF CustomerKnowsTheStatus
<1>6. QED
  BY <1>1, <1>2, <1>3, <1>5 DEF IInv

\* UpdateStatus begins: the handler's read.
LEMMA FindRentalKeeps ==
    ASSUME IInv, NEW q \in Requests, FindRental(q)
    PROVE  IInv'
<1>1. PICK r \in Rentals :
        Exists(r) /\ Become(q, [op |-> "found", rental |-> r, before |-> status[r]])
  BY DEF FindRental
<1>2. PICK t \in Task : t = [op |-> "found", rental |-> r, before |-> status[r]]
  BY <1>1 DEF Task, Exists, IInv, TypeOK
<1>3. Become(q, t)
  BY <1>1, <1>2
<1>4. QED
  BY <1>2, <1>3, RequestReads DEF FindRental, Idle

\* UpdateStatus goes on: the service's read.
LEMMA ValidateUpdateKeeps ==
    ASSUME IInv, NEW q \in Requests, ValidateUpdate(q)
    PROVE  IInv'
<1>1. PICK r \in Rentals : r = req[q].rental
  BY TaskFields DEF IInv, ValidateUpdate, Idle
<1>2. PICK s \in Status :
        Become(q, Write(r, s, IF Tells(req[q].before, s) THEN "tell" ELSE "nothing"))
  BY <1>1 DEF ValidateUpdate
<1>3. PICK then \in {"tell", "nothing"} :
        then = IF Tells(req[q].before, s) THEN "tell" ELSE "nothing"
  OBVIOUS
<1>4. PICK t \in Task : t = Write(r, s, then)
  BY DEF Task, Write
<1>5. Become(q, t)
  BY <1>2, <1>3, <1>4 DEF Write
<1>6. /\ t.op = "write" /\ t.rental = r /\ t.to = s
      /\ t.then = "tell" <=> Tells(req[q].before, s)
  BY <1>3, <1>4 DEF Write
<1>7. q \notin overtaken => req[q].before = status[r]
  BY <1>1 DEF ValidateUpdate, IInv, ReadsAreCurrent
<1>8. QED
  BY <1>5, <1>6, <1>7, RequestReads DEF ValidateUpdate, Tells

\* Approve, Reject and Cancel: the service's read.
LEMMA ValidateKeeps ==
    ASSUME IInv, NEW q \in Requests, Validate(q)
    PROVE  IInv'
<1>1. PICK r \in Rentals, s \in Notable, then \in {"tell", "reread", "withdrawn"} :
        Become(q, Write(r, s, then))
  BY DEF Validate, Notable
<1>2. PICK t \in Task : t = Write(r, s, then)
  BY DEF Task, Write, Notable, Status
<1>3. Become(q, t)
  BY <1>1, <1>2
<1>4. t.op = "write" /\ t.then # "nothing" /\ t.to \in Notable
  BY <1>2 DEF Write
<1>5. QED
  BY <1>3, <1>4, RequestReads DEF Validate, Idle

\* A new rental: its customer is to be told in the inbox and gets no mail.
LEMMA CreateKeeps ==
    ASSUME IInv, NEW q \in Requests, Create(q)
    PROVE  IInv'
<1>1. PICK r \in Rentals :
        /\ ~Exists(r)
        /\ status' = [status EXCEPT ![r] = "requested"]
        /\ doubt' = Doubtful({"mail"}, r)
        /\ Become(q, [op |-> "notify", rental |-> r, about |-> "requested"])
  BY DEF Create
<1>2. PICK t \in Task : t = [op |-> "notify", rental |-> r, about |-> "requested"]
  BY DEF Task, About
<1>3. Become(q, t)
  BY <1>1, <1>2
<1>4. UNCHANGED <<inbox, mailed, overtaken>> /\ req[q] = Idle
  BY DEF Create
<1>5. TypeOK'
  BY <1>1, <1>3, <1>4, ReqMoved, DoubtTyped DEF IInv, TypeOK, Channel, Status
<1>6. \A o \in Requests : o \notin overtaken /\ req[o].op \in {"found", "notify", "mail"}
                           => req[o].rental # r
  <2>1. SUFFICES ASSUME NEW o \in Requests, o \notin overtaken,
                        req[o].op \in {"found", "notify", "mail"}, req[o].rental = r
                 PROVE  FALSE
    OBVIOUS
  <2>2. status[r] = "absent"
    BY <1>1 DEF Exists
  <2>3. "absent" \notin Status /\ "absent" \notin About
    BY DEF Status, About, Notable
  <2>4. QED
    BY <2>1, <2>2, <2>3, TaskFields DEF IInv, ReadsAreCurrent
<1>7. \A o \in Requests : o \notin overtaken /\ req[o].op = "write" /\ req[o].then = "nothing"
                           /\ req[o].to \in Notable => req[o].rental # r
  BY <1>1 DEF IInv, ReadsAreCurrent, Exists, Notable
<1>8. ReadsAreCurrent'
  <2>1. \A o \in Requests : o # q => req'[o] = req[o] /\ (req[o] # Idle => req[o].rental \in Rentals)
    BY <1>3, ReqMoved, TaskFields DEF IInv
  <2>2. \A p \in Rentals : p # r => status'[p] = status[p]
    BY <1>1 DEF IInv, TypeOK
  <2>3. ASSUME NEW o \in Requests, o \notin overtaken, o # q
        PROVE  /\ req'[o].op = "found" => req'[o].before = status'[req'[o].rental]
               /\ req'[o].op = "write" /\ req'[o].then = "nothing" /\ req'[o].to \in Notable
                     => req'[o].to = status'[req'[o].rental]
               /\ req'[o].op \in {"notify", "mail"} => req'[o].about = status'[req'[o].rental]
    BY <1>6, <1>7, <2>1, <2>2, <2>3, TaskFields DEF IInv, ReadsAreCurrent, Idle
  <2>4. /\ req'[q].op = "notify" /\ req'[q].about = "requested" /\ req'[q].rental = r
        /\ status'[r] = "requested"
    BY <1>1, <1>2, <1>3, ReqMoved DEF IInv, TypeOK
  <2>5. QED
    BY <1>4, <2>3, <2>4 DEF ReadsAreCurrent
<1>9. TellsMessages'
  BY <1>2, <1>3, ReqMoved DEF IInv, TellsMessages
<1>10. ASSUME NEW channel \in Channel, NEW p \in Rentals
       PROVE  <<channel, p>> \notin doubt' /\ ~Telling(channel, p)' =>
                  Newest(channel, p)' = status'[p]
  <2>1. Newest(channel, p)' = Newest(channel, p)
    BY <1>4, NewestKept
  <2>2. Telling(channel, p) => Telling(channel, p)'
    BY <1>3, <1>4, OthersTell DEF IInv
  <2>3. CASE p # r
    <3>1. status'[p] = status[p]
      BY <1>1, <2>3 DEF IInv, TypeOK
    <3>2. <<channel, p>> \in doubt => <<channel, p>> \in doubt'
      BY <1>1 DEF Doubtful
    <3>3. QED
      BY <2>1, <2>2, <3>1, <3>2, ChannelKept DEF IInv
  <2>4. CASE p = r /\ channel = "mail"
    BY <1>1, <2>4 DEF Doubtful
  <2>5. CASE p = r /\ channel = "inbox"
    <3>1. channel \in Untold(t) /\ t.rental = r
      BY <1>2, <2>5, UntoldOf
    <3>2. QED
      BY <1>3, <2>5, <3>1, TellsIt DEF IInv
  <2>6. QED
    BY <2>3, <2>4, <2>5 DEF Channel
<1>11. CustomerKnowsTheStatus'
  BY <1>10 DEF CustomerKnowsTheStatus
<1>12. QED
  BY <1>5, <1>8, <1>9, <1>11 DEF IInv

\* A status is written: the rental's status changes, or it was the same already.
LEMMA StatusWritten ==
    ASSUME IInv, NEW q \in Requests, WriteStatus(q),
           NEW r \in Rentals, r = req[q].rental, NEW s \in Status, s = req[q].to,
           NEW t \in Task \cup {Idle}, t = Afterwards(req[q])
    PROVE  /\ status' \in [Rentals -> Status \cup {"absent"}]
           /\ status'[r] = s
           /\ \A p \in Rentals : p # r => status'[p] = status[p]
           /\ Become(q, t)
           /\ overtaken' \in SUBSET Requests
           /\ \A o \in Requests : o # q /\ o \notin overtaken' =>
                 /\ o \notin overtaken
                 /\ req[o] # Idle => status'[req[o].rental] = status[req[o].rental]
<1>1. /\ status' = [status EXCEPT ![r] = s]
      /\ overtaken' = (IF s # status[r] THEN overtaken \cup Handling(r) ELSE overtaken) \ {q}
      /\ Become(q, t)
  BY DEF WriteStatus
<1>2. status' \in [Rentals -> Status \cup {"absent"}]
  BY <1>1 DEF IInv, TypeOK
<1>3. status'[r] = s /\ \A p \in Rentals : p # r => status'[p] = status[p]
  BY <1>1 DEF IInv, TypeOK
<1>4. overtaken' \in SUBSET Requests
  BY <1>1 DEF IInv, TypeOK, Handling
<1>5. ASSUME NEW o \in Requests, o # q, o \notin overtaken'
      PROVE  /\ o \notin overtaken
             /\ req[o] # Idle => status'[req[o].rental] = status[req[o].rental]
  <2>1. o \notin overtaken /\ (s # status[r] => req[o] = Idle \/ req[o].rental # r)
    BY <1>1, <1>5 DEF Handling
  <2>2. req[o] # Idle => req[o].rental \in Rentals
    BY TaskFields DEF IInv
  <2>3. QED
    BY <1>3, <2>1, <2>2
<1>6. QED
  BY <1>1, <1>2, <1>3, <1>4, <1>5

\* What a request does after its write, by what it decided before.
LEMMA AfterwardsTask ==
    ASSUME IInv, NEW q \in Requests, req[q].op = "write"
    PROVE  /\ Afterwards(req[q]) \in Task \cup {Idle}
           /\ req[q].then = "tell" => /\ Afterwards(req[q]).op = "notify"
                                      /\ Afterwards(req[q]).rental = req[q].rental
                                      /\ Afterwards(req[q]).about = req[q].to
                                      /\ Afterwards(req[q]) # Idle
           /\ req[q].then = "reread" => /\ Afterwards(req[q]).op = "reread"
                                        /\ Afterwards(req[q]).rental = req[q].rental
                                        /\ Afterwards(req[q]) # Idle
           /\ req[q].then \in {"withdrawn", "nothing"} => Afterwards(req[q]) = Idle
<1>1. /\ req[q].rental \in Rentals
      /\ req[q].then \in {"tell", "reread", "withdrawn", "nothing"}
  BY TaskFields DEF IInv, Idle
<1>2. CASE req[q].then = "tell"
  <2>1. req[q].to \in Notable
    BY <1>2 DEF IInv, TellsMessages
  <2>2. Afterwards(req[q]) = [op |-> "notify", rental |-> req[q].rental, about |-> req[q].to]
    BY <1>2 DEF Afterwards
  <2>3. QED
    BY <1>1, <1>2, <2>1, <2>2 DEF Task, About, Idle
<1>3. CASE req[q].then = "reread"
  <2>1. Afterwards(req[q]) = [op |-> "reread", rental |-> req[q].rental]
    BY <1>3 DEF Afterwards
  <2>2. QED
    BY <1>1, <1>3, <2>1 DEF Task, Idle
<1>4. CASE req[q].then \in {"withdrawn", "nothing"}
  BY <1>4 DEF Afterwards
<1>5. QED
  BY <1>1, <1>2, <1>3, <1>4

\* The write: the request goes on to tell, or the change is one to be excused.
LEMMA WriteStatusKeeps ==
    ASSUME IInv, NEW q \in Requests, WriteStatus(q)
    PROVE  IInv'
<1>1. req[q].op = "write" /\ UNCHANGED <<inbox, mailed>>
  BY DEF WriteStatus
<1>2. PICK r \in Rentals : r = req[q].rental
  BY <1>1, TaskFields DEF IInv, Idle
<1>3. PICK s \in Status : s = req[q].to
  BY <1>1, TaskFields DEF IInv
<1>4. PICK t \in Task \cup {Idle} : t = Afterwards(req[q])
  BY <1>1, AfterwardsTask
<1>5. /\ status' \in [Rentals -> Status \cup {"absent"}]
      /\ status'[r] = s
      /\ \A p \in Rentals : p # r => status'[p] = status[p]
      /\ Become(q, t)
      /\ overtaken' \in SUBSET Requests
      /\ \A o \in Requests : o # q /\ o \notin overtaken' =>
            /\ o \notin overtaken
            /\ req[o] # Idle => status'[req[o].rental] = status[req[o].rental]
  BY <1>2, <1>3, <1>4, StatusWritten
<1>6. doubt' = IF s # status[r] /\ MaySurprise(q) THEN Doubtful(Channel, r) ELSE doubt
  BY <1>2, <1>3 DEF WriteStatus
<1>7. /\ req' \in [Requests -> Task \cup {Idle}]
      /\ req'[q] = t
      /\ \A o \in Requests : o # q => req'[o] = req[o]
  BY <1>5, ReqMoved DEF IInv
<1>8. doubt' \in SUBSET (Channel \X Rentals) /\ doubt \subseteq doubt'
  BY <1>6, DoubtTyped DEF IInv, TypeOK
<1>9. TypeOK'
  BY <1>1, <1>5, <1>7, <1>8 DEF IInv, TypeOK
<1>10. ReadsAreCurrent'
  <2>1. ASSUME NEW o \in Requests, o # q, o \notin overtaken'
        PROVE  /\ req'[o].op = "found" => req'[o].before = status'[req'[o].rental]
               /\ req'[o].op = "write" /\ req'[o].then = "nothing" /\ req'[o].to \in Notable
                     => req'[o].to = status'[req'[o].rental]
               /\ req'[o].op \in {"notify", "mail"} => req'[o].about = status'[req'[o].rental]
    BY <1>5, <1>7, <2>1 DEF IInv, ReadsAreCurrent, Idle
  <2>2. req'[q].op \in {"notify", "mail"} => req'[q].about = status'[req'[q].rental]
    BY <1>1, <1>2, <1>3, <1>4, <1>5, <1>7, AfterwardsTask, TaskFields DEF IInv, Idle
  <2>3. req'[q].op \notin {"found", "write"}
    BY <1>1, <1>4, <1>7, AfterwardsTask, TaskFields DEF IInv, Idle
  <2>4. QED
    BY <2>1, <2>2, <2>3 DEF ReadsAreCurrent
<1>11. TellsMessages'
  <2>1. req'[q].op \notin {"write", "mail"}
    BY <1>1, <1>4, <1>7, AfterwardsTask, TaskFields DEF IInv, Idle
  <2>2. QED
    BY <1>7, <2>1 DEF IInv, TellsMessages
<1>12. ASSUME NEW channel \in Channel, NEW p \in Rentals
       PROVE  <<channel, p>> \notin doubt' /\ ~Telling(channel, p)' =>
                  Newest(channel, p)' = status'[p]
  <2>1. Newest(channel, p)' = Newest(channel, p)
    BY <1>1, NewestKept
  <2>2. Telling(channel, p) => Telling(channel, p)'
    BY <1>1, <1>5, OthersTell, UntoldOf DEF IInv
  <2>3. CASE status'[p] = status[p]
    BY <1>8, <2>1, <2>2, <2>3, ChannelKept DEF IInv
  <2>4. CASE status'[p] # status[p]
    <3>1. p = r /\ s # status[r]
      BY <1>5, <2>4
    <3>2. CASE req[q].then \in {"tell", "reread"}
      <4>1. t \in Task /\ t.rental = r
        BY <1>1, <1>2, <1>4, <3>2, AfterwardsTask
      <4>2. CASE req[q].then = "reread"
        BY <1>1, <1>4, <1>5, <3>1, <4>1, <4>2, AfterwardsTask, UntoldOf, TellsIt DEF IInv
      <4>3. CASE req[q].then = "tell"
        <5>1. t.op = "notify" /\ t.about # "requested"
          BY <1>1, <1>4, <4>3, AfterwardsTask DEF IInv, TellsMessages, Notable
        <5>2. QED
          BY <1>5, <3>1, <4>1, <5>1, UntoldOf, TellsIt DEF IInv
      <4>4. QED
        BY <3>2, <4>2, <4>3
    <3>3. CASE req[q].then \in {"withdrawn", "nothing"}
      <4>1. MaySurprise(q)
        BY <1>1, <1>2, <1>3, <3>1, <3>3 DEF MaySurprise, IInv, ReadsAreCurrent
      <4>2. <<channel, p>> \in doubt'
        BY <1>6, <3>1, <4>1 DEF Doubtful
      <4>3. QED
        BY <4>2
    <3>4. QED
      BY <1>1, <3>2, <3>3, TaskFields DEF IInv
  <2>5. QED
    BY <2>3, <2>4
<1>13. CustomerKnowsTheStatus'
  BY <1>12 DEF CustomerKnowsTheStatus
<1>14. QED
  BY <1>9, <1>10, <1>11, <1>13 DEF IInv

\* Payments and the worker: both channels come into doubt.
LEMMA SilentChangeKeeps ==
    ASSUME IInv, SilentChange
    PROVE  IInv'
<1>1. PICK r \in Rentals, s \in Status :
        /\ status' = [status EXCEPT ![r] = s]
        /\ doubt' = Doubtful(Channel, r)
        /\ overtaken' = overtaken \cup Handling(r)
  BY DEF SilentChange
<1>2. UNCHANGED <<inbox, mailed, req>>
  BY DEF SilentChange
<1>3. /\ status' \in [Rentals -> Status \cup {"absent"}]
      /\ \A p \in Rentals : p # r => status'[p] = status[p]
  BY <1>1 DEF IInv, TypeOK
<1>4. overtaken' \in SUBSET Requests
  BY <1>1 DEF IInv, TypeOK, Handling
<1>5. doubt' \in SUBSET (Channel \X Rentals) /\ doubt \subseteq doubt'
  BY <1>1, DoubtTyped DEF IInv
<1>6. TypeOK'
  BY <1>2, <1>3, <1>4, <1>5 DEF IInv, TypeOK
<1>7. \A o \in Requests : o \notin overtaken' =>
         /\ o \notin overtaken
         /\ req[o] # Idle => status'[req[o].rental] = status[req[o].rental]
  BY <1>1, <1>3, TaskFields DEF IInv, Handling
<1>8. ReadsAreCurrent'
  BY <1>2, <1>7 DEF IInv, ReadsAreCurrent, Idle
<1>9. TellsMessages'
  BY <1>2 DEF IInv, TellsMessages
<1>10. ASSUME NEW channel \in Channel, NEW p \in Rentals
       PROVE  <<channel, p>> \notin doubt' /\ ~Telling(channel, p)' =>
                  Newest(channel, p)' = status'[p]
  <2>1. Newest(channel, p)' = Newest(channel, p)
    BY <1>2, NewestKept
  <2>2. Telling(channel, p) <=> Telling(channel, p)'
    BY <1>2 DEF Telling, Untold
  <2>3. CASE p = r
    BY <1>1, <2>3 DEF Doubtful
  <2>4. CASE p # r
    BY <1>3, <1>5, <2>1, <2>2, <2>4, ChannelKept DEF IInv
  <2>5. QED
    BY <2>3, <2>4
<1>11. CustomerKnowsTheStatus'
  BY <1>10 DEF CustomerKnowsTheStatus
<1>12. QED
  BY <1>6, <1>8, <1>9, <1>11 DEF IInv

\* A request that has written moves on: the status stays, and every channel is
\* as it was, waits, is in doubt or tells the status.
LEMMA RequestTells ==
    ASSUME IInv, NEW q \in Requests, NEW t \in Task \cup {Idle}, Become(q, t),
           status' = status,
           inbox' \in [Rentals -> Seq(Notice)],
           mailed' \in [Rentals -> About \cup {"absent"}],
           doubt' \in SUBSET (Channel \X Rentals),
           overtaken' \in SUBSET overtaken, overtaken \ overtaken' \subseteq {q},
           t # Idle => /\ t.op \in {"notify", "mail"}
                       /\ t.op = "mail" => t.about \in Notable
                       /\ q \notin overtaken' => t.about = status[t.rental],
           \A channel \in Channel, r \in Rentals :
              \/ <<channel, r>> \in doubt'
              \/ Telling(channel, r)'
              \/ /\ Newest(channel, r)' = Newest(channel, r)
                 /\ <<channel, r>> \in doubt => <<channel, r>> \in doubt'
                 /\ Telling(channel, r) => Telling(channel, r)'
              \/ Newest(channel, r)' = status[r]
    PROVE  IInv'
<1>1. /\ req' \in [Requests -> Task \cup {Idle}]
      /\ req'[q] = t
      /\ \A o \in Requests : o # q => req'[o] = req[o]
  BY ReqMoved DEF IInv
<1>2. TypeOK'
  BY <1>1 DEF IInv, TypeOK
<1>3. ReadsAreCurrent'
  <2>1. ASSUME NEW o \in Requests, o # q, o \notin overtaken'
        PROVE  o \notin overtaken /\ req'[o] = req[o]
    BY <1>1, <2>1
  <2>2. req'[q] = Idle \/ (req'[q].op \in {"notify", "mail"}
                           /\ (q \notin overtaken' => req'[q].about = status[req'[q].rental]))
    BY <1>1
  <2>3. QED
    BY <2>1, <2>2 DEF IInv, ReadsAreCurrent, Idle
<1>4. TellsMessages'
  BY <1>1 DEF IInv, TellsMessages, Idle
<1>5. CustomerKnowsTheStatus'
  BY ChannelKept DEF IInv, CustomerKnowsTheStatus
<1>6. QED
  BY <1>2, <1>3, <1>4, <1>5 DEF IInv

\* An administrator's cancellation reads the rental again.
LEMMA RereadKeeps ==
    ASSUME IInv, NEW q \in Requests, Reread(q)
    PROVE  IInv'
<1>1. req[q].op = "reread" /\ UNCHANGED <<status, inbox, mailed>> /\ overtaken' = overtaken \ {q}
  BY DEF Reread
<1>2. PICK r \in Rentals : r = req[q].rental
  BY <1>1, TaskFields DEF IInv, Idle
<1>3. overtaken' \in SUBSET overtaken /\ overtaken \ overtaken' \subseteq {q}
  BY <1>1
<1>4. inbox' \in [Rentals -> Seq(Notice)] /\ mailed' \in [Rentals -> About \cup {"absent"}]
  BY <1>1 DEF IInv, TypeOK
<1>5. \A channel \in Channel, p \in Rentals : Newest(channel, p)' = Newest(channel, p)
  BY <1>1, NewestKept
<1>6. CASE IsNotable(status[r])
  <2>1. PICK t \in Task : t = [op |-> "notify", rental |-> r, about |-> status[r]]
    BY <1>6 DEF IsNotable, Task, About
  <2>2. Become(q, t) /\ doubt' = doubt
    BY <1>2, <1>6, <2>1 DEF Reread
  <2>3. t.op = "notify" /\ t.rental = r /\ t.about = status[r] /\ t.about # "requested"
    BY <1>6, <2>1 DEF IsNotable, Notable
  <2>4. \A channel \in Channel, p \in Rentals : Telling(channel, p) => Telling(channel, p)'
    <3>1. t # Idle
      BY <2>3 DEF Idle
    <3>2. Untold(t) = Channel
      BY <2>3, UntoldOf
    <3>3. QED
      BY <1>2, <2>2, <2>3, <3>1, <3>2, OthersTell DEF IInv
  <2>5. doubt' \in SUBSET (Channel \X Rentals)
    BY <2>2 DEF IInv, TypeOK
  <2>6. QED
    BY <1>1, <1>3, <1>4, <1>5, <2>2, <2>3, <2>4, <2>5, RequestTells
<1>7. CASE ~IsNotable(status[r])
  <2>1. Become(q, Idle) /\ doubt' = Doubtful(Channel, r)
    BY <1>2, <1>7 DEF Reread
  <2>2. doubt' \in SUBSET (Channel \X Rentals) /\ doubt \subseteq doubt'
    BY <2>1, DoubtTyped DEF IInv
  <2>3. \A channel \in Channel, p \in Rentals :
          <<channel, p>> \in doubt' \/ (Telling(channel, p) => Telling(channel, p)')
    <3>1. \A channel \in Channel : <<channel, r>> \in doubt'
      BY <2>1, DoubtTyped DEF IInv
    <3>2. \A channel \in Channel, p \in Rentals :
            p # r => (Telling(channel, p) => Telling(channel, p)')
      BY <1>2, <2>1, OthersTell DEF IInv
    <3>3. QED
      BY <3>1, <3>2
  <2>4. QED
    BY <1>1, <1>3, <1>4, <1>5, <2>1, <2>2, <2>3, RequestTells
<1>8. QED
  BY <1>6, <1>7

\* After the notice a request mails the same, unless the rental is new.
LEMMA AfterNoticeTask ==
    ASSUME IInv, NEW q \in Requests, req[q].op = "notify"
    PROVE  /\ AfterNotice(req[q]) \in Task \cup {Idle}
           /\ req[q].about = "requested" => AfterNotice(req[q]) = Idle
           /\ req[q].about # "requested" =>
                 /\ AfterNotice(req[q]) # Idle
                 /\ AfterNotice(req[q]).op = "mail"
                 /\ AfterNotice(req[q]).rental = req[q].rental
                 /\ AfterNotice(req[q]).about = req[q].about
                 /\ req[q].about \in Notable
<1>1. req[q].rental \in Rentals /\ req[q].about \in About
  BY TaskFields DEF IInv, Idle
<1>2. req[q] = [op |-> "notify", rental |-> req[q].rental, about |-> req[q].about]
  BY DEF IInv, TypeOK, Task, Idle
<1>3. CASE req[q].about = "requested"
  BY <1>3 DEF AfterNotice
<1>4. CASE req[q].about # "requested"
  <2>1. AfterNotice(req[q]) = [op |-> "mail", rental |-> req[q].rental, about |-> req[q].about]
    BY <1>2, <1>4 DEF AfterNotice
  <2>2. QED
    BY <1>1, <1>4, <2>1 DEF Task, Idle, About
<1>5. QED
  BY <1>3, <1>4

\* The notice was inserted or lost: what both have in common.
LEMMA NoticeStep ==
    ASSUME IInv, NEW q \in Requests, req[q].op = "notify",
           NEW r \in Rentals, r = req[q].rental,
           overtaken' = StillOvertaken(q), Become(q, AfterNotice(req[q])),
           UNCHANGED <<status, mailed>>,
           inbox' \in [Rentals -> Seq(Notice)],
           \A p \in Rentals : p # r => inbox'[p] = inbox[p],
           doubt' \in SUBSET (Channel \X Rentals),
           \A channel \in Channel, p \in Rentals :
              (channel = "mail" \/ p # r) /\ <<channel, p>> \in doubt => <<channel, p>> \in doubt',
           <<"inbox", r>> \in doubt' \/ Newest("inbox", r)' = status[r]
    PROVE  IInv'
<1>1. PICK t \in Task \cup {Idle} : t = AfterNotice(req[q])
  BY AfterNoticeTask
<1>2. Become(q, t)
  BY <1>1
<1>3. overtaken' \in SUBSET overtaken /\ overtaken \ overtaken' \subseteq {q}
      /\ (t # Idle => overtaken' = overtaken)
  BY <1>1 DEF StillOvertaken
<1>4. t # Idle => /\ t.op = "mail" /\ t.rental = r /\ t.about = req[q].about
                  /\ t.about \in Notable
                  /\ q \notin overtaken' => t.about = status[t.rental]
  BY <1>1, <1>3, AfterNoticeTask DEF IInv, ReadsAreCurrent
<1>5. \A p \in Rentals : Newest("mail", p)' = Newest("mail", p)
  BY DEF Newest
<1>6. \A channel \in Channel, p \in Rentals :
         p # r => Newest(channel, p)' = Newest(channel, p)
  BY NewestKept
<1>7. \A channel \in Channel, p \in Rentals :
         channel = "mail" \/ p # r => (Telling(channel, p) => Telling(channel, p)')
  <2>1. "mail" \in Untold(req[q]) => t # Idle /\ t.rental = r /\ "mail" \in Untold(t)
    <3>1. CASE req[q].about = "requested"
      BY <3>1, UntoldOf
    <3>2. CASE req[q].about # "requested"
      BY <1>1, <3>2, AfterNoticeTask, UntoldOf
    <3>3. QED
      BY <3>1, <3>2
  <2>2. QED
    BY <1>2, <2>1, OthersTell DEF IInv
<1>8. \A channel \in Channel, p \in Rentals :
         \/ <<channel, p>> \in doubt'
         \/ Telling(channel, p)'
         \/ /\ Newest(channel, p)' = Newest(channel, p)
            /\ <<channel, p>> \in doubt => <<channel, p>> \in doubt'
            /\ Telling(channel, p) => Telling(channel, p)'
         \/ Newest(channel, p)' = status[p]
  BY <1>5, <1>6, <1>7 DEF Channel
<1>9. mailed' \in [Rentals -> About \cup {"absent"}]
  BY DEF IInv, TypeOK
<1>10. QED
  BY <1>2, <1>3, <1>4, <1>8, <1>9, RequestTells

\* The notice is inserted: the newest of its customer.
LEMMA NotifyKeeps ==
    ASSUME IInv, NEW q \in Requests, Notify(q)
    PROVE  IInv'
<1>1. PICK r \in Rentals : r = req[q].rental
  BY TaskFields DEF IInv, Notify, Idle
<1>2. PICK n \in Notice : n = [about |-> req[q].about, read |-> FALSE]
  BY TaskFields DEF IInv, Notify, Notice
<1>3. inbox' = [inbox EXCEPT ![r] = Append(inbox[r], n)]
  BY <1>1, <1>2 DEF Notify
<1>4. /\ inbox' \in [Rentals -> Seq(Notice)]
      /\ inbox'[r] = Append(inbox[r], n)
      /\ \A p \in Rentals : p # r => inbox'[p] = inbox[p]
  BY <1>3 DEF IInv, TypeOK
<1>5. Newest("inbox", r)' = req[q].about
  <2>1. inbox[r] \in Seq(Notice)
    BY DEF IInv, TypeOK
  <2>2. Len(inbox'[r]) = Len(inbox[r]) + 1 /\ inbox'[r][Len(inbox[r]) + 1] = n /\ inbox'[r] # <<>>
    BY <1>4, <2>1
  <2>3. QED
    BY <1>2, <2>2 DEF Newest
<1>6. doubt' = IF q \in overtaken THEN Doubtful({"inbox"}, r) ELSE doubt \ {<<"inbox", r>>}
  BY <1>1 DEF Notify, ToldOn
<1>7. doubt' \in SUBSET (Channel \X Rentals)
  BY <1>6, DoubtTyped DEF IInv, TypeOK, Channel
<1>8. \A channel \in Channel, p \in Rentals :
         (channel = "mail" \/ p # r) /\ <<channel, p>> \in doubt => <<channel, p>> \in doubt'
  BY <1>6 DEF Doubtful
<1>9. <<"inbox", r>> \in doubt' \/ Newest("inbox", r)' = status[r]
  BY <1>1, <1>5, <1>6 DEF Doubtful, Notify, IInv, ReadsAreCurrent
<1>10. QED
  BY <1>1, <1>4, <1>7, <1>8, <1>9, NoticeStep DEF Notify

\* The notice is lost: the inbox comes into doubt.
LEMMA LoseNoticeKeeps ==
    ASSUME IInv, NEW q \in Requests, LoseNotice(q)
    PROVE  IInv'
<1>1. PICK r \in Rentals : r = req[q].rental
  BY TaskFields DEF IInv, LoseNotice, Idle
<1>2. doubt' = Doubtful({"inbox"}, r) /\ inbox' = inbox
  BY <1>1 DEF LoseNotice
<1>3. doubt' \in SUBSET (Channel \X Rentals) /\ doubt \subseteq doubt' /\ <<"inbox", r>> \in doubt'
  BY <1>2, DoubtTyped DEF IInv, Channel
<1>4. inbox' \in [Rentals -> Seq(Notice)]
  BY <1>2 DEF IInv, TypeOK
<1>5. QED
  BY <1>1, <1>2, <1>3, <1>4, NoticeStep DEF LoseNotice

\* The mail is taken: the newest to its customer.
LEMMA MailKeeps ==
    ASSUME IInv, NEW q \in Requests, Mail(q)
    PROVE  IInv'
<1>1. PICK r \in Rentals : r = req[q].rental
  BY TaskFields DEF IInv, Mail, Idle
<1>2. req[q].op = "mail" /\ UNCHANGED <<status, inbox>> /\ Become(q, Idle)
      /\ overtaken' = overtaken \ {q} /\ mailed' = [mailed EXCEPT ![r] = req[q].about]
  BY <1>1 DEF Mail
<1>3. doubt' = IF q \in overtaken THEN Doubtful({"mail"}, r) ELSE doubt \ {<<"mail", r>>}
  BY <1>1 DEF Mail, ToldOn
<1>4. doubt' \in SUBSET (Channel \X Rentals)
  BY <1>3, DoubtTyped DEF IInv, TypeOK, Channel
<1>5. /\ mailed' \in [Rentals -> About \cup {"absent"}]
      /\ mailed'[r] = req[q].about
      /\ \A p \in Rentals : p # r => mailed'[p] = mailed[p]
  BY <1>2, TaskFields DEF IInv, TypeOK
<1>6. inbox' \in [Rentals -> Seq(Notice)]
  BY <1>2 DEF IInv, TypeOK
<1>7. <<"mail", r>> \in doubt' \/ Newest("mail", r)' = status[r]
  <2>1. CASE q \in overtaken
    BY <1>3, <2>1 DEF Doubtful
  <2>2. CASE q \notin overtaken
    BY <1>1, <1>2, <1>5, <2>2 DEF Newest, IInv, ReadsAreCurrent
  <2>3. QED
    BY <2>1, <2>2
<1>8. ASSUME NEW channel \in Channel, NEW p \in Rentals, channel # "mail" \/ p # r
      PROVE  /\ Newest(channel, p)' = Newest(channel, p)
             /\ <<channel, p>> \in doubt => <<channel, p>> \in doubt'
             /\ Telling(channel, p) => Telling(channel, p)'
  <2>1. Newest(channel, p)' = Newest(channel, p)
    BY <1>2, <1>5, <1>8 DEF Newest, Channel
  <2>2. <<channel, p>> \in doubt => <<channel, p>> \in doubt'
    BY <1>3, <1>8 DEF Doubtful
  <2>3. channel \in Untold(req[q]) => channel = "mail"
    BY <1>2, UntoldOf
  <2>4. QED
    BY <1>1, <1>2, <1>8, <2>1, <2>2, <2>3, OthersTell DEF IInv
<1>9. overtaken' \in SUBSET overtaken /\ overtaken \ overtaken' \subseteq {q}
  BY <1>2
<1>10. \A channel \in Channel, p \in Rentals :
         \/ <<channel, p>> \in doubt'
         \/ Telling(channel, p)'
         \/ /\ Newest(channel, p)' = Newest(channel, p)
            /\ <<channel, p>> \in doubt => <<channel, p>> \in doubt'
            /\ Telling(channel, p) => Telling(channel, p)'
         \/ Newest(channel, p)' = status[p]
  BY <1>7, <1>8
<1>11. QED
  BY <1>2, <1>4, <1>5, <1>6, <1>9, <1>10, RequestTells

\* A request stops: the channels it would have told on come into doubt.
LEMMA AbandonKeeps ==
    ASSUME IInv, NEW q \in Requests, Abandon(q)
    PROVE  IInv'
<1>1. PICK r \in Rentals : r = req[q].rental
  BY TaskFields DEF IInv, Abandon
<1>2. PICK cs \in SUBSET Channel : cs = Untold(req[q])
  <2>1. req[q].op \in {"found", "write", "reread", "notify", "mail"}
    BY TaskFields DEF IInv, Abandon
  <2>2. QED
    BY <2>1, UntoldOf DEF Channel
<1>3. /\ UNCHANGED <<status, inbox, mailed>> /\ Become(q, Idle)
      /\ overtaken' = overtaken \ {q} /\ doubt' = Doubtful(cs, r)
  BY <1>1, <1>2 DEF Abandon
<1>4. /\ doubt' \in SUBSET (Channel \X Rentals) /\ doubt \subseteq doubt'
      /\ \A c \in cs : <<c, r>> \in doubt'
  BY <1>3, DoubtTyped DEF IInv
<1>5. ASSUME NEW channel \in Channel, NEW p \in Rentals
      PROVE  \/ <<channel, p>> \in doubt'
             \/ /\ Newest(channel, p)' = Newest(channel, p)
                /\ <<channel, p>> \in doubt => <<channel, p>> \in doubt'
                /\ Telling(channel, p) => Telling(channel, p)'
  <2>1. CASE p = r /\ channel \in cs
    BY <1>4, <2>1
  <2>2. CASE ~(p = r /\ channel \in cs)
    <3>1. Telling(channel, p) => Telling(channel, p)'
      BY <1>1, <1>2, <1>3, <2>2, OthersTell DEF IInv
    <3>2. QED
      BY <1>3, <1>4, <3>1, NewestKept
  <2>3. QED
    BY <2>1, <2>2
<1>6. inbox' \in [Rentals -> Seq(Notice)] /\ mailed' \in [Rentals -> About \cup {"absent"}]
  BY <1>3 DEF IInv, TypeOK
<1>7. overtaken' \in SUBSET overtaken /\ overtaken \ overtaken' \subseteq {q}
  BY <1>3
<1>8. QED
  BY <1>3, <1>4, <1>5, <1>6, <1>7, RequestTells

\* A notice is read: it says what it said.
LEMMA MarkReadKeeps ==
    ASSUME IInv, MarkRead
    PROVE  IInv'
<1>1. PICK r \in Rentals : \E i \in DOMAIN inbox[r] : inbox' = [inbox EXCEPT ![r][i].read = TRUE]
  BY DEF MarkRead
<1>2. PICK i \in DOMAIN inbox[r] : inbox' = [inbox EXCEPT ![r][i].read = TRUE]
  BY <1>1
<1>3. UNCHANGED <<status, mailed, req, doubt, overtaken>>
  BY DEF MarkRead
<1>4. inbox[r] \in Seq(Notice)
  BY DEF IInv, TypeOK
<1>5. PICK n \in Notice : n = [inbox[r][i] EXCEPT !.read = TRUE] /\ n.about = inbox[r][i].about
  <2>1. PICK o \in Notice : o = inbox[r][i]
    BY <1>4
  <2>2. [o EXCEPT !.read = TRUE] \in Notice
    BY <2>1 DEF Notice
  <2>3. [o EXCEPT !.read = TRUE].about = o.about
    BY <2>1 DEF Notice
  <2>4. QED
    BY <2>1, <2>2, <2>3
<1>6. inbox' = [inbox EXCEPT ![r] = [inbox[r] EXCEPT ![i] = n]]
  BY <1>2, <1>5
<1>7. /\ inbox' \in [Rentals -> Seq(Notice)]
      /\ inbox'[r] = [inbox[r] EXCEPT ![i] = n]
      /\ \A p \in Rentals : p # r => inbox'[p] = inbox[p]
  BY <1>4, <1>6 DEF IInv, TypeOK
<1>8. TypeOK'
  BY <1>3, <1>7 DEF IInv, TypeOK
<1>9. ReadsAreCurrent' /\ TellsMessages'
  BY <1>3 DEF IInv, ReadsAreCurrent, TellsMessages
<1>10. ASSUME NEW channel \in Channel, NEW p \in Rentals
       PROVE  Newest(channel, p)' = Newest(channel, p)
  <2>1. CASE p # r
    BY <1>3, <1>7, <2>1 DEF Newest
  <2>2. CASE p = r
    <3>1. Len(inbox'[r]) = Len(inbox[r]) /\ inbox[r] # <<>> /\ inbox'[r] # <<>>
      BY <1>4, <1>7
    <3>2. inbox'[r][Len(inbox[r])].about = inbox[r][Len(inbox[r])].about
      BY <1>4, <1>5, <1>7
    <3>3. QED
      BY <1>3, <2>2, <3>1, <3>2 DEF Newest
  <2>3. QED
    BY <2>1, <2>2
<1>11. \A channel \in Channel, p \in Rentals : Telling(channel, p) <=> Telling(channel, p)'
  BY <1>3 DEF Telling, Untold
<1>12. CustomerKnowsTheStatus'
  BY <1>3, <1>10, <1>11 DEF IInv, CustomerKnowsTheStatus
<1>13. QED
  BY <1>8, <1>9, <1>12 DEF IInv

-----------------------------------------------------------------------------
(* Theorems *)

\* At the start nothing is known and nothing has been told.
THEOREM InitIInv == Init => IInv
<1> SUFFICES ASSUME Init PROVE IInv
  OBVIOUS
<1>1. TypeOK
  BY DEF Init, TypeOK
<1>2. \A q \in Requests : req[q].op = "idle"
  BY DEF Init, Idle
<1>3. ReadsAreCurrent /\ TellsMessages
  BY <1>2 DEF ReadsAreCurrent, TellsMessages
<1>4. CustomerKnowsTheStatus
  BY DEF Init, CustomerKnowsTheStatus, Newest
<1>5. QED
  BY <1>1, <1>3, <1>4 DEF IInv

\* Every step keeps the inductive invariant.
THEOREM NextKeeps == IInv /\ [Next]_vars => IInv'
<1> SUFFICES ASSUME IInv, [Next]_vars PROVE IInv'
  OBVIOUS
<1>1. CASE UNCHANGED vars
  BY <1>1 DEF vars, IInv, TypeOK, ReadsAreCurrent, TellsMessages, CustomerKnowsTheStatus,
              Newest, Telling, Untold
<1>2. CASE Next
  BY <1>2, CreateKeeps, FindRentalKeeps, ValidateUpdateKeeps, ValidateKeeps,
     WriteStatusKeeps, SilentChangeKeeps, RereadKeeps, NotifyKeeps, LoseNoticeKeeps,
     MailKeeps, AbandonKeeps, MarkReadKeeps DEF Next
<1>3. QED
  BY <1>1, <1>2

\* The invariant of the specification.
THEOREM Invariance == Spec => []IInv
BY InitIInv, NextKeeps, PTL DEF Spec

\* Every reachable state is well typed.
THEOREM TypeCorrect == Spec => []TypeOK
BY Invariance, PTL DEF IInv

\* A customer of whom nothing is in doubt knows the status of his rental.
THEOREM CustomersKnow == Spec => []CustomerKnowsTheStatus
BY Invariance, PTL DEF IInv

-----------------------------------------------------------------------------
(* The first page of a set of notices *)

\* The notices of S inserted after i, and how many there are for each.
Newer(S, i) == {j \in S : j > i}

Rank(S) == [i \in S |-> Cardinality(Newer(S, i))]

\* The newer of two notices has fewer newer ones than the other.
LEMMA NewerHaveFewer ==
    ASSUME NEW S \in SUBSET Nat, IsFiniteSet(S), NEW i \in S, NEW j \in S, i < j
    PROVE  /\ Cardinality(Newer(S, i)) \in Nat
           /\ Cardinality(Newer(S, j)) \in Nat
           /\ Cardinality(Newer(S, j)) < Cardinality(Newer(S, i))
<1>1. IsFiniteSet(Newer(S, i))
  BY FS_Subset DEF Newer
<1>2. Newer(S, j) \in SUBSET Newer(S, i) /\ j \in Newer(S, i) /\ j \notin Newer(S, j)
  <2>1. i \in Nat /\ j \in Nat /\ \A k \in S : k \in Nat
    OBVIOUS
  <2>2. \A k \in S : k > j => k > i
    BY <2>1
  <2>3. Newer(S, j) \subseteq Newer(S, i)
    BY <2>2, Zenon DEF Newer
  <2>4. j > i /\ ~(j > j)
    BY <2>1
  <2>5. j \in Newer(S, i) /\ j \notin Newer(S, j)
    BY <2>4, Zenon DEF Newer
  <2>6. QED
    BY <2>3, <2>5
<1>3. /\ IsFiniteSet(Newer(S, j))
      /\ Cardinality(Newer(S, j)) <= Cardinality(Newer(S, i))
      /\ Cardinality(Newer(S, j)) # Cardinality(Newer(S, i))
  BY <1>1, <1>2, FS_Subset
<1>4. Cardinality(Newer(S, i)) \in Nat /\ Cardinality(Newer(S, j)) \in Nat
  BY <1>1, <1>3, FS_CardinalityType
<1>5. QED
  BY <1>3, <1>4

\* The ranks of notices are different numbers below their count ...
LEMMA RankInjects ==
    ASSUME NEW S \in SUBSET Nat, IsFiniteSet(S)
    PROVE  /\ Cardinality(S) \in Nat
           /\ Rank(S) \in Injection(S, 0 .. Cardinality(S) - 1)
<1>1. Cardinality(S) \in Nat
  BY FS_CardinalityType
<1>2. ASSUME NEW i \in S
      PROVE  Cardinality(Newer(S, i)) \in 0 .. Cardinality(S) - 1
  <2>1. Newer(S, i) \in SUBSET S /\ i \notin Newer(S, i)
    BY DEF Newer
  <2>2. /\ IsFiniteSet(Newer(S, i))
        /\ Cardinality(Newer(S, i)) <= Cardinality(S)
        /\ Cardinality(Newer(S, i)) # Cardinality(S)
    BY <2>1, FS_Subset
  <2>3. Cardinality(Newer(S, i)) \in Nat
    BY <2>2, FS_CardinalityType
  <2>4. QED
    BY <1>1, <2>2, <2>3
<1>3. ASSUME NEW i \in S, NEW j \in S, Cardinality(Newer(S, i)) = Cardinality(Newer(S, j))
      PROVE  i = j
  <2>1. ~(i < j)
    BY <1>3, NewerHaveFewer
  <2>2. ~(j < i)
    BY <1>3, NewerHaveFewer
  <2>3. QED
    BY <2>1, <2>2
<1>4. QED
  BY <1>1, <1>2, <1>3 DEF Rank, Injection, IsInjective

\* ... and all of them, so that there is a notice of every rank.
LEMMA RankHits ==
    ASSUME NEW S \in SUBSET Nat, IsFiniteSet(S), NEW k \in 0 .. Cardinality(S) - 1
    PROVE  \E i \in S : Cardinality(Newer(S, i)) = k
<1> DEFINE T == 0 .. Cardinality(S) - 1
<1>1. Cardinality(S) \in Nat /\ Rank(S) \in Injection(S, T)
  BY RankInjects
<1>2. IsFiniteSet(T) /\ Cardinality(T) = Cardinality(S)
  BY <1>1, FS_Interval
<1>3. k \in T
  OBVIOUS
<1> HIDE DEF T
<1>4. Rank(S) \in Surjection(S, T)
  BY <1>1, <1>2, FS_Injection
<1>5. PICK i \in S : Rank(S)[i] = k
  BY <1>3, <1>4 DEF Surjection
<1>6. QED
  BY <1>5 DEF Rank

\* A page of some notices that leaves one out is full, and what it leaves out is
\* older than what it shows; it is empty only when there is nothing to show.
LEMMA PageIsFull ==
    ASSUME NEW S \in SUBSET Nat, IsFiniteSet(S)
    PROVE  /\ \A i \in S \ Page(S) :
                 /\ \A j \in Page(S) : i < j
                 /\ Cardinality(Page(S)) = PageSize
           /\ Page(S) = {} <=> Cardinality(S) = 0
<1> DEFINE P == Page(S)
           T == 0 .. PageSize - 1
           f == [i \in P |-> Cardinality(Newer(S, i))]
<1>1. PageSize \in Nat /\ PageSize > 0 /\ Cardinality(S) \in Nat
  BY PageSizeAssumption, FS_CardinalityType
<1>2. P = {i \in S : Cardinality(Newer(S, i)) < PageSize}
  BY DEF Page, Newer
<1>3. \A i \in S : Cardinality(Newer(S, i)) \in 0 .. Cardinality(S) - 1
  BY RankInjects DEF Rank, Injection, IsInjective
<1>4. \A i, j \in S : Cardinality(Newer(S, i)) = Cardinality(Newer(S, j)) => i = j
  BY RankInjects DEF Rank, Injection, IsInjective
<1>5. IsFiniteSet(P)
  BY <1>2, FS_Subset
<1>6. ASSUME NEW i \in S \ P
      PROVE  /\ \A j \in P : i < j
             /\ Cardinality(P) = PageSize
  <2>1. Cardinality(S) > PageSize
    BY <1>1, <1>2, <1>3
  <2>2. ASSUME NEW j \in P
        PROVE  i < j
    <3> HIDE DEF P, T, f
    <3>1. i \in S /\ j \in S /\ i \in Nat /\ j \in Nat
      BY <1>2
    <3>2. /\ Cardinality(Newer(S, j)) < PageSize
          /\ ~(Cardinality(Newer(S, i)) < PageSize)
      BY <1>2
    <3>3. ~(j < i) /\ j # i
      BY <1>1, <1>3, <3>1, <3>2, NewerHaveFewer
    <3>4. QED
      BY <3>1, <3>3
  <2>3. f \in Injection(P, T)
    <3>1. ASSUME NEW j \in P
          PROVE  f[j] = Cardinality(Newer(S, j)) /\ f[j] \in T
      <4>1. f[j] = Cardinality(Newer(S, j))
        OBVIOUS
      <4>2. /\ Cardinality(Newer(S, j)) < PageSize
            /\ Cardinality(Newer(S, j)) \in 0 .. Cardinality(S) - 1
        BY <1>2, <1>3, Zenon
      <4>3. Cardinality(Newer(S, j)) \in T
        BY <1>1, <4>2
      <4>4. QED
        BY <4>1, <4>3, Zenon
    <3>2. \A j, k \in P : f[j] = f[k] => j = k
      BY <1>2, <1>4, <3>1
    <3>3. f \in [P -> T]
      BY <3>1
    <3>4. QED
      BY <3>2, <3>3, Zenon DEF Injection, IsInjective
  <2>4. ASSUME NEW k \in T
        PROVE  \E j \in P : f[j] = k
    <3>1. PICK j \in S : Cardinality(Newer(S, j)) = k
      BY <1>1, <2>1, RankHits
    <3>2. QED
      BY <1>1, <1>2, <3>1
  <2>5. f \in Surjection(P, T)
    BY <2>3, <2>4 DEF Injection, Surjection
  <2>6. IsFiniteSet(T) /\ Cardinality(T) = PageSize
    <3>1. PageSize - 1 \in Int /\ ~(0 > PageSize - 1) /\ PageSize - 1 - 0 + 1 = PageSize
      BY <1>1
    <3>2. QED
      BY <3>1, FS_Interval
  <2>7. Cardinality(P) = Cardinality(T)
    <3> HIDE DEF f, T, P
    <3>1. QED
      BY <2>3, <2>5, <2>6, FS_Injection
  <2>8. QED
    BY <2>2, <2>6, <2>7
<1>7. Cardinality(S) # 0 => P # {}
  <2>1. SUFFICES ASSUME Cardinality(S) # 0
                 PROVE  P # {}
    OBVIOUS
  <2>2. PICK i \in S : Cardinality(Newer(S, i)) = 0
    BY <1>1, <2>1, RankHits
  <2>3. QED
    BY <1>1, <1>2, <2>2
<1>8. Cardinality(S) = 0 => P = {}
  BY <1>2, FS_EmptySet
<1>9. QED
  BY <1>6, <1>7, <1>8

\* The unread notices of an inbox are finitely many places of it.
LEMMA UnreadArePlaces ==
    ASSUME TypeOK, NEW r \in Rentals
    PROVE  Unread(r) \in SUBSET Nat /\ IsFiniteSet(Unread(r))
<1>1. inbox[r] \in Seq(Notice)
  BY DEF TypeOK
<1>2. Len(inbox[r]) \in Nat /\ DOMAIN inbox[r] = 1 .. Len(inbox[r])
  BY <1>1
<1>3. IsFiniteSet(1 .. Len(inbox[r]))
  BY <1>2, FS_Interval
<1>4. Unread(r) \in SUBSET (1 .. Len(inbox[r]))
  BY <1>2 DEF Unread
<1>5. QED
  BY <1>2, <1>3, <1>4, FS_Subset

\* Whatever the size of a page and however many notices are in the inbox, the
\* unread page leaves out an unread notice only behind a full page of newer
\* ones, and is empty when and only when the counter is zero (ListByUserID,
\* CountUnreadByUserID).
THEOREM UnreadPagesHideNothing == Spec => []UnreadPageHidesNothing
<1>1. TypeOK => UnreadPageHidesNothing
  <2>1. SUFFICES ASSUME TypeOK, NEW r \in Rentals
                 PROVE  /\ \A i \in Unread(r) \ UnreadPage(r) :
                              /\ \A j \in UnreadPage(r) : i < j
                              /\ Cardinality(UnreadPage(r)) = PageSize
                        /\ UnreadPage(r) = {} <=> CountUnread(r) = 0
    BY DEF UnreadPageHidesNothing
  <2>2. Unread(r) \in SUBSET Nat /\ IsFiniteSet(Unread(r))
    BY <2>1, UnreadArePlaces
  <2>3. QED
    BY <2>2, PageIsFull, Zenon DEF UnreadPage, CountUnread
<1>2. Spec => []TypeOK
  BY Invariance, PTL DEF IInv
<1>3. QED
  BY <1>1, <1>2, PTL
=============================================================================
