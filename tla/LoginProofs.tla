---------------------------- MODULE LoginProofs ----------------------------
(***************************************************************************)
(* Proofs about Login: the types, that edits one after the other leave an  *)
(* active account, and the bound on the failures of a locked name.         *)
(***************************************************************************)
EXTENDS Login, FiniteSetTheorems, TLAPS

\* _Counter: a bucket stays a bucket whatever is done to it.
LEMMA Buckets ==
  ASSUME NEW n \in Nat \ {0}, NEW w \in Nat, NEW b \in Bucket(n, w), NEW m \in 1 .. n
  PROVE  /\ Empty(n, w) \in Bucket(n, w) /\ Older(b, w) \in Bucket(n, w)
         /\ Push(b) \in Bucket(n, w) /\ Hit(b, m, w) \in Bucket(n, w)
<1>1. Empty(n, w) \in Bucket(n, w)
  BY DEF Empty, Bucket
<1>2. Older(b, w) \in Bucket(n, w)
  BY DEF Older, Bucket
<1>3. Push(b) \in Bucket(n, w)
  BY DEF Push, Bucket
<1> QED BY <1>1, <1>2, <1>3 DEF Hit

-----------------------------------------------------------------------------
(* Type correctness *)

LEMMA TypeInit == Init => TypeOK
<1> SUFFICES ASSUME Init PROVE TypeOK
  OBVIOUS
<1>1. users \in [Accounts -> Row \cup {NoRow}]
  BY LoginAssumption DEF Init, Row, Roles
<1>2. api \in Bucket(API_MAX, API_WINDOW) /\ logins \in Bucket(LOGIN_MAX, LOGIN_WINDOW)
  BY LoginAssumption DEF Init, Bucket, Empty
<1>3. failures \in [Accounts -> Bucket(FAILED_MAX + 1, LOCKOUT_SECONDS)]
  BY LoginAssumption DEF Init, Bucket, Empty
<1>4. over \in [Accounts -> Nat]
  BY DEF Init
<1>5. req \in [Handlers -> Request]
  <2>1. Idle \in Request
    BY DEF Request
  <2> QED BY <2>1 DEF Init
<1>6. sessions \subseteq Accounts /\ trouble \in 0 .. MaxTrouble
  BY LoginAssumption DEF Init
<1>7. crossed \in BOOLEAN
  BY Zenon DEF Init
<1> QED BY <1>1, <1>2, <1>3, <1>4, <1>5, <1>6, <1>7 DEF TypeOK

\* What a limiter's step makes of the counters.
LEMMA TypeCounters ==
  ASSUME TypeOK
  PROVE  /\ Hit(api, API_MAX, API_WINDOW) \in Bucket(API_MAX, API_WINDOW)
         /\ Hit(logins, LOGIN_MAX, LOGIN_WINDOW) \in Bucket(LOGIN_MAX, LOGIN_WINDOW)
         /\ \A u \in Accounts :
              /\ RecordFailure(u) \in [Accounts -> Bucket(FAILED_MAX + 1, LOCKOUT_SECONDS)]
              /\ RecordSuccess(u) \in [Accounts -> Bucket(FAILED_MAX + 1, LOCKOUT_SECONDS)]
<1> USE LoginAssumption
<1>1. Hit(api, API_MAX, API_WINDOW) \in Bucket(API_MAX, API_WINDOW)
  BY Buckets DEF TypeOK
<1>2. Hit(logins, LOGIN_MAX, LOGIN_WINDOW) \in Bucket(LOGIN_MAX, LOGIN_WINDOW)
  BY Buckets DEF TypeOK
<1>3. ASSUME NEW u \in Accounts
      PROVE  /\ Hit(failures[u], FAILED_MAX + 1, LOCKOUT_SECONDS)
                  \in Bucket(FAILED_MAX + 1, LOCKOUT_SECONDS)
             /\ Empty(FAILED_MAX + 1, LOCKOUT_SECONDS) \in Bucket(FAILED_MAX + 1, LOCKOUT_SECONDS)
  <2>1. FAILED_MAX + 1 \in Nat \ {0} /\ FAILED_MAX + 1 \in 1 .. FAILED_MAX + 1
    OBVIOUS
  <2>2. failures[u] \in Bucket(FAILED_MAX + 1, LOCKOUT_SECONDS)
    BY DEF TypeOK
  <2> QED BY <2>1, <2>2, Buckets
<1> QED BY <1>1, <1>2, <1>3 DEF TypeOK, RecordFailure, RecordSuccess

\* A request that has arrived, and what a step makes of it.
LEMMA TypeRequests ==
  ASSUME TypeOK
  PROVE  /\ Idle \in Request
         /\ \A u \in Accounts, p \in Passwords : [at |-> "login", user |-> u, password |-> p] \in Request
         /\ \A a \in Accounts, u \in Accounts, e \in Edits :
              /\ [at |-> "update", admin |-> a, user |-> u, edit |-> e] \in Request
              /\ e \in Whole => [at |-> "create", admin |-> a, user |-> u, edit |-> e] \in Request
         /\ \A h \in Handlers :
              /\ req[h].at = "login" => req[h] \in [at : {"login"}, user : Accounts, password : Passwords]
              /\ req[h].at = "verify" => req[h] \in [at : {"verify"}, user : Accounts,
                                                    password : Passwords, row : Row \cup {NoRow}]
              /\ req[h].at = "signed" => req[h] \in [at : {"signed"}, user : Accounts]
              /\ req[h].at = "update" =>
                   req[h] \in [at : {"update"}, admin : Accounts, user : Accounts, edit : Edits]
              /\ req[h].at = "create" =>
                   req[h] \in [at : {"create"}, admin : Accounts, user : Accounts, edit : Whole]
              /\ req[h].at = "write" =>
                   req[h] \in [at : {"write"}, admin : Accounts, user : Accounts, edit : Edits, row : Row]
<1>1. \A h \in Handlers : req[h] \in Request
  BY DEF TypeOK
<1>2. Idle.at = "idle"
  BY DEF Idle
<1>3. ASSUME NEW h \in Handlers, req[h].at = "login"
      PROVE  req[h] \in [at : {"login"}, user : Accounts, password : Passwords]
  BY <1>1, <1>2, <1>3 DEF Request
<1>4. ASSUME NEW h \in Handlers, req[h].at = "verify"
      PROVE  req[h] \in [at : {"verify"}, user : Accounts, password : Passwords, row : Row \cup {NoRow}]
  BY <1>1, <1>2, <1>4 DEF Request
<1>5. ASSUME NEW h \in Handlers, req[h].at = "signed"
      PROVE  req[h] \in [at : {"signed"}, user : Accounts]
  BY <1>1, <1>2, <1>5 DEF Request
<1>6. ASSUME NEW h \in Handlers
      PROVE  /\ req[h].at = "update" =>
                  req[h] \in [at : {"update"}, admin : Accounts, user : Accounts, edit : Edits]
             /\ req[h].at = "create" =>
                  req[h] \in [at : {"create"}, admin : Accounts, user : Accounts, edit : Whole]
  BY <1>1, <1>2 DEF Request
<1>7. ASSUME NEW h \in Handlers, req[h].at = "write"
      PROVE  req[h] \in [at : {"write"}, admin : Accounts, user : Accounts, edit : Edits, row : Row]
  BY <1>1, <1>2, <1>7 DEF Request
<1>8. Idle \in Request
  BY DEF Request
<1>9. \A u \in Accounts, p \in Passwords : [at |-> "login", user |-> u, password |-> p] \in Request
  BY DEF Request
<1>10. \A a \in Accounts, u \in Accounts, e \in Edits :
         /\ [at |-> "update", admin |-> a, user |-> u, edit |-> e] \in Request
         /\ e \in Whole => [at |-> "create", admin |-> a, user |-> u, edit |-> e] \in Request
  BY DEF Request
<1> QED BY <1>3, <1>4, <1>5, <1>6, <1>7, <1>8, <1>9, <1>10

LEMMA TypeTick == ASSUME TypeOK, Tick PROVE TypeOK'
<1> USE LoginAssumption
<1>1. api' \in Bucket(API_MAX, API_WINDOW) /\ logins' \in Bucket(LOGIN_MAX, LOGIN_WINDOW)
  BY Buckets DEF TypeOK, Tick
<1>2. failures' \in [Accounts -> Bucket(FAILED_MAX + 1, LOCKOUT_SECONDS)]
  <2>1. \A u \in Accounts : Older(failures[u], LOCKOUT_SECONDS) \in Bucket(FAILED_MAX + 1, LOCKOUT_SECONDS)
    BY Buckets, FAILED_MAX + 1 \in Nat \ {0} DEF TypeOK
  <2> QED BY <2>1 DEF Tick
<1>3. over' \in [Accounts -> Nat]
  BY DEF TypeOK, Tick
<1> QED BY <1>1, <1>2, <1>3 DEF TypeOK, Tick

LEMMA TypeRestart == ASSUME TypeOK, Restart PROVE TypeOK'
<1> USE LoginAssumption
<1>1. api' \in Bucket(API_MAX, API_WINDOW) /\ logins' \in Bucket(LOGIN_MAX, LOGIN_WINDOW)
  BY DEF Restart, Bucket, Empty
<1>2. failures' \in [Accounts -> Bucket(FAILED_MAX + 1, LOCKOUT_SECONDS)]
  BY DEF Restart, Bucket, Empty
<1>3. over' \in [Accounts -> Nat]
  BY DEF Restart
<1>4. req' \in [Handlers -> Request]
  BY TypeRequests DEF Restart
<1> QED BY <1>1, <1>2, <1>3, <1>4 DEF TypeOK, Restart, Trouble

LEMMA TypeRefused ==
  ASSUME TypeOK, NEW h \in Handlers, Burst \/ TooMany(h) \/ \E u \in Accounts : LockedOut(h, u)
  PROVE  TypeOK'
<1>1. CASE Burst
  BY <1>1, TypeCounters DEF TypeOK, Burst
<1>2. CASE TooMany(h)
  BY <1>2, TypeCounters DEF TypeOK, TooMany, Arrive
<1>3. CASE \E u \in Accounts : LockedOut(h, u)
  BY <1>3, TypeCounters DEF TypeOK, LockedOut, Arrive
<1> QED BY <1>1, <1>2, <1>3

LEMMA TypeCheck ==
  ASSUME TypeOK, NEW h \in Handlers, NEW u \in Accounts, NEW p \in Passwords, Check(h, u, p)
  PROVE  TypeOK'
<1>1. req' \in [Handlers -> Request]
  BY TypeRequests DEF TypeOK, Check
<1>2. trouble' \in 0 .. MaxTrouble
  BY LoginAssumption DEF TypeOK, Check, Trouble, Calm
<1> QED BY <1>1, <1>2, TypeCounters DEF TypeOK, Check, Arrive

LEMMA TypeAdmit ==
  ASSUME TypeOK, NEW h \in Handlers, NEW a \in Accounts, NEW u \in Accounts, NEW e \in Edits,
         Admit(h, a, u, e)
  PROVE  TypeOK'
<1>1. req' \in [Handlers -> Request]
  <2>1. PICK r \in Request : req' = [req EXCEPT ![h] = r]
    BY TypeRequests DEF Admit
  <2> QED BY <2>1 DEF TypeOK
<1>2. trouble' \in 0 .. MaxTrouble
  BY LoginAssumption DEF TypeOK, Admit, Trouble
<1> QED BY <1>1, <1>2, TypeCounters DEF TypeOK, Admit, Arrive

LEMMA TypeLogin ==
  ASSUME TypeOK, NEW h \in Handlers, Fetch(h) \/ Fail(h) \/ Succeed(h) \/ Answer(h)
  PROVE  TypeOK'
<1>1. CASE Fetch(h)
  <2>1. /\ req[h] \in [at : {"login"}, user : Accounts, password : Passwords]
        /\ users[req[h].user] \in Row \cup {NoRow}
    BY <1>1, TypeRequests DEF TypeOK, Fetch, counters
  <2>2. req' \in [Handlers -> Request]
    BY <1>1, <2>1 DEF TypeOK, Fetch, Request
  <2> QED BY <1>1, <2>2 DEF TypeOK, Fetch, counters
<1>2. CASE Fail(h)
  <2>1. req[h].user \in Accounts
    BY <1>2, TypeRequests DEF Fail
  <2>2. req' \in [Handlers -> Request]
    BY <1>2, TypeRequests DEF TypeOK, Fail
  <2>3. over' \in [Accounts -> Nat]
    <3>1. over \in [Accounts -> Nat]
      BY DEF TypeOK
    <3>2. PICK n \in Nat : over' = [over EXCEPT ![req[h].user] = n]
      <4>1. over[req[h].user] + 1 \in Nat /\ 0 \in Nat
        BY <2>1, <3>1
      <4> QED BY <1>2, <4>1 DEF Fail
    <3> QED BY <3>1, <3>2
  <2>4. failures' \in [Accounts -> Bucket(FAILED_MAX + 1, LOCKOUT_SECONDS)]
    BY <1>2, <2>1, TypeCounters DEF Fail
  <2> QED BY <1>2, <2>2, <2>3, <2>4 DEF TypeOK, Fail
<1>3. CASE Succeed(h)
  <2>1. req[h].user \in Accounts
    BY <1>3, TypeRequests DEF Succeed
  <2>2. req' \in [Handlers -> Request]
    BY <1>3, <2>1 DEF TypeOK, Succeed, Request
  <2>3. over' \in [Accounts -> Nat]
    BY <1>3 DEF TypeOK, Succeed
  <2> QED BY <1>3, <2>1, <2>2, <2>3, TypeCounters DEF TypeOK, Succeed
<1>4. CASE Answer(h)
  <2>1. req[h].user \in Accounts
    BY <1>4, TypeRequests DEF Answer
  <2>2. req' \in [Handlers -> Request]
    BY <1>4, TypeRequests DEF TypeOK, Answer, counters
  <2> QED BY <1>4, <2>1, <2>2 DEF TypeOK, Answer, counters
<1> QED BY <1>1, <1>2, <1>3, <1>4

\* What a payload names is a role, a state and a password, or is left out.
LEMMA EditFields ==
  ASSUME NEW e \in Edits
  PROVE  /\ e.role \in Roles \cup {None} /\ e.active \in {"yes", "no", None}
         /\ e.password \in Passwords \cup {None}
BY LoginAssumption

LEMMA EditedRow ==
  ASSUME NEW r \in Row, NEW e \in Edits
  PROVE  Edited(r, e) \in Row
BY EditFields DEF Edited, Row

LEMMA TypeEdit ==
  ASSUME TypeOK, NEW h \in Handlers, Create(h) \/ ReadRow(h) \/ WriteRow(h)
  PROVE  TypeOK'
<1>1. CASE Create(h)
  <2>1. req' \in [Handlers -> Request]
    BY <1>1, TypeRequests DEF TypeOK, Create, counters
  <2>2. users' \in [Accounts -> Row \cup {NoRow}]
    <3>1. req[h] \in [at : {"create"}, admin : Accounts, user : Accounts, edit : Whole]
      BY <1>1, TypeRequests DEF Create
    <3>2. req[h].edit.role \in Roles /\ req[h].edit.password \in Passwords
      BY <3>1, EditFields DEF Whole
    <3>3. [role |-> req[h].edit.role, active |-> "yes", password |-> req[h].edit.password] \in Row
      BY <3>2 DEF Row
    <3> QED BY <1>1, <3>3 DEF TypeOK, Create, counters
  <2> QED BY <1>1, <2>1, <2>2 DEF TypeOK, Create, counters
<1>2. CASE ReadRow(h)
  <2>1. req[h] \in [at : {"update"}, admin : Accounts, user : Accounts, edit : Edits]
    BY <1>2, TypeRequests DEF ReadRow
  <2>2. req' \in [Handlers -> Request]
    <3>1. CASE Forbidden(h)
      BY <1>2, <3>1, TypeRequests DEF TypeOK, ReadRow, counters
    <3>2. CASE ~Forbidden(h)
      <4>1. users[req[h].user] \in Row
        BY <2>1, <3>2 DEF TypeOK, Forbidden
      <4>2. [at |-> "write", admin |-> req[h].admin, user |-> req[h].user,
             edit |-> req[h].edit, row |-> users[req[h].user]] \in Request
        BY <2>1, <4>1 DEF Request
      <4> QED BY <1>2, <3>2, <4>2 DEF TypeOK, ReadRow, counters
    <3> QED BY <3>1, <3>2
  <2> QED BY <1>2, <2>2 DEF TypeOK, ReadRow, counters
<1>3. CASE WriteRow(h)
  <2>1. req[h] \in [at : {"write"}, admin : Accounts, user : Accounts, edit : Edits, row : Row]
    BY <1>3, TypeRequests DEF WriteRow
  <2>2. req' \in [Handlers -> Request]
    BY <1>3, TypeRequests DEF TypeOK, WriteRow, counters
  <2>3. users' \in [Accounts -> Row \cup {NoRow}]
    <3>1. Edited(req[h].row, req[h].edit) \in Row
      BY <2>1, EditedRow
    <3> QED BY <1>3, <3>1 DEF TypeOK, WriteRow, counters
  <2>4. crossed' \in BOOLEAN
    BY <1>3, Zenon DEF WriteRow
  <2> QED BY <1>3, <2>2, <2>3, <2>4 DEF TypeOK, WriteRow, counters
<1> QED BY <1>1, <1>2, <1>3

LEMMA TypeNext == TypeOK /\ [Next]_vars => TypeOK'
<1> SUFFICES ASSUME TypeOK, [Next]_vars PROVE TypeOK'
  OBVIOUS
<1>1. ASSUME NEW h \in Handlers, Step(h) PROVE TypeOK'
  BY <1>1, TypeLogin, TypeEdit DEF Step
<1>2. ASSUME NEW h \in Handlers, Drop(h) PROVE TypeOK'
  <2>1. req' \in [Handlers -> Request] /\ trouble' \in 0 .. MaxTrouble
    BY <1>2, TypeRequests, LoginAssumption DEF TypeOK, Drop, Trouble
  <2> QED BY <1>2, <2>1 DEF TypeOK, Drop, counters
<1>3. ASSUME NEW u \in Accounts, Leave(u) PROVE TypeOK'
  BY <1>3, LoginAssumption DEF TypeOK, Leave, Trouble, counters
<1>4. ASSUME Burst PROVE TypeOK'
  BY <1>4, TypeCounters DEF TypeOK, Burst
<1>5. ASSUME UNCHANGED vars PROVE TypeOK'
  BY <1>5 DEF TypeOK, vars, counters
<1>6. ASSUME NEW h \in Handlers, TooMany(h) \/ \E u \in Accounts : LockedOut(h, u) PROVE TypeOK'
  BY <1>6, TypeRefused
<1> QED
  BY <1>1, <1>2, <1>3, <1>4, <1>5, <1>6, TypeTick, TypeRestart, TypeCheck, TypeAdmit DEF Next

\* Login keeps its types: rows, requests and buckets, whatever happens.
THEOREM TypeCorrect == Spec => []TypeOK
BY TypeInit, TypeNext, PTL DEF Spec

-----------------------------------------------------------------------------
(* An active account stays *)

\* The administrator of an edit has a row, and does not disable itself.
EditInv ==
  \A h \in Handlers :
    /\ req[h].at \in {"update", "write"} => users[req[h].admin] # NoRow
    /\ req[h].at = "write" /\ req[h].user = req[h].admin => req[h].edit.active # "no"

ActiveInv == TypeOK /\ EditInv /\ SomebodyActive

LEMMA RowsDiffer == \A r \in Row : r # NoRow
BY DEF Row, NoRow, None

LEMMA ActiveInit == Init => EditInv /\ SomebodyActive
<1> SUFFICES ASSUME Init PROVE EditInv /\ SomebodyActive
  OBVIOUS
<1>1. EditInv
  BY DEF Init, EditInv, Idle
<1>2. users[First] # NoRow /\ users[First].active = "yes" /\ First \in Accounts
  BY LoginAssumption DEF Init, NoRow, None
<1> QED BY <1>1, <1>2 DEF SomebodyActive

\* Neither a request's going nor a new one that is not yet a write breaks it.
LEMMA EditInvKept ==
  ASSUME TypeOK, EditInv, NEW h \in Handlers, NEW r, req' = [req EXCEPT ![h] = r], UNCHANGED users,
         r.at \in {"update", "write"} => users[r.admin] # NoRow,
         r.at = "write" /\ r.user = r.admin => r.edit.active # "no"
  PROVE  EditInv'
BY DEF EditInv, TypeOK

LEMMA ActiveWrite ==
  ASSUME ActiveInv, NEW h \in Handlers, WriteRow(h)
  PROVE  EditInv' /\ SomebodyActive'
<1> DEFINE a == req[h].admin
           t == req[h].user
           e == req[h].edit
<1>1. req[h] \in [at : {"write"}, admin : Accounts, user : Accounts, edit : Edits, row : Row]
  BY TypeRequests DEF WriteRow, ActiveInv
<1>2. Edited(req[h].row, e) \in Row /\ users' = [users EXCEPT ![t] = Edited(req[h].row, e)]
  BY <1>1, EditedRow DEF WriteRow
<1>3. users[a] # NoRow
  BY <1>1 DEF ActiveInv, EditInv
<1>4. EditInv'
  <2>1. \A u \in Accounts : users[u] # NoRow => users'[u] # NoRow
    BY <1>1, <1>2, RowsDiffer DEF ActiveInv, TypeOK
  <2>2. \A g \in Handlers : req'[g] = IF g = h THEN Idle ELSE req[g]
    BY DEF WriteRow, ActiveInv, TypeOK
  <2>3. \A g \in Handlers : req[g].at \in {"update", "write"} => req[g].admin \in Accounts
    BY TypeRequests DEF ActiveInv
  <2> QED BY <2>1, <2>2, <2>3 DEF ActiveInv, EditInv, Idle
<1>5. SomebodyActive'
  <2> SUFFICES ASSUME ~crossed' PROVE \E u \in Accounts : users'[u] # NoRow /\ users'[u].active = "yes"
    BY DEF SomebodyActive
  <2>1. users[t] = req[h].row /\ users[a].active # "no"
    BY DEF WriteRow
  <2>2. users[a].active = "yes"
    BY <1>1, <1>3, <2>1 DEF ActiveInv, TypeOK, Row
  <2>3. CASE t = a
    <3>1. e.active # "no"
      BY <1>1, <2>3 DEF ActiveInv, EditInv
    <3>2. e.active = "yes" \/ e.active = None
      BY <1>1, <3>1, EditFields
    <3>3. Edited(req[h].row, e).active = "yes"
      BY <2>1, <2>2, <2>3, <3>2 DEF Edited, None
    <3> QED BY <1>1, <1>2, <3>3, RowsDiffer DEF ActiveInv, TypeOK
  <2>4. CASE t # a
    BY <1>1, <1>2, <1>3, <2>2, <2>4 DEF ActiveInv, TypeOK
  <2> QED BY <2>3, <2>4
<1> QED BY <1>4, <1>5

LEMMA ActiveCreate ==
  ASSUME ActiveInv, NEW h \in Handlers, Create(h)
  PROVE  EditInv' /\ SomebodyActive'
<1>1. req[h] \in [at : {"create"}, admin : Accounts, user : Accounts, edit : Whole]
  BY TypeRequests DEF Create, ActiveInv
<1>2. \A u \in Accounts : users[u] # NoRow => users'[u] = users[u]
  BY <1>1 DEF Create, ActiveInv, TypeOK
<1>3. \A g \in Handlers : req'[g] = IF g = h THEN Idle ELSE req[g]
  BY DEF Create, ActiveInv, TypeOK
<1>4. \A g \in Handlers : req[g].at \in {"update", "write"} => req[g].admin \in Accounts
  BY TypeRequests DEF ActiveInv
<1>5. EditInv'
  BY <1>2, <1>3, <1>4 DEF ActiveInv, EditInv, Idle
<1>6. crossed' = crossed
  BY DEF Create
<1> QED BY <1>2, <1>5, <1>6 DEF ActiveInv, SomebodyActive

LEMMA ActiveNext == ActiveInv /\ [Next]_vars => EditInv' /\ SomebodyActive'
<1> SUFFICES ASSUME ActiveInv, [Next]_vars PROVE EditInv' /\ SomebodyActive'
  OBVIOUS
<1> USE DEF ActiveInv
<1>1. ASSUME UNCHANGED <<users, crossed>>, EditInv' PROVE EditInv' /\ SomebodyActive'
  BY <1>1 DEF SomebodyActive
<1>2. ASSUME UNCHANGED <<users, crossed, req>> PROVE EditInv' /\ SomebodyActive'
  BY <1>1, <1>2 DEF EditInv
<1>3. ASSUME NEW h \in Handlers, NEW r, req' = [req EXCEPT ![h] = r], UNCHANGED <<users, crossed>>,
             r.at \notin {"update", "write"}
      PROVE  EditInv' /\ SomebodyActive'
  BY <1>1, <1>3, EditInvKept
<1>4. ASSUME NEW h \in Handlers, Step(h) PROVE EditInv' /\ SomebodyActive'
  <2>1. CASE Fetch(h)
    BY <1>3, <2>1 DEF Fetch
  <2>2. CASE Fail(h) \/ Answer(h)
    BY <1>3, <2>2 DEF Fail, Answer, Idle
  <2>3. CASE Succeed(h)
    BY <1>3, <2>3 DEF Succeed
  <2>4. CASE ReadRow(h)
    <3>1. CASE Forbidden(h)
      BY <1>3, <2>4, <3>1 DEF ReadRow, Idle
    <3>2. CASE ~Forbidden(h)
      <4> DEFINE r == [at |-> "write", admin |-> req[h].admin, user |-> req[h].user,
                       edit |-> req[h].edit, row |-> users[req[h].user]]
      <4>1. req' = [req EXCEPT ![h] = r] /\ UNCHANGED <<users, crossed>>
        BY <2>4, <3>2 DEF ReadRow
      <4>2. users[r.admin] # NoRow
        BY <2>4 DEF ReadRow, EditInv
      <4>3. r.user = r.admin => r.edit.active # "no"
        BY <3>2 DEF Forbidden
      <4> QED BY <1>1, <4>1, <4>2, <4>3, EditInvKept
    <3> QED BY <3>1, <3>2
  <2> QED BY <1>4, <2>1, <2>2, <2>3, <2>4, ActiveWrite, ActiveCreate DEF Step
<1>5. ASSUME NEW h \in Handlers, NEW a \in Accounts, NEW u \in Accounts, NEW e \in Edits,
             Admit(h, a, u, e)
      PROVE  EditInv' /\ SomebodyActive'
  <2>1. users[a] # NoRow
    BY <1>5 DEF Admit, Admin
  <2>2. CASE req' = [req EXCEPT ![h] = [at |-> "update", admin |-> a, user |-> u, edit |-> e]]
    BY <1>1, <1>5, <2>1, <2>2, EditInvKept DEF Admit
  <2>3. CASE req' = [req EXCEPT ![h] = [at |-> "create", admin |-> a, user |-> u, edit |-> e]]
    BY <1>3, <1>5, <2>3 DEF Admit
  <2> QED BY <1>5, <2>2, <2>3 DEF Admit
<1>6. ASSUME NEW h \in Handlers, NEW u \in Accounts, NEW p \in Passwords, Check(h, u, p)
      PROVE  EditInv' /\ SomebodyActive'
  BY <1>3, <1>6 DEF Check
<1>7. ASSUME NEW h \in Handlers, Drop(h) PROVE EditInv' /\ SomebodyActive'
  BY <1>3, <1>7 DEF Drop, Idle
<1>8. ASSUME Restart PROVE EditInv' /\ SomebodyActive'
  <2>1. EditInv'
    BY <1>8 DEF Restart, EditInv, Idle
  <2> QED BY <1>1, <1>8, <2>1 DEF Restart
<1>9. ASSUME NEW h \in Handlers, TooMany(h) \/ \E u \in Accounts : LockedOut(h, u)
      PROVE  EditInv' /\ SomebodyActive'
  BY <1>2, <1>9 DEF TooMany, LockedOut
<1>10. ASSUME Tick \/ Burst \/ (\E u \in Accounts : Leave(u)) \/ UNCHANGED vars
       PROVE  EditInv' /\ SomebodyActive'
  BY <1>2, <1>10 DEF Tick, Burst, Leave, vars
<1> QED BY <1>4, <1>5, <1>6, <1>7, <1>8, <1>9, <1>10 DEF Next

\* update_user: only edits that overlap can disable every account: an
\* administrator's own row outlives the edits it makes.
THEOREM ActiveStays == Spec => []SomebodyActive
<1>1. Init => ActiveInv
  BY TypeInit, ActiveInit DEF ActiveInv
<1>2. ActiveInv /\ [Next]_vars => ActiveInv'
  BY TypeNext, ActiveNext DEF ActiveInv
<1>3. ActiveInv => SomebodyActive
  BY DEF ActiveInv
<1> QED BY <1>1, <1>2, <1>3, PTL DEF Spec

-----------------------------------------------------------------------------
(* The bound on the failures of a locked name *)

FailureInv == TypeOK /\ FailuresBounded

LEMMA TryingFinite ==
  ASSUME NEW u \in Accounts
  PROVE  /\ IsFiniteSet(Trying(u)) /\ Cardinality(Trying(u)) \in Nat
         /\ IsFiniteSet(Handlers) /\ Cardinality(Handlers) \in Nat
         /\ Cardinality(Trying(u)) <= Cardinality(Handlers)
<1>1. IsFiniteSet(Handlers) /\ Trying(u) \subseteq Handlers
  BY LoginAssumption DEF Trying
<1> QED BY <1>1, FS_Subset, FS_CardinalityType

\* Without a new attempt and with the lock no tighter, nothing changes.
LEMMA CountKept ==
  ASSUME FailureInv, NEW u \in Accounts, Closed(u)' => Closed(u), over'[u] = over[u],
         Trying(u)' \subseteq Trying(u)
  PROVE  Closed(u)' => over'[u] + Cardinality(Trying(u)') < Cardinality(Handlers)
<1>1. Cardinality(Trying(u)') <= Cardinality(Trying(u)) /\ Cardinality(Trying(u)') \in Nat
  <2>1. IsFiniteSet(Trying(u)') /\ Cardinality(Trying(u)') <= Cardinality(Trying(u))
    BY TryingFinite, FS_Subset
  <2> QED BY <2>1, FS_CardinalityType
<1>2. Closed(u) => over[u] + Cardinality(Trying(u)) < Cardinality(Handlers)
  BY DEF FailureInv, FailuresBounded
<1>3. over[u] \in Nat
  BY DEF FailureInv, TypeOK
<1> QED BY <1>1, <1>2, <1>3, TryingFinite

LEMMA CountInit == Init => FailuresBounded
<1> SUFFICES ASSUME Init, NEW u \in Accounts PROVE ~Closed(u)
  BY DEF FailuresBounded
<1>1. failures[u][FAILED_MAX] = LOCKOUT_SECONDS + 1
  BY LoginAssumption DEF Init, Empty
<1> QED BY <1>1, LoginAssumption DEF Closed

\* With the records as they were and no new attempt, nothing changes.
LEMMA CountSame ==
  ASSUME FailureInv, UNCHANGED <<failures, over>>, \A u \in Accounts : Trying(u)' \subseteq Trying(u)
  PROVE  FailuresBounded'
<1>1. ASSUME NEW u \in Accounts
      PROVE  Closed(u)' => over'[u] + Cardinality(Trying(u)') < Cardinality(Handlers)
  <2>1. Closed(u)' => Closed(u)
    BY DEF Closed
  <2> QED BY <2>1, CountKept
<1> QED BY <1>1 DEF FailuresBounded

\* check_login lets nobody in while the lock is closed.
LEMMA CountCheck ==
  ASSUME FailureInv, NEW h \in Handlers, NEW u \in Accounts, NEW p \in Passwords, Check(h, u, p)
  PROVE  FailuresBounded'
<1>1. UNCHANGED <<failures, over>>
  BY DEF Check
<1>2. ~Closed(u)'
  <2>1. failures[u][FAILED_MAX] > LOCKOUT_SECONDS
    BY DEF Check, Locked, Below
  <2>2. failures[u][FAILED_MAX] \in Nat
    BY LoginAssumption DEF FailureInv, TypeOK, Bucket
  <2> QED BY <1>1, <2>1, <2>2, LoginAssumption DEF Closed
<1>3. ASSUME NEW v \in Accounts, v # u PROVE Trying(v)' \subseteq Trying(v)
  BY <1>3 DEF Check, Trying, FailureInv, TypeOK
<1>4. ASSUME NEW v \in Accounts, v # u
      PROVE  Closed(v)' => over'[v] + Cardinality(Trying(v)') < Cardinality(Handlers)
  <2>1. Closed(v)' => Closed(v)
    BY <1>1 DEF Closed
  <2> QED BY <1>1, <1>3, <1>4, <2>1, CountKept
<1> QED BY <1>2, <1>4 DEF FailuresBounded

\* An attempt that fails is one fewer under way: it closes the lock, or is one
\* of those that were let in before.
LEMMA CountFail ==
  ASSUME FailureInv, NEW h \in Handlers, Fail(h)
  PROVE  FailuresBounded'
<1>1. PICK u \in Accounts : u = req[h].user /\ h \in Trying(u)
  BY TypeRequests DEF Fail, Trying, FailureInv
<1>2. /\ failures' = [failures EXCEPT ![u] = Hit(@, FAILED_MAX + 1, LOCKOUT_SECONDS)]
      /\ over' = [over EXCEPT ![u] = IF Closed(u) THEN @ + 1 ELSE 0]
  BY <1>1 DEF Fail, RecordFailure
<1>3. \A v \in Accounts : Trying(v)' \subseteq Trying(v)
  BY DEF Fail, Trying, FailureInv, TypeOK, Idle
<1>4. Trying(u)' \subseteq Trying(u) \ {h}
  BY DEF Fail, Trying, FailureInv, TypeOK, Idle
<1>5. /\ Cardinality(Trying(u) \ {h}) = Cardinality(Trying(u)) - 1
      /\ Cardinality(Trying(u)') <= Cardinality(Trying(u) \ {h})
      /\ Cardinality(Trying(u)') \in Nat
  <2>1. IsFiniteSet(Trying(u)) /\ IsFiniteSet(Trying(u) \ {h})
    BY TryingFinite, FS_Subset
  <2>2. IsFiniteSet(Trying(u)') /\ Cardinality(Trying(u)') <= Cardinality(Trying(u) \ {h})
    BY <1>4, <2>1, FS_Subset
  <2> QED BY <1>1, <2>1, <2>2, FS_RemoveElement, FS_CardinalityType
<1>6. over'[u] + Cardinality(Trying(u)') < Cardinality(Handlers)
  <2>1. over \in [Accounts -> Nat]
    BY DEF FailureInv, TypeOK
  <2>2. CASE Closed(u)
    <3>1. over[u] + Cardinality(Trying(u)) < Cardinality(Handlers)
      BY <2>2 DEF FailureInv, FailuresBounded
    <3>2. over'[u] = over[u] + 1
      BY <1>2, <2>1, <2>2
    <3> QED BY <1>5, <2>1, <3>1, <3>2, TryingFinite
  <2>3. CASE ~Closed(u)
    <3>1. over'[u] = 0
      BY <1>2, <2>1, <2>3
    <3> QED BY <1>5, <3>1, TryingFinite
  <2> QED BY <2>2, <2>3
<1>7. ASSUME NEW v \in Accounts, v # u
      PROVE  Closed(v)' => over'[v] + Cardinality(Trying(v)') < Cardinality(Handlers)
  <2>1. failures'[v] = failures[v] /\ over'[v] = over[v]
    BY <1>2, <1>7 DEF FailureInv, TypeOK
  <2>2. Closed(v)' => Closed(v)
    BY <2>1 DEF Closed
  <2> QED BY <1>3, <2>1, <2>2, CountKept
<1> QED BY <1>6, <1>7 DEF FailuresBounded

\* Time only opens locks.
LEMMA CountTick == FailureInv /\ Tick => FailuresBounded'
<1> SUFFICES ASSUME FailureInv, Tick, NEW u \in Accounts, Closed(u)'
    PROVE  over'[u] + Cardinality(Trying(u)') < Cardinality(Handlers)
  BY DEF FailuresBounded
<1>1. failures[u] \in [1 .. FAILED_MAX + 1 -> 0 .. LOCKOUT_SECONDS + 1] /\ FAILED_MAX \in 1 .. FAILED_MAX + 1
  BY LoginAssumption DEF FailureInv, TypeOK, Bucket
<1>2. failures'[u][FAILED_MAX] = IF failures[u][FAILED_MAX] <= LOCKOUT_SECONDS
                                  THEN failures[u][FAILED_MAX] + 1 ELSE failures[u][FAILED_MAX]
  BY <1>1 DEF Tick, Older
<1>3. Closed(u)
  BY <1>1, <1>2, LoginAssumption DEF Closed
<1>4. over'[u] = over[u]
  BY DEF Tick
<1>5. Trying(u)' \subseteq Trying(u)
  BY DEF Tick, Trying
<1> QED BY <1>3, <1>4, <1>5, CountKept

LEMMA CountSucceed ==
  ASSUME FailureInv, NEW h \in Handlers, Succeed(h)
  PROVE  FailuresBounded'
<1>1. PICK u \in Accounts : u = req[h].user
  BY TypeRequests DEF Succeed, FailureInv
<1>2. ~Closed(u)'
  <2>1. failures'[u] = Empty(FAILED_MAX + 1, LOCKOUT_SECONDS)
    BY <1>1 DEF Succeed, RecordSuccess, FailureInv, TypeOK
  <2>2. failures'[u][FAILED_MAX] = LOCKOUT_SECONDS + 1
    BY <2>1, LoginAssumption DEF Empty
  <2> QED BY <2>2, LoginAssumption DEF Closed
<1>3. ASSUME NEW v \in Accounts, v # u
      PROVE  Closed(v)' => over'[v] + Cardinality(Trying(v)') < Cardinality(Handlers)
  <2>1. failures'[v] = failures[v] /\ over'[v] = over[v]
    BY <1>1, <1>3 DEF Succeed, RecordSuccess, FailureInv, TypeOK
  <2>2. Closed(v)' => Closed(v)
    BY <2>1 DEF Closed
  <2>3. Trying(v)' \subseteq Trying(v)
    BY DEF Succeed, Trying, FailureInv, TypeOK
  <2> QED BY <2>1, <2>2, <2>3, CountKept
<1> QED BY <1>2, <1>3 DEF FailuresBounded

LEMMA CountNext == FailureInv /\ [Next]_vars => FailuresBounded'
<1> SUFFICES ASSUME FailureInv, [Next]_vars PROVE FailuresBounded'
  OBVIOUS
<1>1. ASSUME NEW h \in Handlers, NEW r, req' = [req EXCEPT ![h] = r], UNCHANGED <<failures, over>>,
             r.at \notin {"login", "verify"}
      PROVE  FailuresBounded'
  <2>1. \A u \in Accounts : Trying(u)' \subseteq Trying(u)
    BY <1>1 DEF Trying, FailureInv, TypeOK
  <2> QED BY <1>1, <2>1, CountSame
<1>2. ASSUME UNCHANGED <<failures, over, req>> PROVE FailuresBounded'
  BY <1>2, CountSame DEF Trying
<1>3. ASSUME NEW h \in Handlers, Step(h) PROVE FailuresBounded'
  <2>1. CASE Fetch(h)
    <3>1. \A u \in Accounts : Trying(u)' \subseteq Trying(u)
      BY <2>1 DEF Fetch, Trying, FailureInv, TypeOK
    <3> QED BY <2>1, <3>1, CountSame DEF Fetch, counters
  <2>2. CASE Answer(h) \/ Create(h) \/ WriteRow(h)
    BY <1>1, <2>2 DEF Answer, Create, WriteRow, Idle, counters
  <2>3. CASE ReadRow(h)
    BY <1>1, <2>3 DEF ReadRow, Idle, counters
  <2> QED BY <1>3, <2>1, <2>2, <2>3, CountFail, CountSucceed DEF Step
<1>4. ASSUME NEW h \in Handlers, NEW a \in Accounts, NEW u \in Accounts, NEW e \in Edits,
             Admit(h, a, u, e)
      PROVE  FailuresBounded'
  BY <1>1, <1>4 DEF Admit
<1>5. ASSUME NEW h \in Handlers, Drop(h) PROVE FailuresBounded'
  BY <1>1, <1>5 DEF Drop, Idle, counters
<1>6. ASSUME Restart PROVE FailuresBounded'
  <2>1. ASSUME NEW u \in Accounts PROVE ~Closed(u)'
    <3>1. failures'[u][FAILED_MAX] = LOCKOUT_SECONDS + 1
      BY <1>6, LoginAssumption DEF Restart, Empty
    <3> QED BY <3>1, LoginAssumption DEF Closed
  <2> QED BY <2>1 DEF FailuresBounded
<1>7. ASSUME NEW h \in Handlers, TooMany(h) \/ \E u \in Accounts : LockedOut(h, u) PROVE FailuresBounded'
  BY <1>2, <1>7 DEF TooMany, LockedOut
<1>8. ASSUME Burst \/ (\E u \in Accounts : Leave(u)) \/ UNCHANGED vars PROVE FailuresBounded'
  BY <1>2, <1>8 DEF Burst, Leave, vars, counters
<1> QED BY <1>3, <1>4, <1>5, <1>6, <1>7, <1>8, CountTick, CountCheck DEF Next

\* record_failure and check_login: whatever the number of requests under way,
\* once FAILED_MAX failures of a name are on record only attempts let in before
\* can still fail, until the cool-down ends or one of them succeeds.
THEOREM FailuresStayBounded == Spec => []FailuresBounded
<1>1. Init => FailureInv
  BY TypeInit, CountInit DEF FailureInv
<1>2. FailureInv /\ [Next]_vars => FailureInv'
  BY TypeNext, CountNext DEF FailureInv
<1>3. FailureInv => FailuresBounded
  BY DEF FailureInv
<1> QED BY <1>1, <1>2, <1>3, PTL DEF Spec
=============================================================================
