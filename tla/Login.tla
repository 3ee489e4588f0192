------------------------------- MODULE Login -------------------------------
(***************************************************************************)
(* Signing in and keeping accounts: login and its rate limits (main.py     *)
(* 574-610, ratelimit.py), sessions (require_session) and the edits of the *)
(* users table (create_user, update_user).                                 *)
(*                                                                         *)
(* The handlers run in one process and give way at each await; what runs   *)
(* between two awaits is one step.  _Counter awaits nothing while it holds *)
(* its lock, so each call of it is part of the step around it.  All the    *)
(* clients have one address.                                               *)
(*                                                                         *)
(* A bucket of time stamps is kept as the ages of its entries, the latest  *)
(* first; an entry older than the window is Gone, which is how hit and     *)
(* count see it whether they have dropped it yet or not.                   *)
(***************************************************************************)
EXTENDS Integers, FiniteSets

CONSTANTS
  Handlers,           \* requests under way at a time
  Accounts,           \* user names
  First,              \* the administrator that setup left
  Passwords,
  Edits,              \* the payloads of update_user and create_user
  LOGIN_WINDOW, LOGIN_MAX, FAILED_MAX, LOCKOUT_SECONDS, API_WINDOW, API_MAX,
  MaxTrouble          \* bound on wrong passwords, edits and faults

Roles == {"admin", "operation", "monitoring"}
None  == "none"       \* a field the payload leaves out
NoRow == [role |-> None, active |-> None, password |-> None]

ASSUME LoginAssumption ==
  /\ IsFiniteSet(Handlers) /\ First \in Accounts /\ None \notin Passwords /\ MaxTrouble \in Nat
  /\ Edits \subseteq [role : Roles \cup {None}, active : {"yes", "no", None},
                      password : Passwords \cup {None}]
  /\ LOGIN_WINDOW \in Nat /\ LOCKOUT_SECONDS \in Nat /\ API_WINDOW \in Nat
  /\ LOGIN_MAX \in Nat \ {0} /\ FAILED_MAX \in Nat \ {0} /\ API_MAX \in Nat \ {0}

VARIABLES
  users, sessions,                    \* the users table; who holds a valid cookie
  api, logins, failures,              \* ratelimit._ip and ._user
  req,                                \* the requests under way
  over,                               \* history: failures since a name's lock closed
  crossed,                            \* history: an edit was written over another
  trouble

counters == <<api, logins, failures>>
vars == <<users, sessions, counters, req, over, crossed, trouble>>

Whole == {e \in Edits : e.role # None /\ e.password # None}   \* fit to create
Row == [role : Roles, active : {"yes", "no"}, password : Passwords]
Idle == [at |-> "idle"]

-----------------------------------------------------------------------------
(* Buckets.  Each operator named Faulty... is a plausible slip in the      *)
(* definition that follows it; no specification uses one.                  *)

Bucket(n, window) == [1 .. n -> 0 .. window + 1]
Empty(n, window)  == [k \in 1 .. n |-> window + 1]
Older(b, window)  == [k \in DOMAIN b |-> IF b[k] <= window THEN b[k] + 1 ELSE b[k]]

\* Fewer than n entries are in the window.
Below(b, n, window) == b[n] > window

Push(b) == [k \in DOMAIN b |-> IF k = 1 THEN 0 ELSE b[k - 1]]

\* hit: a request that is refused leaves no entry.
Hit(b, n, window) == IF Below(b, n, window) THEN Push(b) ELSE b

RecordFailure(u) == [failures EXCEPT ![u] = Hit(@, FAILED_MAX + 1, LOCKOUT_SECONDS)]
RecordSuccess(u) == [failures EXCEPT ![u] = Empty(FAILED_MAX + 1, LOCKOUT_SECONDS)]

\* FAILED_MAX failures of the name are on record within the cool-down.
Closed(u) == failures[u][FAILED_MAX] <= LOCKOUT_SECONDS

FaultyLocked(u) == ~Below(failures[u], FAILED_MAX + 1, LOCKOUT_SECONDS)
\* check_login: recent >= FAILED_MAX.
Locked(u) == ~Below(failures[u], FAILED_MAX, LOCKOUT_SECONDS)

Trouble == trouble < MaxTrouble /\ trouble' = trouble + 1
Calm == UNCHANGED trouble

\* _api_burst_limit runs before every handler of the portal.  Nothing else uses
\* its bucket, so its hit is joined to the first step of the handler.
Arrive(h) ==
  /\ req[h] = Idle
  /\ Below(api, API_MAX, API_WINDOW)
  /\ api' = Hit(api, API_MAX, API_WINDOW)

Burst ==
  /\ ~Below(api, API_MAX, API_WINDOW)
  /\ api' = Hit(api, API_MAX, API_WINDOW)
  /\ UNCHANGED <<users, sessions, logins, failures, req, over, crossed, trouble>>

-----------------------------------------------------------------------------
(* POST /api/login *)

Right(u, p) == users[u] # NoRow /\ users[u].password = p

\* check_login: the address first, which an attempt on a locked name uses up too.
Check(h, u, p) ==
  /\ Arrive(h)
  /\ Below(logins, LOGIN_MAX, LOGIN_WINDOW) /\ ~Locked(u)
  /\ logins' = Hit(logins, LOGIN_MAX, LOGIN_WINDOW)
  /\ req' = [req EXCEPT ![h] = [at |-> "login", user |-> u, password |-> p]]
  /\ IF Right(u, p) THEN Calm ELSE Trouble
  /\ UNCHANGED <<users, sessions, failures, over, crossed>>

TooMany(h) ==
  /\ Arrive(h)
  /\ ~Below(logins, LOGIN_MAX, LOGIN_WINDOW)
  /\ logins' = Hit(logins, LOGIN_MAX, LOGIN_WINDOW)
  /\ UNCHANGED <<users, sessions, failures, req, over, crossed, trouble>>

FaultyLockedOut(h, u) ==
  /\ Arrive(h)
  /\ Below(logins, LOGIN_MAX, LOGIN_WINDOW) /\ Locked(u)
  /\ logins' = Hit(logins, LOGIN_MAX, LOGIN_WINDOW)
  /\ failures' = RecordFailure(u)
  /\ UNCHANGED <<users, sessions, req, over, crossed, trouble>>
\* An attempt refused for the lock is not a failure, and does not prolong it.
LockedOut(h, u) ==
  /\ Arrive(h)
  /\ Below(logins, LOGIN_MAX, LOGIN_WINDOW) /\ Locked(u)
  /\ logins' = Hit(logins, LOGIN_MAX, LOGIN_WINDOW)
  /\ UNCHANGED <<users, sessions, failures, req, over, crossed, trouble>>

Fetch(h) ==
  /\ req[h].at = "login"
  /\ req' = [req EXCEPT ![h] = [at |-> "verify", user |-> req[h].user,
                                password |-> req[h].password, row |-> users[req[h].user]]]
  /\ UNCHANGED <<users, sessions, counters, over, crossed, trouble>>

Verified(h) ==
  req[h].row # NoRow /\ req[h].row.active = "yes" /\ req[h].row.password = req[h].password

Fail(h) ==
  /\ req[h].at = "verify" /\ ~Verified(h)
  /\ failures' = RecordFailure(req[h].user)
  /\ over' = [over EXCEPT ![req[h].user] = IF Closed(req[h].user) THEN @ + 1 ELSE 0]
  /\ req' = [req EXCEPT ![h] = Idle]
  /\ UNCHANGED <<users, sessions, api, logins, crossed, trouble>>

\* The cookie goes out with the answer, once the audit row is in.
Succeed(h) ==
  /\ req[h].at = "verify" /\ Verified(h)
  /\ failures' = RecordSuccess(req[h].user)
  /\ over' = [over EXCEPT ![req[h].user] = 0]
  /\ req' = [req EXCEPT ![h] = [at |-> "signed", user |-> req[h].user]]
  /\ UNCHANGED <<users, sessions, api, logins, crossed, trouble>>

Answer(h) ==
  /\ req[h].at = "signed"
  /\ sessions' = sessions \cup {req[h].user}
  /\ req' = [req EXCEPT ![h] = Idle]
  /\ UNCHANGED <<users, counters, over, crossed, trouble>>

\* Logged out, or twelve hours old.
Leave(u) ==
  /\ u \in sessions /\ Trouble
  /\ sessions' = sessions \ {u}
  /\ UNCHANGED <<users, counters, req, over, crossed>>

-----------------------------------------------------------------------------
(* Account edits *)

Admin(u) == u \in sessions /\ users[u] # NoRow /\ users[u].active = "yes" /\ users[u].role = "admin"

\* require_session and require_role read the caller's row.
Admit(h, a, u, e) ==
  /\ Arrive(h) /\ Admin(a) /\ Trouble
  /\ \/ req' = [req EXCEPT ![h] = [at |-> "update", admin |-> a, user |-> u, edit |-> e]]
     \/ /\ e \in Whole
        /\ req' = [req EXCEPT ![h] = [at |-> "create", admin |-> a, user |-> u, edit |-> e]]
  /\ UNCHANGED <<users, sessions, logins, failures, over, crossed>>

\* The unique name refuses a second row.
Create(h) ==
  /\ req[h].at = "create"
  /\ users' = IF users[req[h].user] # NoRow THEN users
              ELSE [users EXCEPT ![req[h].user] =
                      [role |-> req[h].edit.role, active |-> "yes",
                       password |-> req[h].edit.password]]
  /\ req' = [req EXCEPT ![h] = Idle]
  /\ UNCHANGED <<sessions, counters, over, crossed, trouble>>

FaultyForbidden(h) == users[req[h].user] = NoRow
\* No such user, or one's own account disabled.
Forbidden(h) ==
  \/ users[req[h].user] = NoRow
  \/ req[h].user = req[h].admin /\ req[h].edit.active = "no"

ReadRow(h) ==
  /\ req[h].at = "update"
  /\ req' = [req EXCEPT ![h] =
       IF Forbidden(h) THEN Idle
       ELSE [at |-> "write", admin |-> req[h].admin, user |-> req[h].user,
             edit |-> req[h].edit, row |-> users[req[h].user]]]
  /\ UNCHANGED <<users, sessions, counters, over, crossed, trouble>>

\* What the payload leaves out is written back as it was read.
Edited(r, e) == [role     |-> IF e.role = None THEN r.role ELSE e.role,
                 active   |-> IF e.active = None THEN r.active ELSE e.active,
                 password |-> IF e.password = None THEN r.password ELSE e.password]

WriteRow(h) ==
  /\ req[h].at = "write"
  /\ users' = [users EXCEPT ![req[h].user] = Edited(req[h].row, req[h].edit)]
  /\ crossed' = (crossed \/ users[req[h].user] # req[h].row
                         \/ users[req[h].admin].active = "no")
  /\ req' = [req EXCEPT ![h] = Idle]
  /\ UNCHANGED <<sessions, counters, over, trouble>>

-----------------------------------------------------------------------------
(* Time and faults *)

Tick ==
  /\ api' = Older(api, API_WINDOW)
  /\ logins' = Older(logins, LOGIN_WINDOW)
  /\ failures' = [u \in Accounts |-> Older(failures[u], LOCKOUT_SECONDS)]
  /\ over' = [u \in Accounts |-> IF Closed(u)' THEN over[u] ELSE 0]
  /\ UNCHANGED <<users, sessions, req, crossed, trouble>>

\* The database refuses, or the client hangs up.
Drop(h) ==
  /\ req[h] # Idle /\ Trouble
  /\ req' = [req EXCEPT ![h] = Idle]
  /\ UNCHANGED <<users, sessions, counters, over, crossed>>

\* The counters are the process's; cookies stay good (the secret is a file's).
Restart ==
  /\ Trouble
  /\ api' = Empty(API_MAX, API_WINDOW) /\ logins' = Empty(LOGIN_MAX, LOGIN_WINDOW)
  /\ failures' = [u \in Accounts |-> Empty(FAILED_MAX + 1, LOCKOUT_SECONDS)]
  /\ over' = [u \in Accounts |-> 0]
  /\ req' = [h \in Handlers |-> Idle]
  /\ UNCHANGED <<users, sessions, crossed>>

-----------------------------------------------------------------------------

Init ==
  /\ \E p \in Passwords : users =
       [u \in Accounts |-> IF u = First
          THEN [role |-> "admin", active |-> "yes", password |-> p] ELSE NoRow]
  /\ sessions = {}
  /\ api = Empty(API_MAX, API_WINDOW) /\ logins = Empty(LOGIN_MAX, LOGIN_WINDOW)
  /\ failures = [u \in Accounts |-> Empty(FAILED_MAX + 1, LOCKOUT_SECONDS)]
  /\ over = [u \in Accounts |-> 0]
  /\ req = [h \in Handlers |-> Idle]
  /\ crossed = FALSE /\ trouble = 0

Step(h) ==
  Fetch(h) \/ Fail(h) \/ Succeed(h) \/ Answer(h) \/ Create(h) \/ ReadRow(h) \/ WriteRow(h)

Next ==
  \/ Tick \/ Restart \/ Burst
  \/ \E u \in Accounts : Leave(u)
  \/ \E h \in Handlers :
       \/ Step(h) \/ Drop(h) \/ TooMany(h)
       \/ \E u \in Accounts : LockedOut(h, u)
       \/ \E u \in Accounts, p \in Passwords : Check(h, u, p)
       \/ \E a \in Accounts, u \in Accounts, e \in Edits : Admit(h, a, u, e)

Spec == Init /\ [][Next]_vars

\* The user who knows the password keeps trying, whatever the answer.
Try(u) == \E h \in Handlers, p \in Passwords : Right(u, p) /\ Check(h, u, p)

\* Time passes, requests are answered, and users try again.
FairSpec ==
  /\ Spec
  /\ WF_vars(Tick)
  /\ \A h \in Handlers : WF_vars(Step(h))
  /\ \A u \in Accounts : SF_vars(Try(u))

-----------------------------------------------------------------------------
(* Properties *)

Request ==
  {Idle}
  \cup [at : {"login"}, user : Accounts, password : Passwords]
  \cup [at : {"verify"}, user : Accounts, password : Passwords, row : Row \cup {NoRow}]
  \cup [at : {"signed"}, user : Accounts]
  \cup [at : {"update"}, admin : Accounts, user : Accounts, edit : Edits]
  \cup [at : {"create"}, admin : Accounts, user : Accounts, edit : Whole]
  \cup [at : {"write"}, admin : Accounts, user : Accounts, edit : Edits, row : Row]

TypeOK ==
  /\ users \in [Accounts -> Row \cup {NoRow}] /\ sessions \subseteq Accounts
  /\ api \in Bucket(API_MAX, API_WINDOW) /\ logins \in Bucket(LOGIN_MAX, LOGIN_WINDOW)
  /\ failures \in [Accounts -> Bucket(FAILED_MAX + 1, LOCKOUT_SECONDS)]
  /\ req \in [Handlers -> Request]
  /\ over \in [Accounts -> Nat]
  /\ crossed \in BOOLEAN /\ trouble \in 0 .. MaxTrouble

\* update_user: only edits that overlap can leave the portal without a single
\* active account; one after the other they never lock everybody out.
SomebodyActive == crossed \/ \E u \in Accounts : users[u] # NoRow /\ users[u].active = "yes"

\* Past check_login and not yet verified.
Trying(u) == {h \in Handlers : req[h].at \in {"login", "verify"} /\ req[h].user = u}

\* check_login and record_failure: once FAILED_MAX failures of a name are on
\* record within the cool-down, only attempts that were past the check by then
\* can still fail, each of them once, however long they take: with the one that
\* closed the lock, no more than the requests under way at a time.
FailuresBounded ==
  \A u \in Accounts : Closed(u) => over[u] + Cardinality(Trying(u)) < Cardinality(Handlers)

\* The cool-downs end although the user never stops trying: an active user who
\* knows the password is signed in again and again.
LockEnds == \A u \in Accounts :
  []<>(u \in sessions \/ users[u] = NoRow \/ users[u].active = "no")
=============================================================================
