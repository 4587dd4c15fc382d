------------------------------ MODULE Accounts ------------------------------
(****************************************************************************)
(* How people get into the system: codes by SMS, passwords, roles and tokens  *)
(* (AuthService), and the platform owner who founds and suspends schools and  *)
(* hands out passwords on a slip (SuperAdminService, the console; for pupils  *)
(* and parents StudentsService.resetCredentials).                            *)
(*                                                                          *)
(* A statement or Redis command is an action.  The routes one may call        *)
(* without a token run outside a transaction: each statement is for good.     *)
(* A password or code is named by the request that made it; the mark that a   *)
(* password must be changed is set and cleared in the statements that set the *)
(* password, and tokens are looked at before they expire.                    *)
(****************************************************************************)
EXTENDS Integers, FiniteSets

CONSTANTS
    Requests,
    People,        \* phone numbers; a user of the platform has one
    Schools,
    Roles,
    Enrolled,      \* those who have an account, and their roles, from the start
    Joining,       \* the roles people may be given later
    Founded,       \* the schools that are there from the start
    OTP_MAX_PER_HOUR,
    Texting,       \* bound: those who ask for codes
    MaxCount,      \* bound: the largest counter of codes
    MaxClock,      \* bound: no school is suspended or activated after it
    MaxInFlight,   \* bound: requests at a time
    First,         \* a password from before the start
    NoValue

Secrets == Requests \cup {First}

ASSUME EnrolledAssumption == Enrolled \cup Joining \subseteq People \X Schools \X Roles
ASSUME FoundedAssumption == /\ Founded \subseteq Schools /\ "admin" \in Roles
                            /\ Texting \subseteq People
ASSUME ValuesAssumption == /\ First \notin Requests /\ First # NoValue
                           /\ NoValue \notin Requests \cup People \cup Schools \cup Roles
                           /\ "absent" \notin Secrets \cup {NoValue}
ASSUME BoundsAssumption == /\ {MaxCount, MaxClock, MaxInFlight} \subseteq Nat
                           /\ OTP_MAX_PER_HOUR \in Nat \ {0}

VARIABLES
    password,  \* users: the password; NoValue with none, "absent" without a user
    role,      \* user_roles
    school,    \* schools.status
    since,     \* when the status was last changed
    otp,       \* Redis otp:<phone>: the code that would be accepted
    count,     \* Redis otp_limit:<phone>
    expires,   \* whether that key has a time to live
    dropped,   \* the phones for which a send stopped between INCR and EXPIRE
    clock,     \* how many requests have been answered, and status changes made
    tx         \* the requests

tables == <<password, role, school, since>>
redis == <<otp, count, expires, dropped>>
vars == <<tables, redis, clock, tx>>

-----------------------------------------------------------------------------

Token == [person : People, school : Schools, role : Roles]
Kinds == {"send", "verify", "login", "refresh", "select", "change", "reset", "found"}
Open == {"school", "user", "insert", "count", "expire", "store", "get", "del", "read",
         "roles", "prove", "vacant", "update", "principal", "commit"}

\* A handler: whom and which school it is about, the code or password that is
\* presented, the token that goes out, and whether it has written.
Handler ==
    [step : Open \cup {"idle", "done"}, kind : Kinds \cup {"none"},
     person : People \cup {NoValue}, school : Schools \cup {NoValue},
     secret : Secrets \cup {NoValue}, token : Token \cup {NoValue},
     wrote : BOOLEAN, began : Nat, ended : Nat]

Idle == [step |-> "idle", kind |-> "none", person |-> NoValue, school |-> NoValue,
         secret |-> NoValue, token |-> NoValue, wrote |-> FALSE, began |-> 0, ended |-> 0]

Step(r, t) == tx' = [tx EXCEPT ![r] = t] /\ UNCHANGED <<tables, clock>>

Goto(r, step) == Step(r, [tx[r] EXCEPT !.step = step])

\* Nothing is left of a transaction that fails; what a public route has written stays.
Rollback(r) == Step(r, Idle) /\ UNCHANGED redis

\* The UPDATE or INSERT of a user another transaction has written waits for it.
Blockers(r) ==
    {q \in Requests \ {r} : /\ tx[r].step \in {"insert", "update", "principal"}
                            /\ tx[q].wrote /\ tx[q].person = tx[r].person}

AtStep(r, step) == tx[r].step = step /\ Blockers(r) = {}

Begin(r, t) ==
    /\ tx[r].step = "idle"
    /\ Cardinality({q \in Requests : tx[q].step \in Open}) < MaxInFlight
    /\ Step(r, [t EXCEPT !.began = clock])
    /\ UNCHANGED redis

\* The answer; a transaction was committed before it.  What no property or later
\* request asks for is forgotten.
Answer(r, t) ==
    /\ tx' = [tx EXCEPT ![r] =
                 CASE t.kind = "verify" -> [t EXCEPT !.step = "done", !.ended = clock + 1]
                   [] t.kind \in {"change", "reset", "found"} ->
                        [t EXCEPT !.step = "done", !.ended = clock + 1, !.wrote = FALSE,
                                  !.secret = NoValue, !.began = 0]
                   [] t.kind \in {"send", "login", "refresh", "select"} ->
                        [Idle EXCEPT !.step = "done", !.kind = t.kind, !.token = t.token,
                                     !.person = IF t.kind = "send" THEN t.person ELSE NoValue,
                                     !.began = IF t.kind = "login" THEN t.began ELSE 0]]
    /\ clock' = clock + 1

-----------------------------------------------------------------------------
(* Requests that begin *)

SendOtp(r, p, s) ==
    Begin(r, [Idle EXCEPT !.kind = "send", !.step = "school", !.person = p, !.school = s])

\* With a code that was sent to this phone at some time.
VerifyOtp(r, q, s) ==
    /\ tx[q].step = "done" /\ tx[q].kind = "send"
    /\ Begin(r, [Idle EXCEPT !.kind = "verify", !.step = "school", !.person = tx[q].person,
                             !.school = s, !.secret = q])

LoginPassword(r, p, s, secret) ==
    Begin(r, [Idle EXCEPT !.kind = "login", !.step = "school", !.person = p,
                          !.school = s, !.secret = secret])

\* refreshTokens: no table is read; the same claims go out again.
RefreshTokens(r, q) ==
    /\ tx[r].step = "idle" /\ tx[q].step = "done" /\ tx[q].token # NoValue
    /\ Answer(r, [Idle EXCEPT !.kind = "refresh", !.token = tx[q].token])
    /\ UNCHANGED <<tables, redis>>

\* selectRole: any role the caller has, at any school.
SelectRole(r, q, m) ==
    /\ tx[r].step = "idle" /\ tx[q].step = "done" /\ tx[q].token # NoValue
    /\ tx[q].token.person = m[1]
    /\ Answer(r, [Idle EXCEPT !.kind = "select",
                    !.token = [person |-> m[1], school |-> m[2], role |-> m[3]]])
    /\ UNCHANGED <<tables, redis>>

ChangePassword(r, q, p, secret) ==
    /\ tx[q].step = "done" /\ tx[q].token # NoValue /\ tx[q].token.person = p
    /\ Begin(r, [Idle EXCEPT !.kind = "change", !.step = "prove", !.person = p,
                             !.secret = secret])

\* resetPrincipal; resetCredentials of a pupil or parent.
Reset(r, p) ==
    /\ password[p] # "absent"
    /\ Begin(r, [Idle EXCEPT !.kind = "reset", !.step = "update", !.person = p])

\* A code no school has; no other request draws the same one.
UniqueCode(s) ==
    /\ school[s] = "none"
    /\ \A q \in Requests : tx[q].kind = "found" => tx[q].school # s

\* createSchool: under an id and a code that are new.
CreateSchool(r, p, s) ==
    /\ UniqueCode(s)
    /\ Begin(r, [Idle EXCEPT !.kind = "found", !.step = "vacant", !.person = p,
                             !.school = s])

-----------------------------------------------------------------------------
(* Statements of the public routes *)

\* findSchool.
FindSchool(r) ==
    /\ AtStep(r, "school") /\ UNCHANGED redis
    /\ IF school[tx[r].school] # "active" THEN Rollback(r)
       ELSE Goto(r, CASE tx[r].kind = "send" -> "user"
                      [] tx[r].kind = "verify" -> "get"
                      [] tx[r].kind = "login" -> "read")

\* findOrCreateUser: the SELECT, and the INSERT unless somebody was quicker.
FindUser(r) ==
    /\ AtStep(r, "user") /\ UNCHANGED redis
    /\ Goto(r, IF password[tx[r].person] = "absent" THEN "insert" ELSE "count")

CreateUser(r) ==
    /\ AtStep(r, "insert")
    /\ IF password[tx[r].person] # "absent" THEN Rollback(r)
       ELSE /\ password' = [password EXCEPT ![tx[r].person] = NoValue]
            /\ tx' = [tx EXCEPT ![r].step = "count"]
            /\ UNCHANGED <<role, school, since, redis, clock>>

\* What follows INCR.  Fault: a count from 0, which INCR never returns.
AfterCountFromZero(n) == IF n = 0 THEN "expire"
                         ELSE IF n > OTP_MAX_PER_HOUR THEN "refuse" ELSE "store"
AfterCount(n) == IF n = 1 THEN "expire"
                 ELSE IF n > OTP_MAX_PER_HOUR THEN "refuse" ELSE "store"

CountSend(r) ==
    /\ AtStep(r, "count")
    /\ LET n == count[tx[r].person] + 1 IN
          /\ n <= MaxCount
          /\ count' = [count EXCEPT ![tx[r].person] = n]
          /\ IF AfterCount(n) = "refuse" THEN Step(r, Idle) ELSE Goto(r, AfterCount(n))
    /\ UNCHANGED <<otp, expires, dropped>>

Expire(r) ==
    /\ AtStep(r, "expire")
    /\ expires' = [expires EXCEPT ![tx[r].person] = TRUE]
    /\ Goto(r, "store")
    /\ UNCHANGED <<otp, count, dropped>>

StoreCode(r) ==
    /\ AtStep(r, "store")
    /\ otp' = [otp EXCEPT ![tx[r].person] = r]
    /\ Answer(r, tx[r])
    /\ UNCHANGED <<tables, count, expires, dropped>>

GetCode(r) ==
    /\ AtStep(r, "get") /\ UNCHANGED redis
    /\ IF otp[tx[r].person] = tx[r].secret THEN Goto(r, "del") ELSE Rollback(r)

\* Whatever code is there by now goes.  Fault: the code stays until it expires.
LeaveCode(r) == otp
BurnCode(r) == [otp EXCEPT ![tx[r].person] = NoValue]

DelCode(r) ==
    /\ AtStep(r, "del")
    /\ otp' = BurnCode(r)
    /\ Goto(r, "roles")
    /\ UNCHANGED <<count, expires, dropped>>

\* loginPassword: the user and his password.
CheckPassword(r) ==
    /\ AtStep(r, "read") /\ UNCHANGED redis
    /\ IF password[tx[r].person] = tx[r].secret THEN Goto(r, "roles") ELSE Rollback(r)

\* Fault: the roles of all schools.
RolesAnywhere(p, s) == {m[3] : m \in {n \in role : n[1] = p}}
RolesAt(p, s) == {m[3] : m \in {n \in role : n[1] = p /\ n[2] = s}}

\* With one role a token; with several only their list, and /auth/select-role, which
\* the client is to call with one of them, asks for a token.
\* Fault: with several roles a token without one.
TokenAnyway(r, roles) ==
    [person |-> tx[r].person, school |-> tx[r].school,
     role |-> IF Cardinality(roles) = 1 THEN CHOOSE only \in roles : TRUE ELSE NoValue]
TokenFor(r, roles) ==
    IF Cardinality(roles) # 1 THEN NoValue
    ELSE [person |-> tx[r].person, school |-> tx[r].school,
          role |-> CHOOSE only \in roles : TRUE]

\* buildAuthResponse: none without a role at this school.
BuildResponse(r) ==
    /\ AtStep(r, "roles") /\ UNCHANGED <<tables, redis>>
    /\ LET roles == RolesAt(tx[r].person, tx[r].school) IN
       IF roles = {} THEN tx' = [tx EXCEPT ![r] = Idle] /\ UNCHANGED clock
       ELSE Answer(r, [tx[r] EXCEPT !.token = TokenFor(r, roles)])

-----------------------------------------------------------------------------
(* Statements of the others *)

\* changePassword reads the hash and verifies the old password.
\* Fault: any password will do.
ProvesNothing(r) == password[tx[r].person] \notin {NoValue, "absent"}
Proves(r) == password[tx[r].person] = tx[r].secret

ProveOld(r) ==
    /\ AtStep(r, "prove") /\ UNCHANGED redis
    /\ IF Proves(r) THEN Goto(r, "update") ELSE Rollback(r)

\* UPDATE users ... WHERE id: changePassword, resetPrincipal, resetCredentials.
UpdatePassword(r) ==
    /\ AtStep(r, "update") /\ UNCHANGED redis
    /\ Step(r, [tx[r] EXCEPT !.wrote = TRUE, !.step = "commit"])

\* createSchool: no user has the phone ...
CheckVacant(r) ==
    /\ AtStep(r, "vacant") /\ UNCHANGED redis
    /\ IF password[tx[r].person] = "absent" THEN Goto(r, "principal") ELSE Rollback(r)

\* ... and still none when the principal's user is inserted.
\* Fault: ON CONFLICT DO NOTHING, and the school goes to the user who is there.
InsertOrKeep(r) ==
    Step(r, [tx[r] EXCEPT !.wrote = password[tx[r].person] = "absent", !.step = "commit"])
InsertUser(r) ==
    IF password[tx[r].person] = "absent"
    THEN Step(r, [tx[r] EXCEPT !.wrote = TRUE, !.step = "commit"])
    ELSE Rollback(r)

InsertPrincipal(r) == AtStep(r, "principal") /\ InsertUser(r) /\ UNCHANGED redis

Commit(r) ==
    /\ AtStep(r, "commit")
    /\ LET t == tx[r] IN
          /\ password' = IF t.wrote THEN [password EXCEPT ![t.person] = r] ELSE password
          /\ role' = IF t.kind = "found"
                     THEN role \cup {<<t.person, t.school, "admin">>} ELSE role
          /\ school' = IF t.kind = "found" THEN [school EXCEPT ![t.school] = "active"]
                       ELSE school
    /\ Answer(r, tx[r])
    /\ UNCHANGED <<since, redis>>

\* setStatus: a transaction that writes one row nobody else waits for.
SetStatus(s, status) ==
    /\ school[s] \notin {"none", status}
    /\ clock < MaxClock
    /\ school' = [school EXCEPT ![s] = status]
    /\ clock' = clock + 1
    /\ since' = [since EXCEPT ![s] = clock + 1]
    /\ UNCHANGED <<password, role, redis, tx>>

\* teachers.service.ts, students.service.ts: somebody gets a role at a school.
Join(m) ==
    /\ password[m[1]] # "absent" /\ school[m[2]] # "none"
    /\ m \notin role
    /\ role' = role \cup {m}
    /\ UNCHANGED <<password, school, since, redis, clock, tx>>

\* An error, or a crash of the process, anywhere.
Fail(r) ==
    /\ tx[r].step \in Open
    /\ tx' = [tx EXCEPT ![r] = Idle]
    /\ dropped' = IF tx[r].step = "expire" THEN dropped \cup {tx[r].person} ELSE dropped
    /\ UNCHANGED <<tables, otp, count, expires, clock>>

\* Redis: the code after OTP_TTL, the counter after an hour.
CodeExpires(p) ==
    /\ otp[p] # NoValue
    /\ otp' = [otp EXCEPT ![p] = NoValue]
    /\ UNCHANGED <<tables, count, expires, dropped, clock, tx>>

CounterExpires(p) ==
    /\ expires[p]
    /\ count' = [count EXCEPT ![p] = 0]
    /\ expires' = [expires EXCEPT ![p] = FALSE]
    /\ UNCHANGED <<tables, otp, dropped, clock, tx>>

-----------------------------------------------------------------------------

Init ==
    /\ password = [p \in People |-> IF \E m \in Enrolled : m[1] = p THEN First ELSE "absent"]
    /\ role = Enrolled
    /\ school = [s \in Schools |-> IF s \in Founded THEN "active" ELSE "none"]
    /\ since = [s \in Schools |-> 0]
    /\ otp = [p \in People |-> NoValue]
    /\ count = [p \in People |-> 0]
    /\ expires = [p \in People |-> FALSE]
    /\ dropped = {}
    /\ clock = 0
    /\ tx = [r \in Requests |-> Idle]

\* The passwords somebody was told for this account.
Told(p) == {First} \cup {q \in Requests : /\ tx[q].step = "done" /\ tx[q].person = p
                                           /\ tx[q].kind \in {"change", "reset", "found"}}

Arrive(r) ==
    \/ \E p \in People, s \in Schools :
          \/ p \in Texting /\ SendOtp(r, p, s)
          \/ CreateSchool(r, p, s)
          \/ \E secret \in Told(p) : LoginPassword(r, p, s, secret)
    \/ \E p \in People : Reset(r, p)
    \/ \E q \in Requests :
          \/ RefreshTokens(r, q)
          \/ \E m \in role : SelectRole(r, q, m)
          \/ \E s \in Schools : VerifyOtp(r, q, s)
          \/ \E p \in People : \E secret \in Told(p) : ChangePassword(r, q, p, secret)

Serve(r) ==
    \/ FindSchool(r) \/ FindUser(r) \/ CreateUser(r) \/ CountSend(r) \/ Expire(r)
    \/ StoreCode(r) \/ GetCode(r) \/ DelCode(r) \/ CheckPassword(r) \/ BuildResponse(r)
    \/ ProveOld(r) \/ UpdatePassword(r) \/ CheckVacant(r) \/ InsertPrincipal(r) \/ Commit(r)

Next ==
    \/ \E r \in Requests : Arrive(r) \/ Serve(r) \/ Fail(r)
    \/ \E s \in Schools : SetStatus(s, "suspended") \/ SetStatus(s, "active")
    \/ \E m \in Joining : Join(m)
    \/ \E p \in People : CodeExpires(p) \/ CounterExpires(p)

Spec == Init /\ [][Next]_vars

-----------------------------------------------------------------------------
(* Properties *)

\* Every table, Redis key and handler holds values of its types.
TypeOK ==
    /\ password \in [People -> Secrets \cup {NoValue, "absent"}]
    /\ role \subseteq People \X Schools \X Roles
    /\ school \in [Schools -> {"none", "active", "suspended"}]
    /\ since \in [Schools -> Nat]
    /\ otp \in [People -> Requests \cup {NoValue}]
    /\ count \in [People -> Nat]
    /\ expires \in [People -> BOOLEAN]
    /\ dropped \subseteq People
    /\ clock \in Nat
    /\ tx \in [Requests -> Handler]

Done(r, kinds) == tx[r].step = "done" /\ tx[r].kind \in kinds

\* A code is read and then deleted.  All that can go wrong is that two verifications
\* overlap: one that begins after another was answered is never admitted by the same
\* code, however many are sent and whatever expires.
CodeAdmitsOnce ==
    \A p, q \in Requests :
       Done(p, {"verify"}) /\ Done(q, {"verify"}) /\ p # q /\ tx[p].secret = tx[q].secret
          => tx[p].ended > tx[q].began /\ tx[q].ended > tx[p].began

\* A token is only ever for a role its owner has at its school, through whatever
\* logins, refreshes and choices of a role it came about; and while a school is
\* suspended nobody gets one by a code or password in a request that began since.
TokensAreEarned ==
    \A r \in Requests : tx[r].step = "done" /\ tx[r].token # NoValue =>
       LET k == tx[r].token IN
          /\ <<k.person, k.school, k.role>> \in role
          /\ tx[r].kind \in {"login", "verify"} /\ school[k.school] = "suspended"
               => tx[r].began < since[k.school]

\* INCR and EXPIRE are two commands.  A counter without a time to live locks its phone
\* out for good: there is none unless a send stopped between the two.
OnlyCrashLocksOut ==
    \A p \in People : count[p] > 0 /\ ~expires[p] =>
       \/ p \in dropped
       \/ \E r \in Requests : tx[r].step = "expire" /\ tx[r].person = p

\* A slip is right: the account of a school that was founded, or of a reset, has the
\* password that was answered until a request that ends later sets another; and the
\* school that was founded is there, with the account as its admin.
SlipHolds ==
    \A r \in Requests : Done(r, {"reset", "found"}) =>
       LET w == password[tx[r].person] IN
          /\ w = r \/ (w \in Requests /\ tx[w].ended > tx[r].ended)
          /\ tx[r].kind = "found" => /\ school[tx[r].school] # "none"
                                     /\ <<tx[r].person, tx[r].school, "admin">> \in role

\* changePassword verifies the old password and then replaces whatever is there.  All
\* that can go wrong is an overlap: it never replaces a password its caller did not
\* know, unless that was set after the change began.
ChangeKnowsOld ==
    [][\A p \in People :
          LET was == password[p]
              now == password'[p]
          IN now # was /\ now \in Requests /\ tx'[now].kind = "change"
                => \/ tx[now].secret = was
                   \/ was \in Requests /\ tx[was].ended > tx[now].began]_vars

=============================================================================
