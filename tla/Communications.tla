--------------------------- MODULE Communications ---------------------------
(****************************************************************************)
(* What a school's people ask of each other and tell each other              *)
(* (NotificationsService): leave requests and their decisions, suggestions    *)
(* and their replies, and the notices, circulars and messages that fan out to *)
(* the inbox of everybody in an audience; and what the platform owner tells   *)
(* the people of a school (SuperAdminService.broadcast).                     *)
(*                                                                          *)
(* A request is one READ COMMITTED transaction, a statement is an action (as *)
(* in FeeLedger).  A row remembers the request that wrote it.                *)
(****************************************************************************)
EXTENDS Integers, FiniteSets

CONSTANTS
    Requests,
    Users,
    Leaves,       \* rows of leave_requests
    Suggestions,  \* rows of suggestions
    Memberships,  \* rows user_roles may hold: pairs of a user and a role
    Joining,      \* the memberships that are not there from the start
    Section,      \* the users of one section: its students and their guardians
    Audiences,    \* the audiences that are written to
    AccountOf,    \* the user behind each leave's applicant and each suggestion
    MaxRows,      \* rows one INSERT may carry: 65535 parameters, 7 to a row
    PoolSize,
    NoValue

Cases == Leaves \cup Suggestions
Roles == {"admin", "teacher", "parent", "student"}
KnownAudiences == {"all", "teachers", "parents", "students", "section"}

ASSUME CasesAssumption == /\ Leaves \cap Suggestions = {}
                          /\ Requests \cap Cases = {}
                          /\ AccountOf \in [Cases -> Users]
ASSUME MembershipsAssumption == /\ Memberships \subseteq Users \X Roles
                                /\ Joining \subseteq Memberships
ASSUME NoValueAssumption == NoValue \notin Users \cup Requests \cup Cases \cup Int
ASSUME BoundsAssumption == MaxRows \in Nat /\ PoolSize \in Nat

VARIABLES
    case,      \* leave_requests and suggestions, committed
    notice,    \* notices, circulars, messages, broadcasts: the audience of each
    member,    \* user_roles: when each membership was committed
    guardian,  \* students.guardian_user_id of each leave's applicant
    inbox,     \* notifications, committed
    clock,     \* how many transactions have begun: NOW() is the begin's
    tx         \* the requests

tables == <<case, notice, member, guardian, inbox>>
vars == <<tables, clock, tx>>

-----------------------------------------------------------------------------

Verdicts == {"approved", "rejected"}
Row == [status : {"absent", "pending", "open", "closed"} \cup Verdicts,
        by : Requests \cup {NoValue}]
Target == [user : Users, via : Memberships \cup {NoValue}]
Notification == [to : Target, about : Cases \cup Requests, from : Requests,
                 says : {"closed", "news"} \cup Verdicts]
Posts == {"post", "broadcast"}
Open == {"check", "read", "file", "update", "resolve", "notify", "commit"}

\* A handler: what it is about, what it writes and says, whom it resolved, what
\* of it is written, and when its transaction began and ended.
Handler ==
    [step : Open \cup {"idle", "done", "failed"},
     kind : {"none", "apply", "decide", "suggest", "reply"} \cup Posts,
     about : Cases \cup Requests \cup {NoValue}, user : Users \cup {NoValue},
     says : {"none", "pending", "open", "closed", "news"} \cup Verdicts,
     audience : Audiences \cup {"all", "nobody", NoValue},
     targets : SUBSET Target, wrote : BOOLEAN, sent : BOOLEAN,
     began : Nat, ended : Nat]

Idle == [step |-> "idle", kind |-> "none", about |-> NoValue, user |-> NoValue,
         says |-> "none", audience |-> NoValue, targets |-> {}, wrote |-> FALSE,
         sent |-> FALSE, began |-> 0, ended |-> 0]

Rollback(r) ==
    /\ tx' = [tx EXCEPT ![r] = [Idle EXCEPT !.step = "failed"]]
    /\ UNCHANGED <<tables, clock>>

\* The memberships that are committed.
Present(roles) == {m \in Memberships : member[m] # NoValue /\ m[2] \in roles}

\* The one row two handlers write is a leave or suggestion being answered.
Blockers(r) ==
    {q \in Requests \ {r} : /\ tx[r].step = "update"
                            /\ tx[q].wrote /\ tx[q].about = tx[r].about}

AtStep(r, step) == tx[r].step = step /\ Blockers(r) = {}

Begin(r, handler) ==
    /\ tx[r].step = "idle"
    /\ Cardinality({q \in Requests : tx[q].step \in Open}) < PoolSize
    /\ clock' = clock + 1
    /\ tx' = [tx EXCEPT ![r] = [handler EXCEPT !.began = clock + 1]]
    /\ UNCHANGED tables

Goto(r, step) == [tx EXCEPT ![r].step = step]

-----------------------------------------------------------------------------
(* Requests that begin *)

\* applyLeave by a user for the applicant of a leave.
ApplyLeave(r, l, u) ==
    Begin(r, [Idle EXCEPT !.step = "check", !.kind = "apply", !.about = l, !.user = u,
                          !.says = "pending"])

ActLeave(r, l, verdict) ==
    Begin(r, [Idle EXCEPT !.step = "read", !.kind = "decide", !.about = l,
                          !.says = verdict])

SubmitSuggestion(r, s) ==
    Begin(r, [Idle EXCEPT !.step = "file", !.kind = "suggest", !.about = s,
                          !.says = "open"])

ReplySuggestion(r, s) ==
    Begin(r, [Idle EXCEPT !.step = "read", !.kind = "reply", !.about = s,
                          !.says = "closed"])

SendNotice(r, audience) ==
    Begin(r, [Idle EXCEPT !.step = "file", !.kind = "post", !.about = r, !.says = "news",
                          !.audience = audience])

\* A circular to a section names no section.
CreateCircular(r, audience) ==
    SendNotice(r, IF audience = "section" THEN "nobody" ELSE audience)

\* A recipient type stands for an audience, one that is unknown for all.
SendMessage(r, type) == SendNotice(r, IF type \in KnownAudiences THEN type ELSE "all")

\* The platform owner writes to roles of the school: no row of its own but in the audit log.
Broadcast(r, audience) ==
    Begin(r, [Idle EXCEPT !.step = "resolve", !.kind = "broadcast", !.about = r,
                          !.says = "news", !.audience = audience])

-----------------------------------------------------------------------------
(* Statements *)

\* A parent may only apply for a child whose guardian he is.
CheckApplicant(r) ==
    /\ AtStep(r, "check")
    /\ IF tx[r].user \in {AccountOf[tx[r].about], guardian[tx[r].about]}
       THEN tx' = Goto(r, "file") /\ UNCHANGED <<tables, clock>>
       ELSE Rollback(r)

\* The INSERT of a new leave, suggestion or notice, under a fresh id.
FileRow(r) ==
    /\ AtStep(r, "file")
    /\ tx[r].about \in Cases =>
          /\ case[tx[r].about].status = "absent"
          /\ \A q \in Requests : tx[q].wrote => tx[q].about # tx[r].about
    /\ tx' = [tx EXCEPT ![r].wrote = TRUE,
                        ![r].step = IF tx[r].kind = "post" THEN "resolve" ELSE "commit"]
    /\ UNCHANGED <<tables, clock>>

\* Fault: any leave that is there may be decided.
AnswerableAlways(r) == case[tx[r].about].status # "absent"

\* actLeave refuses what is no longer pending; replySuggestion only what is not there.
Answerable(r) ==
    IF tx[r].kind = "decide" THEN case[tx[r].about].status = "pending"
                             ELSE case[tx[r].about].status # "absent"

ReadCase(r) ==
    /\ AtStep(r, "read")
    /\ IF Answerable(r) THEN tx' = Goto(r, "update") /\ UNCHANGED <<tables, clock>>
                        ELSE Rollback(r)

\* UPDATE ... WHERE id: the row, whatever its status is by now.
UpdateCase(r) ==
    /\ AtStep(r, "update")
    /\ tx' = [tx EXCEPT ![r].wrote = TRUE, ![r].step = "resolve"]
    /\ UNCHANGED <<tables, clock>>

EachRow(S) == {[user |-> m[1], via |-> m] : m \in S}
Distinct(S) == {[user |-> u, via |-> NoValue] : u \in S}

\* resolveAudience: one role's rows are unique by user; the others ask for DISTINCT or
\* a UNION.
Resolve(audience) ==
    CASE audience = "teachers" -> EachRow(Present({"teacher"}))
      [] audience = "parents"  -> EachRow(Present({"parent"}))
      [] audience = "students" -> EachRow(Present({"student"}))
      [] audience = "section"  -> Distinct(Section \cap {m[1] : m \in Present(Roles)})
      [] audience = "nobody"   -> {}
      [] OTHER                 -> Distinct({m[1] : m \in Present(Roles)})

\* usersForApplicant; a suggestion's author.  Faults: the guardian there is not; the
\* guardian alone.
NoGuardianToo(c) ==
    {[user |-> u, via |-> NoValue] :
        u \in IF c \in Leaves THEN {AccountOf[c], guardian[c]} ELSE {AccountOf[c]}}
GuardianOnly(c) ==
    Distinct((IF c \in Leaves THEN {guardian[c]} ELSE {AccountOf[c]}) \ {NoValue})
Concerned(c) ==
    Distinct((IF c \in Leaves THEN {AccountOf[c], guardian[c]} ELSE {AccountOf[c]})
               \ {NoValue})

\* Fault: a user with several roles is resolved once for each.
TargetsWithRepeats(r) ==
    IF tx[r].kind \notin Posts THEN Concerned(tx[r].about)
    ELSE IF tx[r].audience = "all" THEN EachRow(Present(Roles))
    ELSE Resolve(tx[r].audience)

TargetsOf(r) ==
    IF tx[r].kind \in Posts THEN Resolve(tx[r].audience) ELSE Concerned(tx[r].about)

ResolveTargets(r) ==
    /\ AtStep(r, "resolve")
    /\ tx' = [tx EXCEPT ![r].targets = TargetsOf(r),
                        ![r].step = IF TargetsOf(r) = {} THEN "commit" ELSE "notify"]
    /\ UNCHANGED <<tables, clock>>

\* insertNotifications: one INSERT, which fails as a whole if it has too many rows;
\* broadcast: one for each user.
InsertNotifications(r) ==
    /\ AtStep(r, "notify")
    /\ IF tx[r].kind # "broadcast" /\ Cardinality(tx[r].targets) > MaxRows
       THEN Rollback(r)
       ELSE /\ tx' = [tx EXCEPT ![r].sent = TRUE, ![r].step = "commit"]
            /\ UNCHANGED <<tables, clock>>

Notifications(r) ==
    {[to |-> t, about |-> tx[r].about, from |-> r, says |-> tx[r].says] : t \in tx[r].targets}

\* What is left of a handler: the span of a decision, the begin of a notice.
Ended(t) ==
    LET done == [Idle EXCEPT !.step = "done", !.kind = t.kind] IN
    CASE t.kind = "decide" -> [done EXCEPT !.began = t.began, !.ended = clock]
      [] t.kind \in Posts  -> [done EXCEPT !.began = t.began]
      [] OTHER             -> done

Commit(r) ==
    /\ AtStep(r, "commit")
    /\ LET t == tx[r] IN
          /\ case' = IF t.kind \in Posts THEN case
                     ELSE [case EXCEPT ![t.about] = [status |-> t.says, by |-> r]]
          /\ notice' = IF t.kind \in Posts THEN [notice EXCEPT ![r] = t.audience]
                       ELSE notice
          /\ inbox' = IF t.sent THEN inbox \cup Notifications(r) ELSE inbox
          /\ tx' = [tx EXCEPT ![r] = Ended(t)]
    /\ UNCHANGED <<member, guardian, clock>>

\* An error or a crash at any point.
Fail(r) == tx[r].step \in Open /\ Rollback(r)

\* StudentsService, TeachersService: somebody joins; a student gets a parent of the
\* school for guardian.
Join(m) ==
    /\ member[m] = NoValue
    /\ member' = [member EXCEPT ![m] = clock]
    /\ UNCHANGED <<case, notice, guardian, inbox, clock, tx>>

ChangeGuardian(l) ==
    /\ guardian[l] = NoValue
    /\ \E m \in Present({"parent"}) : guardian' = [guardian EXCEPT ![l] = m[1]]
    /\ UNCHANGED <<case, notice, member, inbox, clock, tx>>

-----------------------------------------------------------------------------

Init ==
    /\ case = [c \in Cases |-> [status |-> "absent", by |-> NoValue]]
    /\ notice = [r \in Requests |-> NoValue]
    /\ member = [m \in Memberships |-> IF m \in Joining THEN NoValue ELSE 0]
    /\ guardian = [l \in Leaves |-> NoValue]
    /\ inbox = {}
    /\ clock = 0
    /\ tx = [r \in Requests |-> Idle]

Arrive(r) ==
    \/ \E l \in Leaves :
          \/ \E m \in Present(Roles \ {"admin"}) : ApplyLeave(r, l, m[1])
          \/ \E v \in Verdicts : ActLeave(r, l, v)
    \/ \E s \in Suggestions : SubmitSuggestion(r, s) \/ ReplySuggestion(r, s)
    \/ \E a \in Audiences : SendNotice(r, a) \/ CreateCircular(r, a) \/ SendMessage(r, a)
    \/ \E a \in ({"all"} \cup Audiences) \ {"section"} : Broadcast(r, a)

Serve(r) ==
    \/ CheckApplicant(r) \/ FileRow(r) \/ ReadCase(r) \/ UpdateCase(r)
    \/ ResolveTargets(r) \/ InsertNotifications(r) \/ Commit(r)

Next ==
    \/ \E r \in Requests : Arrive(r) \/ Serve(r) \/ Fail(r)
    \/ \E m \in Memberships : Join(m)
    \/ \E l \in Leaves : ChangeGuardian(l)

Spec == Init /\ [][Next]_vars

-----------------------------------------------------------------------------
(* Properties *)

\* Every table and handler holds values of its types.
TypeOK ==
    /\ case \in [Cases -> Row]
    /\ notice \in [Requests -> Audiences \cup {"all", "nobody", NoValue}]
    /\ member \in [Memberships -> Nat \cup {NoValue}]
    /\ guardian \in [Leaves -> Users \cup {NoValue}]
    /\ inbox \subseteq Notification
    /\ clock \in Nat
    /\ tx \in [Requests -> Handler]

\* actLeave checks "pending" and updates without the condition.  All that can go
\* wrong is that two decisions overlap: a leave that was decided before an admin's
\* request began is never decided again by it.
OnlyOverlapRedecides ==
    [][\A l \in Leaves :
          case[l].status \in Verdicts /\ case'[l] # case[l]
             => /\ tx[case'[l].by].kind = "decide"
                /\ tx[case[l].by].ended >= tx[case'[l].by].began]_vars

\* Whatever overlaps, fails or is repeated, the decision or reply that stands is one
\* its applicant or author was told, and nobody is told a decision of a leave that
\* is still open.
DecisionAnnounced ==
    /\ \A c \in Cases : case[c].status \in Verdicts \cup {"closed"} =>
          \E n \in inbox : /\ n.about = c /\ n.to.user = AccountOf[c]
                           /\ n.from = case[c].by /\ n.says = case[c].status
    /\ \A n \in inbox : n.about \in Cases =>
          case[n.about].status \in Verdicts \cup {"closed"}

\* The audience a stored notice is meant for, as far as it was there in time.
Addressed(r) ==
    {u \in Users : \E m \in Memberships :
        /\ m[1] = u /\ member[m] # NoValue /\ member[m] < tx[r].began
        /\ CASE notice[r] = "teachers" -> m[2] = "teacher"
             [] notice[r] = "parents"  -> m[2] = "parent"
             [] notice[r] = "students" -> m[2] = "student"
             [] notice[r] = "section"  -> u \in Section
             [] notice[r] = "nobody"   -> FALSE
             [] OTHER                  -> TRUE}

\* A notice, circular or message that is on record is in the inbox of everybody it
\* addresses, in nobody's twice, however many roles he has, however many others are
\* posted at once, and however large the audience.
NoticeReachesAudience ==
    \A r \in Requests : notice[r] # NoValue =>
       /\ \A u \in Addressed(r) : \E n \in inbox : n.from = r /\ n.to.user = u
       /\ \A n, o \in inbox : n.from = r /\ o.from = r /\ n.to.user = o.to.user => n = o

=============================================================================
