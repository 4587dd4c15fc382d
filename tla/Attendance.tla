----------------------------- MODULE Attendance -----------------------------
(****************************************************************************)
(* One section on one date: the phones that mark its attendance              *)
(* (attendance_provider.dart) and the server that records it                 *)
(* (AttendanceService.submitAttendance and refreshSummary).                  *)
(*                                                                          *)
(* A request is one READ COMMITTED transaction, a statement is an action (as *)
(* in FeeLedger).  The summary's counts are represented by what each student *)
(* was counted as.                                                           *)
(****************************************************************************)
EXTENDS Integers, FiniteSets

CONSTANTS
    Requests,   \* the submissions ever made
    Teachers,
    Admins,
    Students,
    Statuses,   \* attendance_status_enum
    Sessions,   \* kinds of session: "full_day" and perhaps "period"
    Leaving,    \* the students who may leave the school
    PoolSize,   \* transactions open at once
    NoValue     \* SQL NULL, and "no row version"

Users == Teachers \cup Admins
FullDay == "full_day"

ASSUME UsersAssumption == Teachers \cap Admins = {} /\ NoValue \notin Users
ASSUME SessionsAssumption == FullDay \in Sessions /\ NoValue \notin Sessions
ASSUME PoolAssumption == PoolSize \in Nat
ASSUME LeavingAssumption == Leaving \subseteq Students
ASSUME StatusesAssumption == Statuses \cap {"unmarked", "left"} = {}

VARIABLES
    enrolled,  \* the section's students with status 'active'
    session,   \* attendance_sessions: the marker of each session, committed
    record,    \* attendance_records, committed
    summary,   \* daily_attendance_summary: what each student was counted as
    tx         \* the requests

tables == <<enrolled, session, record, summary>>
vars == <<tables, tx>>

-----------------------------------------------------------------------------

\* A record remembers the submission that wrote it.
Record == [status : Statuses, by : Requests]
Tally == [Students -> Statuses \cup {"unmarked", "left"}]
Nobody == [s \in Students |-> NoValue]

ASSUME NoValueAssumption == NoValue \notin Record

Open == {"lookup", "insert", "records", "count", "summary", "commit"}

\* A submission: its sheet, what its transaction has written and counted, and
\* what its sender was told.
Submission ==
    [step : Open \cup {"idle", "done", "failed"},
     told : {"nothing", "ok", "error", "queued"},
     user : Users \cup {NoValue}, session : Sessions \cup {NoValue},
     sheet : [Students -> Statuses \cup {NoValue}], todo : SUBSET Students,
     opened : BOOLEAN, rows : [Students -> Record \cup {NoValue}],
     tally : Tally \cup {NoValue}, counted : BOOLEAN]

Idle == [step |-> "idle", told |-> "nothing", user |-> NoValue, session |-> NoValue,
         sheet |-> Nobody, todo |-> {}, opened |-> FALSE, rows |-> Nobody,
         tally |-> NoValue, counted |-> FALSE]

Marked(sheet) == {s \in Students : sheet[s] # NoValue}

\* A transaction is gone, and its writes with it.
Ended(t, step) == [Idle EXCEPT !.step = step, !.told = t.told, !.user = t.user,
                               !.session = t.session, !.sheet = t.sheet]

Rollback(r) ==
    /\ tx' = [tx EXCEPT ![r] = Ended(tx[r], "failed")]
    /\ UNCHANGED tables

\* The transactions whose locks the next statement of r waits for.
Blockers(r) ==
    {q \in Requests \ {r} :
        \/ /\ tx[r].step = "insert"
           /\ tx[q].opened /\ tx[q].session = tx[r].session
        \/ /\ tx[r].step = "records"
           /\ tx[q].session = tx[r].session
           /\ \E s \in tx[r].todo : tx[q].rows[s] # NoValue
        \/ tx[r].step = "summary" /\ tx[q].counted}

AtStep(r, step) == tx[r].step = step /\ Blockers(r) = {}

\* The full-day records as a statement of r sees them.
FullDayRecords(r) ==
    IF tx[r].session = FullDay
    THEN [s \in Students |-> IF tx[r].rows[s] # NoValue THEN tx[r].rows[s]
                             ELSE record[FullDay][s]]
    ELSE record[FullDay]

-----------------------------------------------------------------------------
(* The phone *)

\* submit: the sheet is posted.
Submit(r) ==
    /\ tx[r].step = "idle"
    /\ Cardinality({q \in Requests : tx[q].step \in Open}) < PoolSize
    /\ \E u \in Users, k \in Sessions, sheet \in [Students -> Statuses \cup {NoValue}] :
          tx' = [tx EXCEPT ![r] = [Idle EXCEPT !.step = "lookup", !.user = u,
                                               !.session = k, !.sheet = sheet,
                                               !.todo = Marked(sheet)]]
    /\ UNCHANGED tables

\* receiveTimeout: the answer does not come in time, whatever it is (that the
\* phone gives up while the server is still at work makes no difference to it).
\* The sheet is put into the phone's queue, which nothing empties (syncPending
\* has no caller); the teacher may submit the section again at any time.
GiveUp(r) ==
    /\ tx[r].step \in {"done", "failed"}
    /\ tx[r].told = "nothing"
    /\ tx' = [tx EXCEPT ![r].told = "queued"]
    /\ UNCHANGED tables

\* Fault: the answer does not wait for the commit.
HearEarly(r) ==
    /\ tx[r].told = "nothing"
    /\ \/ tx[r].step \in {"commit", "done"} /\ tx' = [tx EXCEPT ![r].told = "ok"]
       \/ tx[r].step = "failed" /\ tx' = [tx EXCEPT ![r].told = "error"]
    /\ UNCHANGED tables

Hear(r) ==
    /\ tx[r].told = "nothing"
    /\ \/ tx[r].step = "done" /\ tx' = [tx EXCEPT ![r].told = "ok"]
       \/ tx[r].step = "failed" /\ tx' = [tx EXCEPT ![r].told = "error"]
    /\ UNCHANGED tables

-----------------------------------------------------------------------------
(* submitAttendance *)

\* The columns the lookup selects; marked_at is not one of them.
Existing(k) == [locked_at |-> NoValue, marked_by |-> session[k]]

\* Whether the session was marked on its own date, from the selected columns.
IsToday(existing) == "marked_at" \in DOMAIN existing

\* Only an admin gets past a session that is locked or not today's.
Admits(u, existing) ==
    u \in Admins \/ (existing.locked_at = NoValue /\ IsToday(existing))

Lookup(r) ==
    /\ AtStep(r, "lookup")
    /\ LET k == tx[r].session IN
          \/ /\ session[k] = NoValue
             /\ tx' = [tx EXCEPT ![r].step = "insert"]
             /\ UNCHANGED tables
          \/ /\ session[k] # NoValue /\ Admits(tx[r].user, Existing(k))
             /\ tx' = [tx EXCEPT ![r].step = "records"]
             /\ UNCHANGED tables
          \/ /\ session[k] # NoValue /\ ~Admits(tx[r].user, Existing(k))
             /\ Rollback(r)

\* Fault: INSERT ... ON CONFLICT DO NOTHING.
InsertOrJoin(r) ==
    /\ AtStep(r, "insert")
    /\ tx' = [tx EXCEPT ![r].step = "records",
                         ![r].opened = (session[tx[r].session] = NoValue)]
    /\ UNCHANGED tables

\* UNIQUE(school_id, section_id, date, session)
InsertSession(r) ==
    /\ AtStep(r, "insert")
    /\ \/ session[tx[r].session] # NoValue /\ Rollback(r)
       \/ /\ session[tx[r].session] = NoValue
          /\ tx' = [tx EXCEPT ![r].step = "records", ![r].opened = TRUE]
          /\ UNCHANGED tables

\* A sheet without records is refused.  One upsert, which locks the students'
\* rows in the order of the sheet.
UpsertRecord(r) ==
    /\ tx[r].step = "records"
    /\ \/ Marked(tx[r].sheet) = {} /\ Rollback(r)
       \/ \E s \in tx[r].todo :
             /\ \A q \in Requests \ {r} :
                   tx[q].session = tx[r].session => tx[q].rows[s] = NoValue
             /\ LET rest == tx[r].todo \ {s} IN
                tx' = [tx EXCEPT
                   ![r].rows[s] = [status |-> tx[r].sheet[s], by |-> r],
                   ![r].todo = rest,
                   ![r].step = IF rest = {} THEN "count" ELSE "records"]
             /\ UNCHANGED tables

\* Faults: a student without a record is counted as NULL; the request's own sheet
\* is counted instead of the full-day session.
TallyOrNull(r) ==
    [s \in Students |->
        IF s \notin enrolled THEN "left"
        ELSE IF FullDayRecords(r)[s] = NoValue THEN NoValue
        ELSE FullDayRecords(r)[s].status]
TallyOfSheet(r) ==
    [s \in Students |->
        IF s \notin enrolled THEN "left"
        ELSE IF tx[r].sheet[s] = NoValue THEN "unmarked" ELSE tx[r].sheet[s]]

\* refreshSummary's SELECT: active students with their full-day records.
TallyOf(r) ==
    [s \in Students |->
        IF s \notin enrolled THEN "left"
        ELSE IF FullDayRecords(r)[s] = NoValue THEN "unmarked"
        ELSE FullDayRecords(r)[s].status]

CountRecords(r) ==
    /\ AtStep(r, "count")
    /\ tx' = [tx EXCEPT ![r].step = "summary", ![r].tally = TallyOf(r)]
    /\ UNCHANGED tables

UpsertSummary(r) ==
    /\ AtStep(r, "summary")
    /\ tx' = [tx EXCEPT ![r].step = "commit", ![r].counted = TRUE]
    /\ UNCHANGED tables

Commit(r) ==
    /\ AtStep(r, "commit")
    /\ LET t == tx[r] IN
          /\ session' = IF t.opened THEN [session EXCEPT ![t.session] = t.user] ELSE session
          /\ record' = [record EXCEPT ![t.session] =
                          [s \in Students |-> IF t.rows[s] # NoValue THEN t.rows[s]
                                              ELSE record[t.session][s]]]
          /\ summary' = t.tally
          /\ tx' = [tx EXCEPT ![r] = Ended(t, "done")]
    /\ UNCHANGED enrolled

\* An error or a crash at any point.
Fail(r) == tx[r].step \in Open /\ Rollback(r)

\* Requests that wait for each other: Postgres aborts one of them.
InDeadlock(r) ==
    \E S \in SUBSET Requests : /\ r \in S
                               /\ \A q \in S : /\ Blockers(q) \cap S # {}
                                               /\ tx[q].step \in Open

BreakDeadlock(r) == InDeadlock(r) /\ Rollback(r)

\* students.service.ts: the student is no longer counted, wherever his sheet is.
Deactivate(s) ==
    /\ s \in enrolled
    /\ enrolled' = enrolled \ {s}
    /\ UNCHANGED <<session, record, summary, tx>>

-----------------------------------------------------------------------------

Init ==
    /\ enrolled = Students
    /\ session = [k \in Sessions |-> NoValue]
    /\ record = [k \in Sessions |-> Nobody]
    /\ summary = NoValue
    /\ tx = [r \in Requests |-> Idle]

Serve(r) ==
    \/ Lookup(r) \/ InsertSession(r) \/ UpsertRecord(r) \/ CountRecords(r)
    \/ UpsertSummary(r) \/ Commit(r) \/ BreakDeadlock(r) \/ Hear(r)

Next ==
    \/ \E r \in Requests : Submit(r) \/ Serve(r) \/ GiveUp(r) \/ Fail(r)
    \/ \E s \in Leaving : Deactivate(s)

Spec == Init /\ [][Next]_vars

-----------------------------------------------------------------------------
(* Properties *)

\* Every table and request holds values of its types.
TypeOK ==
    /\ enrolled \subseteq Students
    /\ session \in [Sessions -> Users \cup {NoValue}]
    /\ record \in [Sessions -> [Students -> Record \cup {NoValue}]]
    /\ summary \in Tally \cup {NoValue}
    /\ tx \in [Requests -> Submission]

\* However many teachers submit the same section at once, retry or give up, a
\* session that no admin has touched holds exactly one whole sheet, that of its
\* marker, and never an empty one.
OneWholeSheet ==
    \A k \in Sessions : session[k] # NoValue =>
       \/ \E s \in Students : /\ record[k][s] # NoValue
                              /\ tx[record[k][s].by].user \in Admins
       \/ \E r \in Requests :
             /\ tx[r].step = "done" /\ tx[r].user = session[k]
             /\ Marked(tx[r].sheet) # {}
             /\ record[k] = [s \in Students |->
                   IF tx[r].sheet[s] = NoValue THEN NoValue
                   ELSE [status |-> tx[r].sheet[s], by |-> r]]

\* A phone that is told its sheet is submitted can rely on it: each student on it
\* has a record, its own or a later one.
ToldOkIsRecorded ==
    \A r \in Requests : tx[r].told = "ok" =>
       \A s \in Marked(tx[r].sheet) : record[tx[r].session][s] # NoValue

\* The summary never shows what nobody recorded: a student it counts with a status
\* was given that status by a full-day sheet that was committed, whatever period
\* sessions, corrections and departures run beside it.
SummaryWasRecorded ==
    summary # NoValue => \A s \in Students :
       summary[s] \in Statuses =>
          \E r \in Requests : /\ tx[r].step = "done" /\ tx[r].session = FullDay
                              /\ tx[r].sheet[s] = summary[s]

=============================================================================
