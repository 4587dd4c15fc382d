--------------------------- MODULE AttendanceProofs ---------------------------
(* All properties of Attendance, for any number of submissions, teachers and     *)
(* students.  A submission either inserts the session, which nobody else can     *)
(* until it ends, or is an admin's (Holds, OneOpener); so a session is first      *)
(* given one whole sheet, and changed by admins only after that.                 *)
EXTENDS Attendance, TLAPS

\* What r has upserted of its sheet.
RowsOf(r, t) ==
    [s \in Students |-> IF s \in Marked(t.sheet) \ t.todo
                        THEN [status |-> t.sheet[s], by |-> r] ELSE NoValue]

LocalOK(r, t) ==
    /\ t.step \in Open \cup {"done"} => t.user \in Users /\ t.session \in Sessions
    /\ t.step \in Open => /\ t.told = "nothing" /\ t.todo \subseteq Marked(t.sheet)
                          /\ t.rows = RowsOf(r, t)
    /\ t.step \in {"lookup", "insert"} => t.opened = FALSE /\ t.todo = Marked(t.sheet)
    /\ t.step \in {"count", "summary", "commit"} => t.todo = {}
    /\ t.step \in {"count", "summary", "commit", "done"} => Marked(t.sheet) # {}
    /\ t.step \notin Open => t.opened = FALSE
    /\ t.step \in {"summary", "commit"} => t.tally \in Tally
    /\ t.told = "ok" => t.step = "done"

\* Past the lookup a session is the one it is about to open, or there and an admin's.
Holds(t) ==
    t.step \in {"records", "count", "summary", "commit"} =>
       \/ t.opened = TRUE /\ session[t.session] = NoValue
       \/ t.opened = FALSE /\ session[t.session] # NoValue /\ t.user \in Admins

OneOpener ==
    \A q, r \in Requests :
       tx[q].opened = TRUE /\ tx[r].opened = TRUE /\ q # r => tx[q].session # tx[r].session

\* A committed full-day sheet gives the student this status.
Given(s, status) ==
    \E q \in Requests : /\ tx[q].step = "done" /\ tx[q].session = FullDay
                        /\ tx[q].sheet[s] = status

Counts(t) ==
    t.step \in {"summary", "commit"} =>
       \A s \in Students : t.tally[s] \in Statuses =>
          \/ Given(s, t.tally[s])
          \/ t.session = FullDay /\ t.sheet[s] = t.tally[s]

FromDone ==
    \A k \in Sessions, s \in Students : record[k][s] # NoValue =>
       LET q == record[k][s].by IN
          /\ q \in Requests /\ tx[q].step = "done" /\ tx[q].session = k
          /\ tx[q].sheet[s] = record[k][s].status

Unopened == \A k \in Sessions : session[k] = NoValue => record[k] = Nobody

Kept ==
    \A r \in Requests : tx[r].step = "done" =>
       \A s \in Marked(tx[r].sheet) : record[tx[r].session][s] # NoValue

\* The two ways OneWholeSheet allows for a session.
ByAdmin(k) == \E s \in Students : /\ record[k][s] # NoValue
                                  /\ tx[record[k][s].by].user \in Admins
SheetOf(k, r) ==
    /\ tx[r].step = "done" /\ tx[r].user = session[k] /\ Marked(tx[r].sheet) # {}
    /\ record[k] = [s \in Students |->
          IF tx[r].sheet[s] = NoValue THEN NoValue ELSE [status |-> tx[r].sheet[s], by |-> r]]
Whole == \A k \in Sessions : session[k] # NoValue =>
            ByAdmin(k) \/ \E r \in Requests : SheetOf(k, r)

IInv ==
    /\ TypeOK
    /\ \A r \in Requests : LocalOK(r, tx[r]) /\ Holds(tx[r]) /\ Counts(tx[r])
    /\ OneOpener /\ FromDone /\ Unopened /\ Kept
    /\ Whole /\ SummaryWasRecorded

-----------------------------------------------------------------------------

LEMMA Fields ==
  ASSUME NEW t \in Submission
  PROVE  /\ t.step \in Open \cup {"idle", "done", "failed"}
         /\ t.told \in {"nothing", "ok", "error", "queued"}
         /\ t.user \in Users \cup {NoValue} /\ t.session \in Sessions \cup {NoValue}
         /\ t.sheet \in [Students -> Statuses \cup {NoValue}] /\ t.todo \subseteq Students
         /\ t.rows \in [Students -> Record \cup {NoValue}]
         /\ t.tally \in Tally \cup {NoValue}
BY DEF Submission

LEMMA Facts ==
  ASSUME IInv, NEW r \in Requests
  PROVE  /\ tx \in [Requests -> Submission] /\ tx[r] \in Submission
         /\ LocalOK(r, tx[r]) /\ Holds(tx[r]) /\ Counts(tx[r])
BY DEF IInv, TypeOK

LEMMA RowsFacts ==
  ASSUME IInv, NEW r \in Requests, tx[r].step \in Open, NEW h,
         h.sheet = tx[r].sheet, h.todo = tx[r].todo
  PROVE  tx[r].rows = RowsOf(r, h)
<1>1. tx[r].rows = RowsOf(r, tx[r])
  BY Facts DEF LocalOK
<1> QED
  BY <1>1 DEF RowsOf

\* What one submission may become while the tables stand still.
Harmless(r, h) ==
    /\ LocalOK(r, h) /\ Holds(h) /\ Counts(h)
    /\ tx[r].step = "done" <=> h.step = "done"
    /\ h.step = "done" => /\ h.user = tx[r].user /\ h.session = tx[r].session
                          /\ h.sheet = tx[r].sheet
    /\ h.opened = TRUE => \A q \in Requests \ {r} :
                             tx[q].opened = TRUE => tx[q].session # h.session

LEMMA OneSubmission ==
  ASSUME IInv, NEW r \in Requests, NEW h \in Submission, tx' = [tx EXCEPT ![r] = h],
         UNCHANGED tables, Harmless(r, h)
  PROVE  IInv'
<1>1. /\ tx'[r] = h /\ \A q \in Requests \ {r} : tx'[q] = tx[q]
      /\ tx' \in [Requests -> Submission]
  BY Facts
<1>2. /\ enrolled' = enrolled /\ session' = session /\ record' = record /\ summary' = summary
  BY DEF tables
<1>3. \A q \in Requests : tx[q].step = "done" =>
         /\ tx'[q].step = "done" /\ tx'[q].user = tx[q].user
         /\ tx'[q].session = tx[q].session /\ tx'[q].sheet = tx[q].sheet
  BY <1>1 DEF Harmless
<1>4. \A q \in Requests : tx'[q].step = "done" =>
         /\ tx[q].step = "done" /\ tx'[q].user = tx[q].user
         /\ tx'[q].session = tx[q].session /\ tx'[q].sheet = tx[q].sheet
  BY <1>1 DEF Harmless
<1>5. TypeOK'
  BY <1>1, <1>2 DEF IInv, TypeOK
<1>6. \A q \in Requests : LocalOK(q, tx'[q])
  BY <1>1 DEF IInv, Harmless
<1>7. \A q \in Requests : Holds(tx[q])'
  BY <1>1, <1>2 DEF IInv, Harmless, Holds
<1>8. ASSUME NEW s \in Students, NEW status, Given(s, status)
      PROVE  \E q \in Requests : /\ tx'[q].step = "done" /\ tx'[q].session = FullDay
                                  /\ tx'[q].sheet[s] = status
  BY <1>3, <1>8 DEF Given
<1>9. ASSUME NEW q \in Requests PROVE Counts(tx[q])'
  <2>1. Counts(tx'[q])
    BY <1>1 DEF IInv, Harmless
  <2> SUFFICES ASSUME tx'[q].step \in {"summary", "commit"}, NEW s \in Students,
                      tx'[q].tally[s] \in Statuses
               PROVE  \/ \E o \in Requests :
                            /\ tx'[o].step = "done" /\ tx'[o].session = FullDay
                            /\ tx'[o].sheet[s] = tx'[q].tally[s]
                      \/ tx'[q].session = FullDay /\ tx'[q].sheet[s] = tx'[q].tally[s]
    BY DEF Counts, Given
  <2>2. CASE Given(s, tx'[q].tally[s])
    BY <1>8, <2>2
  <2> QED
    BY <2>1, <2>2 DEF Counts
<1>10. OneOpener'
  BY <1>1 DEF IInv, OneOpener, Harmless
<1>11. FromDone'
  BY <1>2, <1>3 DEF IInv, FromDone
<1>12. Unopened' /\ Kept'
  BY <1>2, <1>4 DEF IInv, Unopened, Kept
<1>13. SummaryWasRecorded'
  BY <1>2, <1>3 DEF IInv, SummaryWasRecorded
<1>14. Whole'
  <2>1. ASSUME NEW k \in Sessions, NEW q \in Requests, SheetOf(k, q) PROVE SheetOf(k, q)'
    BY <1>2, <1>3, <2>1 DEF SheetOf
  <2>2. ASSUME NEW k \in Sessions, ByAdmin(k) PROVE ByAdmin(k)'
    BY <1>2, <1>3, <2>2 DEF IInv, FromDone, ByAdmin
  <2> QED
    BY <1>2, <2>1, <2>2 DEF IInv, Whole
<1> QED
  BY <1>5, <1>6, <1>7, <1>9, <1>10, <1>11, <1>12, <1>13, <1>14 DEF IInv

-----------------------------------------------------------------------------
(* Steps of one submission *)

LEMMA IdleSubmission ==
  /\ Idle \in Submission /\ Idle.step = "idle" /\ Idle.told = "nothing" /\ Idle.opened = FALSE
  /\ Idle.rows = Nobody /\ Idle.tally = NoValue
BY DEF Idle, Submission, Nobody

LEMMA EndedSubmission ==
  ASSUME NEW t \in Submission, NEW step \in {"done", "failed"}
  PROVE  LET h == Ended(t, step) IN
         /\ h \in Submission /\ h.step = step /\ h.told = t.told /\ h.user = t.user
         /\ h.session = t.session /\ h.sheet = t.sheet /\ h.opened = FALSE
<1> DEFINE h == Ended(t, step)
<1>1. h \in Submission
  <2>1. /\ t.told \in {"nothing", "ok", "error", "queued"} /\ t.user \in Users \cup {NoValue}
        /\ t.session \in Sessions \cup {NoValue}
        /\ t.sheet \in [Students -> Statuses \cup {NoValue}]
    BY DEF Submission
  <2>2. h = [Idle EXCEPT !.step = step, !.told = t.told, !.user = t.user,
                         !.session = t.session, !.sheet = t.sheet]
    BY DEF Ended
  <2> HIDE DEF h
  <2> QED
    BY <2>1, <2>2, IdleSubmission DEF Submission
<1>2. h.step = step /\ h.told = t.told /\ h.user = t.user
  BY IdleSubmission DEF Ended, Submission
<1>3. h.session = t.session /\ h.sheet = t.sheet
  BY IdleSubmission DEF Ended, Submission
<1>4. h.opened = FALSE
  BY IdleSubmission DEF Ended, Submission
<1> QED
  BY <1>1, <1>2, <1>3, <1>4

LEMMA RollbackStep ==
  ASSUME IInv, NEW r \in Requests, tx[r].step \in Open, Rollback(r)
  PROVE  IInv'
<1> DEFINE h == Ended(tx[r], "failed")
<1>1. tx' = [tx EXCEPT ![r] = h] /\ UNCHANGED tables
  BY DEF Rollback
<1>2. h \in Submission /\ h.step = "failed" /\ h.told = tx[r].told /\ h.opened = FALSE
  BY Facts, EndedSubmission
<1> HIDE DEF h
<1>3. tx[r].told = "nothing"
  BY Facts DEF LocalOK
<1>4. LocalOK(r, h) /\ Holds(h) /\ Counts(h)
  BY <1>2, <1>3 DEF LocalOK, Holds, Counts, Open
<1>5. Harmless(r, h)
  BY <1>2, <1>4 DEF Harmless, Open
<1> QED
  BY <1>1, <1>2, <1>5, OneSubmission

LEMMA SubmitStep ==
  ASSUME IInv, NEW r \in Requests, Submit(r)
  PROVE  IInv'
<1>1. PICK u \in Users, k \in Sessions, sheet \in [Students -> Statuses \cup {NoValue}] :
         tx' = [tx EXCEPT ![r] = [Idle EXCEPT !.step = "lookup", !.user = u, !.session = k,
                                              !.sheet = sheet, !.todo = Marked(sheet)]]
  BY DEF Submit
<1> DEFINE h == [Idle EXCEPT !.step = "lookup", !.user = u, !.session = k,
                             !.sheet = sheet, !.todo = Marked(sheet)]
<1>2. tx[r].step = "idle" /\ UNCHANGED tables
  BY DEF Submit
<1>3. h \in Submission
  BY IdleSubmission DEF Submission, Open, Marked
<1>4. h.step = "lookup" /\ h.user = u /\ h.session = k
  BY DEF Idle
<1>5. h.sheet = sheet /\ h.todo = Marked(sheet) /\ h.told = "nothing"
  BY DEF Idle
<1>6. h.opened = FALSE /\ h.rows = Nobody
  BY DEF Idle
<1> HIDE DEF h
<1>7. h.rows = RowsOf(r, h)
  BY <1>5, <1>6 DEF Nobody, RowsOf
<1>8. LocalOK(r, h) /\ Holds(h) /\ Counts(h)
  BY <1>4, <1>5, <1>6, <1>7 DEF LocalOK, Holds, Counts, Open
<1>9. Harmless(r, h)
  BY <1>2, <1>4, <1>6, <1>8 DEF Harmless
<1>10. tx' = [tx EXCEPT ![r] = h]
  BY <1>1 DEF h
<1> QED
  BY <1>2, <1>3, <1>9, <1>10, OneSubmission

\* The phone hears of its submission, or no longer waits for it.
LEMMA ToldStep ==
  ASSUME IInv, NEW r \in Requests, Hear(r) \/ GiveUp(r)
  PROVE  IInv'
<1>1. PICK told \in {"ok", "error", "queued"} :
         /\ tx' = [tx EXCEPT ![r].told = told] /\ UNCHANGED tables
         /\ tx[r].step \in {"done", "failed"} /\ (told = "ok" => tx[r].step = "done")
  BY DEF Hear, GiveUp
<1> DEFINE h == [tx[r] EXCEPT !.told = told]
<1>2. tx' = [tx EXCEPT ![r] = h]
  BY <1>1, Facts
<1>3. h \in Submission
  BY Facts DEF Submission
<1>4. h.step = tx[r].step /\ h.user = tx[r].user /\ h.session = tx[r].session /\ h.told = told
  BY Facts DEF Submission
<1>5. h.sheet = tx[r].sheet /\ h.todo = tx[r].todo /\ h.tally = tx[r].tally
  BY Facts DEF Submission
<1>6. h.opened = tx[r].opened
  BY Facts DEF Submission
<1> HIDE DEF h
<1>7. h.opened = FALSE
  BY <1>1, <1>6, Facts DEF LocalOK, Open
<1>8. LocalOK(r, h) /\ Holds(h) /\ Counts(h)
  BY <1>1, <1>4, <1>5, <1>7, Facts DEF LocalOK, Holds, Counts, Open
<1>9. Harmless(r, h)
  BY <1>4, <1>5, <1>7, <1>8 DEF Harmless
<1> QED
  BY <1>1, <1>2, <1>3, <1>9, OneSubmission

\* The step alone moves on.
LEMMA GotoFacts ==
  ASSUME NEW t \in Submission, NEW step \in Open, NEW h, h = [t EXCEPT !.step = step]
  PROVE  /\ h \in Submission /\ h.step = step /\ h.told = t.told /\ h.user = t.user
         /\ h.session = t.session /\ h.sheet = t.sheet /\ h.todo = t.todo
         /\ h.opened = t.opened /\ h.rows = t.rows /\ h.tally = t.tally
<1>1. h \in Submission
  BY DEF Submission
<1>2. h.step = step /\ h.told = t.told /\ h.user = t.user /\ h.session = t.session
  BY DEF Submission
<1>3. h.sheet = t.sheet /\ h.todo = t.todo /\ h.rows = t.rows /\ h.tally = t.tally
  BY DEF Submission
<1>4. h.opened = t.opened
  BY DEF Submission
<1> QED
  BY <1>1, <1>2, <1>3, <1>4

\* A session that is there lets only admins past.
LEMMA LookupStep ==
  ASSUME IInv, NEW r \in Requests, Lookup(r)
  PROVE  IInv'
<1>1. tx[r].step = "lookup" /\ tx[r].step \in Open
  BY DEF Lookup, AtStep, Open
<1>2. CASE Rollback(r)
  BY <1>1, <1>2, RollbackStep
<1>3. CASE ~Rollback(r)
  <2>1. PICK step \in {"insert", "records"} :
           /\ tx' = [tx EXCEPT ![r].step = step] /\ UNCHANGED tables
           /\ step = "records" => session[tx[r].session] # NoValue /\ tx[r].user \in Admins
    <3>1. \A k : ~IsToday(Existing(k))
      BY DEF IsToday, Existing
    <3> QED
      BY <1>3, <3>1 DEF Lookup, Admits
  <2> DEFINE h == [tx[r] EXCEPT !.step = step]
  <2>2. tx' = [tx EXCEPT ![r] = h]
    BY <2>1, Facts
  <2>3. /\ h \in Submission /\ h.step = step /\ h.told = tx[r].told /\ h.user = tx[r].user
        /\ h.session = tx[r].session /\ h.sheet = tx[r].sheet /\ h.todo = tx[r].todo
        /\ h.opened = tx[r].opened /\ h.rows = tx[r].rows /\ h.tally = tx[r].tally
    BY <1>1, Facts, GotoFacts DEF Open
  <2> HIDE DEF h
  <2>4. tx[r].opened = FALSE
    BY <1>1, Facts DEF LocalOK
  <2>5. h.opened = FALSE
    BY <2>3, <2>4
  <2>6. h.rows = RowsOf(r, h)
    BY <1>1, <2>3, RowsFacts
  <2>7. LocalOK(r, h)
    BY <1>1, <2>3, <2>5, <2>6, Facts DEF LocalOK, Open
  <2>8. Holds(h) /\ Counts(h)
    BY <2>1, <2>3, <2>5 DEF Holds, Counts
  <2>9. Harmless(r, h)
    BY <1>1, <2>3, <2>5, <2>7, <2>8 DEF Harmless
  <2> QED
    BY <2>1, <2>2, <2>3, <2>9, OneSubmission
<1> QED
  BY <1>2, <1>3

\* The unique index lets one submission open the session, and nobody while it is open.
LEMMA InsertSessionStep ==
  ASSUME IInv, NEW r \in Requests, InsertSession(r)
  PROVE  IInv'
<1>1. tx[r].step = "insert" /\ tx[r].step \in Open /\ Blockers(r) = {}
  BY DEF InsertSession, AtStep, Open
<1>2. CASE Rollback(r)
  BY <1>1, <1>2, RollbackStep
<1>3. CASE ~Rollback(r)
  <2> DEFINE h == [tx[r] EXCEPT !.step = "records", !.opened = TRUE]
  <2>1. session[tx[r].session] = NoValue /\ UNCHANGED tables
    BY <1>3 DEF InsertSession
  <2>2. tx' = [tx EXCEPT ![r] = h]
    BY <1>3, Facts DEF InsertSession
  <2>3. h \in Submission
    BY Facts DEF Submission, Open
  <2>4. h.step = "records" /\ h.told = tx[r].told /\ h.user = tx[r].user
    BY Facts DEF Submission
  <2>5. h.session = tx[r].session /\ h.sheet = tx[r].sheet /\ h.todo = tx[r].todo
    BY Facts DEF Submission
  <2>6. h.rows = tx[r].rows
    BY Facts DEF Submission
  <2>7. h.opened = TRUE
    BY Facts DEF Submission
  <2> HIDE DEF h
  <2>8. h.rows = RowsOf(r, h)
    BY <1>1, <2>5, <2>6, RowsFacts
  <2>9. LocalOK(r, h)
    BY <1>1, <2>4, <2>5, <2>8, Facts DEF LocalOK, Open
  <2>10. Holds(h) /\ Counts(h)
    BY <2>1, <2>4, <2>5, <2>7 DEF Holds, Counts
  <2>11. ASSUME NEW q \in Requests \ {r}, tx[q].opened = TRUE
         PROVE  tx[q].session # h.session
    <3>1. tx[q].opened
      BY <2>11
    <3> QED
      BY <1>1, <2>5, <3>1 DEF Blockers
  <2>12. Harmless(r, h)
    BY <1>1, <2>4, <2>9, <2>10, <2>11 DEF Harmless
  <2> QED
    BY <2>1, <2>2, <2>3, <2>12, OneSubmission
<1> QED
  BY <1>2, <1>3

\* What stays of the invariant when the submission keeps its session, in or past records.
LEMMA StillHolds ==
  ASSUME IInv, NEW r \in Requests, NEW h, tx[r].step \in {"records", "count", "summary"},
         h.step \in {"records", "count", "summary", "commit"}, h.opened = tx[r].opened,
         h.user = tx[r].user, h.session = tx[r].session, LocalOK(r, h), Counts(h)
  PROVE  Harmless(r, h)
<1>1. Holds(h)
  BY Facts DEF Holds
<1>2. h.opened = TRUE => \A q \in Requests \ {r} :
                            tx[q].opened = TRUE => tx[q].session # h.session
  BY DEF IInv, OneOpener
<1>3. tx[r].step # "done" /\ h.step # "done"
  OBVIOUS
<1> QED
  BY <1>1, <1>2, <1>3 DEF Harmless

LEMMA UpsertRecordStep ==
  ASSUME IInv, NEW r \in Requests, UpsertRecord(r)
  PROVE  IInv'
<1>1. tx[r].step = "records" /\ tx[r].step \in Open
  BY DEF UpsertRecord, Open
<1>2. CASE Rollback(r)
  BY <1>1, <1>2, RollbackStep
<1>3. CASE ~Rollback(r)
  <2>1. PICK s \in tx[r].todo :
           LET rest == tx[r].todo \ {s} IN
           /\ tx' = [tx EXCEPT ![r].rows[s] = [status |-> tx[r].sheet[s], by |-> r],
                               ![r].todo = rest,
                               ![r].step = IF rest = {} THEN "count" ELSE "records"]
           /\ UNCHANGED tables
    BY <1>3 DEF UpsertRecord
  <2> DEFINE rest == tx[r].todo \ {s}
  <2> DEFINE step == IF rest = {} THEN "count" ELSE "records"
  <2> DEFINE rows == [tx[r].rows EXCEPT ![s] = [status |-> tx[r].sheet[s], by |-> r]]
  <2> DEFINE h == [tx[r] EXCEPT !.rows = rows, !.todo = rest, !.step = step]
  <2>2. tx' = [tx EXCEPT ![r] = h]
    BY <2>1, Facts
  <2>3. tx[r].todo \subseteq Marked(tx[r].sheet) /\ tx[r].rows = RowsOf(r, tx[r])
    BY <1>1, Facts DEF LocalOK
  <2>4. /\ s \in Students /\ tx[r].sheet[s] \in Statuses
        /\ tx[r].rows \in [Students -> Record \cup {NoValue}]
    BY <2>3, Facts, Fields DEF Marked
  <2>5. rows \in [Students -> Record \cup {NoValue}] /\ rest \subseteq Students
    BY <2>4, Facts, Fields DEF Record
  <2>6. step \in {"count", "records"} /\ (step = "count" => rest = {})
    OBVIOUS
  <2> HIDE DEF rows, rest, step
  <2>7. h \in Submission
    <3>1. tx[r] \in Submission /\ step \in Open
      BY <2>6, Facts DEF Open
    <3> QED
      BY <2>5, <3>1 DEF Submission
  <2>8. h.step = step /\ h.told = tx[r].told /\ h.user = tx[r].user
    BY Facts DEF Submission
  <2>9. h.session = tx[r].session /\ h.sheet = tx[r].sheet /\ h.todo = rest
    BY Facts DEF Submission
  <2>10. h.rows = rows
    BY Facts DEF Submission
  <2>11. h.opened = tx[r].opened
    BY Facts DEF Submission
  <2> HIDE DEF h
  <2>12. h.rows = RowsOf(r, h)
    BY <2>1, <2>3, <2>9, <2>10 DEF RowsOf, rows, rest
  <2>13. LocalOK(r, h)
    <3>1. h.todo \subseteq Marked(h.sheet) /\ Marked(h.sheet) # {}
      BY <2>1, <2>3, <2>9 DEF rest
    <3> QED
      BY <1>1, <2>6, <2>8, <2>9, <2>12, <3>1, Facts DEF LocalOK, Open
  <2>14. Counts(h)
    BY <2>6, <2>8 DEF Counts
  <2>15. Harmless(r, h)
    BY <1>1, <2>6, <2>8, <2>9, <2>11, <2>13, <2>14, StillHolds
  <2> QED
    BY <2>1, <2>2, <2>7, <2>15, OneSubmission
<1> QED
  BY <1>2, <1>3

\* What is counted is the submission's own sheet, or a record somebody has committed.
LEMMA TallyFacts ==
  ASSUME IInv, NEW r \in Requests, tx[r].step = "count"
  PROVE  /\ TallyOf(r) \in Tally
         /\ \A s \in Students : TallyOf(r)[s] \in Statuses =>
               \/ Given(s, TallyOf(r)[s])
               \/ tx[r].session = FullDay /\ tx[r].sheet[s] = TallyOf(r)[s]
<1> DEFINE seen == FullDayRecords(r)
<1>1. /\ tx[r].rows = RowsOf(r, tx[r])
      /\ tx[r].rows \in [Students -> Record \cup {NoValue}]
      /\ record[FullDay] \in [Students -> Record \cup {NoValue}]
  BY Facts, Fields, SessionsAssumption DEF LocalOK, Open, IInv, TypeOK
<1>2. seen \in [Students -> Record \cup {NoValue}]
  BY <1>1 DEF FullDayRecords
<1>3. ASSUME NEW s \in Students, seen[s] # NoValue
      PROVE  \/ Given(s, seen[s].status)
             \/ tx[r].session = FullDay /\ tx[r].sheet[s] = seen[s].status
  <2>1. CASE tx[r].session = FullDay /\ tx[r].rows[s] # NoValue
    <3>1. seen[s] = [status |-> tx[r].sheet[s], by |-> r]
      BY <1>1, <2>1 DEF FullDayRecords, RowsOf
    <3> QED
      BY <2>1, <3>1
  <2>2. CASE ~(tx[r].session = FullDay /\ tx[r].rows[s] # NoValue)
    <3>1. seen[s] = record[FullDay][s]
      BY <2>2 DEF FullDayRecords
    <3> QED
      BY <1>3, <3>1, SessionsAssumption DEF IInv, FromDone, Given
  <2> QED
    BY <2>1, <2>2
<1> HIDE DEF seen
<1>4. TallyOf(r) = [s \in Students |-> IF s \notin enrolled THEN "left"
                                       ELSE IF seen[s] = NoValue THEN "unmarked"
                                       ELSE seen[s].status]
  BY DEF TallyOf, seen
<1>5. TallyOf(r) \in Tally
  BY <1>2, <1>4 DEF Tally, Record
<1>6. \A s \in Students : TallyOf(r)[s] \in Statuses =>
         seen[s] # NoValue /\ TallyOf(r)[s] = seen[s].status
  BY <1>4, StatusesAssumption
<1> QED
  BY <1>3, <1>5, <1>6

LEMMA CountRecordsStep ==
  ASSUME IInv, NEW r \in Requests, CountRecords(r)
  PROVE  IInv'
<1> DEFINE k == TallyOf(r)
<1> DEFINE h == [tx[r] EXCEPT !.step = "summary", !.tally = k]
<1>1. tx[r].step = "count" /\ tx[r].step \in Open /\ UNCHANGED tables
  BY DEF CountRecords, AtStep, Open
<1>2. tx' = [tx EXCEPT ![r] = h]
  BY Facts DEF CountRecords
<1>3. /\ k \in Tally
      /\ \A s \in Students : k[s] \in Statuses =>
            \/ Given(s, k[s])
            \/ tx[r].session = FullDay /\ tx[r].sheet[s] = k[s]
  BY <1>1, TallyFacts
<1> HIDE DEF k
<1>4. h \in Submission
  <2>1. tx[r] \in Submission /\ "summary" \in Open /\ k \in Tally
    BY <1>3, Facts DEF Open
  <2> QED
    BY <2>1 DEF Submission
<1>5. h.step = "summary" /\ h.told = tx[r].told /\ h.user = tx[r].user /\ h.tally = k
  BY Facts DEF Submission
<1>6. h.session = tx[r].session /\ h.sheet = tx[r].sheet /\ h.todo = tx[r].todo
  BY Facts DEF Submission
<1>7. h.rows = tx[r].rows
  BY Facts DEF Submission
<1>8. h.opened = tx[r].opened
  BY Facts DEF Submission
<1> HIDE DEF h
<1>9. h.rows = RowsOf(r, h)
  BY <1>1, <1>6, <1>7, RowsFacts
<1>10. LocalOK(r, h)
  BY <1>1, <1>3, <1>5, <1>6, <1>9, Facts DEF LocalOK, Open
<1>11. Counts(h)
  BY <1>3, <1>5, <1>6 DEF Counts
<1>12. Harmless(r, h)
  BY <1>1, <1>5, <1>6, <1>8, <1>10, <1>11, StillHolds
<1> QED
  BY <1>1, <1>2, <1>4, <1>12, OneSubmission

LEMMA UpsertSummaryStep ==
  ASSUME IInv, NEW r \in Requests, UpsertSummary(r)
  PROVE  IInv'
<1> DEFINE h == [tx[r] EXCEPT !.step = "commit", !.counted = TRUE]
<1>1. tx[r].step = "summary" /\ tx[r].step \in Open /\ UNCHANGED tables
  BY DEF UpsertSummary, AtStep, Open
<1>2. tx' = [tx EXCEPT ![r] = h]
  BY Facts DEF UpsertSummary
<1>3. h \in Submission
  BY Facts DEF Submission, Open
<1>4. h.step = "commit" /\ h.told = tx[r].told /\ h.user = tx[r].user
  BY Facts DEF Submission
<1>5. h.session = tx[r].session /\ h.sheet = tx[r].sheet /\ h.todo = tx[r].todo
  BY Facts DEF Submission
<1>6. h.rows = tx[r].rows /\ h.tally = tx[r].tally
  BY Facts DEF Submission
<1>7. h.opened = tx[r].opened
  BY Facts DEF Submission
<1> HIDE DEF h
<1>8. h.rows = RowsOf(r, h)
  BY <1>1, <1>5, <1>6, RowsFacts
<1>9. LocalOK(r, h)
  BY <1>1, <1>4, <1>5, <1>6, <1>8, Facts DEF LocalOK, Open
<1>10. Counts(h)
  BY <1>1, <1>4, <1>5, <1>6, Facts DEF Counts
<1>11. Harmless(r, h)
  BY <1>1, <1>4, <1>5, <1>7, <1>9, <1>10, StillHolds
<1> QED
  BY <1>1, <1>2, <1>3, <1>11, OneSubmission

-----------------------------------------------------------------------------
(* A submission commits *)

\* The first commit of a session leaves one whole sheet, a later one is an admin's.
LEMMA CommitStep ==
  ASSUME IInv, NEW r \in Requests, Commit(r)
  PROVE  IInv'
<1> DEFINE t == tx[r]
<1> DEFINE h == Ended(t, "done")
<1> DEFINE mine == [s \in Students |-> IF t.rows[s] # NoValue THEN t.rows[s]
                                       ELSE record[t.session][s]]
<1>1. /\ t.step = "commit" /\ t.step \in Open
      /\ tx' = [tx EXCEPT ![r] = h] /\ enrolled' = enrolled /\ summary' = t.tally
      /\ record' = [record EXCEPT ![t.session] = mine]
      /\ session' = IF t.opened THEN [session EXCEPT ![t.session] = t.user] ELSE session
  BY DEF Commit, AtStep, Open
<1>2. /\ h \in Submission /\ h.step = "done" /\ h.told = t.told /\ h.user = t.user
      /\ h.session = t.session /\ h.sheet = t.sheet /\ h.opened = FALSE
  BY Facts, EndedSubmission
<1> HIDE DEF h
<1>3. /\ t.user \in Users /\ t.session \in Sessions /\ t.told = "nothing" /\ t.todo = {}
      /\ Marked(t.sheet) # {} /\ t.tally \in Tally /\ t.rows = RowsOf(r, t)
  BY <1>1, Facts DEF LocalOK
<1>4. t.sheet \in [Students -> Statuses \cup {NoValue}]
  BY Facts, Fields
<1>5. /\ tx'[r] = h /\ \A q \in Requests \ {r} : tx'[q] = tx[q]
      /\ tx' \in [Requests -> Submission]
  BY <1>1, <1>2, Facts
<1>6. /\ mine \in [Students -> Record \cup {NoValue}]
      /\ \A s \in Students :
            IF t.sheet[s] # NoValue THEN mine[s] = [status |-> t.sheet[s], by |-> r]
                                    ELSE mine[s] = record[t.session][s]
      /\ \A s \in Students : t.sheet[s] # NoValue => mine[s] # NoValue
  <2>1. record[t.session] \in [Students -> Record \cup {NoValue}]
    BY <1>3 DEF IInv, TypeOK
  <2>2. ASSUME NEW s \in Students, t.sheet[s] # NoValue
        PROVE  /\ t.rows[s] = [status |-> t.sheet[s], by |-> r] /\ t.rows[s] \in Record
               /\ mine[s] = t.rows[s] /\ mine[s] # NoValue
    <3>1. t.rows[s] = [status |-> t.sheet[s], by |-> r]
      BY <1>3, <2>2 DEF RowsOf, Marked
    <3>2. t.rows[s] \in Record
      BY <1>4, <2>2, <3>1 DEF Record
    <3> QED
      BY <3>1, <3>2, NoValueAssumption
  <2>3. ASSUME NEW s \in Students, t.sheet[s] = NoValue
        PROVE  mine[s] = record[t.session][s]
    BY <1>3, <2>3 DEF RowsOf, Marked
  <2>4. \A s \in Students : mine[s] \in Record \cup {NoValue}
    BY <2>1, <2>2, <2>3
  <2> QED
    BY <2>2, <2>3, <2>4
<1> HIDE DEF mine
<1>7. /\ record' \in [Sessions -> [Students -> Record \cup {NoValue}]]
      /\ record'[t.session] = mine
      /\ \A k \in Sessions \ {t.session} : record'[k] = record[k]
  BY <1>1, <1>3, <1>6 DEF IInv, TypeOK
<1>8. /\ session' \in [Sessions -> Users \cup {NoValue}]
      /\ session'[t.session] # NoValue
      /\ \A k \in Sessions \ {t.session} : session'[k] = session[k]
      /\ \/ session[t.session] = NoValue /\ session'[t.session] = t.user
         \/ session[t.session] # NoValue /\ t.user \in Admins /\ session' = session
  <2>0. session \in [Sessions -> Users \cup {NoValue}] /\ Holds(t)
    BY Facts DEF IInv, TypeOK
  <2>1. CASE t.opened = TRUE
    <3>1. t.opened
      BY <2>1
    <3>2. session' = [session EXCEPT ![t.session] = t.user]
      BY <1>1, <3>1
    <3>3. session[t.session] = NoValue
      BY <1>1, <2>0, <2>1 DEF Holds
    <3> QED
      BY <1>3, <2>0, <3>2, <3>3, UsersAssumption
  <2>2. CASE t.opened = FALSE
    <3>1. ~t.opened
      BY <2>2
    <3>2. session' = session
      BY <1>1, <3>1
    <3>3. session[t.session] # NoValue /\ t.user \in Admins
      BY <1>1, <2>0, <2>2 DEF Holds
    <3> QED
      BY <2>0, <3>2, <3>3
  <2> QED
    BY <1>1, <2>0, <2>1, <2>2 DEF Holds
<1>9. \A q \in Requests : tx[q].step = "done" => tx'[q] = tx[q]
  BY <1>1, <1>5
<1>10. TypeOK'
  BY <1>1, <1>3, <1>5, <1>7, <1>8 DEF IInv, TypeOK
<1>11. \A q \in Requests : LocalOK(q, tx'[q])
  <2>1. LocalOK(r, h)
    BY <1>2, <1>3 DEF LocalOK, Open
  <2> QED
    BY <1>5, <2>1 DEF IInv
<1>12. ASSUME NEW q \in Requests PROVE Holds(tx[q])'
  <2>1. CASE q = r
    BY <1>2, <1>5, <2>1 DEF Holds
  <2>2. CASE q # r
    <3>1. tx'[q] = tx[q] /\ Holds(tx[q])
      BY <1>5, <2>2, Facts
    <3>2. CASE tx[q].session = t.session
      <4>1. ~(tx[q].opened = TRUE /\ session[t.session] = NoValue /\ tx[q].step \in Open)
        BY <1>1, <2>2, <3>2, Facts DEF IInv, OneOpener, Holds
      <4> QED
        BY <1>8, <3>1, <3>2, <4>1 DEF Holds, Open
    <3>3. CASE tx[q].session # t.session
      <4>1. tx[q].step \in Open => session'[tx[q].session] = session[tx[q].session]
        BY <1>8, <3>3, Facts DEF LocalOK
      <4> QED
        BY <3>1, <4>1 DEF Holds, Open
    <3> QED
      BY <3>2, <3>3
  <2> QED
    BY <2>1, <2>2
<1>13. ASSUME NEW s \in Students, NEW status, Given(s, status)
       PROVE  \E q \in Requests : /\ tx'[q].step = "done" /\ tx'[q].session = FullDay
                                   /\ tx'[q].sheet[s] = status
  BY <1>9, <1>13 DEF Given
<1>14. ASSUME NEW q \in Requests PROVE Counts(tx[q])'
  <2> SUFFICES ASSUME tx'[q].step \in {"summary", "commit"}, NEW s \in Students,
                      tx'[q].tally[s] \in Statuses
               PROVE  \/ \E o \in Requests :
                            /\ tx'[o].step = "done" /\ tx'[o].session = FullDay
                            /\ tx'[o].sheet[s] = tx'[q].tally[s]
                      \/ tx'[q].session = FullDay /\ tx'[q].sheet[s] = tx'[q].tally[s]
    BY DEF Counts, Given
  <2>1. tx'[q] = tx[q] /\ Counts(tx[q])
    BY <1>2, <1>5, Facts
  <2>2. CASE Given(s, tx[q].tally[s])
    BY <1>13, <2>1, <2>2
  <2> QED
    BY <2>1, <2>2 DEF Counts
<1>15. OneOpener'
  BY <1>2, <1>5 DEF IInv, OneOpener
<1>16. FromDone'
  <2> SUFFICES ASSUME NEW k \in Sessions, NEW s \in Students, record'[k][s] # NoValue
               PROVE  /\ record'[k][s].by \in Requests
                      /\ tx'[record'[k][s].by].step = "done"
                      /\ tx'[record'[k][s].by].session = k
                      /\ tx'[record'[k][s].by].sheet[s] = record'[k][s].status
    BY DEF FromDone
  <2>1. CASE k = t.session /\ t.sheet[s] # NoValue
    <3>1. record'[k][s] = [status |-> t.sheet[s], by |-> r]
      BY <1>6, <1>7, <2>1
    <3> QED
      BY <1>2, <1>5, <2>1, <3>1
  <2>2. CASE ~(k = t.session /\ t.sheet[s] # NoValue)
    <3>1. record'[k][s] = record[k][s]
      BY <1>6, <1>7, <2>2
    <3> QED
      BY <1>9, <3>1 DEF IInv, FromDone
  <2> QED
    BY <2>1, <2>2
<1>17. Unopened'
  BY <1>7, <1>8 DEF IInv, Unopened
<1>18. Kept'
  <2> SUFFICES ASSUME NEW q \in Requests, tx'[q].step = "done", NEW s \in Students,
                      tx'[q].sheet[s] # NoValue
               PROVE  record'[tx'[q].session][s] # NoValue
    BY DEF Kept, Marked
  <2>1. CASE q = r
    BY <1>2, <1>5, <1>6, <1>7, <2>1
  <2>2. CASE q # r
    <3>1. tx'[q] = tx[q] /\ tx[q].session \in Sessions /\ record[tx[q].session][s] # NoValue
      BY <1>5, <2>2, Facts DEF LocalOK, IInv, Kept, Marked
    <3> QED
      BY <1>6, <1>7, <3>1
  <2> QED
    BY <2>1, <2>2
<1>19. Whole'
  <2> SUFFICES ASSUME NEW k \in Sessions, session'[k] # NoValue
               PROVE  ByAdmin(k)' \/ \E q \in Requests : SheetOf(k, q)'
    BY DEF Whole
  <2>1. CASE k = t.session /\ session[k] = NoValue
    <3>1. record[k] = Nobody
      BY <2>1 DEF IInv, Unopened
    <3>2. mine = [s \in Students |-> IF t.sheet[s] = NoValue THEN NoValue
                                     ELSE [status |-> t.sheet[s], by |-> r]]
      BY <1>6, <2>1, <3>1 DEF Nobody
    <3>3. SheetOf(k, r)'
      BY <1>2, <1>3, <1>5, <1>7, <1>8, <2>1, <3>2 DEF SheetOf
    <3> QED
      BY <3>3
  <2>2. CASE k = t.session /\ session[k] # NoValue
    <3>1. PICK s \in Students : t.sheet[s] # NoValue
      BY <1>3 DEF Marked
    <3>2. record'[k][s] = [status |-> t.sheet[s], by |-> r] /\ record'[k][s] # NoValue
      BY <1>6, <1>7, <2>2, <3>1
    <3>3. ByAdmin(k)'
      BY <1>2, <1>5, <1>8, <2>2, <3>2 DEF ByAdmin
    <3> QED
      BY <3>3
  <2>3. CASE k # t.session
    <3>1. record'[k] = record[k] /\ session'[k] = session[k]
      BY <1>7, <1>8, <2>3
    <3>2. ASSUME NEW q \in Requests, SheetOf(k, q) PROVE SheetOf(k, q)'
      BY <1>9, <3>1, <3>2 DEF SheetOf
    <3>3. ASSUME ByAdmin(k) PROVE ByAdmin(k)'
      BY <1>9, <3>1, <3>3 DEF IInv, FromDone, ByAdmin
    <3> QED
      BY <3>1, <3>2, <3>3 DEF IInv, Whole
  <2> QED
    BY <2>1, <2>2, <2>3
<1>20. SummaryWasRecorded'
  <2> SUFFICES ASSUME NEW s \in Students, t.tally[s] \in Statuses
               PROVE  \E q \in Requests : /\ tx'[q].step = "done" /\ tx'[q].session = FullDay
                                           /\ tx'[q].sheet[s] = t.tally[s]
    BY <1>1 DEF SummaryWasRecorded
  <2>1. CASE Given(s, t.tally[s])
    BY <1>13, <2>1
  <2>2. CASE t.session = FullDay /\ t.sheet[s] = t.tally[s]
    BY <1>2, <1>5, <2>2
  <2> QED
    BY <1>1, <2>1, <2>2, Facts DEF Counts
<1> QED
  BY <1>10, <1>11, <1>12, <1>14, <1>15, <1>16, <1>17, <1>18, <1>19, <1>20 DEF IInv

-----------------------------------------------------------------------------
(* The invariant and what follows from it *)

LEMMA InitIInv ==
  ASSUME Init
  PROVE  IInv
<1>1. \A r \in Requests : tx[r] = Idle
  BY DEF Init
<1>2. TypeOK
  BY IdleSubmission DEF Init, TypeOK, Nobody
<1>3. \A r \in Requests : LocalOK(r, Idle) /\ Holds(Idle) /\ Counts(Idle)
  BY IdleSubmission DEF LocalOK, Holds, Counts, Open
<1>4. OneOpener /\ Kept
  BY <1>1, IdleSubmission DEF OneOpener, Kept
<1>5. FromDone /\ Unopened /\ Whole /\ SummaryWasRecorded
  BY DEF Init, FromDone, Unopened, Whole, SummaryWasRecorded, Nobody
<1> QED
  BY <1>1, <1>2, <1>3, <1>4, <1>5 DEF IInv

\* A student leaves, or nothing happens.
LEMMA OnlyEnrolled ==
  ASSUME IInv, enrolled' \subseteq Students, UNCHANGED <<session, record, summary, tx>>
  PROVE  IInv'
<1>1. TypeOK'
  BY DEF IInv, TypeOK
<1>2. \A r \in Requests : LocalOK(r, tx'[r])
  BY DEF IInv
<1>3. ASSUME NEW r \in Requests PROVE Holds(tx[r])' /\ Counts(tx[r])'
  <2>1. Holds(tx[r]) /\ Counts(tx[r])
    BY Facts
  <2> QED
    BY <2>1 DEF Holds, Counts, Given
<1>4. OneOpener' /\ FromDone' /\ Unopened' /\ Kept' /\ SummaryWasRecorded'
  BY DEF IInv, OneOpener, FromDone, Unopened, Kept, SummaryWasRecorded
<1>5. Whole'
  <2>1. ASSUME NEW k \in Sessions, NEW q \in Requests, SheetOf(k, q) PROVE SheetOf(k, q)'
    BY <2>1 DEF SheetOf
  <2>2. ASSUME NEW k \in Sessions, ByAdmin(k) PROVE ByAdmin(k)'
    BY <2>2 DEF ByAdmin
  <2> QED
    BY <2>1, <2>2 DEF IInv, Whole
<1> QED
  BY <1>1, <1>2, <1>3, <1>4, <1>5 DEF IInv

LEMMA NextIInv ==
  ASSUME IInv, [Next]_vars
  PROVE  IInv'
<1>1. ASSUME NEW r \in Requests, Serve(r) PROVE IInv'
  <2>1. BreakDeadlock(r) => Rollback(r) /\ tx[r].step \in Open
    BY DEF BreakDeadlock, InDeadlock
  <2> QED
    BY <1>1, <2>1, LookupStep, InsertSessionStep, UpsertRecordStep, CountRecordsStep,
       UpsertSummaryStep, CommitStep, RollbackStep, ToldStep DEF Serve
<1>2. ASSUME NEW r \in Requests, Submit(r) \/ GiveUp(r) \/ Fail(r) PROVE IInv'
  BY <1>2, SubmitStep, ToldStep, RollbackStep DEF Fail
<1>3. ASSUME NEW s \in Leaving, Deactivate(s) PROVE IInv'
  <2>1. enrolled' \subseteq Students /\ UNCHANGED <<session, record, summary, tx>>
    BY <1>3 DEF Deactivate, IInv, TypeOK
  <2> QED
    BY <2>1, OnlyEnrolled
<1>4. CASE UNCHANGED vars
  <2>1. enrolled' \subseteq Students /\ UNCHANGED <<session, record, summary, tx>>
    BY <1>4 DEF vars, tables, IInv, TypeOK
  <2> QED
    BY <2>1, OnlyEnrolled
<1> QED
  BY <1>1, <1>2, <1>3, <1>4 DEF Next

LEMMA AlwaysIInv == Spec => []IInv
BY InitIInv, NextIInv, PTL DEF Spec

\* Tables and submissions keep to their types.
THEOREM TypesKept == Spec => []TypeOK
<1>1. IInv => TypeOK
  BY DEF IInv
<1> QED
  BY <1>1, AlwaysIInv, PTL

\* A session no admin has touched holds exactly the sheet of its marker, however many
\* submit it at once.
THEOREM SheetsStayWhole == Spec => []OneWholeSheet
<1>1. IInv => OneWholeSheet
  BY DEF IInv, Whole, ByAdmin, SheetOf, OneWholeSheet
<1> QED
  BY <1>1, AlwaysIInv, PTL

\* What a phone was told is submitted stays recorded.
THEOREM OkIsRecorded == Spec => []ToldOkIsRecorded
<1>1. IInv => ToldOkIsRecorded
  BY DEF IInv, LocalOK, Kept, ToldOkIsRecorded
<1> QED
  BY <1>1, AlwaysIInv, PTL

\* The summary counts no status that no committed full-day sheet has given.
THEOREM SummaryHasSource == Spec => []SummaryWasRecorded
<1>1. IInv => SummaryWasRecorded
  BY DEF IInv
<1> QED
  BY <1>1, AlwaysIInv, PTL

=============================================================================
