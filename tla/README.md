# VidyaTrack in TLA+

This directory holds a TLA+ model of VidyaTrack, the school-management system in
`src/`: what it is made of, the parts whose behaviour is hard to test, model-checked
with TLC, and theorems about them checked by TLAPS. Paths below are relative to `src/`.

Contents: [1 the system](#1-the-system) · [2 the modules](#2-the-modules) ·
[3 the runs](#3-the-runs) · [4 the proofs](#4-the-proofs) ·
[5 disagreements between code and documents](#5-disagreements-between-code-and-documents) ·
[6 what is not modelled](#6-what-is-not-modelled) · [7 plan](#7-plan)

## 1 The system

Three programs and two stores:

| program | where | what it is |
|---|---|---|
| API server | `apps/api` | NestJS, TypeORM used as a plain SQL client, PostgreSQL, Redis |
| phone app | `apps/mobile` | Flutter, for admins, teachers, parents and students; a small SQLite queue |
| owner console and site | `apps/web` | Next.js; a client of the superadmin routes |

### 1.1 How a request runs

Everything below rests on this, so it is modelled once and reused by every module.

* `TenantContextInterceptor.runInTenantContext` opens **one READ COMMITTED transaction
  per authenticated request**, sets `app.current_school_id` and `app.current_role` for the
  row-level policies, runs the handler, commits, and only then lets the answer out. Any
  exception rolls everything back.
* `TenantDb.query` sends every statement of the request to that transaction. A handler is
  therefore a sequence of SQL statements, with other requests' statements in between.
* A statement sees what is committed when it *starts*, plus its own transaction's writes.
  A row that another open transaction has written is locked: an `UPDATE` or
  `ON CONFLICT DO UPDATE` waits, and then works on the newest version of **that** row,
  but with whatever its sub-selects had already read from **other** rows. Waiting in a
  circle is broken by PostgreSQL, which aborts one of the transactions.
* Redis is not part of the transaction. Each command is atomic, may fail (the code logs it
  and goes on), and is never undone.
* The phone waits 30 s for an answer (`api_client.dart:11`) and then decides on its own whether to show an error,
  retry, or queue. It cannot tell a lost answer from a lost request.

### 1.2 Components, their state, operations and correctness

| component | state | operations that change it | correct when |
|---|---|---|---|
| Request transactions (`common/database`) | open transaction, locks | begin, commit, roll back | a request's writes appear all at once or not at all; no lock outlives its request |
| Fees and revenue (`fees`, `schema.sql`) | `fee_heads`, `fee_invoices`, `fee_payments`, `other_income`, `expenses`, `daily_revenue_summary`, `audit_logs` | fee heads CRUD, generateInvoices, collectPayment, verifyPayment, addIncome, addExpense, voidEntry, refresh_daily_revenue | a gateway payment counts once; what was acknowledged is on record; rows are never deleted or rewritten; an invoice's status and the revenue agree with the rows; every change is audited |
| Settings (`config`, `superadmin`) | `school_settings`, a Redis entry per school | setSchoolSetting, resolve | readers see a state the table really had, of the right type and range; a stale copy does not last |
| Attendance, server (`attendance`) | sessions, records, `daily_attendance_summary`, holidays | submitAttendance, setHoliday, deleteHoliday | one sheet per session; a sheet is changed by admins only; the summary agrees with the records |
| Attendance, phone (`attendance_provider.dart`) | SQLite `att_queue`, the badge | submit | what is shown as submitted is on record |
| Notifications, notices, leave, suggestions (`notifications`) | one table each | applyLeave, actLeave, submitSuggestion, replySuggestion, sendNotice, createCircular, sendMessage | a leave is decided by admins who saw it pending; what stands was announced; an audience gets a notice once |
| Students and credentials (`students`) | students, users, roles, parents, admission numbers | create, bulkImport, update, deactivate, resetCredentials | unique numbers and logins; a refused row leaves nothing; the preview tells the truth |
| Authentication (`auth`) | Redis codes and counters, passwords, roles, tokens | sendOtp, verifyOtp, loginPassword, selectRole, refresh, changePassword | a code works once; nobody is locked out for ever; a token says what its user may do |
| Academics (`academics`) | timetable, exams, results, homework, materials, syllabus | save timetable or slot, enter results, post, take down | a saved timetable is one person's, whole; parents see the records of their own children only |
| Platform (`superadmin`) | schools, users, settings | createSchool, setStatus, resetPrincipal, broadcast, setSchoolSetting | a slip carries the password that works; a suspended school stays out |
| Phone session (`api_client.dart`, `auth_provider.dart`, `school_config.dart`) | secure storage, cached configuration | restore, refresh, log out, bootstrap | one failed refresh ends one session |
| Tenant isolation (`rls-setup.sql`) | policies over every table | none | no request reads or writes another school's rows |
| Classes, teachers, users, schools, storage, health, seed, screens, console | see `PROJECT.json` | single statements, files under fresh names, presentation | nothing that spans steps, but for the accounts of teachers |

How they interact: attendance, leave, notices and broadcasts insert into `notifications`
inside their own transaction; fees and attendance each end their writes by recomputing a
summary row; `superadmin` writes the settings that `config` serves to the phone, and the
schools and passwords `auth` goes by; students and teachers who are admitted change who is
in an audience, whom invoices are generated for, what attendance counts, and who may read
whose results; the phone and the console are the only callers.

### 1.3 What is hard to test here

The hazards are listed one by one, with their line, in `PROJECT.json`. They fall into
five groups:

1. **Read, then write, without a lock** inside one transaction: the balance of an invoice,
   "is it already voided", "is it still pending", the next admission number, the old
   password, the guardian who may look.
2. **Sums recomputed from a snapshot**: an invoice's status, the revenue, the attendance
   summary.
3. **A second store outside the transaction**: Redis beside PostgreSQL, SQLite and memory
   on the phone.
4. **Retries after lost answers**: payments and attendance sheets sent again.
5. **Row locks taken in an order nobody chose**: invoice generation, attendance sheets,
   sheets of marks.

## 2 The modules

| module | extends | models |
|---|---|---|
| `GatewayPayments` | | what the fees service promises of an online payment: abstract specification |
| `FeeLedger` | | every write to the money tables, one SQL statement per action |
| `FeeLedgerInv` | `FeeLedger` | the inductive invariants |
| `FeeLedgerProofs` | `FeeLedgerInv`, `FiniteSetTheorems`, `TLAPS` | theorems and proofs |
| `InvoiceGeneration` | | the fee structure and `generateInvoices`, one SQL statement per action |
| `SettingsRegistry` | | the catalogue of settings, `validateSetting` and `coerceSetting`: operators only |
| `SettingsCache` | `SettingsRegistry` | settings in the table and in Redis, readers and writers |
| `Attendance` | | one section on one date: phones and server |
| `Communications` | | leave, suggestions, notices, circulars, messages, broadcasts and the inbox |
| `Admissions` | | one student at a time, the bulk import and its dry run, a guardian's phone |
| `Academics` | | timetable, marks, syllabus, holidays, posts, and what parents and pupils may read |
| `Accounts` | | codes, passwords, roles and tokens; founding, suspending and resetting |
| `InvoiceGenerationProofs`, `SettingsCacheProofs`, `AttendanceProofs`, `CommunicationsProofs`, `AdmissionsProofs`, `AcademicsProofs`, `AccountsProofs` | the module before `Proofs`, `TLAPS` and the library's theorems each needs | theorems and proofs |
| `MC…` | the module after `MC` | symmetry sets and small functions for TLC |

The state machines share a form: a request is a record in `tx` with the step it is at; an
action is one SQL statement or Redis command of one request; writes wait in `tx` until
`Commit`, unless the route runs without a transaction; `Blockers(r)` are the requests whose
uncommitted rows the next statement waits for; `Fail` is an error, a lost connection or a
crash at any point.

`FeeLedger` and `InvoiceGeneration` are two views of `fees.service.ts`. The first takes an
invoice's amount due as a number chosen from `Dues` and follows the money; the second
represents the amount due by the set of lines that were added up, and follows where it
comes from. Each contains what the other does to the rows they share
(`FeeLedger!GenerateInvoice`, `InvoiceGeneration!RecordPayment`). In the same way the other
modules take in what their neighbours do to them as an action of its own: a student who
leaves (`Deactivate`), somebody who joins (`Join`, `HireTeacher`), a student who changes
section or guardian (`ChangeStudent`, `ChangeGuardian`), a school whose status changes
(`SetStatus`).

In every module an operator whose comment starts with *Fault* is a plausible mistake in the
operator that follows it. It is used by no specification; it is there to show that the
properties notice it (`mutants` in `PROJECT.json`).

### 2.1 FeeLedger

| variable | code |
|---|---|
| `invoice` | `fee_invoices`: status and amount due; status `absent` means no row |
| `entry` | `fee_payments`, `other_income`, `expenses` in one function; a request adds at most one money row, so the request is the row's id |
| `summary` | the school's only `daily_revenue_summary` row: its day and *which rows* were summed |
| `audit` | requests whose `audit_logs` row is committed |
| `today` | `CURRENT_DATE` of a transaction that starts now |
| `tx[r]` | the request's transaction: next statement, locals, uncommitted row versions (which are its locks) |

`Begin…` actions are requests arriving; `ReadInvoice … WriteSummary` are the statements in
the order `After` gives; `Commit` publishes every write at once; `Reply` delivers or loses
the answer; `Fail` stands for any error, lost connection or crash at any point;
`BreakDeadlock` for PostgreSQL's deadlock detector. `Blockers(r)` says whose locks the next
statement waits for: the unique index on `gateway_payment_id`, the row being voided, the
invoice row, the summary row. A read that the code does without a lock has no blockers:
that is where the races come from. `recomputeInvoiceStatus` is one SQL statement but two
actions (`RecomputeSum`, `RecomputeStatus`), because its sub-selects are evaluated before
it waits for the row.

`Amounts` are any integers, for `collectPayment` and the column take a negative amount, or
none, as well as a positive one; incomes and expenses must be positive (`addIncome`,
`addExpense`), and so is what is left of a balance to pay online. A manual entry's date is
left to its default, today.

### 2.2 InvoiceGeneration

`head` is `fee_heads`, `active` the students with status `active`, `invoice` the invoices
by student and month, `tx` the generation's transaction. One run is `SelectStudents`, then
per student `SelectHeads`, one `CheckOneTime` per one-time head and `UpsertInvoice`, then
`Commit`; heads are edited and deleted, students leave and payments are recorded between
any two of them. The statuses `partial` and `paid` are one value, `settled`: the upsert
only asks whether the status is `pending`.

### 2.3 SettingsRegistry and SettingsCache

`SettingsRegistry` has every setting the API goes by, with type, range, words, default and
legacy key. A text is represented by its form (numeral, word, JSON, colour, time, padded,
empty, too long) and content. `Accepts` and `Canonical` are `validateSetting`; `Coerce` is
`coerceSetting`, including what `Number()` makes of a text that is no number; `IsValueOf` is
what a consumer of a setting counts on. That whatever is accepted is stored in a form that
is accepted again and parses to a value of its setting is checked for all settings by the
assumptions `DefaultsAreStored` and `AcceptedIsStored` of `MCSettingsCache`.

In `SettingsCache`, `rows` is `school_settings` with a column for every key and legacy key;
`cache` the Redis entry and its age; the requests are readers (`GET`, `SELECT`,
`SET … EX`) and writers (`upsert`, `DEL`, commit). Each Redis command may be lost when
`RedisMayFail`, and is not undone by a rollback. A row under a legacy key may hold any text,
because it was stored before there was a registry; the lookup prefers the new key. `Tick` is
the passing of time. `history` holds every state the table had, so that properties can say
what a reader was served.

### 2.4 Attendance

`session`, `record` and `summary` are the server's tables for one section and date, `tx`
the submissions, each with what its phone was told. A record remembers the submission that
wrote it, and the summary what each student was counted as, so that properties can speak
of whose sheet is on record. `UpsertRecord` locks the rows of a sheet one at a time, in any
order. `GiveUp` is the phone's timeout: the server goes on and the user may submit again.
`Existing` has exactly the columns the lookup selects.

Two columns the code reads but never writes are constants: `locked_at` stays NULL, and
invoices never become `overdue` or `waived`. `syncPending` has no caller in the app and is
therefore not an action; the phone's queue is a place sheets go to and never leave.

### 2.5 Communications

`case` holds leave requests and suggestions: status and the request that wrote it; `notice`
the audience of each stored notice, circular, message or broadcast; `member` when each row
of `user_roles` was committed; `guardian` the applicant's guardian; `inbox` the rows of
`notifications`, each with the membership through which its user was found; `clock` the
number of transactions begun, which gives every transaction a time.

A request applies (`CheckApplicant`, `FileRow`), decides or replies (`ReadCase`,
`UpdateCase`, `ResolveTargets`, `InsertNotifications`), or posts (`FileRow`,
`ResolveTargets`, `InsertNotifications`). `UpdateCase` waits for the row and then overwrites
whatever is there, as the `UPDATE … WHERE id` does. `Resolve` is `resolveAudience`; the
one-role queries select rows and the others distinct users, which is why a notification
remembers `via`. `InsertNotifications` is one `INSERT` that fails as a whole if it has more
than `MaxRows` rows, the 65535 parameters of a statement, and for a broadcast one for each
user. Titles, texts and times of publication are left out.

### 2.6 Admissions

`student` maps admission numbers to the row that was admitted and its guardian, `owner` each
phone number to its one user, `version` counts the changes of both. A request is a handler
with its lines: `create` has one, `bulkImport` a table, of which each line has a savepoint.
Per line the steps are: number and section (`CheckLine`), the `INSERT` of the student, the
lookup of a user and parent by phone, the account, the link. `LineFails` goes back to the
savepoint in an import and rolls everything back in `create`. A dry run rolls back every
line whatever became of it and remembers the admission numbers apart. `NextNumber` is
`MAX + 1` of what the statement sees. What a line brings into being is named by its *slot*,
the pair of request and line. `HireTeacher` is `TeachersService.create` taking a phone.
Logins and names are made of unique ids and left out.

### 2.7 Academics

`cell` is the row under each unique index (period, student and subject, unit or date): its
id and the request that wrote it last; `post` where homework and materials belong (a section; a class, or
the `School` if none is given), by the request that posted them; `student` the section, guardian and status of each student;
`clock` counts requests that were committed.

`BulkSetTimetable` is a `DELETE` of all rows it finds and then inserts one by one, which
wait for, or fail on, rows that others insert. `EnterResults` upserts one row after the
other in the order of its caller, so two can deadlock (`BreakDeadlock`). The readers are
parents and pupils, on routes of three kinds:

* the `/my` routes look up the caller's own child (`FindChild`) and, but for records, his
  section or class (`FindSection`), and read the list in a statement after that;
* results, attendance, dues, an invoice or a receipt of a student who is named are read after
  the access to him was checked (`CheckAccess`);
* `GET materials` and `GET syllabus` admit every role, for one class or for all, and check
  nothing (`ListMaterials`, `ListSyllabus`). `ViewersSeeTheirs` excepts these two by name, and
  says that they show no homework.

`during` records in what states `student` was while the request ran: that, and not the state
at its end, is what the first two kinds may show. `GET exams`, which every role may list too,
shows exams and no marks and is left out with `createExam`; admins and teachers, who may
read of every student, are no viewers.

### 2.8 Accounts

`password`, `role`, `school`, `since` are tables; `otp`, `count` and `expires` the Redis keys
of codes and of the limit of codes, with whether the latter has a time to live; `dropped`
remembers sends that stopped between `INCR` and `EXPIRE`. Sending and verifying a code and
logging in are public routes, which run **without** a transaction: each of their statements
is for good. Changing and resetting a password and founding a school are requests with one;
refreshing is one action, because it reads nothing, and so is choosing a role: of its two
statements the first reads the role, and the second only whether the password is to be
changed, which no token carries. `CodeExpires` and `CounterExpires` are the keys' life ending
at any time. A password or code is named by the request that made it, so guessing is not
modelled: what is presented is what somebody was told (`Told`).

## 3 The runs

Every passing run terminates with the whole bounded state space explored. Deadlock checking
is off where a bounded number of requests ends, which is every module but `SettingsCache`,
whose requests start over.

| run | question | bounds |
|---|---|---|
| `fee_concurrent` | what do the money tables guarantee whatever interleaves, and are online payments credited as `GatewayPayments` says? | 3 requests, 2 at once, 2 invoices of 1 or 2 due, 1 gateway payment, amounts 1 and −1; payments online and at the counter, voids and generations |
| `fee_serial` | what holds when requests do not overlap? | 4 requests, 1 connection, 1 invoice of 2, amounts 1 and −1, 2 days; payments, incomes and voids |
| `fee_liveness` | does every request end? | 3 requests, 2 at once, 2 invoices; online payments and generations |
| `fee_overpaid` | section 5: expected to fail | 2 requests at once, 2 gateway payments, 1 invoice of 2 |
| `invoice_concurrent` | two generations of a month while everything changes | 2 runs, 2 students, 1 head of 2 prices and 2 frequencies that is edited and deleted |
| `invoice_serial` | is a one-time head billed in one month only? | 3 runs one by one, 2 students in 2 classes, 2 months, 2 heads, quarterly or one-time, that stay as they are |
| `settings_shared` | readers and writers, Redis failing | 2 requests, repeated for ever, one setting with a range and a legacy key and one boolean, 6 texts of every kind, 2 writes, an entry that lives 2 ticks |
| `attendance_shared` | a teacher and an admin submit, answers come late | 3 requests, 2 at once, 2 students of whom 1 leaves, 2 kinds of session, 1 status |
| `communications_shared` | who is told what, and who decides | 3 requests, 2 at once, 1 leave, 1 suggestion, 2 audiences of 4 users, 2 memberships that come later, 3 rows to an `INSERT` |
| `admissions_shared` | what do refused lines leave, and is the preview right? | 3 requests, 2 at once, 3 tables of 2 lines with and without flaws, 2 phones, 3 admission numbers |
| `academics_shared` | saves beside saves, readers beside a change of guardian | 3 requests, 2 at once, 2 periods, 2 marks, 1 unit, 1 student with 2 records in 2 sections of 2 classes, 1 parent, 1 pupil |
| `accounts_shared` | codes, passwords, roles and schools | 3 requests, 2 at once, 2 people, 2 schools of which 1 is founded later, 1 code an hour, counters up to 2, 2 changes of status |

**Why these bounds are enough to be interesting.** Every race the code has is between two
requests over one row; a third request is the observer, the one that voids, replies or logs
in, or the one that finds what the other two left. Two invoices and two students, or two
marks, are what a deadlock needs; two requests naming the one gateway payment are the same
payment twice; an amount of 1 against 1 or 2 due gives partial, exact and excessive payments,
and a due that changes under a payment; an amount of −1 takes one back without a void; two days give one midnight; two writes give three
states of the settings, so that a mixture of two can be told from all of them. Four users
against three rows make an audience too large for one `INSERT`; two lines of one table make
one that repeats, or whose number is taken by, the one above; one code an hour makes the
second send exceed the limit. What is beyond the bounds is covered by the proofs (section 4),
where there is one. `fee_serial` and `invoice_serial` allow one connection, which is how
"nothing interleaves" is expressed. Their properties are those that concurrency breaks: give
either of them a second connection and TLC finds the interleaving (section 5).

The constants that bound what the code does not bound: `MaxDay`, `MaxWrites`,
`MaxNumber`, `MaxLines`, `MaxCount`, `MaxClock`, `Records`, `Texting`; `PoolSize` and
`MaxInFlight` are the connections of the pool. `MaxRows` and `OTP_MAX_PER_HOUR` are limits
the code has, made small.

**What some results say that is not obvious.**

* `SettledIsBacked`: although a status may be stale, it errs to one side only. Until a
  payment is voided, or a negative one collected, an invoice never looks more paid than it is.
  The exception is needed: a negative payment at the counter that commits between another
  payment's sum and its `UPDATE` leaves the invoice `paid` for money that was taken back.
* `OnlyGeneratorsDeadlock`: payments, voids and manual entries take their locks in one
  order (money row, invoice, summary), so a deadlock only ever involves generations.
* `ServedSnapshot`: the settings a reader gets may be old, but they are the whole table as
  it was at one moment, even when the `DEL` was lost or the writer rolled back; and
  `StaleEntryGoes`: an entry's life is never prolonged by reading it.
* `ServedWellTyped`: a row under a legacy key was never validated, but no such row reaches a
  setting that was written since.
* `OneWholeSheet`: a phone that sends a sheet again after a timeout cannot damage what is on
  record, and two teachers' sheets are never mixed.
* `OnlyOverlapRedecides`, `CodeAdmitsOnce`, `ChangeKnowsOld`: three times the code checks in
  one statement and acts in another. Each property says exactly how far that goes: only
  requests that overlap get past the check.
* `WeekIsReplaced`: two saves of a timetable never leave rows of both, not because of a lock
  but because the second to insert a period fails on the unique slot and is rolled back.
* `PreviewIsHonest`: of an import beside which nothing changes the dry run tells every error,
  with one exception the property names: a number that is given in the table, after a line
  above has taken it as the next one.

**Symmetry** is used over sets whose members are only compared for equality (requests,
invoices, gateway payments, runs, months, heads, users, students who stay), and in no run
with a leads-to property.

**Fairness.** `FeeLedger` and `SettingsCache` have `WF(Serve(r))` for each request: Node's
event loop and PostgreSQL go on with a request whose next statement is not waiting for a
lock, deadlock detection included. Nothing else is fair: requests need not arrive, days need
not pass, and `Fail` may always happen. `SettingsCache` adds `WF(Tick)`: time passes. No
property assumes that a user does something or that Redis ever works. The other modules state
safety only.

## 4 The proofs

What TLAPS proves, for every number of requests, rows, users, amounts and connections, from
the named assumptions on the constants alone. Every safety property that a passing run checks
is among them. Four are stated under a further hypothesis, which their theorem names: the
properties of `fee_serial` for behaviours in which no two transactions are open at once, and
that of `invoice_serial` for one connection.

| module | theorems |
|---|---|
| `FeeLedgerProofs` | `TypeCorrect`, `GatewayPaymentCreditedOnce`, `AcknowledgedIsSafe`, `RevenueCountsCommitted`, `LedgerIsAppendOnly`, `EveryChangeIsAudited`, `OnlyGenerationsDeadlock`, `NoStatusTooGood`, and `PaymentsCreditedOnce`: `FeeLedger` implements `GatewayPayments`; while no two transactions are open at once `StatusIsExact`, `RevenueIsExact` and `OnlinePaymentsFit` |
| `InvoiceGenerationProofs` | `TypesKept`, `GeneratesWholeMonths`, `ChargesOneTimeOnce` (with one connection and finitely many runs) |
| `SettingsCacheProofs` | `TypesKept`, `ServesSnapshots`, `ServesWellTyped` |
| `AttendanceProofs` | `TypesKept`, `SheetsStayWhole`, `OkIsRecorded`, `SummaryHasSource` |
| `CommunicationsProofs` | `TypesKept`, `RedecidesOnlyInOverlap`, `DecisionsAreAnnounced`, `NoticesReachAll` |
| `AdmissionsProofs` | `TypesKept`, `LinesStayWhole`, `PreviewStaysHonest` |
| `AcademicsProofs` | `TypesKept`, `WeeksAreReplaced`, `SheetsStayApart`, `ViewersAreShownTheirs` |
| `AccountsProofs` | `TypesKept`, `AdmitsOnce`, `TokensEarned`, `LocksOutByCrashOnly`, `SlipsHold`, `ChangesKnowTheOld` |

`EveryChangeIsAudited` states `AuditComplete`, which no run checks: that a money row, or its
void, is on record exactly if its audit row is, is the promise the plan makes of every money
write.

**Why inductive invariants are needed.** None of the properties is inductive: nothing in
`GatewayPaymentOnce` stops two open transactions from both holding an uncommitted row for
one payment. Each module's `IInv` adds what open transactions may rely on. In all of them a
part called `LocalOK` (`WellFormed`, `Locals`) says which locals are set at which step. The
parts that carry the argument are:

* **`FeeLedger`** (`FeeLedgerInv`). `RowsFaithful`: an uncommitted row is either the request's
  own new row, or the void of a committed row that differs from it in nothing but the void.
  `TargetsExist`: a request about to void has seen a committed row. `GatewayUnique`: no two
  rows *or uncommitted versions* carry one gateway payment; kept by the wait on the unique
  index and the check behind it. `VerifyProgress`: from its insert on, verifyPayment has
  written or found its row. `CountsVisible`: whatever has been summed is committed or the
  summing request's own. For the audit, `AInv`: a request about to commit with money
  rows has written its audit row, and it voids in its own name. For the deadlocks, `LInv`: up
  to its recompute a transaction has locked no invoice, only one about to commit has locked
  the summary, and only a generation generates; from which the waits of payments, voids and
  manual entries go up one order, money row before invoice before summary, so that a circle
  has a generation in it.
* **The money of `FeeLedger`** (`FeeLedgerInv` too). For `SettledIsBacked`, `BInv`: every
  uncommitted version of an invoice is backed by the payments its own transaction sees, and
  the payments a transaction has summed are still among those it would see now
  (`BackedLocals`). That is what survives the race: payments committed since only add to the
  sum, and a void or a negative payment, which take away, end the claim (`OnlyPaidInto`). `LInv` is needed with it, for only one
  transaction at a time holds a version of an invoice. `Effects` is the lemma under all of
  these: each step of a request opens or closes it, reads, counts, inserts, voids, recomputes,
  publishes or generates, and changes its locals in one of nine ways, so that a proof has one
  case a kind of step and not one an action.
* **One transaction at a time.** `StatusInv`, `SummaryInv` and `BalanceInv` say what the one
  open transaction knows: that every invoice but the one it is about to recompute matches
  its payments, that its count is of just the rows it sees of the day (`Tallied` says of
  which tables at which step), and that the balance it has clamped the amount to is still
  the balance. The hypothesis is `[]OneOpen`, which holds with the pool of one connection of `fee_serial`
  (lemma `OneAtATime`), and as well of a larger pool whose requests happen not to overlap. When they
  do overlap, each of the three properties fails (section 5). `StatusIsExact` also assumes
  that no invoice is of nothing: the generator writes `pending` where a recompute would write
  `paid`.
* **`InvoiceGeneration`**. `Carried`: the rows a run holds are exactly those of the students
  it has done. With one connection, `SerialInv`: a one-time line is on at most one month of
  a student or in the one open run, and then his other months are as the run saw them; a run
  reads that from committed rows, since no other run is open.
* **`SettingsCache`**. `Provenance`: what a reader holds and what Redis holds are each the
  whole table at some past moment, whichever transaction put it there. `HistoryStored`: every
  such table holds under a setting's own key only texts that were accepted; `StoredIsValue`
  is the lemma that such a text parses to a value of its setting.
* **`Attendance`**. `OneOpener`: at most one submission has a session's row uncommitted.
  `FromDone`, `Unopened`, `Kept`: records come from submissions that ended, a session nobody
  opened has none, and what was answered with success is kept. `Whole` is `OneWholeSheet`
  with the open submissions in it.
* **`Communications`**. `Filing`: a leave being filed is in nobody else's hands. `Deciding`:
  a leave somebody is deciding was pending as he read it, or has been decided since by a
  request that ended after his began. For what people are told, `DInv`: whom an open request
  has resolved is everybody who was there before it began (`Addressing`), applicant or author
  included (`Concerning`), each once, which rests on the unique rows of `user_roles` and on
  `DISTINCT`; and all of the inbox comes of requests that are over (`Delivered`).
* **`Admissions`**. `OnRecord`: the tables hold one student for each line admitted, and no
  phone belongs to a line that was not. `Inserts`: each row an open admission has written
  is of a line it has accepted or of the line at hand, one row a line, and an accepted
  line's row names a guardian who is on record or among its own; so going back to the
  savepoint takes away what the line at hand brought and nothing else. `Updates`: a change
  writes only new versions of rows on record. `Exclusive`: no two open requests hold rows of
  one number, which is the wait on the unique index. For the preview, `PInv`: of a request
  beside which nothing ran, while no row has changed since it began, every answer so far is
  the one that can be read off the table and the committed rows (`Refused`), except what an
  import adds (`NextAsked`), and its locals are on the way to the next such answer
  (`Prospect`). Dry run and import are never compared while they run: each is compared with
  `Refused`, and the two answers when the later of them commits, before its rows become the
  rows.
* **`Academics`**. `Clears`: a period with a row was found or deleted by the save that clears
  the week, or a request answered since that save began has touched it; `Replaced` is the
  same of an answered save, with its own rows for what it kept. `ByDone`, `Distinct`, `Latest`:
  rows come of answered requests, no two writers ended at once, and the rows of an answered
  sheet were last touched by a request that ended no earlier. `Views`: `during` has every
  state the student was in since the request began, and what is shown was right in one of
  them.
* **`Accounts`**. `Admitted`: a verification past its read, with the code of one that was
  answered, began before that answer; `Burned`, `Stored`: once deleted a code is under no
  phone's key and does not come back, because each send stores its own. `Checked`: the school
  of a handler on its way to a token was active at some point since it began; `Earned`: so was
  that of a token handed out, and the role in it exists. `Knows`: when a change is past
  `ProveOld`, the password is the one it proved or was set since it began. `Slip`,
  `SetByDone`: a password comes of an answered request, and the slip of a reset holds it
  unless a later one was answered.

The layout is the same everywhere: lemmas on the fields of a handler; one lemma per action
that `IInv` is preserved; `AlwaysIInv`; then each property from `IInv`, and for the action
properties from `IInv` and the step. For the refinement every step of `FeeLedger` is shown to
be `Record`, `Tell` or a stutter under the mapping `recorded`, `told`.

**Sums and largest elements.** `Total` adds up amounts over a set of rows by a recursive
function, and `NextNumber` takes the largest of a set. That the equations of a sum have a
solution, that all solutions agree, that a sum grows by what is added (`SumsExist`,
`SumsAgree`, `TotalTake`, `TotalGrows`), and that a set of numbers has a largest (`Largest`), are
inductions over a finite set. They are done without an induction theorem: of the sets of
which the claim is false a smallest is taken, since proper inclusion is well-founded among the subsets of a
finite set (`FS_StrictSubsetOrderingWellFounded`, `WFMin`), and it is shown that there is none.
The rows added up are finitely many (`FiniteRows`) because one transaction adds at most one.

**Assumptions.** All are on constants and evaluated by TLC in the runs: that bounds are
numbers, that amounts are integers and dues not negative, that a model value that stands
for *nothing*, *not given* or *staff* is none of the values it is told apart from, and that
`NULL` is not a row (`RowAssumption`, `RowsAssumption`).

**Only model-checked.** Liveness: `EveryRequestEnds` and `StaleEntryGoes` need fairness and
ENABLED, which the prover does not handle. And the assumptions of `MCSettingsCache` about
every setting of the catalogue, which TLC evaluates.

## 5 Disagreements between code and documents

One has a run in which TLC finds the behaviour; `PROJECT.json` quotes the lines.

| run | what happens |
|---|---|
| `fee_overpaid` | two online payments of one invoice verified at once both see the whole balance: it is paid twice |

Others are known and have no run of their own. Some the modules show with another
configuration:

* with two connections in `fee_serial`: of two counter payments at once the later status
  `UPDATE` uses sums from before the earlier commit, and a paid invoice stays partial
  (`StatusMatchesLedger`, `fees.service.ts:364`); of two incomes at once the summary row that
  is written last lacks one (`SummaryMatchesLedger`, `schema.sql:678`);
* with two connections in `invoice_serial`: two months generated at once both bill the
  one-time head (`OneTimeBilledOnce`, `fees.service.ts:84`);
* with 0 among the `Dues` of `fee_serial`: the invoice of a student without monthly charges is
  of nothing and `pending` (`fees.service.ts:94`), where the recompute would call it paid, and
  the parent's list of dues goes on showing it (`StatusMatchesLedger`).

Some the models contain, and the properties are stated so as to allow them:

* generating a student's first month again drops its one-time head, since the run finds its
  own earlier invoice (`fees.service.ts:84`);
* the cached settings are dropped before the write commits; a reader in between puts the old
  ones back, and they are served until the entry expires (`superadmin.service.ts:188`);
* a stored number that is none resolves to NaN and not to the default
  (`settings-registry.ts:327`);
* the teacher who marked a session may not edit it the same day, as the comment says he may:
  `marked_at` is not among the columns selected (`attendance.service.ts:145`);
* `refreshSummary` counts before it locks, so that two sheets at once can leave the summary
  without one of them (`attendance.service.ts:252`);
* a sheet queued offline is never sent, since `syncPending` has no caller
  (`attendance_provider.dart:140`);
* a negative payment at the counter is taken like any other (`fees.service.ts:106`), and one
  that is collected beside another payment can leave the invoice `paid` without the money;
* two voids of one entry at the same time both succeed, and the record of who voided it, and
  why, is the later one's (`fees.service.ts:303`);
* two admins who decide a leave at the same time both succeed, both decisions are announced,
  and the later one stands (`notifications.service.ts:161`);
* a circular to a section carries no section, reaches nobody and is reported as sent
  (`notifications.service.ts:45`);
* a user with several roles gets no token, but a list of roles and a route to choose one
  that requires a token (`auth.service.ts:165`);
* a refreshed token repeats the claims of the old one, also after its school was suspended
  (`auth.service.ts:94`);
* two verifications of one code at the same time both succeed, and the `DEL` of the later one
  may take away a code that was sent since (`auth.service.ts:54`);
* a stop between `INCR` and `EXPIRE` leaves a counter without a time to live, and a phone
  that gets no code any more once the limit is reached (`auth.service.ts:35`);
* a password that is reset while its owner changes it is overwritten by the change
  (`auth.service.ts:116`);
* the materials and the syllabus of every class can be listed by every parent and pupil
  (`academics.controller.ts:23`, `:50`), whereas `/my` shows those of one class.

And some were met while reading and are outside the models:

* `getDailyRevenue` returns the summary row whatever its day, so that after midnight
  yesterday's revenue is shown until somebody writes (`fees.service.ts:265`);
* an `UPDATE … RETURNING` through TypeORM answers a pair of rows and count, so the length
  test for a missing fee head never fails (`fees.service.ts:37`), and deleting a head writes
  no audit row (`fees.service.ts:44`);
* the number of queued sheets lives in memory and is lost when the app restarts
  (`attendance_provider.dart:48`);
* a notice with a later time of publication notifies at once, before the notice can be read;
* an admission number with very many digits does not fit the cast of `nextAdmissionNo`, which
  then fails for the whole school (`students.service.ts:401`);
* the routes for corrections, the register and its export have services and no controller.

## 6 What is not modelled

`PROJECT.json` lists every component with its status and reason.

**Of the modelled components** are left out: gateway orders (which write nothing), receipts
and their numbers, fines and discounts, back-dated manual entries, the split of the day's
fees into current and overdue, the rounding of quarterly and annual heads; the report
queries, lists, searches and statistics, which are single reads; correction requests, the
register and its exports, which no route reaches; `createExam`, classes and sections, which
are inserted once and shared with nobody; titles, texts and times of publication; names and
logins; signatures and the life of tokens; the platform owner's own login and the limits of
a plan, which nothing enforces. The tenant variables of the transaction are left out: every
module is one school, except `Accounts`, which is about several.

**Left out altogether**: row-level security, whose policies compare a column with a variable
set at the begin of the transaction, a fact about every single statement with no state of its
own to explore; the phone's session and cached configuration, the state of one client that no
other part reads; file storage, a file under a fresh name; health, bootstrap, seed and
deployment scripts; the screens, the console and the public site, which present one request's
answer.

## 7 Plan

The order in which the project was built, and what is left:

1. Done: `FeeLedger`, `GatewayPayments`, `InvoiceGeneration`, with their theorems and the
   refinement.
2. Done: `SettingsRegistry`, `SettingsCache`, `Attendance`, with their theorems.
3. Done: `Communications`, `Admissions`, `Academics`, `Accounts`, with their theorems.
4. Done: theorems for what the runs say about sums and about the preview.
5. Left: the client's silent refresh and replay of requests answered 401; the arithmetic of
   fees against a reference definition.
