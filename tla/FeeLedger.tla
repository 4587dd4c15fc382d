------------------------------ MODULE FeeLedger ------------------------------
(****************************************************************************)
(* The money tables of one school (fee_invoices, fee_payments, other_income, *)
(* expenses, daily_revenue_summary, audit_logs) and the requests that write  *)
(* them: fees.service.ts, refresh_daily_revenue of schema.sql, and the       *)
(* transaction that TenantInterceptor wraps around every request.            *)
(*                                                                          *)
(* A request runs in one READ COMMITTED transaction.  Each SQL statement is  *)
(* an action.  A statement sees the committed rows and its own transaction's *)
(* writes.  A row another open transaction has written is locked: a second   *)
(* writer waits, and then works on the newest version of that row, but with  *)
(* whatever its statement had already read from OTHER rows.                  *)
(*                                                                          *)
(* A sum the code reads is represented by the set of rows it summed; amounts *)
(* never change, so the number is Total of that set.                         *)
(****************************************************************************)
EXTENDS Integers, FiniteSets, FiniteSetsExt

CONSTANTS
    Requests,    \* the HTTP requests ever made; a request adds at most one
                 \* money row, which takes the request as its id (uuidv4)
    Invoices,    \* one per active student, for one billing month
    GatewayIds,  \* payment ids handed out by the payment gateway
    Amounts,     \* amounts a caller may name; payments are not checked to be positive
    Dues,        \* amounts due the generator may compute, of heads that are not negative
    Offered,     \* the operations exercised in this instance
    PoolSize,    \* connections in the pool: transactions open at once
    MaxDay,      \* bound on the number of days
    NoValue      \* SQL NULL, and "no row version"

Operations == {"verify", "collect", "income", "expense", "void", "generate"}

ASSUME AmountsAssumption == Amounts \subseteq Int /\ Dues \subseteq Nat
ASSUME SizesAssumption == PoolSize \in Nat /\ MaxDay \in Nat \ {0}
ASSUME OfferedAssumption == Offered \subseteq Operations
ASSUME NullAssumption == NoValue \notin Requests \cup Invoices \cup GatewayIds

VARIABLES
    invoice,   \* fee_invoices, committed
    entry,     \* fee_payments, other_income and expenses, committed
    summary,   \* the school's daily_revenue_summary row, committed
    audit,     \* requests whose audit_logs row is committed
    today,     \* CURRENT_DATE of a transaction that starts now
    tx         \* the request's transaction: its step, locals and writes

vars == <<invoice, entry, summary, audit, today, tx>>

-----------------------------------------------------------------------------
(* Rows *)

Tables == {"payment", "income", "expense"}
InvoiceStatus == {"absent", "pending", "partial", "paid"}

InvoiceRow == [status : InvoiceStatus, due : Nat]
Absent == [status |-> "absent", due |-> 0]

EntryRow == [table : Tables \cup {"none"}, amount : Int,
             invoice : Invoices \cup {NoValue},
             gateway : GatewayIds \cup {NoValue},
             day : 0..MaxDay, voidedBy : Requests \cup {NoValue}]
NoEntry == [table |-> "none", amount |-> 0, invoice |-> NoValue,
            gateway |-> NoValue, day |-> 0, voidedBy |-> NoValue]

SummaryRow == [day : 0..MaxDay, counted : SUBSET Requests]

ASSUME RowAssumption == NoValue \notin EntryRow \cup InvoiceRow \cup SummaryRow

-----------------------------------------------------------------------------
(* Transactions *)

\* The statements still to run, the open transaction about to commit, and what
\* the caller was told in the end.
Statements == {"invoice", "existing", "balance", "insert", "row", "void",
               "recompute", "status", "fees", "other", "expense", "summary",
               "generate"}
Open == Statements \cup {"commit"}
Settled == {"committed", "ok", "lost"}
Steps == Open \cup Settled \cup {"idle", "failed"}

NoRows == [e \in Requests |-> NoValue]
NoInvoices == [i \in Invoices |-> NoValue]

Transaction ==
    [op : Operations \cup {"none"}, step : Steps,
     table : Tables \cup {"none"}, invoice : Invoices \cup {NoValue},
     amount : Int, gateway : GatewayIds \cup {NoValue},
     target : Requests \cup {NoValue}, todo : SUBSET Invoices,
     day : 0..MaxDay, due : Nat,
     seen : SUBSET Requests, counted : SUBSET Requests,
     rows : [Requests -> EntryRow \cup {NoValue}],
     invoices : [Invoices -> InvoiceRow \cup {NoValue}],
     summary : SummaryRow \cup {NoValue}, audited : BOOLEAN]

Idle == [op |-> "none", step |-> "idle", table |-> "none", invoice |-> NoValue,
         amount |-> 0, gateway |-> NoValue, target |-> NoValue, todo |-> {},
         day |-> 0, due |-> 0, seen |-> {}, counted |-> {}, rows |-> NoRows,
         invoices |-> NoInvoices, summary |-> NoValue, audited |-> FALSE]

\* Faults: a void leaves the invoice's status alone, or a void of a manual entry
\* does not refresh the summary.
NoRecomputeAfterVoid(table, step) ==
    IF table = "payment" /\ step = "insert" THEN "recompute" ELSE "fees"
NoRefreshAfterVoid(table, step) ==
    IF table = "payment" THEN "recompute"
    ELSE IF step = "void" THEN "commit" ELSE "fees"

\* What follows the INSERT or the void of a money row.
AfterWrite(table, step) == IF table = "payment" THEN "recompute" ELSE "fees"

\* The order in which a handler runs its statements.
After(table, step) ==
    CASE step = "invoice"   -> "existing"
      [] step = "existing"  -> "balance"
      [] step = "balance"   -> "insert"
      [] step = "row"       -> "void"
      [] step \in {"insert", "void"} -> AfterWrite(table, step)
      [] step = "recompute" -> "status"
      [] step = "status"    -> "fees"
      [] step = "fees"      -> "other"
      [] step = "other"     -> "expense"
      [] step = "expense"   -> "summary"
      [] OTHER              -> "commit"

\* The request finishes its current statement, its locals becoming t.
Proceed(r, t) ==
    tx' = [tx EXCEPT ![r] = [t EXCEPT !.step = After(t.table, t.step)]]

\* Fault: the error is answered but the transaction is left open, with its locks.
LeakOnError(r) ==
    /\ tx' = [tx EXCEPT ![r].step = "failed"]
    /\ UNCHANGED <<invoice, entry, summary, audit, today>>

\* The transaction is rolled back and the caller gets an error.
Rollback(r) ==
    /\ tx' = [tx EXCEPT ![r] = [Idle EXCEPT !.op = tx[r].op, !.step = "failed"]]
    /\ UNCHANGED <<invoice, entry, summary, audit, today>>

-----------------------------------------------------------------------------
(* What a statement sees, and what it waits for *)

\* Read-committed visibility: committed rows under the transaction's own writes.
View(r) == [e \in Requests |->
               IF tx[r].rows[e] # NoValue THEN tx[r].rows[e] ELSE entry[e]]

IsLive(row) == row.table # "none" /\ row.voidedBy = NoValue

LivePayments(table, i) ==
    {e \in Requests : /\ table[e].table = "payment"
                      /\ IsLive(table[e])
                      /\ table[e].invoice = i}

Total(table, S) == MapThenSumSet(LAMBDA e : table[e].amount, S)

\* Fault: a status the database's enum does not have.
ClassifyOverpaid(paid, due) ==
    IF paid > due THEN "overpaid" ELSE IF paid > 0 THEN "partial" ELSE "pending"

\* The status recomputeInvoiceStatus derives from a sum and an amount due.
Classify(paid, due) ==
    IF paid >= due THEN "paid" ELSE IF paid > 0 THEN "partial" ELSE "pending"

\* The open transactions whose row locks hold up the request's next statement.
Blockers(r) ==
    {q \in Requests \ {r} :
        \/ /\ tx[r].step = "insert" /\ tx[r].gateway # NoValue
           /\ \E e \in Requests : /\ tx[q].rows[e] # NoValue
                                  /\ tx[q].rows[e].gateway = tx[r].gateway
        \/ /\ tx[r].step = "void"
           /\ tx[q].rows[tx[r].target] # NoValue
        \/ /\ tx[r].step \in {"status", "generate"}
           /\ tx[q].invoices[tx[r].invoice] # NoValue
        \/ /\ tx[r].step = "summary"
           /\ tx[q].summary # NoValue}

AtStep(r, step) == tx[r].step = step /\ Blockers(r) = {}

-----------------------------------------------------------------------------
(* Requests arrive *)

CanBegin(r, op) ==
    /\ op \in Offered
    /\ tx[r].step = "idle"
    /\ Cardinality({q \in Requests : tx[q].step \in Open}) < PoolSize

\* startTransaction fixes NOW() and CURRENT_DATE for the whole transaction.
Start(r, t) ==
    /\ tx' = [tx EXCEPT ![r] = [t EXCEPT !.day = today]]
    /\ UNCHANGED <<invoice, entry, summary, audit, today>>

\* An amount of 0 is a request that names none.
BeginVerify(r) ==
    /\ CanBegin(r, "verify")
    /\ \E i \in Invoices, g \in GatewayIds, a \in Amounts \cup {0} :
          Start(r, [Idle EXCEPT !.op = "verify", !.step = "invoice",
                                !.table = "payment", !.invoice = i,
                                !.gateway = g, !.amount = a])

BeginCollect(r) ==
    /\ CanBegin(r, "collect")
    /\ \E i \in Invoices, a \in Amounts :
          Start(r, [Idle EXCEPT !.op = "collect", !.step = "insert",
                                !.table = "payment", !.invoice = i,
                                !.amount = a])

\* addIncome and addExpense refuse an amount that is not positive; the row's date is
\* left to default to CURRENT_DATE.
BeginManualEntry(r) ==
    \E kind \in {"income", "expense"}, a \in Amounts :
       /\ CanBegin(r, kind)
       /\ a > 0
       /\ Start(r, [Idle EXCEPT !.op = kind, !.step = "insert",
                                !.table = kind, !.amount = a])

BeginVoid(r) ==
    /\ CanBegin(r, "void")
    /\ \E kind \in Tables, e \in Requests \ {r} :
          Start(r, [Idle EXCEPT !.op = "void", !.step = "row",
                                !.table = kind, !.target = e])

\* The SELECT of the active students in scope has no ORDER BY.
BeginGenerate(r) ==
    /\ CanBegin(r, "generate")
    /\ \E scope \in SUBSET Invoices : \E i \in scope :
          Start(r, [Idle EXCEPT !.op = "generate", !.step = "generate",
                                !.invoice = i, !.todo = scope \ {i}])

-----------------------------------------------------------------------------
(* verifyPayment, up to its INSERT *)

ReadInvoice(r) ==
    /\ AtStep(r, "invoice")
    /\ LET row == invoice[tx[r].invoice] IN
          \/ row.status = "absent" /\ Rollback(r)
          \/ /\ row.status # "absent"
             /\ Proceed(r, [tx[r] EXCEPT !.due = row.due])
             /\ UNCHANGED <<invoice, entry, summary, audit, today>>

\* A payment id already recorded is answered with its receipt; otherwise the
\* gateway is asked, and may refuse.
CheckExisting(r) ==
    /\ AtStep(r, "existing")
    /\ LET recorded == \E e \in Requests : entry[e].gateway = tx[r].gateway IN
          \/ /\ recorded
             /\ tx' = [tx EXCEPT ![r].step = "commit"]
             /\ UNCHANGED <<invoice, entry, summary, audit, today>>
          \/ ~recorded /\ Rollback(r)
          \/ /\ ~recorded
             /\ Proceed(r, tx[r])
             /\ UNCHANGED <<invoice, entry, summary, audit, today>>

\* Fault: the amount the caller asks for is taken as it is.
UnclampedAmount(asked, balance) == IF asked = 0 THEN balance ELSE asked

\* The amount to record: what was asked for, clamped to the balance.
Clamped(asked, balance) == IF asked = 0 THEN balance ELSE Min({asked, balance})

\* Fault: a settled invoice is answered as a successful payment.
SucceedWhenSettled(r) ==
    /\ AtStep(r, "balance")
    /\ LET balance == tx[r].due - Total(entry, LivePayments(entry, tx[r].invoice))
           pay == Clamped(tx[r].amount, balance)
       IN  IF pay <= 0 THEN tx' = [tx EXCEPT ![r].step = "commit"]
           ELSE Proceed(r, [tx[r] EXCEPT !.amount = pay, !.due = 0])
    /\ UNCHANGED <<invoice, entry, summary, audit, today>>

ReadBalance(r) ==
    /\ AtStep(r, "balance")
    /\ LET balance == tx[r].due - Total(entry, LivePayments(entry, tx[r].invoice))
           pay == Clamped(tx[r].amount, balance)
       IN  \/ pay <= 0 /\ Rollback(r)
           \/ /\ pay \in Nat \ {0}
              /\ Proceed(r, [tx[r] EXCEPT !.amount = pay, !.due = 0])
              /\ UNCHANGED <<invoice, entry, summary, audit, today>>

-----------------------------------------------------------------------------
(* Writing a money row *)

\* The row a request inserts into its table.
NewEntry(t) == [table |-> t.table, amount |-> t.amount, invoice |-> t.invoice,
                gateway |-> t.gateway, day |-> t.day, voidedBy |-> NoValue]

\* Fault: no unique index on gateway_payment_id.
ForeignKeyOnly(t) == t.table = "payment" /\ invoice[t.invoice].status = "absent"

\* fee_payments references fee_invoices, and gateway_payment_id is unique.
ViolatesConstraint(t) ==
    \/ t.table = "payment" /\ invoice[t.invoice].status = "absent"
    \/ t.gateway # NoValue /\ \E e \in Requests : entry[e].gateway = t.gateway

InsertEntry(r) ==
    /\ AtStep(r, "insert")
    /\ \/ ViolatesConstraint(tx[r]) /\ Rollback(r)
       \/ /\ ~ViolatesConstraint(tx[r])
          /\ Proceed(r, [tx[r] EXCEPT !.rows[r] = NewEntry(tx[r])])
          /\ UNCHANGED <<invoice, entry, summary, audit, today>>

ReadEntry(r) ==
    /\ AtStep(r, "row")
    /\ LET row == entry[tx[r].target] IN
          \/ (row.table # tx[r].table \/ ~IsLive(row)) /\ Rollback(r)
          \/ /\ row.table = tx[r].table /\ IsLive(row)
             /\ Proceed(r, [tx[r] EXCEPT !.invoice = row.invoice])
             /\ UNCHANGED <<invoice, entry, summary, audit, today>>

\* Faults: a void deletes the row; it clears the amount; it takes the amount off
\* the summary at once, before the invoice is touched.
DeleteEntry(r) ==
    /\ AtStep(r, "void")
    /\ Proceed(r, [tx[r] EXCEPT !.rows[tx[r].target] = NoEntry])
    /\ UNCHANGED <<invoice, entry, summary, audit, today>>
ClearEntry(r) ==
    /\ AtStep(r, "void")
    /\ LET e == tx[r].target IN
          Proceed(r, [tx[r] EXCEPT
              !.rows[e] = [entry[e] EXCEPT !.voidedBy = r, !.amount = 0]])
    /\ UNCHANGED <<invoice, entry, summary, audit, today>>
SubtractAtOnce(r) ==
    /\ AtStep(r, "void")
    /\ LET e == tx[r].target IN
          Proceed(r, [tx[r] EXCEPT
              !.rows[e] = [entry[e] EXCEPT !.voidedBy = r],
              !.summary = [summary EXCEPT !.counted = @ \ {e}]])
    /\ UNCHANGED <<invoice, entry, summary, audit, today>>

\* UPDATE ... SET voided_at, void_reason WHERE id: whatever the row says by now.
VoidEntry(r) ==
    /\ AtStep(r, "void")
    /\ LET e == tx[r].target IN
          Proceed(r, [tx[r] EXCEPT !.rows[e] = [entry[e] EXCEPT !.voidedBy = r]])
    /\ UNCHANGED <<invoice, entry, summary, audit, today>>

-----------------------------------------------------------------------------
(* recomputeInvoiceStatus: one UPDATE.  Its sub-selects use the snapshot the
   statement started with; the invoice row is the newest version once locked. *)

RecomputeSum(r) ==
    /\ AtStep(r, "recompute")
    /\ Proceed(r, [tx[r] EXCEPT !.seen = LivePayments(View(r), tx[r].invoice)])
    /\ UNCHANGED <<invoice, entry, summary, audit, today>>

RecomputeStatus(r) ==
    /\ AtStep(r, "status")
    /\ LET i == tx[r].invoice
           status == Classify(Total(View(r), tx[r].seen), invoice[i].due)
       IN  Proceed(r, [tx[r] EXCEPT
               !.invoices[i] = [invoice[i] EXCEPT !.status = status],
               !.seen = {}])
    /\ UNCHANGED <<invoice, entry, summary, audit, today>>

-----------------------------------------------------------------------------
(* refresh_daily_revenue: a SELECT per table, then one upsert *)

TallyOf == [fees |-> "payment", other |-> "income", expense |-> "expense"]

Tally(r) ==
    \E step \in DOMAIN TallyOf :
       /\ AtStep(r, step)
       /\ LET todays == {e \in Requests : /\ View(r)[e].table = TallyOf[step]
                                          /\ IsLive(View(r)[e])
                                          /\ View(r)[e].day = tx[r].day}
          IN  Proceed(r, [tx[r] EXCEPT !.counted = @ \cup todays])
       /\ UNCHANGED <<invoice, entry, summary, audit, today>>

\* Fault: the upsert runs outside the transaction.
PublishAtOnce(r) ==
    /\ AtStep(r, "summary")
    /\ Proceed(r, [tx[r] EXCEPT !.counted = {}, !.audited = TRUE])
    /\ summary' = [day |-> tx[r].day, counted |-> tx[r].counted]
    /\ UNCHANGED <<invoice, entry, audit, today>>

\* The upsert, then the audit row (and the notifications of an online payment).
WriteSummary(r) ==
    /\ AtStep(r, "summary")
    /\ Proceed(r, [tx[r] EXCEPT
           !.summary = [day |-> tx[r].day, counted |-> tx[r].counted],
           !.counted = {}, !.audited = TRUE])
    /\ UNCHANGED <<invoice, entry, summary, audit, today>>

-----------------------------------------------------------------------------
(* generateInvoices: INSERT ... ON CONFLICT DO UPDATE ... WHERE status='pending',
   student by student.  The conflicting row is locked even when left alone. *)

\* Fault: the amount due is always overwritten.
UpsertedAlways(row, due) ==
    [status |-> IF row.status = "absent" THEN "pending" ELSE row.status, due |-> due]

Upserted(row, due) ==
    IF row.status \in {"absent", "pending"}
    THEN [status |-> "pending", due |-> due] ELSE row

GenerateInvoice(r) ==
    /\ AtStep(r, "generate")
    /\ \E due \in Dues :
          LET i == tx[r].invoice
              t == [tx[r] EXCEPT !.invoices[i] = Upserted(invoice[i], due)]
          IN  \/ \E next \in t.todo :
                    tx' = [tx EXCEPT ![r] = [t EXCEPT !.invoice = next,
                                                      !.todo = @ \ {next}]]
              \/ /\ t.todo = {}
                 /\ Proceed(r, [t EXCEPT !.audited = TRUE])
    /\ UNCHANGED <<invoice, entry, summary, audit, today>>

-----------------------------------------------------------------------------
(* The end of a request *)

\* commitTransaction: every write of the request appears at once.
Commit(r) ==
    /\ AtStep(r, "commit")
    /\ entry' = View(r)
    /\ invoice' = [i \in Invoices |-> IF tx[r].invoices[i] # NoValue
                                      THEN tx[r].invoices[i] ELSE invoice[i]]
    /\ summary' = IF tx[r].summary # NoValue THEN tx[r].summary ELSE summary
    /\ audit' = IF tx[r].audited THEN audit \cup {r} ELSE audit
    /\ tx' = [tx EXCEPT ![r] = [Idle EXCEPT !.op = tx[r].op,
                                            !.gateway = tx[r].gateway,
                                            !.step = "committed"]]
    /\ UNCHANGED today

Reply(r, told) ==
    /\ tx[r].step = "committed"
    /\ tx' = [tx EXCEPT ![r].step = told]
    /\ UNCHANGED <<invoice, entry, summary, audit, today>>

\* A failed statement, a lost connection or a crashed process at any point.
Fail(r) == tx[r].step \in Open /\ Rollback(r)

\* Requests that wait for each other: Postgres aborts one of them.
InDeadlock(r) ==
    /\ Blockers(r) # {}
    /\ \E S \in SUBSET Requests :
          /\ r \in S
          /\ \A q \in S : /\ Blockers(q) \cap S # {}
                          /\ \E p \in S : q \in Blockers(p)

BreakDeadlock(r) == InDeadlock(r) /\ Rollback(r)

NextDay ==
    /\ today < MaxDay
    /\ today' = today + 1
    /\ UNCHANGED <<invoice, entry, summary, audit, tx>>

-----------------------------------------------------------------------------

Init ==
    /\ invoice \in [Invoices ->
          {Absent} \cup [status : {"pending"}, due : Dues]]
    /\ entry = [e \in Requests |-> NoEntry]
    /\ summary = [day |-> 0, counted |-> {}]
    /\ audit = {}
    /\ today = 1
    /\ tx = [r \in Requests |-> Idle]

Begin(r) ==
    \/ BeginVerify(r) \/ BeginCollect(r) \/ BeginManualEntry(r)
    \/ BeginVoid(r) \/ BeginGenerate(r)

\* What the server does for a request it has taken on.
Serve(r) ==
    \/ ReadInvoice(r) \/ CheckExisting(r) \/ ReadBalance(r)
    \/ InsertEntry(r) \/ ReadEntry(r) \/ VoidEntry(r)
    \/ RecomputeSum(r) \/ RecomputeStatus(r)
    \/ Tally(r) \/ WriteSummary(r)
    \/ GenerateInvoice(r)
    \/ Commit(r) \/ Reply(r, "ok")
    \/ BreakDeadlock(r)

Next ==
    \/ \E r \in Requests : Begin(r) \/ Serve(r) \/ Fail(r) \/ Reply(r, "lost")
    \/ NextDay

\* Node and Postgres keep running a request that is not waiting for a lock.
Spec == Init /\ [][Next]_vars /\ \A r \in Requests : WF_vars(Serve(r))

-----------------------------------------------------------------------------
(* Properties *)

\* Every table, lock and local variable holds a value of its column or type.
TypeOK ==
    /\ invoice \in [Invoices -> InvoiceRow]
    /\ entry \in [Requests -> EntryRow]
    /\ summary \in SummaryRow
    /\ audit \subseteq Requests
    /\ today \in 1..MaxDay
    /\ tx \in [Requests -> Transaction]

\* verifyPayment is idempotent on gateway_payment_id: however many callers
\* submit one gateway payment, and in whatever order their statements run, at
\* most one fee_payments row carries it.
GatewayPaymentOnce ==
    \A d, e \in Requests :
       entry[d].gateway = entry[e].gateway /\ entry[d].gateway # NoValue => d = e

\* Whoever is told that verifyPayment succeeded can rely on a committed row for
\* that gateway payment, his own or the one that was already there.
AcknowledgedIsRecorded ==
    \A r \in Requests :
       tx[r].op = "verify" /\ tx[r].step \in Settled
          => \E e \in Requests : entry[e].gateway = tx[r].gateway

\* Money rows are append-only: a committed row is never removed or given other
\* figures, and a voided row never counts again (voidEntry, "both keep a full
\* audit trail").
LedgerAppendOnly ==
    [][\A e \in Requests : entry[e].table # "none" =>
          /\ entry'[e] = [entry[e] EXCEPT !.voidedBy = entry'[e].voidedBy]
          /\ entry[e].voidedBy # NoValue => entry'[e].voidedBy # NoValue]_vars

\* The daily revenue never includes money of a request that was rolled back.
SummaryCountsCommitted ==
    \A e \in summary.counted : entry[e].table # "none"

\* Every money row, and every void of one, has its audit row; no audit row
\* speaks of a change that was rolled back.
AuditComplete ==
    \A e \in Requests :
       /\ entry[e].table # "none" => e \in audit
       /\ entry[e].voidedBy # NoValue => entry[e].voidedBy \in audit
       /\ e \in audit => tx[e].step \in Settled

\* No payment, void or manual entry is ever sacrificed to a deadlock: only two
\* invoice generations can wait for each other.
OnlyGeneratorsDeadlock ==
    \A r \in Requests : InDeadlock(r) => tx[r].op = "generate"

\* No payment of the invoice has been voided, or entered with a negative amount.
OnlyPaidInto(table, i) ==
    \A e \in Requests : table[e].invoice = i =>
       table[e].voidedBy = NoValue /\ table[e].amount >= 0

\* Until one of its payments is voided, or a negative one collected, which
\* collectPayment does not refuse, an invoice shown as paid is covered by the
\* payments on record, and a partial one has some, whatever ran in parallel: its
\* status may be late, but never too good.
SettledIsBacked ==
    \A i \in Invoices :
       OnlyPaidInto(entry, i) =>
          LET paid == Total(entry, LivePayments(entry, i)) IN
             /\ invoice[i].status = "paid" => paid >= invoice[i].due
             /\ invoice[i].status = "partial" => paid > 0

\* The status of an invoice is what its payments on record make it.
StatusMatchesLedger ==
    \A i \in Invoices :
       invoice[i].status # "absent" =>
          invoice[i].status =
             Classify(Total(entry, LivePayments(entry, i)), invoice[i].due)

\* The summary row counts exactly the valid money rows of the day it is for.
SummaryMatchesLedger ==
    summary.day # 0 =>
       summary.counted =
          {e \in Requests : IsLive(entry[e]) /\ entry[e].day = summary.day}

\* An online payment is clamped to the balance: recording one never takes the
\* payments of its invoice above the amount due.
OnlinePaymentFitsBalance ==
    [][\A e \in Requests :
          entry[e].table = "none" /\ entry'[e].gateway # NoValue =>
             Total(entry', LivePayments(entry', entry'[e].invoice))
                <= invoice'[entry'[e].invoice].due]_vars

\* Every request that gets a connection ends: no wait for a lock is forever.
EveryRequestEnds ==
    \A r \in Requests :
       tx[r].step \in Open ~> tx[r].step \in {"ok", "lost", "failed"}

-----------------------------------------------------------------------------
(* The promise of online payments, and how this module keeps it *)

RecordedAs(g) ==
    IF \E e \in Requests : entry[e].gateway = g
    THEN CHOOSE e \in Requests : entry[e].gateway = g
    ELSE NoValue

Told == {g \in GatewayIds :
            \E r \in Requests : /\ tx[r].op = "verify" /\ tx[r].step = "ok"
                                /\ tx[r].gateway = g}

Promise == INSTANCE GatewayPayments
               WITH Entries <- Requests,
                    recorded <- [g \in GatewayIds |-> RecordedAs(g)],
                    told <- Told

\* Payments through the gateway are credited exactly as GatewayPayments says,
\* whatever retries, duplicates, races, rollbacks and lost replies there are.
CreditsOnce == Promise!Spec

=============================================================================
