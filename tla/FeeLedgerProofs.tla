--------------------------- MODULE FeeLedgerProofs ---------------------------
(****************************************************************************)
(* What holds of FeeLedger for any number of requests, invoices, gateway ids *)
(* and connections: its types first, then its promises about gateway         *)
(* payments, the append-only ledger, the revenue summary, the audit, the     *)
(* deadlocks, and the money: statuses, daily revenue and online payments.    *)
(* The proofs go through the inductive invariant IInv of FeeLedgerInv, to    *)
(* which AInv adds the audit rows, LInv the locks, BInv the sums behind a    *)
(* status, and StatusInv, SummaryInv and BalanceInv what the open            *)
(* transaction knows as long as it is the only one.                          *)
(****************************************************************************)
EXTENDS FeeLedgerInv, FiniteSetTheorems, TLAPS

-----------------------------------------------------------------------------
(* Well-formedness: types, and the locals every statement relies on          *)

LEMMA IdleType == Idle \in Transaction /\ Idle.rows = NoRows /\ Idle.counted = {}
              /\ \A e \in Requests : Idle.rows[e] = NoValue
BY NullAssumption, AmountsAssumption, SizesAssumption
   DEF Idle, Transaction, NoRows, NoInvoices, Steps, Open, Settled, Statements

LEMMA AfterType == \A table, step : After(table, step) \in Open
BY DEF After, AfterWrite, Open, Statements

\* The step function of a request that replaces its locals by t.
LEMMA LocalStep ==
    ASSUME WellFormed, NEW r \in Requests,
           NEW t \in Transaction, LocalsOK(t), tx' = [tx EXCEPT ![r] = t],
           UNCHANGED <<invoice, entry, summary, audit, today>>
    PROVE  WellFormed'
<1>1. TypeOK'
  BY DEF WellFormed, TypeOK
<1>2. \A q \in Requests : tx'[q] = IF q = r THEN t ELSE tx[q]
  BY DEF WellFormed, TypeOK
<1>3. \A q \in Requests : LocalsOK(tx'[q])
  BY <1>2 DEF WellFormed
<1>. QED  BY <1>1, <1>3 DEF WellFormed

LEMMA RollbackStep ==
    ASSUME WellFormed, NEW r \in Requests, Rollback(r)
    PROVE  WellFormed'
<1>. DEFINE t == [Idle EXCEPT !.op = tx[r].op, !.step = "failed"]
<1>1. tx[r].op \in Operations \cup {"none"}
  BY DEF WellFormed, TypeOK, Transaction
<1>2. t \in Transaction
  BY <1>1, IdleType DEF Transaction, Steps
<1>3. LocalsOK(t)
  BY IdleType DEF LocalsOK, Unwritten, Settled, Transaction
<1>. QED  BY <1>2, <1>3, LocalStep DEF Rollback

LEMMA StartStep ==
    ASSUME WellFormed, NEW r \in Requests,
           NEW t \in Transaction, LocalsOK(t), Start(r, t)
    PROVE  WellFormed'
<1>. DEFINE u == [t EXCEPT !.day = today]
<1>0. today \in 0..MaxDay
  BY SizesAssumption DEF WellFormed, TypeOK
<1>1. u \in Transaction
  BY <1>0 DEF Transaction
<1>2. LocalsOK(u)
  BY DEF LocalsOK, Transaction
<1>. QED  BY <1>1, <1>2, LocalStep DEF Start

\* A request that proceeds with locals t.
LEMMA ProceedStep ==
    ASSUME WellFormed, NEW r \in Requests, NEW t \in Transaction,
           Proceed(r, t), LocalsOK([t EXCEPT !.step = After(t.table, t.step)]),
           UNCHANGED <<invoice, entry, summary, audit, today>>
    PROVE  WellFormed'
<1>. DEFINE u == [t EXCEPT !.step = After(t.table, t.step)]
<1>1. u \in Transaction
  BY AfterType DEF Transaction, Steps
<1>. QED  BY <1>1, LocalStep DEF Proceed

LEMMA BeginStep ==
    ASSUME WellFormed, NEW r \in Requests, Begin(r)
    PROVE  WellFormed'
<1>1. CASE BeginVerify(r)
  <2>1. PICK i \in Invoices, g \in GatewayIds, a \in Amounts \cup {0} :
          Start(r, [Idle EXCEPT !.op = "verify", !.step = "invoice",
                                !.table = "payment", !.invoice = i,
                                !.gateway = g, !.amount = a])
    BY <1>1 DEF BeginVerify
  <2>. DEFINE t == [Idle EXCEPT !.op = "verify", !.step = "invoice",
                                !.table = "payment", !.invoice = i,
                                !.gateway = g, !.amount = a]
  <2>2. a \in Int
    BY AmountsAssumption
  <2>3. t \in Transaction
    BY <2>2, IdleType DEF Transaction, Operations, Tables, Steps, Open, Statements
  <2>4. LocalsOK(t)
    BY IdleType DEF LocalsOK, Unwritten, Settled, Transaction, Tables
  <2>. QED  BY <2>1, <2>3, <2>4, StartStep
<1>2. CASE BeginCollect(r)
  <2>1. PICK i \in Invoices, a \in Amounts :
          Start(r, [Idle EXCEPT !.op = "collect", !.step = "insert",
                                !.table = "payment", !.invoice = i,
                                !.amount = a])
    BY <1>2 DEF BeginCollect
  <2>. DEFINE t == [Idle EXCEPT !.op = "collect", !.step = "insert",
                                !.table = "payment", !.invoice = i,
                                !.amount = a]
  <2>2. a \in Int
    BY AmountsAssumption
  <2>3. t \in Transaction
    BY <2>2, IdleType DEF Transaction, Operations, Tables, Steps, Open, Statements
  <2>4. LocalsOK(t)
    BY IdleType DEF LocalsOK, Unwritten, Settled, Transaction, Tables
  <2>. QED  BY <2>1, <2>3, <2>4, StartStep
<1>3. CASE BeginManualEntry(r)
  <2>1. PICK kind \in {"income", "expense"}, a \in Amounts :
          Start(r, [Idle EXCEPT !.op = kind, !.step = "insert",
                                !.table = kind, !.amount = a])
    BY <1>3 DEF BeginManualEntry
  <2>. DEFINE t == [Idle EXCEPT !.op = kind, !.step = "insert",
                                !.table = kind, !.amount = a]
  <2>2. a \in Int
    BY AmountsAssumption
  <2>3. t \in Transaction
    BY <2>2, IdleType DEF Transaction, Operations, Tables, Steps, Open, Statements
  <2>4. LocalsOK(t)
    BY IdleType DEF LocalsOK, Unwritten, Settled, Transaction, Tables
  <2>. QED  BY <2>1, <2>3, <2>4, StartStep
<1>4. CASE BeginVoid(r)
  <2>1. PICK kind \in Tables, e \in Requests \ {r} :
          Start(r, [Idle EXCEPT !.op = "void", !.step = "row",
                                !.table = kind, !.target = e])
    BY <1>4 DEF BeginVoid
  <2>. DEFINE t == [Idle EXCEPT !.op = "void", !.step = "row",
                                !.table = kind, !.target = e]
  <2>2. t \in Transaction
    <3>1. e \in Requests /\ kind \in Tables \cup {"none"}
      OBVIOUS
    <3>. QED  BY <3>1, IdleType DEF Transaction, Operations, Steps, Open, Statements
  <2>3. LocalsOK(t)
    BY IdleType DEF LocalsOK, Unwritten, Settled, Transaction, Tables
  <2>. QED  BY <2>1, <2>2, <2>3, StartStep
<1>5. CASE BeginGenerate(r)
  <2>1. PICK scope \in SUBSET Invoices : \E i \in scope :
          Start(r, [Idle EXCEPT !.op = "generate", !.step = "generate",
                                !.invoice = i, !.todo = scope \ {i}])
    BY <1>5 DEF BeginGenerate
  <2>2. PICK i \in scope :
          Start(r, [Idle EXCEPT !.op = "generate", !.step = "generate",
                                !.invoice = i, !.todo = scope \ {i}])
    BY <2>1
  <2>. DEFINE t == [Idle EXCEPT !.op = "generate", !.step = "generate",
                                !.invoice = i, !.todo = scope \ {i}]
  <2>3. t \in Transaction
    BY IdleType DEF Transaction, Operations, Tables, Steps, Open, Statements
  <2>4. LocalsOK(t)
    BY IdleType DEF LocalsOK, Unwritten, Settled, Transaction, Tables
  <2>. QED  BY <2>2, <2>3, <2>4, StartStep
<1>. QED  BY <1>1, <1>2, <1>3, <1>4, <1>5 DEF Begin


\* The SELECTs of verifyPayment and voidEntry.
LEMMA ReadStep ==
    ASSUME WellFormed, NEW r \in Requests,
           ReadInvoice(r) \/ CheckExisting(r) \/ ReadBalance(r) \/ ReadEntry(r)
    PROVE  WellFormed'
<1>. DEFINE s == tx[r]
<1>1. s \in Transaction /\ LocalsOK(s)
  BY DEF WellFormed, TypeOK
<1>2. CASE Rollback(r)
  BY <1>2, RollbackStep
<1>3. CASE ReadInvoice(r) /\ ~Rollback(r)
  <2>. DEFINE t == [s EXCEPT !.due = invoice[s.invoice].due]
  <2>1. s.step = "invoice" /\ Proceed(r, t)
        /\ UNCHANGED <<invoice, entry, summary, audit, today>>
    BY <1>3 DEF ReadInvoice, AtStep
  <2>2. s.invoice \in Invoices
    BY <1>1, <2>1 DEF LocalsOK
  <2>3. invoice[s.invoice].due \in Nat
    BY <2>2 DEF WellFormed, TypeOK, InvoiceRow
  <2>4. t \in Transaction
    BY <1>1, <2>3 DEF Transaction
  <2>5. LocalsOK([t EXCEPT !.step = After(t.table, t.step)])
    BY <1>1, <2>1, <2>2 DEF LocalsOK, After, AfterWrite, Unwritten, Settled, Transaction
  <2>. QED  BY <2>1, <2>4, <2>5, ProceedStep
<1>4. CASE CheckExisting(r) /\ ~Rollback(r)
  <2>1. s.step = "existing" /\ UNCHANGED <<invoice, entry, summary, audit, today>>
    BY <1>4 DEF CheckExisting, AtStep
  <2>2. CASE tx' = [tx EXCEPT ![r].step = "commit"]
    <3>. DEFINE t == [s EXCEPT !.step = "commit"]
    <3>1. t \in Transaction
      BY <1>1 DEF Transaction, Steps, Open
    <3>2. LocalsOK(t)
      BY <1>1, <2>1 DEF LocalsOK, Unwritten, Settled, Transaction
    <3>3. tx' = [tx EXCEPT ![r] = t]
      BY <2>2
    <3>. QED  BY <2>1, <3>1, <3>2, <3>3, LocalStep
  <2>3. CASE Proceed(r, s)
    <3>1. LocalsOK([s EXCEPT !.step = After(s.table, s.step)])
      BY <1>1, <2>1 DEF LocalsOK, After, AfterWrite, Unwritten, Settled, Transaction
    <3>. QED  BY <1>1, <2>1, <2>3, <3>1, ProceedStep
  <2>. QED  BY <1>4, <2>2, <2>3 DEF CheckExisting
<1>5. CASE ReadBalance(r) /\ ~Rollback(r)
  <2>1. PICK a \in Nat \ {0} :
          Proceed(r, [s EXCEPT !.amount = a, !.due = 0])
    BY <1>5 DEF ReadBalance
  <2>2. s.step = "balance" /\ UNCHANGED <<invoice, entry, summary, audit, today>>
    BY <1>5 DEF ReadBalance, AtStep
  <2>. DEFINE t == [s EXCEPT !.amount = a, !.due = 0]
  <2>3. a \in Int /\ 0 \in Nat
    OBVIOUS
  <2>4. t \in Transaction
    BY <1>1, <2>3 DEF Transaction
  <2>5. LocalsOK([t EXCEPT !.step = After(t.table, t.step)])
    BY <1>1, <2>2 DEF LocalsOK, After, AfterWrite, Unwritten, Settled, Transaction, Tables
  <2>. QED  BY <2>1, <2>2, <2>4, <2>5, ProceedStep
<1>6. CASE ReadEntry(r) /\ ~Rollback(r)
  <2>. DEFINE row == entry[s.target]
              t == [s EXCEPT !.invoice = row.invoice]
  <2>1. /\ s.step = "row" /\ row.table = s.table /\ Proceed(r, t)
        /\ UNCHANGED <<invoice, entry, summary, audit, today>>
    BY <1>6 DEF ReadEntry, AtStep
  <2>2. s.target \in Requests
    BY <1>1, <2>1 DEF LocalsOK
  <2>3. row \in EntryRow /\ NamesInvoice(row)
    BY <2>2 DEF WellFormed, TypeOK
  <2>4. t \in Transaction
    BY <1>1, <2>3 DEF Transaction, EntryRow
  <2>5. LocalsOK([t EXCEPT !.step = After(t.table, t.step)])
    BY <1>1, <2>1, <2>2, <2>3
       DEF LocalsOK, After, AfterWrite, Unwritten, Settled, Transaction, NamesInvoice
  <2>. QED  BY <2>1, <2>4, <2>5, ProceedStep
<1>. QED  BY <1>2, <1>3, <1>4, <1>5, <1>6

\* The INSERT of a money row and the UPDATE that voids one.
LEMMA WriteStep ==
    ASSUME WellFormed, NEW r \in Requests, InsertEntry(r) \/ VoidEntry(r)
    PROVE  WellFormed'
<1>. DEFINE s == tx[r]
<1>1. s \in Transaction /\ LocalsOK(s)
  BY DEF WellFormed, TypeOK
<1>2. CASE Rollback(r)
  BY <1>2, RollbackStep
<1>3. CASE InsertEntry(r) /\ ~Rollback(r)
  <2>. DEFINE t == [s EXCEPT !.rows[r] = NewEntry(s)]
  <2>1. /\ s.step = "insert" /\ Proceed(r, t)
        /\ UNCHANGED <<invoice, entry, summary, audit, today>>
    BY <1>3 DEF InsertEntry, AtStep
  <2>2. NewEntry(s) \in EntryRow /\ NamesInvoice(NewEntry(s))
    BY <1>1, <2>1 DEF NewEntry, NamesInvoice, EntryRow, Transaction, LocalsOK
  <2>3. [s.rows EXCEPT ![r] = NewEntry(s)] \in [Requests -> EntryRow \cup {NoValue}]
    BY <1>1, <2>2 DEF Transaction
  <2>4. t \in Transaction
    BY <1>1, <2>3 DEF Transaction
  <2>5. \A e \in Requests : t.rows[e] # NoValue => NamesInvoice(t.rows[e])
    BY <1>1, <2>2 DEF LocalsOK, Transaction
  <2>6. LocalsOK([t EXCEPT !.step = After(t.table, t.step)])
    BY <1>1, <2>1, <2>5 DEF LocalsOK, After, AfterWrite, Unwritten, Settled, Transaction
  <2>. QED  BY <2>1, <2>4, <2>6, ProceedStep
<1>4. CASE VoidEntry(r)
  <2>. DEFINE e == s.target
              row == [entry[e] EXCEPT !.voidedBy = r]
              t == [s EXCEPT !.rows[e] = row]
  <2>1. /\ s.step = "void" /\ Proceed(r, t)
        /\ UNCHANGED <<invoice, entry, summary, audit, today>>
    BY <1>4 DEF VoidEntry, AtStep
  <2>2. e \in Requests
    BY <1>1, <2>1 DEF LocalsOK
  <2>3. row \in EntryRow /\ NamesInvoice(row)
    BY <2>2 DEF WellFormed, TypeOK, EntryRow, NamesInvoice
  <2>4. [s.rows EXCEPT ![e] = row] \in [Requests -> EntryRow \cup {NoValue}]
    BY <1>1, <2>3 DEF Transaction
  <2>5. t \in Transaction
    BY <1>1, <2>4 DEF Transaction
  <2>6. \A d \in Requests : t.rows[d] # NoValue => NamesInvoice(t.rows[d])
    BY <1>1, <2>2, <2>3 DEF LocalsOK, Transaction
  <2>7. LocalsOK([t EXCEPT !.step = After(t.table, t.step)])
    BY <1>1, <2>1, <2>6 DEF LocalsOK, After, AfterWrite, Unwritten, Settled, Transaction
  <2>. QED  BY <2>1, <2>5, <2>7, ProceedStep
<1>. QED  BY <1>2, <1>3, <1>4

LEMMA ClassifyType == \A paid, due : Classify(paid, due) \in InvoiceStatus
BY DEF Classify, InvoiceStatus

\* Recomputing an invoice's status and upserting an invoice.
LEMMA InvoiceStep ==
    ASSUME WellFormed, NEW r \in Requests,
           RecomputeSum(r) \/ RecomputeStatus(r) \/ GenerateInvoice(r)
    PROVE  WellFormed'
<1>. DEFINE s == tx[r]
            i == s.invoice
<1>1. s \in Transaction /\ LocalsOK(s)
  BY DEF WellFormed, TypeOK
<1>2. CASE RecomputeSum(r)
  <2>. DEFINE t == [s EXCEPT !.seen = LivePayments(View(r), i)]
  <2>1. /\ s.step = "recompute" /\ Proceed(r, t)
        /\ UNCHANGED <<invoice, entry, summary, audit, today>>
    BY <1>2 DEF RecomputeSum, AtStep
  <2>2. LivePayments(View(r), i) \subseteq Requests
    BY DEF LivePayments
  <2>3. t \in Transaction
    BY <1>1, <2>2 DEF Transaction
  <2>4. LocalsOK([t EXCEPT !.step = After(t.table, t.step)])
    BY <1>1, <2>1 DEF LocalsOK, After, AfterWrite, Unwritten, Settled, Transaction
  <2>. QED  BY <2>1, <2>3, <2>4, ProceedStep
<1>3. CASE RecomputeStatus(r)
  <2>. DEFINE status == Classify(Total(View(r), s.seen), invoice[i].due)
              row == [invoice[i] EXCEPT !.status = status]
              t == [s EXCEPT !.invoices[i] = row, !.seen = {}]
  <2>1. /\ s.step = "status" /\ Proceed(r, t)
        /\ UNCHANGED <<invoice, entry, summary, audit, today>>
    BY <1>3 DEF RecomputeStatus, AtStep
  <2>2. i \in Invoices
    BY <1>1, <2>1 DEF LocalsOK
  <2>3. row \in InvoiceRow
    <3>1. status \in InvoiceStatus
      BY ClassifyType
    <3>. QED  BY <2>2, <3>1 DEF WellFormed, TypeOK, InvoiceRow
  <2>4. [s.invoices EXCEPT ![i] = row] \in [Invoices -> InvoiceRow \cup {NoValue}]
    BY <1>1, <2>3 DEF Transaction
  <2>5. t \in Transaction
    BY <1>1, <2>4 DEF Transaction
  <2>6. LocalsOK([t EXCEPT !.step = After(t.table, t.step)])
    BY <1>1, <2>1 DEF LocalsOK, After, AfterWrite, Unwritten, Settled, Transaction
  <2>. QED  BY <2>1, <2>5, <2>6, ProceedStep
<1>4. CASE GenerateInvoice(r)
  <2>1. /\ s.step = "generate"
        /\ UNCHANGED <<invoice, entry, summary, audit, today>>
    BY <1>4 DEF GenerateInvoice, AtStep
  <2>2. i \in Invoices
    BY <1>1, <2>1 DEF LocalsOK
  <2>3. PICK due \in Dues :
          LET t == [s EXCEPT !.invoices[i] = Upserted(invoice[i], due)]
          IN  \/ \E next \in t.todo :
                    tx' = [tx EXCEPT ![r] = [t EXCEPT !.invoice = next,
                                                      !.todo = @ \ {next}]]
              \/ /\ t.todo = {}
                 /\ Proceed(r, [t EXCEPT !.audited = TRUE])
    BY <1>4 DEF GenerateInvoice
  <2>. DEFINE t == [s EXCEPT !.invoices[i] = Upserted(invoice[i], due)]
  <2>4. Upserted(invoice[i], due) \in InvoiceRow
    BY <2>2, AmountsAssumption
       DEF Upserted, InvoiceRow, InvoiceStatus, WellFormed, TypeOK
  <2>5. [s.invoices EXCEPT ![i] = Upserted(invoice[i], due)]
           \in [Invoices -> InvoiceRow \cup {NoValue}]
    BY <1>1, <2>4 DEF Transaction
  <2>6. t \in Transaction
    BY <1>1, <2>5 DEF Transaction
  <2>7. ASSUME NEW next \in t.todo,
               tx' = [tx EXCEPT ![r] = [t EXCEPT !.invoice = next,
                                                 !.todo = @ \ {next}]]
        PROVE  WellFormed'
    <3>. DEFINE u == [t EXCEPT !.invoice = next, !.todo = @ \ {next}]
    <3>1. next \in Invoices
      BY <2>6, <2>7 DEF Transaction
    <3>2. u \in Transaction
      BY <2>6, <3>1 DEF Transaction
    <3>3. LocalsOK(u)
      BY <1>1, <2>1, <3>1 DEF LocalsOK, Unwritten, Settled, Transaction
    <3>. QED  BY <2>1, <2>7, <3>2, <3>3, LocalStep
  <2>8. CASE Proceed(r, [t EXCEPT !.audited = TRUE])
    <3>. DEFINE u == [t EXCEPT !.audited = TRUE]
    <3>1. u \in Transaction
      BY <2>6 DEF Transaction
    <3>2. LocalsOK([u EXCEPT !.step = After(u.table, u.step)])
      BY <1>1, <2>1 DEF LocalsOK, After, AfterWrite, Unwritten, Settled, Transaction
    <3>. QED  BY <2>1, <2>8, <3>1, <3>2, ProceedStep
  <2>. QED  BY <2>3, <2>7, <2>8
<1>. QED  BY <1>2, <1>3, <1>4

\* refresh_daily_revenue.
LEMMA RevenueStep ==
    ASSUME WellFormed, NEW r \in Requests, Tally(r) \/ WriteSummary(r)
    PROVE  WellFormed'
<1>. DEFINE s == tx[r]
<1>1. s \in Transaction /\ LocalsOK(s)
  BY DEF WellFormed, TypeOK
<1>2. CASE Tally(r)
  <2>1. PICK step \in DOMAIN TallyOf :
          /\ AtStep(r, step)
          /\ LET todays == {e \in Requests : /\ View(r)[e].table = TallyOf[step]
                                             /\ IsLive(View(r)[e])
                                             /\ View(r)[e].day = tx[r].day}
             IN  Proceed(r, [tx[r] EXCEPT !.counted = @ \cup todays])
          /\ UNCHANGED <<invoice, entry, summary, audit, today>>
    BY <1>2 DEF Tally
  <2>2. PICK todays \in SUBSET Requests :
          Proceed(r, [s EXCEPT !.counted = @ \cup todays])
    BY <2>1
  <2>. DEFINE t == [s EXCEPT !.counted = @ \cup todays]
  <2>3. step \in {"fees", "other", "expense"} /\ s.step = step
    BY <2>1 DEF TallyOf, AtStep
  <2>4. t \in Transaction
    BY <1>1 DEF Transaction
  <2>5. LocalsOK([t EXCEPT !.step = After(t.table, t.step)])
    BY <1>1, <2>3 DEF LocalsOK, After, AfterWrite, Unwritten, Settled, Transaction
  <2>. QED  BY <2>1, <2>2, <2>4, <2>5, ProceedStep
<1>3. CASE WriteSummary(r)
  <2>. DEFINE row == [day |-> s.day, counted |-> s.counted]
              t == [s EXCEPT !.summary = row, !.counted = {}, !.audited = TRUE]
  <2>1. /\ s.step = "summary" /\ Proceed(r, t)
        /\ UNCHANGED <<invoice, entry, summary, audit, today>>
    BY <1>3 DEF WriteSummary, AtStep
  <2>2. row \in SummaryRow
    BY <1>1 DEF Transaction, SummaryRow
  <2>3. t \in Transaction
    BY <1>1, <2>2 DEF Transaction
  <2>4. LocalsOK([t EXCEPT !.step = After(t.table, t.step)])
    BY <1>1, <2>1 DEF LocalsOK, After, AfterWrite, Unwritten, Settled, Transaction
  <2>. QED  BY <2>1, <2>3, <2>4, ProceedStep
<1>. QED  BY <1>2, <1>3


LEMMA CommitStep ==
    ASSUME WellFormed, NEW r \in Requests, Commit(r)
    PROVE  WellFormed'
<1>. DEFINE s == tx[r]
            t == [Idle EXCEPT !.op = s.op, !.gateway = s.gateway,
                              !.step = "committed"]
<1>1. s \in Transaction /\ LocalsOK(s) /\ s.step = "commit"
  BY DEF WellFormed, TypeOK, Commit, AtStep
<1>a. s.op \in Operations \cup {"none"} /\ s.gateway \in GatewayIds \cup {NoValue}
  BY <1>1 DEF Transaction
<1>2. t \in Transaction
  BY <1>a, IdleType DEF Transaction, Steps, Settled
<1>3. LocalsOK(t)
  BY <1>1, IdleType DEF LocalsOK, Unwritten, Settled, Transaction
<1>4. tx' = [tx EXCEPT ![r] = t] /\ UNCHANGED today
  BY DEF Commit
<1>5. /\ tx' \in [Requests -> Transaction]
      /\ \A q \in Requests : LocalsOK(tx'[q])
  BY <1>2, <1>3, <1>4 DEF WellFormed, TypeOK
<1>6. entry' \in [Requests -> EntryRow]
  BY <1>1 DEF Commit, View, WellFormed, TypeOK, Transaction
<1>7. \A e \in Requests : NamesInvoice(entry'[e])
  BY <1>1 DEF Commit, View, WellFormed, LocalsOK
<1>8. invoice' \in [Invoices -> InvoiceRow]
  BY <1>1 DEF Commit, WellFormed, TypeOK, Transaction
<1>9. summary' \in SummaryRow /\ audit' \subseteq Requests
  BY <1>1 DEF Commit, WellFormed, TypeOK, Transaction
<1>. QED
  BY <1>4, <1>5, <1>6, <1>7, <1>8, <1>9 DEF WellFormed, TypeOK

LEMMA ReplyStep ==
    ASSUME WellFormed, NEW r \in Requests, NEW told \in {"ok", "lost"},
           Reply(r, told)
    PROVE  WellFormed'
<1>. DEFINE t == [tx[r] EXCEPT !.step = told]
<1>1. tx[r] \in Transaction /\ LocalsOK(tx[r]) /\ tx[r].step = "committed"
  BY DEF WellFormed, TypeOK, Reply
<1>2. t \in Transaction
  BY <1>1 DEF Transaction, Steps, Settled
<1>3. LocalsOK(t)
  BY <1>1 DEF LocalsOK, Unwritten, Settled, Transaction
<1>. QED  BY <1>2, <1>3, LocalStep DEF Reply

LEMMA NextDayStep ==
    ASSUME WellFormed, NextDay
    PROVE  WellFormed'
BY SizesAssumption DEF WellFormed, TypeOK, NextDay

\* Every step of the specification, sorted by what it does to the money rows.
Quiet(r) ==
    \/ ReadInvoice(r) \/ CheckExisting(r) \/ ReadBalance(r) \/ ReadEntry(r)
    \/ RecomputeSum(r) \/ RecomputeStatus(r) \/ GenerateInvoice(r)

LEMMA NextCases ==
    ASSUME [Next]_vars
    PROVE  \/ UNCHANGED vars \/ NextDay
           \/ \E r \in Requests :
                 \/ Begin(r) \/ Quiet(r)
                 \/ tx[r].step \in Open /\ Rollback(r)
                 \/ InsertEntry(r) \/ VoidEntry(r) \/ Tally(r) \/ WriteSummary(r)
                 \/ Commit(r) \/ Reply(r, "ok") \/ Reply(r, "lost")
<1>1. \A r \in Requests : InDeadlock(r) => tx[r].step \in Open
  <2>1. \A r \in Requests : Blockers(r) # {} => tx[r].step \in Open
    BY DEF Blockers, Open, Statements
  <2>. QED  BY <2>1 DEF InDeadlock
<1>. QED  BY <1>1 DEF Next, Serve, Fail, BreakDeadlock, Quiet

LEMMA WellFormedStep == WellFormed /\ [Next]_vars => WellFormed'
<1>. SUFFICES ASSUME WellFormed, [Next]_vars
              PROVE  WellFormed'
  OBVIOUS
<1>1. CASE UNCHANGED vars
  BY <1>1 DEF vars, WellFormed, TypeOK
<1>2. CASE NextDay
  BY <1>2, NextDayStep
<1>3. ASSUME NEW r \in Requests,
             \/ Begin(r) \/ Quiet(r)
             \/ tx[r].step \in Open /\ Rollback(r)
             \/ InsertEntry(r) \/ VoidEntry(r) \/ Tally(r) \/ WriteSummary(r)
             \/ Commit(r) \/ Reply(r, "ok") \/ Reply(r, "lost")
      PROVE  WellFormed'
  BY <1>3, BeginStep, RollbackStep, ReadStep, InvoiceStep, WriteStep,
     RevenueStep, CommitStep, ReplyStep DEF Quiet
<1>. QED  BY <1>1, <1>2, <1>3, NextCases

LEMMA WellFormedInit == Init => WellFormed
<1>. SUFFICES ASSUME Init
              PROVE  WellFormed
  OBVIOUS
<1>1. invoice \in [Invoices -> InvoiceRow]
  <2>1. Absent \in InvoiceRow
    BY AmountsAssumption DEF Absent, InvoiceRow, InvoiceStatus
  <2>2. [status : {"pending"}, due : Dues] \subseteq InvoiceRow
    BY AmountsAssumption DEF InvoiceRow, InvoiceStatus
  <2>. QED  BY <2>1, <2>2 DEF Init
<1>2. NoEntry \in EntryRow
  BY SizesAssumption, AmountsAssumption DEF NoEntry, EntryRow
<1>3. summary \in SummaryRow /\ today \in 1..MaxDay
  BY SizesAssumption DEF Init, SummaryRow
<1>4. LocalsOK(Idle)
  BY IdleType DEF LocalsOK, Unwritten, Settled, Idle
<1>5. NamesInvoice(NoEntry)
  BY DEF NamesInvoice, NoEntry
<1>. QED
  BY <1>1, <1>2, <1>3, <1>4, <1>5, IdleType DEF Init, WellFormed, TypeOK

\* Type correctness, for any constants.
THEOREM TypeCorrect == Spec => []TypeOK
<1>1. Spec => []WellFormed
  BY WellFormedInit, WellFormedStep, PTL DEF Spec
<1>2. WellFormed => TypeOK
  BY DEF WellFormed
<1>. QED  BY <1>1, <1>2, PTL

-----------------------------------------------------------------------------
(* What IInv asks of one transaction *)

\* What IInv asks of the transaction t of request r while the committed rows
\* stay as they are and r has written the money rows t.rows.
Coherent(r, t) ==
    /\ t.step = "void" => entry[t.target].table = t.table
    /\ entry[r].table # "none" => t.step \in Settled
    /\ t.op = "verify" =>
          LET written == t.rows[r] # NoValue /\ t.rows[r].gateway = t.gateway
              committed == \E e \in Requests : entry[e].gateway = t.gateway
          IN  /\ t.step \in {"recompute", "status", "fees", "other", "expense",
                             "summary"} => written
              /\ t.step = "commit" => written \/ committed
              /\ t.step \in Settled => committed
    /\ \A e \in Requests :
          e \in t.counted \/ (t.summary # NoValue /\ e \in t.summary.counted)
             => entry[e].table # "none" \/ t.rows[e] # NoValue

\* A step that changes only the locals of r, not its writes to money rows.
LEMMA KeepRows ==
    ASSUME IInv, NEW r \in Requests, NEW t \in Transaction, WellFormed',
           tx' = [tx EXCEPT ![r] = t], UNCHANGED <<entry, summary>>,
           t.rows = tx[r].rows \/ t.rows = NoRows,
           Coherent(r, t)
    PROVE  IInv'
<1>1. \A q \in Requests : tx'[q] = IF q = r THEN t ELSE tx[q]
  BY DEF IInv, WellFormed, TypeOK
<1>2. \A q, e \in Requests : tx'[q].rows[e] # NoValue
                                => tx'[q].rows[e] = tx[q].rows[e]
  BY <1>1 DEF NoRows
<1>3. RowsFaithful'
  BY <1>2 DEF IInv, RowsFaithful, SameMoney
<1>4. TargetsExist'
  BY <1>1 DEF IInv, TargetsExist, Coherent
<1>5. GatewayUnique'
  <2>1. \A e \in Requests, g \in GatewayIds : Carries(e, g)' => Carries(e, g)
    BY <1>2 DEF Carries
  <2>. QED  BY <2>1 DEF IInv, GatewayUnique
<1>6. VerifyProgress'
  BY <1>1 DEF IInv, VerifyProgress, Coherent
<1>7. CountsVisible'
  <2>1. \A e \in summary'.counted : entry'[e].table # "none"
    BY DEF IInv, CountsVisible
  <2>2. ASSUME NEW q \in Requests, q # r
        PROVE  /\ tx'[q] = tx[q] /\ View(q)' = View(q)
    BY <1>1, <2>2 DEF View
  <2>3. \A e \in Requests : View(r)'[e] =
           IF t.rows[e] # NoValue THEN t.rows[e] ELSE entry[e]
    BY <1>1 DEF View
  <2>4. \A e \in Requests : t.rows[e] # NoValue => t.rows[e].table # "none"
    BY <1>1, <1>3 DEF RowsFaithful
  <2>5. t.counted \subseteq Requests
        /\ (t.summary # NoValue => t.summary.counted \subseteq Requests)
    BY DEF Transaction, SummaryRow
  <2>6. \A e \in t.counted : View(r)'[e].table # "none"
    BY <2>3, <2>4, <2>5 DEF Coherent
  <2>7. t.summary # NoValue =>
           \A e \in t.summary.counted : View(r)'[e].table # "none"
    BY <2>3, <2>4, <2>5 DEF Coherent
  <2>. QED  BY <1>1, <2>1, <2>2, <2>6, <2>7 DEF IInv, CountsVisible
<1>. QED  BY <1>3, <1>4, <1>5, <1>6, <1>7 DEF IInv

\* What the invariant says of a request that is still being served.
LEMMA Served ==
    ASSUME IInv, NEW r \in Requests
    PROVE  /\ tx[r] \in Transaction /\ LocalsOK(tx[r]) /\ Coherent(r, tx[r])
           /\ tx[r].step \notin Settled => entry[r].table = "none"
<1>1. tx[r] \in Transaction /\ LocalsOK(tx[r])
  BY DEF IInv, WellFormed, TypeOK
<1>2. ASSUME NEW e \in Requests, View(r)[e].table # "none"
      PROVE  entry[e].table # "none" \/ tx[r].rows[e] # NoValue
  BY <1>2 DEF View
<1>3. /\ tx[r].counted \subseteq Requests
      /\ tx[r].summary # NoValue => tx[r].summary.counted \subseteq Requests
  BY <1>1 DEF Transaction, SummaryRow
<1>4. \A e \in Requests :
         e \in tx[r].counted
           \/ (tx[r].summary # NoValue /\ e \in tx[r].summary.counted)
           => entry[e].table # "none" \/ tx[r].rows[e] # NoValue
  BY <1>2, <1>3 DEF IInv, CountsVisible
<1>5. /\ tx[r].step = "void" => entry[tx[r].target].table = tx[r].table
      /\ entry[r].table # "none" => tx[r].step \in Settled
  BY DEF IInv, TargetsExist
<1>. QED  BY <1>1, <1>4, <1>5 DEF Coherent, IInv, VerifyProgress

LEMMA RollbackKeeps ==
    ASSUME IInv, WellFormed', NEW r \in Requests, tx[r].step \in Open, Rollback(r)
    PROVE  IInv'
<1>. DEFINE t == [Idle EXCEPT !.op = tx[r].op, !.step = "failed"]
<1>1. tx[r].op \in Operations \cup {"none"}
  BY Served DEF Transaction
<1>2. t \in Transaction
  BY <1>1, IdleType DEF Transaction, Steps
<1>3. t.rows = NoRows /\ t.step = "failed" /\ t.counted = {} /\ t.summary = NoValue
  BY DEF Idle
<1>4. entry[r].table = "none"
  BY Served DEF Open, Statements, Settled
<1>5. Coherent(r, t)
  BY <1>3, <1>4 DEF Coherent, Settled
<1>6. tx' = [tx EXCEPT ![r] = t] /\ UNCHANGED <<entry, summary>>
  BY DEF Rollback
<1>. HIDE DEF t
<1>. QED  BY <1>2, <1>3, <1>5, <1>6, KeepRows

\* The locals a request starts with.
Fresh(t) ==
    /\ t \in Transaction
    /\ t.rows = NoRows /\ t.counted = {} /\ t.summary = NoValue
    /\ t.invoices = NoInvoices
    /\ t.step \in {"invoice", "insert", "row", "generate"}
    /\ t.step = "generate" => t.op = "generate"
    /\ t.step = "insert" => t.gateway = NoValue

\* A request that is taken on.
LEMMA StartKeeps ==
    ASSUME IInv, WellFormed', NEW r \in Requests, tx[r].step = "idle",
           NEW t, Start(r, t), Fresh(t)
    PROVE  IInv'
<1>. USE DEF Fresh
<1>. DEFINE u == [t EXCEPT !.day = today]
<1>1. tx' = [tx EXCEPT ![r] = u] /\ UNCHANGED <<entry, summary>>
  BY DEF Start
<1>2. today \in 0..MaxDay
  BY SizesAssumption DEF IInv, WellFormed, TypeOK
<1>3. u \in Transaction
  BY <1>2 DEF Transaction
<1>4. u.rows = NoRows /\ u.step = t.step /\ u.counted = {} /\ u.summary = NoValue
  BY DEF Transaction
<1>5. entry[r].table = "none"
  BY Served DEF Settled
<1>6. Coherent(r, u)
  BY <1>4, <1>5 DEF Coherent, Settled
<1>. QED  BY <1>1, <1>3, <1>4, <1>6, KeepRows

LEMMA BeginForm ==
    ASSUME NEW r \in Requests, Begin(r)
    PROVE  tx[r].step = "idle" /\ \E t : Start(r, t) /\ Fresh(t)
<1>1. tx[r].step = "idle"
  BY DEF Begin, BeginVerify, BeginCollect, BeginManualEntry, BeginVoid,
         BeginGenerate, CanBegin
<1>2. CASE BeginVerify(r)
  <2>1. PICK i \in Invoices, g \in GatewayIds, a \in Amounts \cup {0} :
          Start(r, [Idle EXCEPT !.op = "verify", !.step = "invoice",
                                !.table = "payment", !.invoice = i,
                                !.gateway = g, !.amount = a])
    BY <1>2 DEF BeginVerify
  <2>. DEFINE t == [Idle EXCEPT !.op = "verify", !.step = "invoice",
                                !.table = "payment", !.invoice = i,
                                !.gateway = g, !.amount = a]
  <2>2. a \in Int
    BY AmountsAssumption
  <2>3. t \in Transaction
    BY <2>2, IdleType DEF Transaction, Operations, Tables, Steps, Open, Statements
  <2>4. Fresh(t)
    BY <2>3 DEF Fresh, Idle
  <2>5. Start(r, t)
    BY <2>1
  <2>. HIDE DEF t
  <2>. QED  BY <1>1, <2>4, <2>5
<1>3. CASE BeginCollect(r)
  <2>1. PICK i \in Invoices, a \in Amounts :
          Start(r, [Idle EXCEPT !.op = "collect", !.step = "insert",
                                !.table = "payment", !.invoice = i,
                                !.amount = a])
    BY <1>3 DEF BeginCollect
  <2>. DEFINE t == [Idle EXCEPT !.op = "collect", !.step = "insert",
                                !.table = "payment", !.invoice = i,
                                !.amount = a]
  <2>2. a \in Int
    BY AmountsAssumption
  <2>3. t \in Transaction
    BY <2>2, IdleType DEF Transaction, Operations, Tables, Steps, Open, Statements
  <2>4. Fresh(t)
    BY <2>3 DEF Fresh, Idle
  <2>5. Start(r, t)
    BY <2>1
  <2>. HIDE DEF t
  <2>. QED  BY <1>1, <2>4, <2>5
<1>4. CASE BeginManualEntry(r)
  <2>1. PICK kind \in {"income", "expense"}, a \in Amounts :
          Start(r, [Idle EXCEPT !.op = kind, !.step = "insert",
                                !.table = kind, !.amount = a])
    BY <1>4 DEF BeginManualEntry
  <2>. DEFINE t == [Idle EXCEPT !.op = kind, !.step = "insert",
                                !.table = kind, !.amount = a]
  <2>2. a \in Int
    BY AmountsAssumption
  <2>3. t \in Transaction
    BY <2>2, IdleType DEF Transaction, Operations, Tables, Steps, Open, Statements
  <2>4. Fresh(t)
    BY <2>3 DEF Fresh, Idle
  <2>5. Start(r, t)
    BY <2>1
  <2>. HIDE DEF t
  <2>. QED  BY <1>1, <2>4, <2>5
<1>5. CASE BeginVoid(r)
  <2>1. PICK kind \in Tables, e \in Requests \ {r} :
          Start(r, [Idle EXCEPT !.op = "void", !.step = "row",
                                !.table = kind, !.target = e])
    BY <1>5 DEF BeginVoid
  <2>. DEFINE t == [Idle EXCEPT !.op = "void", !.step = "row",
                                !.table = kind, !.target = e]
  <2>2. e \in Requests /\ kind \in Tables \cup {"none"}
    OBVIOUS
  <2>3. t \in Transaction
    BY <2>2, IdleType DEF Transaction, Operations, Steps, Open, Statements
  <2>4. Fresh(t)
    BY <2>3 DEF Fresh, Idle
  <2>5. Start(r, t)
    BY <2>1
  <2>. HIDE DEF t
  <2>. QED  BY <1>1, <2>4, <2>5
<1>6. CASE BeginGenerate(r)
  <2>1. PICK scope \in SUBSET Invoices : \E i \in scope :
          Start(r, [Idle EXCEPT !.op = "generate", !.step = "generate",
                                !.invoice = i, !.todo = scope \ {i}])
    BY <1>6 DEF BeginGenerate
  <2>2. PICK i \in scope :
          Start(r, [Idle EXCEPT !.op = "generate", !.step = "generate",
                                !.invoice = i, !.todo = scope \ {i}])
    BY <2>1
  <2>. DEFINE t == [Idle EXCEPT !.op = "generate", !.step = "generate",
                                !.invoice = i, !.todo = scope \ {i}]
  <2>3. t \in Transaction
    BY IdleType DEF Transaction, Operations, Tables, Steps, Open, Statements
  <2>4. Fresh(t)
    BY <2>3 DEF Fresh, Idle
  <2>5. Start(r, t)
    BY <2>2
  <2>. HIDE DEF t
  <2>. QED  BY <1>1, <2>4, <2>5
<1>. QED  BY <1>2, <1>3, <1>4, <1>5, <1>6 DEF Begin

LEMMA BeginKeeps ==
    ASSUME IInv, WellFormed', NEW r \in Requests, Begin(r)
    PROVE  IInv'
<1>1. PICK t : Start(r, t) /\ Fresh(t)
  BY BeginForm
<1>2. tx[r].step = "idle"
  BY BeginForm
<1>. QED  BY <1>1, <1>2, StartKeeps

\* A step within the request that neither writes nor counts money rows.
Writing == {"recompute", "status", "fees", "other", "expense", "summary"}

LEMMA LocalsKeep ==
    ASSUME IInv, WellFormed', NEW r \in Requests, NEW t,
           tx' = [tx EXCEPT ![r] = t], UNCHANGED <<entry, summary>>,
           t.op = tx[r].op, t.gateway = tx[r].gateway, t.rows = tx[r].rows,
           t.counted = tx[r].counted, t.summary = tx[r].summary,
           tx[r].step \in Open, t.step \in Open,
           t.step = "void" => entry[t.target].table = t.table,
           t.op = "verify" =>
              \/ t.step \in {"existing", "balance", "insert"}
              \/ tx[r].step \in Writing
              \/ t.step = "commit" /\ \E e \in Requests : entry[e].gateway = t.gateway
    PROVE  IInv'
<1>1. t \in Transaction
  <2>1. tx'[r] = t
    BY DEF IInv, WellFormed, TypeOK
  <2>. QED  BY <2>1 DEF WellFormed, TypeOK
<1>2. tx[r].step \notin Settled /\ t.step \notin Settled
  BY DEF Open, Statements, Settled
<1>3. Coherent(r, tx[r]) /\ entry[r].table = "none"
  BY <1>2, Served
<1>4. t.op = "verify" =>
         LET written == t.rows[r] # NoValue /\ t.rows[r].gateway = t.gateway
             committed == \E e \in Requests : entry[e].gateway = t.gateway
         IN  /\ t.step \in Writing => written
             /\ t.step = "commit" => written \/ committed
  BY <1>3 DEF Coherent, Writing
<1>5. Coherent(r, t)
  BY <1>2, <1>3, <1>4 DEF Coherent, Writing
<1>. QED  BY <1>1, <1>5, KeepRows

LEMMA QuietKeeps ==
    ASSUME IInv, WellFormed', NEW r \in Requests, Quiet(r)
    PROVE  IInv'
<1>. DEFINE s == tx[r]
<1>1. s \in Transaction /\ LocalsOK(s)
  BY Served
<1>2. s.step \in Open
  BY DEF Quiet, ReadInvoice, CheckExisting, ReadBalance, ReadEntry, RecomputeSum,
         RecomputeStatus, GenerateInvoice, AtStep, Open, Statements
<1>3. CASE Rollback(r)
  BY <1>2, <1>3, RollbackKeeps
<1>4. CASE ReadInvoice(r) /\ ~Rollback(r)
  <2>. DEFINE t == [s EXCEPT !.due = invoice[s.invoice].due]
              u == [t EXCEPT !.step = After(t.table, t.step)]
  <2>1. s.step = "invoice" /\ tx' = [tx EXCEPT ![r] = u] /\ UNCHANGED <<entry, summary>>
    BY <1>4 DEF ReadInvoice, AtStep, Proceed
  <2>2. /\ u.op = s.op /\ u.gateway = s.gateway /\ u.rows = s.rows
        /\ u.counted = s.counted /\ u.summary = s.summary /\ u.step = "existing"
    BY <1>1, <2>1 DEF Transaction, After, AfterWrite
  <2>. QED  BY <1>2, <2>1, <2>2, LocalsKeep DEF Open, Statements
<1>5. CASE CheckExisting(r) /\ ~Rollback(r)
  <2>. DEFINE t == [s EXCEPT !.step = "commit"]
              u == [s EXCEPT !.step = After(s.table, s.step)]
  <2>1. /\ s.step = "existing" /\ UNCHANGED <<entry, summary>>
        /\ \/ tx' = [tx EXCEPT ![r] = t] /\ \E e \in Requests : entry[e].gateway = s.gateway
           \/ tx' = [tx EXCEPT ![r] = u]
    BY <1>5 DEF CheckExisting, AtStep, Proceed
  <2>2. /\ t.op = s.op /\ t.gateway = s.gateway /\ t.rows = s.rows
        /\ t.counted = s.counted /\ t.summary = s.summary /\ t.step = "commit"
    BY <1>1, <2>1 DEF Transaction
  <2>3. /\ u.op = s.op /\ u.gateway = s.gateway /\ u.rows = s.rows
        /\ u.counted = s.counted /\ u.summary = s.summary /\ u.step = "balance"
    BY <1>1, <2>1 DEF Transaction, After, AfterWrite
  <2>4. CASE tx' = [tx EXCEPT ![r] = t] /\ \E e \in Requests : entry[e].gateway = s.gateway
    <3>1. t.step \in Open /\ \E e \in Requests : entry[e].gateway = t.gateway
      BY <2>2, <2>4 DEF Open
    <3>2. tx' = [tx EXCEPT ![r] = t] /\ t.step # "void"
      BY <2>2, <2>4
    <3>. HIDE DEF t
    <3>. QED  BY <1>2, <2>1, <2>2, <3>1, <3>2, LocalsKeep
  <2>5. CASE tx' = [tx EXCEPT ![r] = u]
    BY <1>2, <2>1, <2>3, <2>5, LocalsKeep DEF Open, Statements
  <2>. QED  BY <2>1, <2>4, <2>5
<1>6. CASE ReadBalance(r) /\ ~Rollback(r)
  <2>1. PICK a \in Nat \ {0} :
          Proceed(r, [s EXCEPT !.amount = a, !.due = 0])
    BY <1>6 DEF ReadBalance
  <2>. DEFINE t == [s EXCEPT !.amount = a, !.due = 0]
              u == [t EXCEPT !.step = After(t.table, t.step)]
  <2>2. s.step = "balance" /\ tx' = [tx EXCEPT ![r] = u] /\ UNCHANGED <<entry, summary>>
    BY <1>6, <2>1 DEF ReadBalance, AtStep, Proceed
  <2>3. /\ u.op = s.op /\ u.gateway = s.gateway /\ u.rows = s.rows
        /\ u.counted = s.counted /\ u.summary = s.summary /\ u.step = "insert"
    BY <1>1, <2>2 DEF Transaction, After, AfterWrite
  <2>. QED  BY <1>2, <2>2, <2>3, LocalsKeep DEF Open, Statements
<1>7. CASE ReadEntry(r) /\ ~Rollback(r)
  <2>. DEFINE t == [s EXCEPT !.invoice = entry[s.target].invoice]
              u == [t EXCEPT !.step = After(t.table, t.step)]
  <2>1. /\ s.step = "row" /\ entry[s.target].table = s.table
        /\ tx' = [tx EXCEPT ![r] = u] /\ UNCHANGED <<entry, summary>>
    BY <1>7 DEF ReadEntry, AtStep, Proceed
  <2>2. /\ u.op = s.op /\ u.gateway = s.gateway /\ u.rows = s.rows
        /\ u.counted = s.counted /\ u.summary = s.summary /\ u.step = "void"
        /\ u.target = s.target /\ u.table = s.table
    BY <1>1, <2>1 DEF Transaction, After, AfterWrite
  <2>3. u.op # "verify"
    BY <1>1, <2>1, <2>2 DEF LocalsOK
  <2>. QED  BY <1>2, <2>1, <2>2, <2>3, LocalsKeep DEF Open, Statements
<1>8. CASE RecomputeSum(r)
  <2>. DEFINE t == [s EXCEPT !.seen = LivePayments(View(r), s.invoice)]
              u == [t EXCEPT !.step = After(t.table, t.step)]
  <2>1. s.step = "recompute" /\ tx' = [tx EXCEPT ![r] = u] /\ UNCHANGED <<entry, summary>>
    BY <1>8 DEF RecomputeSum, AtStep, Proceed
  <2>2. /\ u.op = s.op /\ u.gateway = s.gateway /\ u.rows = s.rows
        /\ u.counted = s.counted /\ u.summary = s.summary /\ u.step = "status"
    BY <1>1, <2>1 DEF Transaction, After, AfterWrite
  <2>. QED  BY <1>2, <2>1, <2>2, LocalsKeep DEF Open, Statements, Writing
<1>9. CASE RecomputeStatus(r)
  <2>1. PICK row : Proceed(r, [s EXCEPT !.invoices[s.invoice] = row, !.seen = {}])
    BY <1>9 DEF RecomputeStatus
  <2>. DEFINE t == [s EXCEPT !.invoices[s.invoice] = row, !.seen = {}]
              u == [t EXCEPT !.step = After(t.table, t.step)]
  <2>2. s.step = "status" /\ tx' = [tx EXCEPT ![r] = u] /\ UNCHANGED <<entry, summary>>
    BY <1>9, <2>1 DEF RecomputeStatus, AtStep, Proceed
  <2>3. /\ u.op = s.op /\ u.gateway = s.gateway /\ u.rows = s.rows
        /\ u.counted = s.counted /\ u.summary = s.summary /\ u.step = "fees"
    BY <1>1, <2>2 DEF Transaction, After, AfterWrite
  <2>. QED  BY <1>2, <2>2, <2>3, LocalsKeep DEF Open, Statements, Writing
<1>10. CASE GenerateInvoice(r)
  <2>1. s.step = "generate" /\ UNCHANGED <<entry, summary>> /\ s.op # "verify"
    BY <1>1, <1>10 DEF GenerateInvoice, AtStep, LocalsOK
  <2>2. PICK row :
          LET t == [s EXCEPT !.invoices[s.invoice] = row]
          IN  \/ \E next \in t.todo :
                    tx' = [tx EXCEPT ![r] = [t EXCEPT !.invoice = next,
                                                      !.todo = @ \ {next}]]
              \/ Proceed(r, [t EXCEPT !.audited = TRUE])
    BY <1>10 DEF GenerateInvoice
  <2>. DEFINE t == [s EXCEPT !.invoices[s.invoice] = row]
  <2>3. PICK u : /\ tx' = [tx EXCEPT ![r] = u]
                 /\ u.op = s.op /\ u.gateway = s.gateway /\ u.rows = s.rows
                 /\ u.counted = s.counted /\ u.summary = s.summary
                 /\ u.step \in {"generate", "commit"}
    <3>1. ASSUME NEW next,
                 tx' = [tx EXCEPT ![r] = [t EXCEPT !.invoice = next,
                                                   !.todo = @ \ {next}]]
          PROVE  \E u : /\ tx' = [tx EXCEPT ![r] = u]
                       /\ u.op = s.op /\ u.gateway = s.gateway /\ u.rows = s.rows
                       /\ u.counted = s.counted /\ u.summary = s.summary
                       /\ u.step \in {"generate", "commit"}
      <4>. DEFINE v == [t EXCEPT !.invoice = next, !.todo = @ \ {next}]
      <4>1. /\ v.op = s.op /\ v.gateway = s.gateway /\ v.rows = s.rows
            /\ v.counted = s.counted /\ v.summary = s.summary /\ v.step = "generate"
        BY <1>1, <2>1 DEF Transaction
      <4>. QED  BY <3>1, <4>1
    <3>2. CASE Proceed(r, [t EXCEPT !.audited = TRUE])
      <4>. DEFINE w == [t EXCEPT !.audited = TRUE]
                  v == [w EXCEPT !.step = After(w.table, w.step)]
      <4>1. /\ v.op = s.op /\ v.gateway = s.gateway /\ v.rows = s.rows
            /\ v.counted = s.counted /\ v.summary = s.summary /\ v.step = "commit"
        BY <1>1, <2>1 DEF Transaction, After, AfterWrite
      <4>2. tx' = [tx EXCEPT ![r] = v]
        BY <3>2 DEF Proceed
      <4>. QED  BY <4>1, <4>2
    <3>. QED  BY <2>2, <3>1, <3>2
  <2>. QED  BY <1>2, <2>1, <2>3, LocalsKeep DEF Open, Statements
<1>. QED  BY <1>3, <1>4, <1>5, <1>6, <1>7, <1>8, <1>9, <1>10 DEF Quiet

\* refresh_daily_revenue counts rows that are committed or the request's own.
LEMMA RevenueKeeps ==
    ASSUME IInv, WellFormed', NEW r \in Requests, Tally(r) \/ WriteSummary(r)
    PROVE  IInv'
<1>. DEFINE s == tx[r]
<1>1. s \in Transaction /\ LocalsOK(s) /\ Coherent(r, s)
  BY Served
<1>2. tx'[r] \in Transaction
  BY DEF WellFormed, TypeOK
<1>3. CASE Tally(r)
  <2>1. PICK step \in DOMAIN TallyOf :
          /\ AtStep(r, step) /\ UNCHANGED <<entry, summary>>
          /\ LET todays == {e \in Requests : /\ View(r)[e].table = TallyOf[step]
                                             /\ IsLive(View(r)[e])
                                             /\ View(r)[e].day = tx[r].day}
             IN  Proceed(r, [s EXCEPT !.counted = @ \cup todays])
    BY <1>3 DEF Tally
  <2>. DEFINE todays == {e \in Requests : /\ View(r)[e].table = TallyOf[step]
                                          /\ IsLive(View(r)[e])
                                          /\ View(r)[e].day = tx[r].day}
              t == [s EXCEPT !.counted = @ \cup todays]
              u == [t EXCEPT !.step = After(t.table, t.step)]
  <2>2. s.step \in {"fees", "other", "expense"}
    BY <2>1 DEF TallyOf, AtStep
  <2>3. tx' = [tx EXCEPT ![r] = u]
    BY <2>1 DEF Proceed
  <2>4. /\ u.op = s.op /\ u.gateway = s.gateway /\ u.rows = s.rows
        /\ u.counted = s.counted \cup todays /\ u.summary = s.summary
        /\ u.step \in {"other", "expense", "summary"}
    BY <1>1, <2>2 DEF Transaction, After, AfterWrite
  <2>5. \A e \in todays : entry[e].table # "none" \/ s.rows[e] # NoValue
    BY DEF View, IsLive
  <2>. HIDE DEF u, todays
  <2>6. u \in Transaction
    BY <1>2, <2>3 DEF IInv, WellFormed, TypeOK
  <2>7. Coherent(r, u)
    BY <1>1, <2>2, <2>4, <2>5 DEF Coherent, Settled
  <2>. QED  BY <2>1, <2>3, <2>4, <2>6, <2>7, KeepRows
<1>4. CASE WriteSummary(r)
  <2>. DEFINE row == [day |-> s.day, counted |-> s.counted]
              t == [s EXCEPT !.summary = row, !.counted = {}, !.audited = TRUE]
              u == [t EXCEPT !.step = After(t.table, t.step)]
  <2>1. s.step = "summary" /\ UNCHANGED <<entry, summary>>
    BY <1>4 DEF WriteSummary, AtStep
  <2>2. tx' = [tx EXCEPT ![r] = u]
    BY <1>4 DEF WriteSummary, Proceed
  <2>3. /\ u.op = s.op /\ u.gateway = s.gateway /\ u.rows = s.rows
        /\ u.counted = {} /\ u.summary.counted = s.counted /\ u.step = "commit"
    BY <1>1, <2>1 DEF Transaction, After, AfterWrite
  <2>. HIDE DEF u
  <2>4. u \in Transaction
    BY <1>2, <2>2 DEF IInv, WellFormed, TypeOK
  <2>5. Coherent(r, u)
    BY <1>1, <2>1, <2>3 DEF Coherent, Settled
  <2>. QED  BY <2>1, <2>2, <2>3, <2>4, <2>5, KeepRows
<1>. QED  BY <1>3, <1>4

\* The caller hears of the commit, or the answer gets lost.
LEMMA ReplyKeeps ==
    ASSUME IInv, WellFormed', NEW r \in Requests, NEW told \in {"ok", "lost"},
           Reply(r, told)
    PROVE  IInv'
<1>. DEFINE s == tx[r]
            t == [s EXCEPT !.step = told]
<1>1. s \in Transaction /\ Coherent(r, s) /\ s.step = "committed"
  BY Served DEF Reply
<1>2. tx' = [tx EXCEPT ![r] = t] /\ UNCHANGED <<entry, summary>>
  BY DEF Reply
<1>3. /\ t.op = s.op /\ t.gateway = s.gateway /\ t.rows = s.rows
      /\ t.counted = s.counted /\ t.summary = s.summary /\ t.step = told
      /\ t \in Transaction
  BY <1>1 DEF Transaction, Steps, Settled
<1>4. Coherent(r, t)
  BY <1>1, <1>3 DEF Coherent, Settled
<1>. QED  BY <1>2, <1>3, <1>4, KeepRows

\* Request r writes one version of the money row d, going on with locals t: its
\* own new row, or a void of a committed one.
Writes(r, d, t) ==
    /\ tx[r].rows = NoRows /\ tx[r].counted = {} /\ tx[r].step \in Open
    /\ t.counted = {} /\ t.summary = tx[r].summary
    /\ t.step \in Open /\ t.step # "void"
    /\ t.rows[d] # NoValue /\ t.rows[d].table # "none"
    /\ \A e \in Requests : t.rows[e] # NoValue => e = d
    /\ entry[d].table = "none" => d = r
    /\ entry[d].table # "none" =>
          SameMoney(t.rows[d], entry[d]) /\ t.rows[d].voidedBy = r
    /\ \A g \in GatewayIds, e \in Requests :
          t.rows[d].gateway = g /\ Carries(e, g) => e = d
    /\ t.op = "verify" => t.rows[r] # NoValue /\ t.rows[r].gateway = t.gateway

LEMMA WriteKeeps ==
    ASSUME IInv, WellFormed', NEW r \in Requests, NEW d \in Requests, NEW t,
           tx' = [tx EXCEPT ![r] = t], UNCHANGED <<entry, summary>>,
           Writes(r, d, t)
    PROVE  IInv'
<1>. USE DEF Writes
<1>1. \A q \in Requests : tx'[q] = IF q = r THEN t ELSE tx[q]
  BY DEF IInv, WellFormed, TypeOK
<1>2. /\ t.step \notin Settled /\ tx[r].step \notin Settled
      /\ entry[r].table = "none" /\ Coherent(r, tx[r])
  BY Served DEF Open, Statements, Settled
<1>3. RowsFaithful'
  BY <1>1 DEF IInv, RowsFaithful, SameMoney
<1>4. TargetsExist'
  BY <1>1, <1>2 DEF IInv, TargetsExist
<1>5. GatewayUnique'
  <2>1. ASSUME NEW g \in GatewayIds, NEW e \in Requests, Carries(e, g)'
        PROVE  Carries(e, g) \/ (e = d /\ t.rows[d].gateway = g)
    BY <1>1, <2>1 DEF Carries
  <2>2. ASSUME NEW g \in GatewayIds, NEW e \in Requests, NEW f \in Requests,
               Carries(e, g)', Carries(f, g)'
        PROVE  e = f
    BY <2>1, <2>2 DEF IInv, GatewayUnique
  <2>. QED  BY <2>2 DEF GatewayUnique
<1>6. VerifyProgress'
  BY <1>1, <1>2 DEF IInv, VerifyProgress
<1>7. CountsVisible'
  <2>1. \A e \in summary'.counted : entry'[e].table # "none"
    BY DEF IInv, CountsVisible
  <2>2. ASSUME NEW q \in Requests, q # r
        PROVE  tx'[q] = tx[q] /\ View(q)' = View(q)
    BY <1>1, <2>2 DEF View
  <2>3. View(r)' = [e \in Requests |-> IF e = d THEN t.rows[d] ELSE entry[e]]
    BY <1>1 DEF View
  <2>4. \A e \in Requests : View(r)[e] = entry[e]
    BY DEF View, NoRows
  <2>5. tx[r].summary # NoValue => tx[r].summary.counted \subseteq Requests
    BY Served DEF Transaction, SummaryRow
  <2>6. t.summary # NoValue =>
           \A e \in t.summary.counted : View(r)'[e].table # "none"
    BY <2>3, <2>4, <2>5 DEF IInv, CountsVisible
  <2>. QED  BY <1>1, <2>1, <2>2, <2>6 DEF IInv, CountsVisible
<1>. QED  BY <1>3, <1>4, <1>5, <1>6, <1>7 DEF IInv

LEMMA InsertKeeps ==
    ASSUME IInv, WellFormed', NEW r \in Requests, InsertEntry(r)
    PROVE  IInv'
<1>. DEFINE s == tx[r]
            row == NewEntry(s)
            t == [s EXCEPT !.rows[r] = row]
            u == [t EXCEPT !.step = After(t.table, t.step)]
<1>1. /\ s \in Transaction /\ LocalsOK(s) /\ s.step = "insert"
      /\ Blockers(r) = {} /\ entry[r].table = "none"
  BY Served DEF InsertEntry, AtStep, Settled
<1>2. CASE Rollback(r)
  BY <1>1, <1>2, RollbackKeeps DEF Open, Statements
<1>3. CASE ~Rollback(r)
  <2>1. /\ ~ViolatesConstraint(s) /\ tx' = [tx EXCEPT ![r] = u]
        /\ UNCHANGED <<entry, summary>>
    BY <1>3 DEF InsertEntry, Proceed
  <2>2. s.rows = NoRows /\ s.counted = {} /\ s.table \in Tables
    BY <1>1 DEF LocalsOK, Unwritten
  <2>3. /\ u.op = s.op /\ u.gateway = s.gateway /\ u.summary = s.summary
        /\ u.rows = [s.rows EXCEPT ![r] = row] /\ u.counted = {}
        /\ u.step \in {"recompute", "fees"}
    BY <1>1, <2>2 DEF Transaction, After, AfterWrite
  <2>4. /\ row.table = s.table /\ row.gateway = s.gateway
        /\ row \in EntryRow /\ row # NoValue
    BY <1>1, RowAssumption DEF NewEntry, EntryRow, Transaction, LocalsOK
  <2>5. ASSUME NEW g \in GatewayIds, row.gateway = g, NEW e \in Requests,
               Carries(e, g)
        PROVE  e = r
    <3>1. g # NoValue
      BY NullAssumption
    <3>2. entry[e].gateway # g
      BY <2>1, <2>4, <2>5, <3>1 DEF ViolatesConstraint
    <3>3. \A q \in Requests \ {r} :
             ~(tx[q].rows[e] # NoValue /\ tx[q].rows[e].gateway = g)
      BY <1>1, <2>4, <2>5, <3>1 DEF Blockers
    <3>. QED  BY <2>2, <2>5, <3>2, <3>3 DEF Carries, NoRows
  <2>6. \A e \in Requests : u.rows[e] = IF e = r THEN row ELSE NoValue
    BY <2>2, <2>3 DEF NoRows
  <2>7. row.table # "none"
    BY <2>2, <2>4 DEF Tables
  <2>8. s.step \in Open /\ u.step \in Open /\ u.step # "void"
    BY <1>1, <2>3 DEF Open, Statements
  <2>. HIDE DEF u, row
  <2>9. Writes(r, r, u)
    BY <1>1, <2>2, <2>3, <2>4, <2>5, <2>6, <2>7, <2>8 DEF Writes
  <2>. QED  BY <2>1, <2>9, WriteKeeps
<1>. QED  BY <1>2, <1>3

LEMMA VoidKeeps ==
    ASSUME IInv, WellFormed', NEW r \in Requests, VoidEntry(r)
    PROVE  IInv'
<1>. DEFINE s == tx[r]
            d == s.target
            row == [entry[d] EXCEPT !.voidedBy = r]
            t == [s EXCEPT !.rows[d] = row]
            u == [t EXCEPT !.step = After(t.table, t.step)]
<1>1. /\ s \in Transaction /\ LocalsOK(s) /\ s.step = "void"
      /\ Coherent(r, s)
      /\ tx' = [tx EXCEPT ![r] = u] /\ UNCHANGED <<entry, summary>>
  BY Served DEF VoidEntry, AtStep, Proceed
<1>2. /\ s.rows = NoRows /\ s.counted = {} /\ s.table \in Tables
      /\ s.op = "void" /\ d \in Requests
  BY <1>1 DEF LocalsOK, Unwritten
<1>3. entry[d].table = s.table /\ entry[d].table # "none" /\ entry[d] \in EntryRow
  BY <1>1, <1>2 DEF Coherent, Tables, IInv, WellFormed, TypeOK
<1>4. /\ row.table = entry[d].table /\ row.gateway = entry[d].gateway
      /\ row.voidedBy = r /\ SameMoney(row, entry[d])
      /\ row \in EntryRow /\ row # NoValue
  BY <1>3, RowAssumption DEF EntryRow, SameMoney
<1>5. /\ u.op = s.op /\ u.summary = s.summary
      /\ u.rows = [s.rows EXCEPT ![d] = row] /\ u.counted = {}
      /\ u.step \in {"recompute", "fees"}
  BY <1>1, <1>2 DEF Transaction, After, AfterWrite
<1>6. \A e \in Requests : u.rows[e] = IF e = d THEN row ELSE NoValue
  BY <1>2, <1>5 DEF NoRows
<1>7. \A g \in GatewayIds : row.gateway = g =>
         \A e \in Requests : Carries(e, g) => e = d
  BY <1>2, <1>4 DEF IInv, GatewayUnique, Carries
<1>8. s.step \in Open /\ u.step \in Open /\ u.step # "void"
  BY <1>1, <1>5 DEF Open, Statements
<1>. HIDE DEF u, row, d
<1>9. Writes(r, d, u)
  BY <1>1, <1>2, <1>3, <1>4, <1>5, <1>6, <1>7, <1>8 DEF Writes
<1>. QED  BY <1>1, <1>2, <1>9, WriteKeeps

-----------------------------------------------------------------------------
(* Commit: the only step that changes the committed money rows *)

\* What a commit makes of each row.
LEMMA CommitRows ==
    ASSUME IInv, NEW r \in Requests, Commit(r)
    PROVE  \A e \in Requests :
              /\ entry'[e] = IF tx[r].rows[e] # NoValue THEN tx[r].rows[e]
                                                       ELSE entry[e]
              /\ entry[e].table # "none" =>
                    /\ SameMoney(entry'[e], entry[e])
                    /\ entry'[e].voidedBy \in {entry[e].voidedBy, r}
              /\ entry[e].table = "none" /\ e # r => entry'[e] = entry[e]
              /\ tx[r].rows[e] # NoValue => entry'[e].table # "none"
<1>. TAKE e \in Requests
<1>1. entry'[e] = IF tx[r].rows[e] # NoValue THEN tx[r].rows[e] ELSE entry[e]
  BY DEF Commit, View
<1>2. entry[e] \in EntryRow
  BY DEF IInv, WellFormed, TypeOK
<1>3. SameMoney(entry[e], entry[e])
  BY <1>2 DEF SameMoney, EntryRow
<1>. QED  BY <1>1, <1>3 DEF IInv, RowsFaithful

LEMMA CommitKeeps ==
    ASSUME IInv, WellFormed', NEW r \in Requests, Commit(r)
    PROVE  IInv'
<1>. DEFINE s == tx[r]
            t == [Idle EXCEPT !.op = s.op, !.gateway = s.gateway,
                              !.step = "committed"]
<1>1. s \in Transaction /\ LocalsOK(s) /\ s.step = "commit" /\ Coherent(r, s)
  BY Served DEF Commit, AtStep
<1>2. \A q \in Requests : tx'[q] = IF q = r THEN t ELSE tx[q]
  BY DEF Commit, IInv, WellFormed, TypeOK
<1>3. /\ t.op = s.op /\ t.gateway = s.gateway /\ t.step = "committed"
      /\ t.rows = NoRows /\ t.counted = {} /\ t.summary = NoValue
  BY DEF Idle
<1>. HIDE DEF t
<1>4. \A q, e \in Requests : tx'[q].rows[e] # NoValue => q # r /\ tx'[q] = tx[q]
  BY <1>2, <1>3 DEF NoRows
<1>5. \A e \in Requests : entry[e].table # "none" => entry'[e].table # "none"
  BY CommitRows DEF SameMoney, IInv, WellFormed, TypeOK, EntryRow
<1>6. \A e \in Requests : entry'[e] \in EntryRow /\ entry[e] \in EntryRow
  BY DEF IInv, WellFormed, TypeOK
<1>7. RowsFaithful'
  <2>1. \A e \in Requests : entry'[e].table = "none" => entry'[e] = NoEntry
    BY CommitRows DEF IInv, RowsFaithful
  <2>2. ASSUME NEW q \in Requests, NEW e \in Requests, tx'[q].rows[e] # NoValue
        PROVE  /\ tx'[q].rows[e].table # "none"
               /\ entry'[e].table = "none" => e = q
               /\ entry'[e].table # "none" =>
                     /\ SameMoney(tx'[q].rows[e], entry'[e])
                     /\ tx'[q].rows[e].voidedBy = q
    <3>. DEFINE row == tx[q].rows[e]
    <3>1. q # r /\ tx'[q] = tx[q] /\ row # NoValue
      BY <1>4, <2>2
    <3>2. /\ row.table # "none" /\ row \in EntryRow
          /\ entry[e].table = "none" => e = q
          /\ entry[e].table # "none" => SameMoney(row, entry[e]) /\ row.voidedBy = q
      BY <3>1, Served DEF IInv, RowsFaithful, Transaction
    <3>3. CASE entry[e].table = "none"
      BY <1>5, <3>1, <3>2, <3>3, CommitRows
    <3>4. CASE entry[e].table # "none"
      <4>1. SameMoney(entry'[e], entry[e]) /\ SameMoney(row, entry[e])
        BY <3>2, <3>4, CommitRows
      <4>2. SameMoney(row, entry'[e])
        BY <1>6, <3>2, <4>1 DEF SameMoney, EntryRow
      <4>. QED  BY <1>5, <3>1, <3>2, <3>4, <4>2
    <3>. QED  BY <3>3, <3>4
  <2>. QED  BY <2>1, <2>2 DEF RowsFaithful
<1>8. TargetsExist'
  <2>1. ASSUME NEW q \in Requests, tx'[q].step = "void"
        PROVE  entry'[tx'[q].target].table = tx'[q].table
    <3>1. q # r /\ tx'[q] = tx[q]
      BY <1>2, <1>3, <2>1
    <3>2. tx[q].target \in Requests /\ tx[q].table \in Tables
          /\ entry[tx[q].target].table = tx[q].table
      BY <2>1, <3>1, Served DEF LocalsOK, Coherent
    <3>3. SameMoney(entry'[tx[q].target], entry[tx[q].target])
      BY <3>2, CommitRows DEF Tables
    <3>. QED  BY <1>6, <3>1, <3>2, <3>3 DEF SameMoney, EntryRow
  <2>2. ASSUME NEW q \in Requests, entry'[q].table # "none"
        PROVE  tx'[q].step \in Settled
    <3>1. CASE q = r
      BY <1>2, <1>3, <3>1 DEF Settled
    <3>2. CASE q # r
      BY <1>2, <2>2, <3>2, CommitRows DEF IInv, TargetsExist
    <3>. QED  BY <3>1, <3>2
  <2>. QED  BY <2>1, <2>2 DEF TargetsExist
<1>9. GatewayUnique'
  <2>1. \A e \in Requests, g \in GatewayIds : Carries(e, g)' => Carries(e, g)
    BY <1>4, CommitRows DEF Carries
  <2>. QED  BY <2>1 DEF IInv, GatewayUnique
<1>10. \A e \in Requests, g \in GatewayIds :
          entry[e].gateway = g => entry'[e].gateway = g
  <2>. TAKE e \in Requests, g \in GatewayIds
  <2>. HAVE entry[e].gateway = g
  <2>1. entry[e].table # "none"
    BY NullAssumption DEF IInv, RowsFaithful, NoEntry
  <2>2. entry'[e] = [entry[e] EXCEPT !.voidedBy = entry'[e].voidedBy]
    BY <2>1, CommitRows DEF SameMoney
  <2>3. entry[e] \in EntryRow
    BY <1>6
  <2>. QED  BY <2>2, <2>3 DEF EntryRow
<1>11. VerifyProgress'
  <2>1. ASSUME NEW q \in Requests, q # r, tx[q].op = "verify",
               \E e \in Requests : entry[e].gateway = tx[q].gateway,
               tx[q].step \in Settled \cup {"commit"}
        PROVE  \E e \in Requests : entry'[e].gateway = tx[q].gateway
    <3>1. tx[q].gateway \in GatewayIds
      BY <2>1, Served DEF LocalsOK, Settled
    <3>. QED  BY <1>10, <2>1, <3>1
  <2>2. ASSUME s.op = "verify"
        PROVE  \E e \in Requests : entry'[e].gateway = s.gateway
    <3>1. s.gateway \in GatewayIds
      BY <1>1, <2>2 DEF LocalsOK
    <3>2. \/ s.rows[r] # NoValue /\ s.rows[r].gateway = s.gateway
          \/ \E e \in Requests : entry[e].gateway = s.gateway
      BY <1>1, <2>2 DEF Coherent
    <3>. QED  BY <1>10, <3>1, <3>2, CommitRows
  <2>. QED  BY <1>2, <1>3, <2>1, <2>2 DEF IInv, VerifyProgress, Settled
<1>12. CountsVisible'
  <2>1. \A e \in summary'.counted : entry'[e].table # "none"
    <3>1. summary.counted \subseteq Requests
      BY DEF IInv, WellFormed, TypeOK, SummaryRow
    <3>2. s.summary # NoValue =>
             \A e \in s.summary.counted : entry'[e].table # "none"
      <4>1. entry' = View(r)
        BY DEF Commit
      <4>. QED  BY <4>1 DEF IInv, CountsVisible
    <3>3. \A e \in summary.counted : entry'[e].table # "none"
      BY <1>5, <3>1 DEF IInv, CountsVisible
    <3>. QED  BY <3>2, <3>3 DEF Commit
  <2>2. ASSUME NEW q \in Requests, q # r
        PROVE  /\ tx'[q] = tx[q]
               /\ \A e \in Requests :
                     View(q)[e].table # "none" => View(q)'[e].table # "none"
    BY <1>2, <1>5, <2>2 DEF View
  <2>3. ASSUME NEW q \in Requests
        PROVE  /\ tx[q].counted \subseteq Requests
               /\ tx[q].summary # NoValue => tx[q].summary.counted \subseteq Requests
    BY Served DEF Transaction, SummaryRow
  <2>. QED  BY <1>2, <1>3, <2>1, <2>2, <2>3 DEF IInv, CountsVisible
<1>. QED  BY <1>7, <1>8, <1>9, <1>11, <1>12 DEF IInv

-----------------------------------------------------------------------------
(* IInv is inductive *)

LEMMA IInvInit == Init => IInv
<1>. SUFFICES ASSUME Init
              PROVE  IInv
  OBVIOUS
<1>1. \A e \in Requests : entry[e] = NoEntry /\ tx[e] = Idle
  BY DEF Init
<1>2. \A e \in Requests : Idle.rows[e] = NoValue
  BY IdleType
<1>3. Idle.step = "idle" /\ Idle.op = "none" /\ Idle.counted = {}
      /\ Idle.summary = NoValue
  BY DEF Idle
<1>4. RowsFaithful
  BY <1>1, <1>2 DEF RowsFaithful
<1>5. TargetsExist
  BY <1>1, <1>3 DEF TargetsExist, NoEntry
<1>6. GatewayUnique
  BY <1>1, <1>2, NullAssumption DEF GatewayUnique, Carries, NoEntry
<1>7. VerifyProgress
  BY <1>1, <1>3 DEF VerifyProgress
<1>8. CountsVisible
  BY <1>1, <1>3 DEF CountsVisible, Init
<1>. QED  BY <1>4, <1>5, <1>6, <1>7, <1>8, WellFormedInit DEF IInv

LEMMA IInvStep == IInv /\ [Next]_vars => IInv'
<1>. SUFFICES ASSUME IInv, [Next]_vars
              PROVE  IInv'
  OBVIOUS
<1>1. WellFormed'
  BY WellFormedStep DEF IInv
<1>2. CASE UNCHANGED vars \/ NextDay
  <2>1. UNCHANGED <<entry, summary, tx>>
    BY <1>2 DEF vars, NextDay
  <2>2. RowsFaithful' /\ TargetsExist'
    BY <2>1 DEF IInv, RowsFaithful, TargetsExist
  <2>3. GatewayUnique' /\ VerifyProgress'
    BY <2>1 DEF IInv, GatewayUnique, Carries, VerifyProgress
  <2>4. CountsVisible'
    BY <2>1 DEF IInv, CountsVisible, View
  <2>. QED  BY <1>1, <2>2, <2>3, <2>4 DEF IInv
<1>3. ASSUME NEW r \in Requests,
             \/ Begin(r) \/ Quiet(r)
             \/ tx[r].step \in Open /\ Rollback(r)
             \/ InsertEntry(r) \/ VoidEntry(r) \/ Tally(r) \/ WriteSummary(r)
             \/ Commit(r) \/ Reply(r, "ok") \/ Reply(r, "lost")
      PROVE  IInv'
  BY <1>1, <1>3, BeginKeeps, QuietKeeps, RollbackKeeps, InsertKeeps, VoidKeeps,
     RevenueKeeps, CommitKeeps, ReplyKeeps
<1>. QED  BY <1>2, <1>3, NextCases

LEMMA Invariance == Spec => []IInv
BY IInvInit, IInvStep, PTL DEF Spec

-----------------------------------------------------------------------------
(* The theorems *)

\* No gateway payment is credited by two rows (verifyPayment's idempotence).
THEOREM GatewayPaymentCreditedOnce == Spec => []GatewayPaymentOnce
<1>1. ASSUME IInv
      PROVE  GatewayPaymentOnce
  <2>1. ASSUME NEW d \in Requests, NEW e \in Requests,
               entry[d].gateway = entry[e].gateway, entry[d].gateway # NoValue
        PROVE  d = e
    <3>1. entry[d].gateway \in GatewayIds
      BY <1>1, <2>1 DEF IInv, WellFormed, TypeOK, EntryRow
    <3>. QED  BY <1>1, <2>1, <3>1 DEF IInv, GatewayUnique, Carries
  <2>. QED  BY <2>1 DEF GatewayPaymentOnce
<1>. QED  BY <1>1, Invariance, PTL

\* Whoever is told that verifyPayment succeeded has a committed row to rely on.
THEOREM AcknowledgedIsSafe == Spec => []AcknowledgedIsRecorded
<1>1. IInv => AcknowledgedIsRecorded
  BY DEF IInv, VerifyProgress, AcknowledgedIsRecorded
<1>. QED  BY <1>1, Invariance, PTL

\* The daily revenue never counts money of a request that was rolled back.
THEOREM RevenueCountsCommitted == Spec => []SummaryCountsCommitted
<1>1. IInv => SummaryCountsCommitted
  BY DEF IInv, CountsVisible, SummaryCountsCommitted
<1>. QED  BY <1>1, Invariance, PTL

\* Only a commit changes the committed money rows.
LEMMA OnlyCommitChangesRows ==
    ASSUME [Next]_vars
    PROVE  entry' = entry \/ \E r \in Requests : Commit(r)
BY NextCases DEF vars, NextDay, Begin, BeginVerify, BeginCollect, BeginManualEntry,
   BeginVoid, BeginGenerate, Start, Quiet, ReadInvoice, CheckExisting, ReadBalance,
   ReadEntry, RecomputeSum, RecomputeStatus, GenerateInvoice, Rollback, InsertEntry,
   VoidEntry, Tally, WriteSummary, Reply

\* Committed money rows are only ever voided, and a void is never undone.
THEOREM LedgerIsAppendOnly == Spec => LedgerAppendOnly
<1>. DEFINE Kept(e) ==
        entry[e].table # "none" =>
          /\ entry'[e] = [entry[e] EXCEPT !.voidedBy = entry'[e].voidedBy]
          /\ entry[e].voidedBy # NoValue => entry'[e].voidedBy # NoValue
<1>1. ASSUME IInv, [Next]_vars, NEW e \in Requests
      PROVE  Kept(e)
  <2>1. CASE entry' = entry
    <3>1. entry[e] \in EntryRow
      BY <1>1 DEF IInv, WellFormed, TypeOK
    <3>. QED  BY <2>1, <3>1 DEF EntryRow
  <2>2. ASSUME NEW r \in Requests, Commit(r)
        PROVE  Kept(e)
    <3>1. r # NoValue
      BY NullAssumption
    <3>. QED  BY <1>1, <2>2, <3>1, CommitRows DEF SameMoney
  <2>. QED  BY <1>1, <2>1, <2>2, OnlyCommitChangesRows
<1>2. IInv /\ [Next]_vars => [\A e \in Requests : Kept(e)]_vars
  BY <1>1
<1>3. Spec => [][\A e \in Requests : Kept(e)]_vars
  BY <1>2, Invariance, PTL DEF Spec
<1>. QED  BY <1>3 DEF LedgerAppendOnly

-----------------------------------------------------------------------------
(* FeeLedger implements GatewayPayments *)

\* The row that credits g is the only one that carries g.
LEMMA RecordedIs ==
    ASSUME IInv, NEW g \in GatewayIds
    PROVE  /\ \A e \in Requests : entry[e].gateway = g => RecordedAs(g) = e
           /\ (\A e \in Requests : entry[e].gateway # g) => RecordedAs(g) = NoValue
<1>1. ASSUME NEW e \in Requests, entry[e].gateway = g
      PROVE  RecordedAs(g) = e
  <2>1. RecordedAs(g) \in Requests /\ entry[RecordedAs(g)].gateway = g
    BY <1>1 DEF RecordedAs
  <2>. QED  BY <1>1, <2>1 DEF IInv, GatewayUnique, Carries
<1>. QED  BY <1>1 DEF RecordedAs

\* A step that commits nothing credits nothing.
LEMMA SameRecords ==
    ASSUME entry' = entry
    PROVE  [g \in GatewayIds |-> RecordedAs(g)]' = [g \in GatewayIds |-> RecordedAs(g)]
BY DEF RecordedAs

\* A step of r that ends in no reply tells nobody anything.
LEMMA SameTold ==
    ASSUME IInv, NEW r \in Requests, NEW t, tx' = [tx EXCEPT ![r] = t],
           tx[r].step # "ok", t.step # "ok"
    PROVE  Told' = Told
<1>1. \A q \in Requests : tx'[q] = IF q = r THEN t ELSE tx[q]
  BY DEF IInv, WellFormed, TypeOK
<1>. QED  BY <1>1 DEF Told

LEMMA CommitImplements ==
    ASSUME IInv, IInv', NEW r \in Requests, Commit(r)
    PROVE  [Promise!Next]_<<[g \in GatewayIds |-> RecordedAs(g)], Told>>
<1>. DEFINE s == tx[r]
            t == [Idle EXCEPT !.op = s.op, !.gateway = s.gateway,
                              !.step = "committed"]
<1>1. Told' = Told
  <2>1. tx' = [tx EXCEPT ![r] = t] /\ s.step = "commit"
    BY DEF Commit, AtStep
  <2>2. t.step = "committed"
    BY DEF Idle
  <2>. HIDE DEF t
  <2>. QED  BY <2>1, <2>2, SameTold
<1>2. entry[r] = NoEntry
  <2>1. s.step \notin Settled
    BY DEF Commit, AtStep, Settled
  <2>. QED  BY <2>1, Served DEF IInv, RowsFaithful
<1>3. \A e \in Requests : e # r => entry'[e].gateway = entry[e].gateway
  <2>. TAKE e \in Requests
  <2>. HAVE e # r
  <2>1. entry[e] \in EntryRow
    BY DEF IInv, WellFormed, TypeOK
  <2>2. CASE entry[e].table # "none"
    <3>1. entry'[e] = [entry[e] EXCEPT !.voidedBy = entry'[e].voidedBy]
      BY <2>2, CommitRows DEF SameMoney
    <3>. QED  BY <2>1, <3>1 DEF EntryRow
  <2>3. CASE entry[e].table = "none"
    BY <2>3, CommitRows
  <2>. QED  BY <2>2, <2>3
<1>4. entry'[r].gateway \in GatewayIds \cup {NoValue}
  BY DEF IInv, WellFormed, TypeOK, EntryRow
<1>5. \A g \in GatewayIds :
         RecordedAs(g)' = IF g = entry'[r].gateway THEN r ELSE RecordedAs(g)
  <2>. TAKE g \in GatewayIds
  <2>1. /\ \A e \in Requests : entry'[e].gateway = g => RecordedAs(g)' = e
        /\ (\A e \in Requests : entry'[e].gateway # g) => RecordedAs(g)' = NoValue
    <3>1. ASSUME NEW e \in Requests, entry'[e].gateway = g
          PROVE  RecordedAs(g)' = e
      <4>1. RecordedAs(g)' \in Requests /\ entry'[RecordedAs(g)'].gateway = g
        BY <3>1 DEF RecordedAs
      <4>. QED  BY <3>1, <4>1 DEF IInv, GatewayUnique, Carries
    <3>. QED  BY <3>1 DEF RecordedAs
  <2>2. entry[r].gateway # g
    BY <1>2, NullAssumption DEF NoEntry
  <2>. QED  BY <1>3, <2>1, <2>2, RecordedIs
<1>. DEFINE rec == [g \in GatewayIds |-> RecordedAs(g)]
<1>6. CASE entry'[r].gateway = NoValue
  <2>1. rec' = rec
    BY <1>5, <1>6, NullAssumption
  <2>. QED  BY <1>1, <2>1
<1>7. CASE entry'[r].gateway \in GatewayIds
  <2>. DEFINE g == entry'[r].gateway
  <2>1. rec[g] = NoValue
    <3>1. \A e \in Requests : entry[e].gateway # g
      <4>. SUFFICES ASSUME NEW e \in Requests, entry[e].gateway = g
                    PROVE  FALSE
        OBVIOUS
      <4>1. e # r
        BY <1>2, <1>7, NullAssumption DEF NoEntry
      <4>2. entry'[e].gateway = entry'[r].gateway
        BY <1>3, <4>1
      <4>. QED  BY <1>7, <4>1, <4>2 DEF IInv, GatewayUnique, Carries
    <3>. QED  BY <1>7, <3>1, RecordedIs
  <2>2. rec' = [rec EXCEPT ![g] = r]
    BY <1>5, <1>7
  <2>3. Promise!Record(g, r)
    BY <1>1, <2>1, <2>2 DEF Promise!Record
  <2>. QED  BY <1>7, <2>3 DEF Promise!Next
<1>. QED  BY <1>4, <1>6, <1>7

LEMMA ReplyImplements ==
    ASSUME IInv, NEW r \in Requests, NEW told \in {"ok", "lost"}, Reply(r, told)
    PROVE  [Promise!Next]_<<[g \in GatewayIds |-> RecordedAs(g)], Told>>
<1>. DEFINE s == tx[r]
            t == [s EXCEPT !.step = told]
            rec == [g \in GatewayIds |-> RecordedAs(g)]
<1>1. /\ s \in Transaction /\ LocalsOK(s) /\ Coherent(r, s)
      /\ s.step = "committed" /\ tx' = [tx EXCEPT ![r] = t] /\ entry' = entry
  BY Served DEF Reply
<1>2. rec' = rec
  BY <1>1, SameRecords
<1>3. t.op = s.op /\ t.gateway = s.gateway /\ t.step = told
  BY <1>1 DEF Transaction
<1>. HIDE DEF t
<1>4. \A q \in Requests : tx'[q] = IF q = r THEN t ELSE tx[q]
  BY <1>1 DEF IInv, WellFormed, TypeOK
<1>5. CASE told = "lost" \/ s.op # "verify"
  <2>1. Told' = Told
    BY <1>1, <1>3, <1>4, <1>5 DEF Told
  <2>. QED  BY <1>2, <2>1
<1>6. CASE told = "ok" /\ s.op = "verify"
  <2>. DEFINE g == s.gateway
  <2>1. g \in GatewayIds /\ \E e \in Requests : entry[e].gateway = g
    BY <1>1, <1>6 DEF LocalsOK, Coherent, Settled
  <2>2. rec[g] # NoValue
    BY <2>1, RecordedIs, NullAssumption
  <2>3. Told' = Told \cup {g}
    BY <1>1, <1>3, <1>4, <1>6, <2>1 DEF Told
  <2>4. Promise!Tell(g)
    BY <1>2, <2>2, <2>3 DEF Promise!Tell
  <2>. QED  BY <2>1, <2>4 DEF Promise!Next
<1>. QED  BY <1>5, <1>6

\* Any other step leaves both what is credited and what was told.
LEMMA OthersStutter ==
    ASSUME IInv, NEW r \in Requests,
           \/ Begin(r) \/ Quiet(r) \/ (tx[r].step \in Open /\ Rollback(r))
           \/ InsertEntry(r) \/ VoidEntry(r) \/ Tally(r) \/ WriteSummary(r),
           IInv'
    PROVE  UNCHANGED <<[g \in GatewayIds |-> RecordedAs(g)], Told>>
<1>1. entry' = entry
  BY DEF Begin, BeginVerify, BeginCollect, BeginManualEntry, BeginVoid,
     BeginGenerate, Start, Quiet, ReadInvoice, CheckExisting, ReadBalance,
     ReadEntry, RecomputeSum, RecomputeStatus, GenerateInvoice, Rollback,
     InsertEntry, VoidEntry, Tally, WriteSummary
<1>2. tx[r].step # "ok"
  BY BeginForm DEF Quiet, ReadInvoice, CheckExisting, ReadBalance, ReadEntry,
     RecomputeSum, RecomputeStatus, GenerateInvoice, AtStep, Open, Statements,
     InsertEntry, VoidEntry, Tally, TallyOf, WriteSummary
<1>3. tx[r] \in Transaction
  BY Served
<1>4. ASSUME NEW t, "step" \in DOMAIN t, Proceed(r, t)
      PROVE  \E u : tx' = [tx EXCEPT ![r] = u] /\ u.step # "ok"
  <2>. DEFINE u == [t EXCEPT !.step = After(t.table, t.step)]
  <2>1. u.step # "ok"
    BY <1>4, AfterType DEF Open, Statements
  <2>. QED  BY <1>4, <2>1 DEF Proceed
<1>5. "step" \in DOMAIN tx[r]
  BY <1>3 DEF Transaction
<1>6. ASSUME Rollback(r)
      PROVE  \E u : tx' = [tx EXCEPT ![r] = u] /\ u.step # "ok"
  <2>. DEFINE u == [Idle EXCEPT !.op = tx[r].op, !.step = "failed"]
  <2>1. u.step # "ok"
    BY DEF Idle
  <2>. QED  BY <1>6, <2>1 DEF Rollback
<1>7. CASE Begin(r)
  <2>1. PICK t : Start(r, t) /\ Fresh(t)
    BY <1>7, BeginForm
  <2>. DEFINE u == [t EXCEPT !.day = today]
  <2>2. u.step # "ok"
    BY <2>1 DEF Fresh, Transaction
  <2>3. tx' = [tx EXCEPT ![r] = u]
    BY <2>1 DEF Start
  <2>. HIDE DEF u
  <2>. QED  BY <1>1, <1>2, <2>2, <2>3, SameRecords, SameTold
<1>8. CASE \E t : "step" \in DOMAIN t /\ Proceed(r, t)
  BY <1>1, <1>2, <1>4, <1>8, SameRecords, SameTold
<1>9. CASE Rollback(r)
  BY <1>1, <1>2, <1>6, <1>9, SameRecords, SameTold
<1>10. CASE ReadInvoice(r) \/ ReadBalance(r) \/ ReadEntry(r)
  BY <1>5, <1>8, <1>9, <1>10 DEF ReadInvoice, ReadBalance, ReadEntry
<1>11. CASE CheckExisting(r)
  <2>1. CASE tx' = [tx EXCEPT ![r].step = "commit"]
    <3>. DEFINE u == [tx[r] EXCEPT !.step = "commit"]
    <3>1. tx' = [tx EXCEPT ![r] = u] /\ u.step # "ok"
      BY <1>5, <2>1
    <3>. QED  BY <1>1, <1>2, <3>1, SameRecords, SameTold
  <2>. QED  BY <1>5, <1>8, <1>9, <1>11, <2>1 DEF CheckExisting
<1>12. CASE RecomputeSum(r) \/ RecomputeStatus(r)
  BY <1>5, <1>8, <1>12 DEF RecomputeSum, RecomputeStatus
<1>13. CASE GenerateInvoice(r)
  <2>1. PICK t : /\ "step" \in DOMAIN t /\ t.step = "generate"
                 /\ \/ \E next \in t.todo :
                          tx' = [tx EXCEPT ![r] = [t EXCEPT !.invoice = next,
                                                            !.todo = @ \ {next}]]
                    \/ Proceed(r, [t EXCEPT !.audited = TRUE])
    BY <1>5, <1>13 DEF GenerateInvoice, AtStep
  <2>2. ASSUME NEW next,
               tx' = [tx EXCEPT ![r] = [t EXCEPT !.invoice = next,
                                                 !.todo = @ \ {next}]]
        PROVE  UNCHANGED <<[g \in GatewayIds |-> RecordedAs(g)], Told>>
    <3>. DEFINE u == [t EXCEPT !.invoice = next, !.todo = @ \ {next}]
    <3>1. u.step # "ok"
      BY <2>1
    <3>. QED  BY <1>1, <1>2, <2>2, <3>1, SameRecords, SameTold
  <2>3. "step" \in DOMAIN [t EXCEPT !.audited = TRUE]
    BY <2>1
  <2>. QED  BY <1>8, <2>1, <2>2, <2>3
<1>14. CASE InsertEntry(r) \/ VoidEntry(r)
  BY <1>5, <1>8, <1>9, <1>14 DEF InsertEntry, VoidEntry
<1>15. CASE Tally(r) \/ WriteSummary(r)
  BY <1>5, <1>8, <1>15 DEF Tally, WriteSummary
<1>. QED
  BY <1>7, <1>9, <1>10, <1>11, <1>12, <1>13, <1>14, <1>15 DEF Quiet

\* Online payments are credited exactly as GatewayPayments promises.
THEOREM PaymentsCreditedOnce == Spec => CreditsOnce
<1>. DEFINE promised == <<[g \in GatewayIds |-> RecordedAs(g)], Told>>
<1>1. Init => Promise!Init
  <2>. SUFFICES ASSUME Init
                PROVE  Promise!Init
    OBVIOUS
  <2>1. \A e \in Requests : entry[e] = NoEntry /\ tx[e].op = "none"
    BY DEF Init, Idle
  <2>2. \A g \in GatewayIds : RecordedAs(g) = NoValue
    BY <2>1, NullAssumption DEF RecordedAs, NoEntry
  <2>3. Told = {}
    BY <2>1 DEF Told
  <2>. QED  BY <2>2, <2>3 DEF Promise!Init
<1>2. ASSUME IInv, IInv', [Next]_vars
      PROVE  [Promise!Next]_promised
  <2>1. CASE UNCHANGED vars \/ NextDay
    <3>1. entry' = entry /\ tx' = tx
      BY <2>1 DEF vars, NextDay
    <3>2. Told' = Told
      BY <3>1 DEF Told
    <3>. QED  BY <3>1, <3>2, SameRecords
  <2>2. ASSUME NEW r \in Requests,
               Commit(r) \/ Reply(r, "ok") \/ Reply(r, "lost")
        PROVE  [Promise!Next]_promised
    BY <1>2, <2>2, CommitImplements, ReplyImplements
  <2>3. ASSUME NEW r \in Requests,
               \/ Begin(r) \/ Quiet(r) \/ (tx[r].step \in Open /\ Rollback(r))
               \/ InsertEntry(r) \/ VoidEntry(r) \/ Tally(r) \/ WriteSummary(r)
        PROVE  [Promise!Next]_promised
    BY <1>2, <2>3, OthersStutter
  <2>. QED  BY <1>2, <2>1, <2>2, <2>3, NextCases
<1>3. IInv /\ IInv' /\ [Next]_vars => [Promise!Next]_promised
  BY <1>2
<1>. QED  BY <1>1, <1>3, Invariance, PTL DEF Spec, CreditsOnce, Promise!Spec

-----------------------------------------------------------------------------
(* The audit trail *)

\* A request that is about to commit money rows has written its audit row, and
\* voids in its own name.
Audits(r, t) ==
    /\ t.step = "commit" => t.audited = TRUE \/ \A e \in Requests : t.rows[e] = NoValue
    /\ \A e \in Requests : t.rows[e] # NoValue => t.rows[e].voidedBy \in {NoValue, r}

AInv == AuditComplete /\ \A r \in Requests : Audits(r, tx[r])

LEMMA AuditKept ==
    ASSUME IInv, AInv, NEW r \in Requests, NEW t, tx' = [tx EXCEPT ![r] = t],
           entry' = entry, audit' = audit, Audits(r, t),
           tx[r].step \in Settled => t.step \in Settled
    PROVE  AInv'
<1>1. \A q \in Requests : tx'[q] = IF q = r THEN t ELSE tx[q]
  BY DEF IInv, WellFormed, TypeOK
<1>2. AuditComplete'
  BY <1>1 DEF AInv, AuditComplete
<1>3. \A q \in Requests : Audits(q, tx'[q])
  BY <1>1 DEF AInv
<1>4. \A q \in Requests : Audits(q, tx[q])'
  BY <1>3 DEF Audits
<1>. QED  BY <1>2, <1>4 DEF AInv

\* A step of r that leaves its money rows alone, and does not commit unaudited.
LEMMA SameRowsAudits ==
    ASSUME IInv, AInv, NEW r \in Requests, NEW t, tx' = [tx EXCEPT ![r] = t],
           entry' = entry, audit' = audit, t.rows = tx[r].rows,
           tx[r].step \notin Settled, t.step = "commit" => t.audited = TRUE
    PROVE  AInv'
<1>1. Audits(r, t)
  BY DEF AInv, Audits
<1>. QED  BY <1>1, AuditKept

LEMMA NoRowsAudits ==
    ASSUME IInv, AInv, NEW r \in Requests, NEW t, tx' = [tx EXCEPT ![r] = t],
           entry' = entry, audit' = audit, t.rows = NoRows,
           tx[r].step \in Settled => t.step \in Settled
    PROVE  AInv'
<1>1. Audits(r, t)
  BY DEF Audits, NoRows
<1>. QED  BY <1>1, AuditKept

LEMMA QuietAudits ==
    ASSUME IInv, AInv, NEW r \in Requests, Quiet(r), ~Rollback(r)
    PROVE  AInv'
<1>. DEFINE s == tx[r]
<1>1. s \in Transaction /\ LocalsOK(s)
  BY Served
<1>2. ASSUME NEW t, DOMAIN t = DOMAIN s, t.step = s.step, t.table = s.table,
             t.rows = s.rows, Proceed(r, t), entry' = entry, audit' = audit,
             s.step \in Statements \ {"summary", "generate"}
      PROVE  AInv'
  <2>. DEFINE u == [t EXCEPT !.step = After(t.table, t.step)]
  <2>1. tx' = [tx EXCEPT ![r] = u]
    BY <1>2 DEF Proceed
  <2>2. u.rows = s.rows /\ u.step = After(s.table, s.step)
    BY <1>1, <1>2 DEF Transaction
  <2>3. u.step # "commit" /\ s.step \notin Settled
    BY <1>2, <2>2 DEF After, AfterWrite, Statements, Settled
  <2>. HIDE DEF u
  <2>. QED  BY <1>2, <2>1, <2>2, <2>3, SameRowsAudits
<1>3. CASE ReadInvoice(r)
  <2>. DEFINE t == [s EXCEPT !.due = invoice[s.invoice].due]
  <2>1. s.step = "invoice" /\ Proceed(r, t) /\ entry' = entry /\ audit' = audit
    BY <1>3 DEF ReadInvoice, AtStep
  <2>2. DOMAIN t = DOMAIN s /\ t.step = s.step /\ t.table = s.table /\ t.rows = s.rows
    BY <1>1 DEF Transaction
  <2>. HIDE DEF t
  <2>. QED  BY <1>2, <2>1, <2>2 DEF Statements
<1>4. CASE CheckExisting(r)
  <2>1. s.step = "existing" /\ entry' = entry /\ audit' = audit
    BY <1>4 DEF CheckExisting, AtStep
  <2>2. CASE tx' = [tx EXCEPT ![r].step = "commit"]
    <3>. DEFINE u == [s EXCEPT !.step = "commit"]
    <3>1. tx' = [tx EXCEPT ![r] = u]
      BY <2>2 DEF IInv, WellFormed, TypeOK
    <3>2. u.rows = NoRows /\ s.step \notin Settled
      BY <1>1, <2>1 DEF LocalsOK, Unwritten, Transaction, Settled
    <3>. HIDE DEF u
    <3>. QED  BY <2>1, <3>1, <3>2, NoRowsAudits
  <2>3. CASE Proceed(r, s)
    BY <1>2, <2>1, <2>3 DEF Statements
  <2>. QED  BY <1>4, <2>2, <2>3 DEF CheckExisting
<1>5. CASE ReadBalance(r)
  <2>1. PICK a \in Nat \ {0} : Proceed(r, [s EXCEPT !.amount = a, !.due = 0])
    BY <1>5 DEF ReadBalance
  <2>. DEFINE t == [s EXCEPT !.amount = a, !.due = 0]
  <2>2. s.step = "balance" /\ Proceed(r, t) /\ entry' = entry /\ audit' = audit
    BY <1>5, <2>1 DEF ReadBalance, AtStep
  <2>3. DOMAIN t = DOMAIN s /\ t.step = s.step /\ t.table = s.table /\ t.rows = s.rows
    BY <1>1 DEF Transaction
  <2>. HIDE DEF t
  <2>. QED  BY <1>2, <2>2, <2>3 DEF Statements
<1>6. CASE ReadEntry(r)
  <2>. DEFINE t == [s EXCEPT !.invoice = entry[s.target].invoice]
  <2>1. s.step = "row" /\ Proceed(r, t) /\ entry' = entry /\ audit' = audit
    BY <1>6 DEF ReadEntry, AtStep
  <2>2. DOMAIN t = DOMAIN s /\ t.step = s.step /\ t.table = s.table /\ t.rows = s.rows
    BY <1>1 DEF Transaction
  <2>. HIDE DEF t
  <2>. QED  BY <1>2, <2>1, <2>2 DEF Statements
<1>7. CASE RecomputeSum(r)
  <2>. DEFINE t == [s EXCEPT !.seen = LivePayments(View(r), s.invoice)]
  <2>1. s.step = "recompute" /\ Proceed(r, t) /\ entry' = entry /\ audit' = audit
    BY <1>7 DEF RecomputeSum, AtStep
  <2>2. DOMAIN t = DOMAIN s /\ t.step = s.step /\ t.table = s.table /\ t.rows = s.rows
    BY <1>1 DEF Transaction
  <2>. HIDE DEF t
  <2>. QED  BY <1>2, <2>1, <2>2 DEF Statements
<1>8. CASE RecomputeStatus(r)
  <2>1. PICK row : Proceed(r, [s EXCEPT !.invoices[s.invoice] = row, !.seen = {}])
    BY <1>8 DEF RecomputeStatus
  <2>. DEFINE t == [s EXCEPT !.invoices[s.invoice] = row, !.seen = {}]
  <2>2. s.step = "status" /\ Proceed(r, t) /\ entry' = entry /\ audit' = audit
    BY <1>8, <2>1 DEF RecomputeStatus, AtStep
  <2>3. DOMAIN t = DOMAIN s /\ t.step = s.step /\ t.table = s.table /\ t.rows = s.rows
    BY <1>1 DEF Transaction
  <2>. HIDE DEF t
  <2>. QED  BY <1>2, <2>2, <2>3 DEF Statements
<1>9. CASE GenerateInvoice(r)
  <2>1. /\ s.step = "generate" /\ s.step \notin Settled
        /\ entry' = entry /\ audit' = audit
    BY <1>9 DEF GenerateInvoice, AtStep, Settled
  <2>2. PICK row :
          LET t == [s EXCEPT !.invoices[s.invoice] = row]
          IN  \/ \E next \in t.todo :
                    tx' = [tx EXCEPT ![r] = [t EXCEPT !.invoice = next,
                                                      !.todo = @ \ {next}]]
              \/ Proceed(r, [t EXCEPT !.audited = TRUE])
    BY <1>9 DEF GenerateInvoice
  <2>. DEFINE t == [s EXCEPT !.invoices[s.invoice] = row]
  <2>3. ASSUME NEW next, tx' = [tx EXCEPT ![r] = [t EXCEPT !.invoice = next,
                                                           !.todo = @ \ {next}]]
        PROVE  AInv'
    <3>. DEFINE u == [t EXCEPT !.invoice = next, !.todo = @ \ {next}]
    <3>1. u.rows = s.rows /\ u.step = "generate"
      BY <1>1, <2>1 DEF Transaction
    <3>2. tx' = [tx EXCEPT ![r] = u]
      BY <2>3
    <3>. HIDE DEF u
    <3>. QED  BY <2>1, <3>1, <3>2, SameRowsAudits
  <2>4. CASE Proceed(r, [t EXCEPT !.audited = TRUE])
    <3>. DEFINE w == [t EXCEPT !.audited = TRUE]
                u == [w EXCEPT !.step = After(w.table, w.step)]
    <3>1. u.rows = s.rows /\ u.audited = TRUE
      BY <1>1 DEF Transaction
    <3>2. tx' = [tx EXCEPT ![r] = u]
      BY <2>4 DEF Proceed
    <3>. HIDE DEF u
    <3>. QED  BY <2>1, <3>1, <3>2, SameRowsAudits
  <2>. QED  BY <2>2, <2>3, <2>4
<1>. QED  BY <1>3, <1>4, <1>5, <1>6, <1>7, <1>8, <1>9 DEF Quiet

LEMMA WriteAudits ==
    ASSUME IInv, AInv, NEW r \in Requests, InsertEntry(r) \/ VoidEntry(r), ~Rollback(r)
    PROVE  AInv'
<1>. DEFINE s == tx[r]
<1>1. s \in Transaction /\ LocalsOK(s) /\ s.step \in {"insert", "void"}
  BY Served DEF InsertEntry, VoidEntry, AtStep
<1>2. s.rows = NoRows /\ s.step \notin Settled
  BY <1>1 DEF LocalsOK, Unwritten, Settled
<1>3. ASSUME NEW d \in Requests, NEW row, row.voidedBy \in {NoValue, r},
             Proceed(r, [s EXCEPT !.rows[d] = row]), entry' = entry, audit' = audit
      PROVE  AInv'
  <2>. DEFINE t == [s EXCEPT !.rows[d] = row]
              u == [t EXCEPT !.step = After(t.table, t.step)]
  <2>1. tx' = [tx EXCEPT ![r] = u]
    BY <1>3 DEF Proceed
  <2>2. u.rows = [s.rows EXCEPT ![d] = row] /\ u.step # "commit"
    BY <1>1 DEF Transaction, After, AfterWrite
  <2>. HIDE DEF u
  <2>3. \A e \in Requests : u.rows[e] = IF e = d THEN row ELSE NoValue
    BY <1>2, <2>2 DEF NoRows
  <2>4. Audits(r, u)
    BY <1>3, <2>2, <2>3 DEF Audits
  <2>. QED  BY <1>2, <1>3, <2>1, <2>4, AuditKept
<1>4. CASE InsertEntry(r)
  <2>1. /\ Proceed(r, [s EXCEPT !.rows[r] = NewEntry(s)])
        /\ entry' = entry /\ audit' = audit
    BY <1>4 DEF InsertEntry
  <2>2. NewEntry(s).voidedBy = NoValue
    BY DEF NewEntry
  <2>. QED  BY <1>3, <2>1, <2>2
<1>5. CASE VoidEntry(r)
  <2>. DEFINE d == s.target
              row == [entry[d] EXCEPT !.voidedBy = r]
  <2>1. /\ Proceed(r, [s EXCEPT !.rows[d] = row]) /\ s.step = "void"
        /\ entry' = entry /\ audit' = audit
    BY <1>5 DEF VoidEntry, AtStep
  <2>2. d \in Requests
    BY <1>1, <2>1 DEF LocalsOK
  <2>3. entry[d] \in EntryRow
    BY <2>2 DEF IInv, WellFormed, TypeOK
  <2>4. row.voidedBy = r
    BY <2>3 DEF EntryRow
  <2>. HIDE DEF row
  <2>. QED  BY <1>3, <2>1, <2>2, <2>4
<1>. QED  BY <1>4, <1>5

LEMMA RevenueAudits ==
    ASSUME IInv, AInv, NEW r \in Requests, Tally(r) \/ WriteSummary(r)
    PROVE  AInv'
<1>. DEFINE s == tx[r]
<1>1. s \in Transaction
  BY Served
<1>2. CASE Tally(r)
  <2>1. PICK step, counted :
           /\ step \in DOMAIN TallyOf
           /\ AtStep(r, step) /\ Proceed(r, [s EXCEPT !.counted = counted])
           /\ entry' = entry /\ audit' = audit
    BY <1>2 DEF Tally
  <2>. DEFINE t == [s EXCEPT !.counted = counted]
              u == [t EXCEPT !.step = After(t.table, t.step)]
  <2>2. s.step \in {"fees", "other", "expense"}
    BY <2>1 DEF AtStep, TallyOf
  <2>3. u.rows = s.rows /\ u.step # "commit" /\ s.step \notin Settled
    BY <1>1, <2>2 DEF Transaction, After, AfterWrite, Settled
  <2>4. tx' = [tx EXCEPT ![r] = u]
    BY <2>1 DEF Proceed
  <2>. HIDE DEF u
  <2>. QED  BY <2>1, <2>3, <2>4, SameRowsAudits
<1>3. CASE WriteSummary(r)
  <2>1. PICK row :
           /\ AtStep(r, "summary")
           /\ Proceed(r, [s EXCEPT !.summary = row, !.counted = {}, !.audited = TRUE])
           /\ entry' = entry /\ audit' = audit
    BY <1>3 DEF WriteSummary
  <2>. DEFINE t == [s EXCEPT !.summary = row, !.counted = {}, !.audited = TRUE]
              u == [t EXCEPT !.step = After(t.table, t.step)]
  <2>2. u.rows = s.rows /\ u.audited = TRUE
    BY <1>1 DEF Transaction
  <2>3. tx' = [tx EXCEPT ![r] = u] /\ s.step \notin Settled
    BY <2>1 DEF Proceed, AtStep, Settled
  <2>. HIDE DEF u
  <2>. QED  BY <2>1, <2>2, <2>3, SameRowsAudits
<1>. QED  BY <1>2, <1>3

LEMMA EndAudits ==
    ASSUME IInv, AInv, NEW r \in Requests,
           \/ tx[r].step \in Open /\ Rollback(r)
           \/ Reply(r, "ok") \/ Reply(r, "lost")
           \/ Begin(r)
    PROVE  AInv'
<1>. DEFINE s == tx[r]
<1>1. s \in Transaction /\ LocalsOK(s)
  BY Served
<1>2. CASE s.step \in Open /\ Rollback(r)
  <2>. DEFINE u == [Idle EXCEPT !.op = s.op, !.step = "failed"]
  <2>1. tx' = [tx EXCEPT ![r] = u] /\ entry' = entry /\ audit' = audit
    BY <1>2 DEF Rollback
  <2>2. u.rows = NoRows /\ s.step \notin Settled
    BY <1>2 DEF Idle, Open, Statements, Settled
  <2>. HIDE DEF u
  <2>. QED  BY <2>1, <2>2, NoRowsAudits
<1>3. ASSUME NEW told \in {"ok", "lost"}, Reply(r, told)
      PROVE  AInv'
  <2>. DEFINE u == [s EXCEPT !.step = told]
  <2>1. /\ tx' = [tx EXCEPT ![r] = u] /\ entry' = entry /\ audit' = audit
        /\ s.step = "committed"
    BY <1>3 DEF Reply, IInv, WellFormed, TypeOK
  <2>2. u.rows = NoRows /\ u.step \in Settled
    BY <1>1, <2>1 DEF Transaction, LocalsOK, Unwritten, Settled
  <2>. HIDE DEF u
  <2>. QED  BY <2>1, <2>2, NoRowsAudits
<1>4. CASE Begin(r)
  <2>1. PICK t : Start(r, t) /\ Fresh(t)
    BY <1>4, BeginForm
  <2>. DEFINE u == [t EXCEPT !.day = today]
  <2>2. tx' = [tx EXCEPT ![r] = u] /\ entry' = entry /\ audit' = audit
    BY <2>1 DEF Start
  <2>3. u.rows = NoRows /\ s.step \notin Settled
    BY <1>4, <2>1, BeginForm DEF Fresh, Transaction, Settled
  <2>. HIDE DEF u
  <2>. QED  BY <2>2, <2>3, NoRowsAudits
<1>. QED  BY <1>2, <1>3, <1>4

LEMMA CommitAudits ==
    ASSUME IInv, AInv, NEW r \in Requests, Commit(r)
    PROVE  AInv'
<1>. DEFINE s == tx[r]
            u == [Idle EXCEPT !.op = s.op, !.gateway = s.gateway, !.step = "committed"]
<1>1. /\ s \in Transaction /\ s.step = "commit" /\ Audits(r, s)
      /\ tx' = [tx EXCEPT ![r] = u]
  BY Served DEF Commit, AtStep, AInv
<1>2. u.rows = NoRows /\ u.step = "committed"
  BY DEF Idle
<1>. HIDE DEF u
<1>3. \A q \in Requests : tx'[q] = IF q = r THEN u ELSE tx[q]
  BY <1>1 DEF IInv, WellFormed, TypeOK
<1>4. \A q \in Requests : Audits(q, tx[q])'
  <2>1. Audits(r, u)
    BY <1>2 DEF Audits, NoRows
  <2>2. \A q \in Requests : Audits(q, tx'[q])
    BY <1>3, <2>1 DEF AInv
  <2>. QED  BY <2>2 DEF Audits
<1>5. audit \subseteq audit' /\ audit' \subseteq audit \cup {r}
  BY DEF Commit
<1>6. ASSUME NEW e \in Requests, s.rows[e] # NoValue
      PROVE  r \in audit' /\ s.rows[e].voidedBy \in {NoValue, r}
  BY <1>1, <1>6 DEF Audits, Commit
<1>7. ASSUME NEW e \in Requests
      PROVE  /\ entry'[e].table # "none" => e \in audit'
             /\ entry'[e].voidedBy # NoValue => entry'[e].voidedBy \in audit'
             /\ e \in audit' => tx'[e].step \in Settled
  <2>1. e \in audit' => tx'[e].step \in Settled
    BY <1>2, <1>3, <1>5 DEF AInv, AuditComplete, Settled
  <2>2. CASE s.rows[e] = NoValue
    <3>1. entry'[e] = entry[e]
      BY <2>2, CommitRows
    <3>. QED  BY <1>5, <2>1, <3>1 DEF AInv, AuditComplete
  <2>3. CASE s.rows[e] # NoValue
    <3>1. entry'[e] = s.rows[e]
      BY <2>3, CommitRows
    <3>2. entry[e].table = "none" => e = r
      BY <2>3 DEF IInv, RowsFaithful
    <3>3. e \in audit'
      BY <1>5, <1>6, <2>3, <3>2 DEF AInv, AuditComplete
    <3>. QED  BY <1>6, <2>1, <2>3, <3>1, <3>3
  <2>. QED  BY <2>2, <2>3
<1>8. AuditComplete'
  BY <1>7 DEF AuditComplete
<1>. QED  BY <1>4, <1>8 DEF AInv

\* Every recorded receipt, income and expense, and every void of one, has the
\* audit row its request wrote in the same transaction, and no audit row outlives
\* a request that was rolled back.
THEOREM EveryChangeIsAudited == Spec => []AuditComplete
<1>1. Init => AInv
  <2>. SUFFICES ASSUME Init
                PROVE  AInv
    OBVIOUS
  <2>1. \A e \in Requests : entry[e] = NoEntry /\ tx[e] = Idle /\ e \notin audit
    BY DEF Init
  <2>2. Idle.step = "idle" /\ \A e \in Requests : Idle.rows[e] = NoValue
    BY IdleType DEF Idle
  <2>3. NoEntry.table = "none" /\ NoEntry.voidedBy = NoValue
    BY DEF NoEntry
  <2>. QED  BY <2>1, <2>2, <2>3 DEF AInv, AuditComplete, Audits
<1>2. ASSUME IInv, AInv, [Next]_vars
      PROVE  AInv'
  <2>1. CASE UNCHANGED vars \/ NextDay
    <3>1. entry' = entry /\ tx' = tx /\ audit' = audit
      BY <2>1 DEF vars, NextDay
    <3>. QED  BY <1>2, <3>1 DEF AInv, AuditComplete, Audits
  <2>2. ASSUME NEW r \in Requests,
               \/ Begin(r) \/ (tx[r].step \in Open /\ Rollback(r))
               \/ Reply(r, "ok") \/ Reply(r, "lost")
        PROVE  AInv'
    BY <1>2, <2>2, EndAudits
  <2>3. ASSUME NEW r \in Requests, Quiet(r) \/ InsertEntry(r) \/ VoidEntry(r)
        PROVE  AInv'
    <3>1. tx[r].step \in Open
      BY <2>3 DEF Quiet, ReadInvoice, CheckExisting, ReadBalance, ReadEntry,
                  RecomputeSum, RecomputeStatus, GenerateInvoice, InsertEntry,
                  VoidEntry, AtStep, Open, Statements
    <3>. QED  BY <1>2, <2>3, <3>1, QuietAudits, WriteAudits, EndAudits
  <2>4. ASSUME NEW r \in Requests, Tally(r) \/ WriteSummary(r) \/ Commit(r)
        PROVE  AInv'
    BY <1>2, <2>4, RevenueAudits, CommitAudits
  <2>. QED  BY <1>2, <2>1, <2>2, <2>3, <2>4, NextCases
<1>3. IInv /\ AInv /\ [Next]_vars => AInv'
  BY <1>2
<1>4. AInv => AuditComplete
  BY DEF AInv
<1>. QED  BY <1>1, <1>3, <1>4, Invariance, PTL DEF Spec

-----------------------------------------------------------------------------
(* Deadlocks *)

\* In which order a transaction takes its locks: a money row, then an invoice,
\* then the summary, and nothing after it; only a generation takes invoices alone.
LockOK(t) ==
    /\ t.step \in Unwritten \cup {"recompute", "status"} => t.invoices = NoInvoices
    /\ t.summary # NoValue => t.step = "commit"
    /\ t.step = "generate" => t.op = "generate"

LInv == \A r \in Requests : LockOK(tx[r])

LEMMA LockKept ==
    ASSUME IInv, LInv, NEW r \in Requests, NEW t, tx' = [tx EXCEPT ![r] = t], LockOK(t)
    PROVE  LInv'
<1>1. \A q \in Requests : tx'[q] = IF q = r THEN t ELSE tx[q]
  BY DEF IInv, WellFormed, TypeOK
<1>2. \A q \in Requests : LockOK(tx'[q])
  BY <1>1 DEF LInv
<1>. QED  BY <1>2 DEF LInv, LockOK

\* A statement that locks neither an invoice nor the summary.
LEMMA StatementLocks ==
    ASSUME IInv, LInv, NEW r \in Requests, NEW t, Proceed(r, t),
           DOMAIN t = DOMAIN tx[r], t.step = tx[r].step, t.table = tx[r].table,
           t.invoices = tx[r].invoices, t.summary = tx[r].summary,
           tx[r].step \in Statements \ {"status", "summary", "generate"}
    PROVE  LInv'
<1>. DEFINE s == tx[r]
            u == [t EXCEPT !.step = After(t.table, t.step)]
<1>1. s \in Transaction /\ LockOK(s)
  BY Served DEF LInv
<1>2. tx' = [tx EXCEPT ![r] = u]
  BY DEF Proceed
<1>3. /\ u.invoices = s.invoices /\ u.summary = s.summary
      /\ u.step = After(s.table, s.step)
  BY <1>1 DEF Transaction
<1>. HIDE DEF u
<1>4. u.step # "generate" /\ s.step # "commit"
  BY <1>3 DEF After, AfterWrite, Statements
<1>5. u.step \in Unwritten \cup {"recompute", "status"}
         => s.step \in Unwritten \cup {"recompute"}
  BY <1>3 DEF After, AfterWrite, Statements, Unwritten, Settled
<1>6. LockOK(u)
  BY <1>1, <1>3, <1>4, <1>5 DEF LockOK
<1>. QED  BY <1>2, <1>6, LockKept

LEMMA ServeLocks ==
    ASSUME IInv, LInv, NEW r \in Requests, ~Rollback(r),
           \/ Quiet(r) \/ InsertEntry(r) \/ VoidEntry(r) \/ Tally(r) \/ WriteSummary(r)
    PROVE  LInv'
<1>. DEFINE s == tx[r]
            Keeps(t) == /\ Proceed(r, t) /\ DOMAIN t = DOMAIN s /\ t.step = s.step
                        /\ t.table = s.table /\ t.invoices = s.invoices
                        /\ t.summary = s.summary
<1>1. s \in Transaction /\ LockOK(s)
  BY Served DEF LInv
<1>2. ASSUME NEW t, Keeps(t), s.step \in Statements \ {"status", "summary", "generate"}
      PROVE  LInv'
  BY <1>2, StatementLocks
<1>3. CASE ReadInvoice(r)
  <2>. DEFINE t == [s EXCEPT !.due = invoice[s.invoice].due]
  <2>1. s.step = "invoice" /\ Proceed(r, t)
    BY <1>3 DEF ReadInvoice, AtStep
  <2>2. Keeps(t)
    BY <1>1, <2>1 DEF Transaction
  <2>. HIDE DEF t, Keeps
  <2>. QED  BY <1>2, <2>1, <2>2 DEF Statements
<1>4. CASE CheckExisting(r)
  <2>1. s.step = "existing"
    BY <1>4 DEF CheckExisting, AtStep
  <2>2. CASE tx' = [tx EXCEPT ![r].step = "commit"]
    <3>. DEFINE u == [s EXCEPT !.step = "commit"]
    <3>1. tx' = [tx EXCEPT ![r] = u]
      BY <2>2 DEF IInv, WellFormed, TypeOK
    <3>2. u.step = "commit"
      BY <1>1 DEF Transaction
    <3>. HIDE DEF u
    <3>3. LockOK(u)
      BY <3>2 DEF LockOK, Unwritten, Settled
    <3>. QED  BY <3>1, <3>3, LockKept
  <2>3. CASE Proceed(r, s)
    BY <1>2, <2>1, <2>3 DEF Statements
  <2>. QED  BY <1>4, <2>2, <2>3 DEF CheckExisting
<1>5. CASE ReadBalance(r)
  <2>1. PICK a \in Nat \ {0} : Proceed(r, [s EXCEPT !.amount = a, !.due = 0])
    BY <1>5 DEF ReadBalance
  <2>. DEFINE t == [s EXCEPT !.amount = a, !.due = 0]
  <2>2. s.step = "balance"
    BY <1>5 DEF ReadBalance, AtStep
  <2>3. Keeps(t)
    BY <1>1, <2>1 DEF Transaction
  <2>. HIDE DEF t, Keeps
  <2>. QED  BY <1>2, <2>2, <2>3 DEF Statements
<1>6. CASE ReadEntry(r)
  <2>. DEFINE t == [s EXCEPT !.invoice = entry[s.target].invoice]
  <2>1. s.step = "row" /\ Proceed(r, t)
    BY <1>6 DEF ReadEntry, AtStep
  <2>2. Keeps(t)
    BY <1>1, <2>1 DEF Transaction
  <2>. HIDE DEF t, Keeps
  <2>. QED  BY <1>2, <2>1, <2>2 DEF Statements
<1>7. CASE RecomputeSum(r)
  <2>. DEFINE t == [s EXCEPT !.seen = LivePayments(View(r), s.invoice)]
  <2>1. s.step = "recompute" /\ Proceed(r, t)
    BY <1>7 DEF RecomputeSum, AtStep
  <2>2. Keeps(t)
    BY <1>1, <2>1 DEF Transaction
  <2>. HIDE DEF t, Keeps
  <2>. QED  BY <1>2, <2>1, <2>2 DEF Statements
<1>8. CASE RecomputeStatus(r)
  <2>1. PICK row : Proceed(r, [s EXCEPT !.invoices[s.invoice] = row, !.seen = {}])
    BY <1>8 DEF RecomputeStatus
  <2>. DEFINE t == [s EXCEPT !.invoices[s.invoice] = row, !.seen = {}]
              u == [t EXCEPT !.step = After(t.table, t.step)]
  <2>2. s.step = "status" /\ tx' = [tx EXCEPT ![r] = u]
    BY <1>8, <2>1 DEF RecomputeStatus, AtStep, Proceed
  <2>3. u.summary = s.summary /\ u.step = "fees"
    BY <1>1, <2>2 DEF Transaction, After, AfterWrite
  <2>. HIDE DEF u
  <2>4. LockOK(u)
    BY <1>1, <2>2, <2>3 DEF LockOK, Unwritten, Settled
  <2>. QED  BY <2>2, <2>4, LockKept
<1>9. CASE GenerateInvoice(r)
  <2>1. s.step = "generate" /\ s.op = "generate" /\ s.summary = NoValue
    BY <1>1, <1>9 DEF GenerateInvoice, AtStep, LockOK
  <2>2. PICK row :
          LET t == [s EXCEPT !.invoices[s.invoice] = row]
          IN  \/ \E next \in t.todo :
                    tx' = [tx EXCEPT ![r] = [t EXCEPT !.invoice = next,
                                                      !.todo = @ \ {next}]]
              \/ Proceed(r, [t EXCEPT !.audited = TRUE])
    BY <1>9 DEF GenerateInvoice
  <2>. DEFINE t == [s EXCEPT !.invoices[s.invoice] = row]
  <2>3. ASSUME NEW next, tx' = [tx EXCEPT ![r] = [t EXCEPT !.invoice = next,
                                                           !.todo = @ \ {next}]]
        PROVE  LInv'
    <3>. DEFINE u == [t EXCEPT !.invoice = next, !.todo = @ \ {next}]
    <3>1. u.op = s.op /\ u.summary = s.summary /\ u.step = "generate"
      BY <1>1, <2>1 DEF Transaction
    <3>2. tx' = [tx EXCEPT ![r] = u]
      BY <2>3
    <3>. HIDE DEF u
    <3>3. LockOK(u)
      BY <2>1, <3>1 DEF LockOK, Unwritten, Settled
    <3>. QED  BY <3>2, <3>3, LockKept
  <2>4. CASE Proceed(r, [t EXCEPT !.audited = TRUE])
    <3>. DEFINE w == [t EXCEPT !.audited = TRUE]
                u == [w EXCEPT !.step = After(w.table, w.step)]
    <3>1. u.step = "commit"
      BY <1>1, <2>1 DEF Transaction, After, AfterWrite
    <3>2. tx' = [tx EXCEPT ![r] = u]
      BY <2>4 DEF Proceed
    <3>. HIDE DEF u
    <3>3. LockOK(u)
      BY <3>1 DEF LockOK, Unwritten, Settled
    <3>. QED  BY <3>2, <3>3, LockKept
  <2>. QED  BY <2>2, <2>3, <2>4
<1>10. CASE InsertEntry(r)
  <2>. DEFINE t == [s EXCEPT !.rows[r] = NewEntry(s)]
  <2>1. s.step = "insert" /\ Proceed(r, t)
    BY <1>10 DEF InsertEntry, AtStep
  <2>2. Keeps(t)
    BY <1>1, <2>1 DEF Transaction
  <2>. HIDE DEF t, Keeps
  <2>. QED  BY <1>2, <2>1, <2>2 DEF Statements
<1>11. CASE VoidEntry(r)
  <2>1. PICK row : Proceed(r, [s EXCEPT !.rows[s.target] = row])
    BY <1>11 DEF VoidEntry
  <2>. DEFINE t == [s EXCEPT !.rows[s.target] = row]
  <2>2. s.step = "void"
    BY <1>11 DEF VoidEntry, AtStep
  <2>3. Keeps(t)
    BY <1>1, <2>1 DEF Transaction
  <2>. HIDE DEF t, Keeps
  <2>. QED  BY <1>2, <2>2, <2>3 DEF Statements
<1>12. CASE Tally(r)
  <2>1. PICK step, counted :
           /\ step \in DOMAIN TallyOf /\ AtStep(r, step)
           /\ Proceed(r, [s EXCEPT !.counted = counted])
    BY <1>12 DEF Tally
  <2>. DEFINE t == [s EXCEPT !.counted = counted]
  <2>2. s.step \in {"fees", "other", "expense"}
    BY <2>1 DEF AtStep, TallyOf
  <2>3. Keeps(t)
    BY <1>1, <2>1 DEF Transaction
  <2>. HIDE DEF t, Keeps
  <2>. QED  BY <1>2, <2>2, <2>3 DEF Statements
<1>13. CASE WriteSummary(r)
  <2>1. PICK row :
           /\ AtStep(r, "summary")
           /\ Proceed(r, [s EXCEPT !.summary = row, !.counted = {}, !.audited = TRUE])
    BY <1>13 DEF WriteSummary
  <2>. DEFINE t == [s EXCEPT !.summary = row, !.counted = {}, !.audited = TRUE]
              u == [t EXCEPT !.step = After(t.table, t.step)]
  <2>2. u.step = "commit"
    BY <1>1, <2>1 DEF Transaction, After, AfterWrite, AtStep
  <2>3. tx' = [tx EXCEPT ![r] = u]
    BY <2>1 DEF Proceed
  <2>. HIDE DEF u
  <2>4. LockOK(u)
    BY <2>2 DEF LockOK, Unwritten, Settled
  <2>. QED  BY <2>3, <2>4, LockKept
<1>. QED
  BY <1>3, <1>4, <1>5, <1>6, <1>7, <1>8, <1>9, <1>10, <1>11, <1>12, <1>13 DEF Quiet

LEMMA EndLocks ==
    ASSUME IInv, LInv, NEW r \in Requests,
           \/ Begin(r) \/ Rollback(r) \/ Commit(r) \/ Reply(r, "ok") \/ Reply(r, "lost")
    PROVE  LInv'
<1>. DEFINE s == tx[r]
<1>1. s \in Transaction /\ LockOK(s)
  BY Served DEF LInv
<1>2. ASSUME NEW u, tx' = [tx EXCEPT ![r] = u], u.invoices = NoInvoices,
             u.summary = NoValue, u.step = "generate" => u.op = "generate"
      PROVE  LInv'
  BY <1>2, LockKept DEF LockOK
<1>3. CASE Begin(r)
  <2>1. PICK t : Start(r, t) /\ Fresh(t)
    BY <1>3, BeginForm
  <2>. DEFINE u == [t EXCEPT !.day = today]
  <2>2. tx' = [tx EXCEPT ![r] = u]
    BY <2>1 DEF Start
  <2>3. /\ u.invoices = NoInvoices /\ u.summary = NoValue
        /\ u.step = "generate" => u.op = "generate"
    BY <2>1 DEF Fresh, Transaction
  <2>. HIDE DEF u
  <2>. QED  BY <1>2, <2>2, <2>3
<1>4. CASE Rollback(r)
  <2>. DEFINE u == [Idle EXCEPT !.op = s.op, !.step = "failed"]
  <2>1. tx' = [tx EXCEPT ![r] = u]
    BY <1>4 DEF Rollback
  <2>2. u.invoices = NoInvoices /\ u.summary = NoValue /\ u.step = "failed"
    BY DEF Idle
  <2>. HIDE DEF u
  <2>. QED  BY <1>2, <2>1, <2>2
<1>5. CASE Commit(r)
  <2>. DEFINE u == [Idle EXCEPT !.op = s.op, !.gateway = s.gateway,
                                !.step = "committed"]
  <2>1. tx' = [tx EXCEPT ![r] = u]
    BY <1>5 DEF Commit
  <2>2. u.invoices = NoInvoices /\ u.summary = NoValue /\ u.step = "committed"
    BY DEF Idle
  <2>. HIDE DEF u
  <2>. QED  BY <1>2, <2>1, <2>2
<1>6. ASSUME NEW told \in {"ok", "lost"}, Reply(r, told)
      PROVE  LInv'
  <2>. DEFINE u == [s EXCEPT !.step = told]
  <2>1. tx' = [tx EXCEPT ![r] = u] /\ s.step = "committed"
    BY <1>6 DEF Reply, IInv, WellFormed, TypeOK
  <2>2. u.invoices = s.invoices /\ u.summary = s.summary /\ u.step # "generate"
    BY <1>1 DEF Transaction
  <2>. HIDE DEF u
  <2>3. s.invoices = NoInvoices /\ s.summary = NoValue
    BY <1>1, <2>1 DEF LockOK, Unwritten, Settled
  <2>. QED  BY <1>2, <2>1, <2>2, <2>3
<1>. QED  BY <1>3, <1>4, <1>5, <1>6

\* Whoever waits in a circle holds a lock while it waits for one; what it holds
\* is an invoice, and it waits for one, so it is a generation.
LEMMA OnlyGeneratorsWait ==
    ASSUME IInv, LInv, NEW r \in Requests, InDeadlock(r)
    PROVE  tx[r].op = "generate"
<1>1. PICK S \in SUBSET Requests :
         /\ r \in S
         /\ \A q \in S : /\ Blockers(q) \cap S # {}
                         /\ \E p \in S : q \in Blockers(p)
  BY DEF InDeadlock
<1>2. ASSUME NEW q \in S
      PROVE  /\ LocalsOK(tx[q]) /\ LockOK(tx[q])
             /\ tx[q].step \in {"insert", "void", "status", "generate", "summary"}
  <2>1. PICK p \in Blockers(q) : TRUE
    BY <1>1
  <2>2. tx[q].step \in {"insert", "void", "status", "generate", "summary"}
    BY <2>1 DEF Blockers
  <2>. QED  BY <1>1, <2>2, Served DEF LInv
<1>3. ASSUME NEW q \in S
      PROVE  tx[q].summary = NoValue
  BY <1>2 DEF LockOK
<1>4. ASSUME NEW q \in S
      PROVE  tx[q].step # "summary"
  <2>1. PICK p \in S : p \in Blockers(q)
    BY <1>1
  <2>. QED  BY <1>2, <1>3, <2>1 DEF Blockers
<1>5. ASSUME NEW q \in S, tx[q].step \in {"insert", "void"}
      PROVE  FALSE
  <2>1. PICK p \in S : q \in Blockers(p)
    BY <1>1
  <2>2. tx[q].rows = NoRows /\ tx[q].invoices = NoInvoices /\ tx[q].summary = NoValue
    BY <1>2, <1>3, <1>5 DEF LocalsOK, LockOK, Unwritten
  <2>3. LocalsOK(tx[p]) /\ p \in Requests
    BY <1>1, <1>2
  <2>4. tx[p].step = "void" => tx[p].target \in Requests
    BY <2>3 DEF LocalsOK
  <2>5. tx[p].step \in {"status", "generate"} => tx[p].invoice \in Invoices
    BY <2>3 DEF LocalsOK
  <2>. QED  BY <2>1, <2>2, <2>4, <2>5 DEF Blockers, NoRows, NoInvoices
<1>6. ASSUME NEW q \in S, tx[q].step = "status"
      PROVE  FALSE
  <2>1. PICK p \in S : q \in Blockers(p)
    BY <1>1
  <2>2. tx[q].invoices = NoInvoices /\ tx[q].summary = NoValue
    BY <1>2, <1>3, <1>6 DEF LockOK
  <2>3. tx[p].step \in {"status", "generate"} => tx[p].invoice \in Invoices
    BY <1>1, <1>2 DEF LocalsOK
  <2>4. tx[p].step \notin {"insert", "void"}
    BY <1>5
  <2>. QED  BY <2>1, <2>2, <2>3, <2>4 DEF Blockers, NoInvoices
<1>7. tx[r].step = "generate"
  BY <1>1, <1>2, <1>4, <1>5, <1>6
<1>. QED  BY <1>1, <1>2, <1>7 DEF LockOK

LEMMA LInvariance == Spec => []LInv
<1>1. Init => LInv
  <2>1. LockOK(Idle)
    BY DEF LockOK, Idle
  <2>. QED  BY <2>1 DEF Init, LInv
<1>2. ASSUME IInv, LInv, [Next]_vars
      PROVE  LInv'
  <2>1. CASE UNCHANGED vars \/ NextDay
    <3>1. tx' = tx
      BY <2>1 DEF vars, NextDay
    <3>. QED  BY <1>2, <3>1 DEF LInv, LockOK
  <2>2. ASSUME NEW r \in Requests,
               \/ Begin(r) \/ Quiet(r)
               \/ (tx[r].step \in Open /\ Rollback(r))
               \/ InsertEntry(r) \/ VoidEntry(r) \/ Tally(r) \/ WriteSummary(r)
               \/ Commit(r) \/ Reply(r, "ok") \/ Reply(r, "lost")
        PROVE  LInv'
    BY <1>2, <2>2, ServeLocks, EndLocks
  <2>. QED  BY <1>2, <2>1, <2>2, NextCases
<1>3. IInv /\ LInv /\ [Next]_vars => LInv'
  BY <1>2
<1>. QED  BY <1>1, <1>3, Invariance, PTL DEF Spec

\* No payment, void or manual entry is ever sacrificed to a deadlock: the locks
\* of those are taken in one order, and only generations take invoices in any.
THEOREM OnlyGenerationsDeadlock == Spec => []OnlyGeneratorsDeadlock
<1>1. IInv /\ LInv => OnlyGeneratorsDeadlock
  BY OnlyGeneratorsWait DEF OnlyGeneratorsDeadlock
<1>. QED  BY <1>1, Invariance, LInvariance, PTL

-----------------------------------------------------------------------------
(* Sums of amounts.  Total is a fold, so what is said of it for every finite  *)
(* set rests on the well-founded order of the set's subsets.                  *)

\* Among sets of subsets of a finite set there is always a smallest one.
LEMMA SmallestSubset ==
    ASSUME NEW S, IsFiniteSet(S), NEW B, B \subseteq SUBSET S, B # {}
    PROVE  \E s \in B : \A t \in B : t \subseteq s => t = s
<1>. DEFINE R == StrictSubsetOrdering(S)
<1>1. IsWellFoundedOn(R, SUBSET S)
  BY FS_StrictSubsetOrderingWellFounded, FS_FiniteSubsetsOfFinite
<1>. HIDE DEF R
<1>2. PICK s \in B : \A t \in B : ~(<<t, s>> \in R)
  BY <1>1, WFMin, Zenon
<1>3. ASSUME NEW t \in B, t \subseteq s, t # s
      PROVE  <<t, s>> \in R
  BY <1>3 DEF R, StrictSubsetOrdering
<1>4. ASSUME NEW t \in B, t \subseteq s PROVE t = s
  BY <1>2, <1>3, <1>4
<1>. QED  BY <1>4

First(s) == CHOOSE x \in s : TRUE

\* The equations of a running sum over the subsets of S.
Sums(table, S, f) ==
    f = [s \in SUBSET S |->
           IF s = {} THEN 0 ELSE table[First(s)].amount + f[s \ {First(s)}]]

LEMMA TotalIs ==
    ASSUME NEW table, NEW S
    PROVE  Total(table, S) = (CHOOSE f : Sums(table, S, f))[S]
BY DEF Total, MapThenSumSet, MapThenFoldSet, Sums, First

LEMMA SumsAgree ==
    ASSUME NEW table, NEW S, IsFiniteSet(S), NEW T, NEW f, NEW g,
           Sums(table, S, f), Sums(table, T, g)
    PROVE  \A s \in SUBSET (S \cap T) : f[s] = g[s]
<1>. DEFINE B == {s \in SUBSET (S \cap T) : f[s] # g[s]}
<1>1. SUFFICES ASSUME B # {} PROVE FALSE
  OBVIOUS
<1>2. B \subseteq SUBSET S
  OBVIOUS
<1>. HIDE DEF B
<1>3. PICK s \in B : \A t \in B : t \subseteq s => t = s
  BY <1>1, <1>2, SmallestSubset
<1>. DEFINE x == First(s)
            t == s \ {x}
<1>4. s \in SUBSET S /\ s \in SUBSET T /\ f[s] # g[s]
  BY DEF B
<1>5. /\ f[s] = IF s = {} THEN 0 ELSE table[x].amount + f[t]
      /\ g[s] = IF s = {} THEN 0 ELSE table[x].amount + g[t]
  BY <1>4 DEF Sums
<1>6. s # {}
  BY <1>4, <1>5
<1>7. x \in s
  BY <1>6 DEF First
<1>8. t \in SUBSET (S \cap T) /\ t \subseteq s /\ t # s
  BY <1>4, <1>7
<1>9. f[t] = g[t]
  BY <1>3, <1>8 DEF B
<1>. QED  BY <1>4, <1>5, <1>9

LEMMA SumsExist ==
    ASSUME NEW table, NEW S, IsFiniteSet(S)
    PROVE  \E f : Sums(table, S, f)
<1>. DEFINE B == {s \in SUBSET S : ~ \E f : Sums(table, s, f)}
<1>1. SUFFICES ASSUME B # {} PROVE FALSE
  OBVIOUS
<1>2. B \subseteq SUBSET S
  OBVIOUS
<1>. HIDE DEF B
<1>3. PICK T \in B : \A t \in B : t \subseteq T => t = T
  BY <1>1, <1>2, SmallestSubset
<1>4. T \in SUBSET S /\ ~ \E f : Sums(table, T, f)
  BY DEF B
<1>5. \A t \in SUBSET T : t # T => \E f : Sums(table, t, f)
  BY <1>3, <1>4 DEF B
<1>. DEFINE F(t) == CHOOSE f : Sums(table, t, f)
            V(t) == IF t = {} THEN 0
                    ELSE table[First(t)].amount + Total(table, t \ {First(t)})
            g == [t \in SUBSET T |-> V(t)]
<1>6. ASSUME NEW t \in SUBSET T, t # T
      PROVE  \E f : Sums(table, t, f) /\ f[t] = Total(table, t)
  <2>1. \E f : Sums(table, t, f)
    BY <1>5, <1>6
  <2>2. Sums(table, t, F(t))
    BY <2>1, Zenon
  <2>3. F(t)[t] = Total(table, t)
    BY TotalIs
  <2>. QED  BY <2>2, <2>3, Zenon
<1>7. ASSUME NEW t \in SUBSET T, t # T
      PROVE  Total(table, t) = V(t)
  <2>. DEFINE u == t \ {First(t)}
  <2>1. PICK f : Sums(table, t, f) /\ f[t] = Total(table, t)
    BY <1>6, <1>7
  <2>2. CASE t = {}
    BY <2>1, <2>2 DEF Sums
  <2>3. CASE t # {}
    <3>1. First(t) \in t
      BY <2>3 DEF First
    <3>2. u \in SUBSET T /\ u # T /\ u \in SUBSET (u \cap t)
      BY <3>1
    <3>. HIDE DEF u
    <3>3. PICK h : Sums(table, u, h) /\ h[u] = Total(table, u)
      BY <1>6, <3>2
    <3>4. IsFiniteSet(u)
      BY <1>4, <3>2, FS_Subset
    <3>5. h[u] = f[u]
      BY <2>1, <3>2, <3>3, <3>4, SumsAgree
    <3>6. f[t] = table[First(t)].amount + f[u]
      BY <2>1, <2>3 DEF Sums, u
    <3>. QED  BY <2>1, <2>3, <3>3, <3>5, <3>6 DEF u
  <2>. QED  BY <2>2, <2>3
<1>8. ASSUME NEW t \in SUBSET T, t # {}
      PROVE  g[t \ {First(t)}] = Total(table, t \ {First(t)})
  <2>1. First(t) \in t
    BY <1>8 DEF First
  <2>2. t \ {First(t)} \in SUBSET T /\ t \ {First(t)} # T
    BY <2>1
  <2>. QED  BY <1>7, <2>2
<1>9. g = [t \in SUBSET T |->
             IF t = {} THEN 0 ELSE table[First(t)].amount + g[t \ {First(t)}]]
  BY <1>8
<1>. HIDE DEF g
<1>10. Sums(table, T, g)
  BY <1>9 DEF Sums
<1>. QED  BY <1>4, <1>10

\* The recursion equation of a sum.
LEMMA TotalStep ==
    ASSUME NEW table, NEW S, IsFiniteSet(S)
    PROVE  /\ Total(table, {}) = 0
           /\ S # {} => /\ First(S) \in S
                       /\ Total(table, S) = table[First(S)].amount
                                              + Total(table, S \ {First(S)})
<1>. DEFINE F(t) == CHOOSE f : Sums(table, t, f)
            U == S \ {First(S)}
<1>1. ASSUME NEW t, IsFiniteSet(t)
      PROVE  Sums(table, t, F(t)) /\ F(t)[t] = Total(table, t)
  <2>1. \E f : Sums(table, t, f)
    BY <1>1, SumsExist
  <2>. QED  BY <2>1, TotalIs, Zenon
<1>. HIDE DEF F
<1>2. Total(table, {}) = 0
  BY <1>1, FS_EmptySet DEF Sums
<1>3. ASSUME S # {}
      PROVE  /\ First(S) \in S
             /\ Total(table, S) = table[First(S)].amount + Total(table, U)
  <2>1. First(S) \in S
    BY <1>3 DEF First
  <2>2. IsFiniteSet(U) /\ U \in SUBSET (S \cap U)
    BY FS_RemoveElement
  <2>. HIDE DEF U
  <2>3. F(S)[U] = F(U)[U]
    BY <1>1, <2>2, SumsAgree
  <2>4. F(S)[S] = table[First(S)].amount + F(S)[U]
    BY <1>1, <1>3 DEF Sums, U
  <2>. QED  BY <1>1, <2>1, <2>2, <2>3, <2>4
<1>. QED  BY <1>2, <1>3

\* A sum of numbers is one.
LEMMA TotalInt ==
    ASSUME NEW table, NEW S, IsFiniteSet(S), \A e \in S : table[e].amount \in Int
    PROVE  Total(table, S) \in Int
<1>. DEFINE B == {s \in SUBSET S : Total(table, s) \notin Int}
<1>1. SUFFICES ASSUME B # {} PROVE FALSE
  OBVIOUS
<1>2. B \subseteq SUBSET S
  OBVIOUS
<1>. HIDE DEF B
<1>3. PICK s \in B : \A t \in B : t \subseteq s => t = s
  BY <1>1, <1>2, SmallestSubset
<1>4. s \in SUBSET S /\ Total(table, s) \notin Int /\ IsFiniteSet(s)
  BY <1>3, FS_Subset DEF B
<1>. DEFINE x == First(s)
            t == s \ {x}
<1>5. s # {}
  <2>1. Total(table, {}) = 0
    BY FS_EmptySet, TotalStep
  <2>. QED  BY <1>4, <2>1
<1>6. x \in s /\ Total(table, s) = table[x].amount + Total(table, t)
  BY <1>4, <1>5, TotalStep
<1>7. t \in SUBSET S /\ t \subseteq s /\ t # s
  BY <1>4, <1>6
<1>8. Total(table, t) \in Int
  BY <1>3, <1>7 DEF B
<1>. QED  BY <1>4, <1>6, <1>8

\* A sum of natural numbers is a natural number.
LEMMA TotalNat ==
    ASSUME NEW table, NEW S, IsFiniteSet(S), \A e \in S : table[e].amount \in Nat
    PROVE  Total(table, S) \in Nat
<1>. DEFINE B == {s \in SUBSET S : Total(table, s) \notin Nat}
<1>1. SUFFICES ASSUME B # {} PROVE FALSE
  OBVIOUS
<1>2. B \subseteq SUBSET S
  OBVIOUS
<1>. HIDE DEF B
<1>3. PICK s \in B : \A t \in B : t \subseteq s => t = s
  BY <1>1, <1>2, SmallestSubset
<1>4. s \in SUBSET S /\ Total(table, s) \notin Nat /\ IsFiniteSet(s)
  BY <1>3, FS_Subset DEF B
<1>. DEFINE x == First(s)
            t == s \ {x}
<1>5. s # {}
  <2>1. Total(table, {}) = 0
    BY FS_EmptySet, TotalStep
  <2>. QED  BY <1>4, <2>1
<1>6. x \in s /\ Total(table, s) = table[x].amount + Total(table, t)
  BY <1>4, <1>5, TotalStep
<1>7. t \in SUBSET S /\ t \subseteq s /\ t # s
  BY <1>4, <1>6
<1>8. Total(table, t) \in Nat
  BY <1>3, <1>7 DEF B
<1>. QED  BY <1>4, <1>6, <1>8

\* It does not matter which element is taken first.
LEMMA TotalTake ==
    ASSUME NEW table, NEW S, IsFiniteSet(S), \A e \in S : table[e].amount \in Int,
           NEW y \in S
    PROVE  Total(table, S) = table[y].amount + Total(table, S \ {y})
<1>. DEFINE Bad(s) == \E z \in s : Total(table, s) # table[z].amount + Total(table, s \ {z})
            B == {s \in SUBSET S : Bad(s)}
<1>1. SUFFICES ASSUME B # {} PROVE FALSE
  OBVIOUS
<1>2. B \subseteq SUBSET S
  OBVIOUS
<1>. HIDE DEF B
<1>3. PICK s \in B : \A t \in B : t \subseteq s => t = s
  BY <1>1, <1>2, SmallestSubset
<1>4. s \in SUBSET S /\ IsFiniteSet(s)
  BY <1>3, FS_Subset DEF B
<1>5. PICK z \in s : Total(table, s) # table[z].amount + Total(table, s \ {z})
  BY <1>3 DEF B
<1>. DEFINE x == First(s)
            t == s \ {x}
            u == s \ {z}
            v == s \ {x, z}
<1>6. x \in s /\ Total(table, s) = table[x].amount + Total(table, t)
  BY <1>4, <1>5, TotalStep
<1>7. x # z /\ z \in t /\ x \in u /\ v = t \ {z} /\ v = u \ {x}
  BY <1>5, <1>6
<1>8. /\ t \in SUBSET S /\ t \subseteq s /\ t # s
      /\ u \in SUBSET S /\ u \subseteq s /\ u # s
  BY <1>4, <1>6, <1>7
<1>9. Total(table, t) = table[z].amount + Total(table, v)
  BY <1>3, <1>7, <1>8 DEF B
<1>10. Total(table, u) = table[x].amount + Total(table, v)
  BY <1>3, <1>7, <1>8 DEF B
<1>11. IsFiniteSet(v)
  BY <1>4, FS_Subset
<1>12. Total(table, v) \in Int
  BY <1>4, <1>11, TotalInt
<1>13. table[x].amount \in Int /\ table[z].amount \in Int
  BY <1>4, <1>6
<1>. QED  BY <1>5, <1>6, <1>9, <1>10, <1>12, <1>13

\* Neither fewer rows nor other tables with the same amounts make a sum greater.
LEMMA TotalGrows ==
    ASSUME NEW t, NEW u, NEW S, NEW T, IsFiniteSet(T), S \subseteq T,
           \A e \in T : u[e].amount \in Nat,
           \A e \in S : t[e].amount = u[e].amount
    PROVE  Total(t, S) <= Total(u, T)
<1>. DEFINE Bad(s) == ~ (Total(t, S \cap s) <= Total(u, s))
            B == {s \in SUBSET T : Bad(s)}
<1>1. ASSUME B = {} PROVE Total(t, S) <= Total(u, T)
  <2>1. S \cap T = S /\ T \in SUBSET T
    OBVIOUS
  <2>. QED  BY <1>1, <2>1
<1>2. SUFFICES ASSUME B # {} PROVE FALSE
  BY <1>1
<1>3. B \subseteq SUBSET T
  OBVIOUS
<1>. HIDE DEF B
<1>4. PICK s \in B : \A r \in B : r \subseteq s => r = s
  BY <1>2, <1>3, SmallestSubset
<1>5. s \in SUBSET T /\ IsFiniteSet(s) /\ ~ (Total(t, S \cap s) <= Total(u, s))
  BY <1>4, FS_Subset DEF B
<1>6. s # {}
  <2>1. Total(t, {}) = 0 /\ Total(u, {}) = 0
    BY FS_EmptySet, TotalStep
  <2>2. ASSUME s = {} PROVE S \cap s = {}
    BY <2>2
  <2>3. ASSUME s = {} PROVE Total(t, S \cap s) = 0 /\ Total(u, s) = 0
    BY <2>1, <2>2, <2>3
  <2>. QED  BY <1>5, <2>3
<1>. DEFINE x == First(s)
            r == s \ {x}
<1>7. x \in s /\ Total(u, s) = u[x].amount + Total(u, r)
  BY <1>5, <1>6, TotalStep
<1>8. r \in SUBSET T /\ r \subseteq s /\ r # s
  BY <1>5, <1>7
<1>9. Total(t, S \cap r) <= Total(u, r)
  BY <1>4, <1>8 DEF B
<1>10. /\ IsFiniteSet(r) /\ IsFiniteSet(S \cap r) /\ IsFiniteSet(S \cap s)
  BY <1>5, <1>8, FS_Subset
<1>11. Total(u, r) \in Nat /\ u[x].amount \in Nat
  BY <1>5, <1>7, <1>8, <1>10, TotalNat
<1>12. Total(t, S \cap r) \in Nat
  <2>1. \A e \in S \cap r : t[e].amount \in Nat
    BY <1>8
  <2>. QED  BY <1>10, <2>1, TotalNat
<1>13. CASE x \notin S
  <2>1. S \cap s = S \cap r
    BY <1>13
  <2>2. Total(t, S \cap s) = Total(t, S \cap r)
    BY <2>1
  <2>. QED  BY <1>5, <1>7, <1>9, <1>11, <1>12, <2>2
<1>14. CASE x \in S
  <2>1. x \in S \cap s /\ (S \cap s) \ {x} = S \cap r
    BY <1>7, <1>14
  <2>2. \A e \in S \cap s : t[e].amount \in Int
    BY <1>5
  <2>3. Total(t, S \cap s) = t[x].amount + Total(t, S \cap r)
    BY <1>10, <2>1, <2>2, TotalTake
  <2>4. t[x].amount = u[x].amount
    BY <1>14
  <2>. QED  BY <1>5, <1>7, <1>9, <1>11, <1>12, <2>3, <2>4
<1>. QED  BY <1>13, <1>14

\* A sum depends on the amounts of the rows summed, and on nothing else.
LEMMA TotalSame ==
    ASSUME NEW t, NEW u, NEW S, IsFiniteSet(S),
           \A e \in S : t[e].amount = u[e].amount
    PROVE  Total(t, S) = Total(u, S)
<1>. DEFINE B == {s \in SUBSET S : Total(t, s) # Total(u, s)}
<1>1. SUFFICES ASSUME B # {} PROVE FALSE
  OBVIOUS
<1>2. B \subseteq SUBSET S
  OBVIOUS
<1>. HIDE DEF B
<1>3. PICK s \in B : \A r \in B : r \subseteq s => r = s
  BY <1>1, <1>2, SmallestSubset
<1>4. s \in SUBSET S /\ Total(t, s) # Total(u, s) /\ IsFiniteSet(s)
  BY <1>3, FS_Subset DEF B
<1>. DEFINE x == First(s)
            r == s \ {x}
<1>5. s # {}
  <2>1. Total(t, {}) = 0 /\ Total(u, {}) = 0
    BY FS_EmptySet, TotalStep
  <2>. QED  BY <1>4, <2>1
<1>6. /\ x \in s
      /\ Total(t, s) = t[x].amount + Total(t, r)
      /\ Total(u, s) = u[x].amount + Total(u, r)
  BY <1>4, <1>5, TotalStep
<1>7. r \in SUBSET S /\ r \subseteq s /\ r # s
  BY <1>4, <1>6
<1>8. Total(t, r) = Total(u, r)
  BY <1>3, <1>7 DEF B
<1>9. t[x].amount = u[x].amount
  BY <1>4, <1>6
<1>. QED  BY <1>4, <1>6, <1>8, <1>9

-----------------------------------------------------------------------------
(* What each statement does to the locals s of its request, which become u    *)

\* Locals that are set when the request starts and never again.
KeptLocals(s, u) ==
    u.table = s.table /\ u.gateway = s.gateway /\ u.target = s.target /\ u.day = s.day

\* The request gets a connection.
Opening(u) ==
    /\ Fresh(u)
    /\ Cardinality({q \in Requests : tx[q].step \in Open}) < PoolSize

\* It has lost it, or has committed: nothing of what it wrote is pending.
Closing(u) ==
    /\ u.step \notin Open
    /\ u.rows = NoRows /\ u.invoices = NoInvoices

\* A SELECT ahead of the writes, and the sum recomputeInvoiceStatus takes.
Reading(s, u) ==
    /\ KeptLocals(s, u) /\ u.counted = s.counted
    /\ u.rows = s.rows /\ u.invoices = s.invoices /\ u.summary = s.summary
    /\ \/ /\ s.step = "invoice" /\ u.step = "existing"
          /\ u.invoice = s.invoice /\ u.due = invoice[s.invoice].due
       \/ /\ s.step = "existing" /\ u.step = "balance"
          /\ u.invoice = s.invoice /\ u.due = s.due
       \/ s.step = "existing" /\ u.step = "commit"
       \/ /\ s.step = "balance" /\ u.step = "insert" /\ u.invoice = s.invoice
          /\ u.amount = Clamped(s.amount,
                           s.due - Total(entry, LivePayments(entry, s.invoice)))
       \/ /\ s.step = "row" /\ u.step = "void"
          /\ u.invoice = entry[s.target].invoice
       \/ /\ s.step = "recompute" /\ u.step = "status" /\ u.invoice = s.invoice
          /\ u.seen = LivePayments(Visible(entry, s), s.invoice)

\* One of the three SELECTs of refresh_daily_revenue.
Counting(s, u) ==
    /\ KeptLocals(s, u)
    /\ u.rows = s.rows /\ u.invoices = s.invoices /\ u.summary = s.summary
    /\ s.step \in DOMAIN TallyOf /\ u.step = After(s.table, s.step)
    /\ u.counted = s.counted \cup OnDay(Visible(entry, s), s.day, {TallyOf[s.step]})

\* The INSERT of a money row, and the UPDATE that voids one.
Inserting(r, s, u) ==
    /\ KeptLocals(s, u) /\ u.counted = s.counted /\ u.invoice = s.invoice
    /\ s.step = "insert" /\ u.step = AfterWrite(s.table, s.step)
    /\ ~ViolatesConstraint(s)
    /\ u.rows = [s.rows EXCEPT ![r] = NewEntry(s)]
    /\ u.invoices = s.invoices /\ u.summary = s.summary

Voiding(r, s, u) ==
    /\ KeptLocals(s, u) /\ u.counted = s.counted /\ u.invoice = s.invoice
    /\ s.step = "void" /\ u.step = AfterWrite(s.table, s.step)
    /\ u.rows = [s.rows EXCEPT ![s.target] = [entry[s.target] EXCEPT !.voidedBy = r]]
    /\ u.invoices = s.invoices /\ u.summary = s.summary

\* The UPDATE of an invoice's status.
Recomputing(s, u) ==
    /\ KeptLocals(s, u) /\ u.counted = s.counted
    /\ s.step = "status" /\ u.step = "fees"
    /\ LET i == s.invoice
           status == Classify(Total(Visible(entry, s), s.seen), invoice[i].due)
       IN  u.invoices = [s.invoices EXCEPT ![i] = [invoice[i] EXCEPT !.status = status]]
    /\ u.rows = s.rows /\ u.summary = s.summary

\* The upsert of the daily revenue.
Publishing(s, u) ==
    /\ s.step = "summary" /\ u.step = "commit"
    /\ u.summary = [day |-> s.day, counted |-> s.counted]
    /\ u.rows = s.rows /\ u.invoices = s.invoices

\* The upsert of one invoice.
Generating(s, u) ==
    /\ s.step = "generate" /\ u.step \in {"generate", "commit"}
    /\ \E due \in Dues :
          u.invoices = [s.invoices EXCEPT ![s.invoice] = Upserted(invoice[s.invoice], due)]
    /\ u.rows = s.rows /\ u.summary = s.summary

Effect(r, s, u) ==
    \/ Opening(u) /\ s.step = "idle"
    \/ Closing(u)
    \/ Reading(s, u) \/ Counting(s, u)
    \/ Inserting(r, s, u) \/ Voiding(r, s, u) \/ Recomputing(s, u)
    \/ Publishing(s, u) \/ Generating(s, u)

LEMMA ViewIs == \A r \in Requests : View(r) = Visible(entry, tx[r])
BY DEF View, Visible

LEMMA BeginEffect ==
    ASSUME IInv, NEW r \in Requests, Begin(r)
    PROVE  \E u : tx' = [tx EXCEPT ![r] = u] /\ Effect(r, tx[r], u)
<1>1. PICK t : Start(r, t) /\ Fresh(t)
  BY BeginForm
<1>. DEFINE u == [t EXCEPT !.day = today]
<1>2. tx' = [tx EXCEPT ![r] = u]
  BY <1>1 DEF Start
<1>3. Fresh(u)
  <2>1. today \in 0..MaxDay
    BY SizesAssumption DEF IInv, WellFormed, TypeOK
  <2>. QED  BY <1>1, <2>1 DEF Fresh, Transaction
<1>4. Cardinality({q \in Requests : tx[q].step \in Open}) < PoolSize
  BY DEF Begin, BeginVerify, BeginCollect, BeginManualEntry, BeginVoid,
         BeginGenerate, CanBegin
<1>. HIDE DEF u
<1>. QED  BY <1>2, <1>3, <1>4, BeginForm DEF Effect, Opening

LEMMA EndEffect ==
    ASSUME IInv, LInv, NEW r \in Requests,
           Rollback(r) \/ Reply(r, "ok") \/ Reply(r, "lost")
    PROVE  \E u : tx' = [tx EXCEPT ![r] = u] /\ Effect(r, tx[r], u)
<1>. DEFINE s == tx[r]
<1>1. s \in Transaction /\ LocalsOK(s) /\ LockOK(s)
  BY Served DEF LInv
<1>2. CASE Rollback(r)
  <2>. DEFINE u == [Idle EXCEPT !.op = s.op, !.step = "failed"]
  <2>1. tx' = [tx EXCEPT ![r] = u]
    BY <1>2 DEF Rollback
  <2>2. Closing(u)
    BY DEF Idle, Closing, Open, Statements
  <2>. HIDE DEF u
  <2>. QED  BY <2>1, <2>2 DEF Effect
<1>3. ASSUME NEW told \in {"ok", "lost"}, Reply(r, told)
      PROVE  \E u : tx' = [tx EXCEPT ![r] = u] /\ Effect(r, s, u)
  <2>. DEFINE u == [s EXCEPT !.step = told]
  <2>1. tx' = [tx EXCEPT ![r] = u] /\ s.step = "committed"
    BY <1>3 DEF Reply, IInv, WellFormed, TypeOK
  <2>2. u.rows = s.rows /\ u.invoices = s.invoices /\ u.step = told
    BY <1>1 DEF Transaction
  <2>. HIDE DEF u
  <2>3. s.rows = NoRows /\ s.invoices = NoInvoices
    BY <1>1, <2>1 DEF LocalsOK, LockOK, Unwritten, Settled
  <2>4. Closing(u)
    BY <2>2, <2>3 DEF Closing, Open, Statements
  <2>. QED  BY <2>1, <2>4 DEF Effect
<1>. QED  BY <1>2, <1>3

LEMMA ReadEffect ==
    ASSUME IInv, NEW r \in Requests, ~Rollback(r),
           \/ ReadInvoice(r) \/ CheckExisting(r) \/ ReadBalance(r) \/ ReadEntry(r)
           \/ RecomputeSum(r)
    PROVE  \E u : tx' = [tx EXCEPT ![r] = u] /\ Reading(tx[r], u)
<1>. DEFINE s == tx[r]
            Done(t) == [t EXCEPT !.step = After(t.table, t.step)]
<1>1. s \in Transaction /\ LocalsOK(s)
  BY Served
<1>2. CASE ReadInvoice(r)
  <2>. DEFINE t == [s EXCEPT !.due = invoice[s.invoice].due]
  <2>1. s.step = "invoice" /\ tx' = [tx EXCEPT ![r] = Done(t)]
    BY <1>2 DEF ReadInvoice, AtStep, Proceed
  <2>2. Reading(s, Done(t))
    BY <1>1, <2>1 DEF Reading, KeptLocals, Transaction, After
  <2>. HIDE DEF Done
  <2>. QED  BY <2>1, <2>2
<1>3. CASE CheckExisting(r)
  <2>1. s.step = "existing"
    BY <1>3 DEF CheckExisting, AtStep
  <2>2. CASE tx' = [tx EXCEPT ![r].step = "commit"]
    <3>. DEFINE u == [s EXCEPT !.step = "commit"]
    <3>1. tx' = [tx EXCEPT ![r] = u]
      BY <2>2 DEF IInv, WellFormed, TypeOK
    <3>2. Reading(s, u)
      BY <1>1, <2>1 DEF Reading, KeptLocals, Transaction
    <3>. HIDE DEF u
    <3>. QED  BY <3>1, <3>2
  <2>3. CASE Proceed(r, s)
    <3>1. tx' = [tx EXCEPT ![r] = Done(s)]
      BY <2>3 DEF Proceed
    <3>2. Reading(s, Done(s))
      BY <1>1, <2>1 DEF Reading, KeptLocals, Transaction, After
    <3>. HIDE DEF Done
    <3>. QED  BY <3>1, <3>2
  <2>. QED  BY <1>3, <2>2, <2>3 DEF CheckExisting
<1>4. CASE ReadBalance(r)
  <2>. DEFINE balance == s.due - Total(entry, LivePayments(entry, s.invoice))
  <2>1. PICK a \in Nat \ {0} :
           a = Clamped(s.amount, balance) /\ Proceed(r, [s EXCEPT !.amount = a, !.due = 0])
    BY <1>4 DEF ReadBalance
  <2>. DEFINE t == [s EXCEPT !.amount = a, !.due = 0]
  <2>2. s.step = "balance" /\ tx' = [tx EXCEPT ![r] = Done(t)]
    BY <1>4, <2>1 DEF ReadBalance, AtStep, Proceed
  <2>. HIDE DEF balance
  <2>3. /\ KeptLocals(s, Done(t)) /\ Done(t).counted = s.counted
        /\ Done(t).rows = s.rows /\ Done(t).invoices = s.invoices
        /\ Done(t).summary = s.summary
        /\ Done(t).step = "insert" /\ Done(t).invoice = s.invoice /\ Done(t).amount = a
    BY <1>1, <2>2 DEF KeptLocals, Transaction, After
  <2>. HIDE DEF Done, t
  <2>4. Reading(s, Done(t))
    BY <2>1, <2>2, <2>3 DEF Reading, balance
  <2>. QED  BY <2>2, <2>4
<1>5. CASE ReadEntry(r)
  <2>. DEFINE t == [s EXCEPT !.invoice = entry[s.target].invoice]
  <2>1. s.step = "row" /\ tx' = [tx EXCEPT ![r] = Done(t)]
    BY <1>5 DEF ReadEntry, AtStep, Proceed
  <2>2. Reading(s, Done(t))
    BY <1>1, <2>1 DEF Reading, KeptLocals, Transaction, After
  <2>. HIDE DEF Done
  <2>. QED  BY <2>1, <2>2
<1>6. CASE RecomputeSum(r)
  <2>. DEFINE seen == LivePayments(View(r), s.invoice)
              t == [s EXCEPT !.seen = seen]
  <2>1. s.step = "recompute" /\ tx' = [tx EXCEPT ![r] = Done(t)]
    BY <1>6 DEF RecomputeSum, AtStep, Proceed
  <2>2. seen = LivePayments(Visible(entry, s), s.invoice)
    BY ViewIs
  <2>. HIDE DEF seen
  <2>3. Reading(s, Done(t))
    BY <1>1, <2>1, <2>2 DEF Reading, KeptLocals, Transaction, After
  <2>. HIDE DEF Done
  <2>. QED  BY <2>1, <2>3
<1>. QED  BY <1>2, <1>3, <1>4, <1>5, <1>6

LEMMA RowEffect ==
    ASSUME IInv, NEW r \in Requests, ~Rollback(r), InsertEntry(r) \/ VoidEntry(r)
    PROVE  \E u : tx' = [tx EXCEPT ![r] = u]
                  /\ (Inserting(r, tx[r], u) \/ Voiding(r, tx[r], u))
<1>. DEFINE s == tx[r]
            Done(t) == [t EXCEPT !.step = After(t.table, t.step)]
<1>1. s \in Transaction /\ LocalsOK(s)
  BY Served
<1>2. CASE InsertEntry(r)
  <2>. DEFINE row == NewEntry(s)
              t == [s EXCEPT !.rows[r] = row]
  <2>1. s.step = "insert" /\ tx' = [tx EXCEPT ![r] = Done(t)] /\ ~ViolatesConstraint(s)
    BY <1>2 DEF InsertEntry, AtStep, Proceed
  <2>. HIDE DEF row
  <2>2. /\ KeptLocals(s, Done(t)) /\ Done(t).counted = s.counted
        /\ Done(t).invoice = s.invoice
        /\ Done(t).invoices = s.invoices /\ Done(t).summary = s.summary
        /\ Done(t).step = AfterWrite(s.table, s.step)
        /\ Done(t).rows = [s.rows EXCEPT ![r] = row]
    BY <1>1, <2>1 DEF KeptLocals, Transaction, After
  <2>. HIDE DEF Done, t
  <2>. QED  BY <2>1, <2>2 DEF Inserting, row
<1>3. CASE VoidEntry(r)
  <2>. DEFINE row == [entry[s.target] EXCEPT !.voidedBy = r]
              t == [s EXCEPT !.rows[s.target] = row]
  <2>1. s.step = "void" /\ tx' = [tx EXCEPT ![r] = Done(t)]
    BY <1>3 DEF VoidEntry, AtStep, Proceed
  <2>. HIDE DEF row
  <2>2. /\ KeptLocals(s, Done(t)) /\ Done(t).counted = s.counted
        /\ Done(t).invoice = s.invoice
        /\ Done(t).invoices = s.invoices /\ Done(t).summary = s.summary
        /\ Done(t).step = AfterWrite(s.table, s.step)
        /\ Done(t).rows = [s.rows EXCEPT ![s.target] = row]
    BY <1>1, <2>1 DEF KeptLocals, Transaction, After
  <2>. HIDE DEF Done, t
  <2>. QED  BY <2>1, <2>2 DEF Voiding, row
<1>. QED  BY <1>2, <1>3

LEMMA InvoiceEffect ==
    ASSUME IInv, NEW r \in Requests, RecomputeStatus(r) \/ GenerateInvoice(r)
    PROVE  \E u : tx' = [tx EXCEPT ![r] = u]
                  /\ (Recomputing(tx[r], u) \/ Generating(tx[r], u))
<1>. DEFINE s == tx[r]
            Done(t) == [t EXCEPT !.step = After(t.table, t.step)]
<1>1. s \in Transaction /\ LocalsOK(s)
  BY Served
<1>2. CASE RecomputeStatus(r)
  <2>. DEFINE i == s.invoice
              status == Classify(Total(Visible(entry, s), s.seen), invoice[i].due)
              row == [invoice[i] EXCEPT !.status = status]
              t == [s EXCEPT !.invoices[i] = row, !.seen = {}]
  <2>1. s.step = "status" /\ tx' = [tx EXCEPT ![r] = Done(t)]
    BY <1>2, ViewIs DEF RecomputeStatus, AtStep, Proceed
  <2>. HIDE DEF row
  <2>2. /\ KeptLocals(s, Done(t)) /\ Done(t).counted = s.counted
        /\ Done(t).rows = s.rows /\ Done(t).summary = s.summary
        /\ Done(t).step = "fees" /\ Done(t).invoices = [s.invoices EXCEPT ![i] = row]
    BY <1>1, <2>1 DEF KeptLocals, Transaction, After
  <2>. HIDE DEF Done, t
  <2>. QED  BY <2>1, <2>2 DEF Recomputing, row
<1>3. CASE GenerateInvoice(r)
  <2>1. s.step = "generate"
    BY <1>3 DEF GenerateInvoice, AtStep
  <2>2. PICK due \in Dues :
          LET t == [s EXCEPT !.invoices[s.invoice] = Upserted(invoice[s.invoice], due)]
          IN  \/ \E next \in t.todo :
                    tx' = [tx EXCEPT ![r] = [t EXCEPT !.invoice = next,
                                                      !.todo = @ \ {next}]]
              \/ Proceed(r, [t EXCEPT !.audited = TRUE])
    BY <1>3 DEF GenerateInvoice
  <2>. DEFINE row == Upserted(invoice[s.invoice], due)
              t == [s EXCEPT !.invoices[s.invoice] = row]
  <2>3. ASSUME NEW u, u.step \in {"generate", "commit"},
               u.rows = s.rows, u.summary = s.summary,
               u.invoices = [s.invoices EXCEPT ![s.invoice] = row]
        PROVE  Generating(s, u)
    BY <2>1, <2>3 DEF Generating
  <2>. HIDE DEF row
  <2>4. ASSUME NEW next, tx' = [tx EXCEPT ![r] = [t EXCEPT !.invoice = next,
                                                           !.todo = @ \ {next}]]
        PROVE  \E u : tx' = [tx EXCEPT ![r] = u] /\ Generating(s, u)
    <3>. DEFINE u == [t EXCEPT !.invoice = next, !.todo = @ \ {next}]
    <3>1. /\ u.step = "generate" /\ u.rows = s.rows /\ u.summary = s.summary
          /\ u.invoices = [s.invoices EXCEPT ![s.invoice] = row]
      BY <1>1, <2>1 DEF Transaction
    <3>2. tx' = [tx EXCEPT ![r] = u]
      BY <2>4
    <3>. HIDE DEF u
    <3>3. Generating(s, u)
      BY <2>3, <3>1
    <3>. QED  BY <3>2, <3>3
  <2>5. ASSUME Proceed(r, [t EXCEPT !.audited = TRUE])
        PROVE  \E u : tx' = [tx EXCEPT ![r] = u] /\ Generating(s, u)
    <3>. DEFINE u == Done([t EXCEPT !.audited = TRUE])
    <3>1. /\ u.step = "commit" /\ u.rows = s.rows /\ u.summary = s.summary
          /\ u.invoices = [s.invoices EXCEPT ![s.invoice] = row]
      BY <1>1, <2>1 DEF Transaction, After
    <3>2. tx' = [tx EXCEPT ![r] = u]
      BY <2>5 DEF Proceed
    <3>. HIDE DEF u
    <3>3. Generating(s, u)
      BY <2>3, <3>1
    <3>. QED  BY <3>2, <3>3
  <2>. QED  BY <2>2, <2>4, <2>5 DEF row
<1>. QED  BY <1>2, <1>3

LEMMA RevenueEffect ==
    ASSUME IInv, NEW r \in Requests, Tally(r) \/ WriteSummary(r)
    PROVE  \E u : tx' = [tx EXCEPT ![r] = u]
                  /\ (Counting(tx[r], u) \/ Publishing(tx[r], u))
<1>. DEFINE s == tx[r]
            Done(t) == [t EXCEPT !.step = After(t.table, t.step)]
<1>1. s \in Transaction /\ LocalsOK(s)
  BY Served
<1>2. CASE Tally(r)
  <2>. DEFINE todays(step) == {e \in Requests : /\ View(r)[e].table = TallyOf[step]
                                                /\ IsLive(View(r)[e])
                                                /\ View(r)[e].day = tx[r].day}
  <2>1. PICK step \in DOMAIN TallyOf :
           /\ s.step = step
           /\ Proceed(r, [s EXCEPT !.counted = @ \cup todays(step)])
    BY <1>2 DEF Tally, AtStep
  <2>2. todays(step) = OnDay(Visible(entry, s), s.day, {TallyOf[step]})
    BY ViewIs DEF OnDay
  <2>. DEFINE day == OnDay(Visible(entry, s), s.day, {TallyOf[s.step]})
              t == [s EXCEPT !.counted = @ \cup day]
  <2>3. tx' = [tx EXCEPT ![r] = Done(t)]
    BY <2>1, <2>2 DEF Proceed
  <2>. HIDE DEF day
  <2>4. /\ KeptLocals(s, Done(t)) /\ Done(t).step = After(s.table, s.step)
        /\ Done(t).rows = s.rows /\ Done(t).invoices = s.invoices
        /\ Done(t).summary = s.summary /\ Done(t).counted = s.counted \cup day
    BY <1>1 DEF KeptLocals, Transaction
  <2>. HIDE DEF Done, t
  <2>5. Counting(s, Done(t))
    BY <2>1, <2>4 DEF Counting, day
  <2>. QED  BY <2>3, <2>5
<1>3. CASE WriteSummary(r)
  <2>. DEFINE row == [day |-> s.day, counted |-> s.counted]
              t == [s EXCEPT !.summary = row, !.counted = {}, !.audited = TRUE]
  <2>1. s.step = "summary" /\ tx' = [tx EXCEPT ![r] = Done(t)]
    BY <1>3 DEF WriteSummary, AtStep, Proceed
  <2>. HIDE DEF row
  <2>2. /\ Done(t).rows = s.rows /\ Done(t).invoices = s.invoices
        /\ Done(t).summary = row /\ Done(t).step = "commit"
    BY <1>1, <2>1 DEF Transaction, After
  <2>. HIDE DEF Done, t
  <2>3. Publishing(s, Done(t))
    BY <2>1, <2>2 DEF Publishing, row
  <2>. QED  BY <2>1, <2>3
<1>. QED  BY <1>2, <1>3

\* A step of the ledger is one of these effects, a commit, or concerns no money.
LEMMA Effects ==
    ASSUME IInv, LInv, [Next]_vars
    PROVE  \/ UNCHANGED <<invoice, entry, summary, tx>>
           \/ \E r \in Requests : Commit(r)
           \/ /\ UNCHANGED <<invoice, entry, summary>>
              /\ \E r \in Requests : \E u :
                    tx' = [tx EXCEPT ![r] = u] /\ Effect(r, tx[r], u)
<1>1. CASE UNCHANGED vars \/ NextDay
  BY <1>1 DEF vars, NextDay
<1>2. ASSUME NEW r \in Requests,
             \/ Begin(r) \/ Quiet(r) \/ (tx[r].step \in Open /\ Rollback(r))
             \/ InsertEntry(r) \/ VoidEntry(r) \/ Tally(r) \/ WriteSummary(r)
             \/ Reply(r, "ok") \/ Reply(r, "lost")
      PROVE  UNCHANGED <<invoice, entry, summary>>
  <2>1. CASE Begin(r)
    BY <2>1, BeginForm DEF Start
  <2>2. CASE ~Begin(r)
    BY <1>2, <2>2 DEF Quiet, ReadInvoice, CheckExisting, ReadBalance, ReadEntry,
                  RecomputeSum, RecomputeStatus, GenerateInvoice, InsertEntry,
                  VoidEntry, Tally, WriteSummary, Reply, Rollback
  <2>. QED  BY <2>1, <2>2
<1>3. ASSUME NEW r \in Requests,
             \/ Begin(r) \/ Quiet(r) \/ (tx[r].step \in Open /\ Rollback(r))
             \/ InsertEntry(r) \/ VoidEntry(r) \/ Tally(r) \/ WriteSummary(r)
             \/ Reply(r, "ok") \/ Reply(r, "lost")
      PROVE  \E u : tx' = [tx EXCEPT ![r] = u] /\ Effect(r, tx[r], u)
  <2>1. CASE Begin(r)
    BY <2>1, BeginEffect
  <2>2. CASE Rollback(r) \/ Reply(r, "ok") \/ Reply(r, "lost")
    BY <2>2, EndEffect
  <2>3. CASE Tally(r) \/ WriteSummary(r)
    BY <2>3, RevenueEffect DEF Effect
  <2>4. CASE RecomputeStatus(r) \/ GenerateInvoice(r)
    BY <2>4, InvoiceEffect DEF Effect
  <2>5. CASE (InsertEntry(r) \/ VoidEntry(r)) /\ ~Rollback(r)
    BY <2>5, RowEffect DEF Effect
  <2>6. CASE /\ ~Rollback(r)
             /\ \/ ReadInvoice(r) \/ CheckExisting(r) \/ ReadBalance(r)
                \/ ReadEntry(r) \/ RecomputeSum(r)
    BY <2>6, ReadEffect DEF Effect
  <2>. QED  BY <1>3, <2>1, <2>2, <2>3, <2>4, <2>5, <2>6 DEF Quiet
<1>. QED  BY <1>1, <1>2, <1>3, NextCases

-----------------------------------------------------------------------------
(* The rows a transaction sees, and how they go on when another one commits   *)

RowsOf(table) == {e \in Requests : table[e].table # "none"}

\* Rows are added, and rows are voided; nothing else happens to them.
Continues(table, other) ==
    \A e \in Requests : table[e].table # "none" =>
       /\ SameMoney(other[e], table[e])
       /\ table[e].voidedBy # NoValue => other[e].voidedBy # NoValue

LEMMA VisibleRows ==
    ASSUME IInv, FiniteRows, NEW r \in Requests
    PROVE  /\ Visible(entry, tx[r]) \in [Requests -> EntryRow]
           /\ \A e \in Requests : Visible(entry, tx[r])[e].table = "none"
                                     => Visible(entry, tx[r])[e] = NoEntry
           /\ IsFiniteSet(RowsOf(Visible(entry, tx[r])))
           /\ Continues(entry, Visible(entry, tx[r]))
<1>. DEFINE s == tx[r]
            Written == {e \in Requests : s.rows[e] # NoValue}
<1>1. s \in Transaction /\ entry \in [Requests -> EntryRow]
  BY Served DEF IInv, WellFormed, TypeOK
<1>2. \A e \in Requests : s.rows[e] \in EntryRow \cup {NoValue}
  BY <1>1 DEF Transaction
<1>3. Visible(entry, s) \in [Requests -> EntryRow]
  BY <1>1, <1>2 DEF Visible
<1>4. \A e \in Requests :
         Visible(entry, s)[e].table = "none" => Visible(entry, s)[e] = NoEntry
  BY DEF Visible, IInv, RowsFaithful
<1>5. IsFiniteSet(RowsOf(Visible(entry, s)))
  <2>1. IsFiniteSet(RowsOf(entry)) /\ IsFiniteSet(Written)
    BY DEF FiniteRows, RowsOf
  <2>2. IsFiniteSet(RowsOf(entry) \cup Written)
    BY <2>1, FS_Union
  <2>3. RowsOf(Visible(entry, s)) \subseteq RowsOf(entry) \cup Written
    BY DEF RowsOf, Visible
  <2>. QED  BY <2>2, <2>3, FS_Subset
<1>6. Continues(entry, Visible(entry, s))
  <2>1. ASSUME NEW e \in Requests, entry[e].table # "none"
        PROVE  /\ SameMoney(Visible(entry, s)[e], entry[e])
               /\ entry[e].voidedBy # NoValue => Visible(entry, s)[e].voidedBy # NoValue
    <3>1. CASE s.rows[e] # NoValue
      <4>1. Visible(entry, s)[e] = s.rows[e]
        BY <3>1 DEF Visible
      <4>2. SameMoney(s.rows[e], entry[e]) /\ s.rows[e].voidedBy = r
        BY <2>1, <3>1 DEF IInv, RowsFaithful
      <4>. QED  BY <4>1, <4>2, NullAssumption
    <3>2. CASE s.rows[e] = NoValue
      <4>1. Visible(entry, s)[e] = entry[e] /\ entry[e] \in EntryRow
        BY <1>1, <3>2 DEF Visible
      <4>. QED  BY <4>1 DEF SameMoney, EntryRow
    <3>. QED  BY <3>1, <3>2
  <2>. QED  BY <2>1 DEF Continues
<1>. QED  BY <1>3, <1>4, <1>5, <1>6

LEMMA VisibleFinite ==
    ASSUME NEW table \in [Requests -> EntryRow], IsFiniteSet(RowsOf(table)),
           NEW t \in Transaction,
           IsFiniteSet({e \in Requests : t.rows[e] # NoValue})
    PROVE  /\ Visible(table, t) \in [Requests -> EntryRow]
           /\ IsFiniteSet(RowsOf(Visible(table, t)))
<1>. DEFINE Written == {e \in Requests : t.rows[e] # NoValue}
<1>1. \A e \in Requests : t.rows[e] \in EntryRow \cup {NoValue}
  BY DEF Transaction
<1>2. Visible(table, t) \in [Requests -> EntryRow]
  BY <1>1 DEF Visible
<1>3. IsFiniteSet(RowsOf(table) \cup Written)
  BY FS_Union
<1>4. RowsOf(Visible(table, t)) \subseteq RowsOf(table) \cup Written
  BY DEF RowsOf, Visible
<1>. QED  BY <1>2, <1>3, <1>4, FS_Subset

LEMMA SameRowsSeen ==
    ASSUME NEW table, NEW s, NEW u, u.rows = s.rows
    PROVE  Visible(table, u) = Visible(table, s)
BY DEF Visible

\* What one request commits, the others see as a continuation.
LEMMA CommitContinues ==
    ASSUME IInv, NEW r \in Requests, Commit(r), NEW q \in Requests, q # r
    PROVE  tx'[q] = tx[q] /\ Continues(Visible(entry, tx[q]), Visible(entry', tx[q]))
<1>1. tx'[q] = tx[q]
  BY DEF Commit, IInv, WellFormed, TypeOK
<1>2. ASSUME NEW e \in Requests, Visible(entry, tx[q])[e].table # "none"
      PROVE  LET old == Visible(entry, tx[q])[e]
                 new == Visible(entry', tx[q])[e]
             IN  /\ SameMoney(new, old)
                 /\ old.voidedBy # NoValue => new.voidedBy # NoValue
  <2>1. CASE tx[q].rows[e] # NoValue
    <3>1. tx[q].rows[e] \in EntryRow
      BY <2>1, Served DEF Transaction
    <3>2. /\ Visible(entry, tx[q])[e] = tx[q].rows[e]
          /\ Visible(entry', tx[q])[e] = tx[q].rows[e]
      BY <1>1, <2>1 DEF Visible
    <3>. QED  BY <3>1, <3>2 DEF SameMoney, EntryRow
  <2>2. CASE tx[q].rows[e] = NoValue
    <3>1. Visible(entry, tx[q])[e] = entry[e] /\ Visible(entry', tx[q])[e] = entry'[e]
      BY <1>1, <2>2 DEF Visible
    <3>2. SameMoney(entry'[e], entry[e]) /\ entry'[e].voidedBy \in {entry[e].voidedBy, r}
      BY <1>2, <3>1, CommitRows
    <3>. QED  BY <3>1, <3>2, NullAssumption
  <2>. QED  BY <2>1, <2>2
<1>. QED  BY <1>1, <1>2 DEF Continues

\* Of an invoice no payment of which has been voided or is negative, the payments
\* seen before are still there, each with its amount.
LEMMA PaymentsContinue ==
    ASSUME NEW t \in [Requests -> EntryRow], NEW u \in [Requests -> EntryRow],
           \A e \in Requests : t[e].table = "none" => t[e] = NoEntry,
           Continues(t, u), NEW i \in Invoices, OnlyPaidInto(u, i)
    PROVE  /\ OnlyPaidInto(t, i)
           /\ LivePayments(t, i) \subseteq LivePayments(u, i)
           /\ \A e \in LivePayments(t, i) : t[e].amount = u[e].amount
<1>1. ASSUME NEW e \in Requests, t[e].table # "none"
      PROVE  /\ u[e].table = t[e].table /\ u[e].invoice = t[e].invoice
             /\ u[e].amount = t[e].amount
             /\ t[e].voidedBy # NoValue => u[e].voidedBy # NoValue
  <2>1. t[e] \in EntryRow /\ SameMoney(u[e], t[e])
    BY <1>1 DEF Continues
  <2>2. /\ u[e].table = t[e].table /\ u[e].invoice = t[e].invoice
        /\ u[e].amount = t[e].amount
    BY <2>1 DEF SameMoney, EntryRow
  <2>. QED  BY <1>1, <2>2 DEF Continues
<1>2. ASSUME NEW e \in Requests, t[e].invoice = i
      PROVE  t[e].table # "none" /\ u[e].invoice = i
  <2>1. t[e].table # "none"
    BY <1>2, NullAssumption DEF NoEntry
  <2>. QED  BY <1>1, <1>2, <2>1
<1>3. OnlyPaidInto(t, i)
  BY <1>1, <1>2 DEF OnlyPaidInto
<1>4. ASSUME NEW e \in LivePayments(t, i)
      PROVE  e \in LivePayments(u, i) /\ t[e].amount = u[e].amount
  <2>1. e \in Requests /\ t[e].table = "payment" /\ t[e].invoice = i
    BY <1>4 DEF LivePayments
  <2>2. u[e].table = "payment" /\ u[e].invoice = i /\ u[e].amount = t[e].amount
    BY <1>1, <2>1
  <2>3. u[e].voidedBy = NoValue
    BY <2>1, <2>2 DEF OnlyPaidInto
  <2>. QED  BY <2>1, <2>2, <2>3 DEF LivePayments, IsLive
<1>. QED  BY <1>3, <1>4

LEMMA PaymentsFinite ==
    ASSUME NEW t \in [Requests -> EntryRow], IsFiniteSet(RowsOf(t)), NEW i
    PROVE  /\ IsFiniteSet(LivePayments(t, i))
           /\ \A e \in LivePayments(t, i) : t[e].amount \in Int
           /\ Total(t, LivePayments(t, i)) \in Int
<1>1. LivePayments(t, i) \subseteq RowsOf(t)
  BY DEF LivePayments, RowsOf
<1>2. IsFiniteSet(LivePayments(t, i))
  BY <1>1, FS_Subset
<1>3. \A e \in LivePayments(t, i) : t[e].amount \in Int
  <2>1. \A e \in LivePayments(t, i) : e \in Requests
    BY DEF LivePayments
  <2>. QED  BY <2>1 DEF EntryRow
<1>. QED  BY <1>2, <1>3, TotalInt

LEMMA PaidInto ==
    ASSUME NEW t \in [Requests -> EntryRow], IsFiniteSet(RowsOf(t)), NEW i,
           OnlyPaidInto(t, i)
    PROVE  /\ \A e \in LivePayments(t, i) : t[e].amount \in Nat
           /\ Total(t, LivePayments(t, i)) \in Nat
<1>1. IsFiniteSet(LivePayments(t, i))
  BY PaymentsFinite
<1>2. \A e \in LivePayments(t, i) : t[e].amount \in Nat
  <2>1. \A e \in LivePayments(t, i) :
           e \in Requests /\ t[e].amount \in Int /\ t[e].amount >= 0
    BY PaymentsFinite DEF LivePayments, OnlyPaidInto
  <2>. QED  BY <2>1
<1>. QED  BY <1>1, <1>2, TotalNat

\* What was enough for an invoice's status stays enough.
LEMMA BackedContinues ==
    ASSUME NEW t \in [Requests -> EntryRow], NEW u \in [Requests -> EntryRow],
           \A e \in Requests : t[e].table = "none" => t[e] = NoEntry,
           Continues(t, u), IsFiniteSet(RowsOf(u)),
           NEW i \in Invoices, NEW row \in InvoiceRow, Backed(t, i, row)
    PROVE  Backed(u, i, row)
<1>. DEFINE old == Total(t, LivePayments(t, i))
            new == Total(u, LivePayments(u, i))
<1>1. SUFFICES ASSUME OnlyPaidInto(u, i)
               PROVE  /\ row.status = "paid" => new >= row.due
                      /\ row.status = "partial" => new > 0
  BY DEF Backed
<1>2. /\ OnlyPaidInto(t, i)
      /\ LivePayments(t, i) \subseteq LivePayments(u, i)
      /\ \A e \in LivePayments(t, i) : t[e].amount = u[e].amount
  BY <1>1, PaymentsContinue
<1>3. /\ IsFiniteSet(LivePayments(u, i)) /\ IsFiniteSet(LivePayments(t, i))
      /\ \A e \in LivePayments(u, i) : u[e].amount \in Nat
      /\ new \in Nat
  BY <1>1, <1>2, PaymentsFinite, PaidInto, FS_Subset
<1>4. old \in Nat
  <2>1. \A e \in LivePayments(t, i) : t[e].amount \in Nat
    BY <1>2, <1>3
  <2>. QED  BY <1>3, <2>1, TotalNat
<1>5. old <= new
  BY <1>2, <1>3, TotalGrows
<1>6. row.due \in Nat
  BY DEF InvoiceRow
<1>. HIDE DEF old, new
<1>7. /\ row.status = "paid" => old >= row.due
      /\ row.status = "partial" => old > 0
  BY <1>2 DEF Backed, old
<1>. QED  BY <1>3, <1>4, <1>5, <1>6, <1>7

-----------------------------------------------------------------------------
(* Finitely many rows                                                         *)

LEMMA FiniteInit == Init => FiniteRows
<1>. SUFFICES ASSUME Init PROVE FiniteRows
  OBVIOUS
<1>1. {e \in Requests : entry[e].table # "none"} = {}
  BY DEF Init, NoEntry
<1>2. \A r \in Requests : {e \in Requests : tx[r].rows[e] # NoValue} = {}
  BY IdleType DEF Init
<1>3. \A r \in Requests : IsFiniteSet({e \in Requests : tx[r].rows[e] # NoValue})
  BY <1>2, FS_EmptySet
<1>4. IsFiniteSet({e \in Requests : entry[e].table # "none"})
  BY <1>1, FS_EmptySet
<1>. QED  BY <1>3, <1>4 DEF FiniteRows

LEMMA FiniteStep ==
    ASSUME IInv, LInv, FiniteRows, [Next]_vars
    PROVE  FiniteRows'
<1>. DEFINE Written(t) == {e \in Requests : t.rows[e] # NoValue}
<1>1. \A r \in Requests : IsFiniteSet(Written(tx[r])) /\ tx[r] \in Transaction
  BY Served DEF FiniteRows
<1>2. CASE UNCHANGED <<invoice, entry, summary, tx>>
  BY <1>2 DEF FiniteRows
<1>3. ASSUME NEW r \in Requests, Commit(r)
      PROVE  FiniteRows'
  <2>1. IsFiniteSet(RowsOf(entry) \cup Written(tx[r]))
    BY <1>1, FS_Union DEF FiniteRows, RowsOf
  <2>2. RowsOf(entry') \subseteq RowsOf(entry) \cup Written(tx[r])
    BY <1>3, CommitRows DEF RowsOf
  <2>3. IsFiniteSet(RowsOf(entry'))
    BY <2>1, <2>2, FS_Subset
  <2>4. ASSUME NEW q \in Requests
        PROVE  IsFiniteSet(Written(tx'[q]))
    <3>1. CASE q # r
      <4>1. tx'[q] = tx[q]
        BY <1>3, <3>1 DEF Commit, IInv, WellFormed, TypeOK
      <4>. QED  BY <1>1, <4>1
    <3>2. CASE q = r
      <4>1. tx'[r].rows = NoRows
        BY <1>3 DEF Commit, IInv, WellFormed, TypeOK, Idle
      <4>2. Written(tx'[r]) = {}
        BY <4>1 DEF NoRows
      <4>. QED  BY <3>2, <4>2, FS_EmptySet
    <3>. QED  BY <3>1, <3>2
  <2>. QED  BY <2>3, <2>4 DEF FiniteRows, RowsOf
<1>4. ASSUME NEW r \in Requests, NEW u, UNCHANGED <<invoice, entry, summary>>,
             tx' = [tx EXCEPT ![r] = u], Effect(r, tx[r], u)
      PROVE  FiniteRows'
  <2>1. \A q \in Requests : tx'[q] = IF q = r THEN u ELSE tx[q]
    BY <1>4 DEF IInv, WellFormed, TypeOK
  <2>2. ASSUME IsFiniteSet(Written(u)) PROVE FiniteRows'
    <3>1. \A q \in Requests : IsFiniteSet(Written(tx'[q]))
      BY <1>1, <2>1, <2>2
    <3>2. IsFiniteSet(RowsOf(entry'))
      BY <1>4 DEF FiniteRows, RowsOf
    <3>. QED  BY <3>1, <3>2 DEF FiniteRows, RowsOf
  <2>3. CASE u.rows = tx[r].rows
    <3>1. IsFiniteSet(Written(u))
      BY <1>1, <2>3
    <3>. QED  BY <2>2, <3>1
  <2>4. CASE u.rows = NoRows
    <3>1. Written(u) = {}
      BY <2>4 DEF NoRows
    <3>2. IsFiniteSet(Written(u))
      BY <3>1, FS_EmptySet
    <3>. QED  BY <2>2, <3>2
  <2>5. ASSUME NEW d, NEW row, u.rows = [tx[r].rows EXCEPT ![d] = row]
        PROVE  FiniteRows'
    <3>1. Written(u) \subseteq Written(tx[r]) \cup {d}
      BY <1>1, <2>5 DEF Transaction
    <3>2. IsFiniteSet(Written(tx[r]) \cup {d})
      BY <1>1, FS_AddElement
    <3>3. IsFiniteSet(Written(u))
      BY <3>1, <3>2, FS_Subset
    <3>. QED  BY <2>2, <3>3
  <2>6. CASE Reading(tx[r], u) \/ Counting(tx[r], u) \/ Recomputing(tx[r], u)
             \/ Publishing(tx[r], u) \/ Generating(tx[r], u)
    BY <2>3, <2>6 DEF Reading, Counting, Recomputing, Publishing, Generating
  <2>7. CASE Inserting(r, tx[r], u) \/ Voiding(r, tx[r], u)
    BY <2>5, <2>7 DEF Inserting, Voiding
  <2>8. CASE Opening(u) \/ Closing(u)
    BY <2>4, <2>8 DEF Opening, Fresh, Closing
  <2>. QED  BY <1>4, <2>6, <2>7, <2>8 DEF Effect
<1>. QED  BY <1>2, <1>3, <1>4, Effects

-----------------------------------------------------------------------------
(* Late but never too good: statuses while requests overlap                   *)

\* A statement other than a commit.
LEMMA BackedLocalStep ==
    ASSUME IInv, LInv, BInv, NEW r \in Requests, NEW u, Effect(r, tx[r], u)
    PROVE  BackedLocals(entry, u)
<1>. DEFINE s == tx[r]
<1>1. s \in Transaction /\ LocalsOK(s) /\ LockOK(s) /\ BackedLocals(entry, s)
  BY Served DEF LInv, BInv
<1>2. ASSUME u.invoices = NoInvoices, u.step # "status"
      PROVE  BackedLocals(entry, u)
  BY <1>2 DEF BackedLocals, NoInvoices
<1>3. ASSUME u.rows = s.rows, u.invoices = s.invoices, u.step # "status"
      PROVE  BackedLocals(entry, u)
  BY <1>1, <1>3, SameRowsSeen DEF BackedLocals
<1>4. CASE Opening(u) \/ Closing(u)
  BY <1>2, <1>4 DEF Opening, Closing, Fresh, Open, Statements
<1>5. CASE Inserting(r, s, u) \/ Voiding(r, s, u)
  <2>1. u.invoices = NoInvoices /\ u.step # "status"
    BY <1>1, <1>5 DEF Inserting, Voiding, LockOK, Unwritten, AfterWrite
  <2>. QED  BY <1>2, <2>1
<1>6. CASE Reading(s, u)
  <2>1. CASE u.step # "status"
    BY <1>3, <1>6, <2>1 DEF Reading
  <2>2. CASE u.step = "status"
    <3>1. /\ s.step = "recompute" /\ u.rows = s.rows /\ u.invoices = s.invoices
          /\ u.invoice = s.invoice
          /\ u.seen = LivePayments(Visible(entry, s), s.invoice)
      BY <1>6, <2>2 DEF Reading
    <3>2. u.invoices = NoInvoices
      BY <1>1, <3>1 DEF LockOK
    <3>. QED  BY <3>1, <3>2, SameRowsSeen DEF BackedLocals, NoInvoices
  <2>. QED  BY <2>1, <2>2
<1>7. CASE Counting(s, u) \/ Publishing(s, u)
  <2>1. u.rows = s.rows /\ u.invoices = s.invoices /\ u.step # "status"
    BY <1>7 DEF Counting, Publishing, TallyOf, After
  <2>. QED  BY <1>3, <2>1
<1>8. CASE Recomputing(s, u)
  <2>. DEFINE i == s.invoice
              sum == Total(Visible(entry, s), s.seen)
              paid == Total(Visible(entry, s), LivePayments(Visible(entry, s), i))
              row == [invoice[i] EXCEPT !.status = Classify(sum, invoice[i].due)]
  <2>1. /\ s.step = "status" /\ u.step = "fees" /\ u.rows = s.rows
        /\ u.invoices = [s.invoices EXCEPT ![i] = row]
    BY <1>8 DEF Recomputing
  <2>2. i \in Invoices /\ s.invoices = NoInvoices
    BY <1>1, <2>1 DEF LocalsOK, LockOK
  <2>3. invoice[i] \in InvoiceRow
    BY <2>2 DEF IInv, WellFormed, TypeOK
  <2>4. row.due = invoice[i].due /\ row.status = Classify(sum, row.due) /\ row.due \in Nat
    BY <2>3 DEF InvoiceRow
  <2>5. ASSUME OnlyPaidInto(Visible(entry, s), i)
        PROVE  sum <= paid /\ sum \in Nat /\ paid \in Nat
    <3>1. s.seen \subseteq LivePayments(Visible(entry, s), i)
      BY <1>1, <2>1, <2>5 DEF BackedLocals
    <3>2. /\ Visible(entry, s) \in [Requests -> EntryRow]
          /\ IsFiniteSet(RowsOf(Visible(entry, s)))
      BY VisibleRows DEF BInv
    <3>3. /\ IsFiniteSet(LivePayments(Visible(entry, s), i))
          /\ \A e \in LivePayments(Visible(entry, s), i) :
                Visible(entry, s)[e].amount \in Nat
          /\ paid \in Nat
      BY <2>5, <3>2, PaymentsFinite, PaidInto
    <3>4. sum <= paid
      BY <3>1, <3>3, TotalGrows
    <3>5. IsFiniteSet(s.seen) /\ \A e \in s.seen : Visible(entry, s)[e].amount \in Nat
      BY <3>1, <3>3, FS_Subset
    <3>6. sum \in Nat
      BY <3>5, TotalNat
    <3>. QED  BY <3>3, <3>4, <3>6
  <2>. HIDE DEF row, sum, i
  <2>6. Backed(Visible(entry, s), i, row)
    <3>. HIDE DEF paid
    <3>1. ASSUME OnlyPaidInto(Visible(entry, s), i)
          PROVE  /\ row.status = "paid" => paid >= row.due
                 /\ row.status = "partial" => paid > 0
      BY <2>4, <2>5, <3>1 DEF Classify
    <3>. QED  BY <3>1 DEF Backed, paid
  <2>7. \A j \in Invoices : u.invoices[j] # NoValue => j = i /\ u.invoices[j] = row
    BY <2>1, <2>2 DEF NoInvoices
  <2>8. Visible(entry, u) = Visible(entry, s)
    BY <2>1, SameRowsSeen
  <2>. QED  BY <2>1, <2>6, <2>7, <2>8 DEF BackedLocals
<1>9. CASE Generating(s, u)
  <2>1. PICK due \in Dues :
          u.invoices = [s.invoices EXCEPT ![s.invoice] = Upserted(invoice[s.invoice], due)]
    BY <1>9 DEF Generating
  <2>2. s.step = "generate" /\ u.step # "status" /\ u.rows = s.rows
    BY <1>9 DEF Generating
  <2>. DEFINE i == s.invoice
              row == Upserted(invoice[i], due)
  <2>3. i \in Invoices /\ invoice[i] \in InvoiceRow
    BY <1>1, <2>2 DEF LocalsOK, IInv, WellFormed, TypeOK
  <2>4. Backed(Visible(entry, s), i, row)
    <3>1. CASE invoice[i].status \in {"absent", "pending"}
      <4>1. row.status = "pending"
        BY <3>1 DEF Upserted
      <4>. QED  BY <4>1 DEF Backed
    <3>2. CASE invoice[i].status \notin {"absent", "pending"}
      <4>1. row = invoice[i]
        BY <3>2 DEF Upserted
      <4>2. Backed(entry, i, invoice[i])
        BY <2>3 DEF BInv, SettledIsBacked, Backed
      <4>3. entry \in [Requests -> EntryRow]
            /\ \A e \in Requests : entry[e].table = "none" => entry[e] = NoEntry
        BY DEF IInv, WellFormed, TypeOK, RowsFaithful
      <4>. QED  BY <2>3, <4>1, <4>2, <4>3, VisibleRows, BackedContinues DEF BInv
    <3>. QED  BY <3>1, <3>2
  <2>. HIDE DEF row, i
  <2>5. \A j \in Invoices : u.invoices[j] = IF j = i THEN row ELSE s.invoices[j]
    BY <1>1, <2>1 DEF Transaction, row, i
  <2>6. Visible(entry, u) = Visible(entry, s)
    BY <2>2, SameRowsSeen
  <2>. QED  BY <1>1, <2>2, <2>4, <2>5, <2>6 DEF BackedLocals
<1>. QED  BY <1>4, <1>5, <1>6, <1>7, <1>8, <1>9 DEF Effect

LEMMA BackedCommitStep ==
    ASSUME IInv, IInv', FiniteRows', BInv, NEW r \in Requests, Commit(r)
    PROVE  BInv'
<1>. DEFINE s == tx[r]
<1>1. /\ entry \in [Requests -> EntryRow] /\ entry' \in [Requests -> EntryRow]
      /\ \A i \in Invoices : invoice[i] \in InvoiceRow
      /\ \A e \in Requests : entry[e].table = "none" => entry[e] = NoEntry
  BY DEF IInv, WellFormed, TypeOK, RowsFaithful
<1>2. entry' = Visible(entry, s) /\ IsFiniteSet(RowsOf(entry'))
  BY ViewIs DEF Commit, FiniteRows, RowsOf
<1>3. Continues(entry, entry')
  BY <1>2, VisibleRows DEF BInv
<1>4. ASSUME NEW i \in Invoices
      PROVE  Backed(entry', i, invoice'[i])
  <2>1. CASE s.invoices[i] # NoValue
    <3>1. invoice'[i] = s.invoices[i]
      BY <2>1 DEF Commit
    <3>. QED  BY <1>2, <2>1, <3>1 DEF BInv, BackedLocals
  <2>2. CASE s.invoices[i] = NoValue
    <3>1. invoice'[i] = invoice[i]
      BY <2>2 DEF Commit
    <3>2. Backed(entry, i, invoice[i])
      BY DEF BInv, SettledIsBacked, Backed
    <3>. QED  BY <1>1, <1>2, <1>3, <3>1, <3>2, BackedContinues
  <2>. QED  BY <2>1, <2>2
<1>5. ASSUME NEW q \in Requests
      PROVE  BackedLocals(entry', tx'[q])
  <2>1. CASE q = r
    <3>1. tx'[r].invoices = NoInvoices /\ tx'[r].step = "committed"
      BY DEF Commit, IInv, WellFormed, TypeOK, Idle
    <3>. QED  BY <2>1, <3>1 DEF BackedLocals, NoInvoices
  <2>2. CASE q # r
    <3>. DEFINE old == Visible(entry, tx[q])
                new == Visible(entry', tx[q])
    <3>1. tx'[q] = tx[q] /\ Continues(old, new)
      BY <2>2, CommitContinues
    <3>2. /\ old \in [Requests -> EntryRow]
          /\ \A e \in Requests : old[e].table = "none" => old[e] = NoEntry
      BY VisibleRows DEF BInv
    <3>3. tx[q] \in Transaction /\ LocalsOK(tx[q]) /\ BackedLocals(entry, tx[q])
          /\ IsFiniteSet({e \in Requests : tx[q].rows[e] # NoValue})
      BY Served DEF BInv, FiniteRows
    <3>4. new \in [Requests -> EntryRow] /\ IsFiniteSet(RowsOf(new))
      BY <1>1, <1>2, <3>3, VisibleFinite
    <3>. HIDE DEF old, new
    <3>5. ASSUME NEW i \in Invoices, tx[q].invoices[i] # NoValue
          PROVE  Backed(new, i, tx[q].invoices[i])
      <4>1. tx[q].invoices[i] \in InvoiceRow
        BY <3>3, <3>5 DEF Transaction
      <4>2. Backed(old, i, tx[q].invoices[i])
        BY <3>3, <3>5 DEF BackedLocals, old
      <4>. QED  BY <3>1, <3>2, <3>4, <4>1, <4>2, BackedContinues
    <3>6. ASSUME tx[q].step = "status", OnlyPaidInto(new, tx[q].invoice)
          PROVE  tx[q].seen \subseteq LivePayments(new, tx[q].invoice)
      <4>1. tx[q].invoice \in Invoices
        BY <3>3, <3>6 DEF LocalsOK
      <4>2. /\ OnlyPaidInto(old, tx[q].invoice)
            /\ LivePayments(old, tx[q].invoice) \subseteq LivePayments(new, tx[q].invoice)
        BY <3>1, <3>2, <3>4, <3>6, <4>1, PaymentsContinue
      <4>3. tx[q].seen \subseteq LivePayments(old, tx[q].invoice)
        BY <3>3, <3>6, <4>2 DEF BackedLocals, old
      <4>. QED  BY <4>2, <4>3
    <3>. QED  BY <3>1, <3>5, <3>6 DEF BackedLocals, new
  <2>. QED  BY <2>1, <2>2
<1>6. SettledIsBacked'
  BY <1>4 DEF SettledIsBacked, Backed
<1>. QED  BY <1>5, <1>6 DEF BInv

\* Until one of its payments is voided, or a negative one collected, an invoice shown
\* as paid is covered by the payments on record, and a partial one has some, whatever
\* ran in parallel and whatever the amounts (recomputeInvoiceStatus, fees.service.ts;
\* collectPayment does not refuse a negative amount, and one that commits between
\* another payment's sum and its UPDATE does leave a status too good).
THEOREM NoStatusTooGood == Spec => []SettledIsBacked
<1>1. Init => BInv
  <2>. SUFFICES ASSUME Init PROVE BInv
    OBVIOUS
  <2>1. \A i \in Invoices : invoice[i].status \notin {"paid", "partial"}
    BY DEF Init, Absent
  <2>2. SettledIsBacked
    BY <2>1 DEF SettledIsBacked
  <2>3. \A r \in Requests : tx[r].invoices = NoInvoices /\ tx[r].step = "idle"
    BY DEF Init, Idle
  <2>4. \A r \in Requests : BackedLocals(entry, tx[r])
    BY <2>3 DEF BackedLocals, NoInvoices
  <2>. QED  BY <2>2, <2>4, FiniteInit DEF BInv
<1>2. ASSUME IInv, IInv', LInv, BInv, [Next]_vars
      PROVE  BInv'
  <2>1. FiniteRows'
    BY <1>2, FiniteStep DEF BInv
  <2>2. CASE UNCHANGED <<invoice, entry, summary, tx>>
    BY <1>2, <2>1, <2>2 DEF BInv, SettledIsBacked
  <2>3. ASSUME NEW r \in Requests, Commit(r)
        PROVE  BInv'
    BY <1>2, <2>1, <2>3, BackedCommitStep
  <2>4. ASSUME UNCHANGED <<invoice, entry, summary>>, NEW r \in Requests, NEW u,
               tx' = [tx EXCEPT ![r] = u], Effect(r, tx[r], u)
        PROVE  BInv'
    <3>1. BackedLocals(entry, u)
      BY <1>2, <2>4, BackedLocalStep
    <3>2. \A q \in Requests : tx'[q] = IF q = r THEN u ELSE tx[q]
      BY <1>2, <2>4 DEF IInv, WellFormed, TypeOK
    <3>3. \A q \in Requests : BackedLocals(entry', tx'[q])
      BY <1>2, <2>4, <3>1, <3>2 DEF BInv
    <3>4. SettledIsBacked'
      BY <1>2, <2>4 DEF BInv, SettledIsBacked
    <3>. QED  BY <2>1, <3>3, <3>4 DEF BInv
  <2>. QED  BY <1>2, <2>2, <2>3, <2>4, Effects
<1>3. IInv /\ IInv' /\ LInv /\ BInv /\ [Next]_vars => BInv'
  BY <1>2
<1>4. BInv => SettledIsBacked
  BY DEF BInv
<1>. QED  BY <1>1, <1>3, <1>4, Invariance, LInvariance, PTL DEF Spec

-----------------------------------------------------------------------------
(* One request at a time                                                      *)

LEMMA OpenStays ==
    ASSUME NEW r \in Requests, NEW u, Effect(r, tx[r], u), ~Opening(u), u.step \in Open
    PROVE  tx[r].step \in Open
BY DEF Effect, Closing, Reading, Counting, Inserting, Voiding, Recomputing,
       Publishing, Generating, TallyOf, Open, Statements

\* A pool of one connection serves one request at a time.
LEMMA OneAtATime ==
    ASSUME PoolSize = 1
    PROVE  Spec => []OneOpen
<1>1. Init => OneOpen
  BY DEF Init, Idle, OneOpen, Open, Statements
<1>2. ASSUME IInv, LInv, OneOpen, [Next]_vars
      PROVE  OneOpen'
  <2>1. CASE UNCHANGED <<invoice, entry, summary, tx>>
    BY <1>2, <2>1 DEF OneOpen
  <2>2. ASSUME NEW r \in Requests, Commit(r)
        PROVE  OneOpen'
    <3>1. \A q \in Requests : q # r => tx'[q] = tx[q]
      BY <1>2, <2>2 DEF Commit, IInv, WellFormed, TypeOK
    <3>2. tx'[r].step \notin Open
      BY <1>2, <2>2 DEF Commit, IInv, WellFormed, TypeOK, Idle, Open, Statements
    <3>. QED  BY <1>2, <3>1, <3>2 DEF OneOpen
  <2>3. ASSUME NEW r \in Requests, NEW u, tx' = [tx EXCEPT ![r] = u],
               Effect(r, tx[r], u)
        PROVE  OneOpen'
    <3>1. \A q \in Requests : tx'[q] = IF q = r THEN u ELSE tx[q]
      BY <1>2, <2>3 DEF IInv, WellFormed, TypeOK
    <3>2. CASE u.step \notin Open
      BY <1>2, <3>1, <3>2 DEF OneOpen
    <3>3. CASE u.step \in Open /\ ~Opening(u)
      <4>1. tx[r].step \in Open
        BY <2>3, <3>3, OpenStays
      <4>. QED  BY <1>2, <3>1, <4>1 DEF OneOpen
    <3>4. CASE Opening(u)
      <4>. DEFINE busy == {q \in Requests : tx[q].step \in Open}
      <4>1. Cardinality(busy) < 1
        BY <3>4 DEF Opening
      <4>2. ASSUME NEW q \in busy
            PROVE  FALSE
        <5>1. busy = {q}
          BY <1>2, <4>2 DEF OneOpen
        <5>2. Cardinality(busy) = 1
          BY <5>1, FS_Singleton
        <5>. QED  BY <4>1, <5>2
      <4>3. \A q \in Requests : tx[q].step \notin Open
        BY <4>2
      <4>. QED  BY <3>1, <4>3 DEF OneOpen
    <3>. QED  BY <3>2, <3>3, <3>4
  <2>. QED  BY <1>2, <2>1, <2>2, <2>3, Effects
<1>3. IInv /\ LInv /\ OneOpen /\ [Next]_vars => OneOpen'
  BY <1>2
<1>. QED  BY <1>1, <1>3, Invariance, LInvariance, PTL DEF Spec

\* What is open after a commit was not, and nothing else is.
LEMMA NothingOpen ==
    ASSUME IInv, OneOpen, NEW r \in Requests, Commit(r)
    PROVE  \A q \in Requests : tx'[q].step \notin Open
<1>1. \A q \in Requests : q # r => tx'[q] = tx[q]
  BY DEF Commit, IInv, WellFormed, TypeOK
<1>2. tx'[r].step \notin Open
  BY DEF Commit, IInv, WellFormed, TypeOK, Idle, Open, Statements
<1>3. tx[r].step \in Open
  BY DEF Commit, AtStep, Open
<1>. QED  BY <1>1, <1>2, <1>3 DEF OneOpen

-----------------------------------------------------------------------------
(* The status of an invoice                                                   *)

\* Writing a row that is no payment of an invoice leaves its payments alone.
LEMMA OtherPayments ==
    ASSUME NEW t \in [Requests -> EntryRow], IsFiniteSet(RowsOf(t)),
           NEW d \in Requests, NEW i, NEW u,
           \A e \in Requests : e # d => u[e] = t[e],
           u[d].table # "payment" \/ u[d].invoice # i,
           t[d].table # "payment" \/ t[d].invoice # i
    PROVE  /\ LivePayments(u, i) = LivePayments(t, i)
           /\ Total(u, LivePayments(u, i)) = Total(t, LivePayments(t, i))
<1>1. LivePayments(u, i) = LivePayments(t, i)
  BY DEF LivePayments
<1>2. \A e \in LivePayments(t, i) : t[e].amount = u[e].amount
  BY DEF LivePayments
<1>3. IsFiniteSet(LivePayments(t, i))
  BY PaymentsFinite
<1>4. Total(t, LivePayments(t, i)) = Total(u, LivePayments(t, i))
  BY <1>2, <1>3, TotalSame
<1>. QED  BY <1>1, <1>4

LEMMA NothingWritten ==
    ASSUME NEW table \in [Requests -> EntryRow], NEW t, t.rows = NoRows
    PROVE  Visible(table, t) = table
BY DEF Visible, NoRows

LEMMA NoBillWritten ==
    ASSUME NEW bills \in [Invoices -> InvoiceRow], NEW t, t.invoices = NoInvoices
    PROVE  Current(bills, t) = bills
BY DEF Current, NoInvoices

\* The INSERT of a money row, or the void of one, into a transaction that has
\* written nothing yet.
LEMMA StatusRowStep ==
    ASSUME IInv, LInv, StatusInv, NEW r \in Requests, tx[r].step \in Open, NEW u,
           Inserting(r, tx[r], u) \/ Voiding(r, tx[r], u)
    PROVE  StatusLocals(entry, invoice, u)
<1>. DEFINE s == tx[r]
<1>1. s \in Transaction /\ LocalsOK(s) /\ LockOK(s) /\ Coherent(r, s)
      /\ StatusLocals(entry, invoice, s)
  BY Served DEF LInv, StatusInv
<1>2. /\ entry \in [Requests -> EntryRow] /\ invoice \in [Invoices -> InvoiceRow]
      /\ IsFiniteSet(RowsOf(entry))
  BY DEF IInv, WellFormed, TypeOK, StatusInv, FiniteRows, RowsOf
<1>3. s.rows = NoRows /\ s.invoices = NoInvoices /\ u.invoices = NoInvoices
      /\ s.step \in {"insert", "void"} /\ u.invoice = s.invoice
      /\ u.step = AfterWrite(s.table, s.step)
  BY <1>1 DEF Inserting, Voiding, LocalsOK, LockOK, Unwritten
<1>4. \E d \in Requests, row \in EntryRow :
         /\ u.rows = [NoRows EXCEPT ![d] = row]
         /\ row.table = s.table /\ row # NoValue
         /\ row.table = "payment" => row.invoice = s.invoice
         /\ entry[d].table = "payment" =>
               s.table = "payment" /\ entry[d].invoice = s.invoice
         /\ PaysInvoice(invoice, row)
  <2>1. CASE Inserting(r, s, u)
    <3>. DEFINE row == NewEntry(s)
    <3>1. u.rows = [NoRows EXCEPT ![r] = row]
      BY <1>3, <2>1 DEF Inserting
    <3>2. entry[r].table = "none"
      BY <2>1, Served DEF Inserting, Settled
    <3>3. row.table = s.table /\ row.invoice = s.invoice /\ row \in EntryRow
      BY <1>1 DEF NewEntry, Transaction, EntryRow
    <3>4. PaysInvoice(invoice, row)
      BY <2>1, <3>3 DEF Inserting, ViolatesConstraint, PaysInvoice
    <3>. HIDE DEF row
    <3>. QED  BY <3>1, <3>2, <3>3, <3>4, RowAssumption
  <2>2. CASE Voiding(r, s, u)
    <3>. DEFINE d == s.target
                row == [entry[d] EXCEPT !.voidedBy = r]
    <3>1. u.rows = [NoRows EXCEPT ![d] = row] /\ s.step = "void"
      BY <1>3, <2>2 DEF Voiding
    <3>2. d \in Requests /\ entry[d].table = s.table /\ entry[d].invoice = s.invoice
      BY <1>1, <3>1 DEF LocalsOK, Coherent, StatusLocals
    <3>3. row.table = entry[d].table /\ row.invoice = entry[d].invoice /\ row \in EntryRow
      BY <1>2, <3>2 DEF EntryRow
    <3>4. PaysInvoice(invoice, row)
      BY <3>2, <3>3 DEF StatusInv, PaysInvoice
    <3>. HIDE DEF row, d
    <3>. QED  BY <3>1, <3>2, <3>3, <3>4, RowAssumption
  <2>. QED  BY <2>1, <2>2
<1>5. PICK d \in Requests, row \in EntryRow :
         /\ u.rows = [NoRows EXCEPT ![d] = row]
         /\ row.table = s.table /\ row # NoValue
         /\ row.table = "payment" => row.invoice = s.invoice
         /\ entry[d].table = "payment" =>
               s.table = "payment" /\ entry[d].invoice = s.invoice
         /\ PaysInvoice(invoice, row)
  BY <1>4
<1>6. Visible(entry, u) = [entry EXCEPT ![d] = row]
  BY <1>2, <1>5 DEF Visible, NoRows
<1>7. \A e \in Requests : u.rows[e] # NoValue => u.rows[e] = row
  BY <1>5 DEF NoRows
<1>8. Current(invoice, u) = invoice
  BY <1>2, <1>3, NoBillWritten
<1>9. ASSUME NEW i \in Invoices,
             ~(u.step \in {"recompute", "status"} /\ i = u.invoice)
      PROVE  Matches(Visible(entry, u), i, Current(invoice, u)[i])
  <2>1. s.table # "payment" \/ i # s.invoice
    BY <1>3, <1>9 DEF AfterWrite
  <2>2. Matches(entry, i, invoice[i])
    BY DEF StatusInv, StatusMatchesLedger, Matches
  <2>3. /\ row.table # "payment" \/ row.invoice # i
        /\ entry[d].table # "payment" \/ entry[d].invoice # i
    BY <1>5, <2>1
  <2>4. Total(Visible(entry, u), LivePayments(Visible(entry, u), i))
           = Total(entry, LivePayments(entry, i))
    <3>. DEFINE v == Visible(entry, u)
    <3>1. v[d] = row /\ \A e \in Requests : e # d => v[e] = entry[e]
      BY <1>2, <1>6
    <3>. HIDE DEF v
    <3>2. v[d].table # "payment" \/ v[d].invoice # i
      BY <2>3, <3>1
    <3>. QED  BY <1>2, <2>3, <3>1, <3>2, OtherPayments DEF v
  <2>. QED  BY <1>8, <2>2, <2>4 DEF Matches
<1>10. u.step \in {"recompute", "fees"}
  BY <1>3 DEF AfterWrite
<1>. QED  BY <1>3, <1>5, <1>7, <1>9, <1>10 DEF StatusLocals, NoInvoices

LEMMA StatusGenerateStep ==
    ASSUME 0 \notin Dues, IInv, StatusInv, NEW r \in Requests, tx[r].step \in Open,
           NEW u, Generating(tx[r], u)
    PROVE  StatusLocals(entry, invoice, u)
<1>. DEFINE s == tx[r]
            i == s.invoice
<1>1. s \in Transaction /\ LocalsOK(s) /\ StatusLocals(entry, invoice, s)
  BY Served DEF StatusInv
<1>2. /\ entry \in [Requests -> EntryRow] /\ invoice \in [Invoices -> InvoiceRow]
      /\ IsFiniteSet(RowsOf(entry))
  BY DEF IInv, WellFormed, TypeOK, StatusInv, FiniteRows, RowsOf
<1>3. /\ s.step = "generate" /\ u.step \in {"generate", "commit"}
      /\ s.rows = NoRows /\ u.rows = NoRows /\ i \in Invoices
  BY <1>1 DEF Generating, StatusLocals, LocalsOK
<1>4. Visible(entry, s) = entry /\ Visible(entry, u) = entry
  BY <1>2, <1>3, NothingWritten
<1>5. PICK due \in Dues : u.invoices = [s.invoices EXCEPT ![i] = Upserted(invoice[i], due)]
  BY DEF Generating
<1>. DEFINE row == Upserted(invoice[i], due)
            paid == Total(entry, LivePayments(entry, i))
<1>6. Matches(entry, i, invoice[i]) /\ paid \in Int
  BY <1>2, <1>3, PaymentsFinite DEF StatusInv, StatusMatchesLedger, Matches
<1>7. Matches(entry, i, row) /\ row.status # "absent"
  <2>1. CASE invoice[i].status \notin {"absent", "pending"}
    BY <1>6, <2>1 DEF Upserted
  <2>2. CASE invoice[i].status = "absent"
    <3>1. LivePayments(entry, i) = {}
      BY <2>2 DEF LivePayments, StatusInv, PaysInvoice
    <3>2. paid = 0
      BY <3>1, FS_EmptySet, TotalStep
    <3>3. row.status = "pending" /\ row.due = due
      BY <2>2 DEF Upserted
    <3>4. due \in Nat /\ due > 0
      BY AmountsAssumption
    <3>. HIDE DEF row, paid
    <3>5. row.status = Classify(paid, row.due)
      BY <3>2, <3>3, <3>4 DEF Classify
    <3>. QED  BY <3>3, <3>5 DEF Matches, paid
  <2>3. CASE invoice[i].status = "pending"
    <3>1. Classify(paid, invoice[i].due) = "pending"
      BY <1>6, <2>3 DEF Matches
    <3>2. paid \in Int /\ paid <= 0
      BY <1>6, <3>1 DEF Classify
    <3>3. row.status = "pending" /\ row.due = due
      BY <2>3 DEF Upserted
    <3>4. due \in Nat /\ due > 0
      BY AmountsAssumption
    <3>. HIDE DEF row, paid
    <3>5. row.status = Classify(paid, row.due)
      BY <3>2, <3>3, <3>4 DEF Classify
    <3>. QED  BY <3>3, <3>5 DEF Matches, paid
  <2>. QED  BY <2>1, <2>2, <2>3
<1>. HIDE DEF row
<1>8. \A j \in Invoices : u.invoices[j] = IF j = i THEN row ELSE s.invoices[j]
  BY <1>1, <1>5 DEF Transaction, row
<1>9. ASSUME NEW j \in Invoices
      PROVE  /\ Matches(entry, j, Current(invoice, u)[j])
             /\ u.invoices[j] # NoValue => u.invoices[j].status # "absent"
  <2>1. CASE j = i
    <3>1. row # NoValue => Current(invoice, u)[j] = row
      BY <1>8, <2>1 DEF Current
    <3>2. row = NoValue => Current(invoice, u)[j] = invoice[j]
      BY <1>8, <2>1 DEF Current
    <3>. QED  BY <1>6, <1>7, <1>8, <2>1, <3>1, <3>2
  <2>2. CASE j # i
    <3>1. Current(invoice, u)[j] = Current(invoice, s)[j]
      BY <1>8, <2>2 DEF Current
    <3>. QED  BY <1>1, <1>3, <1>4, <1>8, <2>2, <3>1 DEF StatusLocals
  <2>. QED  BY <2>1, <2>2
<1>. QED  BY <1>3, <1>4, <1>9 DEF StatusLocals, NoRows

LEMMA StatusLocalStep ==
    ASSUME 0 \notin Dues, IInv, LInv, StatusInv, NEW r \in Requests, NEW u,
           Effect(r, tx[r], u), u.step \in Open
    PROVE  StatusLocals(entry, invoice, u)
<1>. DEFINE s == tx[r]
<1>1. /\ s \in Transaction /\ LocalsOK(s) /\ LockOK(s)
      /\ entry \in [Requests -> EntryRow] /\ invoice \in [Invoices -> InvoiceRow]
  BY Served DEF LInv, IInv, WellFormed, TypeOK
<1>2. ~Opening(u) => s.step \in Open /\ StatusLocals(entry, invoice, s)
  BY OpenStays DEF StatusInv
<1>3. CASE Opening(u)
  <2>1. u.rows = NoRows /\ u.invoices = NoInvoices
        /\ u.step \notin {"status", "void"}
    BY <1>3 DEF Opening, Fresh
  <2>2. Visible(entry, u) = entry /\ Current(invoice, u) = invoice
    BY <1>1, <2>1, NothingWritten, NoBillWritten
  <2>3. \A i \in Invoices : Matches(entry, i, invoice[i])
    BY DEF StatusInv, StatusMatchesLedger, Matches
  <2>. QED  BY <2>1, <2>2, <2>3 DEF StatusLocals, NoRows, NoInvoices
<1>4. ASSUME ~Opening(u), u.rows = s.rows, u.invoices = s.invoices
      PROVE  /\ Visible(entry, u) = Visible(entry, s)
             /\ Current(invoice, u) = Current(invoice, s)
             /\ StatusLocals(entry, invoice, s)
  BY <1>2, <1>4 DEF Visible, Current
<1>5. CASE Reading(s, u) /\ ~Opening(u)
  <2>1. u.rows = s.rows /\ u.invoices = s.invoices /\ u.target = s.target
    BY <1>5 DEF Reading, KeptLocals
  <2>2. CASE s.step = "recompute"
    <3>1. /\ u.step = "status" /\ u.invoice = s.invoice
          /\ u.seen = LivePayments(Visible(entry, s), s.invoice)
      BY <1>5, <2>2 DEF Reading
    <3>. QED  BY <1>4, <1>5, <2>1, <2>2, <3>1 DEF StatusLocals
  <2>3. CASE s.step # "recompute"
    <3>1. /\ s.step \in {"invoice", "existing", "balance", "row"}
          /\ u.step \in {"existing", "balance", "commit", "insert", "void"}
          /\ u.step = "void" => u.invoice = entry[u.target].invoice
      BY <1>5, <2>1, <2>3 DEF Reading
    <3>. QED  BY <1>4, <1>5, <2>1, <3>1 DEF StatusLocals
  <2>. QED  BY <2>2, <2>3
<1>6. CASE (Counting(s, u) \/ Publishing(s, u)) /\ ~Opening(u)
  <2>1. /\ u.rows = s.rows /\ u.invoices = s.invoices
        /\ s.step \in {"fees", "other", "expense", "summary"}
        /\ u.step \in {"other", "expense", "summary", "commit"}
    BY <1>6 DEF Counting, Publishing, TallyOf, After
  <2>. QED  BY <1>4, <1>6, <2>1 DEF StatusLocals
<1>7. CASE (Inserting(r, s, u) \/ Voiding(r, s, u)) /\ ~Opening(u)
  BY <1>2, <1>7, StatusRowStep
<1>8. CASE Recomputing(s, u) /\ ~Opening(u)
  <2>. DEFINE i == s.invoice
              status == Classify(Total(Visible(entry, s), s.seen), invoice[i].due)
              row == [invoice[i] EXCEPT !.status = status]
  <2>1. /\ s.step = "status" /\ u.step = "fees" /\ u.rows = s.rows
        /\ u.invoices = [s.invoices EXCEPT ![i] = row]
    BY <1>8 DEF Recomputing
  <2>2. i \in Invoices /\ s.invoices = NoInvoices
        /\ s.seen = LivePayments(Visible(entry, s), i)
    BY <1>1, <1>2, <1>8, <2>1 DEF LocalsOK, LockOK, StatusLocals
  <2>3. row.due = invoice[i].due /\ row.status = status /\ status # "absent"
    BY <1>1, <2>2 DEF InvoiceRow, Classify
  <2>4. Matches(Visible(entry, s), i, row)
    BY <2>2, <2>3 DEF Matches
  <2>. HIDE DEF row
  <2>5. /\ Visible(entry, u) = Visible(entry, s)
        /\ \A j \in Invoices : u.invoices[j] = IF j = i THEN row ELSE NoValue
    BY <2>1, <2>2 DEF Visible, NoInvoices
  <2>6. ASSUME NEW j \in Invoices
        PROVE  Matches(Visible(entry, u), j, Current(invoice, u)[j])
    <3>1. CASE j = i
      <4>1. row # NoValue => Current(invoice, u)[j] = row
        BY <2>5, <3>1 DEF Current
      <4>2. row \in InvoiceRow
        BY <1>1, <2>2, ClassifyType DEF InvoiceRow, row
      <4>3. row # NoValue
        BY <4>2, RowAssumption
      <4>. QED  BY <2>4, <2>5, <3>1, <4>1, <4>3
    <3>2. CASE j # i
      <4>1. Current(invoice, u)[j] = Current(invoice, s)[j]
        BY <2>2, <2>5, <3>2 DEF Current, NoInvoices
      <4>. QED  BY <1>2, <1>8, <2>5, <3>2, <4>1 DEF StatusLocals
    <3>. QED  BY <3>1, <3>2
  <2>. QED  BY <1>2, <1>8, <2>1, <2>3, <2>5, <2>6 DEF StatusLocals
<1>9. CASE Generating(s, u) /\ ~Opening(u)
  BY <1>2, <1>9, StatusGenerateStep
<1>. QED  BY <1>3, <1>5, <1>6, <1>7, <1>8, <1>9 DEF Effect, Closing

LEMMA StatusCommitStep ==
    ASSUME IInv, LInv, StatusInv, FiniteRows', OneOpen', NEW r \in Requests, Commit(r)
    PROVE  StatusInv'
<1>. DEFINE s == tx[r]
<1>1. s \in Transaction /\ s.step = "commit" /\ StatusLocals(entry, invoice, s)
      /\ LocalsOK(s)
  BY Served DEF StatusInv, Commit, AtStep, Open
<1>2. entry' = Visible(entry, s) /\ invoice' = Current(invoice, s)
  BY ViewIs DEF Commit, Current
<1>3. StatusMatchesLedger'
  <2>1. \A i \in Invoices : Matches(entry', i, invoice'[i])
    BY <1>1, <1>2 DEF StatusLocals
  <2>. QED  BY <2>1 DEF StatusMatchesLedger, Matches
<1>4. ASSUME NEW e \in Requests
      PROVE  PaysInvoice(invoice', entry'[e])
  <2>1. PaysInvoice(invoice, entry'[e]) /\ NamesInvoice(entry'[e])
    BY <1>1, <1>2 DEF StatusInv, StatusLocals, LocalsOK, IInv, WellFormed, Visible
  <2>2. \A i \in Invoices : invoice[i].status # "absent" => invoice'[i].status # "absent"
    BY <1>1, <1>2 DEF StatusLocals, Current
  <2>. QED  BY <2>1, <2>2 DEF PaysInvoice, NamesInvoice
<1>5. \A q \in Requests : tx'[q].step \notin Open
  BY NothingOpen DEF StatusInv
<1>. QED  BY <1>3, <1>4, <1>5 DEF StatusInv

\* As long as no two requests overlap, the status of an invoice is what its payments
\* on record make it (recomputeInvoiceStatus and voidEntry, fees.service.ts; an
\* invoice for nothing, which the generator writes as pending, would be paid).
THEOREM StatusIsExact ==
    ASSUME 0 \notin Dues
    PROVE  Spec /\ []OneOpen => []StatusMatchesLedger
<1>1. Init /\ OneOpen => StatusInv
  <2>. SUFFICES ASSUME Init, OneOpen PROVE StatusInv
    OBVIOUS
  <2>1. \A i \in Invoices : LivePayments(entry, i) = {}
    BY DEF Init, LivePayments, NoEntry
  <2>2. \A i \in Invoices : Total(entry, LivePayments(entry, i)) = 0
    BY <2>1, FS_EmptySet, TotalStep
  <2>3. ASSUME NEW i \in Invoices, invoice[i].status # "absent"
        PROVE  invoice[i].status = Classify(0, invoice[i].due)
    <3>1. invoice[i].status = "pending" /\ invoice[i].due \in Dues
      BY <2>3 DEF Init, Absent
    <3>2. \A d \in Dues : d \in Nat /\ d > 0
      BY AmountsAssumption
    <3>. QED  BY <3>1, <3>2 DEF Classify
  <2>4. StatusMatchesLedger
    BY <2>2, <2>3 DEF StatusMatchesLedger
  <2>5. \A e \in Requests : PaysInvoice(invoice, entry[e])
    BY DEF Init, NoEntry, PaysInvoice
  <2>6. \A r \in Requests : tx[r].step \notin Open
    BY DEF Init, Idle, Open, Statements
  <2>. QED  BY <2>4, <2>5, <2>6, FiniteInit DEF StatusInv
<1>2. ASSUME IInv, LInv, StatusInv, OneOpen', [Next]_vars
      PROVE  StatusInv'
  <2>1. FiniteRows'
    BY <1>2, FiniteStep DEF StatusInv
  <2>2. CASE UNCHANGED <<invoice, entry, summary, tx>>
    BY <1>2, <2>1, <2>2 DEF StatusInv, StatusMatchesLedger
  <2>3. ASSUME NEW r \in Requests, Commit(r)
        PROVE  StatusInv'
    BY <1>2, <2>1, <2>3, StatusCommitStep
  <2>4. ASSUME UNCHANGED <<invoice, entry, summary>>, NEW r \in Requests, NEW u,
               tx' = [tx EXCEPT ![r] = u], Effect(r, tx[r], u)
        PROVE  StatusInv'
    <3>1. u.step \in Open => StatusLocals(entry, invoice, u)
      BY <1>2, <2>4, StatusLocalStep
    <3>2. \A q \in Requests : tx'[q] = IF q = r THEN u ELSE tx[q]
      BY <1>2, <2>4 DEF IInv, WellFormed, TypeOK
    <3>3. \A q \in Requests : tx'[q].step \in Open => StatusLocals(entry', invoice', tx'[q])
      BY <1>2, <2>4, <3>1, <3>2 DEF StatusInv
    <3>4. StatusMatchesLedger'
      BY <1>2, <2>4 DEF StatusInv, StatusMatchesLedger
    <3>5. \A e \in Requests : PaysInvoice(invoice', entry'[e])
      BY <1>2, <2>4 DEF StatusInv
    <3>. QED  BY <1>2, <2>1, <3>3, <3>4, <3>5 DEF StatusInv
  <2>. QED  BY <1>2, <2>2, <2>3, <2>4, Effects
<1>3. IInv /\ LInv /\ StatusInv /\ OneOpen' /\ [Next]_vars => StatusInv'
  BY <1>2
<1>4. StatusInv => StatusMatchesLedger
  BY DEF StatusInv
<1>. QED  BY <1>1, <1>3, <1>4, Invariance, LInvariance, PTL DEF Spec

-----------------------------------------------------------------------------
(* The daily revenue                                                          *)

LEMMA SummaryLocalStep ==
    ASSUME IInv, LInv, SummaryInv, NEW r \in Requests, NEW u,
           Effect(r, tx[r], u), u.step \in Open
    PROVE  SummaryLocals(entry, u)
<1>. DEFINE s == tx[r]
<1>1. s \in Transaction /\ LocalsOK(s) /\ LockOK(s)
  BY Served DEF LInv
<1>2. ~Opening(u) => SummaryLocals(entry, s)
  BY OpenStays DEF SummaryInv
<1>3. \A table, day : OnDay(table, day, {}) = {}
  BY DEF OnDay
<1>4. CASE Opening(u)
  BY <1>4 DEF Opening, Fresh, SummaryLocals, Tallied
<1>5. CASE Reading(s, u) /\ ~Opening(u)
  <2>1. CASE u.step = "commit"
    <3>1. s.step = "existing" /\ u.summary = s.summary /\ u.rows = s.rows
      BY <1>5, <2>1 DEF Reading
    <3>2. u.summary = NoValue /\ u.rows = NoRows
      BY <1>1, <3>1 DEF LocalsOK, LockOK, Unwritten
    <3>. QED  BY <2>1, <3>2 DEF SummaryLocals, Tallied
  <2>2. CASE u.step # "commit"
    <3>1. u.step \in {"existing", "balance", "insert", "void", "status"}
      BY <1>5, <2>2 DEF Reading
    <3>. QED  BY <3>1 DEF SummaryLocals, Tallied
  <2>. QED  BY <2>1, <2>2
<1>6. CASE Counting(s, u) /\ ~Opening(u)
  <2>1. /\ u.day = s.day /\ u.rows = s.rows
        /\ u.counted = s.counted \cup OnDay(Visible(entry, s), s.day, {TallyOf[s.step]})
        /\ s.step \in {"fees", "other", "expense"} /\ u.step = After(s.table, s.step)
    BY <1>6 DEF Counting, KeptLocals, TallyOf
  <2>2. s.counted = OnDay(Visible(entry, s), s.day, Tallied[s.step])
    BY <1>2, <1>6, <2>1 DEF SummaryLocals, Tallied
  <2>3. /\ u.step \in {"other", "expense", "summary"}
        /\ Tallied[u.step] = Tallied[s.step] \cup {TallyOf[s.step]}
    BY <2>1 DEF After, Tallied, TallyOf, Tables
  <2>4. u.counted = OnDay(Visible(entry, s), s.day, Tallied[u.step])
    BY <2>1, <2>2, <2>3 DEF OnDay
  <2>. QED  BY <2>1, <2>3, <2>4, SameRowsSeen DEF SummaryLocals
<1>7. CASE (Inserting(r, s, u) \/ Voiding(r, s, u) \/ Recomputing(s, u)) /\ ~Opening(u)
  <2>1. s.step \in {"insert", "void", "status"} /\ u.counted = s.counted
        /\ u.step \in {"recompute", "fees"}
    BY <1>7 DEF Inserting, Voiding, Recomputing, AfterWrite
  <2>2. u.counted = {}
    BY <1>1, <2>1 DEF LocalsOK, Unwritten
  <2>. QED  BY <1>3, <2>1, <2>2 DEF SummaryLocals, Tallied
<1>8. CASE Publishing(s, u) /\ ~Opening(u)
  <2>1. /\ s.step = "summary" /\ u.step = "commit" /\ u.rows = s.rows
        /\ u.summary = [day |-> s.day, counted |-> s.counted]
    BY <1>8 DEF Publishing
  <2>2. s.counted = OnDay(Visible(entry, s), s.day, Tables)
    BY <1>2, <1>8, <2>1 DEF SummaryLocals, Tallied
  <2>3. u.summary \in SummaryRow
    BY <1>1, <2>1 DEF SummaryRow, Transaction
  <2>4. u.summary # NoValue /\ u.summary.counted = s.counted /\ u.summary.day = s.day
    BY <2>1, <2>3, RowAssumption
  <2>. QED  BY <2>1, <2>2, <2>4, SameRowsSeen DEF SummaryLocals, Tallied
<1>9. CASE Generating(s, u) /\ ~Opening(u)
  <2>1. /\ s.step = "generate" /\ u.step \in {"generate", "commit"}
        /\ u.rows = s.rows /\ u.summary = s.summary
    BY <1>9 DEF Generating
  <2>2. u.rows = NoRows /\ u.summary = NoValue
    BY <1>1, <1>2, <1>9, <2>1 DEF SummaryLocals, LockOK
  <2>. QED  BY <2>1, <2>2 DEF SummaryLocals, Tallied
<1>. QED  BY <1>4, <1>5, <1>6, <1>7, <1>8, <1>9 DEF Effect, Closing

LEMMA SummaryCommitStep ==
    ASSUME IInv, IInv', SummaryInv, OneOpen', NEW r \in Requests, Commit(r)
    PROVE  SummaryInv'
<1>. DEFINE s == tx[r]
<1>1. s \in Transaction /\ s.step = "commit" /\ SummaryLocals(entry, s)
      /\ entry \in [Requests -> EntryRow]
  BY Served DEF SummaryInv, Commit, AtStep, Open, IInv, WellFormed, TypeOK
<1>2. entry' = Visible(entry, s)
  BY ViewIs DEF Commit
<1>3. SummaryMatchesLedger'
  <2>1. CASE s.summary = NoValue
    <3>1. entry' = entry /\ summary' = summary
      BY <1>1, <1>2, <2>1, NothingWritten DEF SummaryLocals, Commit
    <3>. QED  BY <3>1 DEF SummaryInv, SummaryMatchesLedger
  <2>2. CASE s.summary # NoValue
    <3>1. summary' = s.summary
      BY <2>2 DEF Commit
    <3>2. summary'.counted = OnDay(entry', summary'.day, Tables)
      BY <1>1, <1>2, <2>2, <3>1 DEF SummaryLocals
    <3>3. \A e \in Requests : entry'[e].table \in Tables \cup {"none"}
      BY DEF IInv, WellFormed, TypeOK, EntryRow
    <3>4. OnDay(entry', summary'.day, Tables)
             = {e \in Requests : IsLive(entry'[e]) /\ entry'[e].day = summary'.day}
      BY <3>3 DEF OnDay, IsLive, Tables
    <3>. QED  BY <3>2, <3>4 DEF SummaryMatchesLedger
  <2>. QED  BY <2>1, <2>2
<1>4. \A q \in Requests : tx'[q].step \notin Open
  BY NothingOpen DEF SummaryInv
<1>. QED  BY <1>3, <1>4 DEF SummaryInv

\* As long as no two requests overlap, the daily revenue counts exactly the valid
\* money rows of its day: payments, other income and expenses, each void taken off
\* (refresh_daily_revenue of schema.sql, called by every write of fees.service.ts).
THEOREM RevenueIsExact == Spec /\ []OneOpen => []SummaryMatchesLedger
<1>1. Init /\ OneOpen => SummaryInv
  BY DEF Init, Idle, SummaryInv, SummaryMatchesLedger, Open, Statements
<1>2. ASSUME IInv, IInv', LInv, SummaryInv, OneOpen', [Next]_vars
      PROVE  SummaryInv'
  <2>1. CASE UNCHANGED <<invoice, entry, summary, tx>>
    BY <1>2, <2>1 DEF SummaryInv, SummaryMatchesLedger
  <2>2. ASSUME NEW r \in Requests, Commit(r)
        PROVE  SummaryInv'
    BY <1>2, <2>2, SummaryCommitStep
  <2>3. ASSUME UNCHANGED <<invoice, entry, summary>>, NEW r \in Requests, NEW u,
               tx' = [tx EXCEPT ![r] = u], Effect(r, tx[r], u)
        PROVE  SummaryInv'
    <3>1. u.step \in Open => SummaryLocals(entry, u)
      BY <1>2, <2>3, SummaryLocalStep
    <3>2. \A q \in Requests : tx'[q] = IF q = r THEN u ELSE tx[q]
      BY <1>2, <2>3 DEF IInv, WellFormed, TypeOK
    <3>3. \A q \in Requests : tx'[q].step \in Open => SummaryLocals(entry', tx'[q])
      BY <1>2, <2>3, <3>1, <3>2 DEF SummaryInv
    <3>4. SummaryMatchesLedger'
      BY <1>2, <2>3 DEF SummaryInv, SummaryMatchesLedger
    <3>. QED  BY <1>2, <3>3, <3>4 DEF SummaryInv
  <2>. QED  BY <1>2, <2>1, <2>2, <2>3, Effects
<1>3. IInv /\ IInv' /\ LInv /\ SummaryInv /\ OneOpen' /\ [Next]_vars => SummaryInv'
  BY <1>2
<1>4. SummaryInv => SummaryMatchesLedger
  BY DEF SummaryInv
<1>. QED  BY <1>1, <1>3, <1>4, Invariance, LInvariance, PTL DEF Spec

-----------------------------------------------------------------------------
(* The balance of an online payment                                           *)

LEMMA ClampedBound ==
    ASSUME NEW asked \in Int, NEW balance \in Int
    PROVE  Clamped(asked, balance) \in Int /\ Clamped(asked, balance) <= balance
<1>1. CASE asked = 0
  BY <1>1 DEF Clamped
<1>2. CASE asked # 0
  <2>1. PICK m \in {asked, balance} : \A x \in {asked, balance} : m <= x
    <3>1. CASE asked <= balance
      BY <3>1
    <3>2. CASE balance <= asked
      BY <3>2
    <3>. QED  BY <3>1, <3>2
  <2>2. /\ Min({asked, balance}) \in {asked, balance}
        /\ \A x \in {asked, balance} : Min({asked, balance}) <= x
    BY <2>1 DEF Min
  <2>. QED  BY <1>2, <2>2 DEF Clamped
<1>. QED  BY <1>1, <1>2

LEMMA BalanceInsertStep ==
    ASSUME IInv, LInv, BalanceInv, NEW r \in Requests, tx[r].step \in Open, NEW u,
           Inserting(r, tx[r], u)
    PROVE  BalanceLocals(entry, invoice, r, u)
<1>. DEFINE s == tx[r]
            row == NewEntry(s)
            i == s.invoice
<1>1. s \in Transaction /\ LocalsOK(s) /\ LockOK(s) /\ BalanceLocals(entry, invoice, r, s)
  BY Served DEF LInv, BalanceInv
<1>2. /\ entry \in [Requests -> EntryRow] /\ invoice \in [Invoices -> InvoiceRow]
      /\ IsFiniteSet(RowsOf(entry))
  BY DEF IInv, WellFormed, TypeOK, BalanceInv, FiniteRows, RowsOf
<1>3. /\ s.step = "insert" /\ u.step \in {"recompute", "fees"}
      /\ u.rows = [s.rows EXCEPT ![r] = row] /\ u.invoices = s.invoices
  BY DEF Inserting, AfterWrite
<1>4. s.rows = NoRows /\ s.invoices = NoInvoices /\ entry[r].table = "none"
  BY <1>1, <1>3, Served DEF LocalsOK, LockOK, Unwritten, Settled
<1>5. /\ row.table = s.table /\ row.invoice = i /\ row.gateway = s.gateway
      /\ row.amount = s.amount /\ row.voidedBy = NoValue /\ row # NoValue
      /\ s.amount \in Int
  <2>1. row \in EntryRow
    BY <1>1 DEF NewEntry, Transaction, EntryRow
  <2>2. row # NoValue
    BY <2>1, RowAssumption
  <2>. QED  BY <1>1, <2>2 DEF NewEntry, Transaction
<1>. HIDE DEF row
<1>6. ASSUME s.gateway # NoValue
      PROVE  /\ i \in Invoices
             /\ Total(Visible(entry, u), LivePayments(Visible(entry, u), i))
                   <= Current(invoice, u)[i].due
  <2>1. s.table = "payment"
        /\ s.amount + Total(entry, LivePayments(entry, i)) <= invoice[i].due
    BY <1>1, <1>3, <1>6 DEF BalanceLocals
  <2>2. i \in Invoices
    BY <1>1, <1>3, <2>1 DEF LocalsOK
  <2>. DEFINE v == Visible(entry, u)
              L == LivePayments(entry, i)
              M == LivePayments(v, i)
  <2>3. /\ v[r] = row /\ \A e \in Requests : e # r => v[e] = entry[e]
    BY <1>3, <1>4, <1>5 DEF Visible, NoRows
  <2>. HIDE DEF v
  <2>4. M = L \cup {r} /\ r \notin L
    BY <1>4, <1>5, <2>1, <2>3 DEF LivePayments, IsLive
  <2>5. /\ IsFiniteSet(L) /\ \A e \in L : entry[e].amount \in Int
        /\ Total(entry, L) \in Int
    BY <1>2, PaymentsFinite
  <2>6. \A e \in L : entry[e].amount = v[e].amount
    BY <2>3, <2>4 DEF LivePayments
  <2>. HIDE DEF L, M
  <2>7. Total(entry, L) = Total(v, L)
    BY <2>5, <2>6, TotalSame
  <2>8. IsFiniteSet(M) /\ \A e \in M : v[e].amount \in Int
    <3>1. IsFiniteSet(M)
      BY <2>4, <2>5, FS_AddElement
    <3>2. \A e \in M : v[e].amount \in Int
      BY <1>5, <2>3, <2>4, <2>5, <2>6
    <3>. QED  BY <3>1, <3>2
  <2>9. M \ {r} = L /\ r \in M
    BY <2>4
  <2>10. Total(v, M) = v[r].amount + Total(v, M \ {r})
    BY <2>8, <2>9, TotalTake
  <2>11. Total(v, M) = s.amount + Total(entry, L)
    BY <1>5, <2>3, <2>7, <2>9, <2>10
  <2>12. Current(invoice, u) = invoice
    BY <1>2, <1>3, <1>4, NoBillWritten
  <2>. QED  BY <2>1, <2>2, <2>11, <2>12 DEF v, M, L
<1>7. u.rows[r] = row
  BY <1>3, <1>4 DEF NoRows
<1>. QED  BY <1>3, <1>5, <1>6, <1>7 DEF BalanceLocals

LEMMA BalanceLocalStep ==
    ASSUME IInv, LInv, BalanceInv, NEW r \in Requests, NEW u,
           Effect(r, tx[r], u), u.step \in Open
    PROVE  BalanceLocals(entry, invoice, r, u)
<1>. DEFINE s == tx[r]
<1>1. /\ s \in Transaction /\ LocalsOK(s) /\ LockOK(s) /\ Coherent(r, s)
      /\ entry \in [Requests -> EntryRow] /\ invoice \in [Invoices -> InvoiceRow]
      /\ IsFiniteSet(RowsOf(entry))
  BY Served DEF LInv, IInv, WellFormed, TypeOK, BalanceInv, FiniteRows, RowsOf
<1>2. ~Opening(u) => s.step \in Open /\ BalanceLocals(entry, invoice, r, s)
  BY OpenStays DEF BalanceInv
<1>3. CASE Opening(u)
  BY <1>3 DEF Opening, Fresh, BalanceLocals, NoRows
<1>4. ASSUME ~Opening(u), u.rows = s.rows, u.invoices = s.invoices,
             u.step \notin {"existing", "balance", "insert", "generate"}
      PROVE  BalanceLocals(entry, invoice, r, u)
  <2>1. Visible(entry, u) = Visible(entry, s) /\ Current(invoice, u) = Current(invoice, s)
    BY <1>4 DEF Visible, Current
  <2>. QED  BY <1>2, <1>4, <2>1 DEF BalanceLocals
<1>5. CASE Reading(s, u) /\ ~Opening(u)
  <2>1. u.rows = s.rows /\ u.invoices = s.invoices
        /\ u.table = s.table /\ u.gateway = s.gateway
    BY <1>5 DEF Reading, KeptLocals
  <2>2. ASSUME s.step \in {"invoice", "existing", "balance"}
        PROVE  u.rows[r] = NoValue
    BY <1>1, <2>1, <2>2 DEF LocalsOK, Unwritten, NoRows
  <2>3. CASE u.step \in {"existing", "balance"}
    <3>1. s.step \in {"invoice", "existing"} /\ u.due = invoice[u.invoice].due
      BY <1>2, <1>5, <2>3 DEF Reading, BalanceLocals
    <3>. QED  BY <2>2, <2>3, <3>1 DEF BalanceLocals
  <2>4. CASE u.step = "insert"
    <3>. DEFINE paid == Total(entry, LivePayments(entry, s.invoice))
    <3>1. s.step = "balance" /\ u.invoice = s.invoice
          /\ u.amount = Clamped(s.amount, s.due - paid)
      BY <1>5, <2>4 DEF Reading
    <3>2. s.table = "payment" /\ s.due = invoice[s.invoice].due
      BY <1>1, <1>2, <1>5, <3>1 DEF LocalsOK, BalanceLocals
    <3>3. s.amount \in Int /\ s.due \in Nat /\ paid \in Int
      BY <1>1, PaymentsFinite DEF Transaction
    <3>. HIDE DEF paid
    <3>4. s.due - paid \in Int
      BY <3>3
    <3>5. u.amount \in Int /\ u.amount <= s.due - paid
      BY <3>1, <3>3, <3>4, ClampedBound
    <3>6. u.amount + paid <= invoice[u.invoice].due
      BY <3>1, <3>2, <3>3, <3>5
    <3>. QED  BY <2>1, <2>2, <2>4, <3>1, <3>2, <3>6 DEF BalanceLocals, paid
  <2>5. CASE u.step \notin {"existing", "balance", "insert"}
    <3>1. u.step # "generate"
      BY <1>5, <2>5 DEF Reading
    <3>. QED  BY <1>4, <1>5, <2>1, <2>5, <3>1
  <2>. QED  BY <2>3, <2>4, <2>5
<1>6. CASE (Counting(s, u) \/ Publishing(s, u)) /\ ~Opening(u)
  <2>1. /\ u.rows = s.rows /\ u.invoices = s.invoices
        /\ u.step \in {"other", "expense", "summary", "commit"}
    BY <1>6 DEF Counting, Publishing, TallyOf, After
  <2>. QED  BY <1>4, <1>6, <2>1
<1>7. CASE Inserting(r, s, u) /\ ~Opening(u)
  BY <1>2, <1>7, BalanceInsertStep
<1>8. CASE Voiding(r, s, u) /\ ~Opening(u)
  <2>1. /\ s.step = "void" /\ u.step \in {"recompute", "fees"}
        /\ u.rows = [s.rows EXCEPT ![s.target] = [entry[s.target] EXCEPT !.voidedBy = r]]
    BY <1>8 DEF Voiding, AfterWrite
  <2>2. entry[s.target].table # "none" /\ entry[r].table = "none" /\ s.rows = NoRows
    BY <1>1, <2>1, Served DEF Coherent, LocalsOK, Tables, Unwritten, Settled
  <2>3. u.rows[r] = NoValue
    BY <2>1, <2>2 DEF NoRows
  <2>. QED  BY <2>1, <2>3 DEF BalanceLocals
<1>9. CASE Recomputing(s, u) /\ ~Opening(u)
  <2>. DEFINE i == s.invoice
              status == Classify(Total(Visible(entry, s), s.seen), invoice[i].due)
              row == [invoice[i] EXCEPT !.status = status]
  <2>1. /\ s.step = "status" /\ u.step = "fees" /\ u.rows = s.rows
        /\ u.invoices = [s.invoices EXCEPT ![i] = row]
    BY <1>9 DEF Recomputing
  <2>2. i \in Invoices /\ s.invoices = NoInvoices
    BY <1>1, <2>1 DEF LocalsOK, LockOK
  <2>3. row.due = invoice[i].due
    BY <1>1, <2>2 DEF InvoiceRow
  <2>. HIDE DEF row
  <2>4. \A j \in Invoices : u.invoices[j] = IF j = i THEN row ELSE NoValue
    BY <2>1, <2>2 DEF NoInvoices
  <2>5. \A j \in Invoices : Current(invoice, u)[j].due = invoice[j].due
    BY <2>3, <2>4 DEF Current
  <2>6. Current(invoice, s) = invoice /\ Visible(entry, u) = Visible(entry, s)
    BY <1>1, <2>1, <2>2, NoBillWritten, SameRowsSeen
  <2>. QED  BY <1>2, <1>9, <2>1, <2>5, <2>6 DEF BalanceLocals
<1>10. CASE Generating(s, u) /\ ~Opening(u)
  <2>1. s.step = "generate" /\ u.step \in {"generate", "commit"} /\ u.rows = s.rows
    BY <1>10 DEF Generating
  <2>2. u.rows = NoRows
    BY <1>2, <1>10, <2>1 DEF BalanceLocals
  <2>. QED  BY <2>1, <2>2 DEF BalanceLocals, NoRows
<1>. QED  BY <1>3, <1>5, <1>6, <1>7, <1>8, <1>9, <1>10 DEF Effect, Closing

\* As long as no two requests overlap, an online payment never takes the payments of
\* its invoice above the amount due (verifyPayment, fees.service.ts).
THEOREM OnlinePaymentsFit == Spec /\ []OneOpen => OnlinePaymentFitsBalance
<1>1. Init /\ OneOpen => BalanceInv
  BY FiniteInit DEF Init, Idle, BalanceInv, Open, Statements
<1>2. ASSUME IInv, LInv, BalanceInv, OneOpen', [Next]_vars
      PROVE  BalanceInv'
  <2>1. FiniteRows'
    BY <1>2, FiniteStep DEF BalanceInv
  <2>2. CASE UNCHANGED <<invoice, entry, summary, tx>>
    BY <1>2, <2>1, <2>2 DEF BalanceInv
  <2>3. ASSUME NEW r \in Requests, Commit(r)
        PROVE  BalanceInv'
    BY <1>2, <2>1, <2>3, NothingOpen DEF BalanceInv
  <2>4. ASSUME UNCHANGED <<invoice, entry, summary>>, NEW r \in Requests, NEW u,
               tx' = [tx EXCEPT ![r] = u], Effect(r, tx[r], u)
        PROVE  BalanceInv'
    <3>1. u.step \in Open => BalanceLocals(entry, invoice, r, u)
      BY <1>2, <2>4, BalanceLocalStep
    <3>2. \A q \in Requests : tx'[q] = IF q = r THEN u ELSE tx[q]
      BY <1>2, <2>4 DEF IInv, WellFormed, TypeOK
    <3>3. \A q \in Requests :
             tx'[q].step \in Open => BalanceLocals(entry', invoice', q, tx'[q])
      BY <1>2, <2>4, <3>1, <3>2 DEF BalanceInv
    <3>. QED  BY <1>2, <2>1, <3>3 DEF BalanceInv
  <2>. QED  BY <1>2, <2>2, <2>3, <2>4, Effects
<1>. DEFINE Fits(e) == entry[e].table = "none" /\ entry'[e].gateway # NoValue =>
                          Total(entry', LivePayments(entry', entry'[e].invoice))
                             <= invoice'[entry'[e].invoice].due
<1>3. ASSUME IInv, LInv, BalanceInv, [Next]_vars, NEW e \in Requests
      PROVE  Fits(e)
  <2>1. entry[e].table = "none" => entry[e] = NoEntry /\ entry[e].gateway = NoValue
    BY <1>3 DEF IInv, RowsFaithful, NoEntry
  <2>2. CASE entry' = entry
    BY <2>1, <2>2
  <2>3. ASSUME NEW r \in Requests, Commit(r), entry[e].table = "none",
               entry'[e].gateway # NoValue
        PROVE  Total(entry', LivePayments(entry', entry'[e].invoice))
                  <= invoice'[entry'[e].invoice].due
    <3>1. /\ entry' = Visible(entry, tx[r]) /\ invoice' = Current(invoice, tx[r])
      BY <2>3, ViewIs DEF Commit, Current
    <3>2. tx[r].rows[e] # NoValue /\ entry'[e] = tx[r].rows[e] /\ e = r
      BY <1>3, <2>1, <2>3, CommitRows
    <3>3. BalanceLocals(entry, invoice, r, tx[r])
      BY <1>3, <2>3 DEF BalanceInv, Commit, AtStep, Open
    <3>. QED  BY <2>3, <3>1, <3>2, <3>3 DEF BalanceLocals
  <2>. QED  BY <1>3, <2>2, <2>3, Effects
<1>. HIDE DEF Fits
<1>4. IInv /\ LInv /\ BalanceInv /\ [Next]_vars => [\A e \in Requests : Fits(e)]_vars
  BY <1>3
<1>5. IInv /\ LInv /\ BalanceInv /\ OneOpen' /\ [Next]_vars => BalanceInv'
  BY <1>2
<1>6. Spec /\ []OneOpen => [][\A e \in Requests : Fits(e)]_vars
  BY <1>1, <1>4, <1>5, Invariance, LInvariance, PTL DEF Spec
<1>. QED  BY <1>6, PTL DEF OnlinePaymentFitsBalance, Fits

=============================================================================
