-------------------------- MODULE InvoiceGeneration --------------------------
(****************************************************************************)
(* How fee heads become amounts due: the fee structure and generateInvoices  *)
(* of fees.service.ts, with the statements of concurrent generations         *)
(* interleaved.  FeeLedger takes an invoice's amount due as given; here it   *)
(* is the set of lines that were added up, one per fee head that applies.    *)
(*                                                                          *)
(* A generation is one transaction (see FeeLedger).  Every SELECT sees what  *)
(* is committed when it runs, so two students of one run may be billed from  *)
(* different versions of the fee structure.                                  *)
(****************************************************************************)
EXTENDS Integers, FiniteSets

CONSTANTS
    Runs,         \* the generate requests ever made
    Students,
    Months,       \* billing months
    Heads,        \* fee head ids
    Classes,
    ClassOf,      \* the class of each student's section
    Amounts,      \* amounts an admin may set
    Frequencies,  \* frequencies an admin may choose in this instance
    Editable,     \* whether the fee structure changes after the start
    PoolSize,     \* transactions open at once
    NoValue       \* SQL NULL, and "no row version"

AllFrequencies == {"monthly", "quarterly", "annual", "one_time"}

ASSUME ClassAssumption == ClassOf \in [Students -> Classes] /\ NoValue \notin Classes
ASSUME FrequencyAssumption == Frequencies \subseteq AllFrequencies
ASSUME EditableAssumption == Editable \in BOOLEAN /\ PoolSize \in Nat

VARIABLES
    head,      \* fee_heads
    active,    \* students whose status is 'active'
    invoice,   \* fee_invoices by student and month, committed
    tx         \* the generation's transaction

vars == <<head, active, invoice, tx>>

-----------------------------------------------------------------------------

\* A head that applies to every class has class NoValue (NULL).
HeadRow == [amount : Amounts, frequency : Frequencies, class : Classes \cup {NoValue}]

\* A line of an invoice: the head that was billed, as it was.  A quarterly head
\* counts for a third of its amount and an annual one for a twelfth.
Line == [head : Heads, amount : Amounts, frequency : Frequencies]

\* Fault: the line is charged at a column the query did not select.
LineWithoutAmount(h, row) == [head |-> h, amount |-> NoValue, frequency |-> row.frequency]

LineOf(h, row) == [head |-> h, amount |-> row.amount, frequency |-> row.frequency]

InvoiceRow == [status : {"absent", "pending", "settled"}, lines : SUBSET Line]
Absent == [status |-> "absent", lines |-> {}]

ASSUME NoValueAssumption == NoValue \notin InvoiceRow \cup HeadRow

\* A generation: the students still to bill, the one being billed, the lines
\* added up so far, its one-time lines not looked at yet, and the invoices
\* written so far, which are locked until the transaction ends.
Transaction ==
    [step : {"idle", "students", "heads", "once", "upsert", "commit", "done", "failed"},
     month : Months \cup {NoValue}, class : Classes \cup {NoValue},
     scope : SUBSET Students, todo : SUBSET Students,
     student : Students \cup {NoValue},
     lines : SUBSET Line, once : SUBSET Line,
     rows : [Students -> InvoiceRow \cup {NoValue}]]

NoRows == [s \in Students |-> NoValue]
Idle == [step |-> "idle", month |-> NoValue, class |-> NoValue, scope |-> {},
         todo |-> {}, student |-> NoValue, lines |-> {}, once |-> {}, rows |-> NoRows]

Open == {"students", "heads", "once", "upsert", "commit"}

-----------------------------------------------------------------------------
(* The fee structure and the roster; each is a request of its own *)

SetHead(h) ==
    /\ Editable
    /\ \E row \in HeadRow : head' = [head EXCEPT ![h] = row]
    /\ UNCHANGED <<active, invoice, tx>>

DeleteHead(h) ==
    /\ Editable
    /\ head[h] # NoValue
    /\ head' = [head EXCEPT ![h] = NoValue]
    /\ UNCHANGED <<active, invoice, tx>>

Deactivate(s) ==
    /\ active' = active \ {s}
    /\ UNCHANGED <<head, invoice, tx>>

\* Payments settle an invoice and voids reopen it (FeeLedger); their UPDATE
\* waits while a generation holds the row.
Locked(s, m) == \E q \in Runs : tx[q].month = m /\ tx[q].rows[s] # NoValue

RecordPayment(s, m) ==
    /\ invoice[s][m].status # "absent"
    /\ ~Locked(s, m)
    /\ \E status \in {"pending", "settled"} :
          invoice' = [invoice EXCEPT ![s][m].status = status]
    /\ UNCHANGED <<head, active, tx>>

-----------------------------------------------------------------------------
(* generateInvoices *)

Begin(r) ==
    /\ tx[r].step = "idle"
    /\ Cardinality({q \in Runs : tx[q].step \in Open}) < PoolSize
    /\ \E m \in Months, class \in Classes \cup {NoValue} :
          tx' = [tx EXCEPT ![r] = [Idle EXCEPT !.step = "students", !.month = m,
                                               !.class = class]]
    /\ UNCHANGED <<head, active, invoice>>

\* The active students in scope, in whatever order the SELECT returns them.
NextStudent(t) ==
    IF t.todo = {} THEN {[t EXCEPT !.step = "commit", !.student = NoValue]}
    ELSE {[t EXCEPT !.step = "heads", !.student = s, !.todo = @ \ {s}] : s \in t.todo}

SelectStudents(r) ==
    /\ tx[r].step = "students"
    /\ LET scope == {s \in active : tx[r].class \in {NoValue, ClassOf[s]}}
       IN  \E t \in NextStudent([tx[r] EXCEPT !.scope = scope, !.todo = scope]) :
              tx' = [tx EXCEPT ![r] = t]
    /\ UNCHANGED <<head, active, invoice>>

\* WHERE class_id IS NULL OR class_id = the student's class
Applies(r, row) == row.class \in {NoValue, ClassOf[tx[r].student]}

\* Recurring heads are added up; each one-time head is looked into first.
SelectHeads(r) ==
    /\ tx[r].step = "heads"
    /\ LET applies == {h \in Heads : head[h] # NoValue /\ Applies(r, head[h])}
           lines == {LineOf(h, head[h]) : h \in applies}
           once == {l \in lines : l.frequency = "one_time"}
       IN  tx' = [tx EXCEPT ![r].lines = lines \ once, ![r].once = once,
                            ![r].step = IF once = {} THEN "upsert" ELSE "once"]
    /\ UNCHANGED <<head, active, invoice>>

\* Fault: only an invoice of the same month is looked for.
BilledThisMonth(s, m) == invoice[s][m].status # "absent"

\* SELECT 1 FROM fee_invoices WHERE student_id: any invoice, of any month.
BilledBefore(s, m) == \E other \in Months : invoice[s][other].status # "absent"

CheckOneTime(r) ==
    /\ tx[r].step = "once"
    /\ \E l \in tx[r].once :
          LET rest == tx[r].once \ {l}
              charged == IF BilledBefore(tx[r].student, tx[r].month) THEN {} ELSE {l}
          IN  tx' = [tx EXCEPT ![r].once = rest,
                               ![r].lines = @ \cup charged,
                               ![r].step = IF rest = {} THEN "upsert" ELSE "once"]
    /\ UNCHANGED <<head, active, invoice>>

\* INSERT ... ON CONFLICT DO UPDATE ... WHERE status = 'pending'
Upserted(row, lines) ==
    IF row.status = "settled" THEN row ELSE [status |-> "pending", lines |-> lines]

\* Fault: the upsert is committed student by student.
UpsertAtOnce(r) ==
    /\ tx[r].step = "upsert"
    /\ ~Locked(tx[r].student, tx[r].month)
    /\ invoice' = [invoice EXCEPT ![tx[r].student][tx[r].month] =
                                     Upserted(@, tx[r].lines)]
    /\ \E t \in NextStudent([tx[r] EXCEPT !.lines = {}]) : tx' = [tx EXCEPT ![r] = t]
    /\ UNCHANGED <<head, active>>

UpsertInvoice(r) ==
    /\ tx[r].step = "upsert"
    /\ ~Locked(tx[r].student, tx[r].month)
    /\ LET s == tx[r].student
           row == Upserted(invoice[s][tx[r].month], tx[r].lines)
       IN  \E t \in NextStudent([tx[r] EXCEPT !.rows[s] = row, !.lines = {}]) :
              tx' = [tx EXCEPT ![r] = t]
    /\ UNCHANGED <<head, active, invoice>>

Commit(r) ==
    /\ tx[r].step = "commit"
    /\ invoice' = [s \in Students |->
                     [m \in Months |-> IF m = tx[r].month /\ tx[r].rows[s] # NoValue
                                       THEN tx[r].rows[s] ELSE invoice[s][m]]]
    /\ tx' = [tx EXCEPT ![r] = [Idle EXCEPT !.step = "done", !.month = tx[r].month,
                                            !.scope = tx[r].scope]]
    /\ UNCHANGED <<head, active>>

\* Any failure, a deadlock's victim included, rolls the whole month back.
Fail(r) ==
    /\ tx[r].step \in Open
    /\ tx' = [tx EXCEPT ![r] = [Idle EXCEPT !.step = "failed"]]
    /\ UNCHANGED <<head, active, invoice>>

-----------------------------------------------------------------------------

Init ==
    /\ head \in [Heads -> HeadRow \cup {NoValue}]
    /\ active = Students
    /\ invoice = [s \in Students |-> [m \in Months |-> Absent]]
    /\ tx = [r \in Runs |-> Idle]

Next ==
    \/ \E r \in Runs : \/ Begin(r) \/ SelectStudents(r) \/ SelectHeads(r)
                       \/ CheckOneTime(r) \/ UpsertInvoice(r) \/ Commit(r) \/ Fail(r)
    \/ \E h \in Heads : SetHead(h) \/ DeleteHead(h)
    \/ \E s \in Students : Deactivate(s)
    \/ \E s \in Students, m \in Months : RecordPayment(s, m)

Spec == Init /\ [][Next]_vars

-----------------------------------------------------------------------------
(* Properties *)

\* Every table and local variable holds a value of its column or type.
TypeOK ==
    /\ head \in [Heads -> HeadRow \cup {NoValue}]
    /\ active \subseteq Students
    /\ invoice \in [Students -> [Months -> InvoiceRow]]
    /\ tx \in [Runs -> Transaction]

\* Generation is all or nothing: when a run has succeeded every student it found
\* has an invoice for the month, and an invoice exists only because a run that
\* succeeded found its student.
WholeMonthOrNothing ==
    /\ \A r \in Runs : tx[r].step = "done" =>
          \A s \in tx[r].scope : invoice[s][tx[r].month].status # "absent"
    /\ \A s \in Students, m \in Months : invoice[s][m].status # "absent" =>
          \E r \in Runs : tx[r].step = "done" /\ tx[r].month = m /\ s \in tx[r].scope

\* A one-time head is charged to a student on at most one invoice ("one_time
\* heads are billed only on a student's very first invoice").
OneTimeBilledOnce ==
    \A s \in Students : \A m, n \in Months :
       \A l \in invoice[s][m].lines, k \in invoice[s][n].lines :
          l = k /\ l.frequency = "one_time" => m = n

=============================================================================
