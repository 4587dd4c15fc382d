------------------------ MODULE InvoiceGenerationProofs ------------------------
(* TypeOK and WholeMonthOrNothing, for any number of concurrent runs, students,  *)
(* months and fee heads.                                                        *)
(* What makes generation all or nothing is what a run carries to its commit: a   *)
(* row for every student it found that it is past, and none for anybody else     *)
(* (Carried).                                                                   *)
EXTENDS InvoiceGeneration, FiniteSetTheorems, TLAPS

Billing == {"heads", "once", "upsert"}

Carried(t) ==
    /\ t.step \in Open \cup {"done"} => t.month \in Months
    /\ \A s \in Students : t.rows[s] # NoValue => s \in t.scope /\ t.rows[s].status # "absent"
    /\ t.step \in Billing => /\ t.todo \subseteq t.scope /\ t.student \in t.scope
                             /\ \A s \in t.scope : \/ s \in t.todo \cup {t.student}
                                                   \/ t.rows[s] # NoValue
    /\ t.step = "students" => t.rows = NoRows
    /\ t.step = "commit" => \A s \in t.scope : t.rows[s] # NoValue

IInv == TypeOK /\ (\A r \in Runs : Carried(tx[r])) /\ WholeMonthOrNothing

-----------------------------------------------------------------------------
(* A run's transaction *)

LEMMA IdleRun ==
  /\ Idle \in Transaction /\ Idle.step = "idle" /\ Idle.rows = NoRows /\ Idle.scope = {}
  /\ \A s \in Students : NoRows[s] = NoValue
  BY DEF Idle, Transaction, NoRows

LEMMA RunFields ==
  ASSUME NEW t \in Transaction
  PROVE  /\ t.scope \subseteq Students /\ t.todo \subseteq Students
         /\ t.rows \in [Students -> InvoiceRow \cup {NoValue}]
         /\ t.month \in Months \cup {NoValue} /\ t.class \in Classes \cup {NoValue}
         /\ t.student \in Students \cup {NoValue}
         /\ t.lines \subseteq Line /\ t.once \subseteq Line
  BY DEF Transaction

\* The next student in turn, or the commit.
LEMMA NextInTurn ==
  ASSUME NEW t \in Transaction, NEW u \in NextStudent(t), t.month \in Months,
         t.todo \subseteq t.scope,
         \A s \in Students : t.rows[s] # NoValue => s \in t.scope /\ t.rows[s].status # "absent",
         \A s \in t.scope : s \in t.todo \/ t.rows[s] # NoValue
  PROVE  u \in Transaction /\ Carried(u) /\ u.step \in {"heads", "commit"}
<1>1. CASE t.todo = {}
  <2>1. u = [t EXCEPT !.step = "commit", !.student = NoValue]
    BY <1>1 DEF NextStudent
  <2>2. u \in Transaction
    BY <2>1 DEF Transaction
  <2>3. u.step = "commit" /\ u.month = t.month /\ u.scope = t.scope /\ u.rows = t.rows
    BY <2>1 DEF Transaction
  <2> QED
    BY <1>1, <2>2, <2>3 DEF Carried, Billing
<1>2. CASE t.todo # {}
  <2>1. PICK s \in t.todo :
           u = [t EXCEPT !.step = "heads", !.student = s, !.todo = t.todo \ {s}]
    BY <1>2 DEF NextStudent, Transaction
  <2>2. s \in Students /\ t.todo \ {s} \subseteq Students
    BY RunFields
  <2>3. u \in Transaction
    BY <2>1, <2>2 DEF Transaction
  <2>4. /\ u.step = "heads" /\ u.month = t.month /\ u.scope = t.scope /\ u.rows = t.rows
        /\ u.student = s /\ u.todo = t.todo \ {s}
    BY <2>1 DEF Transaction
  <2> QED
    BY <2>3, <2>4 DEF Carried, Billing
<1> QED
  BY <1>1, <1>2

\* A run takes a step of its own, before its commit.
LEMMA OneRun ==
  ASSUME IInv, NEW r \in Runs, NEW t \in Transaction, Carried(t),
         tx[r].step # "done", t.step # "done", tx' = [tx EXCEPT ![r] = t],
         UNCHANGED <<head, active, invoice>>
  PROVE  IInv'
<1>1. /\ tx'[r] = t /\ \A q \in Runs \ {r} : tx'[q] = tx[q]
      /\ tx' \in [Runs -> Transaction]
  BY DEF IInv, TypeOK
<1>2. TypeOK'
  BY <1>1 DEF IInv, TypeOK
<1>3. \A q \in Runs : Carried(tx'[q])
  BY <1>1 DEF IInv
<1>4. \A q \in Runs : Carried(tx[q])'
  BY <1>3 DEF Carried
<1>5. WholeMonthOrNothing'
  BY <1>1 DEF IInv, WholeMonthOrNothing
<1> QED
  BY <1>2, <1>4, <1>5 DEF IInv

-----------------------------------------------------------------------------
(* The steps of a run *)

LEMMA RunFacts ==
  ASSUME IInv, NEW r \in Runs
  PROVE  /\ tx \in [Runs -> Transaction] /\ tx[r] \in Transaction /\ Carried(tx[r])
         /\ head \in [Heads -> HeadRow \cup {NoValue}] /\ active \subseteq Students
         /\ invoice \in [Students -> [Months -> InvoiceRow]]
  BY DEF IInv, TypeOK

LEMMA BeginStep ==
  ASSUME IInv, NEW r \in Runs, Begin(r)
  PROVE  IInv'
<1>1. PICK m \in Months, class \in Classes \cup {NoValue} :
         tx' = [tx EXCEPT ![r] = [Idle EXCEPT !.step = "students", !.month = m,
                                              !.class = class]]
  BY DEF Begin
<1> DEFINE t == [Idle EXCEPT !.step = "students", !.month = m, !.class = class]
<1>2. t \in Transaction
  BY IdleRun DEF Transaction
<1>3. t.step = "students" /\ t.month = m /\ t.rows = NoRows
  BY IdleRun DEF Transaction
<1>4. tx' = [tx EXCEPT ![r] = t]
  BY <1>1
<1> HIDE DEF t
<1>5. Carried(t)
  BY <1>3, IdleRun DEF Carried, Open, Billing
<1> QED
  BY <1>2, <1>3, <1>4, <1>5, OneRun DEF Begin

LEMMA SelectStudentsStep ==
  ASSUME IInv, NEW r \in Runs, SelectStudents(r)
  PROVE  IInv'
<1> DEFINE scope == {s \in active : tx[r].class \in {NoValue, ClassOf[s]}}
<1> DEFINE t == [tx[r] EXCEPT !.scope = scope, !.todo = scope]
<1>1. PICK u \in NextStudent(t) : tx' = [tx EXCEPT ![r] = u]
  BY DEF SelectStudents
<1>2. scope \subseteq Students
  BY RunFacts
<1> HIDE DEF scope
<1>3. t \in Transaction /\ t.month = tx[r].month /\ t.scope = scope /\ t.todo = scope
      /\ t.rows = tx[r].rows
  BY <1>2, RunFacts DEF Transaction
<1> HIDE DEF t
<1>4. tx[r].step = "students" /\ Carried(tx[r])
  BY RunFacts DEF SelectStudents
<1>5. tx[r].month \in Months /\ \A s \in Students : t.rows[s] = NoValue
  BY <1>3, <1>4, IdleRun DEF Carried, Open
<1>6. u \in Transaction /\ Carried(u) /\ u.step \in {"heads", "commit"}
  BY <1>1, <1>3, <1>5, NextInTurn
<1> QED
  BY <1>1, <1>4, <1>6, OneRun DEF SelectStudents

LEMMA SelectHeadsStep ==
  ASSUME IInv, NEW r \in Runs, SelectHeads(r)
  PROVE  IInv'
<1> DEFINE applies == {h \in Heads : head[h] # NoValue /\ Applies(r, head[h])}
<1> DEFINE lines == {LineOf(h, head[h]) : h \in applies}
<1> DEFINE once == {l \in lines : l.frequency = "one_time"}
<1> DEFINE step == IF once = {} THEN "upsert" ELSE "once"
<1> DEFINE t == [tx[r] EXCEPT !.lines = lines \ once, !.once = once, !.step = step]
<1>1. lines \subseteq Line
  <2> SUFFICES ASSUME NEW h \in applies PROVE LineOf(h, head[h]) \in Line
    OBVIOUS
  <2>1. h \in Heads /\ head[h] \in HeadRow
    BY RunFacts
  <2> QED
    BY <2>1 DEF LineOf, Line, HeadRow
<1>2. tx[r].step = "heads"
  BY DEF SelectHeads
<1>3. tx' = [tx EXCEPT ![r] = t]
  BY RunFacts DEF SelectHeads, Transaction
<1>4. once \subseteq lines /\ step \in {"upsert", "once"}
  OBVIOUS
<1> HIDE DEF applies, lines, once, step
<1>5. t \in Transaction
  BY <1>1, <1>4, RunFacts DEF Transaction
<1>6. /\ t.step = step /\ t.month = tx[r].month /\ t.scope = tx[r].scope
      /\ t.todo = tx[r].todo /\ t.student = tx[r].student /\ t.rows = tx[r].rows
  BY RunFacts DEF Transaction
<1> HIDE DEF t
<1>7. Carried(t)
  BY <1>2, <1>4, <1>6, RunFacts DEF Carried, Billing, Open
<1> QED
  BY <1>2, <1>3, <1>4, <1>5, <1>6, <1>7, OneRun DEF SelectHeads

LEMMA CheckOneTimeStep ==
  ASSUME IInv, NEW r \in Runs, CheckOneTime(r)
  PROVE  IInv'
<1> DEFINE charged(l) == IF BilledBefore(tx[r].student, tx[r].month) THEN {} ELSE {l}
<1> DEFINE step(l) == IF tx[r].once \ {l} = {} THEN "upsert" ELSE "once"
<1> DEFINE t(l) == [tx[r] EXCEPT !.once = tx[r].once \ {l},
                                 !.lines = tx[r].lines \cup charged(l), !.step = step(l)]
<1>1. tx[r].step = "once"
  BY DEF CheckOneTime
<1>2. PICK l \in tx[r].once : tx' = [tx EXCEPT ![r] = t(l)]
  <2>1. PICK l \in tx[r].once :
           tx' = [tx EXCEPT ![r].once = tx[r].once \ {l},
                            ![r].lines = tx[r].lines \cup charged(l), ![r].step = step(l)]
    BY RunFacts DEF CheckOneTime
  <2>2. tx' = [tx EXCEPT ![r] = t(l)]
    <3> HIDE DEF charged, step
    <3> QED
      BY <2>1, RunFacts DEF Transaction
  <2> QED
    BY <2>2
<1>3. /\ charged(l) \subseteq Line /\ step(l) \in {"upsert", "once"}
      /\ tx[r].once \subseteq Line /\ tx[r].lines \subseteq Line
  BY RunFacts, RunFields
<1> HIDE DEF charged, step
<1>4. t(l) \in Transaction
  BY <1>3, RunFacts DEF Transaction
<1>5. /\ t(l).step = step(l) /\ t(l).month = tx[r].month /\ t(l).scope = tx[r].scope
      /\ t(l).todo = tx[r].todo /\ t(l).student = tx[r].student /\ t(l).rows = tx[r].rows
  BY RunFacts DEF Transaction
<1> HIDE DEF t
<1>6. Carried(t(l))
  BY <1>1, <1>3, <1>5, RunFacts DEF Carried, Billing, Open
<1> QED
  BY <1>1, <1>2, <1>3, <1>4, <1>5, <1>6, OneRun DEF CheckOneTime

LEMMA UpsertInvoiceStep ==
  ASSUME IInv, NEW r \in Runs, UpsertInvoice(r)
  PROVE  IInv'
<1> DEFINE s == tx[r].student
<1> DEFINE row == Upserted(invoice[s][tx[r].month], tx[r].lines)
<1> DEFINE t == [tx[r] EXCEPT !.rows = [tx[r].rows EXCEPT ![s] = row], !.lines = {}]
<1>1. tx[r].step = "upsert" /\ tx[r] \in Transaction /\ Carried(tx[r])
  BY RunFacts DEF UpsertInvoice
<1>2. /\ tx[r].month \in Months /\ s \in tx[r].scope /\ tx[r].todo \subseteq tx[r].scope
      /\ \A p \in tx[r].scope : p \in tx[r].todo \cup {s} \/ tx[r].rows[p] # NoValue
  BY <1>1 DEF Carried, Billing, Open
<1>3. tx[r].scope \subseteq Students /\ tx[r].lines \subseteq Line
      /\ tx[r].rows \in [Students -> InvoiceRow \cup {NoValue}]
  BY <1>1, RunFields
<1>4. row \in InvoiceRow /\ row.status # "absent"
  <2>1. invoice[s][tx[r].month] \in InvoiceRow
    BY <1>2, <1>3, RunFacts
  <2> QED
    BY <1>3, <2>1 DEF Upserted, InvoiceRow
<1>5. PICK u \in NextStudent(t) : tx' = [tx EXCEPT ![r] = u]
  BY <1>1 DEF UpsertInvoice, Transaction
<1> HIDE DEF row, s
<1>6. [tx[r].rows EXCEPT ![s] = row] \in [Students -> InvoiceRow \cup {NoValue}]
  BY <1>3, <1>4
<1>7. /\ t \in Transaction /\ t.month = tx[r].month /\ t.scope = tx[r].scope
      /\ t.todo = tx[r].todo /\ t.rows = [tx[r].rows EXCEPT ![s] = row]
  BY <1>1, <1>6 DEF Transaction
<1> HIDE DEF t
<1>8. row # NoValue
  BY <1>4, NoValueAssumption
<1>9. /\ \A p \in Students : t.rows[p] # NoValue => p \in t.scope /\ t.rows[p].status # "absent"
      /\ \A p \in t.scope : p \in t.todo \/ t.rows[p] # NoValue
  BY <1>1, <1>2, <1>3, <1>4, <1>7, <1>8 DEF Carried
<1>10. u \in Transaction /\ Carried(u) /\ u.step \in {"heads", "commit"}
  BY <1>2, <1>5, <1>7, <1>9, NextInTurn
<1> QED
  BY <1>1, <1>5, <1>10, OneRun DEF UpsertInvoice

LEMMA FailStep ==
  ASSUME IInv, NEW r \in Runs, Fail(r)
  PROVE  IInv'
<1> DEFINE t == [Idle EXCEPT !.step = "failed"]
<1>1. t \in Transaction /\ t.step = "failed" /\ t.rows = NoRows
  BY IdleRun DEF Transaction
<1>2. tx' = [tx EXCEPT ![r] = t] /\ tx[r].step # "done"
  BY DEF Fail, Open
<1> HIDE DEF t
<1>3. Carried(t)
  BY <1>1, IdleRun DEF Carried, Open, Billing
<1> QED
  BY <1>1, <1>2, <1>3, OneRun DEF Fail

\* What a run leaves behind when it commits.
LEMMA CommitFacts ==
  ASSUME IInv, NEW r \in Runs, Commit(r)
  PROVE  /\ tx[r].step = "commit" /\ tx[r].month \in Months /\ tx[r].scope \subseteq Students
         /\ invoice' \in [Students -> [Months -> InvoiceRow]]
         /\ \A s \in Students, m \in Months :
               invoice'[s][m] = IF m = tx[r].month /\ tx[r].rows[s] # NoValue
                                THEN tx[r].rows[s] ELSE invoice[s][m]
         /\ \A q \in Runs \ {r} : tx'[q] = tx[q]
         /\ tx' \in [Runs -> Transaction] /\ tx'[r].step = "done"
         /\ tx'[r].month = tx[r].month /\ tx'[r].scope = tx[r].scope /\ tx'[r].rows = NoRows
<1> DEFINE t == [Idle EXCEPT !.step = "done", !.month = tx[r].month, !.scope = tx[r].scope]
<1>1. /\ tx[r].step = "commit" /\ tx' = [tx EXCEPT ![r] = t]
      /\ invoice' = [s \in Students |->
                        [m \in Months |-> IF m = tx[r].month /\ tx[r].rows[s] # NoValue
                                          THEN tx[r].rows[s] ELSE invoice[s][m]]]
  BY DEF Commit
<1>2. tx[r] \in Transaction /\ Carried(tx[r]) /\ tx \in [Runs -> Transaction]
  BY RunFacts
<1>3. /\ tx[r].month \in Months /\ tx[r].scope \subseteq Students
      /\ tx[r].rows \in [Students -> InvoiceRow \cup {NoValue}]
  BY <1>1, <1>2, RunFields DEF Carried, Open
<1>4. t \in Transaction
  BY <1>3, IdleRun DEF Transaction
<1>5. t.step = "done" /\ t.month = tx[r].month /\ t.scope = tx[r].scope /\ t.rows = NoRows
  BY IdleRun DEF Transaction
<1> HIDE DEF t
<1>6. \A s \in Students, m \in Months :
         (IF m = tx[r].month /\ tx[r].rows[s] # NoValue THEN tx[r].rows[s] ELSE invoice[s][m])
            \in InvoiceRow
  BY <1>3, RunFacts
<1>7. invoice' \in [Students -> [Months -> InvoiceRow]]
  BY <1>1, <1>6
<1>8. \A s \in Students, m \in Months :
         invoice'[s][m] = IF m = tx[r].month /\ tx[r].rows[s] # NoValue
                          THEN tx[r].rows[s] ELSE invoice[s][m]
  BY <1>1
<1>9. tx'[r] = t /\ (\A q \in Runs \ {r} : tx'[q] = tx[q]) /\ tx' \in [Runs -> Transaction]
  BY <1>1, <1>2, <1>4
<1> QED
  BY <1>1, <1>3, <1>5, <1>7, <1>8, <1>9

LEMMA CommitStep ==
  ASSUME IInv, NEW r \in Runs, Commit(r)
  PROVE  IInv'
<1>1. TypeOK'
  BY CommitFacts DEF Commit, IInv, TypeOK
<1>2. \A q \in Runs : Carried(tx'[q])
  <2>1. Carried(tx'[r])
    BY CommitFacts, IdleRun DEF Carried, Billing
  <2> QED
    BY <2>1, CommitFacts, RunFacts
<1>3. \A q \in Runs : Carried(tx[q])'
  BY <1>2 DEF Carried
<1>4. \A s \in Students, m \in Months :
         invoice[s][m].status # "absent" => invoice'[s][m].status # "absent"
  BY CommitFacts, RunFacts DEF Carried
<1>5. \A q \in Runs : tx'[q].step = "done" =>
         \A s \in tx'[q].scope : invoice'[s][tx'[q].month].status # "absent"
  <2> SUFFICES ASSUME NEW q \in Runs, tx'[q].step = "done", NEW s \in tx'[q].scope
               PROVE  invoice'[s][tx'[q].month].status # "absent"
    OBVIOUS
  <2>1. CASE q = r
    <3>1. s \in Students /\ tx[r].rows[s] # NoValue /\ tx[r].rows[s].status # "absent"
      BY <2>1, CommitFacts, RunFacts DEF Carried
    <3> QED
      BY <2>1, <3>1, CommitFacts
  <2>2. CASE q # r
    <3>1. tx'[q] = tx[q] /\ tx[q] \in Transaction /\ Carried(tx[q])
      BY <2>2, CommitFacts, RunFacts
    <3>2. s \in Students /\ tx[q].month \in Months
      BY <3>1, RunFields DEF Carried
    <3> QED
      BY <1>4, <3>1, <3>2 DEF IInv, WholeMonthOrNothing
  <2> QED
    BY <2>1, <2>2
<1>6. \A s \in Students, m \in Months : invoice'[s][m].status # "absent" =>
         \E q \in Runs : tx'[q].step = "done" /\ tx'[q].month = m /\ s \in tx'[q].scope
  <2> SUFFICES ASSUME NEW s \in Students, NEW m \in Months,
                      invoice'[s][m].status # "absent"
               PROVE  \E q \in Runs : tx'[q].step = "done" /\ tx'[q].month = m
                                      /\ s \in tx'[q].scope
    OBVIOUS
  <2>1. CASE m = tx[r].month /\ tx[r].rows[s] # NoValue
    BY <2>1, CommitFacts, RunFacts DEF Carried
  <2>2. CASE ~ (m = tx[r].month /\ tx[r].rows[s] # NoValue)
    <3>1. invoice[s][m].status # "absent"
      BY <2>2, CommitFacts
    <3>2. PICK q \in Runs : tx[q].step = "done" /\ tx[q].month = m /\ s \in tx[q].scope
      BY <3>1 DEF IInv, WholeMonthOrNothing
    <3>3. tx'[q] = tx[q]
      BY <3>2, CommitFacts
    <3> QED
      BY <3>2, <3>3
  <2> QED
    BY <2>1, <2>2
<1> QED
  BY <1>1, <1>3, <1>5, <1>6 DEF IInv, WholeMonthOrNothing

-----------------------------------------------------------------------------
(* The fee structure, the roster and the payments *)

\* Steps that leave the runs alone and take no invoice away.
LEMMA Bystanders ==
  ASSUME IInv, TypeOK', UNCHANGED tx,
         \A s \in Students, m \in Months :
            (invoice'[s][m].status = "absent") <=> (invoice[s][m].status = "absent")
  PROVE  IInv'
<1>1. \A q \in Runs : Carried(tx[q])'
  BY DEF IInv, Carried
<1>2. \A q \in Runs : tx[q].step = "done" =>
         tx[q].scope \subseteq Students /\ tx[q].month \in Months
  BY RunFacts, RunFields DEF Carried
<1>3. WholeMonthOrNothing'
  BY <1>2 DEF IInv, WholeMonthOrNothing
<1> QED
  BY <1>1, <1>3 DEF IInv

LEMMA HeadStep ==
  ASSUME IInv, NEW h \in Heads, SetHead(h) \/ DeleteHead(h)
  PROVE  IInv'
<1>1. TypeOK'
  BY DEF SetHead, DeleteHead, IInv, TypeOK
<1> QED
  BY <1>1, Bystanders DEF SetHead, DeleteHead

LEMMA DeactivateStep ==
  ASSUME IInv, NEW s \in Students, Deactivate(s)
  PROVE  IInv'
<1>1. TypeOK'
  BY DEF Deactivate, IInv, TypeOK
<1> QED
  BY <1>1, Bystanders DEF Deactivate

LEMMA RecordPaymentStep ==
  ASSUME IInv, NEW s \in Students, NEW m \in Months, RecordPayment(s, m)
  PROVE  IInv'
<1>1. PICK status \in {"pending", "settled"} :
         invoice' = [invoice EXCEPT ![s][m].status = status]
  BY DEF RecordPayment
<1> DEFINE row == [invoice[s][m] EXCEPT !.status = status]
<1>2. invoice \in [Students -> [Months -> InvoiceRow]]
  BY DEF IInv, TypeOK
<1>3. row \in InvoiceRow /\ row.status = status
  BY <1>2 DEF InvoiceRow
<1>4. invoice' = [invoice EXCEPT ![s] = [invoice[s] EXCEPT ![m] = row]]
  BY <1>1, <1>2
<1> HIDE DEF row
<1>5. invoice' \in [Students -> [Months -> InvoiceRow]]
  BY <1>2, <1>3, <1>4
<1>6. \A p \in Students, n \in Months :
         invoice'[p][n] = IF p = s /\ n = m THEN row ELSE invoice[p][n]
  BY <1>2, <1>4
<1>7. TypeOK'
  BY <1>5 DEF RecordPayment, IInv, TypeOK
<1>8. \A p \in Students, n \in Months :
         (invoice'[p][n].status = "absent") <=> (invoice[p][n].status = "absent")
  BY <1>3, <1>6 DEF RecordPayment
<1> QED
  BY <1>7, <1>8, Bystanders DEF RecordPayment

-----------------------------------------------------------------------------
(* The theorems *)

LEMMA Initially == Init => IInv
<1> SUFFICES ASSUME Init PROVE IInv
  OBVIOUS
<1>1. \A r \in Runs : tx[r] = Idle
  BY DEF Init
<1>2. Absent \in InvoiceRow /\ Absent.status = "absent"
  BY DEF Absent, InvoiceRow
<1>3. TypeOK
  BY <1>2, IdleRun DEF Init, TypeOK
<1>4. Carried(Idle)
  BY IdleRun DEF Carried, Open, Billing
<1>5. WholeMonthOrNothing
  BY <1>1, <1>2, IdleRun DEF Init, WholeMonthOrNothing
<1> QED
  BY <1>1, <1>3, <1>4, <1>5 DEF IInv

LEMMA StepKeepsIInv == IInv /\ [Next]_vars => IInv'
<1> SUFFICES ASSUME IInv, [Next]_vars PROVE IInv'
  OBVIOUS
<1>1. CASE UNCHANGED vars
  <2>1. TypeOK'
    BY <1>1 DEF IInv, TypeOK, vars
  <2> QED
    BY <1>1, <2>1, Bystanders DEF vars
<1> QED
  BY <1>1, BeginStep, SelectStudentsStep, SelectHeadsStep, CheckOneTimeStep, UpsertInvoiceStep,
     CommitStep, FailStep, HeadStep, DeactivateStep, RecordPaymentStep DEF Next

LEMMA AlwaysIInv == Spec => []IInv
  BY Initially, StepKeepsIInv, PTL DEF Spec

\* Tables and runs keep their types (generateInvoices and the fee structure).
THEOREM TypesKept == Spec => []TypeOK
<1>1. IInv => TypeOK
  BY DEF IInv
<1> QED
  BY <1>1, AlwaysIInv, PTL

\* generateInvoices is all or nothing, however many runs overlap, fail or are repeated
\* and however the fee structure and the roster change under them.
THEOREM GeneratesWholeMonths == Spec => []WholeMonthOrNothing
<1>1. IInv => WholeMonthOrNothing
  BY DEF IInv
<1> QED
  BY <1>1, AlwaysIInv, PTL

-----------------------------------------------------------------------------
(* One run at a time: one-time heads *)

\* Holds when the pool has one connection.
Alone == \A q, r \in Runs : tx[q].step \in Open /\ tx[r].step \in Open => q = r

OneTime(lines) == \E l \in lines : l.frequency = "one_time"

\* What a run is about to charge once is not charged yet: it has found its student
\* without an invoice, and nobody else writes one.
ChargesOnce(t) ==
    /\ t.step \in {"once", "upsert"} /\ OneTime(t.lines) => ~ BilledBefore(t.student, t.month)
    /\ t.step \in Open => \A s \in Students : t.rows[s] # NoValue =>
          \/ OneTime(t.rows[s].lines) => ~ BilledBefore(s, t.month)
          \/ t.rows[s].lines = invoice[s][t.month].lines

AbsentIsEmpty ==
    \A s \in Students, m \in Months : invoice[s][m].status = "absent" => invoice[s][m].lines = {}

SerialInv == IInv /\ Alone /\ (\A r \in Runs : ChargesOnce(tx[r])) /\ AbsentIsEmpty
                  /\ OneTimeBilledOnce

LEMMA OneRunOnce ==
  ASSUME SerialInv, IInv', NEW r \in Runs, ChargesOnce(tx'[r]),
         tx'[r].step \in Open => \A q \in Runs \ {r} : tx[q].step \notin Open,
         \A q \in Runs \ {r} : tx'[q] = tx[q], UNCHANGED invoice
  PROVE  SerialInv'
<1>1. Alone'
  BY DEF SerialInv, Alone
<1>2. \A q \in Runs : ChargesOnce(tx'[q])
  BY DEF SerialInv
<1>3. \A q \in Runs : ChargesOnce(tx[q])'
  BY <1>2 DEF ChargesOnce, BilledBefore
<1>4. AbsentIsEmpty' /\ OneTimeBilledOnce'
  BY DEF SerialInv, AbsentIsEmpty, OneTimeBilledOnce
<1> QED
  BY <1>1, <1>3, <1>4 DEF SerialInv

LEMMA OthersRest ==
  ASSUME SerialInv, NEW r \in Runs, tx[r].step \in Open
  PROVE  \A q \in Runs \ {r} : tx[q].step \notin Open
  BY DEF SerialInv, Alone

\* The pool has no connection left while a run is under way.
LEMMA BeginOnce ==
  ASSUME SerialInv, IInv', PoolSize = 1, IsFiniteSet(Runs), NEW r \in Runs, Begin(r)
  PROVE  SerialInv'
<1> DEFINE busy == {q \in Runs : tx[q].step \in Open}
<1>1. IsFiniteSet(busy)
  BY FS_Subset
<1>2. Cardinality(busy) < 1 /\ Cardinality(busy) \in Nat
  BY <1>1, FS_CardinalityType DEF Begin
<1>3. busy = {}
  BY <1>1, <1>2, FS_EmptySet
<1>4. \A q \in Runs : tx[q].step \notin Open
  BY <1>3
<1> HIDE DEF busy
<1>5. PICK m \in Months, class \in Classes \cup {NoValue} :
         tx' = [tx EXCEPT ![r] = [Idle EXCEPT !.step = "students", !.month = m,
                                              !.class = class]]
  BY DEF Begin
<1> DEFINE t == [Idle EXCEPT !.step = "students", !.month = m, !.class = class]
<1>6. t.step = "students" /\ t.rows = NoRows
  BY IdleRun DEF Transaction
<1>7. tx' = [tx EXCEPT ![r] = t]
  BY <1>5
<1> HIDE DEF t
<1>8. tx'[r] = t /\ \A q \in Runs \ {r} : tx'[q] = tx[q]
  BY <1>7 DEF SerialInv, IInv, TypeOK
<1>9. ChargesOnce(t)
  BY <1>6, IdleRun DEF ChargesOnce, Open
<1> QED
  BY <1>4, <1>8, <1>9, OneRunOnce DEF Begin

\* The next student in turn, with nothing charged to him yet.
LEMMA NextInTurnOnce ==
  ASSUME NEW t \in Transaction, NEW u \in NextStudent(t),
         \A s \in Students : t.rows[s] # NoValue =>
            \/ OneTime(t.rows[s].lines) => ~ BilledBefore(s, t.month)
            \/ t.rows[s].lines = invoice[s][t.month].lines
  PROVE  ChargesOnce(u)
<1>1. u.rows = t.rows /\ u.month = t.month /\ u.step \in {"heads", "commit"}
  <2>1. CASE t.todo = {}
    BY <2>1 DEF NextStudent, Transaction
  <2>2. CASE t.todo # {}
    <3>1. PICK s \in t.todo :
             u = [t EXCEPT !.step = "heads", !.student = s, !.todo = t.todo \ {s}]
      BY <2>2 DEF NextStudent, Transaction
    <3> QED
      BY <3>1 DEF Transaction
  <2> QED
    BY <2>1, <2>2
<1> QED
  BY <1>1 DEF ChargesOnce

LEMMA SelectStudentsOnce ==
  ASSUME SerialInv, IInv', NEW r \in Runs, SelectStudents(r)
  PROVE  SerialInv'
<1> USE DEF SerialInv
<1> DEFINE scope == {s \in active : tx[r].class \in {NoValue, ClassOf[s]}}
<1> DEFINE t == [tx[r] EXCEPT !.scope = scope, !.todo = scope]
<1>1. PICK u \in NextStudent(t) : tx' = [tx EXCEPT ![r] = u]
  BY DEF SelectStudents
<1>2. scope \subseteq Students
  BY RunFacts
<1> HIDE DEF scope
<1>3. t \in Transaction /\ t.rows = tx[r].rows
  BY <1>2, RunFacts DEF Transaction
<1> HIDE DEF t
<1>4. tx[r].step = "students" /\ tx[r].step \in Open
  BY DEF SelectStudents, Open
<1>5. \A s \in Students : t.rows[s] = NoValue
  BY <1>3, <1>4, RunFacts, IdleRun DEF Carried
<1>6. ChargesOnce(u)
  BY <1>1, <1>3, <1>5, NextInTurnOnce
<1>7. tx'[r] = u /\ \A q \in Runs \ {r} : tx'[q] = tx[q]
  BY <1>1, RunFacts
<1> QED
  BY <1>4, <1>6, <1>7, OthersRest, OneRunOnce DEF SelectStudents

LEMMA SelectHeadsOnce ==
  ASSUME SerialInv, IInv', NEW r \in Runs, SelectHeads(r)
  PROVE  SerialInv'
<1> USE DEF SerialInv
<1> DEFINE applies == {h \in Heads : head[h] # NoValue /\ Applies(r, head[h])}
<1> DEFINE lines == {LineOf(h, head[h]) : h \in applies}
<1> DEFINE once == {l \in lines : l.frequency = "one_time"}
<1> DEFINE step == IF once = {} THEN "upsert" ELSE "once"
<1> DEFINE t == [tx[r] EXCEPT !.lines = lines \ once, !.once = once, !.step = step]
<1>1. tx[r].step = "heads" /\ tx[r].step \in Open
  BY DEF SelectHeads, Open
<1>2. tx' = [tx EXCEPT ![r] = t]
  BY RunFacts DEF SelectHeads, Transaction
<1>3. ~ OneTime(lines \ once) /\ step \in {"upsert", "once"}
  BY DEF OneTime
<1> HIDE DEF applies, lines, once, step
<1>4. /\ t.lines = lines \ once /\ t.step = step
      /\ t.month = tx[r].month /\ t.rows = tx[r].rows
  BY RunFacts DEF Transaction
<1> HIDE DEF t
<1>5. ChargesOnce(t)
  BY <1>1, <1>3, <1>4 DEF ChargesOnce
<1>6. tx'[r] = t /\ \A q \in Runs \ {r} : tx'[q] = tx[q]
  BY <1>2, RunFacts
<1> QED
  BY <1>1, <1>5, <1>6, OthersRest, OneRunOnce DEF SelectHeads

\* A one-time line is only added when the student has no invoice at all.
LEMMA CheckOneTimeOnce ==
  ASSUME SerialInv, IInv', NEW r \in Runs, CheckOneTime(r)
  PROVE  SerialInv'
<1> USE DEF SerialInv
<1> DEFINE charged(l) == IF BilledBefore(tx[r].student, tx[r].month) THEN {} ELSE {l}
<1> DEFINE step(l) == IF tx[r].once \ {l} = {} THEN "upsert" ELSE "once"
<1> DEFINE t(l) == [tx[r] EXCEPT !.once = tx[r].once \ {l},
                                 !.lines = tx[r].lines \cup charged(l), !.step = step(l)]
<1>1. tx[r].step = "once" /\ tx[r].step \in Open
  BY DEF CheckOneTime, Open
<1>2. PICK l \in tx[r].once : tx' = [tx EXCEPT ![r] = t(l)]
  <2>1. PICK l \in tx[r].once :
           tx' = [tx EXCEPT ![r].once = tx[r].once \ {l},
                            ![r].lines = tx[r].lines \cup charged(l), ![r].step = step(l)]
    BY RunFacts DEF CheckOneTime
  <2>2. tx' = [tx EXCEPT ![r] = t(l)]
    <3> HIDE DEF charged, step
    <3> QED
      BY <2>1, RunFacts DEF Transaction
  <2> QED
    BY <2>2
<1>3. /\ step(l) \in {"upsert", "once"}
      /\ BilledBefore(tx[r].student, tx[r].month) => charged(l) = {}
  OBVIOUS
<1> HIDE DEF charged, step
<1>4. /\ t(l).lines = tx[r].lines \cup charged(l) /\ t(l).step = step(l)
      /\ t(l).month = tx[r].month /\ t(l).rows = tx[r].rows /\ t(l).student = tx[r].student
  BY RunFacts DEF Transaction
<1> HIDE DEF t
<1>5. ChargesOnce(tx[r])
  OBVIOUS
<1>6. ChargesOnce(t(l))
  <2>1. OneTime(t(l).lines) => ~ BilledBefore(t(l).student, t(l).month)
    BY <1>1, <1>3, <1>4, <1>5 DEF ChargesOnce, OneTime
  <2> QED
    BY <2>1, <1>1, <1>4, <1>5 DEF ChargesOnce
<1>7. tx'[r] = t(l) /\ \A q \in Runs \ {r} : tx'[q] = tx[q]
  BY <1>2, RunFacts
<1> QED
  BY <1>1, <1>6, <1>7, OthersRest, OneRunOnce DEF CheckOneTime

LEMMA UpsertInvoiceOnce ==
  ASSUME SerialInv, IInv', NEW r \in Runs, UpsertInvoice(r)
  PROVE  SerialInv'
<1> USE DEF SerialInv
<1> DEFINE s == tx[r].student
<1> DEFINE row == Upserted(invoice[s][tx[r].month], tx[r].lines)
<1> DEFINE t == [tx[r] EXCEPT !.rows = [tx[r].rows EXCEPT ![s] = row], !.lines = {}]
<1>1. /\ tx[r].step = "upsert" /\ tx[r].step \in Open /\ tx[r] \in Transaction
      /\ Carried(tx[r]) /\ ChargesOnce(tx[r])
  BY RunFacts DEF UpsertInvoice, Open
<1>2. tx[r].month \in Months /\ s \in Students
  BY <1>1, RunFields DEF Carried, Billing
<1>3. /\ tx[r].lines \subseteq Line
      /\ tx[r].rows \in [Students -> InvoiceRow \cup {NoValue}]
  BY <1>1, RunFields
<1>4. /\ row \in InvoiceRow
      /\ row.lines = tx[r].lines \/ row.lines = invoice[s][tx[r].month].lines
  <2>1. invoice[s][tx[r].month] \in InvoiceRow
    BY <1>2, RunFacts
  <2> QED
    BY <1>3, <2>1 DEF Upserted, InvoiceRow
<1>5. PICK u \in NextStudent(t) : tx' = [tx EXCEPT ![r] = u]
  BY <1>1 DEF UpsertInvoice, Transaction
<1> HIDE DEF row, s
<1>6. [tx[r].rows EXCEPT ![s] = row] \in [Students -> InvoiceRow \cup {NoValue}]
  BY <1>3, <1>4
<1>7. /\ t \in Transaction /\ t.month = tx[r].month
      /\ t.rows = [tx[r].rows EXCEPT ![s] = row]
  BY <1>1, <1>6 DEF Transaction
<1> HIDE DEF t
<1>8. OneTime(tx[r].lines) => ~ BilledBefore(s, tx[r].month)
  BY <1>1 DEF ChargesOnce, s
<1>9. \A p \in Students : t.rows[p] # NoValue =>
         \/ OneTime(t.rows[p].lines) => ~ BilledBefore(p, t.month)
         \/ t.rows[p].lines = invoice[p][t.month].lines
  <2> SUFFICES ASSUME NEW p \in Students, t.rows[p] # NoValue
               PROVE  \/ OneTime(t.rows[p].lines) => ~ BilledBefore(p, t.month)
                      \/ t.rows[p].lines = invoice[p][t.month].lines
    OBVIOUS
  <2>1. CASE p = s
    BY <1>3, <1>4, <1>7, <1>8, <2>1
  <2>2. CASE p # s
    BY <1>1, <1>3, <1>7, <2>2 DEF ChargesOnce
  <2> QED
    BY <2>1, <2>2
<1>10. ChargesOnce(u)
  BY <1>5, <1>7, <1>9, NextInTurnOnce
<1>11. tx'[r] = u /\ \A q \in Runs \ {r} : tx'[q] = tx[q]
  BY <1>5, RunFacts
<1> QED
  BY <1>1, <1>10, <1>11, OthersRest, OneRunOnce DEF UpsertInvoice

LEMMA FailOnce ==
  ASSUME SerialInv, IInv', NEW r \in Runs, Fail(r)
  PROVE  SerialInv'
<1> DEFINE t == [Idle EXCEPT !.step = "failed"]
<1>1. t.step = "failed"
  BY IdleRun DEF Transaction
<1>2. tx' = [tx EXCEPT ![r] = t]
  BY DEF Fail
<1> HIDE DEF t
<1>3. tx'[r] = t /\ \A q \in Runs \ {r} : tx'[q] = tx[q]
  BY <1>2, RunFacts DEF SerialInv
<1>4. ChargesOnce(t) /\ t.step \notin Open
  BY <1>1 DEF ChargesOnce, Open
<1> QED
  BY <1>3, <1>4, OneRunOnce DEF Fail

LEMMA CommitOnce ==
  ASSUME SerialInv, IInv', NEW r \in Runs, Commit(r)
  PROVE  SerialInv'
<1> USE DEF SerialInv
<1>1. /\ tx[r].step = "commit" /\ tx[r].step \in Open /\ tx'[r].step = "done"
      /\ \A q \in Runs \ {r} : tx'[q] = tx[q]
  BY CommitFacts DEF Open
<1>2. \A q \in Runs : tx'[q].step \notin Open
  BY <1>1, OthersRest DEF Open
<1>3. Alone'
  BY <1>2 DEF Alone
<1>4. \A q \in Runs : ChargesOnce(tx[q])'
  BY <1>2 DEF ChargesOnce, Open
<1>5. tx[r].month \in Months /\ Carried(tx[r]) /\ ChargesOnce(tx[r])
  BY CommitFacts, RunFacts
<1>6. AbsentIsEmpty'
  BY <1>5, CommitFacts DEF AbsentIsEmpty, Carried
<1>7. ASSUME NEW s \in Students, NEW m \in Months, OneTime(invoice'[s][m].lines),
             invoice'[s][m].lines # invoice[s][m].lines
      PROVE  \A n \in Months \ {m} : invoice'[s][n].lines = {}
  <2>1. m = tx[r].month /\ tx[r].rows[s] # NoValue /\ invoice'[s][m] = tx[r].rows[s]
    BY <1>7, CommitFacts
  <2>2. ~ BilledBefore(s, tx[r].month)
    BY <1>1, <1>5, <1>7, <2>1 DEF ChargesOnce
  <2>3. \A n \in Months \ {m} : invoice'[s][n] = invoice[s][n] /\ invoice[s][n].lines = {}
    BY <2>1, <2>2, CommitFacts DEF BilledBefore, AbsentIsEmpty
  <2> QED
    BY <2>3
<1>8. OneTimeBilledOnce'
  <2> SUFFICES ASSUME NEW s \in Students, NEW m \in Months, NEW n \in Months,
                      NEW l \in invoice'[s][m].lines, l \in invoice'[s][n].lines,
                      l.frequency = "one_time"
               PROVE  m = n
    BY DEF OneTimeBilledOnce
  <2>1. OneTime(invoice'[s][m].lines) /\ OneTime(invoice'[s][n].lines)
    BY DEF OneTime
  <2>2. CASE invoice'[s][m].lines # invoice[s][m].lines
    BY <1>7, <2>1, <2>2
  <2>3. CASE invoice'[s][n].lines # invoice[s][n].lines
    BY <1>7, <2>1, <2>3
  <2>4. CASE /\ invoice'[s][m].lines = invoice[s][m].lines
             /\ invoice'[s][n].lines = invoice[s][n].lines
    BY <2>4 DEF OneTimeBilledOnce
  <2> QED
    BY <2>2, <2>3, <2>4
<1> QED
  BY <1>3, <1>4, <1>6, <1>8

\* Steps that leave the runs, and what was charged, alone.
LEMMA BystandersOnce ==
  ASSUME SerialInv, IInv', UNCHANGED tx,
         \A s \in Students, m \in Months :
            /\ (invoice'[s][m].status = "absent") <=> (invoice[s][m].status = "absent")
            /\ invoice'[s][m].lines = invoice[s][m].lines
  PROVE  SerialInv'
<1>1. Alone' /\ AbsentIsEmpty' /\ OneTimeBilledOnce'
  BY DEF SerialInv, Alone, AbsentIsEmpty, OneTimeBilledOnce
<1>2. \A s \in Students, m \in Months : BilledBefore(s, m)' <=> BilledBefore(s, m)
  BY DEF BilledBefore
<1>3. ASSUME NEW q \in Runs PROVE ChargesOnce(tx[q])'
  <2>1. ChargesOnce(tx[q]) /\ Carried(tx[q]) /\ tx[q] \in Transaction
    BY RunFacts DEF SerialInv
  <2>2. tx[q].step \in Open => tx[q].month \in Months
    BY <2>1 DEF Carried
  <2>3. tx[q].step \in {"once", "upsert"} => tx[q].student \in Students /\ tx[q].month \in Months
    BY <2>1, RunFields DEF Carried, Billing, Open
  <2> QED
    BY <1>2, <2>1, <2>2, <2>3 DEF ChargesOnce
<1> QED
  BY <1>1, <1>3 DEF SerialInv

LEMMA RecordPaymentOnce ==
  ASSUME SerialInv, IInv', NEW s \in Students, NEW m \in Months, RecordPayment(s, m)
  PROVE  SerialInv'
<1>1. PICK status \in {"pending", "settled"} :
         invoice' = [invoice EXCEPT ![s][m].status = status]
  BY DEF RecordPayment
<1> DEFINE row == [invoice[s][m] EXCEPT !.status = status]
<1>2. invoice \in [Students -> [Months -> InvoiceRow]]
  BY DEF SerialInv, IInv, TypeOK
<1>3. row.status = status /\ row.lines = invoice[s][m].lines
  BY <1>2 DEF InvoiceRow
<1>4. invoice' = [invoice EXCEPT ![s] = [invoice[s] EXCEPT ![m] = row]]
  BY <1>1, <1>2
<1> HIDE DEF row
<1>5. \A p \in Students, n \in Months :
         invoice'[p][n] = IF p = s /\ n = m THEN row ELSE invoice[p][n]
  BY <1>2, <1>4
<1>6. \A p \in Students, n \in Months :
         /\ (invoice'[p][n].status = "absent") <=> (invoice[p][n].status = "absent")
         /\ invoice'[p][n].lines = invoice[p][n].lines
  BY <1>3, <1>5 DEF RecordPayment
<1> QED
  BY <1>6, BystandersOnce DEF RecordPayment

LEMMA StepKeepsSerialInv ==
  ASSUME PoolSize = 1, IsFiniteSet(Runs)
  PROVE  SerialInv /\ [Next]_vars => SerialInv'
<1> SUFFICES ASSUME SerialInv, [Next]_vars PROVE SerialInv'
  OBVIOUS
<1>1. IInv'
  BY StepKeepsIInv DEF SerialInv
<1>2. ASSUME NEW h \in Heads, SetHead(h) \/ DeleteHead(h) PROVE SerialInv'
  BY <1>1, <1>2, BystandersOnce DEF SetHead, DeleteHead
<1>3. ASSUME NEW s \in Students, Deactivate(s) PROVE SerialInv'
  BY <1>1, <1>3, BystandersOnce DEF Deactivate
<1>4. CASE UNCHANGED vars
  BY <1>1, <1>4, BystandersOnce DEF vars
<1> QED
  BY <1>1, <1>2, <1>3, <1>4, BeginOnce, SelectStudentsOnce, SelectHeadsOnce, CheckOneTimeOnce,
     UpsertInvoiceOnce, CommitOnce, FailOnce, RecordPaymentOnce DEF Next

LEMMA InitiallySerial == Init => SerialInv
<1> SUFFICES ASSUME Init PROVE SerialInv
  OBVIOUS
<1>1. \A r \in Runs : tx[r].step = "idle"
  BY IdleRun DEF Init
<1>2. \A s \in Students, m \in Months : invoice[s][m].lines = {}
  BY DEF Init, Absent
<1>3. Alone /\ \A r \in Runs : ChargesOnce(tx[r])
  BY <1>1 DEF Alone, ChargesOnce, Open
<1>4. AbsentIsEmpty /\ OneTimeBilledOnce
  BY <1>2 DEF AbsentIsEmpty, OneTimeBilledOnce
<1> QED
  BY <1>3, <1>4, Initially DEF SerialInv

\* "one_time heads are billed only on a student's very first invoice": so it is as long
\* as generations do not overlap, whatever is paid, failed, repeated or repriced between.
THEOREM ChargesOneTimeOnce ==
  ASSUME PoolSize = 1, IsFiniteSet(Runs)
  PROVE  Spec => []OneTimeBilledOnce
<1>1. SerialInv => OneTimeBilledOnce
  BY DEF SerialInv
<1>2. SerialInv /\ [Next]_vars => SerialInv'
  BY StepKeepsSerialInv
<1> QED
  BY <1>1, <1>2, InitiallySerial, PTL DEF Spec

=============================================================================
