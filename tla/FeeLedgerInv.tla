---------------------------- MODULE FeeLedgerInv ----------------------------
(****************************************************************************)
(* The inductive invariants behind the theorems about FeeLedger: what every  *)
(* open transaction may rely on while others commit around it, and what it   *)
(* may rely on when there is no other.                                       *)
(****************************************************************************)
EXTENDS FeeLedger

\* Steps at which a transaction has not written a money row (yet, or any more).
Unwritten == {"idle", "invoice", "existing", "balance", "insert", "row", "void",
              "failed"} \cup Settled

\* A payment row names the invoice it pays.
NamesInvoice(row) == row.table = "payment" => row.invoice \in Invoices

\* The locals a statement needs have been filled in by the ones before it.
LocalsOK(t) ==
    /\ t.step \in {"row", "void"} => t.op = "void" /\ t.target \in Requests
    /\ t.step \in {"invoice", "existing", "balance"}
          => t.op = "verify" /\ t.table = "payment"
    /\ t.step \in {"insert", "row", "void"} => t.table \in Tables
    /\ t.step \in {"invoice", "existing", "balance", "recompute", "status",
                   "generate"} => t.invoice \in Invoices
    /\ t.step \in {"insert", "void"} /\ t.table = "payment"
          => t.invoice \in Invoices
    /\ t.op = "verify" /\ t.step \notin {"idle", "failed"}
          => t.gateway \in GatewayIds /\ t.step \notin {"generate", "row", "void"}
    /\ t.step \in Unwritten => t.rows = NoRows
    /\ t.step \in Unwritten \cup {"recompute", "status"} => t.counted = {}
    /\ \A e \in Requests : t.rows[e] # NoValue => NamesInvoice(t.rows[e])

WellFormed ==
    /\ TypeOK
    /\ \A r \in Requests : LocalsOK(tx[r])
    /\ \A e \in Requests : NamesInvoice(entry[e])

\* Two versions of a money row differ at most in who voided it.
SameMoney(row, other) == row = [other EXCEPT !.voidedBy = row.voidedBy]

\* An uncommitted version is either the row its own request is inserting, or a
\* void of a row that is already committed.
RowsFaithful ==
    /\ \A e \in Requests : entry[e].table = "none" => entry[e] = NoEntry
    /\ \A r, e \in Requests : tx[r].rows[e] # NoValue =>
          /\ tx[r].rows[e].table # "none"
          /\ entry[e].table = "none" => e = r
          /\ entry[e].table # "none" =>
                /\ SameMoney(tx[r].rows[e], entry[e])
                /\ tx[r].rows[e].voidedBy = r

\* The row a request is to void exists, and only a settled request owns a row.
TargetsExist ==
    \A r \in Requests :
       /\ tx[r].step = "void" => entry[tx[r].target].table = tx[r].table
       /\ entry[r].table # "none" => tx[r].step \in Settled

\* No two rows have versions, committed or not, with one gateway payment id.
Carries(e, g) ==
    \/ entry[e].gateway = g
    \/ \E r \in Requests : tx[r].rows[e] # NoValue /\ tx[r].rows[e].gateway = g

GatewayUnique ==
    \A g \in GatewayIds : \A d, e \in Requests :
       Carries(d, g) /\ Carries(e, g) => d = e

\* How far verifyPayment has come with crediting its gateway payment.
VerifyProgress ==
    \A r \in Requests : tx[r].op = "verify" =>
       LET g == tx[r].gateway
           written == tx[r].rows[r] # NoValue /\ tx[r].rows[r].gateway = g
           committed == \E e \in Requests : entry[e].gateway = g
       IN  /\ tx[r].step \in {"recompute", "status", "fees", "other", "expense",
                              "summary"} => written
           /\ tx[r].step = "commit" => written \/ committed
           /\ tx[r].step \in Settled => committed

\* Whatever is being or has been summed into the daily revenue is committed, or
\* will be by the commit that publishes the sum.
CountsVisible ==
    /\ \A e \in summary.counted : entry[e].table # "none"
    /\ \A r \in Requests :
          /\ \A e \in tx[r].counted : View(r)[e].table # "none"
          /\ tx[r].summary # NoValue =>
                \A e \in tx[r].summary.counted : View(r)[e].table # "none"

IInv ==
    /\ WellFormed
    /\ RowsFaithful
    /\ TargetsExist
    /\ GatewayUnique
    /\ VerifyProgress
    /\ CountsVisible

-----------------------------------------------------------------------------
(* What an open transaction knows of the money it adds up *)

\* Committed money rows and invoices as a transaction with locals t sees them:
\* View(r) is Visible(entry, tx[r]).
Visible(table, t) ==
    [e \in Requests |-> IF t.rows[e] # NoValue THEN t.rows[e] ELSE table[e]]

Current(bills, t) ==
    [i \in Invoices |-> IF t.invoices[i] # NoValue THEN t.invoices[i] ELSE bills[i]]

\* There are finitely many money rows, so their amounts have a sum.
FiniteRows ==
    /\ IsFiniteSet({e \in Requests : entry[e].table # "none"})
    /\ \A r \in Requests : IsFiniteSet({e \in Requests : tx[r].rows[e] # NoValue})

\* SettledIsBacked of one version of an invoice, over one view of the payments.
Backed(table, i, row) ==
    OnlyPaidInto(table, i) =>
       LET paid == Total(table, LivePayments(table, i)) IN
          /\ row.status = "paid" => paid >= row.due
          /\ row.status = "partial" => paid > 0

\* Payments committed since a transaction summed an invoice only add to what it
\* saw, unless one of them has been voided or is negative.
BackedLocals(table, t) ==
    /\ \A i \in Invoices :
          t.invoices[i] # NoValue => Backed(Visible(table, t), i, t.invoices[i])
    /\ t.step = "status" /\ OnlyPaidInto(Visible(table, t), t.invoice) =>
          t.seen \subseteq LivePayments(Visible(table, t), t.invoice)

BInv ==
    /\ FiniteRows
    /\ SettledIsBacked
    /\ \A r \in Requests : BackedLocals(entry, tx[r])

-----------------------------------------------------------------------------
(* One connection: what the open transaction knows when no other is open *)

OneOpen ==
    \A q, r \in Requests : tx[q].step \in Open /\ tx[r].step \in Open => q = r

\* StatusMatchesLedger of one version of an invoice, over one view of the payments.
Matches(table, i, row) ==
    row.status # "absent" =>
       row.status = Classify(Total(table, LivePayments(table, i)), row.due)

PaysInvoice(bills, row) ==
    row.table = "payment" => bills[row.invoice].status # "absent"

\* Every invoice the transaction sees has the status its payments make it, except
\* the one it is about to recompute.
StatusLocals(table, bills, t) ==
    /\ \A i \in Invoices :
          \/ t.step \in {"recompute", "status"} /\ i = t.invoice
          \/ Matches(Visible(table, t), i, Current(bills, t)[i])
    /\ \A i \in Invoices :
          t.invoices[i] # NoValue => t.invoices[i].status # "absent"
    /\ \A e \in Requests : t.rows[e] # NoValue => PaysInvoice(bills, t.rows[e])
    /\ t.step = "status" => t.seen = LivePayments(Visible(table, t), t.invoice)
    /\ t.step = "void" => table[t.target].invoice = t.invoice
    /\ t.step = "generate" => t.rows = NoRows

StatusInv ==
    /\ FiniteRows
    /\ OneOpen
    /\ StatusMatchesLedger
    /\ \A e \in Requests : PaysInvoice(invoice, entry[e])
    /\ \A r \in Requests : tx[r].step \in Open => StatusLocals(entry, invoice, tx[r])

\* The valid rows of one day in some of the tables.
OnDay(table, day, tables) ==
    {e \in Requests : /\ table[e].table \in tables
                      /\ IsLive(table[e])
                      /\ table[e].day = day}

\* The tables whose SELECT has run when refresh_daily_revenue comes to a step.
Tallied == [fees |-> {}, other |-> {"payment"}, expense |-> {"payment", "income"},
            summary |-> Tables]

\* The sum so far is of the rows the transaction sees, and a transaction that
\* commits money rows commits a summary with them.
SummaryLocals(table, t) ==
    /\ t.step \in DOMAIN Tallied =>
          t.counted = OnDay(Visible(table, t), t.day, Tallied[t.step])
    /\ t.step = "commit" =>
          IF t.summary = NoValue THEN t.rows = NoRows
          ELSE t.summary.counted = OnDay(Visible(table, t), t.summary.day, Tables)
    /\ t.step = "generate" => t.rows = NoRows

SummaryInv ==
    /\ OneOpen
    /\ SummaryMatchesLedger
    /\ \A r \in Requests : tx[r].step \in Open => SummaryLocals(entry, tx[r])

\* The balance verifyPayment works with is the one its invoice still has.
BalanceLocals(table, bills, r, t) ==
    /\ t.step \in {"existing", "balance"} => t.due = bills[t.invoice].due
    /\ t.step = "insert" /\ t.gateway # NoValue =>
          /\ t.table = "payment"
          /\ t.amount + Total(table, LivePayments(table, t.invoice))
                <= bills[t.invoice].due
    /\ t.rows[r] # NoValue /\ t.rows[r].gateway # NoValue =>
          LET i == t.rows[r].invoice IN
             /\ i \in Invoices
             /\ Total(Visible(table, t), LivePayments(Visible(table, t), i))
                   <= Current(bills, t)[i].due
    /\ t.step = "generate" => t.rows = NoRows

BalanceInv ==
    /\ FiniteRows
    /\ OneOpen
    /\ \A r \in Requests : tx[r].step \in Open => BalanceLocals(entry, invoice, r, tx[r])

=============================================================================
