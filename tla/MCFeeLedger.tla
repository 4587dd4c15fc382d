----------------------------- MODULE MCFeeLedger -----------------------------
(* FeeLedger with its identities interchangeable, for model checking. *)
EXTENDS FeeLedgerInv, TLC

\* A payment, and one that takes it back.
MCAmounts == {-1, 1}

\* Requests, invoices and gateway ids are only ever compared for equality.
Identities ==
    Permutations(Requests) \cup Permutations(Invoices) \cup Permutations(GatewayIds)

=============================================================================
