------------------------- MODULE MCInvoiceGeneration -------------------------
(* Small schools for model checking InvoiceGeneration. *)
EXTENDS InvoiceGeneration, TLC

CONSTANTS s1, s2, c1, c2

OneClass == [s \in Students |-> c1]
TwoClasses == [s \in Students |-> IF s = s1 THEN c1 ELSE c2]

Interchangeable ==
    Permutations(Runs) \cup Permutations(Months) \cup Permutations(Heads)

=============================================================================
