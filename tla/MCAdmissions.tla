---------------------------- MODULE MCAdmissions ----------------------------
(* Small instances of Admissions for TLC. *)
EXTENDS Admissions, TLC

CONSTANTS r1, r2, r3, p1, p2

L(n, p, f) == [number |-> n, phone |-> p, flaw |-> f]
MCTables == {<<L(NotGiven, p1, "none"), L(1, p1, "none")>>,
             <<L(1, p1, "unplaced"), L(1, p2, "none")>>,
             <<L(2, p2, "none"), L(2, p1, "none")>>}
RequestSymmetry == Permutations({r1, r2, r3})
=============================================================================
