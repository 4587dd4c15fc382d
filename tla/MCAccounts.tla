----------------------------- MODULE MCAccounts -----------------------------
(* Small instances of Accounts for TLC. *)
EXTENDS Accounts, TLC

CONSTANTS r1, r2, r3, founder, stranger, old, new

MCEnrolled == {<<founder, old, "admin">>}
MCJoining == {<<stranger, old, "teacher">>, <<stranger, new, "teacher">>}
RequestSymmetry == Permutations({r1, r2, r3})
=============================================================================
