-------------------------- MODULE MCCommunications --------------------------
(* Small instances of Communications for TLC. *)
EXTENDS Communications, TLC

CONSTANTS r1, r2, r3, principal, teacher, mother, pupil, leave, idea

MCAccountOf == [c \in {leave, idea} |-> IF c = leave THEN pupil ELSE mother]
MCMemberships == {<<principal, "admin">>, <<principal, "parent">>, <<pupil, "student">>,
                  <<teacher, "teacher">>, <<mother, "parent">>}
MCJoining == {<<teacher, "teacher">>, <<mother, "parent">>}
RequestSymmetry == Permutations({r1, r2, r3})
=============================================================================
