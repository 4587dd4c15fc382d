---------------------------- MODULE MCAttendance ----------------------------
(* Small instances for model checking Attendance. *)
EXTENDS Attendance, TLC

Interchangeable ==
    Permutations(Requests) \cup Permutations(Students \ Leaving)
       \cup Permutations(Teachers) \cup Permutations(Admins)

=============================================================================
