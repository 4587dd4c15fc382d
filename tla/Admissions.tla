----------------------------- MODULE Admissions -----------------------------
(****************************************************************************)
(* How students and their parents get into a school (StudentsService): one    *)
(* at a time, or by the import of a table whose rows each have a savepoint,   *)
(* tried out first as a dry run; and how a guardian's phone is changed.       *)
(*                                                                          *)
(* What a row brings into being carries its slot, the request and the number  *)
(* of the row: the student, his login STU-..., and the account PAR-... of a   *)
(* parent.  A phone belongs to one user of the platform.                     *)
(****************************************************************************)
EXTENDS Integers, FiniteSets, Sequences

CONSTANTS
    Requests,
    Phones,
    Tables,     \* the tables that may be imported, sequences of Line
    MaxNumber,  \* bound: the largest admission number
    MaxLines,   \* bound: the longest table
    PoolSize,
    NotGiven,   \* no admission number is given: the next one is taken
    Staff,      \* a phone's owner that is no parent
    NoValue

Numbers == 1..MaxNumber

\* A line of a table.  A flaw is found before or after its number is remembered.
Line == [number : Numbers \cup {NotGiven}, phone : Phones,
         flaw : {"none", "incomplete", "unplaced"}]

ASSUME TablesAssumption == \A t \in Tables : t \in Seq(Line) /\ Len(t) \in 1..MaxLines
ASSUME BoundsAssumption == {MaxNumber, MaxLines, PoolSize} \subseteq Nat /\ MaxLines > 0
ASSUME ValuesAssumption == /\ NotGiven \notin Numbers \cup {NoValue}
                           /\ NoValue \notin Phones /\ Staff # NoValue
                           /\ {Staff, NoValue} \cap (Requests \X (1..MaxLines)) = {}

Slots == Requests \X (1..MaxLines)
Row == [slot : Slots, guardian : Slots \cup {NoValue}]

ASSUME RowsAssumption == NoValue \notin Row

VARIABLES
    student,  \* students by admission number: slot and guardian, committed
    owner,    \* users.phone: the owner of each phone, committed
    version,  \* how often student or owner has changed
    tx        \* the requests

vars == <<student, owner, version, tx>>

-----------------------------------------------------------------------------

Steps == {"row", "details", "student", "parent", "account", "link", "commit"}

\* A handler: its lines, and of the line it is at the number, the parent found and
\* for an update the student's present guardian; what it has inserted or changed;
\* what it will answer for each line; whether nothing else ran beside it.
Handler ==
    [step : Steps \cup {"idle", "done", "failed"},
     kind : {"none", "create", "import", "dryRun", "update"},
     lines : Seq(Line), at : Nat, number : Numbers \cup {NoValue},
     found : Slots \cup {NoValue}, linked : Slots \cup {NoValue},
     processed : SUBSET Numbers, outcome : Seq({"ok", "error"}),
     wrote : [Numbers -> Row \cup {NoValue}],
     took : [Phones -> Slots \cup {NoValue}], freed : SUBSET Phones,
     began : Nat, alone : BOOLEAN]

Idle == [step |-> "idle", kind |-> "none", lines |-> <<>>, at |-> 1,
         number |-> NoValue, found |-> NoValue, linked |-> NoValue,
         processed |-> {}, outcome |-> <<>>,
         wrote |-> [n \in Numbers |-> NoValue], took |-> [p \in Phones |-> NoValue],
         freed |-> {}, began |-> 0, alone |-> FALSE]

Open(r) == tx[r].step \in Steps
Current(r) == tx[r].lines[tx[r].at]
Slot(r) == <<r, tx[r].at>>

\* The tables as a statement of r sees them.
StudentSeen(r, n) == IF tx[r].wrote[n] # NoValue THEN tx[r].wrote[n] ELSE student[n]
OwnerSeen(r, p) == IF tx[r].took[p] # NoValue THEN tx[r].took[p]
                   ELSE IF p \in tx[r].freed THEN NoValue ELSE owner[p]

\* The other transactions whose uncommitted rows the next statement waits for.
Blockers(r) ==
    {q \in Requests \ {r} :
        \/ /\ \/ tx[r].step \in {"student", "details"}
              \/ tx[r].step = "link" /\ tx[r].found # tx[r].linked
           /\ tx[q].wrote[tx[r].number] # NoValue
        \/ /\ tx[r].step = "account" /\ tx[r].found = NoValue
           /\ \/ tx[q].took[Current(r).phone] # NoValue
              \/ Current(r).phone \in tx[q].freed
              \/ /\ tx[r].kind = "update"
                 /\ \E p \in Phones : tx[q].took[p] = tx[r].linked}

AtStep(r, step) == tx[r].step = step /\ Blockers(r) = {}

Step(r, t) == tx' = [tx EXCEPT ![r] = t] /\ UNCHANGED <<student, owner, version>>

Rollback(r) == Step(r, [Idle EXCEPT !.step = "failed"])

Begin(r, t) ==
    /\ tx[r].step = "idle"
    /\ Cardinality({q \in Requests : Open(q)}) < PoolSize
    /\ tx' = [q \in Requests |->
                IF q = r THEN [t EXCEPT !.step = "row", !.began = version,
                                        !.alone = \A o \in Requests : ~Open(o)]
                ELSE [tx[q] EXCEPT !.alone = @ /\ ~Open(q)]]
    /\ UNCHANGED <<student, owner, version>>

-----------------------------------------------------------------------------

\* What a ROLLBACK TO SAVEPOINT leaves of a transaction: nothing of its line.
\* Fault: the savepoint is released instead.
WithLine(r) == tx[r]
WithoutLine(r) ==
    [tx[r] EXCEPT
        !.wrote = [n \in Numbers |->
                     IF tx[r].wrote[n] # NoValue /\ tx[r].wrote[n].slot = Slot(r)
                     THEN NoValue ELSE tx[r].wrote[n]],
        !.took = [p \in Phones |-> IF tx[r].took[p] = Slot(r) THEN NoValue
                                   ELSE tx[r].took[p]]]

\* On to the next line, or to the commit.
NextLine(t, result) ==
    [t EXCEPT !.outcome = Append(@, result), !.number = NoValue, !.found = NoValue,
              !.step = IF t.at = Len(t.lines) THEN "commit" ELSE "row",
              !.at = IF t.at = Len(t.lines) THEN @ ELSE @ + 1]

\* An error ends a request, but only the line of an import.
LineFails(r) ==
    IF tx[r].kind \in {"import", "dryRun"} THEN Step(r, NextLine(WithoutLine(r), "error"))
                                           ELSE Rollback(r)

-----------------------------------------------------------------------------
(* Requests that begin *)

Create(r, line) ==
    Begin(r, [Idle EXCEPT !.kind = "create", !.lines = <<line>>])

BulkImport(r, lines, dryRun) ==
    Begin(r, [Idle EXCEPT !.kind = IF dryRun THEN "dryRun" ELSE "import", !.lines = lines])

\* update with a new guardian phone.
Update(r, n, p) ==
    /\ student[n] # NoValue
    /\ Begin(r, [Idle EXCEPT !.kind = "update", !.number = n,
                             !.lines = <<[number |-> n, phone |-> p, flaw |-> "none"]>>])

-----------------------------------------------------------------------------
(* Statements *)

\* nextAdmissionNo: MAX + 1 of what the statement sees.
NextNumber(r) ==
    LET used == {n \in Numbers : StudentSeen(r, n) # NoValue}
    IN IF used = {} THEN 1 ELSE (CHOOSE n \in used : \A m \in used : m <= n) + 1

\* The numbers a line must not repeat.  Fault: a dry run does not collect them.
CollectedByImport(r) == IF tx[r].kind = "dryRun" THEN {} ELSE tx[r].processed
Collected(r) == tx[r].processed

\* The checks of a line before anything is written; create has none of its own.
Checks(r) ==
    /\ Current(r).flaw = "none"
    /\ tx[r].kind \in {"import", "dryRun"} /\ Current(r).number # NotGiven =>
          /\ Current(r).number \notin Collected(r)
          /\ StudentSeen(r, Current(r).number) = NoValue

\* The numbers seen so far, with this line's.
Remembered(r) ==
    IF Current(r).number = NotGiven \/ Current(r).flaw = "incomplete" THEN tx[r].processed
    ELSE tx[r].processed \cup {Current(r).number}

CheckLine(r) ==
    /\ AtStep(r, "row") /\ tx[r].kind # "update"
    /\ LET given == Current(r).number
           number == IF given = NotGiven THEN NextNumber(r) ELSE given
       IN \/ /\ Checks(r) /\ number \in Numbers
             /\ Step(r, [tx[r] EXCEPT !.step = "student", !.number = number,
                                      !.processed = Remembered(r)])
          \/ ~Checks(r) /\ tx[r].kind = "create" /\ Rollback(r)
          \/ /\ ~Checks(r) /\ tx[r].kind # "create"
             /\ Step(r, NextLine([WithoutLine(r) EXCEPT !.processed = Remembered(r)],
                                 "error"))

\* update: the student is read; then his other columns are written, if any are given.
FindStudent(r) ==
    /\ AtStep(r, "row") /\ tx[r].kind = "update"
    /\ \E step \in {"details", "parent"} :
          Step(r, [tx[r] EXCEPT !.step = step, !.linked = student[tx[r].number].guardian])

UpdateDetails(r) ==
    /\ AtStep(r, "details")
    /\ Step(r, [tx[r] EXCEPT !.step = "parent",
                             !.wrote[tx[r].number] = student[tx[r].number]])

\* UNIQUE(school_id, admission_no); the student's own login comes with him.
InsertStudent(r) ==
    /\ AtStep(r, "student")
    /\ IF student[tx[r].number] # NoValue \/ tx[r].wrote[tx[r].number] # NoValue
       THEN LineFails(r)
       ELSE Step(r, [tx[r] EXCEPT !.step = "parent",
                       !.wrote[tx[r].number] = [slot |-> Slot(r), guardian |-> NoValue]])

\* The parent who has this phone here already.  Fault: the user who has it anywhere.
FindUser(r) ==
    /\ AtStep(r, "parent")
    /\ Step(r, [tx[r] EXCEPT !.step = "account", !.found = OwnerSeen(r, Current(r).phone)])

FindParent(r) ==
    /\ AtStep(r, "parent")
    /\ LET u == OwnerSeen(r, Current(r).phone) IN
       Step(r, [tx[r] EXCEPT !.step = "account", !.found = IF u = Staff THEN NoValue ELSE u])

\* A new parent's account is named for the line that makes it.
NewParent(r) == Slot(r)

\* Without one a new parent gets the phone, or the present guardian does.
\* UNIQUE(phone), over all users.
TakePhone(r) ==
    /\ AtStep(r, "account")
    /\ LET p == Current(r).phone
           parent == IF tx[r].linked = NoValue THEN NewParent(r) ELSE tx[r].linked
       IN IF tx[r].found # NoValue THEN Step(r, [tx[r] EXCEPT !.step = "link"])
          ELSE IF OwnerSeen(r, p) # NoValue THEN LineFails(r)
          ELSE Step(r, [tx[r] EXCEPT !.step = "link", !.found = parent,
                          !.took = [tx[r].took EXCEPT ![p] = parent],
                          !.freed = IF tx[r].linked = NoValue THEN @
                                    ELSE {o \in Phones : OwnerSeen(r, o) = parent}])

\* A line that went through: an import releases its savepoint, a dry run rolls back
\* to it and reports the line all the same.
KeepLine(r, t) == NextLine(IF t.kind = "dryRun" THEN WithoutLine(r) ELSE t, "ok")

\* The guardian is set if it is another, the action audited.
LinkGuardian(r) ==
    /\ AtStep(r, "link")
    /\ LET n == tx[r].number
           row == [StudentSeen(r, n) EXCEPT !.guardian = tx[r].found]
           t == [tx[r] EXCEPT !.wrote[n] = IF tx[r].found = tx[r].linked THEN @ ELSE row]
       IN Step(r, KeepLine(r, t))

Commit(r) ==
    /\ AtStep(r, "commit")
    /\ LET t == tx[r] IN
          /\ student' = [n \in Numbers |-> StudentSeen(r, n)]
          /\ owner' = [p \in Phones |-> OwnerSeen(r, p)]
          /\ version' = IF <<student', owner'>> = <<student, owner>> THEN version
                        ELSE version + 1
          /\ tx' = [tx EXCEPT ![r] = [Idle EXCEPT !.step = "done", !.kind = t.kind,
                       !.lines = t.lines, !.outcome = t.outcome, !.began = t.began,
                       !.alone = t.alone /\ version = t.began]]

\* An error or a crash outside the lines.
Fail(r) == Open(r) /\ Rollback(r)

\* Requests that wait for each other: Postgres aborts one of them.
BreakDeadlock(r) ==
    /\ \E S \in SUBSET Requests : r \in S /\ \A q \in S : Open(q) /\ Blockers(q) \cap S # {}
    /\ LineFails(r)

\* teachers.service.ts: a member of staff gets an account, or keeps the one he has.
HireTeacher(p) ==
    /\ owner[p] = NoValue
    /\ \A r \in Requests : tx[r].took[p] = NoValue
    /\ owner' = [owner EXCEPT ![p] = Staff]
    /\ version' = version + 1
    /\ UNCHANGED <<student, tx>>

-----------------------------------------------------------------------------

Init ==
    /\ student = [n \in Numbers |-> NoValue]
    /\ owner = [p \in Phones |-> NoValue]
    /\ version = 0
    /\ tx = [r \in Requests |-> Idle]

Arrive(r) ==
    \/ \E t \in Tables : Create(r, t[1]) \/ \E d \in BOOLEAN : BulkImport(r, t, d)
    \/ \E n \in Numbers, p \in Phones : Update(r, n, p)

Serve(r) ==
    \/ CheckLine(r) \/ FindStudent(r) \/ UpdateDetails(r) \/ InsertStudent(r)
    \/ FindParent(r) \/ TakePhone(r) \/ LinkGuardian(r) \/ Commit(r) \/ BreakDeadlock(r)

Next ==
    \/ \E r \in Requests : Arrive(r) \/ Serve(r) \/ Fail(r)
    \/ \E p \in Phones : HireTeacher(p)

Spec == Init /\ [][Next]_vars

-----------------------------------------------------------------------------
(* Properties *)

\* Every table and handler holds values of its types.
TypeOK ==
    /\ student \in [Numbers -> Row \cup {NoValue}]
    /\ owner \in [Phones -> Slots \cup {Staff, NoValue}]
    /\ version \in Nat
    /\ tx \in [Requests -> Handler]

\* The lines a request has admitted for good.
Admitted(r) ==
    IF tx[r].step = "done" /\ tx[r].kind \in {"create", "import"}
    THEN {<<r, i>> : i \in {j \in DOMAIN tx[r].outcome : tx[r].outcome[j] = "ok"}}
    ELSE {}

\* A line is admitted whole or leaves nothing behind, whatever fails inside an
\* import, runs beside it or is only tried out: the students on record are exactly
\* those answered with credentials, each with a guardian, and no parent's account
\* was made by a line that was refused.
WholeLinesOnly ==
    LET admitted == UNION {Admitted(r) : r \in Requests}
        present == {n \in Numbers : student[n] # NoValue}
    IN /\ {student[n].slot : n \in present} = admitted
       /\ \A n, m \in present : student[n].slot = student[m].slot => n = m
       /\ \A n \in present : student[n].guardian \in admitted
       /\ \A p \in Phones : owner[p] \in admitted \cup {Staff, NoValue}

\* The preview tells the truth: with nothing changed in between, a line the dry run
\* refuses the import refuses, and a line it accepts is refused only if its number
\* was meanwhile given to a line above that asked for the next one.
PreviewIsHonest ==
    \A d, r \in Requests :
       /\ tx[d].step = "done" /\ tx[d].kind = "dryRun" /\ tx[d].alone
       /\ tx[r].step = "done" /\ tx[r].kind = "import" /\ tx[r].alone
       /\ tx[d].lines = tx[r].lines /\ tx[d].began = tx[r].began
       => \A i \in DOMAIN tx[r].lines :
             /\ tx[d].outcome[i] = "error" => tx[r].outcome[i] = "error"
             /\ tx[d].outcome[i] = "ok" /\ tx[r].outcome[i] = "error" =>
                   /\ tx[r].lines[i].number # NotGiven
                   /\ \E j \in 1..(i - 1) : tx[r].lines[j].number = NotGiven

=============================================================================
