------------------------------ MODULE Academics ------------------------------
(********************************************************************************)
(* The timetable of a section, the marks of an exam, the syllabus, the          *)
(* holidays, and what teachers post for a section or class (AcademicsService,   *)
(* AttendanceService); and what parents and pupils are shown of it, of their    *)
(* attendance and of their fees: in all three services the caller's own         *)
(* student is found, or the access to one is checked, in a statement before     *)
(* the one that reads.                                                          *)
(*                                                                              *)
(* A request is one READ COMMITTED transaction, a statement is an action.       *)
(* Every row has a cell its unique index gives it: a day and period, a          *)
(* student and subject, a class and subject, a date.  Admins and teachers,      *)
(* who may see every student, are no viewers here.                              *)
(********************************************************************************)
EXTENDS Integers, FiniteSets, Sequences

CONSTANTS
    Requests,
    Periods,    \* the cells of the timetable of one section
    Marks,      \* the cells of the results of one exam
    Units,      \* the cells of the syllabus and of the holidays
    Weeks,      \* the timetables that are saved, sequences of periods
    Sheets,     \* the results that are entered, sequences of marks
    Roll,       \* the students in the order they were admitted
    Parents,
    Pupils,     \* the accounts of students
    OwnRecord,  \* the student of each pupil
    Sections,
    Classes,
    ClassOf,    \* the class of each section, for good
    School,     \* where a material belongs that is for no class
    Records,    \* bound: the records a student may have
    PoolSize,
    NoValue

Cells == Periods \cup Marks \cup Units
Students == {Roll[i] : i \in DOMAIN Roll}
Record == [section : Sections, guardian : Parents \cup {NoValue}, active : BOOLEAN]
Viewers == Parents \cup Pupils
Places == Sections \cup Classes \cup {School}

ASSUME CellsAssumption == /\ Periods \cap (Marks \cup Units) = {}
                          /\ Marks \cap Units = {}
ASSUME SavesAssumption == Weeks \subseteq Seq(Periods) /\ Sheets \subseteq Seq(Marks)
ASSUME PeopleAssumption == /\ Roll \in Seq(Students)
                           /\ OwnRecord \in [Pupils -> Students]
                           /\ Parents \cap Pupils = {}
                           /\ Records \subseteq Record
ASSUME PlacesAssumption == /\ ClassOf \in [Sections -> Classes]
                           /\ Sections \cap (Classes \cup {School}) = {}
                           /\ School \notin Classes
ASSUME NoValueAssumption ==
    NoValue \notin Requests \cup Cells \cup Students \cup Viewers \cup Places
ASSUME PoolAssumption == PoolSize \in Nat

VARIABLES
    cell,     \* timetable_slots, exam_results, syllabus, holidays, committed
    post,     \* the place of the homework of a section or the material of a class, by
              \* the request that made it; to viewers also a timetable, a syllabus
    student,  \* students: section, guardian and whether active
    clock,    \* how many requests have been committed
    tx        \* the requests

tables == <<cell, post, student>>
vars == <<tables, clock, tx>>

-----------------------------------------------------------------------------

\* A row's id is the request that inserted it, kept by an update; of a cell
\* without a row only the request that removed the last one is remembered.
Row == [id : Requests \cup {NoValue}, by : Requests \cup {NoValue}]
Empty == [id |-> NoValue, by |-> NoValue]

ASSUME NoRowAssumption == NoValue \notin Row

Kinds == {"week", "upsert", "remove", "marks", "post", "take down", "homework",
          "materials", "browse", "records", "my dues"}
Open == {"clear", "clearing", "write", "erase", "check", "child", "section", "access",
         "list", "commit"}

\* A handler: the cells it writes and the one it is at; the rows its DELETE found;
\* what it wrote and deleted; the material it deletes; the section or class it posts
\* for or lists; whom it serves, which student it found for him, what it shows, and
\* the student records there were while it ran for him.
Handler ==
    [step : Open \cup {"idle", "done"}, kind : Kinds \cup {"none"},
     cells : Seq(Cells), at : Nat, found : SUBSET (Cells \X Requests),
     wrote : [Cells -> Row \cup {NoValue}], gone : SUBSET Cells,
     about : Requests \cup {NoValue}, place : Places \cup {NoValue},
     viewer : Viewers \cup {NoValue}, child : Students \cup {NoValue},
     shown : SUBSET (Requests \cup Students), during : SUBSET [Students -> Record],
     began : Nat, ended : Nat]

Idle == [step |-> "idle", kind |-> "none", cells |-> <<>>, at |-> 1, found |-> {},
         wrote |-> [c \in Cells |-> NoValue], gone |-> {}, about |-> NoValue,
         place |-> NoValue, viewer |-> NoValue, child |-> NoValue, shown |-> {},
         during |-> {}, began |-> 0, ended |-> 0]

Touched(q) == {c \in Cells : tx[q].wrote[c] # NoValue} \cup tx[q].gone

\* The cells whose rows the next statement of r locks.
Wanted(r) ==
    CASE tx[r].step = "write" -> {tx[r].cells[tx[r].at]}
      [] tx[r].step \in {"clearing", "erase"} -> {w[1] : w \in tx[r].found}
      [] OTHER -> {}

Blockers(r) == {q \in Requests \ {r} : Touched(q) \cap Wanted(r) # {}}

AtStep(r, step) == tx[r].step = step /\ Blockers(r) = {}

Step(r, t) == tx' = [tx EXCEPT ![r] = t] /\ UNCHANGED <<tables, clock>>

\* Nothing is left of a request that fails; it may be made again.
Rollback(r) == Step(r, Idle)

Begin(r, t) ==
    /\ tx[r].step = "idle"
    /\ Cardinality({q \in Requests : tx[q].step \in Open}) < PoolSize
    /\ tx' = [tx EXCEPT ![r] = [t EXCEPT !.began = clock,
                           !.during = IF t.viewer = NoValue THEN {} ELSE {student}]]
    /\ UNCHANGED <<tables, clock>>

-----------------------------------------------------------------------------
(* Requests that begin *)

BulkSetTimetable(r, week) ==
    Begin(r, [Idle EXCEPT !.kind = "week", !.step = "clear", !.cells = week])

UpsertTimetableSlot(r, p) ==
    Begin(r, [Idle EXCEPT !.kind = "upsert", !.step = "write", !.cells = <<p>>])

UpsertSyllabus(r, u) ==
    Begin(r, [Idle EXCEPT !.kind = "upsert", !.step = "write", !.cells = <<u>>])

\* setHoliday: a date has one row.
SetHoliday(r, u) == UpsertSyllabus(r, u)

\* By an id the screen lists.
DeleteRow(r, c) ==
    /\ cell[c].id # NoValue
    /\ Begin(r, [Idle EXCEPT !.kind = "remove", !.step = "erase",
                             !.found = {<<c, cell[c].id>>}])

DeleteTimetableSlot(r, p) == DeleteRow(r, p)
DeleteSyllabus(r, u) == DeleteRow(r, u)
DeleteHoliday(r, u) == DeleteRow(r, u)

\* enterResults of an exam that is there; without records it has nothing to do.
EnterResults(r, sheet) ==
    Begin(r, [Idle EXCEPT !.kind = "marks", !.cells = sheet,
                          !.step = IF sheet = <<>> THEN "commit" ELSE "write"])

Publish(r, place) ==
    Begin(r, [Idle EXCEPT !.kind = "post", !.step = "commit", !.place = place])

CreateHomework(r, s) == Publish(r, s)

\* For a class or for none.
CreateMaterial(r, c) == Publish(r, c)

\* Homework is never deleted.
DeleteMaterial(r, p) ==
    /\ post[p] \notin Sections \cup {NoValue}
    /\ Begin(r, [Idle EXCEPT !.kind = "take down", !.step = "check", !.about = p])

\* What a parent or pupil is shown of his section, or of its class ...
ListHomeworkForViewer(r, v) ==
    Begin(r, [Idle EXCEPT !.kind = "homework", !.step = "child", !.viewer = v])

ListMaterialsForViewer(r, v) ==
    Begin(r, [Idle EXCEPT !.kind = "materials", !.step = "child", !.viewer = v])

ListTimetableForViewer(r, v) == ListHomeworkForViewer(r, v)
ListSyllabusForViewer(r, v) == ListMaterialsForViewer(r, v)

\* ... and what he may list of any class, or of all.
ListMaterials(r, v, c) ==
    Begin(r, [Idle EXCEPT !.kind = "browse", !.step = "list", !.viewer = v, !.place = c])

ListSyllabus(r, v, c) == ListMaterials(r, v, c)

\* Records of his own student, which the access is checked to all the same ...
GetMyResults(r, v) ==
    Begin(r, [Idle EXCEPT !.kind = "records", !.step = "child", !.viewer = v])

GetMyMonth(r, v) == GetMyResults(r, v)

\* ... but for the dues.
GetMyDues(r, v) ==
    Begin(r, [Idle EXCEPT !.kind = "my dues", !.step = "child", !.viewer = v])

\* Records of a student he names, or whose invoice or payment he names.
GetStudentResults(r, v, s) ==
    Begin(r, [Idle EXCEPT !.kind = "records", !.step = "access", !.viewer = v,
                          !.child = s])

GetStudentMonth(r, v, s) == GetStudentResults(r, v, s)
GetStudentDues(r, v, s) == GetStudentResults(r, v, s)
GetInvoiceDetail(r, v, s) == GetStudentResults(r, v, s)
GetReceipt(r, v, s) == GetStudentResults(r, v, s)

-----------------------------------------------------------------------------
(* Statements that write *)

\* bulkSetTimetable: the DELETE finds the rows that are committed as it starts ...
\* Fault: only those of the periods that are saved.
RowsOfPeriods(r) ==
    {<<c, cell[c].id>> : c \in {d \in Periods : /\ cell[d].id # NoValue
                                                /\ \E i \in DOMAIN tx[r].cells :
                                                      tx[r].cells[i] = d}}
RowsOfSection(r) ==
    {<<c, cell[c].id>> : c \in {d \in Periods : cell[d].id # NoValue}}

FindRows(r) ==
    /\ AtStep(r, "clear")
    /\ Step(r, [tx[r] EXCEPT !.step = "clearing", !.found = RowsOfSection(r)])

Next1(t) == IF t.at < Len(t.cells) THEN "write" ELSE "commit"

\* ... waits for whoever changes one of them, and deletes those that are left.
DeleteRows(r) ==
    /\ tx[r].step \in {"clearing", "erase"} /\ Blockers(r) = {}
    /\ LET left == {w[1] : w \in {v \in tx[r].found : cell[v[1]].id = v[2]}} IN
       Step(r, [tx[r] EXCEPT !.gone = left,
                             !.step = IF tx[r].cells = <<>> THEN "commit" ELSE "write"])

\* A statement fails: the handler ends.  Fault: only that row is skipped.
SkipsRow(r) == Step(r, [tx[r] EXCEPT !.at = @ + 1, !.step = Next1(tx[r])])
OnError(r) == Rollback(r)

\* An INSERT of the week meets a row that is there; an upsert updates it.
WriteRow(r) ==
    /\ AtStep(r, "write")
    /\ LET t == tx[r]
           c == t.cells[t.at]
           there == \/ t.wrote[c] # NoValue
                    \/ cell[c].id # NoValue /\ c \notin t.gone
           id == IF t.wrote[c] # NoValue THEN t.wrote[c].id
                 ELSE IF there THEN cell[c].id ELSE r
       IN IF there /\ t.kind = "week" THEN OnError(r)
          ELSE Step(r, [t EXCEPT !.wrote[c] = [id |-> id, by |-> r], !.at = @ + 1,
                                 !.step = Next1(t)])

\* deleteMaterial: the material is still there.  That it is not the caller's, who is no
\* admin, is one of the errors of Fail.
CheckMaterial(r) ==
    /\ AtStep(r, "check")
    /\ IF post[tx[r].about] = NoValue THEN Rollback(r)
       ELSE Step(r, [tx[r] EXCEPT !.step = "commit"])

-----------------------------------------------------------------------------
(* Statements that read *)

\* viewerStudentId: a pupil himself; a parent's first child, if any.
Children(v) == {i \in DOMAIN Roll : /\ student[Roll[i]].guardian = v
                                    /\ student[Roll[i]].active}
OwnStudent(v) ==
    IF v \in Pupils THEN OwnRecord[v]
    ELSE IF Children(v) = {} THEN NoValue
    ELSE Roll[CHOOSE i \in Children(v) : \A j \in Children(v) : i <= j]

\* Without a student the answer is empty, or a 404.
\* Fault: the list is asked for all the same, with no section to filter by.
ListsAnyway(r) == Step(r, [tx[r] EXCEPT !.step = "list"])
NothingToShow(r) == Step(r, [tx[r] EXCEPT !.step = "commit"])

FindChild(r) ==
    /\ AtStep(r, "child")
    /\ LET s == OwnStudent(tx[r].viewer) IN
       IF s = NoValue THEN NothingToShow(r)
       ELSE Step(r, [tx[r] EXCEPT !.child = s,
                       !.step = CASE tx[r].kind \in {"homework", "materials"} -> "section"
                                  [] tx[r].kind = "records" -> "access"
                                  [] tx[r].kind = "my dues" -> "list"])

\* viewerSectionId; viewerClassId.
PlaceFor(kind, section) == IF kind = "homework" THEN section ELSE ClassOf[section]

FindSection(r) ==
    /\ AtStep(r, "section")
    /\ LET section == student[tx[r].child].section IN
       Step(r, [tx[r] EXCEPT !.place = PlaceFor(tx[r].kind, section), !.step = "list"])

\* assertStudentAccess.  Fault: a parent may look at any active student.
AnyStudent(v, s) == v \in Parents => student[s].active
HasAccess(v, s) == IF v \in Pupils THEN OwnRecord[v] = s ELSE student[s].guardian = v

CheckAccess(r) ==
    /\ AtStep(r, "access")
    /\ IF HasAccess(tx[r].viewer, tx[r].child)
       THEN Step(r, [tx[r] EXCEPT !.step = "list"])
       ELSE Rollback(r)

\* listHomeworkForSection, listTimetable; listMaterials, listSyllabus: a class that is
\* not given does not filter.
HomeworkOf(section) == {p \in Requests : post[p] \in Sections /\ post[p] = section}
MaterialsOf(class) ==
    {p \in Requests : /\ post[p] \in Classes \cup {School}
                      /\ class \in {NoValue, post[p]}}

List(r) ==
    /\ AtStep(r, "list")
    /\ Step(r, [tx[r] EXCEPT !.step = "commit",
                  !.shown = CASE tx[r].kind = "homework" -> HomeworkOf(tx[r].place)
                              [] tx[r].kind \in {"materials", "browse"} ->
                                    MaterialsOf(tx[r].place)
                              [] tx[r].kind \in {"records", "my dues"} -> {tx[r].child}])

-----------------------------------------------------------------------------

\* What is left of a handler that ends: what it saved and when; or what it showed.
Ended(t) ==
    LET done == [Idle EXCEPT !.step = "done", !.kind = t.kind] IN
    CASE t.kind \in {"week", "marks", "upsert", "remove"} ->
            [done EXCEPT !.cells = t.cells, !.began = t.began, !.ended = clock + 1]
      [] t.kind \in {"homework", "materials", "browse", "records", "my dues"}
         /\ t.shown # {} ->
            [done EXCEPT !.viewer = t.viewer, !.child = t.child, !.shown = t.shown,
                         !.during = t.during]
      [] OTHER -> done

Commit(r) ==
    /\ AtStep(r, "commit")
    /\ LET t == tx[r] IN
          /\ cell' = [c \in Cells |->
                        IF t.wrote[c] # NoValue THEN t.wrote[c]
                        ELSE IF c \in t.gone THEN [id |-> NoValue, by |-> r]
                        ELSE cell[c]]
          /\ post' = CASE t.kind = "post" -> [post EXCEPT ![r] = t.place]
                       [] t.kind = "take down" -> [post EXCEPT ![t.about] = NoValue]
                       [] OTHER -> post
          /\ tx' = [tx EXCEPT ![r] = Ended(t)]
          /\ clock' = clock + 1
    /\ UNCHANGED student

\* An error or a crash at any point.
Fail(r) == tx[r].step \in Open /\ Rollback(r)

\* Requests that wait for each other: Postgres aborts one statement.
BreakDeadlock(r) ==
    /\ Blockers(r) # {}
    /\ \E S \in SUBSET Requests :
          r \in S /\ \A q \in S : tx[q].step \in Open /\ Blockers(q) \cap S # {}
    /\ OnError(r)

\* students.service.ts: a student moves, leaves, or gets another guardian.
ChangeStudent(s, record) ==
    /\ student[s] # record
    /\ student' = [student EXCEPT ![s] = record]
    /\ tx' = [q \in Requests |->
                IF tx[q].step \in Open /\ tx[q].viewer # NoValue
                THEN [tx[q] EXCEPT !.during = @ \cup {[student EXCEPT ![s] = record]}]
                ELSE tx[q]]
    /\ UNCHANGED <<cell, post, clock>>

Init ==
    /\ cell = [c \in Cells |-> Empty]
    /\ post = [r \in Requests |-> NoValue]
    /\ student \in [Students -> Records]
    /\ clock = 0
    /\ tx = [r \in Requests |-> Idle]

Arrive(r) ==
    \/ \E w \in Weeks : BulkSetTimetable(r, w)
    \/ \E p \in Periods : UpsertTimetableSlot(r, p) \/ DeleteTimetableSlot(r, p)
    \/ \E u \in Units : \/ UpsertSyllabus(r, u) \/ DeleteSyllabus(r, u)
                         \/ SetHoliday(r, u) \/ DeleteHoliday(r, u)
    \/ \E s \in Sheets : EnterResults(r, s)
    \/ \E s \in Sections : CreateHomework(r, s)
    \/ \E c \in Classes \cup {School} : CreateMaterial(r, c)
    \/ \E p \in Requests : DeleteMaterial(r, p)
    \/ \E v \in Viewers :
          \/ ListHomeworkForViewer(r, v) \/ ListMaterialsForViewer(r, v)
          \/ ListTimetableForViewer(r, v) \/ ListSyllabusForViewer(r, v)
          \/ GetMyResults(r, v) \/ GetMyMonth(r, v) \/ GetMyDues(r, v)
          \/ \E c \in Classes \cup {NoValue} : ListMaterials(r, v, c) \/ ListSyllabus(r, v, c)
          \/ \E s \in Students : \/ GetStudentResults(r, v, s) \/ GetStudentMonth(r, v, s)
                                 \/ v \in Parents /\ GetStudentDues(r, v, s)
                                 \/ GetInvoiceDetail(r, v, s) \/ GetReceipt(r, v, s)

Serve(r) ==
    \/ FindRows(r) \/ DeleteRows(r) \/ WriteRow(r) \/ CheckMaterial(r)
    \/ FindChild(r) \/ FindSection(r) \/ CheckAccess(r) \/ List(r)
    \/ Commit(r) \/ BreakDeadlock(r)

Next ==
    \/ \E r \in Requests : Arrive(r) \/ Serve(r) \/ Fail(r)
    \/ \E s \in Students, record \in Records : ChangeStudent(s, record)

Spec == Init /\ [][Next]_vars

-----------------------------------------------------------------------------
(* Properties *)

\* Every table and handler holds values of its types.
TypeOK ==
    /\ cell \in [Cells -> Row]
    /\ post \in [Requests -> Places \cup {NoValue}]
    /\ student \in [Students -> Record]
    /\ clock \in Nat
    /\ tx \in [Requests -> Handler]

Saved(r) == {tx[r].cells[i] : i \in DOMAIN tx[r].cells}

\* bulkSetTimetable replaces the section's whole week: a period is as a save that
\* was answered left it, taken or free, unless a request that ended after the save
\* began has written or freed it since.
WeekIsReplaced ==
    \A r \in Requests : tx[r].step = "done" /\ tx[r].kind = "week" =>
       \A c \in Periods :
          \/ cell[c].id # NoValue /\ cell[c].by = r /\ c \in Saved(r)
          \/ cell[c].id = NoValue /\ c \notin Saved(r)
          \/ /\ cell[c].by \notin {r, NoValue}
             /\ tx[cell[c].by].ended > tx[r].began

\* enterResults writes row by row, in any order, beside others that enter the same
\* rows: of the rows two sheets share, what stands is never one part of each.
SheetsDoNotMix ==
    \A p, q \in Requests :
       /\ tx[p].step = "done" /\ tx[p].kind = "marks"
       /\ tx[q].step = "done" /\ tx[q].kind = "marks" /\ p # q
       => ~ \E c, d \in Saved(p) \cap Saved(q) : cell[c].by = p /\ cell[d].by = q

\* The student is looked up, or the access to him checked, before the statement that
\* reads: a parent or pupil is shown records only of a student who was his while the
\* request ran, homework and timetable only of a section such a student was in while
\* it ran, and by the /my lists materials and syllabus only of the class of one.  The
\* lists open to everyone show materials and syllabus of every class, but no homework.
ViewersSeeTheirs ==
    \A r \in Requests : tx[r].shown # {} =>
       LET v == tx[r].viewer
           s == tx[r].child
       IN IF tx[r].kind = "browse" THEN \A p \in tx[r].shown : post[p] \notin Sections
          ELSE /\ s # NoValue
               /\ IF v \in Pupils THEN s = OwnRecord[v]
                  ELSE \E was \in tx[r].during : was[s].guardian = v
               /\ tx[r].kind \in {"records", "my dues"} => tx[r].shown = {s}
               /\ tx[r].kind \in {"homework", "materials"} => \E was \in tx[r].during :
                     \A p \in tx[r].shown :
                        post[p] \in {PlaceFor(tx[r].kind, was[s].section), NoValue}

=============================================================================
