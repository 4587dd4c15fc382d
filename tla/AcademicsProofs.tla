---------------------------- MODULE AcademicsProofs ----------------------------
(* All properties of Academics, for any number of requests, rows and people.       *)
(* Every row that stands was written or freed by a request that was answered       *)
(* (ByDone), the last of those that touched it (Latest).  A save of the week has   *)
(* found all rows of the section, but for those that were committed while it ran   *)
(* (Clears).  What a viewer is shown goes back to a state of the student records   *)
(* in which the student was his (Views), but for the lists open to everyone.       *)
EXTENDS Academics, SequenceTheorems, WellFoundedInduction, TLAPS

Saving == {"week", "marks", "upsert"}
Writing == Saving \cup {"remove"}
Listing == {"homework", "materials"}
Viewing == Listing \cup {"browse", "records", "my dues"}
Untouched(t) == (\A c \in Cells : t.wrote[c] = NoValue) /\ t.gone = {}

\* What a handler's locals hold at each step ...
Stages(t) ==
    /\ t.step \in Open => t.kind \in Kinds
    /\ t.step \in {"clear", "clearing"} => t.kind = "week" /\ t.at = 1
    /\ t.step = "erase" => t.kind = "remove" /\ t.cells = <<>>
    /\ t.step = "write" => t.kind \in Saving
    /\ t.step \in {"child", "section", "access", "list"} =>
          t.kind \in Viewing /\ t.viewer \in Viewers
    /\ t.step \in {"child", "section", "access"} => t.kind # "browse"
    /\ t.step = "section" => t.kind \in Listing
    /\ t.step = "check" => t.kind = "take down"
    /\ t.step = "access" => t.kind = "records" /\ t.child \in Students
    /\ t.step \in Open \ {"commit"} => t.shown = {}
    /\ t.kind = "post" /\ t.step = "commit" => t.place \in Places

\* ... and what it has written by then.
Written(r, t) ==
    /\ t.step = "write" => /\ t.at \in 1..Len(t.cells)
                           /\ \A i \in 1..(t.at - 1) : t.wrote[t.cells[i]] # NoValue
    /\ t.step = "commit" /\ t.kind \in Saving =>
          \A i \in 1..Len(t.cells) : t.wrote[t.cells[i]] # NoValue
    /\ t.kind = "week" => \A c \in Cells : t.wrote[c] # NoValue =>
                             \E i \in 1..Len(t.cells) : t.cells[i] = c
    /\ \A c \in Cells : t.wrote[c] # NoValue => /\ t.wrote[c].by = r
                                                /\ t.wrote[c].id \in Requests
    /\ t.step \in Open /\ t.kind \notin Writing => Untouched(t)

LocalOK(r, t) == Stages(t) /\ Written(r, t)

Theirs(t) ==
    t.kind # "browse" =>
       /\ t.child \in Students
       /\ IF t.viewer \in Pupils THEN t.child = OwnRecord[t.viewer]
          ELSE \E was \in t.during : was[t.child].guardian = t.viewer

Shows(t) ==
    /\ t.kind \in {"records", "my dues"} => t.shown = {t.child}
    /\ t.kind \in Listing \cup {"browse"} =>
          \A p \in t.shown : p \in Requests /\ tx[p].step = "done"
    /\ t.kind \in Listing => \E was \in t.during : \A p \in t.shown :
          post[p] \in {PlaceFor(t.kind, was[t.child].section), NoValue}
    /\ t.kind = "browse" => \A p \in t.shown : post[p] \notin Sections

Views(t) ==
    /\ t.step \in Open /\ t.viewer # NoValue => student \in t.during
    /\ t.step \in {"section", "list"} \/ t.shown # {} => Theirs(t)
    /\ t.step = "list" /\ t.kind \in Listing =>
          /\ t.place \in Places
          /\ \E was \in t.during : PlaceFor(t.kind, was[t.child].section) = t.place
    /\ t.shown # {} => Shows(t)

\* A request that was answered after began has touched the cell since.
Since(c, r, began) == cell[c].by \notin {r, NoValue} /\ tx[cell[c].by].ended > began

Clears(r, t) ==
    /\ t.step = "clearing" => \A c \in Periods : cell[c].id # NoValue =>
          <<c, cell[c].id>> \in t.found \/ Since(c, r, t.began)
    /\ t.step \in {"write", "commit"} /\ t.kind = "week" =>
          \A c \in Periods : cell[c].id # NoValue => c \in t.gone \/ Since(c, r, t.began)

Replaced(r, t) ==
    t.step = "done" /\ t.kind = "week" => \A c \in Periods :
       \/ cell[c].id # NoValue /\ cell[c].by = r /\ \E i \in 1..Len(t.cells) : t.cells[i] = c
       \/ cell[c].id = NoValue /\ \A i \in 1..Len(t.cells) : t.cells[i] # c
       \/ Since(c, r, t.began)

Latest(t) ==
    t.step = "done" /\ t.kind = "marks" => \A i \in 1..Len(t.cells) :
       /\ cell[t.cells[i]].by # NoValue
       /\ tx[cell[t.cells[i]].by].ended >= t.ended

ByDone ==
    \A c \in Cells : cell[c].by # NoValue =>
       /\ cell[c].by \in Requests /\ tx[cell[c].by].step = "done"
       /\ tx[cell[c].by].kind \in Writing

Distinct ==
    \A p, q \in Requests :
       /\ tx[p].step = "done" /\ tx[p].kind \in Writing
       /\ tx[q].step = "done" /\ tx[q].kind \in Writing /\ tx[p].ended = tx[q].ended
       => p = q

PostsDone == \A p \in Requests : post[p] # NoValue => tx[p].step = "done"

IInv ==
    /\ TypeOK
    /\ \A r \in Requests :
          /\ LocalOK(r, tx[r]) /\ Views(tx[r]) /\ Clears(r, tx[r])
          /\ Replaced(r, tx[r]) /\ Latest(tx[r])
          /\ tx[r].began <= clock /\ tx[r].ended <= clock
    /\ ByDone /\ Distinct /\ PostsDone

-----------------------------------------------------------------------------
(* Handlers *)

LEMMA Fields ==
  ASSUME NEW t \in Handler
  PROVE  /\ t.step \in Open \cup {"idle", "done"} /\ t.kind \in Kinds \cup {"none"}
         /\ t.cells \in Seq(Cells) /\ t.at \in Nat /\ t.found \subseteq Cells \X Requests
         /\ t.wrote \in [Cells -> Row \cup {NoValue}] /\ t.gone \subseteq Cells
         /\ t.about \in Requests \cup {NoValue} /\ t.place \in Places \cup {NoValue}
         /\ t.viewer \in Viewers \cup {NoValue} /\ t.child \in Students \cup {NoValue}
         /\ t.shown \subseteq Requests \cup Students
         /\ t.during \subseteq [Students -> Record] /\ t.began \in Nat /\ t.ended \in Nat
BY DEF Handler

LEMMA GotoFacts ==
  ASSUME NEW t \in Handler, NEW step \in Open, NEW h, h = [t EXCEPT !.step = step]
  PROVE  /\ h \in Handler /\ h.step = step /\ h.kind = t.kind /\ h.cells = t.cells
         /\ h.at = t.at /\ h.found = t.found /\ h.wrote = t.wrote /\ h.gone = t.gone
         /\ h.about = t.about /\ h.place = t.place /\ h.viewer = t.viewer
         /\ h.child = t.child /\ h.shown = t.shown /\ h.during = t.during
         /\ h.began = t.began /\ h.ended = t.ended
<1>1. h \in Handler
  BY DEF Handler
<1>2. h.step = step /\ h.kind = t.kind /\ h.cells = t.cells /\ h.at = t.at
  BY DEF Handler
<1>3. h.found = t.found /\ h.wrote = t.wrote /\ h.gone = t.gone /\ h.about = t.about
  BY DEF Handler
<1>4. h.place = t.place /\ h.viewer = t.viewer /\ h.child = t.child /\ h.shown = t.shown
  BY DEF Handler
<1>5. h.during = t.during /\ h.began = t.began /\ h.ended = t.ended
  BY DEF Handler
<1> QED
  BY <1>1, <1>2, <1>3, <1>4, <1>5

LEMMA FoundHandler ==
  ASSUME NEW t \in Handler, NEW step \in Open, NEW rows \in SUBSET (Cells \X Requests)
  PROVE  [t EXCEPT !.step = step, !.found = rows] \in Handler
BY DEF Handler

LEMMA KindHandler ==
  ASSUME NEW t \in Handler, NEW kind \in Kinds, NEW step \in Open,
         NEW rows \in SUBSET (Cells \X Requests)
  PROVE  [t EXCEPT !.kind = kind, !.step = step, !.found = rows] \in Handler
BY DEF Handler

LEMMA GoneHandler ==
  ASSUME NEW t \in Handler, NEW step \in Open, NEW left \in SUBSET Cells
  PROVE  [t EXCEPT !.step = step, !.gone = left] \in Handler
BY DEF Handler

LEMMA WroteHandler ==
  ASSUME NEW t \in Handler, NEW step \in Open, NEW at \in Nat,
         NEW wrote \in [Cells -> Row \cup {NoValue}]
  PROVE  [t EXCEPT !.wrote = wrote, !.at = at, !.step = step] \in Handler
BY DEF Handler

LEMMA ChildHandler ==
  ASSUME NEW t \in Handler, NEW step \in Open, NEW s \in Students
  PROVE  [t EXCEPT !.child = s, !.step = step] \in Handler
BY DEF Handler

LEMMA PlaceHandler ==
  ASSUME NEW t \in Handler, NEW step \in Open, NEW place \in Places
  PROVE  [t EXCEPT !.place = place, !.step = step] \in Handler
BY DEF Handler

LEMMA ShownHandler ==
  ASSUME NEW t \in Handler, NEW step \in Open, NEW shown \in SUBSET (Requests \cup Students)
  PROVE  [t EXCEPT !.step = step, !.shown = shown] \in Handler
BY DEF Handler

LEMMA EndedHandler ==
  ASSUME NEW t \in Handler, NEW kind \in Kinds
  PROVE  [t EXCEPT !.step = "done", !.kind = kind] \in Handler
BY DEF Handler

LEMMA DoneHandler ==
  ASSUME NEW t \in Handler, NEW kind \in Kinds, NEW cells \in Seq(Cells), NEW began \in Nat,
         NEW ended \in Nat
  PROVE  [t EXCEPT !.step = "done", !.kind = kind, !.cells = cells, !.began = began,
                   !.ended = ended] \in Handler
BY DEF Handler

LEMMA AnsweredHandler ==
  ASSUME NEW t \in Handler, NEW kind \in Kinds, NEW v \in Viewers \cup {NoValue},
         NEW s \in Students \cup {NoValue}, NEW shown \in SUBSET (Requests \cup Students),
         NEW during \in SUBSET [Students -> Record]
  PROVE  [t EXCEPT !.step = "done", !.kind = kind, !.viewer = v, !.child = s,
                   !.shown = shown, !.during = during] \in Handler
BY DEF Handler

LEMMA Facts ==
  ASSUME IInv, NEW r \in Requests
  PROVE  /\ tx \in [Requests -> Handler] /\ tx[r] \in Handler /\ clock \in Nat
         /\ LocalOK(r, tx[r]) /\ Views(tx[r]) /\ Clears(r, tx[r])
         /\ Replaced(r, tx[r]) /\ Latest(tx[r])
         /\ tx[r].began <= clock /\ tx[r].ended <= clock
         /\ tx[r].began \in Nat /\ tx[r].ended \in Nat
<1>1. tx \in [Requests -> Handler] /\ tx[r] \in Handler /\ clock \in Nat
  BY DEF IInv, TypeOK
<1>2. tx[r].began \in Nat /\ tx[r].ended \in Nat
  BY <1>1, Fields
<1> QED
  BY <1>1, <1>2 DEF IInv

LEMMA Local ==
  ASSUME IInv, NEW r \in Requests
  PROVE  Stages(tx[r]) /\ Written(r, tx[r])
BY DEF IInv, LocalOK

LEMMA IdleHandler ==
  /\ Idle \in Handler /\ Idle.step = "idle" /\ Idle.kind = "none" /\ Idle.cells = <<>>
  /\ Idle.at = 1 /\ Idle.found = {} /\ Untouched(Idle) /\ Idle.about = NoValue
  /\ Idle.place = NoValue /\ Idle.viewer = NoValue /\ Idle.child = NoValue
  /\ Idle.shown = {} /\ Idle.during = {} /\ Idle.began = 0 /\ Idle.ended = 0
<1>1. /\ Idle.step = "idle" /\ Idle.kind = "none" /\ Idle.cells = <<>>
      /\ Idle.at = 1 /\ Idle.found = {} /\ Untouched(Idle) /\ Idle.about = NoValue
  BY DEF Idle, Untouched
<1>2. /\ Idle.place = NoValue /\ Idle.viewer = NoValue /\ Idle.child = NoValue
      /\ Idle.shown = {} /\ Idle.during = {} /\ Idle.began = 0 /\ Idle.ended = 0
  BY DEF Idle
<1>3. <<>> \in Seq(Cells)
  BY EmptySeq
<1>4. Idle \in Handler
  BY <1>3 DEF Idle, Handler
<1> QED
  BY <1>1, <1>2, <1>4

\* What one handler may become while the tables stand still.
Harmless(r, h) ==
    /\ tx[r].step # "done" /\ h.step # "done"
    /\ LocalOK(r, h) /\ Views(h) /\ Clears(r, h)
    /\ h.began <= clock /\ h.ended <= clock

LEMMA OneHandler ==
  ASSUME IInv, NEW r \in Requests, NEW h \in Handler, Step(r, h), Harmless(r, h)
  PROVE  IInv'
<1>1. /\ tx'[r] = h /\ \A q \in Requests \ {r} : tx'[q] = tx[q]
      /\ tx' \in [Requests -> Handler]
  BY Facts DEF Step
<1>2. cell' = cell /\ post' = post /\ student' = student /\ clock' = clock
  BY DEF Step, tables
<1>3. \A q \in Requests : tx[q].step = "done" => tx'[q] = tx[q]
  BY <1>1 DEF Harmless
<1>4. \A q \in Requests : tx'[q].step = "done" => tx'[q] = tx[q]
  BY <1>1 DEF Harmless
<1>5. \A c \in Cells : cell[c].by # NoValue => tx'[cell[c].by] = tx[cell[c].by]
  BY <1>3 DEF IInv, ByDone
<1>6. TypeOK'
  BY <1>1, <1>2 DEF IInv, TypeOK
<1>7. \A q \in Requests : LocalOK(q, tx'[q])
  BY <1>1 DEF IInv, Harmless
<1>8. ASSUME NEW q \in Requests PROVE Views(tx[q])'
  <2>1. Views(tx'[q])
    BY <1>1 DEF IInv, Harmless
  <2>2. Shows(tx'[q]) => Shows(tx[q])'
    BY <1>2, <1>3 DEF Shows
  <2> QED
    BY <1>2, <2>1, <2>2 DEF Views, Theirs
<1>9. ASSUME NEW c \in Cells, NEW q \in Requests, NEW began, Since(c, q, began)
      PROVE  cell[c].by \notin {q, NoValue} /\ tx'[cell[c].by].ended > began
  BY <1>5, <1>9 DEF Since
<1>10. ASSUME NEW q \in Requests PROVE Clears(q, tx[q])'
  <2>1. Clears(q, tx'[q])
    BY <1>1 DEF IInv, Harmless
  <2> QED
    BY <1>2, <1>9, <2>1 DEF Clears, Since, Cells
<1>11. ASSUME NEW q \in Requests PROVE Replaced(q, tx[q])'
  <2>1. Replaced(q, tx[q])
    BY Facts
  <2> QED
    BY <1>2, <1>4, <1>9, <2>1 DEF Replaced, Since, Cells
<1>12. ASSUME NEW q \in Requests PROVE Latest(tx[q])'
  <2> SUFFICES ASSUME tx'[q].step = "done", tx'[q].kind = "marks",
                      NEW i \in 1..Len(tx'[q].cells)
               PROVE  /\ cell[tx'[q].cells[i]].by # NoValue
                      /\ tx'[cell[tx'[q].cells[i]].by].ended >= tx'[q].ended
    BY <1>2 DEF Latest
  <2>1. tx'[q] = tx[q] /\ Latest(tx[q]) /\ tx[q].cells \in Seq(Cells)
    BY <1>4, Facts, Fields
  <2>2. tx[q].cells[i] \in Cells
    BY <2>1, ElementOfSeq
  <2> QED
    BY <1>5, <2>1, <2>2 DEF Latest
<1>13. \A q \in Requests : tx'[q].began <= clock' /\ tx'[q].ended <= clock'
  BY <1>1, <1>2, Facts DEF Harmless
<1>14. ByDone'
  BY <1>2, <1>5 DEF IInv, ByDone
<1>15. Distinct'
  BY <1>4 DEF IInv, Distinct
<1>16. PostsDone'
  BY <1>2, <1>3 DEF IInv, PostsDone
<1> QED
  BY <1>6, <1>7, <1>8, <1>10, <1>11, <1>12, <1>13, <1>14, <1>15, <1>16 DEF IInv

LEMMA RollbackStep ==
  ASSUME IInv, NEW r \in Requests, tx[r].step \in Open, Rollback(r)
  PROVE  IInv'
<1>1. LocalOK(r, Idle)
  <2>1. Stages(Idle)
    BY IdleHandler DEF Stages, Open
  <2>2. Written(r, Idle)
    BY IdleHandler DEF Written, Untouched
  <2> QED
    BY <2>1, <2>2 DEF LocalOK
<1>2. Views(Idle) /\ Clears(r, Idle)
  BY IdleHandler DEF Views, Clears, Open
<1>3. Harmless(r, Idle)
  BY <1>1, <1>2, Facts, IdleHandler DEF Harmless, Open
<1> QED
  BY <1>3, IdleHandler, OneHandler DEF Rollback

-----------------------------------------------------------------------------
(* Requests that begin *)

\* A handler that begins has touched, found and shown nothing.
Fresh(r, t) ==
    /\ t \in Handler
    /\ t.step \in {"clear", "write", "erase", "commit", "check", "child", "access", "list"}
    /\ t.step = "list" => t.kind = "browse"
    /\ t.step \in {"write", "commit"} => t.kind # "week"
    /\ t.shown = {} /\ t.ended = 0 /\ LocalOK(r, t)

LEMMA BeginStep ==
  ASSUME IInv, NEW r \in Requests, NEW t, Begin(r, t), Fresh(r, t)
  PROVE  IInv'
<1> DEFINE seen == IF t.viewer = NoValue THEN {} ELSE {student}
<1> DEFINE h == [t EXCEPT !.began = clock, !.during = seen]
<1>1. tx[r].step = "idle" /\ Step(r, h)
  BY DEF Begin, Step
<1>2. /\ t \in Handler /\ clock \in Nat /\ seen \subseteq [Students -> Record]
      /\ t.step \in Open
  BY Facts DEF Fresh, IInv, TypeOK, Open
<1>3. t.viewer # NoValue => student \in seen
  OBVIOUS
<1> HIDE DEF seen
<1>4. h \in Handler
  BY <1>2 DEF Handler
<1>5. h.step = t.step /\ h.kind = t.kind /\ h.cells = t.cells /\ h.at = t.at
  BY <1>2 DEF Handler
<1>6. h.found = t.found /\ h.wrote = t.wrote /\ h.gone = t.gone /\ h.about = t.about
  BY <1>2 DEF Handler
<1>7. h.place = t.place /\ h.viewer = t.viewer /\ h.child = t.child /\ h.shown = t.shown
  BY <1>2 DEF Handler
<1>8. h.during = seen /\ h.began = clock /\ h.ended = t.ended
  BY <1>2 DEF Handler
<1> HIDE DEF h
<1>9. LocalOK(r, h)
  <2>1. Stages(t) /\ Written(r, t)
    BY DEF Fresh, LocalOK
  <2>2. Stages(h)
    BY <1>5, <1>7, <2>1 DEF Stages
  <2>3. Written(r, h)
    BY <1>5, <1>6, <2>1 DEF Written, Untouched
  <2> QED
    BY <2>2, <2>3 DEF LocalOK
<1>10. Views(h)
  BY <1>3, <1>5, <1>7, <1>8 DEF Fresh, Views, Theirs, Listing
<1>11. Clears(r, h)
  BY <1>5 DEF Fresh, Clears
<1>12. tx[r].step # "done" /\ h.step # "done" /\ h.began <= clock /\ h.ended <= clock
  BY <1>1, <1>2, <1>5, <1>8 DEF Fresh, Open
<1> QED
  BY <1>1, <1>4, <1>9, <1>10, <1>11, <1>12, OneHandler DEF Harmless

\* Requests that write cells.
LEMMA BeginWriting ==
  ASSUME NEW r \in Requests, NEW t \in Handler, t.kind \in Writing,
         t.at = 1, t.wrote = Idle.wrote, t.gone = {}, t.shown = {}, t.ended = 0,
         t.step = IF t.kind = "week" THEN "clear" ELSE IF t.kind = "remove" THEN "erase"
                  ELSE IF t.cells = <<>> THEN "commit" ELSE "write",
         t.kind = "remove" => t.cells = <<>>
  PROVE  Fresh(r, t)
<1>1. \A c \in Cells : t.wrote[c] = NoValue
  BY IdleHandler DEF Untouched
<1>2. t.cells \in Seq(Cells)
  BY Fields
<1>3. Len(t.cells) \in Nat /\ (t.cells # <<>> => Len(t.cells) \in Nat \ {0}) /\ Len(<<>>) = 0
  BY <1>2, EmptySeq, LenProperties
<1>4. t.step = "write" => t.at \in 1..Len(t.cells) /\ 1..(t.at - 1) = {}
  BY <1>3 DEF Writing, Saving
<1>5. t.step = "commit" => 1..Len(t.cells) = {}
  BY <1>3 DEF Writing, Saving
<1>6. Stages(t)
  BY DEF Stages, Writing, Saving, Kinds, Open
<1>7. Written(r, t)
  BY <1>1, <1>4, <1>5 DEF Written
<1> QED
  BY <1>6, <1>7 DEF Fresh, LocalOK, Writing, Saving

\* Requests that serve a viewer, or post.
LEMMA BeginOther ==
  ASSUME NEW r \in Requests, NEW t \in Handler, t.kind \in Kinds \ Writing,
         t.wrote = Idle.wrote, t.gone = {}, t.shown = {}, t.ended = 0,
         \/ t.step = "child" /\ t.kind \in Viewing \ {"browse"} /\ t.viewer \in Viewers
         \/ t.step = "list" /\ t.kind = "browse" /\ t.viewer \in Viewers
         \/ /\ t.step = "access" /\ t.kind = "records" /\ t.viewer \in Viewers
            /\ t.child \in Students
         \/ t.step = "commit" /\ t.kind = "post" /\ t.place \in Places
         \/ t.step = "check" /\ t.kind = "take down"
  PROVE  Fresh(r, t)
<1>1. Untouched(t)
  BY IdleHandler DEF Untouched
<1>2. Stages(t)
  BY DEF Stages, Writing, Saving, Viewing, Listing
<1>3. Written(r, t)
  BY <1>1 DEF Written, Untouched, Writing, Saving
<1> QED
  BY <1>2, <1>3 DEF Fresh, LocalOK, Writing, Saving

LEMMA SaveArrives ==
  ASSUME IInv, NEW r \in Requests,
         \/ \E w \in Weeks : BulkSetTimetable(r, w)
         \/ \E s \in Sheets : EnterResults(r, s)
         \/ \E c \in Periods \cup Units : UpsertSyllabus(r, c)
         \/ \E c \in Periods \cup Units : DeleteRow(r, c)
  PROVE  IInv'
<1>1. ASSUME NEW w \in Weeks, BulkSetTimetable(r, w) PROVE IInv'
  <2> DEFINE t == [Idle EXCEPT !.kind = "week", !.step = "clear", !.cells = w]
  <2>1. w \in Seq(Cells)
    BY SavesAssumption, SeqMonotonic DEF Cells
  <2>2. t \in Handler
    <3>1. Idle \in Handler
      BY IdleHandler
    <3> QED
      BY <2>1, <3>1 DEF Handler, Kinds, Open
  <2>3. t.kind = "week" /\ t.step = "clear" /\ t.cells = w
    BY DEF Idle
  <2>4. t.at = 1 /\ t.wrote = Idle.wrote /\ t.gone = {} /\ t.shown = {} /\ t.ended = 0
    BY DEF Idle
  <2>5. Begin(r, t)
    BY <1>1 DEF BulkSetTimetable
  <2> HIDE DEF t
  <2>6. Fresh(r, t)
    BY <2>1, <2>2, <2>3, <2>4, BeginWriting DEF Writing, Saving
  <2> QED
    BY <2>5, <2>6, BeginStep
<1>2. ASSUME NEW s \in Sheets, EnterResults(r, s) PROVE IInv'
  <2> DEFINE step == IF s = <<>> THEN "commit" ELSE "write"
  <2> DEFINE t == [Idle EXCEPT !.kind = "marks", !.cells = s, !.step = step]
  <2>1. s \in Seq(Cells) /\ step \in Open
    BY SavesAssumption, SeqMonotonic DEF Cells, Open
  <2> HIDE DEF step
  <2>2. t \in Handler
    <3>1. Idle \in Handler
      BY IdleHandler
    <3> QED
      BY <2>1, <3>1 DEF Handler, Kinds
  <2>3. t.kind = "marks" /\ t.cells = s /\ t.step = step
    BY DEF Idle
  <2>4. t.at = 1 /\ t.wrote = Idle.wrote /\ t.gone = {} /\ t.shown = {} /\ t.ended = 0
    BY DEF Idle
  <2>5. Begin(r, t)
    BY <1>2 DEF EnterResults, step
  <2> HIDE DEF t
  <2>6. Fresh(r, t)
    BY <2>1, <2>2, <2>3, <2>4, BeginWriting DEF Writing, Saving, step
  <2> QED
    BY <2>5, <2>6, BeginStep
<1>3. ASSUME NEW c \in Periods \cup Units, UpsertSyllabus(r, c) PROVE IInv'
  <2> DEFINE t == [Idle EXCEPT !.kind = "upsert", !.step = "write", !.cells = <<c>>]
  <2>1. <<c>> \in Seq(Cells) /\ <<c>> # <<>>
    BY DEF Cells
  <2>2. t \in Handler
    <3>1. Idle \in Handler
      BY IdleHandler
    <3> QED
      BY <2>1, <3>1 DEF Handler, Kinds, Open
  <2>3. t.kind = "upsert" /\ t.step = "write" /\ t.cells = <<c>>
    BY DEF Idle
  <2>4. t.at = 1 /\ t.wrote = Idle.wrote /\ t.gone = {} /\ t.shown = {} /\ t.ended = 0
    BY DEF Idle
  <2>5. Begin(r, t)
    BY <1>3 DEF UpsertSyllabus
  <2> HIDE DEF t
  <2>6. Fresh(r, t)
    BY <2>1, <2>2, <2>3, <2>4, BeginWriting DEF Writing, Saving
  <2> QED
    BY <2>5, <2>6, BeginStep
<1>4. ASSUME NEW c \in Periods \cup Units, DeleteRow(r, c) PROVE IInv'
  <2> DEFINE row == {<<c, cell[c].id>>}
  <2> DEFINE t == [Idle EXCEPT !.kind = "remove", !.step = "erase",
                               !.found = row]
  <2>1. row \in SUBSET (Cells \X Requests)
    <3>1. c \in Cells
      BY DEF Cells
    <3>2. cell[c].id \in Requests
      BY <1>4, <3>1 DEF DeleteRow, IInv, TypeOK, Row
    <3> QED
      BY <3>1, <3>2
  <2> HIDE DEF row
  <2>2. t \in Handler
    <3>1. Idle \in Handler /\ "remove" \in Kinds /\ "erase" \in Open
      BY IdleHandler DEF Kinds, Open
    <3> QED
      BY <2>1, <3>1, KindHandler
  <2>3. t.kind = "remove" /\ t.step = "erase" /\ t.cells = <<>>
    BY DEF Idle
  <2>4. t.at = 1 /\ t.wrote = Idle.wrote /\ t.gone = {} /\ t.shown = {} /\ t.ended = 0
    BY DEF Idle
  <2>5. Begin(r, t)
    BY <1>4 DEF DeleteRow, row
  <2> HIDE DEF t
  <2>6. Fresh(r, t)
    BY <2>1, <2>2, <2>3, <2>4, BeginWriting DEF Writing, Saving
  <2> QED
    BY <2>5, <2>6, BeginStep
<1> QED
  BY <1>1, <1>2, <1>3, <1>4

LEMMA OtherArrives ==
  ASSUME IInv, NEW r \in Requests,
         \/ \E place \in Places : Publish(r, place)
         \/ \E p \in Requests : DeleteMaterial(r, p)
         \/ \E v \in Viewers : ListHomeworkForViewer(r, v)
         \/ \E v \in Viewers : ListMaterialsForViewer(r, v)
         \/ \E v \in Viewers, c \in Classes \cup {NoValue} : ListMaterials(r, v, c)
         \/ \E v \in Viewers : GetMyResults(r, v)
         \/ \E v \in Viewers : GetMyDues(r, v)
         \/ \E v \in Viewers, s \in Students : GetStudentResults(r, v, s)
  PROVE  IInv'
<1>1. ASSUME NEW place \in Places, Publish(r, place) PROVE IInv'
  <2> DEFINE t == [Idle EXCEPT !.kind = "post", !.step = "commit", !.place = place]
  <2>1. place # NoValue
    BY NoValueAssumption
  <2>2. t \in Handler
    <3>1. Idle \in Handler
      BY IdleHandler
    <3> QED
      BY <2>1, <3>1 DEF Handler, Kinds, Open
  <2>3. t.kind = "post" /\ t.step = "commit" /\ t.place = place
    BY DEF Idle
  <2>4. t.at = 1 /\ t.wrote = Idle.wrote /\ t.gone = {} /\ t.shown = {} /\ t.ended = 0
    BY DEF Idle
  <2>5. Begin(r, t)
    BY <1>1 DEF Publish
  <2> HIDE DEF t
  <2>6. Fresh(r, t)
    BY <2>1, <2>2, <2>3, <2>4, BeginOther DEF Kinds, Writing, Saving, Viewing, Listing
  <2> QED
    BY <2>5, <2>6, BeginStep
<1>2. ASSUME NEW p \in Requests, DeleteMaterial(r, p) PROVE IInv'
  <2> DEFINE t == [Idle EXCEPT !.kind = "take down", !.step = "check", !.about = p]
  <2>1. p # NoValue
    BY NoValueAssumption
  <2>2. t \in Handler
    <3>1. Idle \in Handler
      BY IdleHandler
    <3> QED
      BY <2>1, <3>1 DEF Handler, Kinds, Open
  <2>3. t.kind = "take down" /\ t.step = "check"
    BY DEF Idle
  <2>4. t.at = 1 /\ t.wrote = Idle.wrote /\ t.gone = {} /\ t.shown = {} /\ t.ended = 0
    BY DEF Idle
  <2>5. Begin(r, t)
    BY <1>2 DEF DeleteMaterial
  <2> HIDE DEF t
  <2>6. Fresh(r, t)
    BY <2>1, <2>2, <2>3, <2>4, BeginOther DEF Kinds, Writing, Saving, Viewing, Listing
  <2> QED
    BY <2>5, <2>6, BeginStep
<1>3. ASSUME NEW v \in Viewers, ListHomeworkForViewer(r, v) PROVE IInv'
  <2> DEFINE t == [Idle EXCEPT !.kind = "homework", !.step = "child", !.viewer = v]
  <2>1. v # NoValue
    BY NoValueAssumption
  <2>2. t \in Handler
    <3>1. Idle \in Handler
      BY IdleHandler
    <3> QED
      BY <2>1, <3>1 DEF Handler, Kinds, Open
  <2>3. t.kind = "homework" /\ t.step = "child" /\ t.viewer = v
    BY DEF Idle
  <2>4. t.at = 1 /\ t.wrote = Idle.wrote /\ t.gone = {} /\ t.shown = {} /\ t.ended = 0
    BY DEF Idle
  <2>5. Begin(r, t)
    BY <1>3 DEF ListHomeworkForViewer
  <2> HIDE DEF t
  <2>6. Fresh(r, t)
    BY <2>1, <2>2, <2>3, <2>4, BeginOther DEF Kinds, Writing, Saving, Viewing, Listing
  <2> QED
    BY <2>5, <2>6, BeginStep
<1>4. ASSUME NEW v \in Viewers, GetMyResults(r, v) PROVE IInv'
  <2> DEFINE t == [Idle EXCEPT !.kind = "records", !.step = "child", !.viewer = v]
  <2>1. v # NoValue
    BY NoValueAssumption
  <2>2. t \in Handler
    <3>1. Idle \in Handler
      BY IdleHandler
    <3> QED
      BY <2>1, <3>1 DEF Handler, Kinds, Open
  <2>3. t.kind = "records" /\ t.step = "child" /\ t.viewer = v
    BY DEF Idle
  <2>4. t.at = 1 /\ t.wrote = Idle.wrote /\ t.gone = {} /\ t.shown = {} /\ t.ended = 0
    BY DEF Idle
  <2>5. Begin(r, t)
    BY <1>4 DEF GetMyResults
  <2> HIDE DEF t
  <2>6. Fresh(r, t)
    BY <2>1, <2>2, <2>3, <2>4, BeginOther DEF Kinds, Writing, Saving, Viewing, Listing
  <2> QED
    BY <2>5, <2>6, BeginStep
<1>5. ASSUME NEW v \in Viewers, GetMyDues(r, v) PROVE IInv'
  <2> DEFINE t == [Idle EXCEPT !.kind = "my dues", !.step = "child", !.viewer = v]
  <2>1. v # NoValue
    BY NoValueAssumption
  <2>2. t \in Handler
    <3>1. Idle \in Handler
      BY IdleHandler
    <3> QED
      BY <2>1, <3>1 DEF Handler, Kinds, Open
  <2>3. t.kind = "my dues" /\ t.step = "child" /\ t.viewer = v
    BY DEF Idle
  <2>4. t.at = 1 /\ t.wrote = Idle.wrote /\ t.gone = {} /\ t.shown = {} /\ t.ended = 0
    BY DEF Idle
  <2>5. Begin(r, t)
    BY <1>5 DEF GetMyDues
  <2> HIDE DEF t
  <2>6. Fresh(r, t)
    BY <2>1, <2>2, <2>3, <2>4, BeginOther DEF Kinds, Writing, Saving, Viewing, Listing
  <2> QED
    BY <2>5, <2>6, BeginStep
<1>6. ASSUME NEW v \in Viewers, NEW s \in Students, GetStudentResults(r, v, s) PROVE IInv'
  <2> DEFINE t == [Idle EXCEPT !.kind = "records", !.step = "access", !.viewer = v,
                               !.child = s]
  <2>1. v # NoValue
    BY NoValueAssumption
  <2>2. t \in Handler
    <3>1. Idle \in Handler
      BY IdleHandler
    <3> QED
      BY <2>1, <3>1 DEF Handler, Kinds, Open
  <2>3. t.kind = "records" /\ t.step = "access" /\ t.viewer = v /\ t.child = s
    BY DEF Idle
  <2>4. t.at = 1 /\ t.wrote = Idle.wrote /\ t.gone = {} /\ t.shown = {} /\ t.ended = 0
    BY DEF Idle
  <2>5. Begin(r, t)
    BY <1>6 DEF GetStudentResults
  <2> HIDE DEF t
  <2>6. Fresh(r, t)
    BY <2>1, <2>2, <2>3, <2>4, BeginOther DEF Kinds, Writing, Saving, Viewing, Listing
  <2> QED
    BY <2>5, <2>6, BeginStep
<1>7. ASSUME NEW v \in Viewers, ListMaterialsForViewer(r, v) PROVE IInv'
  <2> DEFINE t == [Idle EXCEPT !.kind = "materials", !.step = "child", !.viewer = v]
  <2>1. v # NoValue
    BY NoValueAssumption
  <2>2. t \in Handler
    <3>1. Idle \in Handler
      BY IdleHandler
    <3> QED
      BY <2>1, <3>1 DEF Handler, Kinds, Open
  <2>3. t.kind = "materials" /\ t.step = "child" /\ t.viewer = v
    BY DEF Idle
  <2>4. t.at = 1 /\ t.wrote = Idle.wrote /\ t.gone = {} /\ t.shown = {} /\ t.ended = 0
    BY DEF Idle
  <2>5. Begin(r, t)
    BY <1>7 DEF ListMaterialsForViewer
  <2> HIDE DEF t
  <2>6. Fresh(r, t)
    BY <2>1, <2>2, <2>3, <2>4, BeginOther DEF Kinds, Writing, Saving, Viewing, Listing
  <2> QED
    BY <2>5, <2>6, BeginStep
<1>8. ASSUME NEW v \in Viewers, NEW c \in Classes \cup {NoValue},
             ListMaterials(r, v, c)
      PROVE IInv'
  <2> DEFINE t == [Idle EXCEPT !.kind = "browse", !.step = "list", !.viewer = v,
                               !.place = c]
  <2>1. v # NoValue
    BY NoValueAssumption
  <2>2. t \in Handler
    <3>1. Idle \in Handler
      BY IdleHandler
    <3> QED
      BY <2>1, <3>1 DEF Handler, Kinds, Open, Places
  <2>3. t.kind = "browse" /\ t.step = "list" /\ t.viewer = v
    BY DEF Idle
  <2>4. t.at = 1 /\ t.wrote = Idle.wrote /\ t.gone = {} /\ t.shown = {} /\ t.ended = 0
    BY DEF Idle
  <2>5. Begin(r, t)
    BY <1>8 DEF ListMaterials
  <2> HIDE DEF t
  <2>6. Fresh(r, t)
    BY <2>1, <2>2, <2>3, <2>4, BeginOther DEF Kinds, Writing, Saving, Viewing, Listing
  <2> QED
    BY <2>5, <2>6, BeginStep
<1> QED
  BY <1>1, <1>2, <1>3, <1>4, <1>5, <1>6, <1>7, <1>8

LEMMA ArriveStep ==
  ASSUME IInv, NEW r \in Requests, Arrive(r)
  PROVE  IInv'
<1>1. ASSUME NEW p \in Periods, UpsertTimetableSlot(r, p) \/ DeleteTimetableSlot(r, p)
      PROVE  IInv'
  BY <1>1, SaveArrives DEF UpsertTimetableSlot, UpsertSyllabus, DeleteTimetableSlot
<1>2. ASSUME NEW u \in Units,
             \/ UpsertSyllabus(r, u) \/ DeleteSyllabus(r, u)
             \/ SetHoliday(r, u) \/ DeleteHoliday(r, u)
      PROVE  IInv'
  BY <1>2, SaveArrives DEF SetHoliday, DeleteSyllabus, DeleteHoliday
<1>3. ASSUME NEW v \in Viewers,
             \/ ListHomeworkForViewer(r, v) \/ ListMaterialsForViewer(r, v)
             \/ ListTimetableForViewer(r, v) \/ ListSyllabusForViewer(r, v)
             \/ GetMyResults(r, v) \/ GetMyMonth(r, v) \/ GetMyDues(r, v)
      PROVE  IInv'
  BY <1>3, OtherArrives DEF ListTimetableForViewer, ListSyllabusForViewer, GetMyMonth
<1>4. ASSUME NEW v \in Viewers, NEW s \in Students,
             \/ GetStudentResults(r, v, s) \/ GetStudentMonth(r, v, s)
             \/ GetStudentDues(r, v, s) \/ GetInvoiceDetail(r, v, s)
             \/ GetReceipt(r, v, s)
      PROVE  IInv'
  BY <1>4, OtherArrives DEF GetStudentMonth, GetStudentDues, GetInvoiceDetail, GetReceipt
<1>5. ASSUME NEW v \in Viewers, NEW c \in Classes \cup {NoValue},
             ListMaterials(r, v, c) \/ ListSyllabus(r, v, c)
      PROVE  IInv'
  BY <1>5, OtherArrives DEF ListSyllabus
<1>6. ASSUME NEW place \in Places, CreateHomework(r, place) \/ CreateMaterial(r, place)
      PROVE  IInv'
  BY <1>6, OtherArrives DEF CreateHomework, CreateMaterial
<1> QED
  BY <1>1, <1>2, <1>3, <1>4, <1>5, <1>6, SaveArrives, OtherArrives DEF Arrive, Places

-----------------------------------------------------------------------------
(* Statements that write *)

LEMMA NothingShown ==
  ASSUME IInv, NEW r \in Requests, tx[r].step \in Open, NEW h,
         h.step \notin {"section", "list"}, h.shown = {},
         h.viewer = tx[r].viewer, h.during = tx[r].during
  PROVE  Views(h)
<1>1. Views(tx[r])
  BY Facts
<1> QED
  BY <1>1 DEF Views

\* The DELETE finds every row there is.
LEMMA FindRowsStep ==
  ASSUME IInv, NEW r \in Requests, FindRows(r)
  PROVE  IInv'
<1> DEFINE rows == RowsOfSection(r)
<1> DEFINE h == [tx[r] EXCEPT !.step = "clearing", !.found = rows]
<1>1. tx[r].step = "clear" /\ tx[r].step \in Open /\ Step(r, h)
  BY DEF FindRows, AtStep, Open
<1>2. /\ rows \subseteq Cells \X Requests
      /\ \A c \in Periods : cell[c].id # NoValue => <<c, cell[c].id>> \in rows
  <2>1. \A c \in Periods : c \in Cells /\ cell[c].id \in Requests \cup {NoValue}
    BY DEF Cells, IInv, TypeOK, Row
  <2> QED
    BY <2>1 DEF RowsOfSection
<1> HIDE DEF rows
<1>3. h \in Handler
  BY <1>2, Facts, FoundHandler DEF Open
<1>4. h.step = "clearing" /\ h.kind = tx[r].kind /\ h.cells = tx[r].cells /\ h.at = tx[r].at
  BY Facts DEF Handler
<1>5. h.found = rows /\ h.wrote = tx[r].wrote /\ h.gone = tx[r].gone
  BY Facts DEF Handler
<1>6. h.viewer = tx[r].viewer /\ h.shown = tx[r].shown /\ h.during = tx[r].during
  BY Facts DEF Handler
<1>7. h.began = tx[r].began /\ h.ended = tx[r].ended
  BY Facts DEF Handler
<1> HIDE DEF h
<1>8. LocalOK(r, h)
  <2>1. Stages(h)
    BY <1>1, <1>4, <1>6, Local DEF Stages, Open
  <2>2. Written(r, h)
    BY <1>1, <1>4, <1>5, Local DEF Written, Untouched
  <2> QED
    BY <2>1, <2>2 DEF LocalOK
<1>9. Views(h)
  <2>1. h.shown = {}
    BY <1>1, <1>6, Local DEF Stages, Open
  <2> QED
    BY <1>1, <1>4, <1>6, <2>1, NothingShown
<1>10. Clears(r, h)
  BY <1>2, <1>4, <1>5 DEF Clears
<1> QED
  BY <1>1, <1>3, <1>4, <1>7, <1>8, <1>9, <1>10, Facts, OneHandler DEF Harmless

\* Those it found and that are left are gone; the others came while the save ran.
LEMMA DeleteRowsStep ==
  ASSUME IInv, NEW r \in Requests, DeleteRows(r)
  PROVE  IInv'
<1> DEFINE left == {w[1] : w \in {v \in tx[r].found : cell[v[1]].id = v[2]}}
<1> DEFINE step == IF tx[r].cells = <<>> THEN "commit" ELSE "write"
<1> DEFINE h == [tx[r] EXCEPT !.step = step, !.gone = left]
<1>1. tx[r].step \in {"clearing", "erase"} /\ tx[r].step \in Open /\ Step(r, h)
  BY DEF DeleteRows, Open
<1>2. /\ left \subseteq Cells
      /\ \A c \in Periods : <<c, cell[c].id>> \in tx[r].found => c \in left
  BY Facts, Fields
<1>3. step \in Open
  BY DEF Open
<1> HIDE DEF left
<1>4. h \in Handler
  BY <1>2, <1>3, Facts, GoneHandler
<1>5. h.step = step /\ h.kind = tx[r].kind /\ h.cells = tx[r].cells /\ h.at = tx[r].at
  BY Facts DEF Handler
<1>6. h.gone = left /\ h.wrote = tx[r].wrote
  BY Facts DEF Handler
<1>7. h.viewer = tx[r].viewer /\ h.shown = tx[r].shown /\ h.during = tx[r].during
  BY Facts DEF Handler
<1>8. h.began = tx[r].began /\ h.ended = tx[r].ended
  BY Facts DEF Handler
<1> HIDE DEF h
<1>9. tx[r].cells \in Seq(Cells) /\ tx[r].kind \in Writing
  BY <1>1, Facts, Fields, Local DEF Stages, Writing, Saving
<1>10. /\ step = "write" => Len(tx[r].cells) \in Nat \ {0}
       /\ step = "commit" => Len(tx[r].cells) = 0
  BY <1>9, EmptySeq
<1>11. LocalOK(r, h)
  <2>1. step = "write" => h.kind = "week" /\ h.at \in 1..Len(h.cells) /\ 1..(h.at - 1) = {}
    <3>1. step = "write" => tx[r].step = "clearing"
      BY <1>1, Local DEF Stages
    <3>2. step = "write" => h.kind = "week" /\ h.at = 1
      BY <1>5, <3>1, Local DEF Stages
    <3> QED
      BY <1>5, <1>10, <3>2
  <2>2. step = "commit" => 1..Len(h.cells) = {}
    BY <1>5, <1>10
  <2>3. h.shown = {}
    BY <1>1, <1>7, Local DEF Stages, Open
  <2>4. \A c \in Cells : h.wrote[c] # NoValue => h.wrote[c].by = r /\ h.wrote[c].id \in Requests
    BY <1>6, Local DEF Written
  <2>5. h.kind = "week" => \A c \in Cells : h.wrote[c] # NoValue =>
                             \E i \in 1..Len(h.cells) : h.cells[i] = c
    <3>1. Written(r, tx[r])
      BY Local
    <3> QED
      BY <1>5, <1>6, <3>1 DEF Written
  <2>6. h.kind \in Kinds /\ step \in {"write", "commit"} /\ h.kind \in Writing /\ h.kind # "post"
    BY <1>5, <1>9 DEF Kinds, Writing, Saving
  <2>7. Stages(h)
    BY <1>5, <2>1, <2>3, <2>6 DEF Stages, Open, Saving
  <2>8. Written(r, h)
    BY <1>5, <2>1, <2>2, <2>4, <2>5, <2>6 DEF Written
  <2> QED
    BY <2>7, <2>8 DEF LocalOK
<1>12. Views(h)
  <2>1. h.shown = {}
    BY <1>1, <1>7, Local DEF Stages, Open
  <2> QED
    BY <1>1, <1>5, <1>7, <2>1, NothingShown
<1>13. Clears(r, h)
  <2>1. Clears(r, tx[r]) /\ (h.kind = "week" => tx[r].step = "clearing")
    BY <1>1, <1>5, Facts, Local DEF Stages
  <2> QED
    BY <1>2, <1>5, <1>6, <1>8, <2>1 DEF Clears
<1>14. tx[r].step # "done" /\ h.step # "done" /\ h.began <= clock /\ h.ended <= clock
  BY <1>1, <1>5, <1>8, Facts
<1> QED
  BY <1>1, <1>4, <1>11, <1>12, <1>13, <1>14, OneHandler DEF Harmless

LEMMA WriteRowStep ==
  ASSUME IInv, NEW r \in Requests, WriteRow(r)
  PROVE  IInv'
<1> DEFINE t == tx[r]
<1> DEFINE c == t.cells[t.at]
<1> DEFINE there == \/ t.wrote[c] # NoValue
                    \/ cell[c].id # NoValue /\ c \notin t.gone
<1> DEFINE id == IF t.wrote[c] # NoValue THEN t.wrote[c].id
                 ELSE IF there THEN cell[c].id ELSE r
<1> DEFINE row == [id |-> id, by |-> r]
<1> DEFINE wrote == [t.wrote EXCEPT ![c] = row]
<1> DEFINE step == Next1(t)
<1> DEFINE h == [t EXCEPT !.wrote = wrote, !.at = t.at + 1, !.step = step]
<1>1. t.step = "write" /\ t.step \in Open /\ t \in Handler
  BY Facts DEF WriteRow, AtStep, Open
<1>2. CASE Rollback(r)
  BY <1>1, <1>2, RollbackStep
<1>3. CASE ~Rollback(r)
  <2>1. Step(r, h)
    BY <1>1, <1>3 DEF WriteRow, OnError, Handler
  <2>2. /\ t.kind \in Saving /\ t.at \in 1..Len(t.cells) /\ t.cells \in Seq(Cells)
        /\ t.wrote \in [Cells -> Row \cup {NoValue}]
        /\ \A i \in 1..(t.at - 1) : t.wrote[t.cells[i]] # NoValue
    BY <1>1, Fields, Local DEF Stages, Written
  <2>3. c \in Cells /\ Len(t.cells) \in Nat /\ t.at \in Nat
    BY <2>2, ElementOfSeq, LenProperties
  <2>4. id \in Requests
    <3>1. t.wrote[c] # NoValue => t.wrote[c].id \in Requests
      BY <2>3, Local DEF Written
    <3>2. cell[c].id \in Requests \cup {NoValue}
      BY <2>3 DEF IInv, TypeOK, Row
    <3> QED
      BY <3>1, <3>2
  <2> HIDE DEF id
  <2>5. row \in Row /\ row # NoValue /\ row.by = r /\ row.id \in Requests
    BY <2>4, NoRowAssumption DEF Row
  <2> HIDE DEF row
  <2>6. /\ wrote \in [Cells -> Row \cup {NoValue}] /\ wrote[c] = row
        /\ \A d \in Cells \ {c} : wrote[d] = t.wrote[d]
    BY <2>2, <2>3, <2>5
  <2>7. /\ step \in {"write", "commit"} /\ step \in Open
        /\ step = "write" => t.at + 1 \in 1..Len(t.cells)
        /\ step = "commit" => t.at = Len(t.cells)
    BY <2>2, <2>3 DEF Next1, Open
  <2> HIDE DEF c, wrote, step
  <2>8. h \in Handler
    <3>1. t.at + 1 \in Nat
      BY <2>3
    <3> QED
      BY <1>1, <2>6, <2>7, <3>1, WroteHandler
  <2>9. h.step = step /\ h.kind = t.kind /\ h.cells = t.cells /\ h.at = t.at + 1
    BY <1>1 DEF Handler
  <2>10. h.wrote = wrote /\ h.gone = t.gone
    BY <1>1 DEF Handler
  <2>11. h.viewer = t.viewer /\ h.shown = t.shown /\ h.during = t.during
    BY <1>1 DEF Handler
  <2>12. h.began = t.began /\ h.ended = t.ended
    BY <1>1 DEF Handler
  <2> HIDE DEF h
  <2>13. \A i \in 1..t.at : wrote[t.cells[i]] # NoValue
    <3> SUFFICES ASSUME NEW i \in 1..t.at PROVE wrote[t.cells[i]] # NoValue
      OBVIOUS
    <3>1. t.cells[i] \in Cells
      BY <2>2, <2>3, ElementOfSeq
    <3>2. CASE i = t.at
      BY <2>5, <2>6, <3>2 DEF c
    <3>3. CASE i # t.at
      <4>1. i \in 1..(t.at - 1)
        BY <2>3, <3>3
      <4> QED
        BY <2>2, <2>5, <2>6, <3>1, <4>1
    <3> QED
      BY <3>2, <3>3
  <2>14. \A d \in Cells : wrote[d] # NoValue => wrote[d].by = r /\ wrote[d].id \in Requests
    BY <2>5, <2>6, Local DEF Written
  <2>15. t.kind = "week" => \A d \in Cells : wrote[d] # NoValue =>
                              \E i \in 1..Len(t.cells) : t.cells[i] = d
    BY <2>2, <2>6, Local DEF Written, c
  <2>16. LocalOK(r, h)
    <3>1. h.shown = {} /\ h.kind \in Kinds /\ h.kind \in Writing /\ h.kind # "post"
      BY <1>1, <2>2, <2>9, <2>11, Local DEF Stages, Open, Kinds, Writing, Saving
    <3>2. step = "write" => 1..(h.at - 1) = 1..t.at
      BY <2>3, <2>9
    <3>3. step = "write" => \A i \in 1..(h.at - 1) : h.wrote[h.cells[i]] # NoValue
      BY <2>9, <2>10, <2>13, <3>2
    <3>4. step = "commit" => \A i \in 1..Len(h.cells) : h.wrote[h.cells[i]] # NoValue
      BY <2>7, <2>9, <2>10, <2>13
    <3>5. Stages(h)
      BY <2>2, <2>7, <2>9, <3>1 DEF Stages, Open
    <3>6. Written(r, h)
      BY <2>2, <2>7, <2>9, <2>10, <2>14, <2>15, <3>1, <3>3, <3>4 DEF Written
    <3> QED
      BY <3>5, <3>6 DEF LocalOK
  <2>17. Views(h)
    <3>1. h.shown = {}
      BY <1>1, <2>11, Local DEF Stages, Open
    <3> QED
      BY <1>1, <2>7, <2>9, <2>11, <3>1, NothingShown
  <2>18. Clears(r, h)
    BY <1>1, <2>7, <2>9, <2>10, <2>12, Facts DEF Clears
  <2>19. t.step # "done" /\ h.step # "done" /\ h.began <= clock /\ h.ended <= clock
    BY <1>1, <2>7, <2>9, <2>12, Facts
  <2> QED
    BY <2>1, <2>8, <2>16, <2>17, <2>18, <2>19, OneHandler DEF Harmless
<1> QED
  BY <1>2, <1>3

LEMMA CheckMaterialStep ==
  ASSUME IInv, NEW r \in Requests, CheckMaterial(r)
  PROVE  IInv'
<1> DEFINE h == [tx[r] EXCEPT !.step = "commit"]
<1>1. tx[r].step = "check" /\ tx[r].step \in Open /\ "commit" \in Open
  BY DEF CheckMaterial, AtStep, Open
<1>2. CASE Rollback(r)
  BY <1>1, <1>2, RollbackStep
<1>3. CASE ~Rollback(r)
  <2>1. Step(r, h) /\ h = [tx[r] EXCEPT !.step = "commit"]
    BY <1>3 DEF CheckMaterial
  <2> HIDE DEF h
  <2>2. /\ h \in Handler /\ h.step = "commit" /\ h.kind = tx[r].kind /\ h.cells = tx[r].cells
        /\ h.wrote = tx[r].wrote /\ h.gone = tx[r].gone /\ h.viewer = tx[r].viewer
        /\ h.shown = tx[r].shown /\ h.during = tx[r].during /\ h.child = tx[r].child
        /\ h.began = tx[r].began /\ h.ended = tx[r].ended
    BY <1>1, <2>1, Facts, GotoFacts
  <2>3. /\ tx[r].kind = "take down" /\ tx[r].shown = {} /\ Untouched(tx[r])
    BY <1>1, Local DEF Stages, Written, Open, Writing, Saving
  <2>4. LocalOK(r, h)
    <3>1. Stages(h)
      BY <2>2, <2>3 DEF Stages, Saving, Kinds
    <3>2. Written(r, h)
      BY <2>2, <2>3 DEF Written, Untouched, Saving
    <3> QED
      BY <3>1, <3>2 DEF LocalOK
  <2>5. Views(h)
    BY <1>1, <2>2, <2>3, NothingShown
  <2>6. Clears(r, h)
    BY <2>2, <2>3 DEF Clears
  <2> QED
    BY <1>1, <2>1, <2>2, <2>4, <2>5, <2>6, Facts, OneHandler DEF Harmless
<1> QED
  BY <1>2, <1>3

-----------------------------------------------------------------------------
(* Statements that read *)

\* A step of a viewer's request that has shown nothing yet.
LEMMA Viewer ==
  ASSUME IInv, NEW r \in Requests, tx[r].step \in {"child", "section", "access", "list"}
  PROVE  /\ tx[r].step \in Open /\ tx[r].kind \in Viewing /\ tx[r].kind \in Kinds \ Writing
         /\ tx[r].viewer \in Viewers /\ tx[r].viewer # NoValue
         /\ tx[r].shown = {} /\ Untouched(tx[r]) /\ student \in tx[r].during
         /\ tx[r] \in Handler
<1>1. tx[r].step \in Open /\ tx[r].step \in Open \ {"commit"}
  BY DEF Open
<1>2. /\ tx[r].kind \in Viewing /\ tx[r].viewer \in Viewers /\ tx[r].shown = {}
  BY <1>1, Local DEF Stages
<1>3. tx[r].kind \in Kinds \ Writing /\ tx[r].viewer # NoValue
  BY <1>2, NoValueAssumption DEF Viewing, Listing, Kinds, Writing, Saving
<1>4. Untouched(tx[r])
  BY <1>1, <1>3, Local DEF Written
<1>5. student \in tx[r].during
  BY <1>1, <1>3, Facts DEF Views
<1> QED
  BY <1>1, <1>2, <1>3, <1>4, <1>5, Facts

\* It goes on to a step that reads, or to its end.
LEMMA ViewerGoesOn ==
  ASSUME IInv, NEW r \in Requests, tx[r].step \in {"child", "section", "access", "list"},
         NEW h \in Handler, Step(r, h), h.step \in {"section", "access", "list", "commit"},
         h.kind = tx[r].kind, h.viewer = tx[r].viewer, h.wrote = tx[r].wrote,
         h.gone = tx[r].gone, h.began = tx[r].began, h.ended = tx[r].ended,
         h.during = tx[r].during, h.step # "commit" => h.shown = {},
         h.step = "section" => h.kind \in Listing,
         h.step = "access" => h.kind = "records" /\ h.child \in Students,
         Views(h)
  PROVE  IInv'
<1>1. Stages(h)
  BY Viewer DEF Stages, Saving, Kinds, Viewing, Listing, Open
<1>2. Written(r, h)
  <2>1. Untouched(h) /\ h.kind \in Kinds \ Writing
    BY Viewer DEF Untouched
  <2> QED
    BY <2>1 DEF Written, Untouched, Writing, Saving
<1>3. Clears(r, h)
  BY Viewer DEF Clears, Viewing, Listing
<1>4. tx[r].step # "done" /\ h.step # "done" /\ h.began <= clock /\ h.ended <= clock
  BY Facts
<1> QED
  BY <1>1, <1>2, <1>3, <1>4, OneHandler DEF Harmless, LocalOK

LEMMA OwnStudentFacts ==
  ASSUME NEW v \in Viewers, OwnStudent(v) # NoValue
  PROVE  /\ OwnStudent(v) \in Students
         /\ IF v \in Pupils THEN OwnStudent(v) = OwnRecord[v]
            ELSE student[OwnStudent(v)].guardian = v
<1>1. CASE v \in Pupils
  BY <1>1, PeopleAssumption DEF OwnStudent
<1>2. CASE v \notin Pupils
  <2>1. Children(v) # {} /\ Children(v) \subseteq Nat /\ Children(v) \subseteq DOMAIN Roll
    BY <1>2, PeopleAssumption DEF OwnStudent, Children
  <2>2. \E i \in Children(v) : \A j \in Children(v) : i <= j
    <3>1. IsWellFoundedOn(OpToRel(<, Nat), Nat)
      BY NatLessThanWellFounded
    <3>2. \E i \in Children(v) : \A j \in Children(v) : <<j, i>> \notin OpToRel(<, Nat)
      BY <2>1, <3>1, WFMin
    <3>3. PICK i \in Children(v) : \A j \in Children(v) : <<j, i>> \notin OpToRel(<, Nat)
      BY <3>2
    <3>4. \A m, n \in Nat : m < n => <<m, n>> \in OpToRel(<, Nat)
      BY DEF OpToRel
    <3>5. \A j \in Children(v) : ~(j < i)
      BY <2>1, <3>3, <3>4
    <3>6. \A j \in Children(v) : i <= j
      BY <2>1, <3>5
    <3> QED
      BY <3>6
  <2> DEFINE i == CHOOSE n \in Children(v) : \A j \in Children(v) : n <= j
  <2>3. i \in Children(v) /\ OwnStudent(v) = Roll[i]
    BY <1>2, <2>1, <2>2 DEF OwnStudent
  <2> HIDE DEF i
  <2> QED
    BY <1>2, <2>3 DEF Children, Students
<1> QED
  BY <1>1, <1>2

LEMMA FindChildStep ==
  ASSUME IInv, NEW r \in Requests, FindChild(r)
  PROVE  IInv'
<1>1. tx[r].step = "child"
  BY DEF FindChild, AtStep
<1> DEFINE s == OwnStudent(tx[r].viewer)
<1>2. CASE s = NoValue
  <2> DEFINE h == [tx[r] EXCEPT !.step = "commit"]
  <2>1. Step(r, h) /\ h = [tx[r] EXCEPT !.step = "commit"]
    BY <1>2 DEF FindChild, NothingToShow
  <2> HIDE DEF h
  <2>2. /\ h \in Handler /\ h.step = "commit" /\ h.kind = tx[r].kind
        /\ h.wrote = tx[r].wrote /\ h.gone = tx[r].gone /\ h.viewer = tx[r].viewer
        /\ h.shown = tx[r].shown /\ h.during = tx[r].during
        /\ h.began = tx[r].began /\ h.ended = tx[r].ended
    BY <2>1, Facts, GotoFacts DEF Open
  <2>3. Views(h)
    BY <1>1, <2>2, Viewer, NothingShown
  <2> QED
    BY <1>1, <2>1, <2>2, <2>3, ViewerGoesOn
<1>3. CASE s # NoValue
  <2> DEFINE step == CASE tx[r].kind \in {"homework", "materials"} -> "section"
                       [] tx[r].kind = "records" -> "access"
                       [] tx[r].kind = "my dues" -> "list"
  <2> DEFINE h == [tx[r] EXCEPT !.child = s, !.step = step]
  <2>1. Step(r, h)
    BY <1>3 DEF FindChild
  <2>2. /\ s \in Students
        /\ IF tx[r].viewer \in Pupils THEN s = OwnRecord[tx[r].viewer]
           ELSE student[s].guardian = tx[r].viewer
    BY <1>1, <1>3, Viewer, OwnStudentFacts
  <2>3. /\ step \in {"section", "access", "list"} /\ step \in Open
        /\ step = "section" => tx[r].kind \in Listing
        /\ step = "access" => tx[r].kind = "records"
        /\ step = "list" => tx[r].kind = "my dues"
    BY <1>1, Local, Viewer DEF Stages, Viewing, Listing, Open
  <2> HIDE DEF s, step
  <2>4. h \in Handler
    BY <2>2, <2>3, Facts, ChildHandler
  <2>5. h.step = step /\ h.child = s /\ h.kind = tx[r].kind /\ h.viewer = tx[r].viewer
    BY Facts DEF Handler
  <2>6. h.wrote = tx[r].wrote /\ h.gone = tx[r].gone /\ h.shown = tx[r].shown
    BY Facts DEF Handler
  <2>7. h.during = tx[r].during /\ h.began = tx[r].began /\ h.ended = tx[r].ended
    BY Facts DEF Handler
  <2> HIDE DEF h
  <2>8. Theirs(h) /\ h.shown = {} /\ student \in h.during
    BY <1>1, <2>2, <2>5, <2>6, <2>7, Viewer DEF Theirs
  <2>9. Views(h)
    BY <2>3, <2>5, <2>8 DEF Views, Listing
  <2> QED
    BY <1>1, <2>1, <2>2, <2>3, <2>4, <2>5, <2>6, <2>7, <2>8, <2>9, ViewerGoesOn
<1> QED
  BY <1>2, <1>3

LEMMA FindSectionStep ==
  ASSUME IInv, NEW r \in Requests, FindSection(r)
  PROVE  IInv'
<1> DEFINE place == PlaceFor(tx[r].kind, student[tx[r].child].section)
<1> DEFINE h == [tx[r] EXCEPT !.place = place, !.step = "list"]
<1>1. tx[r].step = "section" /\ Step(r, h)
  BY DEF FindSection, AtStep
<1>2. Theirs(tx[r]) /\ student \in tx[r].during /\ tx[r].kind \in Listing
  BY <1>1, Facts, Local, Viewer DEF Views, Stages
<1>3. /\ place \in Places
      /\ PlaceFor(tx[r].kind, student[tx[r].child].section) = place
  <2>1. tx[r].child \in Students
    BY <1>2 DEF Theirs, Listing
  <2>2. student[tx[r].child].section \in Sections
    BY <2>1 DEF IInv, TypeOK, Record
  <2> QED
    BY <2>2, PlacesAssumption DEF PlaceFor, Places
<1> HIDE DEF place
<1>4. h \in Handler
  BY <1>3, Facts, PlaceHandler DEF Open
<1>5. /\ h.step = "list" /\ h.child = tx[r].child /\ h.kind = tx[r].kind
      /\ h.viewer = tx[r].viewer /\ h.place = place
  BY Facts DEF Handler
<1>6. h.wrote = tx[r].wrote /\ h.gone = tx[r].gone /\ h.shown = tx[r].shown
  BY Facts DEF Handler
<1>7. h.during = tx[r].during /\ h.began = tx[r].began /\ h.ended = tx[r].ended
  BY Facts DEF Handler
<1> HIDE DEF h
<1>8. Theirs(h) /\ h.shown = {} /\ student \in h.during
  BY <1>1, <1>2, <1>5, <1>6, <1>7, Viewer DEF Theirs
<1>9. Views(h)
  BY <1>3, <1>5, <1>8 DEF Views
<1> QED
  BY <1>1, <1>4, <1>5, <1>6, <1>7, <1>8, <1>9, ViewerGoesOn

LEMMA CheckAccessStep ==
  ASSUME IInv, NEW r \in Requests, CheckAccess(r)
  PROVE  IInv'
<1> DEFINE h == [tx[r] EXCEPT !.step = "list"]
<1>1. tx[r].step = "access" /\ tx[r].step \in Open
  BY DEF CheckAccess, AtStep, Open
<1>2. CASE Rollback(r)
  BY <1>1, <1>2, RollbackStep
<1>3. CASE ~Rollback(r)
  <2>1. /\ Step(r, h) /\ h = [tx[r] EXCEPT !.step = "list"]
        /\ HasAccess(tx[r].viewer, tx[r].child)
    BY <1>3 DEF CheckAccess
  <2> HIDE DEF h
  <2>2. /\ h \in Handler /\ h.step = "list" /\ h.kind = tx[r].kind
        /\ h.wrote = tx[r].wrote /\ h.gone = tx[r].gone /\ h.viewer = tx[r].viewer
        /\ h.shown = tx[r].shown /\ h.during = tx[r].during /\ h.child = tx[r].child
        /\ h.began = tx[r].began /\ h.ended = tx[r].ended
    BY <2>1, Facts, GotoFacts DEF Open
  <2>3. tx[r].child \in Students /\ tx[r].kind = "records"
    BY <1>1, Local DEF Stages
  <2>4. Theirs(h) /\ h.shown = {} /\ student \in h.during
    BY <1>1, <2>1, <2>2, <2>3, Viewer DEF Theirs, HasAccess
  <2>5. Views(h)
    BY <2>2, <2>3, <2>4 DEF Views, Listing
  <2> QED
    BY <1>1, <2>1, <2>2, <2>4, <2>5, ViewerGoesOn
<1> QED
  BY <1>2, <1>3

\* What is listed is of the section or class that was found, or the student's own; the
\* open lists hold no homework.
LEMMA ListStep ==
  ASSUME IInv, NEW r \in Requests, List(r)
  PROVE  IInv'
<1> DEFINE t == tx[r]
<1> DEFINE shown == CASE t.kind = "homework" -> HomeworkOf(t.place)
                      [] t.kind \in {"materials", "browse"} -> MaterialsOf(t.place)
                      [] t.kind \in {"records", "my dues"} -> {t.child}
<1> DEFINE h == [t EXCEPT !.step = "commit", !.shown = shown]
<1>1. t.step = "list" /\ Step(r, h)
  BY DEF List, AtStep
<1>2. /\ Theirs(t) /\ t.kind \in Viewing
      /\ t.kind \in Listing =>
            /\ t.place \in Places /\ t.place # NoValue
            /\ \E was \in t.during : PlaceFor(t.kind, was[t.child].section) = t.place
  BY <1>1, Facts, Viewer, NoValueAssumption DEF Views
<1>3. t.kind \in {"records", "my dues"} => shown = {t.child} /\ shown \subseteq Students
  BY <1>2 DEF Theirs
<1>4. t.kind \in Listing \cup {"browse"} => \A p \in shown :
         /\ p \in Requests /\ tx[p].step = "done"
         /\ t.kind \in Listing => post[p] = t.place
         /\ t.kind = "browse" => post[p] \notin Sections
  <2>1. CASE t.kind = "homework"
    <3>1. shown = HomeworkOf(t.place)
      BY <2>1
    <3>2. \A p \in shown : p \in Requests /\ post[p] # NoValue /\ post[p] = t.place
      BY <3>1, NoValueAssumption DEF HomeworkOf, Places
    <3> QED
      BY <2>1, <3>2 DEF IInv, PostsDone
  <2>2. CASE t.kind \in {"materials", "browse"}
    <3>1. shown = MaterialsOf(t.place)
      BY <2>2
    <3>2. \A p \in shown : p \in Requests /\ post[p] # NoValue /\ post[p] \notin Sections
      BY <3>1, NoValueAssumption, PlacesAssumption DEF MaterialsOf, Places
    <3>3. t.kind = "materials" => \A p \in shown : post[p] = t.place
      BY <1>2, <3>1 DEF MaterialsOf, Listing
    <3> QED
      BY <2>2, <3>2, <3>3 DEF IInv, PostsDone, Listing
  <2> QED
    BY <2>1, <2>2 DEF Listing
<1> HIDE DEF shown
<1>5. h \in Handler
  <2>1. shown \in SUBSET (Requests \cup Students)
    BY <1>2, <1>3, <1>4 DEF Viewing
  <2> QED
    BY <2>1, Facts, ShownHandler DEF Open
<1>6. /\ h.step = "commit" /\ h.child = t.child /\ h.kind = t.kind /\ h.viewer = t.viewer
      /\ h.shown = shown
  BY Facts DEF Handler
<1>7. h.wrote = t.wrote /\ h.gone = t.gone
  BY Facts DEF Handler
<1>8. h.during = t.during /\ h.began = t.began /\ h.ended = t.ended
  BY Facts DEF Handler
<1> HIDE DEF h
<1>9. Theirs(h) /\ student \in h.during
  BY <1>1, <1>2, <1>6, <1>8, Viewer DEF Theirs
<1>10. Shows(h)
  BY <1>2, <1>3, <1>4, <1>6, <1>8 DEF Shows, Viewing, Listing
<1>11. Views(h)
  BY <1>6, <1>9, <1>10 DEF Views
<1> QED
  BY <1>1, <1>5, <1>6, <1>7, <1>8, <1>11, ViewerGoesOn

-----------------------------------------------------------------------------
(* The commit *)

LEMMA EndedFacts ==
  ASSUME clock \in Nat, NEW t \in Handler, t.kind \in Kinds
  PROVE  /\ Ended(t) \in Handler /\ Ended(t).step = "done" /\ Ended(t).kind = t.kind
         /\ Untouched(Ended(t))
         /\ t.kind \in Writing => /\ Ended(t).cells = t.cells /\ Ended(t).shown = {}
                                  /\ Ended(t).began = t.began /\ Ended(t).ended = clock + 1
         /\ t.kind \notin Writing => Ended(t).began = 0 /\ Ended(t).ended = 0
         /\ Ended(t).shown # {} => /\ Ended(t).shown = t.shown
                                   /\ Ended(t).viewer = t.viewer /\ Ended(t).child = t.child
                                   /\ Ended(t).during = t.during
<1>1. Idle \in Handler
  BY IdleHandler
<1>2. CASE t.kind \in Writing
  <2> DEFINE e == [Idle EXCEPT !.step = "done", !.kind = t.kind, !.cells = t.cells,
                               !.began = t.began, !.ended = clock + 1]
  <2>1. Ended(t) = e
    BY <1>2 DEF Ended, Writing, Saving, Idle
  <2>2. e \in Handler
    <3>1. /\ t.cells \in Seq(Cells) /\ t.began \in Nat /\ clock + 1 \in Nat
      BY Fields
    <3> QED
      BY <1>1, <3>1, DoneHandler
  <2>3. /\ e.step = "done" /\ e.kind = t.kind /\ e.wrote = Idle.wrote /\ e.gone = Idle.gone
        /\ e.cells = t.cells /\ e.shown = {} /\ e.began = t.began /\ e.ended = clock + 1
    BY DEF Idle
  <2> HIDE DEF e
  <2>4. Untouched(e)
    BY <2>3, IdleHandler DEF Untouched
  <2> QED
    BY <1>2, <2>1, <2>2, <2>3, <2>4
<1>3. CASE t.kind \in Viewing /\ t.shown # {}
  <2> DEFINE e == [Idle EXCEPT !.step = "done", !.kind = t.kind, !.viewer = t.viewer,
                               !.child = t.child, !.shown = t.shown, !.during = t.during]
  <2>1. Ended(t) = e /\ t.kind \notin Writing
    BY <1>3 DEF Ended, Viewing, Listing, Writing, Saving, Idle
  <2>2. e \in Handler
    <3>1. /\ t.viewer \in Viewers \cup {NoValue} /\ t.child \in Students \cup {NoValue}
          /\ t.shown \in SUBSET (Requests \cup Students)
          /\ t.during \in SUBSET [Students -> Record]
      BY Fields
    <3> QED
      BY <1>1, <3>1, AnsweredHandler
  <2>3. /\ e.step = "done" /\ e.kind = t.kind /\ e.wrote = Idle.wrote /\ e.gone = Idle.gone
        /\ e.viewer = t.viewer /\ e.child = t.child /\ e.shown = t.shown
        /\ e.during = t.during /\ e.began = 0 /\ e.ended = 0
    BY DEF Idle
  <2> HIDE DEF e
  <2>4. Untouched(e)
    BY <2>3, IdleHandler DEF Untouched
  <2> QED
    BY <2>1, <2>2, <2>3, <2>4
<1>4. CASE t.kind \notin Writing /\ ~(t.kind \in Viewing /\ t.shown # {})
  <2> DEFINE e == [Idle EXCEPT !.step = "done", !.kind = t.kind]
  <2>1. Ended(t) = e
    BY <1>4 DEF Ended, Viewing, Listing, Writing, Saving
  <2>2. e \in Handler
    BY <1>1, EndedHandler
  <2>3. /\ e.step = "done" /\ e.kind = t.kind /\ e.wrote = Idle.wrote /\ e.gone = Idle.gone
        /\ e.shown = {} /\ e.began = 0 /\ e.ended = 0
    BY DEF Idle
  <2> HIDE DEF e
  <2>4. Untouched(e)
    BY <2>3, IdleHandler DEF Untouched
  <2> QED
    BY <1>4, <2>1, <2>2, <2>3, <2>4
<1> QED
  BY <1>2, <1>3, <1>4

LEMMA CommitStep ==
  ASSUME IInv, NEW r \in Requests, Commit(r)
  PROVE  IInv'
<1> DEFINE t == tx[r]
<1> DEFINE e == Ended(t)
<1>1. /\ t.step = "commit" /\ t \in Handler /\ clock \in Nat /\ clock' = clock + 1
      /\ student' = student /\ tx' = [tx EXCEPT ![r] = e] /\ r # NoValue
  BY Facts, NoValueAssumption DEF Commit, AtStep
<1>2. Stages(t) /\ Written(r, t) /\ Views(t) /\ Clears(r, t) /\ t.kind \in Kinds
  BY <1>1, Local, Facts DEF Stages, Open
<1>3. /\ e \in Handler /\ e.step = "done" /\ e.kind = t.kind /\ Untouched(e)
      /\ t.kind \in Writing => /\ e.cells = t.cells /\ e.shown = {}
                               /\ e.began = t.began /\ e.ended = clock + 1
      /\ t.kind \notin Writing => e.began = 0 /\ e.ended = 0
      /\ e.shown # {} => /\ e.shown = t.shown /\ e.viewer = t.viewer /\ e.child = t.child
                         /\ e.during = t.during
  BY <1>1, <1>2, EndedFacts
<1>4. /\ tx' \in [Requests -> Handler] /\ tx'[r] = e
      /\ \A q \in Requests \ {r} : tx'[q] = tx[q]
  BY <1>1, <1>3, Facts
<1> HIDE DEF e
<1>5. \A c \in Cells : cell'[c] = IF t.wrote[c] # NoValue THEN t.wrote[c]
                                  ELSE IF c \in t.gone THEN [id |-> NoValue, by |-> r]
                                  ELSE cell[c]
  BY DEF Commit
<1>6. \A c \in Cells : \/ cell'[c] = cell[c]
                       \/ cell'[c].by = r /\ t.kind \in Writing
  <2>1. t.kind \notin Writing => Untouched(t)
    BY <1>1, <1>2 DEF Written, Open
  <2> QED
    BY <1>2, <1>5, <2>1 DEF Written, Untouched
<1>7. \A q \in Requests : tx[q].step = "done" => q # r /\ tx'[q] = tx[q]
  BY <1>1, <1>4
<1>8. \A c \in Cells : cell[c].by # NoValue => /\ cell[c].by \in Requests
                                               /\ tx'[cell[c].by] = tx[cell[c].by]
  BY <1>7 DEF IInv, ByDone
<1>9. TypeOK'
  <2>1. cell' \in [Cells -> Row]
    <3>1. cell \in [Cells -> Row] /\ t.wrote \in [Cells -> Row \cup {NoValue}]
      BY <1>1, Fields DEF IInv, TypeOK
    <3>2. DOMAIN cell' = Cells /\ cell' = [c \in Cells |-> cell'[c]]
      BY DEF Commit
    <3>3. [id |-> NoValue, by |-> r] \in Row
      BY DEF Row
    <3>4. \A c \in Cells : cell'[c] \in Row
      BY <1>5, <3>1, <3>3
    <3> QED
      BY <3>2, <3>4
  <2>2. post' \in [Requests -> Places \cup {NoValue}]
    <3>1. t.kind = "post" => t.place \in Places
      BY <1>1, <1>2 DEF Stages
    <3> QED
      BY <3>1 DEF Commit, IInv, TypeOK
  <2> QED
    BY <1>1, <1>4, <2>1, <2>2 DEF IInv, TypeOK
<1>10. LocalOK(r, e)
  <2>1. Stages(e)
    BY <1>3 DEF Stages, Open
  <2>2. Written(r, e)
    BY <1>3 DEF Written, Untouched
  <2> QED
    BY <2>1, <2>2 DEF LocalOK
<1>11. \A q \in Requests : LocalOK(q, tx'[q])
  BY <1>4, <1>10 DEF IInv
<1>12. \A p \in Requests : tx[p].step = "done" => post'[p] \in {post[p], NoValue}
  BY <1>7 DEF Commit, IInv, TypeOK
<1>13. ASSUME NEW q \in Requests PROVE Views(tx[q])'
  <2>1. Views(tx'[q])
    <3>1. e.shown # {} => Theirs(t) /\ Shows(t)
      BY <1>2, <1>3 DEF Views
    <3>2. e.shown # {} => Theirs(e) /\ Shows(e)
      BY <1>3, <3>1 DEF Theirs, Shows
    <3>3. Views(e)
      BY <1>3, <3>2 DEF Views, Open
    <3> QED
      BY <1>4, <3>3 DEF IInv
  <2>2. Shows(tx'[q]) => Shows(tx[q])'
    BY <1>7, <1>12, NoValueAssumption DEF Shows, Places
  <2> QED
    BY <1>1, <2>1, <2>2 DEF Views, Theirs
<1>14. ASSUME NEW c \in Cells, NEW q \in Requests, NEW began, Since(c, q, began),
              cell'[c] = cell[c]
       PROVE  cell'[c].by \notin {q, NoValue} /\ tx'[cell'[c].by].ended > began
  BY <1>8, <1>14 DEF Since
<1>15. ASSUME NEW c \in Cells, NEW q \in Requests, q # r, cell'[c] # cell[c],
              NEW began \in Nat, began <= clock
       PROVE  cell'[c].by \notin {q, NoValue} /\ tx'[cell'[c].by].ended > began
  BY <1>1, <1>3, <1>4, <1>6, <1>15
<1>16. \A c \in Periods : c \in Cells
  BY DEF Cells
<1>17. ASSUME NEW q \in Requests PROVE Clears(q, tx[q])'
  <2>1. CASE q = r
    BY <1>3, <1>4, <2>1 DEF Clears
  <2>2. CASE q # r
    <3>1. /\ tx'[q] = tx[q] /\ Clears(q, tx[q]) /\ tx[q].began \in Nat
          /\ tx[q].began <= clock
      BY <1>4, <2>2, Facts
    <3>2. ASSUME NEW c \in Periods, cell'[c] # cell[c]
          PROVE  cell'[c].by \notin {q, NoValue} /\ tx'[cell'[c].by].ended > tx[q].began
      BY <1>15, <1>16, <2>2, <3>1, <3>2
    <3>3. ASSUME tx[q].step = "clearing", NEW c \in Periods, cell'[c].id # NoValue
          PROVE  <<c, cell'[c].id>> \in tx[q].found \/ Since(c, q, tx[q].began)'
      <4>1. CASE cell'[c] # cell[c]
        BY <3>1, <3>2, <4>1 DEF Since
      <4>2. CASE cell'[c] = cell[c]
        <5>1. <<c, cell[c].id>> \in tx[q].found \/ Since(c, q, tx[q].began)
          BY <3>1, <3>3, <4>2 DEF Clears
        <5> QED
          BY <1>14, <1>16, <3>1, <4>2, <5>1 DEF Since
      <4> QED
        BY <4>1, <4>2
    <3>4. ASSUME tx[q].step \in {"write", "commit"}, tx[q].kind = "week",
                 NEW c \in Periods, cell'[c].id # NoValue
          PROVE  c \in tx[q].gone \/ Since(c, q, tx[q].began)'
      <4>1. CASE cell'[c] # cell[c]
        BY <3>1, <3>2, <4>1 DEF Since
      <4>2. CASE cell'[c] = cell[c]
        <5>1. c \in tx[q].gone \/ Since(c, q, tx[q].began)
          BY <3>1, <3>4, <4>2 DEF Clears
        <5> QED
          BY <1>14, <1>16, <3>1, <4>2, <5>1 DEF Since
      <4> QED
        BY <4>1, <4>2
    <3> QED
      BY <3>1, <3>3, <3>4 DEF Clears
  <2> QED
    BY <2>1, <2>2
<1>18. ASSUME NEW q \in Requests, tx'[q].step = "done", tx'[q].kind = "week",
              NEW c \in Periods
       PROVE  \/ /\ cell'[c].id # NoValue /\ cell'[c].by = q
                 /\ \E i \in 1..Len(tx'[q].cells) : tx'[q].cells[i] = c
              \/ cell'[c].id = NoValue /\ \A i \in 1..Len(tx'[q].cells) : tx'[q].cells[i] # c
              \/ Since(c, q, tx[q].began)'
  <2>1. CASE q = r
    <3>1. /\ t.kind = "week" /\ tx'[q].cells = t.cells /\ tx'[q].began = t.began
          /\ t.kind \in Saving
      BY <1>3, <1>4, <1>18, <2>1 DEF Writing, Saving
    <3>2. CASE t.wrote[c] # NoValue
      <4>1. cell'[c] = t.wrote[c] /\ t.wrote[c].by = r /\ t.wrote[c].id \in Requests
        BY <1>2, <1>5, <1>16, <3>2 DEF Written
      <4>2. \E i \in 1..Len(t.cells) : t.cells[i] = c
        BY <1>2, <1>16, <3>1, <3>2 DEF Written
      <4> QED
        BY <2>1, <3>1, <4>1, <4>2, NoValueAssumption
    <3>3. CASE t.wrote[c] = NoValue
      <4>1. \A i \in 1..Len(t.cells) : t.cells[i] # c
        BY <1>1, <1>2, <3>1, <3>3 DEF Written
      <4>2. CASE c \in t.gone
        BY <1>5, <1>16, <3>1, <3>3, <4>1, <4>2
      <4>3. CASE c \notin t.gone
        <5>1. cell'[c] = cell[c]
          BY <1>5, <1>16, <3>3, <4>3
        <5>2. cell[c].id = NoValue \/ Since(c, r, t.began)
          BY <1>1, <1>2, <3>1, <4>3 DEF Clears
        <5>3. Since(c, r, t.began) => Since(c, q, tx[q].began)'
          BY <1>14, <1>16, <2>1, <3>1, <5>1 DEF Since
        <5> QED
          BY <3>1, <4>1, <5>1, <5>2, <5>3
      <4> QED
        BY <4>2, <4>3
    <3> QED
      BY <3>2, <3>3
  <2>2. CASE q # r
    <3>1. /\ tx'[q] = tx[q] /\ Replaced(q, tx[q]) /\ tx[q].began \in Nat
          /\ tx[q].began <= clock
      BY <1>4, <2>2, Facts
    <3>2. CASE cell'[c] # cell[c]
      BY <1>15, <1>16, <2>2, <3>1, <3>2 DEF Since
    <3>3. CASE cell'[c] = cell[c]
      <4>1. \/ cell[c].id # NoValue /\ cell[c].by = q /\ \E i \in 1..Len(tx[q].cells) : tx[q].cells[i] = c
            \/ cell[c].id = NoValue /\ \A i \in 1..Len(tx[q].cells) : tx[q].cells[i] # c
            \/ Since(c, q, tx[q].began)
        BY <1>18, <3>1 DEF Replaced
      <4>2. Since(c, q, tx[q].began) => Since(c, q, tx[q].began)'
        BY <1>14, <1>16, <3>1, <3>3 DEF Since
      <4> QED
        BY <3>1, <3>3, <4>1, <4>2
    <3> QED
      BY <3>2, <3>3
  <2> QED
    BY <2>1, <2>2
<1>19. \A q \in Requests : Replaced(q, tx[q])'
  BY <1>18 DEF Replaced
<1>20. ASSUME NEW q \in Requests, tx'[q].step = "done", tx'[q].kind = "marks",
              NEW i \in 1..Len(tx'[q].cells)
       PROVE  /\ cell'[tx'[q].cells[i]].by # NoValue
              /\ tx'[cell'[tx'[q].cells[i]].by].ended >= tx'[q].ended
  <2>1. CASE q = r
    <3>1. t.kind \in Saving /\ t.kind \in Writing /\ tx'[q].cells = t.cells /\ t.cells \in Seq(Cells)
      BY <1>1, <1>3, <1>4, <1>20, <2>1, Fields DEF Writing, Saving
    <3>2. t.cells[i] \in Cells /\ t.wrote[t.cells[i]] # NoValue
      BY <1>1, <1>2, <1>20, <3>1, ElementOfSeq DEF Written
    <3>3. cell'[t.cells[i]].by = r
      BY <1>2, <1>5, <3>2 DEF Written
    <3> QED
      BY <1>1, <1>3, <1>4, <2>1, <3>1, <3>3
  <2>2. CASE q # r
    <3>1. /\ tx'[q] = tx[q] /\ Latest(tx[q]) /\ tx[q].ended \in Nat /\ tx[q].ended <= clock
          /\ tx[q].cells \in Seq(Cells)
      BY <1>4, <2>2, Facts, Fields
    <3> DEFINE c == tx[q].cells[i]
    <3>2. c \in Cells /\ cell[c].by # NoValue /\ tx[cell[c].by].ended >= tx[q].ended
      BY <1>20, <3>1, ElementOfSeq DEF Latest
    <3> HIDE DEF c
    <3>3. CASE cell'[c] # cell[c]
      <4>1. cell'[c].by = r /\ tx'[r].ended = clock + 1
        BY <1>3, <1>4, <1>6, <3>2, <3>3
      <4>2. clock + 1 >= tx[q].ended
        BY <1>1, <3>1
      <4> QED
        BY <1>1, <3>1, <4>1, <4>2 DEF c
    <3>4. CASE cell'[c] = cell[c]
      <4>1. tx'[cell[c].by] = tx[cell[c].by]
        BY <1>8, <3>2
      <4> QED
        BY <3>1, <3>2, <3>4, <4>1 DEF c
    <3> QED
      BY <3>3, <3>4
  <2> QED
    BY <2>1, <2>2
<1>21. \A q \in Requests : Latest(tx[q])'
  BY <1>20 DEF Latest
<1>22. \A q \in Requests : tx'[q].began <= clock' /\ tx'[q].ended <= clock'
  <2>1. e.began <= clock + 1 /\ e.ended <= clock + 1
    <3>1. t.began <= clock /\ t.began \in Nat
      BY Facts
    <3> QED
      BY <1>1, <1>3, <3>1
  <2>2. \A q \in Requests : /\ tx[q].began <= clock + 1 /\ tx[q].ended <= clock + 1
    <3> SUFFICES ASSUME NEW q \in Requests
                 PROVE  tx[q].began <= clock + 1 /\ tx[q].ended <= clock + 1
      OBVIOUS
    <3>1. /\ tx[q].began <= clock /\ tx[q].ended <= clock /\ tx[q].began \in Nat
          /\ tx[q].ended \in Nat
      BY Facts
    <3> QED
      BY <1>1, <3>1
  <2> QED
    BY <1>1, <1>4, <2>1, <2>2
<1>23. ByDone'
  <2> SUFFICES ASSUME NEW c \in Cells, cell'[c].by # NoValue
               PROVE  /\ cell'[c].by \in Requests /\ tx'[cell'[c].by].step = "done"
                      /\ tx'[cell'[c].by].kind \in Writing
    BY DEF ByDone
  <2>1. CASE cell'[c].by = r /\ t.kind \in Writing
    BY <1>3, <1>4, <2>1
  <2>2. CASE cell'[c] = cell[c]
    BY <1>8, <2>2 DEF IInv, ByDone
  <2> QED
    BY <1>6, <2>1, <2>2
<1>24. Distinct'
  <2> SUFFICES ASSUME NEW p \in Requests, NEW q \in Requests,
                      tx'[p].step = "done", tx'[p].kind \in Writing,
                      tx'[q].step = "done", tx'[q].kind \in Writing,
                      tx'[p].ended = tx'[q].ended
               PROVE  p = q
    BY DEF Distinct
  <2>1. t.kind \in Writing => \A s \in Requests : tx[s].ended # e.ended
    <3> SUFFICES ASSUME t.kind \in Writing, NEW s \in Requests PROVE tx[s].ended # e.ended
      OBVIOUS
    <3>1. e.ended = clock + 1 /\ tx[s].ended <= clock /\ tx[s].ended \in Nat
      BY <1>3, Facts
    <3> QED
      BY <1>1, <3>1
  <2> QED
    BY <1>3, <1>4, <2>1 DEF IInv, Distinct
<1>25. PostsDone'
  <2>1. \A p \in Requests \ {r} : post'[p] \in {post[p], NoValue}
    BY DEF Commit, IInv, TypeOK
  <2> QED
    BY <1>3, <1>4, <1>7, <2>1 DEF IInv, PostsDone
<1>26. \A q \in Requests : LocalOK(q, tx[q])'
  BY <1>11 DEF LocalOK, Stages, Written, Untouched
<1> QED
  BY <1>9, <1>13, <1>17, <1>19, <1>21, <1>22, <1>23, <1>24, <1>25, <1>26 DEF IInv

-----------------------------------------------------------------------------
(* The other steps *)

\* A change of a student is a state of the records that who is served may see.
LEMMA ChangeStudentStep ==
  ASSUME IInv, NEW s \in Students, NEW record \in Records, ChangeStudent(s, record)
  PROVE  IInv'
<1>1. cell' = cell /\ post' = post /\ clock' = clock
  BY DEF ChangeStudent
<1>2. student' \in [Students -> Record] /\ student' = [student EXCEPT ![s] = record]
  BY PeopleAssumption DEF ChangeStudent, IInv, TypeOK
<1>3. ASSUME NEW q \in Requests
      PROVE  /\ tx'[q] \in Handler /\ tx'[q].step = tx[q].step /\ tx'[q].kind = tx[q].kind
             /\ tx'[q].cells = tx[q].cells /\ tx'[q].at = tx[q].at
             /\ tx'[q].found = tx[q].found /\ tx'[q].wrote = tx[q].wrote
             /\ tx'[q].gone = tx[q].gone /\ tx'[q].place = tx[q].place
             /\ tx'[q].viewer = tx[q].viewer /\ tx'[q].child = tx[q].child
             /\ tx'[q].shown = tx[q].shown /\ tx[q].during \subseteq tx'[q].during
             /\ tx'[q].began = tx[q].began /\ tx'[q].ended = tx[q].ended
             /\ tx[q].step \in Open /\ tx[q].viewer # NoValue => student' \in tx'[q].during
  <2>1. CASE tx[q].step \in Open /\ tx[q].viewer # NoValue
    <3> DEFINE during == tx[q].during \cup {student'}
    <3> DEFINE h == [tx[q] EXCEPT !.during = during]
    <3>1. tx'[q] = [tx[q] EXCEPT !.during = @ \cup {[student EXCEPT ![s] = record]}]
      BY <2>1 DEF ChangeStudent
    <3>2. tx'[q] = h /\ tx[q] \in Handler
      BY <1>2, <3>1, Facts
    <3>3. /\ during \in SUBSET [Students -> Record] /\ tx[q].during \subseteq during
          /\ student' \in during
      BY <1>2, <3>2, Fields
    <3> HIDE DEF during
    <3>4. h \in Handler
      BY <3>2, <3>3 DEF Handler
    <3>5. /\ h.step = tx[q].step /\ h.kind = tx[q].kind /\ h.cells = tx[q].cells
          /\ h.at = tx[q].at /\ h.found = tx[q].found /\ h.wrote = tx[q].wrote
      BY <3>2 DEF Handler
    <3>6. /\ h.gone = tx[q].gone /\ h.place = tx[q].place /\ h.viewer = tx[q].viewer
          /\ h.child = tx[q].child /\ h.shown = tx[q].shown
      BY <3>2 DEF Handler
    <3>7. h.began = tx[q].began /\ h.ended = tx[q].ended /\ h.during = during
      BY <3>2 DEF Handler
    <3> HIDE DEF h
    <3> QED
      BY <3>2, <3>3, <3>4, <3>5, <3>6, <3>7
  <2>2. CASE ~(tx[q].step \in Open /\ tx[q].viewer # NoValue)
    <3>1. tx'[q] = tx[q]
      BY <2>2 DEF ChangeStudent
    <3> QED
      BY <2>2, <3>1, Facts
  <2> QED
    BY <2>1, <2>2
<1>4. TypeOK'
  <2>1. tx' \in [Requests -> Handler]
    <3>1. tx' = [q \in Requests |-> tx'[q]]
      BY DEF ChangeStudent
    <3> QED
      BY <1>3, <3>1
  <2> QED
    BY <1>1, <1>2, <2>1 DEF IInv, TypeOK
<1>5. ASSUME NEW q \in Requests PROVE LocalOK(q, tx[q])'
  <2>1. Stages(tx[q])'
    <3>1. Stages(tx[q])
      BY Local
    <3>2. /\ tx'[q].step = tx[q].step /\ tx'[q].kind = tx[q].kind /\ tx'[q].at = tx[q].at
          /\ tx'[q].cells = tx[q].cells /\ tx'[q].viewer = tx[q].viewer
          /\ tx'[q].child = tx[q].child /\ tx'[q].shown = tx[q].shown
          /\ tx'[q].place = tx[q].place
      BY <1>3
    <3> QED
      BY <3>1, <3>2 DEF Stages
  <2>2. Written(q, tx[q])'
    <3>1. Written(q, tx[q])
      BY Local
    <3>2. /\ tx'[q].step = tx[q].step /\ tx'[q].kind = tx[q].kind /\ tx'[q].at = tx[q].at
          /\ tx'[q].cells = tx[q].cells /\ tx'[q].wrote = tx[q].wrote
          /\ tx'[q].gone = tx[q].gone
      BY <1>3
    <3> QED
      BY <3>1, <3>2 DEF Written, Untouched
  <2> QED
    BY <2>1, <2>2 DEF LocalOK
<1>6. ASSUME NEW q \in Requests PROVE Views(tx[q])'
  <2>1. Views(tx[q])
    BY Facts
  <2>2. Theirs(tx[q]) => Theirs(tx[q])'
    BY <1>3 DEF Theirs
  <2>3. Shows(tx[q]) => Shows(tx[q])'
    <3>1. \A p \in tx[q].shown : p \in Requests => tx'[p].step = tx[p].step
      BY <1>3
    <3> QED
      BY <1>1, <1>3, <3>1 DEF Shows
  <2> QED
    BY <1>3, <2>1, <2>2, <2>3 DEF Views
<1>7. ASSUME NEW c \in Cells, cell[c].by # NoValue
      PROVE  cell[c].by \in Requests /\ tx'[cell[c].by].ended = tx[cell[c].by].ended
  BY <1>3, <1>7 DEF IInv, ByDone
<1>8. ASSUME NEW q \in Requests PROVE Clears(q, tx[q])'
  <2>1. Clears(q, tx[q])
    BY Facts
  <2> QED
    BY <1>1, <1>3, <1>7, <2>1 DEF Clears, Since, Cells
<1>9. ASSUME NEW q \in Requests PROVE Replaced(q, tx[q])'
  <2>1. Replaced(q, tx[q])
    BY Facts
  <2> QED
    BY <1>1, <1>3, <1>7, <2>1 DEF Replaced, Since, Cells
<1>10. ASSUME NEW q \in Requests PROVE Latest(tx[q])'
  <2>1. Latest(tx[q]) /\ tx[q].cells \in Seq(Cells)
    BY Facts, Fields
  <2>2. \A i \in 1..Len(tx[q].cells) : tx[q].cells[i] \in Cells
    BY <2>1, ElementOfSeq
  <2> QED
    BY <1>1, <1>3, <1>7, <2>1, <2>2 DEF Latest
<1>11. \A q \in Requests : tx'[q].began <= clock' /\ tx'[q].ended <= clock'
  BY <1>1, <1>3, Facts
<1>12. ByDone'
  BY <1>1, <1>3 DEF IInv, ByDone
<1>13. Distinct'
  BY <1>3 DEF IInv, Distinct
<1>14. PostsDone'
  BY <1>1, <1>3 DEF IInv, PostsDone
<1> QED
  BY <1>4, <1>5, <1>6, <1>8, <1>9, <1>10, <1>11, <1>12, <1>13, <1>14 DEF IInv

LEMMA InitIInv == Init => IInv
<1> SUFFICES ASSUME Init PROVE IInv
  OBVIOUS
<1>1. /\ Idle \in Handler /\ \A q \in Requests : tx[q] = Idle
      /\ \A q \in Requests : tx[q].step = "idle"
  BY IdleHandler DEF Init
<1>2. TypeOK
  BY <1>1, PeopleAssumption DEF Init, TypeOK, Empty, Row
<1>3. \A q \in Requests : LocalOK(q, Idle)
  BY IdleHandler DEF LocalOK, Stages, Written, Untouched, Open
<1>4. Views(Idle)
  BY IdleHandler DEF Views, Open
<1>5. \A q \in Requests : Clears(q, Idle) /\ Replaced(q, Idle)
  BY IdleHandler DEF Clears, Replaced
<1>6. Latest(Idle) /\ clock = 0 /\ Idle.began <= clock /\ Idle.ended <= clock
  BY IdleHandler DEF Latest, Init
<1>7. ByDone
  BY DEF Init, Empty, ByDone
<1>8. Distinct
  BY <1>1 DEF Distinct
<1>9. PostsDone
  BY DEF Init, PostsDone
<1> QED
  BY <1>1, <1>2, <1>3, <1>4, <1>5, <1>6, <1>7, <1>8, <1>9 DEF IInv

LEMMA NextIInv == IInv /\ [Next]_vars => IInv'
<1> SUFFICES ASSUME IInv, [Next]_vars PROVE IInv'
  OBVIOUS
<1>1. ASSUME NEW r \in Requests, Serve(r) PROVE IInv'
  <2>1. CASE BreakDeadlock(r)
    <3>1. tx[r].step \in Open /\ Rollback(r)
      BY <2>1 DEF BreakDeadlock, OnError
    <3> QED
      BY <3>1, RollbackStep
  <2> QED
    BY <1>1, <2>1, FindRowsStep, DeleteRowsStep, WriteRowStep, CheckMaterialStep,
       FindChildStep, FindSectionStep, CheckAccessStep, ListStep, CommitStep DEF Serve
<1>2. ASSUME NEW r \in Requests, Arrive(r) PROVE IInv'
  BY <1>2, ArriveStep
<1>3. ASSUME NEW r \in Requests, Fail(r) PROVE IInv'
  BY <1>3, RollbackStep DEF Fail
<1>4. ASSUME NEW s \in Students, NEW record \in Records, ChangeStudent(s, record)
      PROVE  IInv'
  BY <1>4, ChangeStudentStep
<1>5. CASE UNCHANGED vars
  <2>1. /\ cell' = cell /\ post' = post /\ student' = student /\ clock' = clock /\ tx' = tx
    BY <1>5 DEF vars, tables
  <2>2. TypeOK'
    BY <2>1 DEF IInv, TypeOK
  <2>3. ASSUME NEW r \in Requests PROVE LocalOK(r, tx[r])'
    <3>1. Stages(tx[r]) /\ Written(r, tx[r])
      BY Local
    <3>2. Stages(tx[r])' /\ Written(r, tx[r])'
      BY <2>1, <3>1 DEF Stages, Written, Untouched
    <3> QED
      BY <3>2 DEF LocalOK
  <2>4. ASSUME NEW r \in Requests PROVE Views(tx[r])'
    <3>1. Views(tx[r])
      BY Facts
    <3>2. (Theirs(tx[r]) => Theirs(tx[r])') /\ (Shows(tx[r]) => Shows(tx[r])')
      BY <2>1 DEF Theirs, Shows
    <3> QED
      BY <2>1, <3>1, <3>2 DEF Views
  <2>5. \A r \in Requests : Clears(r, tx[r])' /\ Replaced(r, tx[r])'
    BY <2>1 DEF IInv, Clears, Replaced, Since
  <2>6. \A r \in Requests : Latest(tx[r])' /\ (tx[r].began <= clock /\ tx[r].ended <= clock)'
    BY <2>1 DEF IInv, Latest
  <2>7. ByDone' /\ Distinct' /\ PostsDone'
    BY <2>1 DEF IInv, ByDone, Distinct, PostsDone
  <2> QED
    BY <2>2, <2>3, <2>4, <2>5, <2>6, <2>7 DEF IInv
<1> QED
  BY <1>1, <1>2, <1>3, <1>4, <1>5 DEF Next

LEMMA AlwaysIInv == Spec => []IInv
BY InitIInv, NextIInv, PTL DEF Spec

-----------------------------------------------------------------------------

\* Tables and handlers hold values of their types.
THEOREM TypesKept == Spec => []TypeOK
<1>1. IInv => TypeOK
  BY DEF IInv
<1> QED
  BY <1>1, AlwaysIInv, PTL

\* bulkSetTimetable replaces the whole week, whatever is written meanwhile.
THEOREM WeeksAreReplaced == Spec => []WeekIsReplaced
<1>1. IInv => WeekIsReplaced
  <2> SUFFICES ASSUME IInv, NEW r \in Requests, tx[r].step = "done", tx[r].kind = "week",
                      NEW c \in Periods
               PROVE  \/ cell[c].id # NoValue /\ cell[c].by = r /\ c \in Saved(r)
                      \/ cell[c].id = NoValue /\ c \notin Saved(r)
                      \/ /\ cell[c].by \notin {r, NoValue}
                         /\ tx[cell[c].by].ended > tx[r].began
    BY DEF WeekIsReplaced
  <2>1. Replaced(r, tx[r]) /\ DOMAIN tx[r].cells = 1..Len(tx[r].cells)
    BY Facts, Fields, LenProperties
  <2> QED
    BY <2>1 DEF Replaced, Since, Saved
<1> QED
  BY <1>1, AlwaysIInv, PTL

\* Of the marks that two sheets share, all that are of one of them are of the last.
THEOREM SheetsStayApart == Spec => []SheetsDoNotMix
<1>1. IInv => SheetsDoNotMix
  <2> SUFFICES ASSUME IInv, NEW p \in Requests, NEW q \in Requests,
                      tx[p].step = "done", tx[p].kind = "marks",
                      tx[q].step = "done", tx[q].kind = "marks", p # q,
                      NEW c \in Saved(p) \cap Saved(q), NEW d \in Saved(p) \cap Saved(q),
                      cell[c].by = p, cell[d].by = q
               PROVE  FALSE
    BY DEF SheetsDoNotMix
  <2>1. /\ DOMAIN tx[p].cells = 1..Len(tx[p].cells)
        /\ DOMAIN tx[q].cells = 1..Len(tx[q].cells)
    BY Facts, Fields, LenProperties
  <2>2. tx[p].ended >= tx[q].ended
    <3>1. PICK i \in 1..Len(tx[q].cells) : c = tx[q].cells[i]
      BY <2>1 DEF Saved
    <3> QED
      BY <3>1, Facts DEF Latest
  <2>3. tx[q].ended >= tx[p].ended
    <3>1. PICK i \in 1..Len(tx[p].cells) : d = tx[p].cells[i]
      BY <2>1 DEF Saved
    <3> QED
      BY <3>1, Facts DEF Latest
  <2>4. tx[p].ended = tx[q].ended
    BY <2>2, <2>3, Facts
  <2> QED
    BY <2>4 DEF IInv, Distinct, Writing, Saving
<1> QED
  BY <1>1, AlwaysIInv, PTL

\* A parent or pupil is shown the records, and by the /my lists the homework, materials
\* and syllabus, that were of his own student while his request ran; by the lists that
\* are open to everyone he is shown no homework.
THEOREM ViewersAreShownTheirs == Spec => []ViewersSeeTheirs
<1>1. IInv => ViewersSeeTheirs
  <2> SUFFICES ASSUME IInv, NEW r \in Requests, tx[r].shown # {}
               PROVE  /\ Theirs(tx[r]) /\ Shows(tx[r]) /\ NoValue \notin Students
    BY DEF ViewersSeeTheirs, Theirs, Shows, Listing
  <2> QED
    BY Facts, NoValueAssumption DEF Views
<1> QED
  BY <1>1, AlwaysIInv, PTL

=============================================================================
