-------------------------- MODULE AdmissionsProofs --------------------------
(****************************************************************************)
(* Lines are admitted whole or not at all (Admissions), for any tables, any  *)
(* number of requests, phones, numbers and connections.  A row nobody has    *)
(* committed belongs to a line accepted so far or to the line at hand, whose *)
(* savepoint takes it back (Inserts), or is the new version of a row on      *)
(* record (Updates); no two requests hold rows of one number (Exclusive).    *)
(* Then the preview is honest: what a request beside which nothing ran has   *)
(* answered so far is what the committed rows foretell (Foresight).          *)
(****************************************************************************)
EXTENDS Admissions, FiniteSetTheorems, TLAPS

\* The step of a line whose student is inserted and whose guardian is not yet set.
Amid == {"parent", "account", "link"}

\* The lines a request will have admitted once it commits.
Here(r, t) ==
    IF t.kind \in {"create", "import"}
    THEN {<<r, i>> : i \in {j \in DOMAIN t.outcome : t.outcome[j] = "ok"}}
    ELSE {}

Now(r, t) == IF t.step \in Amid THEN {<<r, t.at>>} ELSE {}

\* The lines on record.
All == UNION {Admitted(r) : r \in Requests}

\* What a handler's locals hold at each step.
Shape(t) ==
    /\ t.step \in Steps =>
          /\ t.kind # "none" /\ t.at \in 1..Len(t.lines) /\ Len(t.lines) <= MaxLines
          /\ t.kind \in {"create", "update"} => Len(t.lines) = 1
          /\ Len(t.outcome) = IF t.step = "commit" THEN t.at ELSE t.at - 1
          /\ t.step = "details" => t.kind = "update"
          /\ t.step = "student" => t.kind # "update" /\ t.number \in Numbers
    /\ t.step = "done" => Len(t.outcome) <= MaxLines
    /\ t.step \notin Steps => /\ \A n \in Numbers : t.wrote[n] = NoValue
                              /\ \A p \in Phones : t.took[p] = NoValue

Inserts(r, t, A) ==
    t.step \in Steps /\ t.kind # "update" =>
    /\ \A n \in Numbers : t.wrote[n] # NoValue =>
          /\ student[n] = NoValue
          /\ t.wrote[n].slot \in Here(r, t) \cup Now(r, t)
          /\ t.wrote[n].slot \in Here(r, t) => t.wrote[n].guardian \in A \cup Here(r, t)
    /\ \A n, m \in Numbers : t.wrote[n] # NoValue /\ t.wrote[m] # NoValue
                             /\ t.wrote[n].slot = t.wrote[m].slot => n = m
    /\ \A s \in Here(r, t) : \E n \in Numbers : t.wrote[n] # NoValue /\ t.wrote[n].slot = s
    /\ \A p \in Phones : t.took[p] \in Here(r, t) \cup Now(r, t) \cup {NoValue}
    /\ t.step \in Amid => /\ t.number \in Numbers /\ t.wrote[t.number] # NoValue
                          /\ t.wrote[t.number].slot = <<r, t.at>>
    /\ t.step = "account" => t.found \in A \cup Here(r, t) \cup Now(r, t) \cup {NoValue}
    /\ t.step = "link" => t.found \in A \cup Here(r, t) \cup Now(r, t)
    /\ t.linked = NoValue /\ t.freed = {}

Updates(t, A) ==
    t.step \in Steps /\ t.kind = "update" =>
    /\ \A n \in Numbers : t.wrote[n] # NoValue =>
          /\ student[n] # NoValue /\ t.wrote[n].slot = student[n].slot
          /\ t.wrote[n].guardian \in A
    /\ \A p \in Phones : t.took[p] \in A \cup {NoValue}
    /\ t.step # "commit" => t.number \in Numbers /\ student[t.number] # NoValue
    /\ t.step \in Amid \cup {"details"} => t.linked \in A
    /\ t.step = "account" => t.found \in A \cup {NoValue}
    /\ t.step = "link" => t.found \in A

Exclusive ==
    \A q, r \in Requests : q # r =>
       \A n \in Numbers : tx[q].wrote[n] = NoValue \/ tx[r].wrote[n] = NoValue

\* The tables hold what the lines on record brought, and nothing else.
OnRecord(A) ==
    /\ \A n \in Numbers : student[n] # NoValue =>
          student[n].slot \in A /\ student[n].guardian \in A
    /\ \A n, m \in Numbers : student[n] # NoValue /\ student[m] # NoValue
                             /\ student[n].slot = student[m].slot => n = m
    /\ \A s \in A : \E n \in Numbers : student[n] # NoValue /\ student[n].slot = s
    /\ \A p \in Phones : owner[p] \in A \cup {Staff, NoValue}

IInv ==
    /\ TypeOK /\ Exclusive /\ OnRecord(All)
    /\ \A r \in Requests : /\ Shape(tx[r]) /\ Inserts(r, tx[r], All)
                           /\ Updates(tx[r], All)

-----------------------------------------------------------------------------
(* Handlers *)

LEMMA Fields ==
  ASSUME NEW t \in Handler
  PROVE  /\ t.step \in Steps \cup {"idle", "done", "failed"}
         /\ t.kind \in {"none", "create", "import", "dryRun", "update"}
         /\ t.lines \in Seq(Line) /\ t.at \in Nat /\ t.number \in Numbers \cup {NoValue}
         /\ t.found \in Slots \cup {NoValue} /\ t.linked \in Slots \cup {NoValue}
         /\ t.processed \in SUBSET Numbers /\ t.outcome \in Seq({"ok", "error"})
         /\ t.wrote \in [Numbers -> Row \cup {NoValue}]
         /\ t.took \in [Phones -> Slots \cup {NoValue}] /\ t.freed \in SUBSET Phones
         /\ t.began \in Nat /\ t.alone \in BOOLEAN
  BY DEF Handler

LEMMA Facts ==
  ASSUME IInv, NEW r \in Requests
  PROVE  /\ tx \in [Requests -> Handler] /\ tx[r] \in Handler /\ Shape(tx[r])
         /\ Inserts(r, tx[r], All) /\ Updates(tx[r], All) /\ All \subseteq Slots
         /\ student \in [Numbers -> Row \cup {NoValue}]
         /\ owner \in [Phones -> Slots \cup {Staff, NoValue}]
         /\ version \in Nat /\ NoValue \notin Slots /\ Staff \notin Slots
<1>1. /\ tx \in [Requests -> Handler] /\ tx[r] \in Handler /\ version \in Nat
      /\ student \in [Numbers -> Row \cup {NoValue}]
      /\ owner \in [Phones -> Slots \cup {Staff, NoValue}]
  BY DEF IInv, TypeOK
<1>2. ASSUME NEW q \in Requests PROVE Admitted(q) \subseteq Slots
  <2>1. tx[q].outcome \in Seq({"ok", "error"}) /\ Shape(tx[q])
    BY <1>1, Fields DEF IInv
  <2>2. tx[q].step = "done" => Len(tx[q].outcome) <= MaxLines
    BY <2>1 DEF Shape
  <2>3. DOMAIN tx[q].outcome = 1..Len(tx[q].outcome) /\ Len(tx[q].outcome) \in Nat
    BY <2>1
  <2>4. tx[q].step = "done" => \A i \in DOMAIN tx[q].outcome : i \in 1..MaxLines
    BY <2>2, <2>3, BoundsAssumption
  <2> QED
    BY <2>4 DEF Admitted, Slots
<1>3. All \subseteq Slots
  BY <1>2 DEF All
<1>4. NoValue \notin Slots /\ Staff \notin Slots
  BY ValuesAssumption DEF Slots
<1> QED
  BY <1>1, <1>3, <1>4 DEF IInv

\* What a request will have admitted is its own, and not on record before it ends.
LEMMA HereIsNew ==
  ASSUME IInv, NEW r \in Requests, tx[r].step \in Steps
  PROVE  /\ \A s \in Here(r, tx[r]) : s \notin All
         /\ tx[r].step # "commit" => <<r, tx[r].at>> \notin Here(r, tx[r])
         /\ \A s \in Here(r, tx[r]) : s \in Slots
         /\ <<r, tx[r].at>> \in Slots /\ tx[r].at \in 1..MaxLines
         /\ <<r, tx[r].at>> \notin All
<1>1. tx[r].outcome \in Seq({"ok", "error"}) /\ Shape(tx[r]) /\ tx[r].at \in Nat
      /\ tx[r].lines \in Seq(Line)
  BY Facts, Fields
<1>2. tx[r].at \in 1..MaxLines
  BY <1>1, BoundsAssumption DEF Shape
<1>3. /\ DOMAIN tx[r].outcome = 1..Len(tx[r].outcome) /\ Len(tx[r].outcome) \in Nat
      /\ Len(tx[r].outcome) = IF tx[r].step = "commit" THEN tx[r].at ELSE tx[r].at - 1
  BY <1>1 DEF Shape
<1>4. /\ \A i \in DOMAIN tx[r].outcome : i \in 1..MaxLines
      /\ tx[r].step # "commit" => tx[r].at \notin DOMAIN tx[r].outcome
  BY <1>1, <1>2, <1>3, BoundsAssumption
<1>5. \A i : <<r, i>> \notin All
  <2>1. tx[r].step # "done"
    BY DEF Steps
  <2>2. ASSUME NEW i, NEW q \in Requests, <<r, i>> \in Admitted(q) PROVE FALSE
    <3>1. tx[q].step = "done" /\ \E j \in DOMAIN tx[q].outcome : <<r, i>> = <<q, j>>
      BY <2>2 DEF Admitted
    <3> QED
      BY <2>1, <3>1
  <2> QED
    BY <2>2 DEF All
<1> QED
  BY <1>2, <1>4, <1>5 DEF Here, Slots

\* An outcome more.
LEMMA NextHere ==
  ASSUME NEW r, NEW o \in Seq({"ok", "error"}), NEW x \in {"ok", "error"}
  PROVE  LET S(s) == {<<r, i>> : i \in {j \in DOMAIN s : s[j] = "ok"}} IN
         S(Append(o, x)) = S(o) \cup (IF x = "ok" THEN {<<r, Len(o) + 1>>} ELSE {})
<1> DEFINE S(s) == {<<r, i>> : i \in {j \in DOMAIN s : s[j] = "ok"}}
           a == Append(o, x)
<1>1. /\ DOMAIN o = 1..Len(o) /\ DOMAIN a = 1..(Len(o) + 1) /\ Len(o) \in Nat
      /\ \A i \in 1..Len(o) : a[i] = o[i]
      /\ a[Len(o) + 1] = x
  OBVIOUS
<1>2. \A i : i \in 1..(Len(o) + 1) <=> i \in 1..Len(o) \/ i = Len(o) + 1
  BY <1>1
<1>3. Len(o) + 1 \notin 1..Len(o)
  BY <1>1
<1>4. \A i : i \in {j \in DOMAIN a : a[j] = "ok"}
             <=> i \in {j \in DOMAIN o : o[j] = "ok"} \/ (i = Len(o) + 1 /\ x = "ok")
  BY <1>1, <1>2, <1>3
<1> HIDE DEF a
<1>5. S(a) = S(o) \cup (IF x = "ok" THEN {<<r, Len(o) + 1>>} ELSE {})
  BY <1>4
<1> QED
  BY <1>5 DEF a

-----------------------------------------------------------------------------
(* One handler changes *)

\* Other requests are at most told that they are not alone.
Alike(t, u) ==
    /\ u.step = t.step /\ u.kind = t.kind /\ u.lines = t.lines /\ u.at = t.at
    /\ u.number = t.number /\ u.found = t.found /\ u.linked = t.linked
    /\ u.outcome = t.outcome /\ u.wrote = t.wrote /\ u.took = t.took /\ u.freed = t.freed

LEMMA OneHandler ==
  ASSUME IInv, NEW r \in Requests, NEW h \in Handler,
         tx' \in [Requests -> Handler], tx'[r] = h,
         \A q \in Requests \ {r} : Alike(tx[q], tx'[q]),
         UNCHANGED <<student, owner>>, version' \in Nat,
         tx[r].step # "done", h.step # "done",
         Shape(h), Inserts(r, h, All), Updates(h, All),
         \A q \in Requests \ {r} : \A n \in Numbers :
            h.wrote[n] = NoValue \/ tx[q].wrote[n] = NoValue
  PROVE  IInv'
<1>1. TypeOK'
  BY DEF IInv, TypeOK
<1>2. ASSUME NEW q \in Requests PROVE Admitted(q)' = Admitted(q)
  <2>1. CASE q = r
    <3>1. tx[q].step # "done" /\ tx'[q].step # "done"
      BY <2>1
    <3> QED
      BY <3>1 DEF Admitted
  <2>2. CASE q # r
    <3>1. /\ tx'[q].step = tx[q].step /\ tx'[q].kind = tx[q].kind
          /\ tx'[q].outcome = tx[q].outcome
      BY <2>2 DEF Alike
    <3> QED
      BY <3>1 DEF Admitted
  <2> QED
    BY <2>1, <2>2
<1>3. All' = All
  BY <1>2 DEF All
<1>4. OnRecord(All)'
  BY <1>3 DEF IInv, OnRecord
<1>5. Exclusive'
  BY DEF IInv, Exclusive, Alike
<1>6. ASSUME NEW q \in Requests PROVE Shape(tx'[q])
  <2>1. CASE q = r
    BY <2>1
  <2>2. CASE q # r
    <3>1. Shape(tx[q]) /\ Alike(tx[q], tx'[q])
      BY <2>2 DEF IInv
    <3> QED
      BY <3>1 DEF Shape, Alike
  <2> QED
    BY <2>1, <2>2
<1>7. ASSUME NEW q \in Requests PROVE Inserts(q, tx'[q], All) /\ Updates(tx'[q], All)
  <2>1. CASE q = r
    BY <2>1
  <2>2. CASE q # r
    <3>1. Inserts(q, tx[q], All) /\ Updates(tx[q], All) /\ Alike(tx[q], tx'[q])
      BY <2>2 DEF IInv
    <3>2. Here(q, tx'[q]) = Here(q, tx[q]) /\ Now(q, tx'[q]) = Now(q, tx[q])
      BY <3>1 DEF Here, Now, Alike
    <3>3. Inserts(q, tx'[q], All)
      BY <3>1, <3>2 DEF Inserts, Alike
    <3>4. Updates(tx'[q], All)
      BY <3>1 DEF Updates, Alike
    <3> QED
      BY <3>3, <3>4
  <2> QED
    BY <2>1, <2>2
<1>8. ASSUME NEW q \in Requests PROVE Inserts(q, tx[q], All)' /\ Updates(tx[q], All)'
  <2>1. student' = student /\ Inserts(q, tx'[q], All') /\ Updates(tx'[q], All')
    BY <1>3, <1>7
  <2>2. Inserts(q, tx[q], All)'
    BY <2>1 DEF Inserts, Here, Now
  <2>3. Updates(tx[q], All)'
    BY <2>1 DEF Updates
  <2> QED
    BY <2>2, <2>3
<1>9. \A q \in Requests : Shape(tx[q])'
  BY <1>6 DEF Shape
<1> QED
  BY <1>1, <1>4, <1>5, <1>8, <1>9 DEF IInv

\* One statement of r, whose rows its statement waited for or had before.
LEMMA OneStatement ==
  ASSUME IInv, NEW r \in Requests, NEW h \in Handler, Step(r, h),
         tx[r].step # "done", h.step # "done",
         Shape(h), Inserts(r, h, All), Updates(h, All),
         \A n \in Numbers : \/ h.wrote[n] = NoValue \/ tx[r].wrote[n] # NoValue
                           \/ \A q \in Requests \ {r} : tx[q].wrote[n] = NoValue
  PROVE  IInv'
<1>1. /\ tx \in [Requests -> Handler] /\ version \in Nat
      /\ tx' = [tx EXCEPT ![r] = h] /\ UNCHANGED <<student, owner, version>>
  BY Facts DEF Step
<1>2. /\ tx' \in [Requests -> Handler] /\ tx'[r] = h
      /\ \A q \in Requests \ {r} : tx'[q] = tx[q]
  BY <1>1
<1>3. \A q \in Requests \ {r} : Alike(tx[q], tx'[q])
  BY <1>2 DEF Alike
<1>4. \A q \in Requests \ {r} : \A n \in Numbers :
            h.wrote[n] = NoValue \/ tx[q].wrote[n] = NoValue
  BY DEF IInv, Exclusive
<1> QED
  BY <1>1, <1>2, <1>3, <1>4, OneHandler

-----------------------------------------------------------------------------
(* A line ends *)

LEMMA IdleHandler ==
  /\ Idle \in Handler /\ Idle.step = "idle" /\ Idle.kind = "none" /\ Idle.lines = <<>>
  /\ Idle.at = 1 /\ Idle.number = NoValue /\ Idle.found = NoValue /\ Idle.linked = NoValue
  /\ Idle.outcome = <<>> /\ Idle.freed = {}
  /\ \A n \in Numbers : Idle.wrote[n] = NoValue
  /\ \A p \in Phones : Idle.took[p] = NoValue
<1>1. Idle \in Handler
  BY DEF Idle, Handler, Numbers
<1>2. /\ Idle.step = "idle" /\ Idle.kind = "none" /\ Idle.lines = <<>>
      /\ Idle.at = 1 /\ Idle.number = NoValue
  BY DEF Idle
<1>3. /\ Idle.found = NoValue /\ Idle.linked = NoValue
      /\ Idle.outcome = <<>> /\ Idle.freed = {}
  BY DEF Idle
<1>4. /\ \A n \in Numbers : Idle.wrote[n] = NoValue
      /\ \A p \in Phones : Idle.took[p] = NoValue
  BY DEF Idle
<1> QED
  BY <1>1, <1>2, <1>3, <1>4

\* What a line leaves when its savepoint is rolled back to.
LEMMA LineUndone ==
  ASSUME IInv, NEW r \in Requests
  PROVE  LET w == WithoutLine(r) IN
         /\ w \in Handler /\ w.step = tx[r].step /\ w.kind = tx[r].kind
         /\ w.lines = tx[r].lines /\ w.at = tx[r].at /\ w.number = tx[r].number
         /\ w.found = tx[r].found /\ w.linked = tx[r].linked /\ w.outcome = tx[r].outcome
         /\ w.freed = tx[r].freed /\ w.processed = tx[r].processed
         /\ \A n \in Numbers : w.wrote[n] = IF tx[r].wrote[n] # NoValue
                                              /\ tx[r].wrote[n].slot = <<r, tx[r].at>>
                                           THEN NoValue ELSE tx[r].wrote[n]
         /\ \A p \in Phones : w.took[p] = IF tx[r].took[p] = <<r, tx[r].at>>
                                          THEN NoValue ELSE tx[r].took[p]
<1> DEFINE w == WithoutLine(r)
<1>1. tx[r] \in Handler
  BY Facts
<1>2. /\ tx[r].wrote \in [Numbers -> Row \cup {NoValue}]
      /\ tx[r].took \in [Phones -> Slots \cup {NoValue}]
  BY <1>1, Fields
<1>3. /\ \A n \in Numbers : w.wrote[n] = IF tx[r].wrote[n] # NoValue
                                              /\ tx[r].wrote[n].slot = <<r, tx[r].at>>
                                         THEN NoValue ELSE tx[r].wrote[n]
      /\ \A p \in Phones : w.took[p] = IF tx[r].took[p] = <<r, tx[r].at>>
                                          THEN NoValue ELSE tx[r].took[p]
  BY <1>1 DEF WithoutLine, Slot, Handler
<1>4. w \in Handler
  BY <1>1, <1>2 DEF WithoutLine, Handler
<1>5. /\ w.step = tx[r].step /\ w.kind = tx[r].kind
      /\ w.lines = tx[r].lines /\ w.at = tx[r].at /\ w.number = tx[r].number
  BY <1>1 DEF WithoutLine, Handler
<1>6. /\ w.found = tx[r].found /\ w.linked = tx[r].linked /\ w.outcome = tx[r].outcome
      /\ w.freed = tx[r].freed /\ w.processed = tx[r].processed
  BY <1>1 DEF WithoutLine, Handler
<1> QED
  BY <1>3, <1>4, <1>5, <1>6

LEMMA LenIsNat ==
  ASSUME NEW s \in Seq(Line)
  PROVE  Len(s) \in Nat
  OBVIOUS

LEMMA Longer ==
  ASSUME NEW o \in Seq({"ok", "error"}), NEW x \in {"ok", "error"}
  PROVE  /\ Append(o, x) \in Seq({"ok", "error"}) /\ Len(o) \in Nat
         /\ Len(Append(o, x)) = Len(o) + 1
  OBVIOUS

LEMMA NextLineIs ==
  ASSUME NEW t \in Handler, NEW x \in {"ok", "error"}
  PROVE  LET h == NextLine(t, x) IN
         /\ h \in Handler
         /\ h.step = IF t.at = Len(t.lines) THEN "commit" ELSE "row"
         /\ h.at = IF t.at = Len(t.lines) THEN t.at ELSE t.at + 1
         /\ h.kind = t.kind /\ h.lines = t.lines /\ h.linked = t.linked
         /\ h.outcome = Append(t.outcome, x) /\ h.wrote = t.wrote /\ h.took = t.took
         /\ h.freed = t.freed
<1> DEFINE h == NextLine(t, x)
<1>1. /\ t.outcome \in Seq({"ok", "error"}) /\ t.at \in Nat
  BY Fields
<1>2. Append(t.outcome, x) \in Seq({"ok", "error"})
  BY <1>1
<1>3. h \in Handler
  <2>1. /\ (IF t.at = Len(t.lines) THEN "commit" ELSE "row") \in Steps
        /\ (IF t.at = Len(t.lines) THEN t.at ELSE t.at + 1) \in Nat
    BY <1>1 DEF Steps
  <2> DEFINE o == Append(t.outcome, x)
             s == IF t.at = Len(t.lines) THEN "commit" ELSE "row"
             a == IF t.at = Len(t.lines) THEN t.at ELSE t.at + 1
  <2>2. h = [t EXCEPT !.outcome = o, !.number = NoValue, !.found = NoValue,
                      !.step = s, !.at = a]
    BY DEF NextLine
  <2> HIDE DEF o, s, a, h
  <2>3. o \in Seq({"ok", "error"}) /\ s \in Steps /\ a \in Nat
    BY <1>2, <2>1 DEF o, s, a
  <2> QED
    BY <2>2, <2>3 DEF Handler
<1>4. /\ h.step = IF t.at = Len(t.lines) THEN "commit" ELSE "row"
      /\ h.at = IF t.at = Len(t.lines) THEN t.at ELSE t.at + 1
      /\ h.kind = t.kind /\ h.lines = t.lines /\ h.linked = t.linked
  BY DEF NextLine, Handler
<1>5. /\ h.outcome = Append(t.outcome, x) /\ h.wrote = t.wrote /\ h.took = t.took
      /\ h.freed = t.freed
  BY DEF NextLine, Handler
<1> QED
  BY <1>3, <1>4, <1>5

\* The request goes on to its next line, or to the commit, and leaves nothing of this one.
LEMMA DropStep ==
  ASSUME IInv, NEW r \in Requests, tx[r].step \in Steps \ {"commit"},
         tx[r].kind \in {"import", "dryRun"},
         NEW x \in {"ok", "error"}, x = "error" \/ tx[r].kind = "dryRun",
         NEW w \in Handler, Alike(WithoutLine(r), w), Step(r, NextLine(w, x))
  PROVE  IInv'
<1> DEFINE t == tx[r]
           h == NextLine(w, x)
<1>1. /\ t \in Handler /\ Shape(t) /\ Inserts(r, t, All)
      /\ t.outcome \in Seq({"ok", "error"}) /\ t.at \in Nat /\ t.lines \in Seq(Line)
  BY Facts, Fields
<1>2. /\ h \in Handler /\ h.step = IF t.at = Len(t.lines) THEN "commit" ELSE "row"
      /\ h.at = IF t.at = Len(t.lines) THEN t.at ELSE t.at + 1
      /\ h.kind = t.kind /\ h.lines = t.lines /\ h.linked = t.linked /\ h.freed = t.freed
      /\ h.outcome = Append(t.outcome, x)
      /\ \A n \in Numbers : h.wrote[n] = IF t.wrote[n] # NoValue
                                          /\ t.wrote[n].slot = <<r, t.at>>
                                         THEN NoValue ELSE t.wrote[n]
      /\ \A p \in Phones : h.took[p] = IF t.took[p] = <<r, t.at>>
                                        THEN NoValue ELSE t.took[p]
  <2> DEFINE u == WithoutLine(r)
  <2>1. /\ u.kind = t.kind /\ u.lines = t.lines /\ u.at = t.at /\ u.linked = t.linked
        /\ u.outcome = t.outcome /\ u.freed = t.freed
        /\ \A n \in Numbers : u.wrote[n] = IF t.wrote[n] # NoValue
                                            /\ t.wrote[n].slot = <<r, t.at>>
                                           THEN NoValue ELSE t.wrote[n]
        /\ \A p \in Phones : u.took[p] = IF t.took[p] = <<r, t.at>>
                                          THEN NoValue ELSE t.took[p]
    BY LineUndone
  <2>2. /\ w.kind = u.kind /\ w.lines = u.lines /\ w.at = u.at /\ w.linked = u.linked
        /\ w.outcome = u.outcome /\ w.wrote = u.wrote /\ w.took = u.took
        /\ w.freed = u.freed
    BY DEF Alike
  <2>3. /\ h \in Handler
        /\ h.step = IF w.at = Len(w.lines) THEN "commit" ELSE "row"
        /\ h.at = IF w.at = Len(w.lines) THEN w.at ELSE w.at + 1
        /\ h.kind = w.kind /\ h.lines = w.lines /\ h.linked = w.linked
        /\ h.outcome = Append(w.outcome, x) /\ h.wrote = w.wrote /\ h.took = w.took
        /\ h.freed = w.freed
    BY NextLineIs
  <2> HIDE DEF h, u
  <2>4. /\ w.kind = t.kind /\ w.lines = t.lines /\ w.at = t.at /\ w.linked = t.linked
        /\ w.outcome = t.outcome /\ w.freed = t.freed
    BY <2>1, <2>2
  <2>5. /\ h.step = IF t.at = Len(t.lines) THEN "commit" ELSE "row"
        /\ h.at = IF t.at = Len(t.lines) THEN t.at ELSE t.at + 1
    BY <2>3, <2>4
  <2>6. /\ h.kind = t.kind /\ h.lines = t.lines /\ h.linked = t.linked /\ h.freed = t.freed
        /\ h.outcome = Append(t.outcome, x)
    BY <2>3, <2>4
  <2>7. /\ \A n \in Numbers : h.wrote[n] = IF t.wrote[n] # NoValue
                                              /\ t.wrote[n].slot = <<r, t.at>>
                                           THEN NoValue ELSE t.wrote[n]
        /\ \A p \in Phones : h.took[p] = IF t.took[p] = <<r, t.at>>
                                          THEN NoValue ELSE t.took[p]
    BY <2>1, <2>2, <2>3
  <2> QED
    BY <2>3, <2>5, <2>6, <2>7
<1> HIDE DEF h
<1>3. Len(h.outcome) = Len(t.outcome) + 1 /\ Len(t.outcome) = t.at - 1
      /\ t.at \in 1..Len(t.lines) /\ Len(t.lines) \in Nat /\ Len(t.lines) <= MaxLines
      /\ t.at \in Nat
  <2>1. Len(h.outcome) = Len(t.outcome) + 1
    BY <1>1, <1>2, Longer
  <2>2. Len(t.lines) \in Nat
    BY <1>1, LenIsNat
  <2> QED
    BY <1>1, <2>1, <2>2 DEF Shape
<1>4. Shape(h)
  <2>1. h.step \in {"commit", "row"} /\ h.kind \notin {"none", "create", "update"}
    BY <1>2
  <2>2. /\ h.step = IF t.at = Len(t.lines) THEN "commit" ELSE "row"
        /\ h.at = IF t.at = Len(t.lines) THEN t.at ELSE t.at + 1
        /\ h.lines = t.lines
    BY <1>2
  <2>3. h.at \in 1..Len(h.lines) /\ Len(h.lines) <= MaxLines
    BY <1>3, <2>2
  <2>4. Len(h.outcome) = IF h.step = "commit" THEN h.at ELSE h.at - 1
    BY <1>3, <2>2
  <2> QED
    BY <2>1, <2>3, <2>4 DEF Shape, Steps
<1>5. Here(r, h) = Here(r, t) /\ Now(r, h) = {} /\ <<r, t.at>> \notin Here(r, t)
  <2>1. Here(r, h) = Here(r, t)
    <3>1. CASE x = "error"
      <4>1. {<<r, i>> : i \in {j \in DOMAIN h.outcome : h.outcome[j] = "ok"}}
            = {<<r, i>> : i \in {j \in DOMAIN t.outcome : t.outcome[j] = "ok"}}
        BY <1>1, <1>2, <3>1, NextHere
      <4> QED
        BY <1>2, <4>1 DEF Here
    <3>2. CASE tx[r].kind = "dryRun"
      BY <1>2, <3>2 DEF Here
    <3> QED
      BY <3>1, <3>2
  <2>2. Now(r, h) = {}
    BY <1>2 DEF Now, Amid
  <2> QED
    BY <2>1, <2>2, HereIsNew
<1>6. Now(r, t) \subseteq {<<r, t.at>>}
  BY DEF Now
<1>7. Inserts(r, h, All)
  <2>1. /\ \A n \in Numbers : h.wrote[n] # NoValue =>
              /\ h.wrote[n] = t.wrote[n] /\ t.wrote[n] # NoValue
              /\ t.wrote[n].slot # <<r, t.at>>
        /\ \A n \in Numbers : t.wrote[n] # NoValue /\ t.wrote[n].slot # <<r, t.at>>
              => h.wrote[n] = t.wrote[n]
    BY <1>2
  <2>2. \A p \in Phones : h.took[p] \in Here(r, t) \cup {NoValue}
    BY <1>1, <1>2, <1>6 DEF Inserts
  <2>3. h.step \notin Amid /\ h.linked = NoValue /\ h.freed = {}
    BY <1>1, <1>2 DEF Inserts, Amid
  <2>4. \A s \in Here(r, t) : \E n \in Numbers : h.wrote[n] # NoValue /\ h.wrote[n].slot = s
    <3> SUFFICES ASSUME NEW s \in Here(r, t)
                 PROVE  \E n \in Numbers : h.wrote[n] # NoValue /\ h.wrote[n].slot = s
      OBVIOUS
    <3>1. PICK n \in Numbers : t.wrote[n] # NoValue /\ t.wrote[n].slot = s
      BY <1>1 DEF Inserts
    <3>2. t.wrote[n].slot # <<r, t.at>>
      BY <1>5, <3>1
    <3>3. h.wrote[n] = t.wrote[n]
      BY <2>1, <3>1, <3>2
    <3> QED
      BY <3>1, <3>3
  <2>5. \A n \in Numbers : h.wrote[n] # NoValue =>
              /\ student[n] = NoValue /\ h.wrote[n].slot \in Here(r, t)
              /\ h.wrote[n].guardian \in All \cup Here(r, t)
    BY <1>1, <1>6, <2>1 DEF Inserts
  <2>6. \A n, m \in Numbers : h.wrote[n] # NoValue /\ h.wrote[m] # NoValue
                             /\ h.wrote[n].slot = h.wrote[m].slot => n = m
    <3> SUFFICES ASSUME NEW n \in Numbers, NEW m \in Numbers, h.wrote[n] # NoValue,
                        h.wrote[m] # NoValue, h.wrote[n].slot = h.wrote[m].slot
                 PROVE  n = m
      OBVIOUS
    <3>1. /\ t.wrote[n] # NoValue /\ h.wrote[n] = t.wrote[n]
          /\ t.wrote[m] # NoValue /\ h.wrote[m] = t.wrote[m]
      BY <2>1
    <3>2. t.wrote[n].slot = t.wrote[m].slot
      BY <3>1
    <3>3. t.step \in Steps /\ t.kind # "update"
      OBVIOUS
    <3> QED
      BY <1>1, <3>1, <3>2, <3>3 DEF Inserts
  <2> QED
    BY <1>5, <2>2, <2>3, <2>4, <2>5, <2>6 DEF Inserts, Amid
<1>8. Updates(h, All)
  BY <1>2 DEF Updates
<1>9. \A n \in Numbers : h.wrote[n] = NoValue \/ t.wrote[n] # NoValue
  BY <1>2
<1>10. t.step # "done" /\ h.step # "done"
  BY <1>2 DEF Steps
<1> QED
  BY <1>2, <1>4, <1>7, <1>8, <1>9, <1>10, OneStatement DEF h

LEMMA RollbackStep ==
  ASSUME IInv, NEW r \in Requests, tx[r].step \in Steps, Rollback(r)
  PROVE  IInv'
<1> DEFINE h == [Idle EXCEPT !.step = "failed"]
<1>1. /\ h \in Handler /\ h.step = "failed"
      /\ \A n \in Numbers : h.wrote[n] = NoValue
      /\ \A p \in Phones : h.took[p] = NoValue
  BY IdleHandler DEF Handler
<1>2. h.step \notin Steps /\ h.step # "done" /\ tx[r].step # "done" /\ Step(r, h)
  BY <1>1 DEF Rollback, Steps
<1> HIDE DEF h
<1>3. Shape(h) /\ Inserts(r, h, All) /\ Updates(h, All)
  BY <1>1, <1>2 DEF Shape, Inserts, Updates
<1> QED
  BY <1>1, <1>2, <1>3, OneStatement

LEMMA FailingStep ==
  ASSUME IInv, NEW r \in Requests, tx[r].step \in Steps \ {"commit"}, LineFails(r)
  PROVE  IInv'
<1>1. CASE tx[r].kind \in {"import", "dryRun"}
  <2>1. WithoutLine(r) \in Handler /\ Step(r, NextLine(WithoutLine(r), "error"))
    BY <1>1, LineUndone DEF LineFails
  <2>2. Alike(WithoutLine(r), WithoutLine(r))
    BY DEF Alike
  <2> QED
    BY <1>1, <2>1, <2>2, DropStep
<1>2. CASE tx[r].kind \notin {"import", "dryRun"}
  BY <1>2, RollbackStep DEF LineFails
<1> QED
  BY <1>1, <1>2

-----------------------------------------------------------------------------
(* A request begins *)

LEMMA NotAlone ==
  ASSUME NEW t \in Handler, NEW b \in BOOLEAN, NEW u, u = [t EXCEPT !.alone = b]
  PROVE  u \in Handler /\ Alike(t, u)
  BY DEF Handler, Alike

LEMMA BeginStep ==
  ASSUME IInv, NEW r \in Requests, NEW t \in Handler, Begin(r, t),
         t.kind \in {"create", "import", "dryRun", "update"},
         t.at = 1, Len(t.lines) \in 1..MaxLines,
         t.kind \in {"create", "update"} => Len(t.lines) = 1,
         t.outcome = <<>>, t.linked = NoValue, t.freed = {},
         \A n \in Numbers : t.wrote[n] = NoValue,
         \A p \in Phones : t.took[p] = NoValue,
         t.kind = "update" => t.number \in Numbers /\ student[t.number] # NoValue
  PROVE  IInv'
<1> DEFINE alone == \A o \in Requests : ~Open(o)
           h == [t EXCEPT !.step = "row", !.began = version, !.alone = alone]
           other(q) == [tx[q] EXCEPT !.alone = @ /\ ~Open(q)]
<1>1. tx \in [Requests -> Handler] /\ version \in Nat
  BY Facts
<1>2. /\ h \in Handler /\ h.step = "row" /\ h.kind = t.kind /\ h.lines = t.lines
      /\ h.at = t.at /\ h.number = t.number
      /\ h.linked = t.linked /\ h.outcome = t.outcome
      /\ h.wrote = t.wrote /\ h.took = t.took /\ h.freed = t.freed
  <2>1. alone \in BOOLEAN
    OBVIOUS
  <2> HIDE DEF alone
  <2>2. h = [t EXCEPT !.step = "row", !.began = version, !.alone = alone]
    OBVIOUS
  <2> HIDE DEF h
  <2>3. version \in Nat
    BY <1>1
  <2>4. h \in Handler
    BY <2>1, <2>2, <2>3 DEF Handler, Steps
  <2>5. /\ h.step = "row" /\ h.kind = t.kind /\ h.lines = t.lines
        /\ h.at = t.at /\ h.number = t.number /\ h.linked = t.linked
    BY <2>2 DEF Handler
  <2>6. /\ h.outcome = t.outcome /\ h.wrote = t.wrote /\ h.took = t.took
        /\ h.freed = t.freed
    BY <2>2 DEF Handler
  <2> QED
    BY <2>4, <2>5, <2>6
<1>3. ASSUME NEW q \in Requests
      PROVE  other(q) \in Handler /\ Alike(tx[q], other(q))
  <2> DEFINE b == tx[q].alone /\ ~Open(q)
  <2>1. b \in BOOLEAN /\ tx[q] \in Handler
    BY <1>1
  <2>2. other(q) = [tx[q] EXCEPT !.alone = b]
    OBVIOUS
  <2> HIDE DEF b, other
  <2> QED
    BY <2>1, <2>2, NotAlone
<1>4. /\ tx' = [q \in Requests |-> IF q = r THEN h ELSE other(q)]
      /\ UNCHANGED <<student, owner, version>> /\ tx[r].step = "idle"
  BY DEF Begin
<1> HIDE DEF h, other
<1>5. /\ tx' \in [Requests -> Handler] /\ tx'[r] = h
      /\ \A q \in Requests \ {r} : Alike(tx[q], tx'[q])
  BY <1>2, <1>3, <1>4
<1>6. Shape(h)
  <2>1. h.at = 1 /\ Len(h.lines) \in 1..MaxLines /\ Len(h.outcome) = 0 /\ MaxLines \in Nat
    BY <1>2, BoundsAssumption
  <2> QED
    BY <1>2, <2>1 DEF Shape, Steps
<1>7. Here(r, h) = {} /\ Now(r, h) = {}
  <2>1. DOMAIN h.outcome = {}
    BY <1>2
  <2> QED
    BY <1>2, <2>1 DEF Here, Now, Amid
<1>8. Inserts(r, h, All) /\ Updates(h, All)
  BY <1>2, <1>7 DEF Inserts, Updates, Amid
<1>9. h.step # "done" /\ tx[r].step # "done" /\ version' \in Nat
  BY <1>1, <1>2, <1>4
<1> QED
  BY <1>2, <1>4, <1>5, <1>6, <1>8, <1>9, OneHandler

LEMMA ArriveStep ==
  ASSUME IInv, NEW r \in Requests, Arrive(r)
  PROVE  IInv'
<1>1. ASSUME NEW line \in Line, Create(r, line), MaxLines >= 1 PROVE IInv'
  <2> DEFINE t == [Idle EXCEPT !.kind = "create", !.lines = <<line>>]
  <2>1. /\ t \in Handler /\ t.kind = "create" /\ t.lines = <<line>> /\ t.at = 1
        /\ t.outcome = <<>> /\ t.linked = NoValue /\ t.freed = {}
        /\ \A n \in Numbers : t.wrote[n] = NoValue
        /\ \A p \in Phones : t.took[p] = NoValue
    <3>1. t \in Handler
      <4>1. <<line>> \in Seq(Line)
        OBVIOUS
      <4> QED
        BY <4>1, IdleHandler DEF Handler
    <3>2. /\ t.kind = "create" /\ t.lines = <<line>> /\ t.at = Idle.at
          /\ t.outcome = Idle.outcome /\ t.linked = Idle.linked /\ t.freed = Idle.freed
          /\ t.wrote = Idle.wrote /\ t.took = Idle.took
      BY IdleHandler DEF Handler
    <3> QED
      BY <3>1, <3>2, IdleHandler
  <2>2. Begin(r, t) /\ Len(t.lines) = 1 /\ MaxLines \in Nat
    BY <1>1, <2>1, BoundsAssumption DEF Create
  <2> HIDE DEF t
  <2>3. Len(t.lines) \in 1..MaxLines
    BY <1>1, <2>2
  <2> QED
    BY <2>1, <2>2, <2>3, BeginStep
<1>2. ASSUME NEW lines \in Tables, NEW d \in BOOLEAN, BulkImport(r, lines, d) PROVE IInv'
  <2> DEFINE t == [Idle EXCEPT !.kind = IF d THEN "dryRun" ELSE "import", !.lines = lines]
  <2>0. lines \in Seq(Line) /\ Len(lines) \in 1..MaxLines
    BY TablesAssumption
  <2>1. /\ t \in Handler /\ t.kind \in {"import", "dryRun"} /\ t.lines = lines /\ t.at = 1
        /\ t.outcome = <<>> /\ t.linked = NoValue /\ t.freed = {}
        /\ \A n \in Numbers : t.wrote[n] = NoValue
        /\ \A p \in Phones : t.took[p] = NoValue
    BY <2>0, IdleHandler DEF Handler
  <2>2. Begin(r, t)
    BY <1>2 DEF BulkImport
  <2> HIDE DEF t
  <2> QED
    BY <2>0, <2>1, <2>2, BeginStep
<1>3. ASSUME NEW n \in Numbers, NEW p \in Phones, Update(r, n, p), MaxLines >= 1
      PROVE  IInv'
  <2> DEFINE line == [number |-> n, phone |-> p, flaw |-> "none"]
             t == [Idle EXCEPT !.kind = "update", !.number = n, !.lines = <<line>>]
  <2>0. line \in Line
    BY DEF Line
  <2>1. /\ t \in Handler /\ t.kind = "update" /\ t.lines = <<line>> /\ t.at = 1
        /\ t.number = n
        /\ t.outcome = <<>> /\ t.linked = NoValue /\ t.freed = {}
        /\ \A m \in Numbers : t.wrote[m] = NoValue
        /\ \A o \in Phones : t.took[o] = NoValue
    <3>1. t \in Handler
      <4> HIDE DEF line
      <4>1. <<line>> \in Seq(Line)
        BY <2>0
      <4> QED
        BY <4>1, IdleHandler DEF Handler
    <3>2. /\ t.kind = "update" /\ t.lines = <<line>> /\ t.at = Idle.at /\ t.number = n
          /\ t.outcome = Idle.outcome /\ t.linked = Idle.linked /\ t.freed = Idle.freed
          /\ t.wrote = Idle.wrote /\ t.took = Idle.took
      BY IdleHandler DEF Handler
    <3> QED
      BY <3>1, <3>2, IdleHandler
  <2>2. Begin(r, t) /\ Len(t.lines) = 1 /\ MaxLines \in Nat /\ student[n] # NoValue
    BY <1>3, <2>1, BoundsAssumption DEF Update
  <2> HIDE DEF t
  <2>3. Len(t.lines) \in 1..MaxLines /\ t.number \in Numbers /\ student[t.number] # NoValue
    BY <1>3, <2>1, <2>2
  <2> QED
    BY <2>1, <2>2, <2>3, BeginStep
<1>4. ASSUME NEW t \in Tables PROVE t[1] \in Line /\ MaxLines >= 1
  <2>1. t \in Seq(Line) /\ Len(t) \in 1..MaxLines
    BY TablesAssumption
  <2>2. 1 \in 1..Len(t)
    BY <2>1, LenIsNat, BoundsAssumption
  <2> QED
    BY <2>1, <2>2, BoundsAssumption
<1>5. CASE \E t \in Tables : Create(r, t[1])
  BY <1>1, <1>4, <1>5
<1>6. CASE \E t \in Tables, d \in BOOLEAN : BulkImport(r, t, d)
  BY <1>2, <1>6
<1>7. CASE \E n \in Numbers, p \in Phones : Update(r, n, p)
  <2>1. MaxLines >= 1
    BY BoundsAssumption
  <2> QED
    BY <1>3, <1>7, <2>1
<1> QED
  BY <1>5, <1>6, <1>7 DEF Arrive

-----------------------------------------------------------------------------
(* The statements of a line *)

LEMMA LineFields ==
  ASSUME NEW l \in Line
  PROVE  l.number \in Numbers \cup {NotGiven} /\ l.phone \in Phones
  BY DEF Line

LEMMA LineOf ==
  ASSUME NEW s \in Seq(Line), NEW i \in 1..Len(s)
  PROVE  s[i] \in Line
  OBVIOUS

LEMMA LineAtHand ==
  ASSUME IInv, NEW r \in Requests, tx[r].step \in Steps
  PROVE  Current(r) \in Line
<1>1. tx[r].at \in 1..Len(tx[r].lines) /\ tx[r].lines \in Seq(Line)
  BY Facts, Fields DEF Shape
<1> QED
  BY <1>1, LineOf DEF Current

LEMMA CheckStep ==
  ASSUME IInv, NEW r \in Requests, CheckLine(r)
  PROVE  IInv'
<1> DEFINE t == tx[r]
           p == Remembered(r)
           k == IF Current(r).number = NotGiven THEN NextNumber(r) ELSE Current(r).number
<1>1. /\ t \in Handler /\ Shape(t) /\ Inserts(r, t, All) /\ t.step = "row"
      /\ t.kind # "update" /\ t.step \in Steps
  BY Facts DEF CheckLine, AtStep, Steps
<1>2. Current(r).number \in Numbers \cup {NotGiven}
  BY <1>1, LineAtHand, LineFields
<1>3. p \in SUBSET Numbers
  BY <1>1, <1>2, Fields DEF Remembered
<1>4. ASSUME k \in Numbers, Step(r, [t EXCEPT !.step = "student", !.number = k,
                                              !.processed = p])
      PROVE  IInv'
  <2> DEFINE h == [t EXCEPT !.step = "student", !.number = k, !.processed = p]
  <2> HIDE DEF k, p
  <2>1. /\ h \in Handler /\ h.step = "student" /\ h.number = k
        /\ h.kind = t.kind /\ h.lines = t.lines /\ h.at = t.at
    BY <1>1, <1>3, <1>4 DEF Handler, Steps
  <2>2. /\ h.linked = t.linked /\ h.outcome = t.outcome /\ h.wrote = t.wrote
        /\ h.took = t.took /\ h.freed = t.freed
    BY <1>1 DEF Handler
  <2>3. Step(r, h)
    BY <1>4
  <2> HIDE DEF h
  <2>4. Shape(h)
    BY <1>1, <1>4, <2>1, <2>2 DEF Shape, Steps
  <2>5. Here(r, h) = Here(r, t) /\ Now(r, h) = {} /\ Now(r, t) = {}
    BY <1>1, <2>1, <2>2 DEF Here, Now, Amid
  <2>6. Inserts(r, h, All)
    BY <1>1, <2>1, <2>2, <2>5 DEF Inserts, Amid
  <2>7. Updates(h, All)
    BY <1>1, <2>1 DEF Updates
  <2>8. \A n \in Numbers : h.wrote[n] = NoValue \/ t.wrote[n] # NoValue
    BY <2>2
  <2> QED
    BY <1>1, <2>1, <2>3, <2>4, <2>6, <2>7, <2>8, OneStatement
<1>5. ASSUME t.kind # "create",
             Step(r, NextLine([WithoutLine(r) EXCEPT !.processed = p], "error"))
      PROVE  IInv'
  <2> DEFINE v == WithoutLine(r)
             w == [v EXCEPT !.processed = p]
  <2>1. v \in Handler
    BY LineUndone
  <2>2. Step(r, NextLine(w, "error"))
    BY <1>5
  <2> HIDE DEF p, v
  <2>3. w \in Handler /\ Alike(v, w)
    BY <1>3, <2>1 DEF Handler, Alike
  <2> HIDE DEF w
  <2>4. t.kind \in {"import", "dryRun"}
    <3>1. t.kind \in {"none", "create", "import", "dryRun", "update"} /\ t.kind # "none"
      BY <1>1, Fields DEF Shape
    <3> QED
      BY <1>1, <1>5, <3>1
  <2>5. tx[r].step \in Steps \ {"commit"}
    BY <1>1
  <2> QED
    BY <2>2, <2>3, <2>4, <2>5, DropStep DEF v
<1> QED
  BY <1>1, <1>4, <1>5, RollbackStep DEF CheckLine

LEMMA InsertStep ==
  ASSUME IInv, NEW r \in Requests, InsertStudent(r)
  PROVE  IInv'
<1> DEFINE t == tx[r]
<1>1. /\ t \in Handler /\ Shape(t) /\ Inserts(r, t, All) /\ t.step = "student"
      /\ t.step \in Steps /\ t.step \in Steps \ {"commit"} /\ Blockers(r) = {}
      /\ t.wrote \in [Numbers -> Row \cup {NoValue}]
  BY Facts, Fields DEF InsertStudent, AtStep, Steps
<1>2. t.kind # "update" /\ t.number \in Numbers
  BY <1>1 DEF Shape
<1>3. CASE student[t.number] # NoValue \/ t.wrote[t.number] # NoValue
  BY <1>1, <1>3, FailingStep DEF InsertStudent
<1>4. CASE student[t.number] = NoValue /\ t.wrote[t.number] = NoValue
  <2> DEFINE row == [slot |-> Slot(r), guardian |-> NoValue]
             h == [t EXCEPT !.step = "parent", !.wrote[t.number] = row]
  <2>1. Step(r, h)
    BY <1>4 DEF InsertStudent
  <2>2. row \in Row /\ row # NoValue /\ row.slot = <<r, t.at>>
    BY <1>1, HereIsNew, RowsAssumption DEF Row, Slot
  <2> HIDE DEF row
  <2>3. /\ h \in Handler /\ h.step = "parent" /\ h.number = t.number
        /\ h.kind = t.kind /\ h.lines = t.lines /\ h.at = t.at
    BY <1>1, <1>2, <2>2 DEF Handler, Steps
  <2>4. /\ h.linked = t.linked /\ h.outcome = t.outcome
        /\ h.took = t.took /\ h.freed = t.freed
        /\ \A n \in Numbers : h.wrote[n] = IF n = t.number THEN row ELSE t.wrote[n]
    BY <1>1, <1>2 DEF Handler
  <2> HIDE DEF h
  <2>5. Shape(h)
    BY <1>1, <2>3, <2>4 DEF Shape, Steps
  <2>6. /\ Here(r, h) = Here(r, t) /\ Now(r, h) = {<<r, t.at>>} /\ Now(r, t) = {}
        /\ <<r, t.at>> \notin Here(r, t)
    BY <1>1, <2>3, <2>4, HereIsNew DEF Here, Now, Amid
  <2>7. Inserts(r, h, All)
    <3>1. \A n \in Numbers : h.wrote[n] # NoValue =>
              /\ student[n] = NoValue
              /\ h.wrote[n].slot \in Here(r, t) \cup {<<r, t.at>>}
              /\ h.wrote[n].slot \in Here(r, t) => h.wrote[n].guardian \in All \cup Here(r, t)
      BY <1>1, <1>2, <1>4, <2>2, <2>4, <2>6 DEF Inserts
    <3>2. \A n, m \in Numbers : h.wrote[n] # NoValue /\ h.wrote[m] # NoValue
                                 /\ h.wrote[n].slot = h.wrote[m].slot => n = m
      BY <1>1, <1>2, <2>2, <2>4, <2>6 DEF Inserts
    <3>3. \A s \in Here(r, t) : \E n \in Numbers : h.wrote[n] # NoValue /\ h.wrote[n].slot = s
      <4> SUFFICES ASSUME NEW s \in Here(r, t)
                   PROVE  \E n \in Numbers : h.wrote[n] # NoValue /\ h.wrote[n].slot = s
        OBVIOUS
      <4>1. PICK n \in Numbers : t.wrote[n] # NoValue /\ t.wrote[n].slot = s
        BY <1>1, <1>2 DEF Inserts
      <4> QED
        BY <1>4, <2>4, <4>1
    <3>4. \A p \in Phones : h.took[p] \in Here(r, t) \cup {NoValue}
      BY <1>1, <1>2, <2>4, <2>6 DEF Inserts
    <3>5. h.linked = NoValue /\ h.freed = {} /\ h.wrote[h.number] = row
      BY <1>1, <1>2, <2>3, <2>4 DEF Inserts
    <3> QED
      BY <1>2, <2>2, <2>3, <2>6, <3>1, <3>2, <3>3, <3>4, <3>5 DEF Inserts
  <2>8. Updates(h, All)
    BY <1>2, <2>3 DEF Updates
  <2>9. \A n \in Numbers : \/ h.wrote[n] = NoValue \/ t.wrote[n] # NoValue
                           \/ \A q \in Requests \ {r} : tx[q].wrote[n] = NoValue
    <3>1. \A q \in Requests \ {r} : tx[q].wrote[t.number] = NoValue
      BY <1>1 DEF Blockers
    <3> QED
      BY <2>4, <3>1
  <2> QED
    BY <1>1, <2>1, <2>3, <2>5, <2>7, <2>8, <2>9, OneStatement
<1> QED
  BY <1>3, <1>4

LEMMA FindStudentStep ==
  ASSUME IInv, NEW r \in Requests, FindStudent(r)
  PROVE  IInv'
<1> DEFINE t == tx[r]
           g == student[t.number].guardian
<1>1. /\ t \in Handler /\ Shape(t) /\ Updates(t, All) /\ t.step = "row"
      /\ t.kind = "update" /\ t.step \in Steps /\ All \subseteq Slots
  BY Facts DEF FindStudent, AtStep, Steps
<1>2. t.number \in Numbers /\ g \in All /\ g \in Slots
  BY <1>1 DEF Updates, IInv, OnRecord
<1>3. PICK step \in {"details", "parent"} :
         Step(r, [t EXCEPT !.step = step, !.linked = g])
  BY DEF FindStudent
<1> DEFINE h == [t EXCEPT !.step = step, !.linked = g]
<1> HIDE DEF g
<1>4. /\ h \in Handler /\ h.step = step /\ h.number = t.number /\ h.linked = g
      /\ h.kind = t.kind /\ h.lines = t.lines /\ h.at = t.at
  BY <1>1, <1>2, <1>3 DEF Handler, Steps
<1>5. /\ h.outcome = t.outcome /\ h.wrote = t.wrote
      /\ h.took = t.took /\ h.freed = t.freed
  BY <1>1 DEF Handler
<1>6. Step(r, h)
  BY <1>3
<1> HIDE DEF h
<1>7. Shape(h)
  BY <1>1, <1>3, <1>4, <1>5 DEF Shape, Steps
<1>8. Inserts(r, h, All)
  BY <1>1, <1>4 DEF Inserts
<1>9. Updates(h, All)
  BY <1>1, <1>2, <1>3, <1>4, <1>5 DEF Updates, Amid
<1> QED
  BY <1>1, <1>3, <1>4, <1>5, <1>6, <1>7, <1>8, <1>9, OneStatement

LEMMA DetailsStep ==
  ASSUME IInv, NEW r \in Requests, UpdateDetails(r)
  PROVE  IInv'
<1> DEFINE t == tx[r]
           row == student[t.number]
           h == [t EXCEPT !.step = "parent", !.wrote[t.number] = row]
<1>1. /\ t \in Handler /\ Shape(t) /\ Updates(t, All) /\ t.step = "details"
      /\ t.step \in Steps /\ Blockers(r) = {}
      /\ student \in [Numbers -> Row \cup {NoValue}]
      /\ t.wrote \in [Numbers -> Row \cup {NoValue}]
  BY Facts, Fields DEF UpdateDetails, AtStep, Steps
<1>2. t.kind = "update" /\ t.number \in Numbers /\ row # NoValue /\ row \in Row
  BY <1>1 DEF Shape, Updates
<1>3. row.guardian \in All /\ row = student[t.number]
  BY <1>2 DEF IInv, OnRecord
<1>4. Step(r, h)
  BY DEF UpdateDetails
<1> HIDE DEF row
<1>5. /\ h \in Handler /\ h.step = "parent" /\ h.number = t.number
      /\ h.kind = t.kind /\ h.lines = t.lines /\ h.at = t.at
  BY <1>1, <1>2 DEF Handler, Steps
<1>6. /\ h.linked = t.linked /\ h.outcome = t.outcome
      /\ h.took = t.took /\ h.freed = t.freed
      /\ \A n \in Numbers : h.wrote[n] = IF n = t.number THEN row ELSE t.wrote[n]
  BY <1>1, <1>2 DEF Handler
<1> HIDE DEF h
<1>7. Shape(h)
  BY <1>1, <1>5, <1>6 DEF Shape, Steps
<1>8. Inserts(r, h, All)
  BY <1>2, <1>5 DEF Inserts
<1>9. Updates(h, All)
  BY <1>1, <1>2, <1>3, <1>5, <1>6 DEF Updates, Amid
<1>10. \A n \in Numbers : \/ h.wrote[n] = NoValue \/ t.wrote[n] # NoValue
                          \/ \A q \in Requests \ {r} : tx[q].wrote[n] = NoValue
  <2>1. \A q \in Requests \ {r} : tx[q].wrote[t.number] = NoValue
    BY <1>1 DEF Blockers
  <2> QED
    BY <1>6, <2>1
<1> QED
  BY <1>1, <1>4, <1>5, <1>7, <1>8, <1>9, <1>10, OneStatement

\* Whose a phone is as a statement of r sees it.
LEMMA OwnersSeen ==
  ASSUME IInv, NEW r \in Requests, tx[r].step \in Steps, NEW p \in Phones
  PROVE  /\ OwnerSeen(r, p) \in Slots \cup {Staff, NoValue}
         /\ tx[r].kind # "update" =>
               OwnerSeen(r, p) \in All \cup Here(r, tx[r]) \cup Now(r, tx[r])
                                 \cup {Staff, NoValue}
         /\ tx[r].kind = "update" => OwnerSeen(r, p) \in All \cup {Staff, NoValue}
<1> DEFINE t == tx[r]
<1>1. /\ Inserts(r, t, All) /\ Updates(t, All)
      /\ t.took \in [Phones -> Slots \cup {NoValue}]
      /\ owner \in [Phones -> Slots \cup {Staff, NoValue}]
  BY Facts, Fields
<1>2. owner[p] \in All \cup {Staff, NoValue}
  BY DEF IInv, OnRecord
<1>3. t.kind # "update" => t.took[p] \in Here(r, t) \cup Now(r, t) \cup {NoValue}
  BY <1>1 DEF Inserts
<1>4. t.kind = "update" => t.took[p] \in All \cup {NoValue}
  BY <1>1 DEF Updates
<1> QED
  BY <1>1, <1>2, <1>3, <1>4 DEF OwnerSeen

LEMMA FindParentStep ==
  ASSUME IInv, NEW r \in Requests, FindParent(r)
  PROVE  IInv'
<1> DEFINE t == tx[r]
           u == OwnerSeen(r, Current(r).phone)
           f == IF u = Staff THEN NoValue ELSE u
           h == [t EXCEPT !.step = "account", !.found = f]
<1>1. /\ t \in Handler /\ Shape(t) /\ Inserts(r, t, All) /\ Updates(t, All)
      /\ t.step = "parent" /\ t.step \in Steps
  BY Facts DEF FindParent, AtStep, Steps
<1>2. Current(r).phone \in Phones
  BY <1>1, LineAtHand, LineFields
<1>3. /\ u \in Slots \cup {Staff, NoValue}
      /\ t.kind # "update" => u \in All \cup Here(r, t) \cup Now(r, t) \cup {Staff, NoValue}
      /\ t.kind = "update" => u \in All \cup {Staff, NoValue}
  BY <1>1, <1>2, OwnersSeen
<1>4. Step(r, h)
  BY DEF FindParent
<1> HIDE DEF u
<1>5. /\ f \in Slots \cup {NoValue}
      /\ t.kind # "update" => f \in All \cup Here(r, t) \cup Now(r, t) \cup {NoValue}
      /\ t.kind = "update" => f \in All \cup {NoValue}
  BY <1>3
<1> HIDE DEF f
<1>6. /\ h \in Handler /\ h.step = "account" /\ h.number = t.number /\ h.found = f
      /\ h.kind = t.kind /\ h.lines = t.lines /\ h.at = t.at
  BY <1>1, <1>5 DEF Handler, Steps
<1>7. /\ h.linked = t.linked /\ h.outcome = t.outcome /\ h.wrote = t.wrote
      /\ h.took = t.took /\ h.freed = t.freed
  BY <1>1 DEF Handler
<1> HIDE DEF h
<1>8. Shape(h)
  BY <1>1, <1>6, <1>7 DEF Shape, Steps
<1>9. Here(r, h) = Here(r, t) /\ Now(r, h) = Now(r, t)
  BY <1>1, <1>6, <1>7 DEF Here, Now, Amid
<1>10. Inserts(r, h, All)
  BY <1>1, <1>5, <1>6, <1>7, <1>9 DEF Inserts, Amid
<1>11. Updates(h, All)
  BY <1>1, <1>5, <1>6, <1>7 DEF Updates, Amid
<1>12. \A n \in Numbers : h.wrote[n] = NoValue \/ t.wrote[n] # NoValue
  BY <1>7
<1> QED
  BY <1>1, <1>4, <1>6, <1>8, <1>10, <1>11, <1>12, OneStatement

LEMMA TakePhoneStep ==
  ASSUME IInv, NEW r \in Requests, TakePhone(r)
  PROVE  IInv'
<1> DEFINE t == tx[r]
           p == Current(r).phone
           parent == IF t.linked = NoValue THEN <<r, t.at>> ELSE t.linked
<1>1. /\ t \in Handler /\ Shape(t) /\ Inserts(r, t, All) /\ Updates(t, All)
      /\ t.step = "account" /\ t.step \in Steps \ {"commit"} /\ t.step \in Steps
      /\ All \subseteq Slots /\ NoValue \notin Slots
  BY Facts DEF TakePhone, AtStep, Steps
<1>2. p \in Phones /\ <<r, t.at>> \in Slots
  BY <1>1, LineAtHand, LineFields, HereIsNew
<1>3. /\ t.took \in [Phones -> Slots \cup {NoValue}] /\ t.freed \in SUBSET Phones
      /\ t.linked \in Slots \cup {NoValue} /\ t.found \in Slots \cup {NoValue}
  BY <1>1, Fields
<1>4. Now(r, t) = {<<r, t.at>>}
  BY <1>1 DEF Now, Amid
<1>5. CASE t.found # NoValue
  <2> DEFINE h == [t EXCEPT !.step = "link"]
  <2>1. Step(r, h)
    BY <1>5 DEF TakePhone
  <2>2. /\ h \in Handler /\ h.step = "link" /\ h.number = t.number /\ h.found = t.found
        /\ h.kind = t.kind /\ h.lines = t.lines /\ h.at = t.at
    BY <1>1 DEF Handler, Steps
  <2>3. /\ h.linked = t.linked /\ h.outcome = t.outcome /\ h.wrote = t.wrote
        /\ h.took = t.took /\ h.freed = t.freed
    BY <1>1 DEF Handler
  <2> HIDE DEF h
  <2>4. Shape(h)
    BY <1>1, <2>2, <2>3 DEF Shape, Steps
  <2>5. Here(r, h) = Here(r, t) /\ Now(r, h) = Now(r, t)
    BY <1>1, <2>2, <2>3 DEF Here, Now, Amid
  <2>6. Inserts(r, h, All)
    BY <1>1, <1>5, <2>2, <2>3, <2>5 DEF Inserts, Amid
  <2>7. Updates(h, All)
    BY <1>1, <1>5, <2>2, <2>3 DEF Updates, Amid
  <2>8. \A n \in Numbers : h.wrote[n] = NoValue \/ t.wrote[n] # NoValue
    BY <2>3
  <2> QED
    BY <1>1, <2>1, <2>2, <2>4, <2>6, <2>7, <2>8, OneStatement
<1>6. CASE t.found = NoValue /\ OwnerSeen(r, p) # NoValue
  BY <1>1, <1>6, FailingStep DEF TakePhone
<1>7. CASE t.found = NoValue /\ OwnerSeen(r, p) = NoValue
  <2> DEFINE took == [t.took EXCEPT ![p] = parent]
             freed == IF t.linked = NoValue THEN t.freed
                      ELSE {o \in Phones : OwnerSeen(r, o) = parent}
             h == [t EXCEPT !.step = "link", !.found = parent, !.took = took, !.freed = freed]
  <2>1. Step(r, h)
    BY <1>7 DEF TakePhone, NewParent, Slot
  <2>2. /\ parent \in Slots
        /\ t.kind # "update" => parent = <<r, t.at>> /\ t.linked = NoValue
        /\ t.kind = "update" => parent \in All
    BY <1>1, <1>2, <1>3 DEF Inserts, Updates, Amid
  <2> HIDE DEF parent, p
  <2>3. /\ took \in [Phones -> Slots \cup {NoValue}]
        /\ \A o \in Phones : took[o] \in {t.took[o], parent}
    BY <1>2, <1>3, <2>2
  <2>4. /\ freed \in SUBSET Phones
        /\ t.kind # "update" => freed = t.freed
    BY <1>3, <2>2
  <2> HIDE DEF took, freed
  <2>5. /\ h \in Handler /\ h.step = "link" /\ h.number = t.number /\ h.found = parent
        /\ h.kind = t.kind /\ h.lines = t.lines /\ h.at = t.at
    BY <1>1, <2>2, <2>3, <2>4 DEF Handler, Steps
  <2>6. /\ h.linked = t.linked /\ h.outcome = t.outcome /\ h.wrote = t.wrote
        /\ h.took = took /\ h.freed = freed
    BY <1>1 DEF Handler
  <2> HIDE DEF h
  <2>7. Shape(h)
    BY <1>1, <2>5, <2>6 DEF Shape, Steps
  <2>8. Here(r, h) = Here(r, t) /\ Now(r, h) = Now(r, t)
    BY <1>1, <2>5, <2>6 DEF Here, Now, Amid
  <2>9. Inserts(r, h, All)
    <3>1. t.kind # "update" => \A o \in Phones : h.took[o] \in Here(r, t) \cup Now(r, t) \cup {NoValue}
      BY <1>1, <1>4, <2>2, <2>3, <2>6 DEF Inserts
    <3>2. t.kind # "update" => h.freed = {} /\ h.linked = NoValue
      BY <1>1, <2>4, <2>6 DEF Inserts
    <3> QED
      BY <1>1, <1>4, <2>2, <2>5, <2>6, <2>8, <3>1, <3>2 DEF Inserts, Amid
  <2>10. Updates(h, All)
    <3>1. t.kind = "update" => \A o \in Phones : h.took[o] \in All \cup {NoValue}
      BY <1>1, <2>2, <2>3, <2>6 DEF Updates
    <3> QED
      BY <1>1, <2>2, <2>5, <2>6, <3>1 DEF Updates, Amid
  <2>11. \A n \in Numbers : h.wrote[n] = NoValue \/ t.wrote[n] # NoValue
    BY <2>6
  <2> QED
    BY <1>1, <2>1, <2>5, <2>7, <2>9, <2>10, <2>11, OneStatement
<1> QED
  BY <1>5, <1>6, <1>7

LEMMA LinkStep ==
  ASSUME IInv, NEW r \in Requests, LinkGuardian(r)
  PROVE  IInv'
<1> DEFINE t == tx[r]
           n == t.number
           row == [StudentSeen(r, n) EXCEPT !.guardian = t.found]
           v == IF t.found = t.linked THEN t.wrote[n] ELSE row
           u == [t EXCEPT !.wrote[n] = v]
           h == NextLine(u, "ok")
<1>1. /\ t \in Handler /\ Shape(t) /\ Inserts(r, t, All) /\ Updates(t, All)
      /\ t.step = "link" /\ t.step \in Steps \ {"commit"} /\ t.step \in Steps
      /\ Blockers(r) = {} /\ All \subseteq Slots /\ NoValue \notin Slots
      /\ student \in [Numbers -> Row \cup {NoValue}]
  BY Facts DEF LinkGuardian, AtStep, Steps
<1>2. /\ t.wrote \in [Numbers -> Row \cup {NoValue}] /\ t.at \in Nat
      /\ t.outcome \in Seq({"ok", "error"}) /\ t.lines \in Seq(Line)
      /\ t.kind \in {"none", "create", "import", "dryRun", "update"}
      /\ t.found \in Slots \cup {NoValue}
  BY <1>1, Fields
<1>3. CASE t.kind = "dryRun"
  <2>1. Step(r, NextLine(WithoutLine(r), "ok"))
    BY <1>1, <1>3 DEF LinkGuardian, KeepLine, Handler
  <2>2. WithoutLine(r) \in Handler /\ Alike(WithoutLine(r), WithoutLine(r))
    BY LineUndone DEF Alike
  <2> QED
    BY <1>1, <1>3, <2>1, <2>2, DropStep
<1>4. CASE t.kind # "dryRun"
  <2>1. Step(r, h)
    BY <1>1, <1>4 DEF LinkGuardian, KeepLine, Handler
  <2>2. /\ n \in Numbers /\ t.found \in Slots
        /\ StudentSeen(r, n) # NoValue /\ StudentSeen(r, n) \in Row
    <3>1. CASE t.kind = "update"
      BY <1>1, <1>2, <3>1 DEF Updates, StudentSeen, Amid
    <3>2. CASE t.kind # "update"
      <4>1. /\ n \in Numbers /\ t.wrote[n] # NoValue
            /\ t.found \in All \cup Here(r, t) \cup Now(r, t)
        BY <1>1, <3>2 DEF Inserts, Amid
      <4>2. Now(r, t) \subseteq Slots /\ Here(r, t) \subseteq Slots
        BY <1>1, HereIsNew DEF Now
      <4> QED
        BY <1>1, <1>2, <4>1, <4>2 DEF StudentSeen
    <3> QED
      BY <3>1, <3>2
  <2>3. /\ row \in Row /\ row # NoValue /\ row.slot = StudentSeen(r, n).slot
        /\ row.guardian = t.found
    BY <2>2, RowsAssumption DEF Row
  <2> HIDE DEF row
  <2>4. v \in Row \cup {NoValue}
    BY <1>2, <2>2, <2>3
  <2>5. v = IF t.found = t.linked THEN t.wrote[n] ELSE row
    OBVIOUS
  <2> HIDE DEF v
  <2>6. /\ u \in Handler /\ u.kind = t.kind /\ u.lines = t.lines /\ u.at = t.at
        /\ u.linked = t.linked /\ u.outcome = t.outcome
    BY <1>1, <2>4 DEF Handler
  <2>7. /\ u.took = t.took /\ u.freed = t.freed
        /\ \A m \in Numbers : u.wrote[m] = IF m = n THEN v ELSE t.wrote[m]
    BY <1>1, <1>2, <2>2 DEF Handler
  <2> HIDE DEF u
  <2>8. /\ h \in Handler
        /\ h.step = IF u.at = Len(u.lines) THEN "commit" ELSE "row"
        /\ h.at = IF u.at = Len(u.lines) THEN u.at ELSE u.at + 1
        /\ h.kind = u.kind /\ h.lines = u.lines /\ h.linked = u.linked
        /\ h.outcome = Append(u.outcome, "ok") /\ h.wrote = u.wrote /\ h.took = u.took
        /\ h.freed = u.freed
    BY <2>6, NextLineIs
  <2> HIDE DEF h
  <2>9. /\ h.step = IF t.at = Len(t.lines) THEN "commit" ELSE "row"
        /\ h.at = IF t.at = Len(t.lines) THEN t.at ELSE t.at + 1
    BY <2>6, <2>8
  <2>10. /\ h.kind = t.kind /\ h.lines = t.lines /\ h.linked = t.linked
         /\ h.outcome = Append(t.outcome, "ok") /\ h.took = t.took /\ h.freed = t.freed
         /\ \A m \in Numbers : h.wrote[m] = IF m = n THEN v ELSE t.wrote[m]
    BY <2>6, <2>7, <2>8
  <2>11. /\ Len(h.outcome) = Len(t.outcome) + 1 /\ Len(t.outcome) = t.at - 1
         /\ t.at \in 1..Len(t.lines) /\ Len(t.lines) \in Nat /\ Len(t.lines) <= MaxLines
         /\ t.kind \in {"create", "update"} => Len(t.lines) = 1
    BY <1>1, <1>2, <2>10, LenIsNat, Longer DEF Shape
  <2>12. Shape(h)
    <3>1. h.at \in 1..Len(h.lines) /\ Len(h.lines) <= MaxLines
      BY <2>9, <2>10, <2>11
    <3>2. Len(h.outcome) = IF h.step = "commit" THEN h.at ELSE h.at - 1
      BY <1>2, <2>9, <2>11
    <3>3. /\ h.step \in {"commit", "row"} /\ h.kind # "none"
          /\ h.kind \in {"create", "update"} => Len(h.lines) = 1
      BY <1>1, <2>9, <2>10, <2>11 DEF Shape
    <3> QED
      BY <3>1, <3>2, <3>3 DEF Shape, Steps
  <2>13. \A m \in Numbers : \/ h.wrote[m] = NoValue \/ t.wrote[m] # NoValue
                            \/ \A q \in Requests \ {r} : tx[q].wrote[m] = NoValue
    <3>1. t.found # t.linked => \A q \in Requests \ {r} : tx[q].wrote[n] = NoValue
      BY <1>1 DEF Blockers
    <3> QED
      BY <2>5, <2>10, <3>1
  <2>14. Inserts(r, h, All) /\ Updates(h, All)
    <3>1. CASE t.kind = "update"
      <4>1. h.step = "commit"
        <5>1. Len(t.lines) = 1 /\ t.at \in 1..Len(t.lines)
          BY <2>11, <3>1
        <5>2. t.at = Len(t.lines)
          BY <5>1
        <5> QED
          BY <2>9, <5>2
      <4>2. \A m \in Numbers : h.wrote[m] # NoValue =>
              /\ student[m] # NoValue /\ h.wrote[m].slot = student[m].slot
              /\ h.wrote[m].guardian \in All
        <5>1. /\ student[n] # NoValue /\ t.found \in All
              /\ \A m \in Numbers : t.wrote[m] # NoValue =>
                    /\ student[m] # NoValue /\ t.wrote[m].slot = student[m].slot
                    /\ t.wrote[m].guardian \in All
          BY <1>1, <3>1 DEF Updates
        <5>2. row.slot = student[n].slot /\ row.guardian \in All
          BY <2>2, <2>3, <5>1 DEF StudentSeen
        <5> QED
          BY <2>2, <2>5, <2>10, <5>1, <5>2
      <4>3. \A p \in Phones : h.took[p] \in All \cup {NoValue}
        BY <1>1, <2>10, <3>1 DEF Updates
      <4> QED
        BY <2>10, <3>1, <4>1, <4>2, <4>3 DEF Updates, Inserts, Amid
    <3>2. CASE t.kind # "update"
      <4> DEFINE s == <<r, t.at>>
                 H == Here(r, t)
      <4>1. /\ t.kind \in {"create", "import"} /\ Now(r, t) = {s} /\ Now(r, h) = {}
            /\ s \notin H /\ H \subseteq Slots /\ s \in Slots
        <5>1. t.kind \in {"create", "import"}
          BY <1>1, <1>2, <1>4, <3>2 DEF Shape
        <5>2. Now(r, t) = {s} /\ Now(r, h) = {}
          BY <1>1, <2>9 DEF Now, Amid
        <5> QED
          BY <1>1, <5>1, <5>2, HereIsNew
      <4>2. Here(r, h) = H \cup {s}
        <5>1. {<<r, i>> : i \in {j \in DOMAIN h.outcome : h.outcome[j] = "ok"}}
              = {<<r, i>> : i \in {j \in DOMAIN t.outcome : t.outcome[j] = "ok"}}
                  \cup {<<r, Len(t.outcome) + 1>>}
          BY <1>2, <2>10, NextHere
        <5>2. Len(t.outcome) + 1 = t.at
          BY <1>2, <2>11
        <5> QED
          BY <2>10, <4>1, <5>1, <5>2 DEF Here
      <4>3. /\ t.wrote[n] # NoValue /\ t.wrote[n].slot = s
            /\ t.found \in All \cup H \cup {s} /\ t.linked = NoValue /\ t.freed = {}
        BY <1>1, <3>2, <4>1 DEF Inserts, Amid
      <4>4. row.slot = s /\ row.guardian \in All \cup H \cup {s} /\ v = row
        BY <1>1, <2>2, <2>3, <2>5, <4>3 DEF StudentSeen
      <4> HIDE DEF s, H
      <4>5. \A m \in Numbers : h.wrote[m] # NoValue =>
              /\ student[m] = NoValue /\ h.wrote[m].slot \in H \cup {s}
              /\ h.wrote[m].guardian \in All \cup H \cup {s}
        <5>1. \A m \in Numbers : t.wrote[m] # NoValue =>
                /\ student[m] = NoValue /\ t.wrote[m].slot \in H \cup {s}
                /\ t.wrote[m].slot \in H => t.wrote[m].guardian \in All \cup H
          BY <1>1, <3>2, <4>1 DEF Inserts, H
        <5>2. \A m \in Numbers : m # n /\ t.wrote[m] # NoValue => t.wrote[m].slot # s
          BY <1>1, <2>2, <3>2, <4>3 DEF Inserts
        <5> QED
          BY <2>2, <2>10, <4>3, <4>4, <5>1, <5>2
      <4>6. \A m, o \in Numbers : h.wrote[m] # NoValue /\ h.wrote[o] # NoValue
                                  /\ h.wrote[m].slot = h.wrote[o].slot => m = o
        <5>1. \A m \in Numbers : h.wrote[m] # NoValue =>
                 t.wrote[m] # NoValue /\ h.wrote[m].slot = t.wrote[m].slot
          BY <2>10, <4>3, <4>4
        <5> QED
          BY <1>1, <3>2, <5>1 DEF Inserts
      <4>7. ASSUME NEW z \in H \cup {s}
            PROVE  \E m \in Numbers : h.wrote[m] # NoValue /\ h.wrote[m].slot = z
        <5>1. CASE z = s
          BY <2>2, <2>3, <2>10, <4>4, <5>1
        <5>2. CASE z \in H
          <6>1. PICK m \in Numbers : t.wrote[m] # NoValue /\ t.wrote[m].slot = z
            BY <1>1, <3>2, <5>2 DEF Inserts, H
          <6>2. h.wrote[m] # NoValue /\ h.wrote[m].slot = z
            BY <2>3, <2>10, <4>3, <4>4, <6>1
          <6> QED
            BY <6>2
        <5> QED
          BY <5>1, <5>2
      <4>8. \A p \in Phones : h.took[p] \in H \cup {s} \cup {NoValue}
        BY <1>1, <2>10, <3>2, <4>1 DEF Inserts, H
      <4>9. h.step \notin Amid /\ h.linked = NoValue /\ h.freed = {} /\ h.kind # "update"
        BY <2>9, <2>10, <3>2, <4>3 DEF Amid
      <4> QED
        BY <4>1, <4>2, <4>5, <4>6, <4>7, <4>8, <4>9 DEF Inserts, Updates, Amid
    <3> QED
      BY <3>1, <3>2
  <2>15. h.step # "done" /\ t.step # "done"
    BY <1>1, <2>9
  <2> QED
    BY <2>1, <2>8, <2>12, <2>13, <2>14, <2>15, OneStatement
<1> QED
  BY <1>3, <1>4

-----------------------------------------------------------------------------
(* A request ends *)

\* The lines of a request that commits are on record from then on.
LEMMA AllGrows ==
  ASSUME IInv, NEW r \in Requests, tx[r].step \in Steps, NEW d,
         tx' = [tx EXCEPT ![r] = d], d.step = "done", d.kind = tx[r].kind,
         d.outcome = tx[r].outcome
  PROVE  All' = All \cup Here(r, tx[r])
<1>1. tx'[r] = d /\ (\A q \in Requests \ {r} : tx'[q] = tx[q]) /\ tx[r].step # "done"
  BY Facts DEF Steps
<1>2. \A q \in Requests \ {r} : Admitted(q)' = Admitted(q)
  BY <1>1 DEF Admitted
<1>3. Admitted(r) = {} /\ Admitted(r)' = Here(r, tx[r])
  BY <1>1 DEF Admitted, Here
<1> QED
  BY <1>2, <1>3 DEF All

LEMMA CommitStep ==
  ASSUME IInv, NEW r \in Requests, Commit(r)
  PROVE  IInv'
<1> DEFINE t == tx[r]
           b == t.alone /\ version = t.began
           d == [Idle EXCEPT !.step = "done", !.kind = t.kind, !.lines = t.lines,
                             !.outcome = t.outcome, !.began = t.began, !.alone = b]
           H == Here(r, t)
<1>1. /\ tx \in [Requests -> Handler] /\ t \in Handler /\ Shape(t)
      /\ Inserts(r, t, All) /\ Updates(t, All) /\ t.step = "commit" /\ t.step \in Steps
      /\ student \in [Numbers -> Row \cup {NoValue}] /\ All \subseteq Slots
      /\ owner \in [Phones -> Slots \cup {Staff, NoValue}] /\ version \in Nat
      /\ NoValue \notin Slots
  BY Facts DEF Commit, AtStep, Steps
<1>2. /\ t.wrote \in [Numbers -> Row \cup {NoValue}]
      /\ t.took \in [Phones -> Slots \cup {NoValue}]
      /\ t.outcome \in Seq({"ok", "error"}) /\ t.at \in Nat /\ t.lines \in Seq(Line)
  BY <1>1, Fields
<1>3. /\ student' = [n \in Numbers |-> StudentSeen(r, n)]
      /\ owner' = [p \in Phones |-> OwnerSeen(r, p)]
      /\ version' \in {version, version + 1}
      /\ tx' = [tx EXCEPT ![r] = d]
  BY DEF Commit
<1>4. b \in BOOLEAN
  OBVIOUS
<1> HIDE DEF b
<1>5. d = [Idle EXCEPT !.step = "done", !.kind = t.kind, !.lines = t.lines,
                       !.outcome = t.outcome, !.began = t.began, !.alone = b]
  OBVIOUS
<1> HIDE DEF d
<1>6. /\ d \in Handler /\ d.step = "done" /\ d.kind = t.kind /\ d.outcome = t.outcome
      /\ \A n \in Numbers : d.wrote[n] = NoValue
      /\ \A p \in Phones : d.took[p] = NoValue
  <2>1. t.kind \in {"none", "create", "import", "dryRun", "update"} /\ t.began \in Nat
    BY <1>1, Fields
  <2>2. d \in Handler
    BY <1>2, <1>4, <1>5, <2>1, IdleHandler DEF Handler
  <2>3. d.step = "done" /\ d.kind = t.kind /\ d.outcome = t.outcome
    BY <1>5, IdleHandler DEF Handler
  <2>4. d.wrote = Idle.wrote /\ d.took = Idle.took
    BY <1>5, IdleHandler DEF Handler
  <2> QED
    BY <2>2, <2>3, <2>4, IdleHandler
<1>7. /\ tx'[r] = d /\ \A q \in Requests \ {r} : tx'[q] = tx[q]
      /\ tx' \in [Requests -> Handler]
  BY <1>1, <1>3, <1>6
<1>8. All' = All \cup H
  BY <1>1, <1>3, <1>6, AllGrows
<1>9. Now(r, t) = {}
  BY <1>1 DEF Now, Amid
<1>10. /\ \A n \in Numbers : student'[n] = IF t.wrote[n] # NoValue THEN t.wrote[n] ELSE student[n]
       /\ \A p \in Phones : owner'[p] = IF t.took[p] # NoValue THEN t.took[p]
                                         ELSE IF p \in t.freed THEN NoValue ELSE owner[p]
  BY <1>3 DEF StudentSeen, OwnerSeen
<1>11. TypeOK'
  <2>1. student' \in [Numbers -> Row \cup {NoValue}]
    BY <1>1, <1>2, <1>3, <1>10
  <2>2. owner' \in [Phones -> Slots \cup {Staff, NoValue}]
    BY <1>1, <1>2, <1>3, <1>10
  <2>3. version' \in Nat
    BY <1>1, <1>3
  <2> QED
    BY <1>7, <2>1, <2>2, <2>3 DEF TypeOK
<1>12. Exclusive'
  BY <1>6, <1>7 DEF IInv, Exclusive
<1>13. /\ t.kind = "update" => \A n \in Numbers : t.wrote[n] # NoValue =>
              /\ student[n] # NoValue /\ t.wrote[n].slot = student[n].slot
              /\ t.wrote[n].guardian \in All
       /\ t.kind # "update" =>
              /\ \A n \in Numbers : t.wrote[n] # NoValue =>
                    /\ student[n] = NoValue /\ t.wrote[n].slot \in H
                    /\ t.wrote[n].guardian \in All \cup H
              /\ \A n, m \in Numbers : t.wrote[n] # NoValue /\ t.wrote[m] # NoValue
                                       /\ t.wrote[n].slot = t.wrote[m].slot => n = m
       /\ t.kind = "update" => H = {}
       /\ \A s \in H : \E n \in Numbers : t.wrote[n] # NoValue /\ t.wrote[n].slot = s
       /\ \A p \in Phones : t.took[p] \in All \cup H \cup {NoValue}
  <2>1. CASE t.kind = "update"
    BY <1>1, <2>1 DEF Updates, Here
  <2>2. CASE t.kind # "update"
    BY <1>1, <1>9, <2>2 DEF Inserts
  <2> QED
    BY <2>1, <2>2
<1>14. /\ \A n \in Numbers : student[n] # NoValue =>
              student[n].slot \in All /\ student[n].guardian \in All
       /\ \A n, m \in Numbers : student[n] # NoValue /\ student[m] # NoValue
                                /\ student[n].slot = student[m].slot => n = m
       /\ \A s \in All : \E n \in Numbers : student[n] # NoValue /\ student[n].slot = s
       /\ \A p \in Phones : owner[p] \in All \cup {Staff, NoValue}
       /\ \A s \in H : s \notin All
  BY <1>1, HereIsNew DEF IInv, OnRecord
<1> HIDE DEF H
<1>15. /\ \A n \in Numbers : student[n] # NoValue =>
              student'[n] # NoValue /\ student'[n].slot = student[n].slot
       /\ \A n \in Numbers : t.wrote[n] = NoValue => student'[n] = student[n]
  BY <1>10, <1>13
<1>16. OnRecord(All)'
  <2>1. \A n \in Numbers : student'[n] # NoValue =>
          student'[n].slot \in All \cup H /\ student'[n].guardian \in All \cup H
    BY <1>10, <1>13, <1>14
  <2>2. ASSUME NEW n \in Numbers, NEW m \in Numbers, student'[n] # NoValue,
               student'[m] # NoValue, student'[n].slot = student'[m].slot
        PROVE  n = m
    <3>1. CASE t.kind = "update"
      <4>1. /\ student[n] # NoValue /\ student'[n].slot = student[n].slot
            /\ student[m] # NoValue /\ student'[m].slot = student[m].slot
        BY <1>10, <1>13, <1>15, <2>2, <3>1
      <4>2. student[n].slot = student[m].slot
        BY <2>2, <4>1
      <4>3. \A k, l \in Numbers : student[k] # NoValue /\ student[l] # NoValue
                                 /\ student[k].slot = student[l].slot => k = l
        BY <1>14
      <4> QED
        BY <4>1, <4>2, <4>3
    <3>2. CASE t.kind # "update"
      <4>1. /\ \/ t.wrote[n] # NoValue /\ student'[n] = t.wrote[n] /\ student'[n].slot \in H
               \/ t.wrote[n] = NoValue /\ student'[n] = student[n] /\ student'[n].slot \in All
            /\ \/ t.wrote[m] # NoValue /\ student'[m] = t.wrote[m] /\ student'[m].slot \in H
               \/ t.wrote[m] = NoValue /\ student'[m] = student[m] /\ student'[m].slot \in All
        BY <1>10, <1>13, <1>14, <2>2, <3>2
      <4> QED
        BY <1>13, <1>14, <2>2, <3>2, <4>1
    <3> QED
      BY <3>1, <3>2
  <2>3. ASSUME NEW s \in All \cup H
        PROVE  \E n \in Numbers : student'[n] # NoValue /\ student'[n].slot = s
    <3>1. CASE s \in All
      <4>1. PICK n \in Numbers : student[n] # NoValue /\ student[n].slot = s
        BY <1>14, <3>1
      <4>2. student'[n] # NoValue /\ student'[n].slot = s
        BY <1>15, <4>1
      <4> QED
        BY <4>2
    <3>2. CASE s \in H
      BY <1>10, <1>13, <3>2
    <3> QED
      BY <3>1, <3>2
  <2>4. \A p \in Phones : owner'[p] \in (All \cup H) \cup {Staff, NoValue}
    BY <1>10, <1>13, <1>14
  <2> QED
    BY <1>8, <2>1, <2>2, <2>3, <2>4 DEF OnRecord
<1>17. ASSUME NEW q \in Requests PROVE Shape(tx[q])'
  <2>1. CASE q = r
    <3>1. Len(d.outcome) <= MaxLines
      <4>1. /\ Len(t.outcome) = t.at /\ t.at \in 1..Len(t.lines) /\ Len(t.lines) <= MaxLines
        BY <1>1 DEF Shape
      <4>2. Len(t.lines) \in Nat /\ MaxLines \in Nat
        BY <1>2, LenIsNat, BoundsAssumption
      <4>3. t.at <= MaxLines
        BY <4>1, <4>2
      <4> QED
        BY <1>6, <4>1, <4>3
    <3>2. Shape(d)
      BY <1>6, <3>1 DEF Shape, Steps
    <3> QED
      BY <1>7, <2>1, <3>2 DEF Shape
  <2>2. CASE q # r
    <3>1. Shape(tx[q]) /\ tx'[q] = tx[q]
      BY <1>7, <2>2 DEF IInv
    <3> QED
      BY <3>1 DEF Shape
  <2> QED
    BY <2>1, <2>2
<1>18. ASSUME NEW q \in Requests PROVE Inserts(q, tx[q], All)' /\ Updates(tx[q], All)'
  <2>1. CASE q = r
    BY <1>6, <1>7, <2>1 DEF Inserts, Updates, Steps
  <2>2. CASE q # r
    <3> DEFINE u == tx[q]
    <3>1. /\ Inserts(q, u, All) /\ Updates(u, All) /\ tx'[q] = u /\ All \subseteq All'
          /\ \A n \in Numbers : u.wrote[n] # NoValue => student'[n] = student[n]
          /\ \A n \in Numbers : student[n] # NoValue => student'[n] # NoValue
      <4>1. Inserts(q, u, All) /\ Updates(u, All) /\ tx'[q] = u /\ All \subseteq All'
        BY <1>7, <1>8, <2>2 DEF IInv
      <4>2. \A n \in Numbers : u.wrote[n] = NoValue \/ t.wrote[n] = NoValue
        BY <2>2 DEF IInv, Exclusive
      <4> QED
        BY <1>15, <4>1, <4>2
    <3> HIDE DEF u
    <3>2. Here(q, tx[q])' = Here(q, u) /\ Now(q, tx[q])' = Now(q, u)
      BY <3>1 DEF Here, Now
    <3>3. Inserts(q, tx[q], All)'
      BY <3>1, <3>2 DEF Inserts
    <3>4. Updates(tx[q], All)'
      BY <3>1 DEF Updates
    <3> QED
      BY <3>3, <3>4
  <2> QED
    BY <2>1, <2>2
<1> QED
  BY <1>11, <1>12, <1>16, <1>17, <1>18 DEF IInv

LEMMA DeadlockStep ==
  ASSUME IInv, NEW r \in Requests, BreakDeadlock(r)
  PROVE  IInv'
<1>1. tx[r].step \in Steps /\ Blockers(r) # {}
  BY DEF BreakDeadlock, Open
<1>2. tx[r].step \in {"student", "details", "link", "account"}
  BY <1>1 DEF Blockers
<1> QED
  BY <1>2, FailingStep DEF BreakDeadlock, Steps

LEMMA HireStep ==
  ASSUME IInv, NEW p \in Phones, HireTeacher(p)
  PROVE  IInv'
<1>1. /\ owner \in [Phones -> Slots \cup {Staff, NoValue}] /\ version \in Nat
      /\ owner' = [owner EXCEPT ![p] = Staff] /\ version' = version + 1
      /\ student' = student /\ tx' = tx
  BY DEF IInv, TypeOK, HireTeacher
<1>2. TypeOK'
  BY <1>1 DEF IInv, TypeOK
<1>3. All' = All
  BY <1>1 DEF All, Admitted
<1>4. OnRecord(All)'
  <2>1. \A o \in Phones : owner'[o] \in {owner[o], Staff}
    BY <1>1
  <2> QED
    BY <1>1, <1>3, <2>1 DEF IInv, OnRecord
<1>5. Exclusive'
  BY <1>1 DEF IInv, Exclusive
<1>6. ASSUME NEW q \in Requests
      PROVE  Shape(tx[q])' /\ Inserts(q, tx[q], All)' /\ Updates(tx[q], All)'
  <2>1. Shape(tx[q]) /\ Inserts(q, tx[q], All) /\ Updates(tx[q], All)
    BY DEF IInv
  <2>2. Shape(tx[q])'
    BY <1>1, <2>1 DEF Shape
  <2>3. Inserts(q, tx'[q], All') /\ Updates(tx'[q], All') /\ student' = student
    BY <1>1, <1>3, <2>1
  <2>4. Inserts(q, tx[q], All)'
    BY <2>3 DEF Inserts, Here, Now
  <2>5. Updates(tx[q], All)'
    BY <2>3 DEF Updates
  <2> QED
    BY <2>2, <2>4, <2>5
<1> QED
  BY <1>2, <1>4, <1>5, <1>6 DEF IInv

-----------------------------------------------------------------------------
(* The invariant *)

LEMMA Start == Init => IInv
<1> SUFFICES ASSUME Init PROVE IInv
  OBVIOUS
<1>1. \A r \in Requests : tx[r] = Idle
  BY DEF Init
<1>2. TypeOK
  <2>1. student \in [Numbers -> Row \cup {NoValue}] /\ version \in Nat
    BY DEF Init
  <2>2. owner \in [Phones -> Slots \cup {Staff, NoValue}]
    BY DEF Init
  <2>3. tx \in [Requests -> Handler]
    BY IdleHandler DEF Init
  <2> QED
    BY <2>1, <2>2, <2>3 DEF TypeOK
<1>3. All = {}
  BY <1>1, IdleHandler DEF All, Admitted
<1>4. OnRecord(All)
  BY <1>3 DEF OnRecord, Init
<1>5. Exclusive
  BY <1>1, IdleHandler DEF Exclusive
<1>6. Shape(Idle)
  BY IdleHandler DEF Shape, Steps
<1>7. \A r \in Requests : Inserts(r, Idle, All) /\ Updates(Idle, All)
  BY IdleHandler DEF Inserts, Updates, Steps
<1> QED
  BY <1>1, <1>2, <1>4, <1>5, <1>6, <1>7 DEF IInv

LEMMA Preserved == IInv /\ [Next]_vars => IInv'
<1> SUFFICES ASSUME IInv, [Next]_vars PROVE IInv'
  OBVIOUS
<1>1. ASSUME NEW r \in Requests, Serve(r) PROVE IInv'
  BY <1>1, CheckStep, FindStudentStep, DetailsStep, InsertStep, FindParentStep,
     TakePhoneStep, LinkStep, CommitStep, DeadlockStep DEF Serve
<1>2. ASSUME NEW r \in Requests, Fail(r) PROVE IInv'
  BY <1>2, RollbackStep DEF Fail, Open
<1>3. CASE UNCHANGED vars
  <2>1. student' = student /\ owner' = owner /\ version' = version /\ tx' = tx
    BY <1>3 DEF vars
  <2>2. All' = All
    BY <2>1 DEF All, Admitted
  <2>3. TypeOK' /\ Exclusive' /\ OnRecord(All)'
    BY <2>1, <2>2 DEF IInv, TypeOK, Exclusive, OnRecord
  <2>4. ASSUME NEW q \in Requests
        PROVE  Shape(tx[q])' /\ Inserts(q, tx[q], All)' /\ Updates(tx[q], All)'
    <3>1. Shape(tx[q]) /\ Inserts(q, tx[q], All) /\ Updates(tx[q], All)
      BY DEF IInv
    <3>2. Shape(tx[q])'
      BY <2>1, <3>1 DEF Shape
    <3>3. Inserts(q, tx'[q], All') /\ Updates(tx'[q], All') /\ student' = student
      BY <2>1, <2>2, <3>1
    <3>4. Inserts(q, tx[q], All)'
      BY <3>3 DEF Inserts, Here, Now
    <3>5. Updates(tx[q], All)'
      BY <3>3 DEF Updates
    <3> QED
      BY <3>2, <3>4, <3>5
  <2> QED
    BY <2>3, <2>4 DEF IInv
<1> QED
  BY <1>1, <1>2, <1>3, ArriveStep, HireStep DEF Next

LEMMA AlwaysIInv == Spec => []IInv
  BY Start, Preserved, PTL DEF Spec

\* Types are kept (student rows, owners of phones, handlers).
THEOREM TypesKept == Spec => []TypeOK
<1>1. IInv => TypeOK
  BY DEF IInv
<1> QED
  BY <1>1, AlwaysIInv, PTL

\* StudentsService.create and bulkImport: whatever fails, waits, deadlocks or is only
\* tried out, the students on record are those answered with credentials, each with a
\* guardian, and no account was made by a line that was refused.
THEOREM LinesStayWhole == Spec => []WholeLinesOnly
<1>1. IInv => WholeLinesOnly
  <2> SUFFICES ASSUME IInv PROVE WholeLinesOnly
    OBVIOUS
  <2> DEFINE present == {n \in Numbers : student[n] # NoValue}
  <2>1. OnRecord(All)
    BY DEF IInv
  <2>2. {student[n].slot : n \in present} = All
    BY <2>1 DEF OnRecord
  <2>3. \A n, m \in present : student[n].slot = student[m].slot => n = m
    BY <2>1 DEF OnRecord
  <2>4. /\ \A n \in present : student[n].guardian \in All
        /\ \A p \in Phones : owner[p] \in All \cup {Staff, NoValue}
    BY <2>1 DEF OnRecord
  <2> QED
    BY <2>2, <2>3, <2>4 DEF WholeLinesOnly, All
<1> QED
  BY <1>1, AlwaysIInv, PTL

-----------------------------------------------------------------------------
(* The preview *)

\* The numbers the first i lines of a table give, and whether one asks for the next.
Given(l, i) == {l[j].number : j \in {k \in 1..i : l[k].number # NotGiven
                                                  /\ l[k].flaw # "incomplete"}}
NextAsked(l, i) == \E j \in 1..i : l[j].number = NotGiven

\* What is wrong with line i of a table as the committed rows stand, whoever tries it.
Repeats(l, i) == /\ l[i].number # NotGiven
                 /\ l[i].number \in Given(l, i - 1) \/ student[l[i].number] # NoValue

Refused(l, i) == l[i].flaw # "none" \/ Repeats(l, i) \/ owner[l[i].phone] = Staff

\* The answers so far of a request beside which nothing ran are what the committed
\* rows foretell; an import may refuse more.
Foretold(t) ==
    \A i \in 1..Len(t.outcome) :
       /\ Refused(t.lines, i) => t.outcome[i] = "error"
       /\ t.outcome[i] = "error" =>
             \/ Refused(t.lines, i)
             \/ /\ t.kind = "import" /\ t.lines[i].number # NotGiven
                /\ NextAsked(t.lines, i - 1)

\* What such a request knows of the line it is at.
Prospect(t) ==
    LET l == t.lines[t.at]
        past == IF t.step = "row" THEN t.at - 1 ELSE t.at
    IN /\ \A p \in Phones : t.took[p] # NoValue => owner[p] = NoValue
       /\ t.step = "commit" => t.at = Len(t.lines)
       /\ t.step # "commit" =>
             /\ t.processed = Given(t.lines, past)
             /\ \A n \in Numbers : t.wrote[n] # NoValue =>
                   n \in t.processed \/ NextAsked(t.lines, past)
       /\ t.step \notin {"row", "commit"} => l.flaw = "none" /\ ~Repeats(t.lines, t.at)
       /\ t.step = "student" => /\ student[t.number] = NoValue /\ t.wrote[t.number] = NoValue
                                /\ l.number # NotGiven => t.number = l.number
       /\ t.step = "account" => IF t.found # NoValue THEN owner[l.phone] # Staff
                                ELSE t.took[l.phone] = NoValue
                                     /\ owner[l.phone] \in {NoValue, Staff}
       /\ t.step = "link" => owner[l.phone] # Staff

Undisturbed(t) == t.alone /\ t.began = version /\ t.kind \in {"import", "dryRun"}

Foresight(t) ==
    /\ t.alone \in BOOLEAN /\ t.began <= version
    /\ Undisturbed(t) =>
          /\ t.step \in Steps => Foretold(t) /\ Prospect(t)
          /\ t.step = "done" => Foretold(t) /\ Len(t.outcome) = Len(t.lines)

Solitary == \A q, r \in Requests : tx[r].alone /\ Open(r) /\ Open(q) => q = r

PInv == IInv /\ PreviewIsHonest /\ Solitary /\ \A r \in Requests : Foresight(tx[r])

LEMMA GivenOnwards ==
  ASSUME NEW l, NEW i \in Nat \ {0}
  PROVE  /\ Given(l, i) = IF l[i].number # NotGiven /\ l[i].flaw # "incomplete"
                          THEN Given(l, i - 1) \cup {l[i].number} ELSE Given(l, i - 1)
         /\ NextAsked(l, i) <=> NextAsked(l, i - 1) \/ l[i].number = NotGiven
<1>1. \A k : k \in 1..i <=> k \in 1..(i - 1) \/ k = i
  OBVIOUS
<1> QED
  BY <1>1 DEF Given, NextAsked

\* A finite set of numbers that is not empty has a largest.
LEMMA Largest ==
  ASSUME NEW S, S \subseteq Numbers, S # {}
  PROVE  \E n \in S : \A m \in S : m <= n
<1> DEFINE R == StrictSubsetOrdering(S)
           Above(n) == {m \in S : n <= m}
           B == {Above(n) : n \in S}
<1>1. IsFiniteSet(S) /\ S \subseteq Nat
  <2>1. IsFiniteSet(1..MaxNumber) /\ S \subseteq 1..MaxNumber /\ MaxNumber \in Nat
    BY FS_Interval, BoundsAssumption DEF Numbers
  <2>2. IsFiniteSet(S)
    BY <2>1, FS_Subset
  <2> QED
    BY <2>1, <2>2
<1>2. IsWellFoundedOn(R, SUBSET S)
  BY <1>1, FS_StrictSubsetOrderingWellFounded, FS_FiniteSubsetsOfFinite
<1>3. B \subseteq SUBSET S /\ B # {}
  OBVIOUS
<1> HIDE DEF R, B
<1>4. PICK a \in B : \A b \in B : ~(<<b, a>> \in R)
  BY <1>2, <1>3, WFMin, Zenon
<1>5. PICK n \in S : a = Above(n)
  BY <1>4 DEF B
<1>6. ASSUME NEW m \in S, ~(m <= n) PROVE FALSE
  <2>1. m \in Nat /\ n \in Nat
    BY <1>1
  <2>2. n < m /\ n <= n /\ \A o \in S : m <= o => n <= o
    BY <1>1, <1>6, <2>1
  <2>3. Above(m) \subseteq Above(n) /\ n \in Above(n) /\ n \notin Above(m)
    BY <1>6, <2>1, <2>2
  <2>4. Above(m) \in B /\ Above(m) \in SUBSET S /\ Above(n) \in SUBSET S
    BY DEF B
  <2> HIDE DEF Above
  <2>5. <<Above(m), Above(n)>> \in R
    BY <2>3, <2>4 DEF R, StrictSubsetOrdering
  <2> QED
    BY <1>4, <1>5, <2>4, <2>5
<1> QED
  BY <1>6

\* The number a line without one gets is nobody's.
LEMMA NextNumberIsNew ==
  ASSUME NEW r \in Requests, NextNumber(r) \in Numbers
  PROVE  StudentSeen(r, NextNumber(r)) = NoValue
<1> DEFINE used == {n \in Numbers : StudentSeen(r, n) # NoValue}
           top == CHOOSE n \in used : \A m \in used : m <= n
           k == NextNumber(r)
<1>1. CASE used = {}
  BY <1>1
<1>2. CASE used # {}
  <2>1. \E n \in used : \A m \in used : m <= n
    BY <1>2, Largest
  <2>2. top \in used /\ \A m \in used : m <= top
    BY <2>1
  <2>3. k = top + 1
    BY <1>2 DEF NextNumber
  <2>4. top \in Int
    BY <2>2 DEF Numbers
  <2> HIDE DEF top, used, k
  <2>5. k \notin used
    BY <2>2, <2>3, <2>4
  <2> QED
    BY <2>5 DEF used, k
<1> QED
  BY <1>1, <1>2

-----------------------------------------------------------------------------
(* The preview: what a step leaves alone *)

LEMMA HonestKept ==
  ASSUME PInv,
         \A q \in Requests : tx'[q].step = "done" =>
            /\ tx[q].step = "done" /\ tx'[q].kind = tx[q].kind
            /\ tx'[q].alone = tx[q].alone /\ tx'[q].lines = tx[q].lines
            /\ tx'[q].began = tx[q].began /\ tx'[q].outcome = tx[q].outcome
  PROVE  PreviewIsHonest'
  BY DEF PInv, PreviewIsHonest

LEMMA ForesightKept ==
  ASSUME NEW q \in Requests, UNCHANGED <<student, owner, version>>,
         Foresight(tx'[q])
  PROVE  Foresight(tx[q])'
<1>1. /\ student' = student /\ owner' = owner /\ version' = version
  OBVIOUS
<1> QED
  BY <1>1 DEF Foresight, Undisturbed, Foretold, Prospect, Refused, Repeats

\* A statement of r.
LEMMA OneAnswer ==
  ASSUME PInv, NEW r \in Requests, tx[r].step \in Steps,
         NEW h, Step(r, h), h.step # "done", h.alone => tx[r].alone, Foresight(h)
  PROVE  PreviewIsHonest' /\ Solitary' /\ \A q \in Requests : Foresight(tx[q])'
<1>1. /\ tx \in [Requests -> Handler] /\ tx' = [tx EXCEPT ![r] = h]
      /\ UNCHANGED <<student, owner, version>>
  BY Facts DEF Step, PInv
<1>2. tx'[r] = h /\ \A q \in Requests \ {r} : tx'[q] = tx[q]
  BY <1>1
<1>3. PreviewIsHonest'
  <2>1. \A q \in Requests : tx'[q].step = "done" => tx'[q] = tx[q]
    BY <1>2
  <2> QED
    BY <2>1, HonestKept
<1>4. Solitary'
  BY <1>2 DEF PInv, Solitary, Open
<1>5. \A q \in Requests : Foresight(tx'[q])
  BY <1>2 DEF PInv
<1> QED
  BY <1>1, <1>3, <1>4, <1>5, ForesightKept

\* Nothing is foretold of a request that something ran beside.
LEMMA Unforeseen ==
  ASSUME PInv, NEW r \in Requests, ~Undisturbed(tx[r]),
         NEW h, h.alone = tx[r].alone, h.began = tx[r].began, h.kind = tx[r].kind
  PROVE  Foresight(h)
<1>1. tx[r].alone \in BOOLEAN /\ tx[r].began <= version
  BY DEF PInv, Foresight
<1> QED
  BY <1>1 DEF Undisturbed, Foresight

LEMMA RolledBack ==
  ASSUME PInv, NEW r \in Requests, tx[r].step \in Steps, Rollback(r)
  PROVE  PreviewIsHonest' /\ Solitary' /\ \A q \in Requests : Foresight(tx[q])'
<1> DEFINE h == [Idle EXCEPT !.step = "failed"]
<1>1. h.step = "failed" /\ ~h.alone /\ h.alone \in BOOLEAN /\ h.began = 0
  BY DEF Idle
<1>2. Step(r, h) /\ version \in Nat
  BY Facts DEF Rollback, PInv
<1> HIDE DEF h
<1>3. Foresight(h)
  BY <1>1, <1>2 DEF Foresight, Undisturbed
<1> QED
  BY <1>1, <1>2, <1>3, OneAnswer

-----------------------------------------------------------------------------
(* The preview: a line ends *)

LEMMA UndoneKeeps ==
  ASSUME NEW r \in Requests, tx[r] \in Handler
  PROVE  /\ WithoutLine(r).alone = tx[r].alone /\ WithoutLine(r).began = tx[r].began
  BY DEF WithoutLine, Handler

LEMMA NextLineKeeps ==
  ASSUME NEW t \in Handler, NEW x
  PROVE  LET h == NextLine(t, x) IN
         h.alone = t.alone /\ h.began = t.began /\ h.processed = t.processed
  BY DEF NextLine, Handler

LEMMA NextForetold ==
  ASSUME NEW t, NEW h, NEW x \in {"ok", "error"}, Foretold(t), t.outcome \in Seq({"ok", "error"}),
         h.outcome = Append(t.outcome, x), h.lines = t.lines, h.kind = t.kind,
         t.at \in Nat, Len(t.outcome) = t.at - 1,
         Refused(t.lines, t.at) => x = "error",
         x = "error" => \/ Refused(t.lines, t.at)
                        \/ /\ t.kind = "import" /\ t.lines[t.at].number # NotGiven
                           /\ NextAsked(t.lines, t.at - 1)
  PROVE  Foretold(h)
<1>1. /\ Len(h.outcome) = t.at /\ h.outcome[t.at] = x
      /\ \A i \in 1..Len(t.outcome) : h.outcome[i] = t.outcome[i]
  BY Longer
<1>2. ASSUME NEW i \in 1..Len(h.outcome) PROVE i \in 1..Len(t.outcome) \/ i = t.at
  BY <1>1
<1>3. SUFFICES ASSUME NEW i \in 1..Len(h.outcome)
               PROVE  /\ Refused(t.lines, i) => h.outcome[i] = "error"
                      /\ h.outcome[i] = "error" =>
                            \/ Refused(t.lines, i)
                            \/ /\ t.kind = "import" /\ t.lines[i].number # NotGiven
                               /\ NextAsked(t.lines, i - 1)
  BY DEF Foretold
<1>4. CASE i \in 1..Len(t.outcome)
  BY <1>1, <1>4 DEF Foretold
<1>5. CASE i = t.at
  BY <1>1, <1>5
<1> QED
  BY <1>2, <1>4, <1>5

\* What a line leaves, w, and its answer.
LEMMA LineAnswered ==
  ASSUME PInv, NEW r \in Requests, tx[r].step \in Steps \ {"commit"}, Undisturbed(tx[r]),
         NEW x \in {"ok", "error"}, NEW w \in Handler,
         w.lines = tx[r].lines, w.at = tx[r].at, w.kind = tx[r].kind,
         w.outcome = tx[r].outcome, w.alone = tx[r].alone, w.began = tx[r].began,
         w.processed = Given(w.lines, w.at),
         \A n \in Numbers : w.wrote[n] # NoValue =>
            n \in w.processed \/ NextAsked(w.lines, w.at),
         \A p \in Phones : w.took[p] # NoValue => owner[p] = NoValue,
         Refused(w.lines, w.at) => x = "error",
         x = "error" => \/ Refused(w.lines, w.at)
                        \/ /\ w.kind = "import" /\ w.lines[w.at].number # NotGiven
                           /\ NextAsked(w.lines, w.at - 1),
         Step(r, NextLine(w, x))
  PROVE  PreviewIsHonest' /\ Solitary' /\ \A q \in Requests : Foresight(tx[q])'
<1> DEFINE t == tx[r]
           h == NextLine(w, x)
<1>1. /\ t \in Handler /\ Shape(t) /\ Foretold(t) /\ t.step \in Steps
      /\ t.alone \in BOOLEAN /\ t.began <= version
  BY Facts DEF PInv, Foresight
<1>2. /\ t.outcome \in Seq({"ok", "error"}) /\ t.at \in Nat /\ Len(t.outcome) = t.at - 1
  BY <1>1, Fields DEF Shape
<1>3. /\ h.step = IF w.at = Len(w.lines) THEN "commit" ELSE "row"
      /\ h.at = IF w.at = Len(w.lines) THEN w.at ELSE w.at + 1
      /\ h.kind = w.kind /\ h.lines = w.lines
      /\ h.outcome = Append(w.outcome, x) /\ h.wrote = w.wrote /\ h.took = w.took
  BY NextLineIs
<1>4. h.alone = w.alone /\ h.began = w.began /\ h.processed = w.processed
  BY NextLineKeeps
<1> HIDE DEF h
<1>5. Foretold(h)
  BY <1>1, <1>2, <1>3, NextForetold
<1>6. Prospect(h)
  <2>1. \A p \in Phones : h.took[p] # NoValue => owner[p] = NoValue
    BY <1>3
  <2>2. CASE h.step = "row"
    <3>1. h.at - 1 = w.at
      BY <1>2, <1>3, <2>2
    <3> QED
      BY <1>3, <1>4, <2>1, <2>2, <3>1 DEF Prospect
  <2>3. CASE h.step = "commit"
    <3>1. h.at = Len(h.lines)
      BY <1>3, <2>3
    <3> QED
      BY <2>1, <2>3, <3>1 DEF Prospect
  <2> QED
    BY <1>3, <2>2, <2>3
<1>7. Foresight(h)
  BY <1>1, <1>3, <1>4, <1>5, <1>6 DEF Foresight
<1>8. h.step # "done" /\ (h.alone => t.alone) /\ Step(r, h)
  BY <1>3, <1>4 DEF h
<1> QED
  BY <1>1, <1>7, <1>8, OneAnswer

\* An error of a request something ran beside, or that is not of a table.
LEMMA FailsUnforeseen ==
  ASSUME PInv, NEW r \in Requests, tx[r].step \in Steps, ~Undisturbed(tx[r]), LineFails(r)
  PROVE  PreviewIsHonest' /\ Solitary' /\ \A q \in Requests : Foresight(tx[q])'
<1>1. CASE tx[r].kind \in {"import", "dryRun"}
  <2> DEFINE w == WithoutLine(r)
             h == NextLine(w, "error")
  <2>1. /\ w \in Handler /\ w.kind = tx[r].kind /\ w.alone = tx[r].alone
        /\ w.began = tx[r].began
    BY LineUndone, UndoneKeeps, Facts DEF PInv
  <2>2. /\ h.kind = tx[r].kind /\ h.alone = tx[r].alone /\ h.began = tx[r].began
        /\ h.step \in {"row", "commit"}
    <3> HIDE DEF w
    <3> QED
      BY <2>1, NextLineIs, NextLineKeeps
  <2>3. Step(r, h)
    BY <1>1 DEF LineFails
  <2> HIDE DEF h, w
  <2>4. Foresight(h)
    BY <2>2, Unforeseen
  <2> QED
    BY <2>2, <2>3, <2>4, OneAnswer
<1>2. CASE tx[r].kind \notin {"import", "dryRun"}
  BY <1>2, RolledBack DEF LineFails
<1> QED
  BY <1>1, <1>2

-----------------------------------------------------------------------------
(* The preview: a request begins and its lines are checked *)

LEMMA NotAloneIs ==
  ASSUME NEW t \in Handler, NEW b \in BOOLEAN
  PROVE  LET u == [t EXCEPT !.alone = b] IN
         /\ u.alone = b /\ u.began = t.began /\ u.kind = t.kind /\ u.step = t.step
         /\ u.lines = t.lines /\ u.outcome = t.outcome
  BY DEF Handler

LEMMA BeginKeepsPreview ==
  ASSUME PInv, NEW r \in Requests, NEW t \in Handler, Begin(r, t),
         t.at = 1, t.outcome = <<>>, t.processed = {},
         \A n \in Numbers : t.wrote[n] = NoValue,
         \A p \in Phones : t.took[p] = NoValue
  PROVE  PreviewIsHonest' /\ Solitary' /\ \A q \in Requests : Foresight(tx[q])'
<1> DEFINE alone == \A o \in Requests : ~Open(o)
           h == [t EXCEPT !.step = "row", !.began = version, !.alone = alone]
           other(q) == [tx[q] EXCEPT !.alone = @ /\ ~Open(q)]
<1>1. /\ tx' = [q \in Requests |-> IF q = r THEN h ELSE other(q)]
      /\ UNCHANGED <<student, owner, version>> /\ tx[r].step = "idle"
      /\ tx \in [Requests -> Handler] /\ version \in Nat
  BY Facts DEF Begin, PInv
<1>2. /\ h.step = "row" /\ h.began = version /\ h.alone = alone /\ h.lines = t.lines
      /\ h.at = 1 /\ h.outcome = <<>> /\ h.processed = {} /\ h.wrote = t.wrote
      /\ h.took = t.took
  BY DEF Handler
<1>3. ASSUME NEW q \in Requests
      PROVE  /\ other(q).alone = (tx[q].alone /\ ~Open(q))
             /\ other(q).began = tx[q].began /\ other(q).kind = tx[q].kind
             /\ other(q).step = tx[q].step /\ other(q).lines = tx[q].lines
             /\ other(q).outcome = tx[q].outcome
  <2> DEFINE b == tx[q].alone /\ ~Open(q)
  <2>1. b \in BOOLEAN /\ tx[q] \in Handler
    BY <1>1
  <2>2. other(q) = [tx[q] EXCEPT !.alone = b]
    OBVIOUS
  <2> HIDE DEF b, other
  <2>3. /\ other(q).alone = b
        /\ other(q).began = tx[q].began /\ other(q).kind = tx[q].kind
        /\ other(q).step = tx[q].step /\ other(q).lines = tx[q].lines
        /\ other(q).outcome = tx[q].outcome
    BY <2>1, <2>2, NotAloneIs
  <2> QED
    BY <2>3 DEF b
<1> HIDE DEF h, other
<1>4. tx'[r] = h /\ \A q \in Requests \ {r} : tx'[q] = other(q)
  BY <1>1
<1>5. PreviewIsHonest'
  <2>1. ASSUME NEW q \in Requests, tx'[q].step = "done"
        PROVE  /\ tx[q].step = "done" /\ tx'[q].kind = tx[q].kind
               /\ tx'[q].alone = tx[q].alone /\ tx'[q].lines = tx[q].lines
               /\ tx'[q].began = tx[q].began /\ tx'[q].outcome = tx[q].outcome
    <3>1. q # r
      BY <1>2, <1>4, <2>1
    <3>2. tx'[q] = other(q) /\ tx[q].step = "done" /\ tx[q].alone \in BOOLEAN
      BY <1>3, <1>4, <2>1, <3>1 DEF PInv, Foresight
    <3>3. ~Open(q)
      BY <3>2 DEF Open, Steps
    <3> QED
      BY <1>3, <3>2, <3>3
  <2> QED
    BY <2>1, HonestKept
<1>6. Solitary'
  <2> SUFFICES ASSUME NEW q \in Requests, NEW x \in Requests, tx'[x].alone,
                      tx'[x].step \in Steps, tx'[q].step \in Steps
               PROVE  q = x
    BY DEF Solitary, Open
  <2>1. x = r
    BY <1>3, <1>4 DEF Open
  <2>2. alone
    BY <1>2, <1>4, <2>1
  <2>3. q # r => ~Open(q) /\ tx'[q].step = tx[q].step
    BY <1>3, <1>4, <2>2
  <2> QED
    BY <2>1, <2>3 DEF Open
<1>7. ASSUME NEW q \in Requests PROVE Foresight(tx'[q])
  <2>1. CASE q = r
    <3>1. Foretold(h)
      BY <1>2 DEF Foretold
    <3>2. Given(h.lines, 0) = {}
      BY DEF Given
    <3>3. Prospect(h)
      BY <1>2, <3>2 DEF Prospect
    <3>4. h.alone \in BOOLEAN /\ h.began <= version
      BY <1>1, <1>2
    <3>5. Foresight(h)
      BY <1>2, <3>1, <3>3, <3>4 DEF Foresight
    <3> QED
      BY <1>4, <2>1, <3>5
  <2>2. CASE q # r
    <3> DEFINE u == other(q)
    <3>1. tx'[q] = u /\ Foresight(tx[q])
      BY <1>4, <2>2 DEF PInv
    <3>2. /\ u.alone = (tx[q].alone /\ ~Open(q)) /\ u.began = tx[q].began
          /\ u.kind = tx[q].kind /\ u.step = tx[q].step /\ u.lines = tx[q].lines
          /\ u.outcome = tx[q].outcome
      BY <1>3
    <3> HIDE DEF u
    <3>3. ~Open(q) => (u.alone <=> tx[q].alone)
      BY <3>2
    <3>4. u.alone \in BOOLEAN /\ u.began <= version
      BY <3>1, <3>2 DEF Foresight
    <3>5. Undisturbed(u) => Undisturbed(tx[q]) /\ u.step \notin Steps
      BY <3>2 DEF Undisturbed, Open
    <3>6. Foretold(tx[q]) => Foretold(u)
      BY <3>2 DEF Foretold
    <3> QED
      BY <3>1, <3>2, <3>4, <3>5, <3>6 DEF Foresight
  <2> QED
    BY <2>1, <2>2
<1> QED
  BY <1>1, <1>5, <1>6, <1>7, ForesightKept

LEMMA IdleIs ==
  /\ Idle.processed = {} /\ Idle.began = 0 /\ Idle.step = "idle"
  /\ ~Idle.alone /\ Idle.alone \in BOOLEAN
  BY DEF Idle

LEMMA ArriveKeepsPreview ==
  ASSUME PInv, NEW r \in Requests, Arrive(r)
  PROVE  PreviewIsHonest' /\ Solitary' /\ \A q \in Requests : Foresight(tx[q])'
<1>1. ASSUME NEW k \in {"create", "import", "dryRun"}, NEW s \in Seq(Line),
             Begin(r, [Idle EXCEPT !.kind = k, !.lines = s])
      PROVE  PreviewIsHonest' /\ Solitary' /\ \A q \in Requests : Foresight(tx[q])'
  <2> DEFINE t == [Idle EXCEPT !.kind = k, !.lines = s]
  <2>1. /\ t \in Handler /\ t.at = 1 /\ t.outcome = <<>> /\ t.processed = {}
        /\ t.wrote = Idle.wrote /\ t.took = Idle.took
    BY IdleHandler, IdleIs DEF Handler
  <2>2. Begin(r, t)
    BY <1>1
  <2> HIDE DEF t
  <2> QED
    BY <2>1, <2>2, IdleHandler, BeginKeepsPreview
<1>2. ASSUME NEW n \in Numbers, NEW s \in Seq(Line),
             Begin(r, [Idle EXCEPT !.kind = "update", !.number = n, !.lines = s])
      PROVE  PreviewIsHonest' /\ Solitary' /\ \A q \in Requests : Foresight(tx[q])'
  <2> DEFINE t == [Idle EXCEPT !.kind = "update", !.number = n, !.lines = s]
  <2>1. /\ t \in Handler /\ t.at = 1 /\ t.outcome = <<>> /\ t.processed = {}
        /\ t.wrote = Idle.wrote /\ t.took = Idle.took
    BY IdleHandler, IdleIs DEF Handler
  <2>2. Begin(r, t)
    BY <1>2
  <2> HIDE DEF t
  <2> QED
    BY <2>1, <2>2, IdleHandler, BeginKeepsPreview
<1>3. ASSUME NEW t \in Tables, Create(r, t[1])
      PROVE  PreviewIsHonest' /\ Solitary' /\ \A q \in Requests : Foresight(tx[q])'
  <2>1. t[1] \in Line
    BY TablesAssumption
  <2>2. <<t[1]>> \in Seq(Line)
    BY <2>1
  <2> QED
    BY <1>1, <1>3, <2>2 DEF Create
<1>4. ASSUME NEW t \in Tables, NEW d \in BOOLEAN, BulkImport(r, t, d)
      PROVE  PreviewIsHonest' /\ Solitary' /\ \A q \in Requests : Foresight(tx[q])'
  <2>1. t \in Seq(Line)
    BY TablesAssumption
  <2>2. CASE d
    <3>1. Begin(r, [Idle EXCEPT !.kind = "dryRun", !.lines = t])
      BY <1>4, <2>2 DEF BulkImport
    <3> QED
      BY <1>1, <2>1, <3>1
  <2>3. CASE ~d
    <3>1. Begin(r, [Idle EXCEPT !.kind = "import", !.lines = t])
      BY <1>4, <2>3 DEF BulkImport
    <3> QED
      BY <1>1, <2>1, <3>1
  <2> QED
    BY <2>2, <2>3
<1>5. ASSUME NEW n \in Numbers, NEW p \in Phones, Update(r, n, p)
      PROVE  PreviewIsHonest' /\ Solitary' /\ \A q \in Requests : Foresight(tx[q])'
  <2>1. [number |-> n, phone |-> p, flaw |-> "none"] \in Line
    BY DEF Line
  <2>2. <<[number |-> n, phone |-> p, flaw |-> "none"]>> \in Seq(Line)
    BY <2>1
  <2> QED
    BY <1>2, <1>5, <2>2 DEF Update
<1> QED
  BY <1>3, <1>4, <1>5 DEF Arrive

\* What is known of a request at the start of a line, whatever else.
LEMMA AtHand ==
  ASSUME PInv, NEW r \in Requests, tx[r].step \in Steps, Undisturbed(tx[r])
  PROVE  /\ tx[r] \in Handler /\ Shape(tx[r]) /\ Inserts(r, tx[r], All)
         /\ Foretold(tx[r]) /\ Prospect(tx[r])
         /\ tx[r].alone \in BOOLEAN /\ tx[r].began <= version
         /\ tx[r].kind \in {"import", "dryRun"}
         /\ tx[r].at \in Nat \ {0} /\ tx[r].at \in 1..Len(tx[r].lines)
         /\ Current(r) = tx[r].lines[tx[r].at] /\ Current(r) \in Line
         /\ tx[r].kind = "dryRun" /\ tx[r].step \notin Amid =>
               \A n \in Numbers : tx[r].wrote[n] = NoValue
         /\ tx[r].freed = {} /\ tx[r].linked = NoValue
         /\ tx[r].took \in [Phones -> Slots \cup {NoValue}]
         /\ tx[r].wrote \in [Numbers -> Row \cup {NoValue}]
<1> DEFINE t == tx[r]
<1>1. /\ t \in Handler /\ Shape(t) /\ Inserts(r, t, All) /\ Foretold(t) /\ Prospect(t)
      /\ t.alone \in BOOLEAN /\ t.began <= version
      /\ t.kind \in {"import", "dryRun"}
  BY Facts DEF PInv, Foresight, Undisturbed
<1>2. t.at \in 1..Len(t.lines) /\ t.at \in Nat /\ t.lines \in Seq(Line)
  BY <1>1, Fields DEF Shape
<1>3. t.at \in Nat \ {0}
  BY <1>2
<1>4. Current(r) = t.lines[t.at] /\ Current(r) \in Line
  BY LineAtHand DEF Current, PInv
<1>5. t.kind = "dryRun" /\ t.step \notin Amid => \A n \in Numbers : t.wrote[n] = NoValue
  BY <1>1 DEF Inserts, Here, Now
<1>6. t.freed = {} /\ t.linked = NoValue
  BY <1>1 DEF Inserts
<1> QED
  BY <1>1, <1>2, <1>3, <1>4, <1>5, <1>6, Fields

LEMMA CheckKeepsPreview ==
  ASSUME PInv, NEW r \in Requests, CheckLine(r)
  PROVE  PreviewIsHonest' /\ Solitary' /\ \A q \in Requests : Foresight(tx[q])'
<1> DEFINE t == tx[r]
           l == Current(r)
           p == Remembered(r)
           k == IF l.number = NotGiven THEN NextNumber(r) ELSE l.number
           v == WithoutLine(r)
           w == [v EXCEPT !.processed = p]
           h == [t EXCEPT !.step = "student", !.number = k, !.processed = p]
<1>1. /\ t \in Handler /\ t.step = "row" /\ t.step \in Steps /\ t.kind # "update"
      /\ t.step \in Steps \ {"commit"} /\ Shape(t)
  BY Facts DEF CheckLine, AtStep, Steps, PInv
<1>2. /\ l \in Line /\ p \in SUBSET Numbers
  BY <1>1, LineAtHand, LineFields, Fields DEF PInv, Remembered
<1>3. /\ h.step = "student" /\ h.kind = t.kind /\ h.lines = t.lines /\ h.at = t.at
      /\ h.outcome = t.outcome /\ h.wrote = t.wrote /\ h.took = t.took /\ h.alone = t.alone
      /\ h.began = t.began /\ h.number = k /\ h.processed = p
  <2> HIDE DEF k, p
  <2> QED
    BY <1>1 DEF Handler
<1>4. /\ v \in Handler /\ v.kind = t.kind /\ v.lines = t.lines /\ v.at = t.at
      /\ v.outcome = t.outcome /\ v.alone = t.alone /\ v.began = t.began
      /\ \A n \in Numbers : v.wrote[n] # NoValue => t.wrote[n] # NoValue
      /\ \A q \in Phones : v.took[q] # NoValue => t.took[q] # NoValue
  BY <1>1, LineUndone, UndoneKeeps DEF PInv
<1>5. /\ w \in Handler /\ w.kind = t.kind /\ w.lines = t.lines /\ w.at = t.at
      /\ w.outcome = t.outcome /\ w.alone = t.alone /\ w.began = t.began
      /\ w.wrote = v.wrote /\ w.took = v.took /\ w.processed = p
  <2> HIDE DEF v, p
  <2> QED
    BY <1>2, <1>4 DEF Handler
<1>6. CASE ~Undisturbed(t)
  <2>1. ASSUME Step(r, h)
        PROVE  PreviewIsHonest' /\ Solitary' /\ \A q \in Requests : Foresight(tx[q])'
    <3> HIDE DEF h
    <3>1. Foresight(h)
      BY <1>3, <1>6, Unforeseen
    <3> QED
      BY <1>1, <1>3, <2>1, <3>1, OneAnswer
  <2>2. ASSUME Step(r, NextLine(w, "error"))
        PROVE  PreviewIsHonest' /\ Solitary' /\ \A q \in Requests : Foresight(tx[q])'
    <3> DEFINE e == NextLine(w, "error")
    <3> HIDE DEF w
    <3>1. /\ e.kind = t.kind /\ e.alone = t.alone /\ e.began = t.began
          /\ e.step \in {"row", "commit"}
      BY <1>5, NextLineIs, NextLineKeeps
    <3>2. Step(r, e)
      BY <2>2
    <3> HIDE DEF e
    <3>3. Foresight(e)
      BY <1>6, <3>1, Unforeseen
    <3> QED
      BY <1>1, <3>1, <3>2, <3>3, OneAnswer
  <2> QED
    BY <1>1, <2>1, <2>2, RolledBack DEF CheckLine
<1>7. CASE Undisturbed(t)
  <2>1. /\ Foretold(t) /\ Prospect(t) /\ t.alone \in BOOLEAN /\ t.began <= version
        /\ t.kind \in {"import", "dryRun"} /\ t.at \in Nat \ {0}
        /\ l = t.lines[t.at]
        /\ t.kind = "dryRun" => \A n \in Numbers : t.wrote[n] = NoValue
    BY <1>1, <1>7, AtHand DEF Amid
  <2>2. /\ t.processed = Given(t.lines, t.at - 1)
        /\ \A n \in Numbers : t.wrote[n] # NoValue =>
              n \in t.processed \/ NextAsked(t.lines, t.at - 1)
        /\ \A q \in Phones : t.took[q] # NoValue => owner[q] = NoValue
    BY <1>1, <2>1 DEF Prospect
  <2>3. p = Given(t.lines, t.at)
    <3>1. p = IF l.number # NotGiven /\ l.flaw # "incomplete"
              THEN t.processed \cup {l.number} ELSE t.processed
      BY DEF Remembered
    <3>2. Given(t.lines, t.at)
          = IF t.lines[t.at].number # NotGiven /\ t.lines[t.at].flaw # "incomplete"
            THEN Given(t.lines, t.at - 1) \cup {t.lines[t.at].number}
            ELSE Given(t.lines, t.at - 1)
      BY <2>1, GivenOnwards
    <3> HIDE DEF p, l
    <3> QED
      BY <2>1, <2>2, <3>1, <3>2
  <2>4. \A n \in Numbers : t.wrote[n] # NoValue => n \in p \/ NextAsked(t.lines, t.at)
    BY <2>1, <2>2, <2>3, GivenOnwards
  <2>5. l.number \in Numbers \cup {NotGiven}
    BY <1>2, LineFields
  <2>6. ASSUME Checks(r), k \in Numbers, Step(r, h)
        PROVE  PreviewIsHonest' /\ Solitary' /\ \A q \in Requests : Foresight(tx[q])'
    <3>1. StudentSeen(r, k) = NoValue
      <4>1. CASE l.number = NotGiven
        BY <2>6, <4>1, NextNumberIsNew
      <4>2. CASE l.number # NotGiven
        BY <2>1, <2>6, <4>2 DEF Checks
      <4> QED
        BY <4>1, <4>2
    <3>2. t.wrote[k] = NoValue /\ student[k] = NoValue
      BY <3>1 DEF StudentSeen
    <3>3. l.flaw = "none" /\ ~Repeats(t.lines, t.at)
      BY <2>1, <2>2, <2>6, <3>2 DEF Checks, Repeats, Collected
    <3>4. l.number # NotGiven => k = l.number
      OBVIOUS
    <3> HIDE DEF h, k, p, l
    <3>5. Prospect(h)
      BY <1>3, <2>1, <2>2, <2>3, <2>4, <3>2, <3>3, <3>4 DEF Prospect
    <3>6. Foretold(h)
      BY <1>3, <2>1 DEF Foretold
    <3>7. Foresight(h)
      BY <1>3, <2>1, <3>5, <3>6 DEF Foresight
    <3> QED
      BY <1>1, <1>3, <2>6, <3>7, OneAnswer
  <2>7. ASSUME ~Checks(r), Step(r, NextLine(w, "error"))
        PROVE  PreviewIsHonest' /\ Solitary' /\ \A q \in Requests : Foresight(tx[q])'
    <3>1. \/ Refused(t.lines, t.at)
          \/ t.kind = "import" /\ l.number # NotGiven /\ NextAsked(t.lines, t.at - 1)
      <4>1. CASE l.flaw # "none"
        BY <2>1, <4>1 DEF Refused
      <4>2. CASE l.flaw = "none"
        <5>1. l.number # NotGiven /\ l.number \in Numbers
          BY <2>5, <2>7, <4>2 DEF Checks
        <5>2. l.number \in t.processed \/ StudentSeen(r, l.number) # NoValue
          BY <2>7, <4>2 DEF Checks, Collected
        <5>3. CASE l.number \in t.processed \/ student[l.number] # NoValue
          BY <2>1, <2>2, <5>1, <5>3 DEF Refused, Repeats
        <5>4. CASE t.wrote[l.number] # NoValue
          BY <2>1, <2>2, <5>1, <5>4 DEF Refused, Repeats
        <5> QED
          BY <5>2, <5>3, <5>4 DEF StudentSeen
      <4> QED
        BY <4>1, <4>2
    <3>2. /\ w.processed = Given(w.lines, w.at)
          /\ \A n \in Numbers : w.wrote[n] # NoValue =>
                n \in w.processed \/ NextAsked(w.lines, w.at)
          /\ \A q \in Phones : w.took[q] # NoValue => owner[q] = NoValue
      BY <1>4, <1>5, <2>2, <2>3, <2>4
    <3>3. \/ Refused(w.lines, w.at)
          \/ /\ w.kind = "import" /\ w.lines[w.at].number # NotGiven
             /\ NextAsked(w.lines, w.at - 1)
      BY <1>5, <2>1, <3>1
    <3> HIDE DEF w
    <3> QED
      BY <1>1, <1>5, <1>7, <2>7, <3>2, <3>3, LineAnswered
  <2>8. ~ (t.kind = "create")
    BY <2>1
  <2> QED
    BY <2>6, <2>7, <2>8 DEF CheckLine
<1> QED
  BY <1>6, <1>7

-----------------------------------------------------------------------------
(* The preview: the statements of a line *)

LEMMA InsertKeepsPreview ==
  ASSUME PInv, NEW r \in Requests, InsertStudent(r)
  PROVE  PreviewIsHonest' /\ Solitary' /\ \A q \in Requests : Foresight(tx[q])'
<1> DEFINE t == tx[r]
           row == [slot |-> Slot(r), guardian |-> NoValue]
           h == [t EXCEPT !.step = "parent", !.wrote[t.number] = row]
<1>1. /\ t \in Handler /\ Shape(t) /\ t.step = "student" /\ t.step \in Steps
      /\ t.wrote \in [Numbers -> Row \cup {NoValue}]
  BY Facts, Fields DEF InsertStudent, AtStep, Steps, PInv
<1>2. t.number \in Numbers
  BY <1>1 DEF Shape
<1>3. /\ h.step = "parent" /\ h.number = t.number /\ h.kind = t.kind /\ h.lines = t.lines
      /\ h.at = t.at /\ h.outcome = t.outcome /\ h.took = t.took
      /\ h.alone = t.alone /\ h.began = t.began /\ h.processed = t.processed
      /\ \A n \in Numbers : n # t.number => h.wrote[n] = t.wrote[n]
  <2> HIDE DEF row
  <2> QED
    BY <1>1, <1>2 DEF Handler
<1> HIDE DEF row
<1>4. CASE ~Undisturbed(t)
  <2>1. ASSUME Step(r, h)
        PROVE  PreviewIsHonest' /\ Solitary' /\ \A q \in Requests : Foresight(tx[q])'
    <3> HIDE DEF h
    <3>1. Foresight(h)
      BY <1>3, <1>4, Unforeseen
    <3> QED
      BY <1>1, <1>3, <2>1, <3>1, OneAnswer
  <2> QED
    BY <1>1, <1>4, <2>1, FailsUnforeseen DEF InsertStudent, row
<1>5. CASE Undisturbed(t)
  <2>1. /\ Foretold(t) /\ Prospect(t) /\ t.alone \in BOOLEAN /\ t.began <= version
        /\ t.at \in Nat \ {0} /\ Current(r) = t.lines[t.at] /\ Current(r) \in Line
    BY <1>1, <1>5, AtHand
  <2> DEFINE l == t.lines[t.at]
  <2>2. /\ student[t.number] = NoValue /\ t.wrote[t.number] = NoValue
        /\ t.processed = Given(t.lines, t.at)
        /\ l.flaw = "none" /\ ~Repeats(t.lines, t.at)
        /\ l.number # NotGiven => t.number = l.number
        /\ \A n \in Numbers : t.wrote[n] # NoValue =>
              n \in t.processed \/ NextAsked(t.lines, t.at)
        /\ \A p \in Phones : t.took[p] # NoValue => owner[p] = NoValue
    BY <1>1, <2>1 DEF Prospect
  <2>3. t.number \in t.processed \/ NextAsked(t.lines, t.at)
    BY <2>1, <2>2, GivenOnwards
  <2>4. Step(r, h)
    BY <2>2 DEF InsertStudent, row
  <2> HIDE DEF h
  <2>5. \A n \in Numbers : h.wrote[n] # NoValue =>
            n \in h.processed \/ NextAsked(h.lines, h.at)
    BY <1>3, <2>2, <2>3
  <2>6. Prospect(h)
    BY <1>3, <2>2, <2>5 DEF Prospect
  <2>7. Foretold(h)
    BY <1>3, <2>1 DEF Foretold
  <2>8. Foresight(h)
    BY <1>3, <2>1, <2>6, <2>7 DEF Foresight
  <2> QED
    BY <1>1, <1>3, <2>4, <2>8, OneAnswer
<1> QED
  BY <1>4, <1>5

LEMMA FindKeepsPreview ==
  ASSUME PInv, NEW r \in Requests, FindParent(r)
  PROVE  PreviewIsHonest' /\ Solitary' /\ \A q \in Requests : Foresight(tx[q])'
<1> DEFINE t == tx[r]
           p == Current(r).phone
           u == OwnerSeen(r, p)
           f == IF u = Staff THEN NoValue ELSE u
           h == [t EXCEPT !.step = "account", !.found = f]
<1>1. /\ t \in Handler /\ Shape(t) /\ t.step = "parent" /\ t.step \in Steps
  BY Facts DEF FindParent, AtStep, Steps, PInv
<1>2. p \in Phones
  BY <1>1, LineAtHand, LineFields DEF PInv
<1>3. Step(r, h)
  BY DEF FindParent
<1>4. /\ h.step = "account" /\ h.found = f /\ h.kind = t.kind /\ h.lines = t.lines
      /\ h.at = t.at /\ h.outcome = t.outcome /\ h.took = t.took /\ h.wrote = t.wrote
      /\ h.alone = t.alone /\ h.began = t.began /\ h.processed = t.processed
  <2> HIDE DEF f
  <2> QED
    BY <1>1 DEF Handler
<1> HIDE DEF h
<1>5. CASE ~Undisturbed(t)
  BY <1>1, <1>3, <1>4, <1>5, Unforeseen, OneAnswer
<1>6. CASE Undisturbed(t)
  <2>1. /\ Foretold(t) /\ Prospect(t) /\ t.alone \in BOOLEAN /\ t.began <= version
        /\ Current(r) = t.lines[t.at] /\ t.freed = {}
        /\ t.took \in [Phones -> Slots \cup {NoValue}]
    BY <1>1, <1>6, AtHand
  <2>2. Staff # NoValue /\ NoValue \notin Slots /\ Staff \notin Slots
    BY Facts, ValuesAssumption DEF PInv
  <2>3. t.took[p] # NoValue => owner[p] = NoValue
    BY <1>2, <2>1 DEF Prospect
  <2>4. u = IF t.took[p] # NoValue THEN t.took[p] ELSE owner[p]
    BY <2>1 DEF OwnerSeen
  <2>5. IF f # NoValue THEN owner[p] # Staff
        ELSE t.took[p] = NoValue /\ owner[p] \in {NoValue, Staff}
    <3> HIDE DEF p, u
    <3> QED
      BY <1>2, <2>1, <2>2, <2>3, <2>4
  <2>6. t.lines[t.at].phone = p
    BY <2>1
  <2> HIDE DEF f, p
  <2>7. Prospect(h)
    <3>1. /\ t.processed = Given(t.lines, t.at)
          /\ t.lines[t.at].flaw = "none" /\ ~Repeats(t.lines, t.at)
          /\ \A n \in Numbers : t.wrote[n] # NoValue =>
                n \in t.processed \/ NextAsked(t.lines, t.at)
          /\ \A o \in Phones : t.took[o] # NoValue => owner[o] = NoValue
      BY <1>1, <2>1 DEF Prospect
    <3> QED
      BY <1>4, <2>5, <2>6, <3>1 DEF Prospect
  <2>8. Foretold(h)
    BY <1>4, <2>1 DEF Foretold
  <2>9. Foresight(h)
    BY <1>4, <2>1, <2>7, <2>8 DEF Foresight
  <2> QED
    BY <1>1, <1>3, <1>4, <2>9, OneAnswer
<1> QED
  BY <1>5, <1>6

LEMMA TakeKeepsPreview ==
  ASSUME PInv, NEW r \in Requests, TakePhone(r)
  PROVE  PreviewIsHonest' /\ Solitary' /\ \A q \in Requests : Foresight(tx[q])'
<1> DEFINE t == tx[r]
           p == Current(r).phone
           parent == IF t.linked = NoValue THEN NewParent(r) ELSE t.linked
           took == [t.took EXCEPT ![p] = parent]
           freed == IF t.linked = NoValue THEN t.freed
                    ELSE {o \in Phones : OwnerSeen(r, o) = parent}
           g == [t EXCEPT !.step = "link"]
           h == [t EXCEPT !.step = "link", !.found = parent, !.took = took, !.freed = freed]
           v == WithoutLine(r)
<1>1. /\ t \in Handler /\ Shape(t) /\ t.step = "account" /\ t.step \in Steps
      /\ t.step \in Steps \ {"commit"}
  BY Facts DEF TakePhone, AtStep, Steps, PInv
<1>2. p \in Phones
  BY <1>1, LineAtHand, LineFields DEF PInv
<1>3. \/ t.found # NoValue /\ Step(r, g)
      \/ t.found = NoValue /\ OwnerSeen(r, p) # NoValue /\ LineFails(r)
      \/ t.found = NoValue /\ OwnerSeen(r, p) = NoValue /\ Step(r, h)
  BY DEF TakePhone
<1>4. /\ g.step = "link" /\ g.kind = t.kind /\ g.lines = t.lines /\ g.at = t.at
      /\ g.outcome = t.outcome /\ g.took = t.took /\ g.wrote = t.wrote
      /\ g.alone = t.alone /\ g.began = t.began /\ g.processed = t.processed
  BY <1>1 DEF Handler
<1>5. /\ h.step = "link" /\ h.kind = t.kind /\ h.lines = t.lines /\ h.at = t.at
      /\ h.outcome = t.outcome /\ h.took = took /\ h.wrote = t.wrote
      /\ h.alone = t.alone /\ h.began = t.began /\ h.processed = t.processed
  <2> HIDE DEF took, freed, parent
  <2> QED
    BY <1>1 DEF Handler
<1> HIDE DEF g, h, parent, freed
<1>6. CASE ~Undisturbed(t)
  BY <1>1, <1>3, <1>4, <1>5, <1>6, Unforeseen, OneAnswer, FailsUnforeseen
<1>7. CASE Undisturbed(t)
  <2>1. /\ Foretold(t) /\ Prospect(t) /\ t.alone \in BOOLEAN /\ t.began <= version
        /\ Current(r) = t.lines[t.at] /\ t.freed = {} /\ t.kind \in {"import", "dryRun"}
        /\ t.took \in [Phones -> Slots \cup {NoValue}]
    BY <1>1, <1>7, AtHand
  <2>2. Staff # NoValue
    BY ValuesAssumption
  <2>3. OwnerSeen(r, p) = IF t.took[p] # NoValue THEN t.took[p] ELSE owner[p]
    BY <2>1 DEF OwnerSeen
  <2>4. /\ t.processed = Given(t.lines, t.at)
        /\ t.lines[t.at].flaw = "none" /\ ~Repeats(t.lines, t.at)
        /\ \A n \in Numbers : t.wrote[n] # NoValue =>
              n \in t.processed \/ NextAsked(t.lines, t.at)
        /\ \A o \in Phones : t.took[o] # NoValue => owner[o] = NoValue
        /\ IF t.found # NoValue THEN owner[p] # Staff
           ELSE t.took[p] = NoValue /\ owner[p] \in {NoValue, Staff}
    BY <1>1, <2>1 DEF Prospect
  <2>5. t.lines[t.at].phone = p
    BY <2>1
  <2>6. CASE t.found # NoValue /\ Step(r, g)
    <3>1. Prospect(g)
      BY <1>4, <2>4, <2>5, <2>6 DEF Prospect
    <3>2. Foretold(g)
      BY <1>4, <2>1 DEF Foretold
    <3>3. Foresight(g)
      BY <1>4, <2>1, <3>1, <3>2 DEF Foresight
    <3> QED
      BY <1>1, <1>4, <2>6, <3>3, OneAnswer
  <2>7. CASE t.found = NoValue /\ OwnerSeen(r, p) = NoValue /\ Step(r, h)
    <3>1. owner[p] = NoValue
      BY <2>3, <2>4, <2>7
    <3> HIDE DEF p
    <3>2. \A o \in Phones : took[o] # NoValue => owner[o] = NoValue
      BY <2>1, <2>4, <3>1
    <3> HIDE DEF took
    <3>3. Prospect(h)
      BY <1>5, <2>2, <2>4, <2>5, <3>1, <3>2 DEF Prospect
    <3>4. Foretold(h)
      BY <1>5, <2>1 DEF Foretold
    <3>5. Foresight(h)
      BY <1>5, <2>1, <3>3, <3>4 DEF Foresight
    <3> QED
      BY <1>1, <1>5, <2>7, <3>5, OneAnswer
  <2>8. CASE t.found = NoValue /\ OwnerSeen(r, p) # NoValue /\ LineFails(r)
    <3>1. owner[p] = Staff
      BY <2>3, <2>4, <2>8
    <3>2. Refused(t.lines, t.at)
      BY <2>5, <3>1 DEF Refused
    <3>3. /\ v \in Handler /\ v.kind = t.kind /\ v.lines = t.lines /\ v.at = t.at
          /\ v.outcome = t.outcome /\ v.alone = t.alone /\ v.began = t.began
          /\ v.processed = t.processed
          /\ \A n \in Numbers : v.wrote[n] # NoValue => t.wrote[n] # NoValue
          /\ \A o \in Phones : v.took[o] # NoValue => t.took[o] # NoValue
      BY <1>1, LineUndone, UndoneKeeps DEF PInv
    <3>4. Step(r, NextLine(v, "error"))
      BY <2>1, <2>8 DEF LineFails
    <3> HIDE DEF v
    <3>5. /\ v.processed = Given(v.lines, v.at)
          /\ \A n \in Numbers : v.wrote[n] # NoValue =>
                n \in v.processed \/ NextAsked(v.lines, v.at)
          /\ \A o \in Phones : v.took[o] # NoValue => owner[o] = NoValue
          /\ Refused(v.lines, v.at)
      BY <2>4, <3>2, <3>3
    <3> QED
      BY <1>1, <1>7, <3>3, <3>4, <3>5, LineAnswered
  <2> QED
    BY <1>3, <2>6, <2>7, <2>8
<1> QED
  BY <1>6, <1>7

\* A handler with its student's guardian set.
LEMMA LinkedHandler ==
  ASSUME IInv, NEW r \in Requests, tx[r].step = "link"
  PROVE  LET t == tx[r]
             row == [StudentSeen(r, t.number) EXCEPT !.guardian = t.found]
             s == [t EXCEPT !.wrote[t.number] = IF t.found = t.linked THEN @ ELSE row]
         IN /\ s \in Handler /\ s.kind = t.kind /\ s.lines = t.lines /\ s.at = t.at
            /\ s.outcome = t.outcome /\ s.took = t.took /\ s.alone = t.alone
            /\ s.began = t.began /\ s.processed = t.processed
            /\ \A m \in Numbers : m # t.number => s.wrote[m] = t.wrote[m]
            /\ t.number \in Numbers
            /\ t.kind # "update" => t.wrote[t.number] # NoValue
<1> DEFINE t == tx[r]
           n == t.number
           row == [StudentSeen(r, n) EXCEPT !.guardian = t.found]
           v == IF t.found = t.linked THEN t.wrote[n] ELSE row
           s == [t EXCEPT !.wrote[n] = v]
<1>1. /\ t \in Handler /\ Inserts(r, t, All) /\ Updates(t, All)
      /\ t.step = "link" /\ t.step \in Steps /\ All \subseteq Slots /\ NoValue \notin Slots
      /\ student \in [Numbers -> Row \cup {NoValue}]
  BY Facts DEF Steps
<1>2. /\ t.wrote \in [Numbers -> Row \cup {NoValue}] /\ t.found \in Slots \cup {NoValue}
  BY <1>1, Fields
<1>3. /\ n \in Numbers /\ t.found \in Slots
      /\ StudentSeen(r, n) # NoValue /\ StudentSeen(r, n) \in Row
      /\ t.kind # "update" => t.wrote[n] # NoValue
  <2>1. CASE t.kind = "update"
    BY <1>1, <1>2, <2>1 DEF Updates, StudentSeen, Amid
  <2>2. CASE t.kind # "update"
    <3>1. /\ n \in Numbers /\ t.wrote[n] # NoValue
          /\ t.found \in All \cup Here(r, t) \cup Now(r, t)
      BY <1>1, <2>2 DEF Inserts, Amid
    <3>2. Now(r, t) \subseteq Slots /\ Here(r, t) \subseteq Slots
      BY <1>1, HereIsNew DEF Now
    <3> QED
      BY <1>1, <1>2, <3>1, <3>2 DEF StudentSeen
  <2> QED
    BY <2>1, <2>2
<1>4. row \in Row
  BY <1>3 DEF Row
<1> HIDE DEF row
<1>5. v \in Row \cup {NoValue}
  BY <1>2, <1>3, <1>4
<1>6. s = [t EXCEPT !.wrote[n] = IF t.found = t.linked THEN @ ELSE row]
  OBVIOUS
<1> HIDE DEF v
<1>7. /\ s \in Handler /\ s.kind = t.kind /\ s.lines = t.lines /\ s.at = t.at
      /\ s.outcome = t.outcome /\ s.took = t.took /\ s.alone = t.alone
      /\ s.began = t.began /\ s.processed = t.processed
      /\ \A m \in Numbers : m # n => s.wrote[m] = t.wrote[m]
  BY <1>1, <1>2, <1>3, <1>5 DEF Handler
<1> QED
  BY <1>3, <1>6, <1>7 DEF row

LEMMA LinkKeepsPreview ==
  ASSUME PInv, NEW r \in Requests, LinkGuardian(r)
  PROVE  PreviewIsHonest' /\ Solitary' /\ \A q \in Requests : Foresight(tx[q])'
<1> DEFINE t == tx[r]
           n == t.number
           row == [StudentSeen(r, n) EXCEPT !.guardian = t.found]
           s == [t EXCEPT !.wrote[n] = IF t.found = t.linked THEN @ ELSE row]
           v == WithoutLine(r)
           w == IF s.kind = "dryRun" THEN v ELSE s
           h == NextLine(w, "ok")
<1>1. /\ t \in Handler /\ t.step = "link" /\ t.step \in Steps
      /\ t.step \in Steps \ {"commit"}
  BY Facts DEF LinkGuardian, AtStep, Steps, PInv
<1>2. Step(r, h)
  BY DEF LinkGuardian, KeepLine
<1>3. /\ s \in Handler /\ s.kind = t.kind /\ s.lines = t.lines /\ s.at = t.at
      /\ s.outcome = t.outcome /\ s.took = t.took /\ s.alone = t.alone
      /\ s.began = t.began /\ s.processed = t.processed
      /\ \A m \in Numbers : m # n => s.wrote[m] = t.wrote[m]
      /\ n \in Numbers /\ t.kind # "update" => t.wrote[n] # NoValue
  BY <1>1, LinkedHandler DEF PInv
<1>4. /\ v \in Handler /\ v.kind = t.kind /\ v.lines = t.lines /\ v.at = t.at
      /\ v.outcome = t.outcome /\ v.alone = t.alone /\ v.began = t.began
      /\ v.processed = t.processed
      /\ \A m \in Numbers : v.wrote[m] # NoValue => t.wrote[m] # NoValue
      /\ \A p \in Phones : v.took[p] # NoValue => t.took[p] # NoValue
  BY <1>1, LineUndone, UndoneKeeps DEF PInv
<1> HIDE DEF s, v
<1>5. /\ w \in Handler /\ w.kind = t.kind /\ w.lines = t.lines /\ w.at = t.at
      /\ w.outcome = t.outcome /\ w.alone = t.alone /\ w.began = t.began
      /\ w.processed = t.processed
      /\ t.kind # "update" =>
            \A m \in Numbers : w.wrote[m] # NoValue => t.wrote[m] # NoValue
      /\ \A p \in Phones : w.took[p] # NoValue => t.took[p] # NoValue
  BY <1>3, <1>4
<1> HIDE DEF w
<1>6. CASE ~Undisturbed(t)
  <2>1. /\ h.kind = t.kind /\ h.alone = t.alone /\ h.began = t.began
        /\ h.step \in {"row", "commit"}
    BY <1>5, NextLineIs, NextLineKeeps
  <2> HIDE DEF h
  <2> QED
    BY <1>1, <1>2, <1>6, <2>1, Unforeseen, OneAnswer
<1>7. CASE Undisturbed(t)
  <2>1. Prospect(t) /\ t.kind \in {"import", "dryRun"}
    BY <1>1, <1>7, AtHand
  <2>2. /\ t.processed = Given(t.lines, t.at)
        /\ t.lines[t.at].flaw = "none" /\ ~Repeats(t.lines, t.at)
        /\ \A m \in Numbers : t.wrote[m] # NoValue =>
              m \in t.processed \/ NextAsked(t.lines, t.at)
        /\ \A p \in Phones : t.took[p] # NoValue => owner[p] = NoValue
        /\ owner[t.lines[t.at].phone] # Staff
    BY <1>1, <2>1 DEF Prospect
  <2>3. ~Refused(t.lines, t.at)
    BY <2>2 DEF Refused
  <2>4. /\ w.processed = Given(w.lines, w.at)
        /\ \A m \in Numbers : w.wrote[m] # NoValue =>
              m \in w.processed \/ NextAsked(w.lines, w.at)
        /\ \A p \in Phones : w.took[p] # NoValue => owner[p] = NoValue
        /\ ~Refused(w.lines, w.at)
    BY <1>5, <2>1, <2>2, <2>3
  <2> QED
    BY <1>1, <1>2, <1>5, <1>7, <2>4, LineAnswered
<1> QED
  BY <1>6, <1>7

\* The statements of an update.
LEMMA UpdateKeepsPreview ==
  ASSUME PInv, NEW r \in Requests, FindStudent(r) \/ UpdateDetails(r)
  PROVE  PreviewIsHonest' /\ Solitary' /\ \A q \in Requests : Foresight(tx[q])'
<1> DEFINE t == tx[r]
<1>1. t \in Handler /\ Shape(t) /\ t.step \in Steps
  BY Facts DEF FindStudent, UpdateDetails, AtStep, Steps, PInv
<1>2. t.kind = "update"
  BY <1>1 DEF FindStudent, UpdateDetails, AtStep, Shape
<1>3. ~Undisturbed(t)
  BY <1>2 DEF Undisturbed
<1>4. ASSUME NEW s \in {"details", "parent"}, NEW g, Step(r, [t EXCEPT !.step = s, !.linked = g])
      PROVE  PreviewIsHonest' /\ Solitary' /\ \A q \in Requests : Foresight(tx[q])'
  <2> DEFINE h == [t EXCEPT !.step = s, !.linked = g]
  <2>1. h.step = s /\ h.kind = t.kind /\ h.alone = t.alone /\ h.began = t.began
    BY <1>1 DEF Handler
  <2>2. Step(r, h)
    BY <1>4
  <2> HIDE DEF h
  <2> QED
    BY <1>1, <1>3, <2>1, <2>2, Unforeseen, OneAnswer
<1>5. ASSUME NEW n, NEW row, Step(r, [t EXCEPT !.step = "parent", !.wrote[n] = row])
      PROVE  PreviewIsHonest' /\ Solitary' /\ \A q \in Requests : Foresight(tx[q])'
  <2> DEFINE h == [t EXCEPT !.step = "parent", !.wrote[n] = row]
  <2>1. h.step = "parent" /\ h.kind = t.kind /\ h.alone = t.alone /\ h.began = t.began
    BY <1>1 DEF Handler
  <2>2. Step(r, h)
    BY <1>5
  <2> HIDE DEF h
  <2> QED
    BY <1>1, <1>3, <2>1, <2>2, Unforeseen, OneAnswer
<1> QED
  BY <1>4, <1>5 DEF FindStudent, UpdateDetails

\* Nothing waits for a request that is alone.
LEMMA DeadlockKeepsPreview ==
  ASSUME PInv, NEW r \in Requests, BreakDeadlock(r)
  PROVE  PreviewIsHonest' /\ Solitary' /\ \A q \in Requests : Foresight(tx[q])'
<1>1. tx[r].step \in Steps /\ LineFails(r)
      /\ \E q \in Requests : q # r /\ Open(q)
  BY DEF BreakDeadlock, Open, Blockers
<1>2. ~Undisturbed(tx[r])
  BY <1>1 DEF PInv, Solitary, Undisturbed, Open
<1> QED
  BY <1>1, <1>2, FailsUnforeseen

-----------------------------------------------------------------------------
(* The preview: the committed rows change *)

\* A dry run and an import that found the same rows.
LEMMA Compared ==
  ASSUME NEW d, NEW t, Foretold(d), Foretold(t), d.kind = "dryRun", d.lines = t.lines,
         t.lines \in Seq(Line), Len(d.outcome) = Len(d.lines), Len(t.outcome) = Len(t.lines),
         NEW i \in DOMAIN t.lines
  PROVE  /\ d.outcome[i] = "error" => t.outcome[i] = "error"
         /\ d.outcome[i] = "ok" /\ t.outcome[i] = "error" =>
               /\ t.lines[i].number # NotGiven
               /\ \E j \in 1..(i - 1) : t.lines[j].number = NotGiven
<1>1. i \in 1..Len(t.outcome) /\ i \in 1..Len(d.outcome)
  OBVIOUS
<1>2. d.outcome[i] = "error" <=> Refused(t.lines, i)
  BY <1>1 DEF Foretold
<1> QED
  BY <1>1, <1>2 DEF Foretold, NextAsked

\* After a change nothing is foretold of the requests before it.
LEMMA ChangedRows ==
  ASSUME PInv, version' = version + 1,
         \A q \in Requests : /\ tx'[q].alone \in BOOLEAN
                             /\ tx'[q].began = tx[q].began
  PROVE  \A q \in Requests : Foresight(tx[q])'
<1> SUFFICES ASSUME NEW q \in Requests PROVE Foresight(tx[q])'
  OBVIOUS
<1>1. version \in Nat /\ tx[q].began \in Nat /\ tx[q].began <= version
  BY Facts, Fields DEF PInv, Foresight
<1>2. tx'[q].began <= version' /\ tx'[q].began # version'
  BY <1>1
<1> QED
  BY <1>2 DEF Foresight, Undisturbed

LEMMA HireKeepsPreview ==
  ASSUME PInv, NEW p \in Phones, HireTeacher(p)
  PROVE  PreviewIsHonest' /\ Solitary' /\ \A q \in Requests : Foresight(tx[q])'
<1>1. tx' = tx /\ version' = version + 1
  BY DEF HireTeacher
<1>2. PreviewIsHonest' /\ Solitary'
  BY <1>1, HonestKept DEF PInv, Solitary, Open
<1>3. \A q \in Requests : tx[q].alone \in BOOLEAN
  BY DEF PInv, Foresight
<1> QED
  BY <1>1, <1>2, <1>3, ChangedRows

LEMMA CommitKeepsPreview ==
  ASSUME PInv, NEW r \in Requests, Commit(r)
  PROVE  PreviewIsHonest' /\ Solitary' /\ \A q \in Requests : Foresight(tx[q])'
<1> DEFINE t == tx[r]
           b == t.alone /\ version = t.began
           h == [Idle EXCEPT !.step = "done", !.kind = t.kind, !.lines = t.lines,
                             !.outcome = t.outcome, !.began = t.began, !.alone = b]
<1>1. /\ tx \in [Requests -> Handler] /\ t \in Handler /\ Shape(t) /\ version \in Nat
      /\ t.step = "commit" /\ t.step \in Steps
  BY Facts DEF Commit, AtStep, Steps, PInv
<1>2. /\ t.outcome \in Seq({"ok", "error"}) /\ t.lines \in Seq(Line) /\ t.at \in Nat
      /\ t.began \in Nat /\ t.alone \in BOOLEAN
  BY <1>1, Fields
<1>3. /\ tx' = [tx EXCEPT ![r] = h]
      /\ version' = IF <<student', owner'>> = <<student, owner>> THEN version
                    ELSE version + 1
  BY DEF Commit
<1>4. /\ h.step = "done" /\ h.kind = t.kind /\ h.lines = t.lines /\ h.outcome = t.outcome
      /\ h.began = t.began /\ h.alone = b
  BY DEF Idle
<1> HIDE DEF h
<1>5. tx'[r] = h /\ \A q \in Requests \ {r} : tx'[q] = tx[q]
  BY <1>1, <1>3
<1>6. Solitary'
  BY <1>4, <1>5 DEF PInv, Solitary, Open, Steps
<1>7. Undisturbed(t) => Foretold(h) /\ Len(h.outcome) = Len(h.lines)
  <2> SUFFICES ASSUME Undisturbed(t) PROVE Foretold(h) /\ Len(h.outcome) = Len(h.lines)
    OBVIOUS
  <2>1. Foretold(t) /\ Prospect(t)
    BY <1>1, AtHand
  <2>2. Foretold(h)
    BY <1>4, <2>1 DEF Foretold
  <2>3. Len(t.outcome) = Len(t.lines)
    BY <1>1, <2>1 DEF Prospect, Shape
  <2> QED
    BY <1>4, <2>2, <2>3
<1>8. PreviewIsHonest'
  <2> SUFFICES ASSUME NEW d \in Requests, NEW x \in Requests,
                      tx'[d].step = "done", tx'[d].kind = "dryRun", tx'[d].alone,
                      tx'[x].step = "done", tx'[x].kind = "import", tx'[x].alone,
                      tx'[d].lines = tx'[x].lines, tx'[d].began = tx'[x].began,
                      NEW i \in DOMAIN tx'[x].lines
               PROVE  /\ tx'[d].outcome[i] = "error" => tx'[x].outcome[i] = "error"
                      /\ tx'[d].outcome[i] = "ok" /\ tx'[x].outcome[i] = "error" =>
                            /\ tx'[x].lines[i].number # NotGiven
                            /\ \E j \in 1..(i - 1) : tx'[x].lines[j].number = NotGiven
    BY DEF PreviewIsHonest
  <2>1. CASE d # r /\ x # r
    BY <1>5, <2>1 DEF PInv, PreviewIsHonest
  <2>2. CASE d = r \/ x = r
    <3>1. h.alone /\ h.began = version /\ tx'[d].began = version /\ tx'[x].began = version
      BY <1>4, <1>5, <2>2
    <3>2. ASSUME NEW q \in {d, x}
          PROVE  /\ Foretold(tx'[q]) /\ Len(tx'[q].outcome) = Len(tx'[q].lines)
                 /\ tx'[q].lines \in Seq(Line)
      <4>1. CASE q = r
        <5>1. Undisturbed(t)
          BY <1>4, <1>5, <3>1, <4>1 DEF Undisturbed
        <5> QED
          BY <1>2, <1>4, <1>5, <1>7, <4>1, <5>1
      <4>2. CASE q # r
        <5>1. tx'[q] = tx[q] /\ Undisturbed(tx[q]) /\ tx[q].step = "done"
          BY <1>5, <3>1, <4>2 DEF Undisturbed
        <5>2. tx[q].lines \in Seq(Line)
          BY <1>1, Fields
        <5> QED
          BY <5>1, <5>2 DEF PInv, Foresight
      <4> QED
        BY <4>1, <4>2
    <3> DEFINE y == tx'[d]
               z == tx'[x]
    <3>3. /\ Foretold(y) /\ Foretold(z) /\ y.kind = "dryRun" /\ y.lines = z.lines
          /\ z.lines \in Seq(Line) /\ Len(y.outcome) = Len(y.lines)
          /\ Len(z.outcome) = Len(z.lines) /\ i \in DOMAIN z.lines
      BY <3>2
    <3> HIDE DEF y, z
    <3>4. /\ y.outcome[i] = "error" => z.outcome[i] = "error"
          /\ y.outcome[i] = "ok" /\ z.outcome[i] = "error" =>
                /\ z.lines[i].number # NotGiven
                /\ \E j \in 1..(i - 1) : z.lines[j].number = NotGiven
      BY <3>3, Compared
    <3> QED
      BY <3>4 DEF y, z
  <2> QED
    BY <2>1, <2>2
<1>9. \A q \in Requests : Foresight(tx[q])'
  <2>1. CASE version' = version + 1
    <3>1. \A q \in Requests : tx'[q].alone \in BOOLEAN /\ tx'[q].began = tx[q].began
      BY <1>4, <1>5 DEF PInv, Foresight
    <3> QED
      BY <2>1, <3>1, ChangedRows
  <2>2. CASE UNCHANGED <<student, owner, version>>
    <3>1. Foresight(h)
      <4>1. h.alone \in BOOLEAN /\ h.began <= version
        BY <1>4 DEF PInv, Foresight
      <4>2. Undisturbed(h) => Undisturbed(t)
        BY <1>4 DEF Undisturbed
      <4> QED
        BY <1>4, <1>7, <4>1, <4>2 DEF Foresight, Steps
    <3>2. \A q \in Requests : Foresight(tx'[q])
      BY <1>5, <3>1 DEF PInv
    <3> QED
      BY <2>2, <3>2, ForesightKept
  <2> QED
    BY <1>3, <2>1, <2>2
<1> QED
  BY <1>6, <1>8, <1>9

-----------------------------------------------------------------------------
(* The preview is honest *)

LEMMA PreviewKept == PInv /\ [Next]_vars => PInv'
<1> SUFFICES ASSUME PInv, [Next]_vars PROVE PInv'
  OBVIOUS
<1>1. IInv'
  BY Preserved DEF PInv
<1>2. ASSUME NEW r \in Requests, Serve(r)
      PROVE  PreviewIsHonest' /\ Solitary' /\ \A q \in Requests : Foresight(tx[q])'
  BY <1>2, CheckKeepsPreview, UpdateKeepsPreview, InsertKeepsPreview, FindKeepsPreview,
     TakeKeepsPreview, LinkKeepsPreview, CommitKeepsPreview, DeadlockKeepsPreview DEF Serve
<1>3. ASSUME NEW r \in Requests, Fail(r)
      PROVE  PreviewIsHonest' /\ Solitary' /\ \A q \in Requests : Foresight(tx[q])'
  BY <1>3, RolledBack DEF Fail, Open
<1>4. CASE UNCHANGED vars
  <2>1. tx' = tx /\ UNCHANGED <<student, owner, version>>
    BY <1>4 DEF vars
  <2>2. PreviewIsHonest' /\ Solitary'
    BY <2>1, HonestKept DEF PInv, Solitary, Open
  <2>3. \A q \in Requests : Foresight(tx'[q])
    BY <2>1 DEF PInv
  <2> QED
    BY <1>1, <2>1, <2>2, <2>3, ForesightKept DEF PInv
<1> QED
  BY <1>1, <1>2, <1>3, <1>4, ArriveKeepsPreview, HireKeepsPreview DEF Next, PInv

\* bulkImport with and without dryRun, of one table and with nothing changed in
\* between: what the preview refuses the import refuses, and what it accepts is refused
\* only if the number went to a line above that asked for the next one.
THEOREM PreviewStaysHonest == Spec => []PreviewIsHonest
<1>1. Init => PInv
  <2> SUFFICES ASSUME Init PROVE PInv
    OBVIOUS
  <2>1. \A r \in Requests : tx[r] = Idle
    BY DEF Init
  <2>2. PreviewIsHonest /\ Solitary
    BY <2>1, IdleIs DEF PreviewIsHonest, Solitary
  <2>3. Foresight(Idle)
    BY IdleIs DEF Foresight, Undisturbed, Init
  <2> QED
    BY <2>1, <2>2, <2>3, Start DEF PInv
<1>2. PInv => PreviewIsHonest
  BY DEF PInv
<1> QED
  BY <1>1, <1>2, PreviewKept, PTL DEF Spec

=============================================================================
