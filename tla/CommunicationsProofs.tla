------------------------ MODULE CommunicationsProofs ------------------------
(* Every property of Communications, for any number of requests, leaves, users  *)
(* and audiences.                                                              *)
(* OnlyOverlapRedecides speaks of one step; what it needs of the past is that a *)
(* leave somebody is deciding was pending as he read it, or has been decided    *)
(* since by a request that ended after his began (Deciding), and that an        *)
(* application still being filed is in nobody else's hands (Filing).            *)
(* What people are told needs of an open request that whom it has resolved is   *)
(* everybody who was there before it began (Addressing, Concerning), and of the *)
(* inbox that all in it comes of requests that are over (Delivered).            *)
EXTENDS Communications, TLAPS

\* The steps of a handler of each kind, and what its locals hold there.
StepsOf(kind) ==
    CASE kind = "apply" -> {"check", "file", "commit"}
      [] kind = "suggest" -> {"file", "commit"}
      [] kind \in {"decide", "reply"} -> {"read", "update", "resolve", "notify", "commit"}
      [] kind = "post" -> {"file", "resolve", "notify", "commit"}
      [] kind = "broadcast" -> {"resolve", "notify", "commit"}
      [] OTHER -> {}

LocalOK(t) ==
    /\ t.step \in Open => t.step \in StepsOf(t.kind)
    /\ t.kind \in {"apply", "decide"} /\ t.step \in Open => t.about \in Leaves
    /\ t.kind \in {"suggest", "reply"} /\ t.step \in Open => t.about \in Suggestions
    /\ t.kind \in Posts /\ t.step \in Open => t.about \in Requests
    /\ t.kind = "decide" /\ t.step \in Open => t.says \in Verdicts
    /\ t.kind = "apply" /\ t.step \in Open => t.says = "pending"
    /\ t.kind \in {"suggest"} /\ t.step \in Open => t.says = "open"
    /\ t.kind = "reply" /\ t.step \in Open => t.says = "closed"
    /\ t.kind \in Posts /\ t.step \in Open => t.says = "news"
    /\ t.kind \in {"apply", "suggest"} => ~ t.sent
    /\ t.kind \notin Posts /\ t.step \in {"resolve", "notify", "commit"} => t.wrote
    /\ t.wrote \/ t.sent => t.step \in Open

Locals == \A r \in Requests : LocalOK(tx[r])

Clocked == \A r \in Requests : tx[r].began <= clock

\* A verdict names the decision it came from, which is over.
Decided ==
    \A l \in Leaves : case[l].status \in Verdicts =>
       /\ case[l].by \in Requests
       /\ tx[case[l].by].step = "done" /\ tx[case[l].by].kind = "decide"

Filing ==
    \A r \in Requests : tx[r].kind = "apply" /\ tx[r].wrote =>
       /\ case[tx[r].about].status = "absent"
       /\ \A q \in Requests \ {r} : tx[q].wrote => tx[q].about # tx[r].about

Decisive == {"update", "resolve", "notify", "commit"}

\* A leave that is being decided is there, and was not decided before the request began.
Overlapping(t) ==
    /\ case[t.about].status # "absent"
    /\ case[t.about].status \in Verdicts => tx[case[t.about].by].ended >= t.began

Deciding ==
    \A r \in Requests : tx[r].kind = "decide" /\ tx[r].step \in Decisive
                           => Overlapping(tx[r])

IInv == TypeOK /\ Locals /\ Clocked /\ Decided /\ Filing /\ Deciding

-----------------------------------------------------------------------------
(* Handlers *)

LEMMA IdleHandler ==
  /\ Idle \in Handler /\ Idle.step = "idle" /\ Idle.kind = "none"
  /\ Idle.wrote = FALSE /\ Idle.sent = FALSE /\ Idle.began = 0
  BY DEF Idle, Handler

LEMMA FailedHandler ==
  ASSUME NEW f, f = [Idle EXCEPT !.step = "failed"]
  PROVE  /\ f \in Handler /\ LocalOK(f)
         /\ f.step = "failed" /\ f.kind = "none" /\ f.wrote = FALSE /\ f.began = 0
<1>1. f \in Handler /\ f.step = "failed" /\ f.kind = "none" /\ f.wrote = FALSE
      /\ f.sent = FALSE /\ f.began = 0
  BY IdleHandler DEF Handler
<1> QED
  BY <1>1 DEF LocalOK, Open, Posts

\* What is left of a handler that commits.
LEMMA EndedHandler ==
  ASSUME clock \in Nat, NEW t \in Handler
  PROVE  /\ Ended(t) \in Handler /\ LocalOK(Ended(t))
         /\ Ended(t).step = "done" /\ Ended(t).kind = t.kind /\ ~ Ended(t).wrote
         /\ Ended(t).began \in {0, t.began}
         /\ t.kind = "decide" => Ended(t).ended = clock
<1> DEFINE d == [Idle EXCEPT !.step = "done", !.kind = t.kind]
<1>1. d \in Handler /\ d.step = "done" /\ d.kind = t.kind /\ d.wrote = FALSE
      /\ d.sent = FALSE /\ d.began = 0
  <2>1. t.kind \in {"none", "apply", "decide", "suggest", "reply"} \cup Posts
    BY DEF Handler
  <2>2. d \in Handler
    BY <2>1, IdleHandler DEF Handler
  <2>3. d.step = "done" /\ d.kind = t.kind
    BY <2>1, IdleHandler DEF Handler
  <2>4. d.wrote = FALSE /\ d.sent = FALSE /\ d.began = 0
    BY IdleHandler DEF Handler
  <2> QED
    BY <2>2, <2>3, <2>4
<1>2. t.began \in Nat
  BY DEF Handler
<1>3. CASE t.kind = "decide"
  <2>1. Ended(t) = [d EXCEPT !.began = t.began, !.ended = clock]
    BY <1>3 DEF Ended, Posts
  <2> HIDE DEF d
  <2>2. Ended(t) \in Handler
    BY <1>1, <1>2, <2>1 DEF Handler
  <2> QED
    BY <1>1, <1>2, <2>1, <2>2, <1>3 DEF LocalOK, Handler, Open, Posts
<1>4. CASE t.kind \in Posts
  <2>1. Ended(t) = [d EXCEPT !.began = t.began]
    BY <1>4 DEF Ended, Posts
  <2> HIDE DEF d
  <2>2. Ended(t) \in Handler
    BY <1>1, <1>2, <2>1 DEF Handler
  <2> QED
    BY <1>1, <1>2, <2>1, <2>2, <1>4 DEF LocalOK, Handler, Open, Posts
<1>5. CASE t.kind # "decide" /\ t.kind \notin Posts
  <2>1. Ended(t) = d
    BY <1>5 DEF Ended
  <2> HIDE DEF d
  <2> QED
    BY <1>1, <2>1, <1>5 DEF LocalOK, Handler, Open, Posts
<1> QED
  BY <1>3, <1>4, <1>5

-----------------------------------------------------------------------------
(* One handler changes *)

\* What a step may do to a handler without harm to what the others rely on: unless it
\* is filing or deciding already, it takes a leave that is free to file or pending.
Harmless(r, h) ==
    /\ tx[r].step # "done"
    /\ h.wrote /\ h.about \in Leaves =>
          \/ tx[r].wrote /\ tx[r].about = h.about /\ tx[r].kind = h.kind
          \/ /\ h.kind = "apply" => /\ case[h.about].status = "absent"
                                    /\ \A q \in Requests : tx[q].wrote => tx[q].about # h.about
             /\ \A q \in Requests : tx[q].wrote /\ tx[q].kind = "apply"
                                       => tx[q].about # h.about
    /\ h.kind = "decide" /\ h.step \in Decisive =>
          \/ /\ tx[r].kind = "decide" /\ tx[r].step \in Decisive
             /\ tx[r].about = h.about /\ tx[r].began = h.began
          \/ case[h.about].status = "pending"

LEMMA OneHandler ==
  ASSUME IInv, NEW r \in Requests, NEW h \in Handler, LocalOK(h), Harmless(r, h),
         tx' = [tx EXCEPT ![r] = h], UNCHANGED tables,
         clock' \in Nat, clock <= clock', h.began <= clock'
  PROVE  IInv'
<1> USE DEF IInv
<1>1. /\ tx'[r] = h
      /\ \A q \in Requests \ {r} : tx'[q] = tx[q]
      /\ tx' \in [Requests -> Handler]
      /\ tx \in [Requests -> Handler]
  BY DEF TypeOK
<1>2. case' = case /\ clock \in Nat
  BY DEF tables, TypeOK
<1>3. TypeOK'
  BY <1>1 DEF TypeOK, tables
<1>4. Locals'
  BY <1>1 DEF Locals, LocalOK
<1>5. Clocked'
  <2> SUFFICES ASSUME NEW q \in Requests PROVE tx'[q].began <= clock'
    BY DEF Clocked
  <2>1. tx[q].began \in Nat /\ tx[q].began <= clock
    BY <1>1 DEF Clocked, Handler
  <2> QED
    BY <1>1, <1>2, <2>1
<1>6. Decided'
  BY <1>1, <1>2 DEF Decided, Harmless
<1>7. Filing'
  <2> SUFFICES ASSUME NEW q \in Requests, tx'[q].kind = "apply", tx'[q].wrote
               PROVE  /\ case[tx'[q].about].status = "absent"
                      /\ \A p \in Requests \ {q} : tx'[p].wrote => tx'[p].about # tx'[q].about
    BY <1>2 DEF Filing
  <2>1. LocalOK(tx'[q]) /\ tx'[q].about \in Leaves
    BY <1>4 DEF Locals, LocalOK
  <2>2. CASE q = r
    BY <1>1, <2>1, <2>2 DEF Filing, Harmless
  <2>3. CASE q # r
    BY <1>1, <2>1, <2>3 DEF Filing, Harmless
  <2> QED
    BY <2>2, <2>3
<1>8. Deciding'
  <2> SUFFICES ASSUME NEW q \in Requests, tx'[q].kind = "decide", tx'[q].step \in Decisive
               PROVE  Overlapping(tx[q])' 
    BY DEF Deciding
  <2>1. tx'[q].about \in Leaves
    BY <1>4 DEF Locals, LocalOK, Decisive, Open
  <2>2. \/ case[tx'[q].about].status = "pending"
        \/ /\ case[tx'[q].about].status # "absent"
           /\ case[tx'[q].about].status \in Verdicts
                 => tx[case[tx'[q].about].by].ended >= tx'[q].began
    BY <1>1, <2>1 DEF Deciding, Harmless, Overlapping
  <2>3. case[tx'[q].about].status \in Verdicts =>
           tx'[case[tx'[q].about].by] = tx[case[tx'[q].about].by]
    BY <1>1, <2>1 DEF Decided, Harmless
  <2> QED
    BY <1>2, <2>2, <2>3 DEF Overlapping, Verdicts
<1> QED
  BY <1>3, <1>4, <1>5, <1>6, <1>7, <1>8

-----------------------------------------------------------------------------
(* Requests that begin *)

LEMMA BeginStep ==
  ASSUME IInv, NEW r \in Requests, NEW h \in Handler, LocalOK(h),
         h.step \in {"check", "read", "file", "resolve"}, h.kind = "decide" => h.step = "read",
         h.wrote = FALSE, Begin(r, h)
  PROVE  IInv'
<1> DEFINE g == [h EXCEPT !.began = clock + 1]
<1>1. clock \in Nat
  BY DEF IInv, TypeOK
<1>2. /\ g \in Handler /\ g.began = clock + 1
      /\ g.step = h.step /\ g.kind = h.kind /\ g.about = h.about /\ g.says = h.says
      /\ g.wrote = h.wrote /\ g.sent = h.sent
  <2>1. g \in Handler
    BY <1>1 DEF Handler
  <2>2. g.began = clock + 1
    BY DEF Handler
  <2>3. g.step = h.step /\ g.kind = h.kind /\ g.about = h.about /\ g.says = h.says
    BY DEF Handler
  <2>4. g.wrote = h.wrote /\ g.sent = h.sent
    BY DEF Handler
  <2> QED
    BY <2>1, <2>2, <2>3, <2>4
<1>3. tx' = [tx EXCEPT ![r] = g] /\ clock' = clock + 1 /\ UNCHANGED tables
      /\ tx[r].step = "idle"
  BY DEF Begin
<1> HIDE DEF g
<1>4. LocalOK(g)
  BY <1>2 DEF LocalOK
<1>5. Harmless(r, g)
  BY <1>2, <1>3 DEF Harmless, Decisive
<1>6. clock' \in Nat /\ clock <= clock' /\ g.began <= clock'
  BY <1>1, <1>2, <1>3
<1> QED
  BY <1>2, <1>3, <1>4, <1>5, <1>6, OneHandler

\* Every request begins as its kind does.
LEMMA ArriveStep ==
  ASSUME IInv, NEW r \in Requests, Arrive(r)
  PROVE  IInv'
<1> USE DEF IInv
<1>1. ASSUME NEW l \in Leaves, NEW u \in Users, ApplyLeave(r, l, u)
      PROVE  IInv'
  <2> DEFINE h == [Idle EXCEPT !.step = "check", !.kind = "apply", !.about = l, !.user = u,
                               !.says = "pending"]
  <2>1. Begin(r, h)
    BY <1>1 DEF ApplyLeave
  <2>2. /\ h \in Handler /\ h.step = "check" /\ h.kind = "apply" /\ h.about = l
        /\ h.says = "pending" /\ h.wrote = FALSE /\ h.sent = FALSE
    <3>1. h \in Handler
      BY IdleHandler DEF Handler, Open, Cases
    <3>2. h.step = "check" /\ h.kind = "apply" /\ h.about = l /\ h.says = "pending"
      BY IdleHandler DEF Handler
    <3>3. h.wrote = FALSE /\ h.sent = FALSE
      BY IdleHandler DEF Handler
    <3> QED
      BY <3>1, <3>2, <3>3
  <2> HIDE DEF h
  <2>3. LocalOK(h)
    BY <2>2 DEF LocalOK, StepsOf, Posts
  <2> QED
    BY <2>1, <2>2, <2>3, BeginStep
<1>2. ASSUME NEW l \in Leaves, NEW v \in Verdicts, ActLeave(r, l, v)
      PROVE  IInv'
  <2> DEFINE h == [Idle EXCEPT !.step = "read", !.kind = "decide", !.about = l, !.says = v]
  <2>1. Begin(r, h)
    BY <1>2 DEF ActLeave
  <2>2. /\ h \in Handler /\ h.step = "read" /\ h.kind = "decide" /\ h.about = l
        /\ h.says = v /\ h.wrote = FALSE /\ h.sent = FALSE
    <3>1. h \in Handler
      BY IdleHandler DEF Handler, Open, Cases
    <3>2. h.step = "read" /\ h.kind = "decide" /\ h.about = l /\ h.says = v
      BY IdleHandler DEF Handler
    <3>3. h.wrote = FALSE /\ h.sent = FALSE
      BY IdleHandler DEF Handler
    <3> QED
      BY <3>1, <3>2, <3>3
  <2> HIDE DEF h
  <2>3. LocalOK(h)
    BY <2>2 DEF LocalOK, StepsOf, Posts
  <2> QED
    BY <2>1, <2>2, <2>3, BeginStep
<1>3. ASSUME NEW s \in Suggestions, SubmitSuggestion(r, s)
      PROVE  IInv'
  <2> DEFINE h == [Idle EXCEPT !.step = "file", !.kind = "suggest", !.about = s,
                               !.says = "open"]
  <2>1. Begin(r, h)
    BY <1>3 DEF SubmitSuggestion
  <2>2. /\ h \in Handler /\ h.step = "file" /\ h.kind = "suggest" /\ h.about = s
        /\ h.says = "open" /\ h.wrote = FALSE /\ h.sent = FALSE
    <3>1. h \in Handler
      BY IdleHandler DEF Handler, Open, Cases
    <3>2. h.step = "file" /\ h.kind = "suggest" /\ h.about = s /\ h.says = "open"
      BY IdleHandler DEF Handler
    <3>3. h.wrote = FALSE /\ h.sent = FALSE
      BY IdleHandler DEF Handler
    <3> QED
      BY <3>1, <3>2, <3>3
  <2> HIDE DEF h
  <2>3. LocalOK(h)
    BY <2>2 DEF LocalOK, StepsOf, Posts
  <2> QED
    BY <2>1, <2>2, <2>3, BeginStep
<1>4. ASSUME NEW s \in Suggestions, ReplySuggestion(r, s)
      PROVE  IInv'
  <2> DEFINE h == [Idle EXCEPT !.step = "read", !.kind = "reply", !.about = s,
                               !.says = "closed"]
  <2>1. Begin(r, h)
    BY <1>4 DEF ReplySuggestion
  <2>2. /\ h \in Handler /\ h.step = "read" /\ h.kind = "reply" /\ h.about = s
        /\ h.says = "closed" /\ h.wrote = FALSE /\ h.sent = FALSE
    <3>1. h \in Handler
      BY IdleHandler DEF Handler, Open, Cases
    <3>2. h.step = "read" /\ h.kind = "reply" /\ h.about = s /\ h.says = "closed"
      BY IdleHandler DEF Handler
    <3>3. h.wrote = FALSE /\ h.sent = FALSE
      BY IdleHandler DEF Handler
    <3> QED
      BY <3>1, <3>2, <3>3
  <2> HIDE DEF h
  <2>3. LocalOK(h)
    BY <2>2 DEF LocalOK, StepsOf, Posts
  <2> QED
    BY <2>1, <2>2, <2>3, BeginStep
<1>5. ASSUME NEW a \in Audiences \cup {"all", "nobody"}, SendNotice(r, a)
      PROVE  IInv'
  <2> DEFINE h == [Idle EXCEPT !.step = "file", !.kind = "post", !.about = r,
                               !.says = "news", !.audience = a]
  <2>1. Begin(r, h)
    BY <1>5 DEF SendNotice
  <2>2. /\ h \in Handler /\ h.step = "file" /\ h.kind = "post" /\ h.about = r
        /\ h.says = "news" /\ h.wrote = FALSE /\ h.sent = FALSE
    <3>1. h \in Handler
      BY IdleHandler DEF Handler, Open, Posts
    <3>2. h.step = "file" /\ h.kind = "post" /\ h.about = r /\ h.says = "news"
      BY IdleHandler DEF Handler
    <3>3. h.wrote = FALSE /\ h.sent = FALSE
      BY IdleHandler DEF Handler
    <3> QED
      BY <3>1, <3>2, <3>3
  <2> HIDE DEF h
  <2>3. LocalOK(h)
    BY <2>2 DEF LocalOK, StepsOf, Posts
  <2> QED
    BY <2>1, <2>2, <2>3, BeginStep
<1>6. ASSUME NEW a \in Audiences \cup {"all"}, Broadcast(r, a)
      PROVE  IInv'
  <2> DEFINE h == [Idle EXCEPT !.step = "resolve", !.kind = "broadcast", !.about = r,
                               !.says = "news", !.audience = a]
  <2>1. Begin(r, h)
    BY <1>6 DEF Broadcast
  <2>2. /\ h \in Handler /\ h.step = "resolve" /\ h.kind = "broadcast" /\ h.about = r
        /\ h.says = "news" /\ h.wrote = FALSE /\ h.sent = FALSE
    <3>1. h \in Handler
      BY IdleHandler DEF Handler, Open, Posts
    <3>2. h.step = "resolve" /\ h.kind = "broadcast" /\ h.about = r /\ h.says = "news"
      BY IdleHandler DEF Handler
    <3>3. h.wrote = FALSE /\ h.sent = FALSE
      BY IdleHandler DEF Handler
    <3> QED
      BY <3>1, <3>2, <3>3
  <2> HIDE DEF h
  <2>3. LocalOK(h)
    BY <2>2 DEF LocalOK, StepsOf, Posts
  <2> QED
    BY <2>1, <2>2, <2>3, BeginStep
<1>7. ASSUME NEW a \in Audiences, CreateCircular(r, a)
      PROVE  IInv'
  BY <1>5, <1>7 DEF CreateCircular
<1>8. ASSUME NEW a \in Audiences, SendMessage(r, a)
      PROVE  IInv'
  BY <1>5, <1>8 DEF SendMessage
<1>9. \A m \in Memberships : m[1] \in Users
  BY MembershipsAssumption
<1> QED
  BY <1>1, <1>2, <1>3, <1>4, <1>5, <1>6, <1>7, <1>8, <1>9 DEF Arrive, Present

-----------------------------------------------------------------------------
(* Statements *)

LEMMA RollbackStep ==
  ASSUME IInv, NEW r \in Requests, tx[r].step \in Open, Rollback(r)
  PROVE  IInv'
<1> DEFINE h == [Idle EXCEPT !.step = "failed"]
<1>1. /\ h \in Handler /\ LocalOK(h)
      /\ h.step = "failed" /\ h.kind = "none" /\ h.wrote = FALSE /\ h.began = 0
  BY FailedHandler
<1>2. tx' = [tx EXCEPT ![r] = h] /\ UNCHANGED <<tables, clock>>
  BY DEF Rollback
<1> HIDE DEF h
<1>3. clock \in Nat
  BY DEF IInv, TypeOK
<1>4. Harmless(r, h)
  BY <1>1 DEF Harmless, Open
<1>5. clock' \in Nat /\ clock <= clock' /\ h.began <= clock'
  BY <1>1, <1>2, <1>3
<1> QED
  BY <1>1, <1>2, <1>4, <1>5, OneHandler

\* A handler one step on, with what it has resolved; one that has written its row; one
\* that has written its notifications.
Served(t, step, targets) == [t EXCEPT !.step = step, !.targets = targets]
Written(t, step) == [t EXCEPT !.step = step, !.wrote = TRUE]
Sent(t, step) == [t EXCEPT !.step = step, !.sent = TRUE]

LEMMA ServedHandler ==
  ASSUME NEW t \in Handler, NEW step \in Open, NEW targets \in SUBSET Target,
         NEW h, h = Served(t, step, targets)
  PROVE  /\ h \in Handler /\ h.step = step /\ h.kind = t.kind /\ h.about = t.about
         /\ h.says = t.says /\ h.wrote = t.wrote /\ h.sent = t.sent /\ h.began = t.began
<1>1. h \in Handler
  BY DEF Handler, Served
<1>2. h.step = step /\ h.kind = t.kind /\ h.about = t.about
  BY DEF Handler, Served
<1>3. h.says = t.says /\ h.began = t.began
  BY DEF Handler, Served
<1>4. h.wrote = t.wrote /\ h.sent = t.sent
  BY DEF Handler, Served
<1> QED
  BY <1>1, <1>2, <1>3, <1>4

LEMMA WrittenHandler ==
  ASSUME NEW t \in Handler, NEW step \in Open
  PROVE  LET h == Written(t, step) IN
         /\ h \in Handler /\ h.step = step /\ h.kind = t.kind /\ h.about = t.about
         /\ h.says = t.says /\ h.wrote = TRUE /\ h.sent = t.sent /\ h.began = t.began
<1> DEFINE h == Written(t, step)
<1>1. h \in Handler
  BY DEF Handler, Written
<1>2. h.step = step /\ h.kind = t.kind /\ h.about = t.about
  BY DEF Handler, Written
<1>3. h.says = t.says /\ h.began = t.began
  BY DEF Handler, Written
<1>4. h.wrote = TRUE /\ h.sent = t.sent
  BY DEF Handler, Written
<1> QED
  BY <1>1, <1>2, <1>3, <1>4

LEMMA SentHandler ==
  ASSUME NEW t \in Handler, NEW step \in Open
  PROVE  LET h == Sent(t, step) IN
         /\ h \in Handler /\ h.step = step /\ h.kind = t.kind /\ h.about = t.about
         /\ h.says = t.says /\ h.wrote = t.wrote /\ h.sent = TRUE /\ h.began = t.began
<1> DEFINE h == Sent(t, step)
<1>1. h \in Handler
  BY DEF Handler, Sent
<1>2. h.step = step /\ h.kind = t.kind /\ h.about = t.about
  BY DEF Handler, Sent
<1>3. h.says = t.says /\ h.began = t.began
  BY DEF Handler, Sent
<1>4. h.wrote = t.wrote /\ h.sent = TRUE
  BY DEF Handler, Sent
<1> QED
  BY <1>1, <1>2, <1>3, <1>4

\* The fields of a handler in the state it is in.
LEMMA HandlerFields ==
  ASSUME IInv, NEW r \in Requests
  PROVE  /\ tx[r] \in Handler /\ tx[r].targets \in SUBSET Target
         /\ tx[r].wrote \in BOOLEAN /\ tx[r].sent \in BOOLEAN
         /\ LocalOK(tx[r])
  BY DEF IInv, TypeOK, Handler, Locals

LEMMA ServedStep ==
  ASSUME IInv, NEW r \in Requests, UNCHANGED <<tables, clock>>,
         NEW h \in Handler, h.began = tx[r].began, LocalOK(h), Harmless(r, h),
         tx' = [tx EXCEPT ![r] = h]
  PROVE  IInv'
<1>1. clock \in Nat
  BY DEF IInv, TypeOK
<1>2. tx[r].began \in Nat /\ tx[r].began <= clock
  BY HandlerFields DEF Handler, IInv, Clocked
<1>3. clock' \in Nat /\ clock <= clock' /\ h.began <= clock'
  BY <1>1, <1>2
<1> QED
  BY <1>3, OneHandler

LEMMA CheckApplicantStep ==
  ASSUME IInv, NEW r \in Requests, CheckApplicant(r)
  PROVE  IInv'
<1>1. CASE Rollback(r)
  BY <1>1, RollbackStep DEF CheckApplicant, AtStep, Open
<1>2. CASE tx' = Goto(r, "file") /\ UNCHANGED <<tables, clock>>
  <2> DEFINE h == Served(tx[r], "file", tx[r].targets)
  <2>1. tx[r].step = "check" /\ tx \in [Requests -> Handler] /\ "file" \in Open
    BY DEF CheckApplicant, AtStep, IInv, TypeOK, Open
  <2>2. tx' = [tx EXCEPT ![r] = h]
    BY <1>2, <2>1, HandlerFields DEF Goto, Handler, Served
  <2> HIDE DEF h
  <2>3. /\ h \in Handler /\ h.step = "file" /\ h.kind = tx[r].kind /\ h.about = tx[r].about
        /\ h.says = tx[r].says /\ h.wrote = tx[r].wrote /\ h.sent = tx[r].sent
        /\ h.began = tx[r].began
    BY <2>1, HandlerFields, ServedHandler DEF h
  <2>4. LocalOK(h)
    BY <2>1, <2>3, HandlerFields DEF LocalOK, StepsOf, Open, Posts
  <2>5. Harmless(r, h)
    BY <2>1, <2>3 DEF Harmless, Decisive
  <2> QED
    BY <1>2, <2>2, <2>3, <2>4, <2>5, ServedStep
<1> QED
  BY <1>1, <1>2 DEF CheckApplicant

LEMMA FileRowStep ==
  ASSUME IInv, NEW r \in Requests, FileRow(r)
  PROVE  IInv'
<1>1. CASE tx[r].kind = "post"
  <2> DEFINE h == Written(tx[r], "resolve")
  <2>1. tx[r].step = "file" /\ tx \in [Requests -> Handler] /\ "resolve" \in Open
    BY DEF FileRow, AtStep, IInv, TypeOK, Open
  <2>2. tx' = [tx EXCEPT ![r] = h]
    BY <1>1, <2>1, HandlerFields DEF Goto, Handler, Written, FileRow
  <2> HIDE DEF h
  <2>3. /\ h \in Handler /\ h.step = "resolve" /\ h.kind = tx[r].kind /\ h.about = tx[r].about
        /\ h.says = tx[r].says /\ h.wrote = TRUE /\ h.sent = tx[r].sent
        /\ h.began = tx[r].began
    BY <2>1, HandlerFields, WrittenHandler DEF h
  <2>w. h.wrote
    BY <2>3
  <2>4. LocalOK(h)
    BY <1>1, <2>1, <2>3, <2>w, HandlerFields DEF LocalOK, StepsOf, Open, Posts
  <2>5. Harmless(r, h)
    BY <1>1, <2>1, <2>3, <2>w, HandlerFields, CasesAssumption
       DEF Harmless, Decisive, LocalOK, Cases, Posts, Open
  <2> QED
    BY <1>1, <2>2, <2>3, <2>4, <2>5, ServedStep DEF FileRow
<1>2. CASE tx[r].kind # "post"
  <2> DEFINE h == Written(tx[r], "commit")
  <2>1. tx[r].step = "file" /\ tx \in [Requests -> Handler] /\ "commit" \in Open
    BY DEF FileRow, AtStep, IInv, TypeOK, Open
  <2>2. tx' = [tx EXCEPT ![r] = h]
    BY <1>2, <2>1, HandlerFields DEF Goto, Handler, Written, FileRow
  <2> HIDE DEF h
  <2>3. /\ h \in Handler /\ h.step = "commit" /\ h.kind = tx[r].kind /\ h.about = tx[r].about
        /\ h.says = tx[r].says /\ h.wrote = TRUE /\ h.sent = tx[r].sent
        /\ h.began = tx[r].began
    BY <2>1, HandlerFields, WrittenHandler DEF h
  <2>w. h.wrote
    BY <2>3
  <2>4. LocalOK(h)
    BY <1>2, <2>1, <2>3, <2>w, HandlerFields DEF LocalOK, StepsOf, Open, Posts
  <2>5. Harmless(r, h)
    BY <2>1, <2>3, <2>w, HandlerFields
       DEF Harmless, Decisive, LocalOK, Cases, StepsOf, Posts, Open, FileRow
  <2> QED
    BY <1>2, <2>2, <2>3, <2>4, <2>5, ServedStep DEF FileRow
<1> QED
  BY <1>1, <1>2

LEMMA ReadCaseStep ==
  ASSUME IInv, NEW r \in Requests, ReadCase(r)
  PROVE  IInv'
<1>1. CASE ~ Answerable(r)
  BY <1>1, RollbackStep DEF ReadCase, AtStep, Open
<1>2. CASE Answerable(r)
  <2> DEFINE h == Served(tx[r], "update", tx[r].targets)
  <2>1. tx[r].step = "read" /\ tx \in [Requests -> Handler] /\ "update" \in Open
    BY DEF ReadCase, AtStep, IInv, TypeOK, Open
  <2>2. tx' = [tx EXCEPT ![r] = h]
    BY <1>2, <2>1, HandlerFields DEF Goto, Handler, Served, ReadCase
  <2> HIDE DEF h
  <2>3. /\ h \in Handler /\ h.step = "update" /\ h.kind = tx[r].kind /\ h.about = tx[r].about
        /\ h.says = tx[r].says /\ h.wrote = tx[r].wrote /\ h.sent = tx[r].sent
        /\ h.began = tx[r].began
    BY <2>1, HandlerFields, ServedHandler DEF h
  <2>4. LocalOK(h)
    BY <2>1, <2>3, HandlerFields DEF LocalOK, StepsOf, Open, Posts
  <2>5. Harmless(r, h)
    BY <1>2, <2>1, <2>3 DEF Harmless, Answerable
  <2> QED
    BY <1>2, <2>2, <2>3, <2>4, <2>5, ServedStep DEF ReadCase
<1> QED
  BY <1>1, <1>2

\* A leave that is being decided is no longer being filed.
LEMMA UpdateCaseStep ==
  ASSUME IInv, NEW r \in Requests, UpdateCase(r)
  PROVE  IInv'
<1> DEFINE h == Written(tx[r], "resolve")
<1>1. tx[r].step = "update" /\ tx \in [Requests -> Handler] /\ "resolve" \in Open
  BY DEF UpdateCase, AtStep, IInv, TypeOK, Open
<1>2. tx' = [tx EXCEPT ![r] = h]
  BY <1>1, HandlerFields DEF Goto, Handler, Written, UpdateCase
<1> HIDE DEF h
<1>3. /\ h \in Handler /\ h.step = "resolve" /\ h.kind = tx[r].kind /\ h.about = tx[r].about
      /\ h.says = tx[r].says /\ h.wrote = TRUE /\ h.sent = tx[r].sent
      /\ h.began = tx[r].began
  BY <1>1, HandlerFields, WrittenHandler DEF h
<1>w. h.wrote
  BY <1>3
<1>4. LocalOK(h)
  BY <1>1, <1>3, <1>w, HandlerFields DEF LocalOK, StepsOf, Open, Posts
<1>5. Harmless(r, h)
  BY <1>1, <1>3, <1>w, HandlerFields, CasesAssumption
     DEF Harmless, Decisive, LocalOK, StepsOf, Posts, Open, IInv, Filing, Deciding, Overlapping
<1> QED
  BY <1>2, <1>3, <1>4, <1>5, ServedStep DEF UpdateCase

LEMMA TargetsTyped ==
  ASSUME IInv, NEW r \in Requests, tx[r].step = "resolve"
  PROVE  TargetsOf(r) \in SUBSET Target
<1>1. \A roles : Present(roles) \subseteq Memberships
  BY DEF Present
<1>2. \A m \in Memberships : m[1] \in Users
  BY MembershipsAssumption
<1>3. \A S \in SUBSET Memberships : EachRow(S) \in SUBSET Target
  BY <1>2 DEF EachRow, Target
<1>4. \A S \in SUBSET Users : Distinct(S) \in SUBSET Target
  BY DEF Distinct, Target
<1>5. \A audience : Resolve(audience) \in SUBSET Target
  BY <1>1, <1>2, <1>3, <1>4 DEF Resolve
<1>6. ASSUME NEW c \in Cases PROVE Concerned(c) \in SUBSET Target
  BY <1>4, CasesAssumption DEF Concerned, IInv, TypeOK
<1>7. tx[r].kind \notin Posts => tx[r].about \in Cases
  BY HandlerFields DEF LocalOK, StepsOf, Open, Cases, Posts
<1> QED
  BY <1>5, <1>6, <1>7 DEF TargetsOf

LEMMA ResolveTargetsStep ==
  ASSUME IInv, NEW r \in Requests, ResolveTargets(r)
  PROVE  IInv'
<1>3. TargetsOf(r) \in SUBSET Target
  BY TargetsTyped DEF ResolveTargets, AtStep
<1>1. CASE TargetsOf(r) = {}
  <2> DEFINE h == Served(tx[r], "commit", TargetsOf(r))
  <2>1. tx[r].step = "resolve" /\ tx \in [Requests -> Handler] /\ "commit" \in Open
    BY DEF ResolveTargets, AtStep, IInv, TypeOK, Open
  <2>2. tx' = [tx EXCEPT ![r] = h]
    BY <1>1, <2>1, HandlerFields DEF Goto, Handler, Served, ResolveTargets
  <2> HIDE DEF h
  <2>3. /\ h \in Handler /\ h.step = "commit" /\ h.kind = tx[r].kind /\ h.about = tx[r].about
        /\ h.says = tx[r].says /\ h.wrote = tx[r].wrote /\ h.sent = tx[r].sent
        /\ h.began = tx[r].began
    BY <2>1, HandlerFields, ServedHandler, <1>3 DEF h
  <2>4. LocalOK(h)
    BY <2>1, <2>3, HandlerFields DEF LocalOK, StepsOf, Open, Posts
  <2>5. Harmless(r, h)
    BY <2>1, <2>3 DEF Harmless, Decisive
  <2> QED
    BY <1>1, <2>2, <2>3, <2>4, <2>5, ServedStep DEF ResolveTargets
<1>2. CASE TargetsOf(r) # {}
  <2> DEFINE h == Served(tx[r], "notify", TargetsOf(r))
  <2>1. tx[r].step = "resolve" /\ tx \in [Requests -> Handler] /\ "notify" \in Open
    BY DEF ResolveTargets, AtStep, IInv, TypeOK, Open
  <2>2. tx' = [tx EXCEPT ![r] = h]
    BY <1>2, <2>1, HandlerFields DEF Goto, Handler, Served, ResolveTargets
  <2> HIDE DEF h
  <2>3. /\ h \in Handler /\ h.step = "notify" /\ h.kind = tx[r].kind /\ h.about = tx[r].about
        /\ h.says = tx[r].says /\ h.wrote = tx[r].wrote /\ h.sent = tx[r].sent
        /\ h.began = tx[r].began
    BY <2>1, HandlerFields, ServedHandler, <1>3 DEF h
  <2>4. LocalOK(h)
    BY <2>1, <2>3, HandlerFields DEF LocalOK, StepsOf, Open, Posts
  <2>5. Harmless(r, h)
    BY <2>1, <2>3 DEF Harmless, Decisive
  <2> QED
    BY <1>2, <2>2, <2>3, <2>4, <2>5, ServedStep DEF ResolveTargets
<1> QED
  BY <1>1, <1>2

LEMMA InsertNotificationsStep ==
  ASSUME IInv, NEW r \in Requests, InsertNotifications(r)
  PROVE  IInv'
<1>1. CASE Rollback(r)
  BY <1>1, RollbackStep DEF InsertNotifications, AtStep, Open
<1>2. CASE ~ (tx[r].kind # "broadcast" /\ Cardinality(tx[r].targets) > MaxRows)
  <2> DEFINE h == Sent(tx[r], "commit")
  <2>1. tx[r].step = "notify" /\ tx \in [Requests -> Handler] /\ "commit" \in Open
    BY DEF InsertNotifications, AtStep, IInv, TypeOK, Open
  <2>2. tx' = [tx EXCEPT ![r] = h]
    BY <1>2, <2>1, HandlerFields DEF Goto, Handler, Sent, InsertNotifications
  <2> HIDE DEF h
  <2>3. /\ h \in Handler /\ h.step = "commit" /\ h.kind = tx[r].kind /\ h.about = tx[r].about
        /\ h.says = tx[r].says /\ h.wrote = tx[r].wrote /\ h.sent = TRUE
        /\ h.began = tx[r].began
    BY <2>1, HandlerFields, SentHandler DEF h
  <2>w. h.sent
    BY <2>3
  <2>4. LocalOK(h)
    BY <2>1, <2>3, <2>w, HandlerFields DEF LocalOK, StepsOf, Open, Posts
  <2>5. Harmless(r, h)
    BY <2>1, <2>3, <2>w DEF Harmless, Decisive
  <2> QED
    BY <1>2, <2>2, <2>3, <2>4, <2>5, ServedStep DEF InsertNotifications
<1> QED
  BY <1>1, <1>2 DEF InsertNotifications

\* What a request commits when it writes to a leave, a suggestion or nobody's row.
LEMMA CommitFacts ==
  ASSUME IInv, NEW r \in Requests, Commit(r)
  PROVE  /\ tx[r].step = "commit" /\ tx' = [tx EXCEPT ![r] = Ended(tx[r])]
         /\ UNCHANGED <<member, guardian, clock>>
         /\ tx[r].kind \in {"apply", "decide", "suggest", "reply"} \cup Posts
         /\ tx[r].kind \in Posts => case' = case
         /\ tx[r].kind \notin Posts =>
               /\ tx[r].about \in Cases /\ tx[r].wrote
               /\ tx[r].says \in {"pending", "open", "closed"} \cup Verdicts
               /\ case' = [case EXCEPT ![tx[r].about] = [status |-> tx[r].says, by |-> r]]
<1>1. /\ tx[r].step = "commit" /\ tx' = [tx EXCEPT ![r] = Ended(tx[r])]
      /\ UNCHANGED <<member, guardian, clock>>
      /\ tx[r].kind \in Posts => case' = case
      /\ tx[r].kind \notin Posts =>
            case' = [case EXCEPT ![tx[r].about] = [status |-> tx[r].says, by |-> r]]
  BY DEF Commit, AtStep
<1>2. LocalOK(tx[r]) /\ "commit" \in Open
  BY HandlerFields DEF Open
<1>3. tx[r].kind \in {"apply", "decide", "suggest", "reply"} \cup Posts
  BY <1>1, <1>2 DEF LocalOK, StepsOf, Posts
<1>4. tx[r].kind \notin Posts => tx[r].about \in Cases /\ tx[r].wrote
  BY <1>1, <1>2, <1>3 DEF LocalOK, Cases
<1>5. tx[r].kind \notin Posts => tx[r].says \in {"pending", "open", "closed"} \cup Verdicts
  BY <1>1, <1>2, <1>3 DEF LocalOK, Posts
<1> QED
  BY <1>1, <1>3, <1>4, <1>5

LEMMA CommitTyped ==
  ASSUME IInv, NEW r \in Requests, Commit(r)
  PROVE  TypeOK'
<1> USE DEF IInv
<1>1. tx[r] \in Handler /\ clock \in Nat /\ tx \in [Requests -> Handler]
  BY DEF TypeOK
<1>2. tx' \in [Requests -> Handler]
  <2>1. tx' = [tx EXCEPT ![r] = Ended(tx[r])]
    BY CommitFacts
  <2>2. Ended(tx[r]) \in Handler
    BY <1>1, EndedHandler
  <2> QED
    BY <1>1, <2>1, <2>2
<1>3. case' \in [Cases -> Row]
  <2>1. CASE tx[r].kind \in Posts
    BY <2>1, CommitFacts DEF TypeOK
  <2>2. CASE tx[r].kind \notin Posts
    <3>1. [status |-> tx[r].says, by |-> r] \in Row
      BY <2>2, CommitFacts DEF Row
    <3> QED
      BY <2>2, <3>1, CommitFacts DEF TypeOK
  <2> QED
    BY <2>1, <2>2
<1>4. notice' \in [Requests -> Audiences \cup {"all", "nobody", NoValue}]
  <2>1. tx[r].audience \in Audiences \cup {"all", "nobody", NoValue}
    BY <1>1 DEF Handler
  <2>2. notice' = notice \/ notice' = [notice EXCEPT ![r] = tx[r].audience]
    BY DEF Commit
  <2> QED
    BY <2>1, <2>2 DEF TypeOK
<1>5. inbox' \subseteq Notification
  <2>1. CASE ~ tx[r].sent
    BY <2>1 DEF Commit, TypeOK
  <2>2. CASE tx[r].sent
    <3>1. tx[r].about \in Cases \cup Requests
      BY CommitFacts, HandlerFields DEF LocalOK, Open
    <3>2. tx[r].says \in {"closed", "news"} \cup Verdicts
      BY <2>2, CommitFacts, HandlerFields DEF LocalOK, Open
    <3>3. tx[r].targets \in SUBSET Target
      BY HandlerFields
    <3>4. Notifications(r) \subseteq Notification
      BY <3>1, <3>2, <3>3 DEF Notifications, Notification
    <3> QED
      BY <2>2, <3>4 DEF Commit, TypeOK
  <2> QED
    BY <2>1, <2>2
<1> QED
  BY <1>1, <1>2, <1>3, <1>4, <1>5, CommitFacts DEF TypeOK

\* A leave that is decided may be decided again only by a request that began before
\* the decision; one that is being filed by one request is in no other's hands.
LEMMA CommitStep ==
  ASSUME IInv, NEW r \in Requests, Commit(r)
  PROVE  IInv'
<1> DEFINE d == Ended(tx[r])
<1> DEFINE c == tx[r].about
<1> USE DEF IInv
<1>1. /\ tx[r] \in Handler /\ clock \in Nat /\ tx \in [Requests -> Handler]
      /\ case \in [Cases -> Row] /\ LocalOK(tx[r])
  BY HandlerFields DEF TypeOK
<1>2. /\ d \in Handler /\ LocalOK(d) /\ d.step = "done" /\ d.kind = tx[r].kind
      /\ ~ d.wrote /\ d.began \in {0, tx[r].began}
      /\ tx[r].kind = "decide" => d.ended = clock
  BY <1>1, EndedHandler
<1>3. tx'[r] = d /\ \A q \in Requests \ {r} : tx'[q] = tx[q]
  <2>1. tx' = [tx EXCEPT ![r] = d]
    BY CommitFacts
  <2> HIDE DEF d
  <2> QED
    BY <1>1, <2>1
<1> HIDE DEF d
<1>4. tx[r].step = "commit" /\ clock' = clock
  BY CommitFacts
<1>5. ~ d.wrote
  BY <1>2
<1>6. \A l \in Leaves : case'[l] # case[l] =>
         /\ l = c /\ tx[r].kind \in {"apply", "decide"} /\ tx[r].wrote
         /\ case'[l].status = tx[r].says /\ case'[l].by = r
  <2> SUFFICES ASSUME NEW l \in Leaves, case'[l] # case[l]
               PROVE  /\ l = c /\ tx[r].kind \in {"apply", "decide"} /\ tx[r].wrote
                      /\ case'[l].status = tx[r].says /\ case'[l].by = r
    OBVIOUS
  <2>1. tx[r].kind \notin Posts /\ l \in Cases
    BY CommitFacts DEF Cases
  <2>2. /\ c \in Cases /\ tx[r].wrote
        /\ case' = [case EXCEPT ![c] = [status |-> tx[r].says, by |-> r]]
    BY <2>1, CommitFacts
  <2>3. l = c /\ case'[l] = [status |-> tx[r].says, by |-> r]
    BY <1>1, <2>1, <2>2
  <2>4. tx[r].kind \in {"apply", "decide"}
    BY <1>1, <1>4, <2>1, <2>3, CommitFacts, CasesAssumption DEF LocalOK, Open
  <2> QED
    BY <2>2, <2>3, <2>4
<1>7. TypeOK'
  BY CommitTyped
<1>8. Locals'
  BY <1>2, <1>3 DEF Locals, LocalOK
<1>9. Clocked'
  <2> SUFFICES ASSUME NEW q \in Requests PROVE tx'[q].began <= clock
    BY <1>4 DEF Clocked
  <2>1. tx[q].began \in Nat /\ tx[q].began <= clock /\ tx[r].began <= clock
    BY <1>1 DEF Clocked, Handler
  <2> QED
    BY <1>1, <1>2, <1>3, <2>1
<1>10. Decided'
  <2> SUFFICES ASSUME NEW l \in Leaves, case'[l].status \in Verdicts
               PROVE  /\ case'[l].by \in Requests
                      /\ tx'[case'[l].by].step = "done" /\ tx'[case'[l].by].kind = "decide"
    BY DEF Decided
  <2>1. CASE case'[l] = case[l]
    BY <1>3, <1>4, <2>1 DEF Decided
  <2>2. CASE case'[l] # case[l]
    BY <1>1, <1>2, <1>3, <1>4, <1>6, <2>2 DEF LocalOK, Verdicts, Open
  <2> QED
    BY <2>1, <2>2
<1>11. Filing'
  <2> SUFFICES ASSUME NEW q \in Requests, tx'[q].kind = "apply", tx'[q].wrote
               PROVE  /\ case'[tx'[q].about].status = "absent"
                      /\ \A p \in Requests \ {q} : tx'[p].wrote => tx'[p].about # tx'[q].about
    BY DEF Filing
  <2>1. q # r /\ tx'[q] = tx[q]
    BY <1>3, <1>5
  <2>2. tx[q].about \in Leaves
    BY <2>1 DEF Locals, LocalOK
  <2>3. case'[tx[q].about] = case[tx[q].about]
    BY <1>6, <2>1, <2>2 DEF Filing
  <2> QED
    BY <1>3, <1>5, <2>1, <2>3 DEF Filing
<1>12. Deciding'
  <2> SUFFICES ASSUME NEW q \in Requests, tx'[q].kind = "decide", tx'[q].step \in Decisive
               PROVE  Overlapping(tx[q])'
    BY DEF Deciding
  <2>1. q # r /\ tx'[q] = tx[q]
    BY <1>2, <1>3 DEF Decisive
  <2>2. tx[q].about \in Leaves /\ Overlapping(tx[q])
    BY <2>1 DEF Locals, LocalOK, Decisive, Open, Deciding
  <2>3. CASE case'[tx[q].about] = case[tx[q].about]
    <3>1. case[tx[q].about].status \in Verdicts =>
             tx'[case[tx[q].about].by] = tx[case[tx[q].about].by]
      BY <1>3, <1>4, <2>2 DEF Decided
    <3> QED
      BY <2>1, <2>2, <2>3, <3>1 DEF Overlapping
  <2>4. CASE case'[tx[q].about] # case[tx[q].about]
    <3>1. /\ case'[tx[q].about].status = tx[r].says /\ case'[tx[q].about].by = r
          /\ tx[r].kind \in {"apply", "decide"}
      BY <1>6, <2>2, <2>4
    <3>2. tx[r].says # "absent" /\ (tx[r].says \in Verdicts => tx[r].kind = "decide")
      BY <1>1, <1>4, <3>1 DEF LocalOK, Verdicts, Open
    <3>3. tx[q].began \in Nat /\ tx[q].began <= clock
      BY <1>1 DEF Clocked, Handler
    <3>4. tx[r].says \in Verdicts => d.ended >= tx[q].began
      BY <1>1, <1>2, <3>2, <3>3
    <3> QED
      BY <1>3, <2>1, <3>1, <3>2, <3>4 DEF Overlapping
  <2> QED
    BY <2>3, <2>4
<1> QED
  BY <1>7, <1>8, <1>9, <1>10, <1>11, <1>12

-----------------------------------------------------------------------------
(* The invariant *)

LEMMA Initially == Init => IInv
<1> SUFFICES ASSUME Init PROVE IInv
  OBVIOUS
<1>1. \A r \in Requests : tx[r] = Idle
  BY DEF Init
<1>2. TypeOK
  <2>1. /\ case \in [Cases -> Row] /\ inbox \subseteq Notification /\ clock \in Nat
        /\ notice \in [Requests -> Audiences \cup {"all", "nobody", NoValue}]
    BY DEF Init, Row
  <2>2. /\ member \in [Memberships -> Nat \cup {NoValue}]
        /\ guardian \in [Leaves -> Users \cup {NoValue}]
    BY DEF Init
  <2>3. tx \in [Requests -> Handler]
    BY IdleHandler DEF Init
  <2> QED
    BY <2>1, <2>2, <2>3 DEF TypeOK
<1>3. LocalOK(Idle)
  BY IdleHandler DEF LocalOK, Open, Posts
<1>4. ~ Idle.wrote
  BY IdleHandler
<1>5. Locals /\ Filing
  BY <1>1, <1>3, <1>4 DEF Locals, Filing
<1>6. Clocked
  BY <1>1, IdleHandler DEF Clocked, Init
<1>7. Decided
  BY DEF Decided, Init, Verdicts, Cases
<1>8. Deciding
  BY <1>1, IdleHandler DEF Deciding, Decisive
<1> QED
  BY <1>2, <1>5, <1>6, <1>7, <1>8 DEF IInv

\* Who joins or becomes a guardian touches no leave and no request.
LEMMA Bystanders ==
  ASSUME IInv, TypeOK', UNCHANGED <<case, clock, tx>>
  PROVE  IInv'
<1>1. Locals' /\ Clocked'
  BY DEF IInv, Locals, LocalOK, Clocked
<1>2. Decided' /\ Filing' /\ Deciding'
  BY DEF IInv, Decided, Filing, Deciding, Overlapping
<1> QED
  BY <1>1, <1>2 DEF IInv

LEMMA JoinStep ==
  ASSUME IInv, NEW m \in Memberships, Join(m)
  PROVE  IInv'
<1>1. member' \in [Memberships -> Nat \cup {NoValue}]
  BY DEF Join, IInv, TypeOK
<1> QED
  BY <1>1, Bystanders DEF Join, IInv, TypeOK

LEMMA ChangeGuardianStep ==
  ASSUME IInv, NEW l \in Leaves, ChangeGuardian(l)
  PROVE  IInv'
<1>1. PICK m \in Memberships : guardian' = [guardian EXCEPT ![l] = m[1]]
  BY DEF ChangeGuardian, Present
<1>2. m[1] \in Users
  BY MembershipsAssumption
<1>3. guardian' \in [Leaves -> Users \cup {NoValue}]
  BY <1>1, <1>2 DEF IInv, TypeOK
<1> QED
  BY <1>3, Bystanders DEF ChangeGuardian, IInv, TypeOK

LEMMA StepKeepsIInv == IInv /\ [Next]_vars => IInv'
<1> SUFFICES ASSUME IInv, [Next]_vars PROVE IInv'
  OBVIOUS
<1>1. ASSUME NEW r \in Requests, Serve(r) PROVE IInv'
  BY <1>1, CheckApplicantStep, FileRowStep, ReadCaseStep, UpdateCaseStep, ResolveTargetsStep,
     InsertNotificationsStep, CommitStep DEF Serve
<1>2. ASSUME NEW r \in Requests, Fail(r) PROVE IInv'
  BY <1>2, RollbackStep DEF Fail
<1>3. CASE UNCHANGED vars
  <2>1. TypeOK'
    BY <1>3 DEF IInv, TypeOK, vars, tables
  <2> QED
    BY <1>3, <2>1, Bystanders DEF vars, tables
<1> QED
  BY <1>1, <1>2, <1>3, ArriveStep, JoinStep, ChangeGuardianStep DEF Next

LEMMA AlwaysIInv == Spec => []IInv
  BY Initially, StepKeepsIInv, PTL DEF Spec

-----------------------------------------------------------------------------
(* The theorems *)

\* Tables and handlers keep their types, however many requests overlap and fail
\* (NotificationsService, SuperAdminService.broadcast).
THEOREM TypesKept == Spec => []TypeOK
<1>1. IInv => TypeOK
  BY DEF IInv
<1> QED
  BY <1>1, AlwaysIInv, PTL

LEMMA RedecidedInOverlap ==
  ASSUME IInv, Next, NEW l \in Leaves, case[l].status \in Verdicts, case'[l] # case[l]
  PROVE  /\ tx[case'[l].by].kind = "decide"
         /\ tx[case[l].by].ended >= tx[case'[l].by].began
<1>1. PICK r \in Requests : Commit(r)
  BY DEF Next, Arrive, ApplyLeave, ActLeave, SubmitSuggestion, ReplySuggestion, SendNotice,
         CreateCircular, SendMessage, Broadcast, Begin, Serve, CheckApplicant, FileRow, ReadCase,
         UpdateCase, ResolveTargets, InsertNotifications, Fail, Rollback, Join, ChangeGuardian,
         tables
<1>2. tx[r].kind \notin Posts /\ l \in Cases
  BY <1>1, CommitFacts DEF Cases
<1>3. /\ tx[r].about \in Cases /\ tx[r].wrote /\ tx[r].step = "commit"
      /\ case' = [case EXCEPT ![tx[r].about] = [status |-> tx[r].says, by |-> r]]
  BY <1>1, <1>2, CommitFacts
<1>4. case \in [Cases -> Row]
  BY DEF IInv, TypeOK
<1>5. tx[r].about = l /\ case'[l].by = r
  BY <1>2, <1>3, <1>4
<1>6. tx[r].kind \in {"apply", "decide"}
  BY <1>1, <1>2, <1>3, <1>5, CommitFacts, HandlerFields, CasesAssumption DEF LocalOK, Open
<1>7. tx[r].kind # "apply"
  BY <1>3, <1>5 DEF IInv, Filing, Verdicts
<1> QED
  BY <1>3, <1>5, <1>6, <1>7 DEF IInv, Deciding, Overlapping, Decisive

\* actLeave updates without the condition it checked: still, only a request that was
\* under way when a leave was decided can decide it again.
THEOREM RedecidesOnlyInOverlap == Spec => OnlyOverlapRedecides
<1> DEFINE A == \A l \in Leaves :
                   case[l].status \in Verdicts /\ case'[l] # case[l]
                      => /\ tx[case'[l].by].kind = "decide"
                         /\ tx[case[l].by].ended >= tx[case'[l].by].began
<1>1. IInv /\ [Next]_vars => [A]_vars
  BY RedecidedInOverlap
<1>2. OnlyOverlapRedecides <=> [][A]_vars
  BY PTL DEF OnlyOverlapRedecides
<1> HIDE DEF A
<1> QED
  BY <1>1, <1>2, AlwaysIInv, PTL DEF Spec

-----------------------------------------------------------------------------
(* Who is told *)

\* The audience a, of those there before b.
Meant(a, b) ==
    {u \in Users : \E m \in Memberships :
        /\ m[1] = u /\ member[m] # NoValue /\ member[m] < b
        /\ CASE a = "teachers" -> m[2] = "teacher"
             [] a = "parents"  -> m[2] = "parent"
             [] a = "students" -> m[2] = "student"
             [] a = "section"  -> u \in Section
             [] a = "nobody"   -> FALSE
             [] OTHER          -> TRUE}

OnePerUser(targets) == \A x, y \in targets : x.user = y.user => x = y

\* A suggestion that is being filed is there for nobody else.
Suggesting ==
    \A r \in Requests : tx[r].kind = "suggest" /\ tx[r].wrote =>
       /\ case[tx[r].about].status = "absent"
       /\ \A q \in Requests \ {r} : tx[q].wrote => tx[q].about # tx[r].about

Replying ==
    \A r \in Requests : tx[r].kind = "reply" /\ tx[r].step \in Decisive
                           => case[tx[r].about].status # "absent"

\* Whom an answer has resolved has the applicant or author in it.
Concerning(t) ==
    t.kind \in {"decide", "reply"} /\ t.step \in {"notify", "commit"} =>
       /\ \E x \in t.targets : x.user = AccountOf[t.about]
       /\ t.step = "commit" => t.sent

\* Whom a notice has resolved is everybody it is meant for, once.
Addressing(t) ==
    t.kind \in Posts /\ t.step \in {"notify", "commit"} =>
       /\ \A u \in Meant(t.audience, t.began) : \E x \in t.targets : x.user = u
       /\ OnePerUser(t.targets)
       /\ t.step = "commit" => t.sent \/ t.targets = {}

\* What is stored is of requests that are over.
Delivered == \A n \in inbox : tx[n.from].step = "done"
Posted == \A r \in Requests : notice[r] # NoValue => tx[r].step = "done"

DInv ==
    /\ Suggesting /\ Replying
    /\ \A r \in Requests : Concerning(tx[r]) /\ Addressing(tx[r])
    /\ Delivered /\ Posted
    /\ DecisionAnnounced /\ NoticeReachesAudience

LEMMA AddressedIsMeant ==
  \A r \in Requests : Addressed(r) = Meant(notice[r], tx[r].began)
BY DEF Addressed, Meant

LEMMA DistinctReaches ==
  ASSUME NEW S
  PROVE  OnePerUser(Distinct(S)) /\ (\A u \in S : \E x \in Distinct(S) : x.user = u)
<1>1. \A x \in Distinct(S) : x = [user |-> x.user, via |-> NoValue]
  BY DEF Distinct
<1>2. OnePerUser(Distinct(S))
  BY <1>1 DEF OnePerUser
<1>3. ASSUME NEW u \in S PROVE \E x \in Distinct(S) : x.user = u
  <2>1. [user |-> u, via |-> NoValue] \in Distinct(S)
    BY DEF Distinct
  <2> QED
    BY <2>1
<1> QED
  BY <1>2, <1>3

\* The rows of one role are unique by user.
LEMMA EachRowReaches ==
  ASSUME NEW role, NEW S, S = Present({role})
  PROVE  /\ OnePerUser(EachRow(S))
         /\ \A m \in Memberships : member[m] # NoValue /\ m[2] = role =>
               \E x \in EachRow(S) : x.user = m[1]
<1>1. \A m \in Memberships : m = <<m[1], m[2]>>
  BY MembershipsAssumption
<1>2. \A m \in S : m = <<m[1], role>>
  BY <1>1 DEF Present
<1>3. \A x \in EachRow(S) : x.via \in S /\ x = [user |-> x.via[1], via |-> x.via]
  BY DEF EachRow
<1>4. ASSUME NEW x \in EachRow(S), NEW y \in EachRow(S), x.user = y.user PROVE x = y
  <2>1. x.via[1] = x.user /\ y.via[1] = y.user
    BY <1>3
  <2>2. x.via = <<x.user, role>> /\ y.via = <<y.user, role>>
    BY <1>2, <1>3, <2>1
  <2> QED
    BY <1>3, <1>4, <2>2
<1>5. ASSUME NEW m \in Memberships, member[m] # NoValue, m[2] = role
      PROVE  \E x \in EachRow(S) : x.user = m[1]
  <2>1. m \in S
    BY <1>5 DEF Present
  <2>2. [user |-> m[1], via |-> m] \in EachRow(S)
    BY <2>1 DEF EachRow
  <2> QED
    BY <2>2
<1> QED
  BY <1>4, <1>5 DEF OnePerUser

\* resolveAudience finds everybody once.
LEMMA ResolveReaches ==
  ASSUME NEW a, NEW b
  PROVE  /\ \A u \in Meant(a, b) : \E x \in Resolve(a) : x.user = u
         /\ OnePerUser(Resolve(a))
<1> DEFINE members == {n[1] : n \in Present(Roles)}
<1>1. \A m \in Memberships : m[2] \in Roles
  BY MembershipsAssumption
<1>2. ASSUME NEW m \in Memberships, member[m] # NoValue PROVE m[1] \in members
  BY <1>1, <1>2 DEF Present
<1>3. \A u \in Meant(a, b) : u \in members
  BY <1>2 DEF Meant
<1>4. ASSUME NEW role,
             \A u \in Meant(a, b) : \E m \in Memberships :
                m[1] = u /\ member[m] # NoValue /\ m[2] = role,
             Resolve(a) = EachRow(Present({role}))
      PROVE  /\ \A u \in Meant(a, b) : \E x \in Resolve(a) : x.user = u
             /\ OnePerUser(Resolve(a))
  <2> DEFINE S == Present({role})
  <2>1. /\ OnePerUser(EachRow(S))
        /\ \A m \in Memberships : member[m] # NoValue /\ m[2] = role =>
              \E x \in EachRow(S) : x.user = m[1]
    BY EachRowReaches
  <2> HIDE DEF S
  <2>2. Resolve(a) = EachRow(S)
    BY <1>4 DEF S
  <2> QED
    BY <1>4, <2>1, <2>2
<1>5. CASE a = "teachers"
  BY <1>4, <1>5 DEF Meant, Resolve
<1>6. CASE a = "parents"
  BY <1>4, <1>6 DEF Meant, Resolve
<1>7. CASE a = "students"
  BY <1>4, <1>7 DEF Meant, Resolve
<1>8. CASE a = "section"
  <2> DEFINE S == Section \cap members
  <2>1. Resolve(a) = Distinct(S)
    BY <1>8 DEF Resolve
  <2>2. \A u \in Meant(a, b) : u \in Section
    BY <1>8 DEF Meant
  <2>3. \A u \in Meant(a, b) : u \in S
    BY <1>3, <2>2
  <2> HIDE DEF S
  <2>4. OnePerUser(Distinct(S)) /\ (\A u \in S : \E x \in Distinct(S) : x.user = u)
    BY DistinctReaches
  <2> QED
    BY <2>1, <2>3, <2>4
<1>9. CASE a = "nobody"
  <2>1. Resolve(a) = {} /\ Meant(a, b) = {}
    BY <1>9 DEF Resolve, Meant
  <2> QED
    BY <2>1 DEF OnePerUser
<1>10. CASE a \notin {"teachers", "parents", "students", "section", "nobody"}
  <2>1. Resolve(a) = Distinct(members)
    BY <1>10 DEF Resolve
  <2> HIDE DEF members
  <2>4. OnePerUser(Distinct(members))
        /\ (\A u \in members : \E x \in Distinct(members) : x.user = u)
    BY DistinctReaches
  <2> QED
    BY <1>3, <2>1, <2>4
<1> QED
  BY <1>5, <1>6, <1>7, <1>8, <1>9, <1>10

\* usersForApplicant finds the applicant, a reply the author.
LEMMA ConcernedReaches ==
  ASSUME NEW c \in Cases
  PROVE  \E x \in Concerned(c) : x.user = AccountOf[c]
<1> DEFINE S == (IF c \in Leaves THEN {AccountOf[c], guardian[c]} ELSE {AccountOf[c]})
                   \ {NoValue}
<1>1. AccountOf[c] \in Users
  BY CasesAssumption
<1>2. AccountOf[c] # NoValue
  BY <1>1, NoValueAssumption
<1>3. AccountOf[c] \in S
  BY <1>2
<1>4. Concerned(c) = Distinct(S)
  BY DEF Concerned
<1> HIDE DEF S
<1>5. \A u \in S : \E x \in Distinct(S) : x.user = u
  BY DistinctReaches
<1> QED
  BY <1>3, <1>4, <1>5

-----------------------------------------------------------------------------

\* What a step may make of one handler without harm to who is told what.
Telling(r, h) ==
    /\ h.wrote =>
          \/ tx[r].wrote /\ tx[r].about = h.about /\ tx[r].kind = h.kind
          \/ /\ h.kind = "suggest" => /\ case[h.about].status = "absent"
                                      /\ \A q \in Requests : tx[q].wrote => tx[q].about # h.about
             /\ \A q \in Requests : tx[q].wrote /\ tx[q].kind = "suggest"
                                       => tx[q].about # h.about
    /\ h.kind = "reply" /\ h.step \in Decisive => case[h.about].status # "absent"
    /\ Concerning(h) /\ Addressing(h)

LEMMA OneTells ==
  ASSUME IInv, DInv, NEW r \in Requests, NEW h, Telling(r, h), tx[r].step # "done",
         tx' = [tx EXCEPT ![r] = h], UNCHANGED tables
  PROVE  DInv'
<1> USE DEF DInv
<1>1. tx'[r] = h /\ (\A q \in Requests \ {r} : tx'[q] = tx[q])
  BY DEF IInv, TypeOK
<1>2. case' = case /\ notice' = notice /\ inbox' = inbox /\ member' = member
  BY DEF tables
<1>3. Suggesting'
  <2> SUFFICES ASSUME NEW q \in Requests, tx'[q].kind = "suggest", tx'[q].wrote
               PROVE  /\ case[tx'[q].about].status = "absent"
                      /\ \A p \in Requests \ {q} : tx'[p].wrote => tx'[p].about # tx'[q].about
    BY <1>2 DEF Suggesting
  <2>1. CASE q = r
    BY <1>1, <2>1 DEF Suggesting, Telling
  <2>2. CASE q # r
    BY <1>1, <2>2 DEF Suggesting, Telling
  <2> QED
    BY <2>1, <2>2
<1>4. Replying'
  BY <1>1, <1>2 DEF Replying, Telling
<1>5. ASSUME NEW q \in Requests PROVE (Concerning(tx[q]) /\ Addressing(tx[q]))'
  <2>1. Concerning(tx'[q]) /\ Addressing(tx'[q])
    BY <1>1 DEF Telling
  <2>2. \A a, b : Meant(a, b)' = Meant(a, b)
    BY <1>2 DEF Meant
  <2> QED
    BY <2>1, <2>2 DEF Concerning, Addressing
<1>6. \A n \in inbox : n.from \in Requests
  BY DEF IInv, TypeOK, Notification
<1>7. Delivered' /\ Posted'
  BY <1>1, <1>2, <1>6 DEF Delivered, Posted
<1>8. DecisionAnnounced'
  BY <1>2 DEF DecisionAnnounced
<1>9. NoticeReachesAudience'
  <2> SUFFICES ASSUME NEW q \in Requests, notice[q] # NoValue
               PROVE  /\ \A u \in Addressed(q)' : \E n \in inbox : n.from = q /\ n.to.user = u
                      /\ \A n, o \in inbox : n.from = q /\ o.from = q /\ n.to.user = o.to.user
                                                => n = o
    BY <1>2 DEF NoticeReachesAudience
  <2>1. tx'[q] = tx[q]
    BY <1>1 DEF Posted
  <2>2. Addressed(q)' = Addressed(q)
    BY <1>2, <2>1 DEF Addressed
  <2> QED
    BY <2>2 DEF NoticeReachesAudience
<1> QED
  BY <1>3, <1>4, <1>5, <1>7, <1>8, <1>9

LEMMA SilentHandler ==
  ASSUME NEW r, NEW h, h.wrote = FALSE, h.step \notin Decisive
  PROVE  Telling(r, h)
BY DEF Telling, Concerning, Addressing, Decisive

LEMMA BeginTells ==
  ASSUME IInv, DInv, NEW r \in Requests, NEW h \in Handler, h.wrote = FALSE,
         h.step \in {"check", "read", "file", "resolve"}, Begin(r, h),
         h.step = "resolve" => h.kind \in Posts
  PROVE  DInv'
<1> DEFINE g == [h EXCEPT !.began = clock + 1]
<1>1. g.wrote = FALSE /\ g.step = h.step /\ g.kind = h.kind
  BY DEF Handler
<1>2. tx' = [tx EXCEPT ![r] = g] /\ UNCHANGED tables /\ tx[r].step = "idle"
  BY DEF Begin
<1> HIDE DEF g
<1>3. Telling(r, g)
  BY <1>1 DEF Telling, Concerning, Addressing, Decisive, Posts
<1> QED
  BY <1>2, <1>3, OneTells

LEMMA ArriveTells ==
  ASSUME IInv, DInv, NEW r \in Requests, Arrive(r)
  PROVE  DInv'
<1>1. ASSUME NEW l \in Leaves, NEW u \in Users, ApplyLeave(r, l, u)
      PROVE  DInv'
  <2> DEFINE h == [Idle EXCEPT !.step = "check", !.kind = "apply", !.about = l, !.user = u,
                               !.says = "pending"]
  <2>1. h \in Handler /\ h.wrote = FALSE /\ h.step = "check"
    BY IdleHandler DEF Handler, Open, Cases
  <2>2. Begin(r, h)
    BY <1>1 DEF ApplyLeave
  <2> HIDE DEF h
  <2> QED
    BY <2>1, <2>2, BeginTells
<1>2. ASSUME NEW l \in Leaves, NEW v \in Verdicts, ActLeave(r, l, v)
      PROVE  DInv'
  <2> DEFINE h == [Idle EXCEPT !.step = "read", !.kind = "decide", !.about = l, !.says = v]
  <2>1. h \in Handler /\ h.wrote = FALSE /\ h.step = "read"
    BY IdleHandler DEF Handler, Open, Cases
  <2>2. Begin(r, h)
    BY <1>2 DEF ActLeave
  <2> HIDE DEF h
  <2> QED
    BY <2>1, <2>2, BeginTells
<1>3. ASSUME NEW s \in Suggestions, SubmitSuggestion(r, s)
      PROVE  DInv'
  <2> DEFINE h == [Idle EXCEPT !.step = "file", !.kind = "suggest", !.about = s,
                               !.says = "open"]
  <2>1. h \in Handler /\ h.wrote = FALSE /\ h.step = "file"
    BY IdleHandler DEF Handler, Open, Cases
  <2>2. Begin(r, h)
    BY <1>3 DEF SubmitSuggestion
  <2> HIDE DEF h
  <2> QED
    BY <2>1, <2>2, BeginTells
<1>4. ASSUME NEW s \in Suggestions, ReplySuggestion(r, s)
      PROVE  DInv'
  <2> DEFINE h == [Idle EXCEPT !.step = "read", !.kind = "reply", !.about = s,
                               !.says = "closed"]
  <2>1. h \in Handler /\ h.wrote = FALSE /\ h.step = "read"
    BY IdleHandler DEF Handler, Open, Cases
  <2>2. Begin(r, h)
    BY <1>4 DEF ReplySuggestion
  <2> HIDE DEF h
  <2> QED
    BY <2>1, <2>2, BeginTells
<1>5. ASSUME NEW a \in Audiences \cup {"all", "nobody"}, SendNotice(r, a)
      PROVE  DInv'
  <2> DEFINE h == [Idle EXCEPT !.step = "file", !.kind = "post", !.about = r,
                               !.says = "news", !.audience = a]
  <2>1. h \in Handler /\ h.wrote = FALSE /\ h.step = "file"
    BY IdleHandler DEF Handler, Open, Posts
  <2>2. Begin(r, h)
    BY <1>5 DEF SendNotice
  <2> HIDE DEF h
  <2> QED
    BY <2>1, <2>2, BeginTells
<1>6. ASSUME NEW a \in Audiences \cup {"all"}, Broadcast(r, a)
      PROVE  DInv'
  <2> DEFINE h == [Idle EXCEPT !.step = "resolve", !.kind = "broadcast", !.about = r,
                               !.says = "news", !.audience = a]
  <2>1. h \in Handler /\ h.wrote = FALSE /\ h.step = "resolve" /\ h.kind \in Posts
    BY IdleHandler DEF Handler, Open, Posts
  <2>2. Begin(r, h)
    BY <1>6 DEF Broadcast
  <2> HIDE DEF h
  <2> QED
    BY <2>1, <2>2, BeginTells
<1>7. ASSUME NEW a \in Audiences, CreateCircular(r, a)
      PROVE  DInv'
  BY <1>5, <1>7 DEF CreateCircular
<1>8. ASSUME NEW a \in Audiences, SendMessage(r, a)
      PROVE  DInv'
  BY <1>5, <1>8 DEF SendMessage
<1>9. \A m \in Memberships : m[1] \in Users
  BY MembershipsAssumption
<1> QED
  BY <1>1, <1>2, <1>3, <1>4, <1>5, <1>6, <1>7, <1>8, <1>9 DEF Arrive, Present

LEMMA RollbackTells ==
  ASSUME IInv, DInv, NEW r \in Requests, tx[r].step \in Open, Rollback(r)
  PROVE  DInv'
<1> DEFINE h == [Idle EXCEPT !.step = "failed"]
<1>1. h.step = "failed" /\ h.wrote = FALSE
  BY FailedHandler
<1>2. tx' = [tx EXCEPT ![r] = h] /\ UNCHANGED tables
  BY DEF Rollback
<1> HIDE DEF h
<1>3. Telling(r, h)
  BY <1>1, SilentHandler DEF Decisive
<1> QED
  BY <1>2, <1>3, OneTells DEF Open

\* Until it resolves whom to tell, and unless it files or finds a suggestion, a
\* statement concerns nobody.
LEMMA CheckApplicantTells ==
  ASSUME IInv, DInv, NEW r \in Requests, CheckApplicant(r)
  PROVE  DInv'
<1>1. CASE Rollback(r)
  BY <1>1, RollbackTells DEF CheckApplicant, AtStep, Open
<1>2. CASE tx' = Goto(r, "file") /\ UNCHANGED <<tables, clock>>
  <2> DEFINE h == [tx[r] EXCEPT !.step = "file"]
  <2>1. tx[r].step = "check" /\ tx[r] \in Handler
    BY HandlerFields DEF CheckApplicant, AtStep
  <2>2. h.step = "file" /\ h.wrote = tx[r].wrote /\ h.about = tx[r].about /\ h.kind = tx[r].kind
    BY <2>1 DEF Handler
  <2>3. tx' = [tx EXCEPT ![r] = h]
    BY <1>2 DEF Goto, IInv, TypeOK
  <2> HIDE DEF h
  <2>4. Telling(r, h)
    BY <2>1, <2>2 DEF Telling, Concerning, Addressing, Decisive
  <2> QED
    BY <1>2, <2>1, <2>3, <2>4, OneTells
<1> QED
  BY <1>1, <1>2 DEF CheckApplicant

LEMMA FileRowTells ==
  ASSUME IInv, DInv, NEW r \in Requests, FileRow(r)
  PROVE  DInv'
<1> DEFINE h == [tx[r] EXCEPT !.wrote = TRUE,
                              !.step = IF tx[r].kind = "post" THEN "resolve" ELSE "commit"]
<1>1. tx[r].step = "file" /\ tx[r] \in Handler /\ LocalOK(tx[r]) /\ UNCHANGED tables
  BY HandlerFields DEF FileRow, AtStep
<1>2. h.about = tx[r].about /\ h.kind = tx[r].kind /\ h.targets = tx[r].targets
  BY <1>1 DEF Handler
<1>3. h.step = IF tx[r].kind = "post" THEN "resolve" ELSE "commit"
  BY <1>1 DEF Handler
<1>4. tx' = [tx EXCEPT ![r] = h]
  BY DEF FileRow, IInv, TypeOK
<1> HIDE DEF h
<1>5. tx[r].kind \in {"apply", "suggest", "post"}
  BY <1>1 DEF LocalOK, StepsOf, Open, Posts
<1>6. h.about \in Cases =>
        /\ case[h.about].status = "absent"
        /\ \A q \in Requests : tx[q].wrote => tx[q].about # h.about
  BY <1>2 DEF FileRow
<1>7. h.about \notin Cases => \A q \in Requests : tx[q].wrote /\ tx[q].kind = "suggest"
                                                     => tx[q].about # h.about
  BY <1>2 DEF IInv, Locals, LocalOK, Cases
<1>8. h.kind = "suggest" => h.about \in Cases
  BY <1>1, <1>2 DEF LocalOK, Open, Cases
<1>9. Concerning(h) /\ Addressing(h)
  BY <1>2, <1>3, <1>5 DEF Concerning, Addressing, Posts
<1>10. Telling(r, h)
  BY <1>2, <1>5, <1>6, <1>7, <1>8, <1>9 DEF Telling
<1> QED
  BY <1>1, <1>4, <1>10, OneTells

LEMMA ReadCaseTells ==
  ASSUME IInv, DInv, NEW r \in Requests, ReadCase(r)
  PROVE  DInv'
<1>1. CASE ~ Answerable(r)
  BY <1>1, RollbackTells DEF ReadCase, AtStep, Open
<1>2. CASE Answerable(r)
  <2> DEFINE h == [tx[r] EXCEPT !.step = "update"]
  <2>1. tx[r].step = "read" /\ tx[r] \in Handler /\ UNCHANGED tables
    BY <1>2, HandlerFields DEF ReadCase, AtStep
  <2>2. h.step = "update" /\ h.wrote = tx[r].wrote /\ h.about = tx[r].about /\ h.kind = tx[r].kind
    BY <2>1 DEF Handler
  <2>3. tx' = [tx EXCEPT ![r] = h]
    BY <1>2 DEF ReadCase, Goto, IInv, TypeOK
  <2> HIDE DEF h
  <2>4. Telling(r, h)
    BY <1>2, <2>1, <2>2 DEF Telling, Concerning, Addressing, Answerable
  <2> QED
    BY <2>1, <2>3, <2>4, OneTells
<1> QED
  BY <1>1, <1>2

LEMMA UpdateCaseTells ==
  ASSUME IInv, DInv, NEW r \in Requests, UpdateCase(r)
  PROVE  DInv'
<1> DEFINE h == [tx[r] EXCEPT !.wrote = TRUE, !.step = "resolve"]
<1>1. tx[r].step = "update" /\ tx[r] \in Handler /\ LocalOK(tx[r]) /\ UNCHANGED tables
  BY HandlerFields DEF UpdateCase, AtStep
<1>2. h.step = "resolve" /\ h.about = tx[r].about /\ h.kind = tx[r].kind
  BY <1>1 DEF Handler
<1>3. tx' = [tx EXCEPT ![r] = h]
  BY DEF UpdateCase, IInv, TypeOK
<1> HIDE DEF h
<1>4. tx[r].kind \in {"decide", "reply"}
  BY <1>1 DEF LocalOK, StepsOf, Open, Posts
<1>5. h.kind = "reply" => case[h.about].status # "absent"
  BY <1>1, <1>2 DEF DInv, Replying, Decisive
<1>6. \A q \in Requests : tx[q].wrote /\ tx[q].kind = "suggest" => tx[q].about # h.about
  <2>1. CASE tx[r].kind = "reply"
    BY <1>2, <1>5, <2>1 DEF DInv, Suggesting
  <2>2. CASE tx[r].kind = "decide"
    BY <1>1, <1>2, <2>2, CasesAssumption DEF IInv, Locals, LocalOK, Open
  <2> QED
    BY <1>4, <2>1, <2>2
<1>7. Telling(r, h)
  BY <1>2, <1>4, <1>5, <1>6 DEF Telling, Concerning, Addressing
<1> QED
  BY <1>1, <1>3, <1>7, OneTells

LEMMA ResolveTargetsTells ==
  ASSUME IInv, DInv, NEW r \in Requests, ResolveTargets(r)
  PROVE  DInv'
<1> DEFINE h == [tx[r] EXCEPT !.targets = TargetsOf(r),
                              !.step = IF TargetsOf(r) = {} THEN "commit" ELSE "notify"]
<1>1. tx[r].step = "resolve" /\ tx[r] \in Handler /\ LocalOK(tx[r]) /\ UNCHANGED tables
  BY HandlerFields DEF ResolveTargets, AtStep
<1>2. h.about = tx[r].about /\ h.kind = tx[r].kind /\ h.targets = TargetsOf(r)
  BY <1>1 DEF Handler
<1>3. h.step = IF TargetsOf(r) = {} THEN "commit" ELSE "notify"
  BY <1>1 DEF Handler
<1>4. h.audience = tx[r].audience /\ h.began = tx[r].began /\ h.wrote = tx[r].wrote
  BY <1>1 DEF Handler
<1>5. tx' = [tx EXCEPT ![r] = h]
  BY DEF ResolveTargets, IInv, TypeOK
<1> HIDE DEF h
<1>6. tx[r].kind \in {"decide", "reply"} => tx[r].about \in Cases
  BY <1>1 DEF LocalOK, Open, Cases
<1>7. Concerning(h)
  <2> SUFFICES ASSUME h.kind \in {"decide", "reply"}
               PROVE  /\ \E x \in h.targets : x.user = AccountOf[h.about]
                      /\ h.step # "commit"
    BY DEF Concerning
  <2>1. TargetsOf(r) = Concerned(tx[r].about)
    BY <1>2 DEF TargetsOf, Posts
  <2>2. \E x \in Concerned(tx[r].about) : x.user = AccountOf[tx[r].about]
    BY <1>2, <1>6, ConcernedReaches
  <2> QED
    BY <1>2, <1>3, <2>1, <2>2
<1>8. Addressing(h)
  <2> SUFFICES ASSUME h.kind \in Posts
               PROVE  /\ \A u \in Meant(h.audience, h.began) : \E x \in h.targets : x.user = u
                      /\ OnePerUser(h.targets)
                      /\ h.step = "commit" => h.targets = {}
    BY DEF Addressing
  <2>1. h.targets = Resolve(h.audience)
    BY <1>2, <1>4 DEF TargetsOf
  <2> QED
    BY <1>2, <1>3, <2>1, ResolveReaches
<1>9. Telling(r, h)
  BY <1>1, <1>2, <1>4, <1>7, <1>8 DEF Telling, DInv, Replying, Decisive
<1> QED
  BY <1>1, <1>5, <1>9, OneTells

LEMMA InsertNotificationsTells ==
  ASSUME IInv, DInv, NEW r \in Requests, InsertNotifications(r)
  PROVE  DInv'
<1>1. CASE Rollback(r)
  BY <1>1, RollbackTells DEF InsertNotifications, AtStep, Open
<1>2. CASE ~ (tx[r].kind # "broadcast" /\ Cardinality(tx[r].targets) > MaxRows)
  <2> DEFINE h == [tx[r] EXCEPT !.sent = TRUE, !.step = "commit"]
  <2>1. tx[r].step = "notify" /\ tx[r] \in Handler /\ UNCHANGED tables
    BY <1>2, HandlerFields DEF InsertNotifications, AtStep
  <2>2. h.step = "commit" /\ h.about = tx[r].about /\ h.kind = tx[r].kind
    BY <2>1 DEF Handler
  <2>3. h.audience = tx[r].audience /\ h.began = tx[r].began /\ h.targets = tx[r].targets
    BY <2>1 DEF Handler
  <2>4. h.wrote = tx[r].wrote /\ h.sent
    BY <2>1 DEF Handler
  <2>5. tx' = [tx EXCEPT ![r] = h]
    BY <1>2 DEF InsertNotifications, IInv, TypeOK
  <2> HIDE DEF h
  <2>6. Concerning(h) /\ Addressing(h)
    BY <2>1, <2>2, <2>3, <2>4 DEF Concerning, Addressing, DInv
  <2>7. Telling(r, h)
    BY <2>1, <2>2, <2>4, <2>6 DEF Telling, DInv, Replying, Decisive
  <2> QED
    BY <2>1, <2>5, <2>7, OneTells
<1> QED
  BY <1>1, <1>2 DEF InsertNotifications

\* The only answers that are stored are to leaves and suggestions nobody is filing.
LEMMA CommitAnnounces ==
  ASSUME IInv, DInv, NEW r \in Requests, Commit(r)
  PROVE  DecisionAnnounced'
<1> DEFINE c == tx[r].about
<1> DEFINE Answered == Verdicts \cup {"closed"}
<1>1. /\ tx[r].step = "commit" /\ LocalOK(tx[r]) /\ Concerning(tx[r])
      /\ case \in [Cases -> Row]
  BY CommitFacts, HandlerFields DEF DInv, IInv, TypeOK
<1>2. inbox \subseteq inbox' /\ (tx[r].sent => inbox' = inbox \cup Notifications(r))
      /\ (~ tx[r].sent => inbox' = inbox)
  BY DEF Commit
<1>3. tx[r].kind \notin Posts => /\ c \in Cases /\ case'[c] = [status |-> tx[r].says, by |-> r]
                                 /\ \A b \in Cases \ {c} : case'[b] = case[b]
  BY <1>1, CommitFacts
<1>4. tx[r].kind \in Posts => case' = case /\ c \notin Cases
  BY <1>1, CommitFacts, CasesAssumption DEF LocalOK, Open
<1>5. tx[r].kind \in {"decide", "reply"} => tx[r].says \in Answered
  BY <1>1 DEF LocalOK, Open, Posts
<1>6. tx[r].kind \in {"apply", "suggest"} => /\ tx[r].says \notin Answered /\ ~ tx[r].sent
                                             /\ case[c].status = "absent"
  <2>1. tx[r].kind \in {"apply", "suggest"} => tx[r].wrote
    BY <1>1, CommitFacts DEF LocalOK, Posts
  <2> QED
    BY <1>1, <2>1 DEF LocalOK, Open, Verdicts, IInv, Filing, DInv, Suggesting
<1>7. tx[r].kind \in {"apply", "decide", "suggest", "reply"} \cup Posts
  BY CommitFacts
<1>8. ASSUME NEW b \in Cases, case'[b].status \in Answered
      PROVE  \E n \in inbox' : /\ n.about = b /\ n.to.user = AccountOf[b]
                               /\ n.from = case'[b].by /\ n.says = case'[b].status
  <2>1. CASE tx[r].kind \in {"decide", "reply"} /\ b = c
    <3>1. PICK x \in tx[r].targets : x.user = AccountOf[c]
      BY <1>1, <2>1 DEF Concerning
    <3> DEFINE n == [to |-> x, about |-> c, from |-> r, says |-> tx[r].says]
    <3>2. n \in Notifications(r) /\ n.about = c /\ n.to = x /\ n.from = r /\ n.says = tx[r].says
      BY DEF Notifications
    <3>3. n \in inbox'
      BY <1>1, <1>2, <2>1, <3>2 DEF Concerning
    <3>4. case'[b].by = r /\ case'[b].status = tx[r].says
      BY <1>3, <2>1 DEF Posts
    <3> HIDE DEF n
    <3> QED
      BY <2>1, <3>1, <3>2, <3>3, <3>4
  <2>2. CASE ~ (tx[r].kind \in {"decide", "reply"} /\ b = c)
    <3>1. case'[b] = case[b]
      BY <1>3, <1>4, <1>6, <1>7, <1>8, <2>2 DEF Posts
    <3> QED
      BY <1>2, <1>8, <3>1 DEF DInv, DecisionAnnounced
  <2> QED
    BY <2>1, <2>2
<1>9. ASSUME NEW n \in inbox', n.about \in Cases
      PROVE  case'[n.about].status \in Answered
  <2>1. CASE n \in inbox
    <3>1. case[n.about].status \in Answered
      BY <1>9, <2>1 DEF DInv, DecisionAnnounced
    <3>2. n.about = c => tx[r].kind \in {"decide", "reply"}
      BY <1>4, <1>6, <1>7, <1>9, <3>1 DEF Verdicts
    <3> QED
      BY <1>3, <1>4, <1>5, <1>9, <3>1, <3>2
  <2>2. CASE n \notin inbox
    <3>1. n \in Notifications(r) /\ tx[r].sent
      BY <1>2, <1>9, <2>2
    <3>2. n.about = c
      BY <3>1 DEF Notifications
    <3>3. tx[r].kind \in {"decide", "reply"}
      BY <1>4, <1>6, <1>7, <1>9, <3>1, <3>2
    <3> QED
      BY <1>3, <1>5, <3>2, <3>3 DEF Posts
  <2> QED
    BY <2>1, <2>2
<1> QED
  BY <1>8, <1>9 DEF DecisionAnnounced

LEMMA CommitReaches ==
  ASSUME IInv, DInv, NEW r \in Requests, Commit(r)
  PROVE  Delivered' /\ Posted' /\ NoticeReachesAudience'
<1> DEFINE d == Ended(tx[r])
<1>1. /\ tx[r].step = "commit" /\ tx[r] \in Handler /\ Addressing(tx[r])
      /\ clock \in Nat /\ member' = member /\ tx \in [Requests -> Handler]
      /\ notice \in [Requests -> Audiences \cup {"all", "nobody", NoValue}]
  BY CommitFacts, HandlerFields DEF DInv, IInv, TypeOK
<1>2. tx[r].kind \in Posts => d.began = tx[r].began
  <2>1. tx[r].kind \in Posts =>
           d = [[Idle EXCEPT !.step = "done", !.kind = tx[r].kind] EXCEPT !.began = tx[r].began]
    BY DEF Ended, Posts
  <2> QED
    BY <2>1, IdleHandler DEF Handler
<1>3. d.step = "done"
  BY <1>1, EndedHandler
<1>4. tx'[r] = d /\ \A q \in Requests \ {r} : tx'[q] = tx[q]
  <2>1. tx' = [tx EXCEPT ![r] = d]
    BY CommitFacts
  <2> HIDE DEF d
  <2> QED
    BY <1>1, <2>1
<1> HIDE DEF d
<1>5. inbox' = inbox \/ (tx[r].sent /\ inbox' = inbox \cup Notifications(r))
  BY DEF Commit
<1>6. \A n \in Notifications(r) : n.from = r /\ n.to \in tx[r].targets
  BY DEF Notifications
<1>7. \A n \in inbox : n.from \in Requests /\ n.from # r
  BY <1>1 DEF DInv, Delivered, IInv, TypeOK, Notification
<1>8. /\ tx[r].kind \in Posts => notice' = [notice EXCEPT ![r] = tx[r].audience]
      /\ tx[r].kind \notin Posts => notice' = notice
  BY DEF Commit
<1>9. Delivered'
  BY <1>3, <1>4, <1>5, <1>6, <1>7 DEF DInv, Delivered
<1>10. Posted'
  BY <1>1, <1>3, <1>4, <1>8 DEF DInv, Posted
<1>11. ASSUME NEW q \in Requests, notice'[q] # NoValue
       PROVE  /\ \A u \in Addressed(q)' : \E n \in inbox' : n.from = q /\ n.to.user = u
              /\ \A n, o \in inbox' : n.from = q /\ o.from = q /\ n.to.user = o.to.user => n = o
  <2>1. CASE q # r
    <3>1. notice'[q] = notice[q] /\ tx'[q] = tx[q]
      BY <1>1, <1>4, <1>8, <2>1
    <3>2. Addressed(q)' = Addressed(q)
      BY <1>1, <3>1 DEF Addressed
    <3> QED
      BY <1>5, <1>6, <1>11, <2>1, <3>1, <3>2 DEF DInv, NoticeReachesAudience
  <2>2. CASE q = r
    <3>1. tx[r].kind \in Posts
      BY <1>1, <1>8, <1>11, <2>2 DEF DInv, Posted
    <3>2. notice'[r] = tx[r].audience /\ tx'[r].began = tx[r].began
      BY <1>1, <1>2, <1>4, <1>8, <3>1
    <3>3. Addressed(r)' = Meant(tx[r].audience, tx[r].began)
      BY <1>1, <3>2 DEF Addressed, Meant
    <3>4. /\ \A u \in Meant(tx[r].audience, tx[r].began) : \E x \in tx[r].targets : x.user = u
          /\ \A x, y \in tx[r].targets : x.user = y.user => x = y
          /\ tx[r].sent \/ tx[r].targets = {}
      BY <1>1, <3>1 DEF Addressing, OnePerUser
    <3>5. tx[r].sent => inbox' = inbox \cup Notifications(r)
      BY DEF Commit
    <3>6. ASSUME NEW u \in Addressed(r)' PROVE \E n \in inbox' : n.from = r /\ n.to.user = u
      <4>1. PICK x \in tx[r].targets : x.user = u
        BY <3>3, <3>4
      <4> DEFINE n == [to |-> x, about |-> tx[r].about, from |-> r, says |-> tx[r].says]
      <4>2. n \in Notifications(r) /\ n.from = r /\ n.to = x
        BY DEF Notifications
      <4> HIDE DEF n
      <4> QED
        BY <3>4, <3>5, <4>1, <4>2
    <3>7. ASSUME NEW n \in inbox', NEW o \in inbox', n.from = r, o.from = r,
                 n.to.user = o.to.user
          PROVE  n = o
      <4>1. n \in Notifications(r) /\ o \in Notifications(r)
        BY <1>5, <1>7, <3>7
      <4>2. n.to = o.to
        BY <1>6, <3>4, <3>7, <4>1
      <4> QED
        BY <4>1, <4>2 DEF Notifications
    <3> QED
      BY <2>2, <3>6, <3>7
  <2> QED
    BY <2>1, <2>2
<1> QED
  BY <1>9, <1>10, <1>11 DEF NoticeReachesAudience

LEMMA CommitTells ==
  ASSUME IInv, DInv, NEW r \in Requests, Commit(r)
  PROVE  DInv'
<1> DEFINE d == Ended(tx[r])
<1> USE DEF DInv
<1>1. /\ tx[r] \in Handler /\ clock \in Nat /\ tx \in [Requests -> Handler]
      /\ case \in [Cases -> Row]
  BY HandlerFields DEF IInv, TypeOK
<1>2. d.step = "done" /\ ~ d.wrote
  BY <1>1, EndedHandler
<1>3. tx'[r] = d /\ \A q \in Requests \ {r} : tx'[q] = tx[q]
  <2>1. tx' = [tx EXCEPT ![r] = d]
    BY CommitFacts
  <2> HIDE DEF d
  <2> QED
    BY <1>1, <2>1
<1> HIDE DEF d
<1>4. /\ member' = member
      /\ \A b \in Cases : case'[b] # case[b] => /\ b = tx[r].about /\ tx[r].wrote
                                                /\ case'[b].status # "absent"
  <2>1. CASE tx[r].kind \in Posts
    BY <2>1, CommitFacts
  <2>2. CASE tx[r].kind \notin Posts
    <3>1. /\ member' = member /\ tx[r].about \in Cases /\ tx[r].wrote
          /\ tx[r].says # "absent"
          /\ case' = [case EXCEPT ![tx[r].about] = [status |-> tx[r].says, by |-> r]]
      BY <2>2, CommitFacts DEF Verdicts
    <3> QED
      BY <1>1, <3>1
  <2> QED
    BY <2>1, <2>2
<1>5. Suggesting'
  <2> SUFFICES ASSUME NEW q \in Requests, tx'[q].kind = "suggest", tx'[q].wrote
               PROVE  /\ case'[tx'[q].about].status = "absent"
                      /\ \A p \in Requests \ {q} : tx'[p].wrote => tx'[p].about # tx'[q].about
    BY DEF Suggesting
  <2>1. q # r /\ tx'[q] = tx[q]
    BY <1>2, <1>3
  <2>2. tx[q].about \in Cases
    BY <2>1 DEF IInv, Locals, LocalOK, Cases
  <2>3. case'[tx[q].about] = case[tx[q].about]
    BY <1>4, <2>1, <2>2 DEF Suggesting
  <2> QED
    BY <1>2, <1>3, <2>1, <2>3 DEF Suggesting
<1>6. Replying'
  <2> SUFFICES ASSUME NEW q \in Requests, tx'[q].kind = "reply", tx'[q].step \in Decisive
               PROVE  case'[tx'[q].about].status # "absent"
    BY DEF Replying
  <2>1. q # r /\ tx'[q] = tx[q]
    BY <1>2, <1>3 DEF Decisive
  <2>2. tx[q].about \in Cases
    BY <2>1 DEF IInv, Locals, LocalOK, Cases, Decisive, Open
  <2> QED
    BY <1>4, <2>1, <2>2 DEF Replying
<1>7. ASSUME NEW q \in Requests PROVE (Concerning(tx[q]) /\ Addressing(tx[q]))'
  <2>1. Concerning(tx'[q]) /\ Addressing(tx'[q])
    BY <1>2, <1>3 DEF Concerning, Addressing
  <2>2. \A a, b : Meant(a, b)' = Meant(a, b)
    BY <1>4 DEF Meant
  <2> QED
    BY <2>1, <2>2 DEF Concerning, Addressing
<1> QED
  BY <1>5, <1>6, <1>7, CommitAnnounces, CommitReaches

\* Who joins was not there before any request that has begun.
LEMMA BystandersTell ==
  ASSUME IInv, DInv, UNCHANGED <<case, notice, inbox, clock, tx>>,
         \A m \in Memberships : member'[m] = member[m] \/ member'[m] = clock
  PROVE  DInv'
<1> USE DEF DInv
<1>1. \A r \in Requests : tx[r].began \in Nat /\ tx[r].began <= clock
  BY HandlerFields DEF Handler, IInv, Clocked
<1>2. clock \in Nat
  BY DEF IInv, TypeOK
<1>3. ASSUME NEW r \in Requests, NEW a
      PROVE  Meant(a, tx[r].began)' \subseteq Meant(a, tx[r].began)
  <2>1. \A m \in Memberships : member'[m] < tx[r].began => member'[m] = member[m]
    BY <1>1, <1>2
  <2> QED
    BY <2>1 DEF Meant
<1>4. Suggesting' /\ Replying' /\ Delivered' /\ Posted' /\ DecisionAnnounced'
  BY DEF Suggesting, Replying, Delivered, Posted, DecisionAnnounced
<1>5. ASSUME NEW r \in Requests PROVE (Concerning(tx[r]) /\ Addressing(tx[r]))'
  <2>1. Meant(tx[r].audience, tx[r].began)' \subseteq Meant(tx[r].audience, tx[r].began)
    BY <1>3
  <2> QED
    BY <2>1 DEF Concerning, Addressing
<1>6. NoticeReachesAudience'
  <2> SUFFICES ASSUME NEW r \in Requests, notice[r] # NoValue
               PROVE  /\ \A u \in Addressed(r)' : \E n \in inbox : n.from = r /\ n.to.user = u
                      /\ \A n, o \in inbox : n.from = r /\ o.from = r /\ n.to.user = o.to.user
                                                => n = o
    BY DEF NoticeReachesAudience
  <2>1. Addressed(r)' \subseteq Addressed(r)
    BY <1>3 DEF Addressed, Meant
  <2> QED
    BY <2>1 DEF NoticeReachesAudience
<1> QED
  BY <1>4, <1>5, <1>6

LEMMA InitiallyDInv == Init => DInv
<1> SUFFICES ASSUME Init PROVE DInv
  OBVIOUS
<1>1. /\ \A r \in Requests : tx[r] = Idle /\ notice[r] = NoValue
      /\ inbox = {} /\ \A c \in Cases : case[c].status = "absent"
  BY DEF Init
<1>2. Idle.step = "idle" /\ ~ Idle.wrote /\ Idle.kind = "none"
  BY IdleHandler
<1>3. Suggesting /\ Replying /\ Delivered /\ Posted
  BY <1>1, <1>2 DEF Suggesting, Replying, Delivered, Posted
<1>4. \A r \in Requests : Concerning(tx[r]) /\ Addressing(tx[r])
  BY <1>1, <1>2 DEF Concerning, Addressing
<1>5. DecisionAnnounced /\ NoticeReachesAudience
  BY <1>1 DEF DecisionAnnounced, NoticeReachesAudience, Verdicts
<1> QED
  BY <1>3, <1>4, <1>5 DEF DInv

LEMMA StepKeepsDInv == IInv /\ DInv /\ [Next]_vars => DInv'
<1> SUFFICES ASSUME IInv, DInv, [Next]_vars PROVE DInv'
  OBVIOUS
<1>1. ASSUME NEW r \in Requests, Serve(r) PROVE DInv'
  BY <1>1, CheckApplicantTells, FileRowTells, ReadCaseTells, UpdateCaseTells,
     ResolveTargetsTells, InsertNotificationsTells, CommitTells DEF Serve
<1>2. ASSUME NEW r \in Requests, Fail(r) PROVE DInv'
  BY <1>2, RollbackTells DEF Fail
<1>3. ASSUME NEW m \in Memberships, Join(m) PROVE DInv'
  BY <1>3, BystandersTell DEF Join, IInv, TypeOK
<1>4. ASSUME NEW l \in Leaves, ChangeGuardian(l) PROVE DInv'
  BY <1>4, BystandersTell DEF ChangeGuardian
<1>5. CASE UNCHANGED vars
  BY <1>5, BystandersTell DEF vars, tables
<1> QED
  BY <1>1, <1>2, <1>3, <1>4, <1>5, ArriveTells DEF Next

LEMMA AlwaysDInv == Spec => []DInv
  BY InitiallyDInv, StepKeepsDInv, AlwaysIInv, PTL DEF Spec

\* What stands of a leave or suggestion, its applicant or author was told, and nobody
\* is told of a decision that was not made.
THEOREM DecisionsAreAnnounced == Spec => []DecisionAnnounced
<1>1. DInv => DecisionAnnounced
  BY DEF DInv
<1> QED
  BY <1>1, AlwaysDInv, PTL

\* A notice on record is in the inbox of everybody it addresses, exactly once.
THEOREM NoticesReachAll == Spec => []NoticeReachesAudience
<1>1. DInv => NoticeReachesAudience
  BY DEF DInv
<1> QED
  BY <1>1, AlwaysDInv, PTL

=============================================================================
