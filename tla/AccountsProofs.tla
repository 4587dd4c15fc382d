----------------------------- MODULE AccountsProofs -----------------------------
(* All properties of Accounts, for any number of requests, people and schools.   *)
(* A code is stored once, by the send that made it; once a verification has      *)
(* deleted it, it never comes back (Burned), so whoever still presents it has     *)
(* read it before (Admitted).  A change of a password knows the one it has        *)
(* verified or one that was set since (Knows), and a handler on its way to a     *)
(* token has found its school active since it began (Checked).                  *)
EXTENDS Accounts, TLAPS

\* What a handler's locals hold at each step.
LocalOK(t) ==
    /\ t.step \in Open => t.person \in People
    /\ t.step \in Open => t.token = NoValue
    /\ t.step \in {"idle"} => t.kind = "none"
    /\ t.step = "school" => t.kind \in {"send", "verify", "login"}
    /\ t.step \in {"user", "insert", "count", "expire", "store"} => t.kind = "send"
    /\ t.step \in {"get", "del"} => t.kind = "verify"
    /\ t.step = "read" => t.kind = "login"
    /\ t.step = "roles" => t.kind \in {"verify", "login"}
    /\ t.step = "prove" => t.kind = "change" /\ t.secret \in Secrets
    /\ t.step = "update" => t.kind \in {"change", "reset"}
    /\ t.step \in {"vacant", "principal"} => t.kind = "found"
    /\ t.step = "commit" => t.kind \in {"change", "reset", "found"} /\ t.wrote
    /\ t.step \in {"school", "get", "del", "read", "roles"} => t.school \in Schools
    /\ t.kind \in {"reset", "found"} => t.person \in People
    /\ t.kind = "found" => t.school \in Schools
    /\ t.kind = "send" => t.person \in People

Past(t) == t.kind = "verify" /\ t.step \in {"del", "roles", "done"}

\* A verification presents a code that was sent to its phone.
Presents(t) ==
    t.kind = "verify" => /\ t.secret \in Requests /\ tx[t.secret].step = "done"
                         /\ tx[t.secret].kind = "send" /\ tx[t.secret].person = t.person

\* A code that is stored is its send's last word.
Stored ==
    \A p \in People : otp[p] # NoValue =>
       /\ otp[p] \in Requests /\ tx[otp[p]].step = "done"
       /\ tx[otp[p]].kind = "send" /\ tx[otp[p]].person = p

Burned(t) ==
    t.kind = "verify" /\ t.step \in {"roles", "done"} => \A p \in People : otp[p] # t.secret

Admitted(t, u) ==
    Past(t) /\ Past(u) /\ u.step = "done" /\ t.secret = u.secret => u.ended > t.began

Earned(t) ==
    t.step = "done" /\ t.token # NoValue =>
       /\ <<t.token.person, t.token.school, t.token.role>> \in role
       /\ t.kind \in {"login", "verify"} /\ school[t.token.school] = "suspended"
            => t.began < since[t.token.school]

Checked(t) ==
    /\ t.kind \in {"login", "verify"} /\ t.step \in {"get", "del", "read", "roles"}
    /\ school[t.school] = "suspended"
    => t.began < since[t.school]

\* The password of the account is the one that was proved, or was set since.
Knows(t) ==
    t.kind = "change" /\ t.step \in {"update", "commit"} =>
       /\ password[t.person] \in Secrets
       /\ \/ password[t.person] = t.secret
          \/ password[t.person] \in Requests /\ tx[password[t.person]].ended > t.began

Slip(r, t) ==
    t.step = "done" /\ t.kind \in {"reset", "found"} =>
       /\ \/ password[t.person] = r
          \/ password[t.person] \in Requests /\ tx[password[t.person]].ended > t.ended
       /\ t.kind = "found" => /\ school[t.school] # "none"
                              /\ <<t.person, t.school, "admin">> \in role

SetByDone ==
    \A p \in People : password[p] \in Requests => tx[password[p]].step = "done"

IInv ==
    /\ TypeOK
    /\ \A r \in Requests :
          /\ LocalOK(tx[r]) /\ Presents(tx[r]) /\ Burned(tx[r]) /\ Earned(tx[r])
          /\ Checked(tx[r]) /\ Knows(tx[r]) /\ Slip(r, tx[r])
          /\ tx[r].began <= clock /\ tx[r].ended <= clock
    /\ \A q, r \in Requests : q # r => Admitted(tx[q], tx[r])
    /\ Stored /\ SetByDone /\ OnlyCrashLocksOut

-----------------------------------------------------------------------------
(* Handlers *)

LEMMA IdleHandler ==
  /\ Idle \in Handler /\ Idle.step = "idle" /\ Idle.kind = "none" /\ Idle.person = NoValue
  /\ Idle.school = NoValue /\ Idle.secret = NoValue /\ Idle.token = NoValue
  /\ Idle.wrote = FALSE /\ Idle.began = 0 /\ Idle.ended = 0
<1>1. Idle \in Handler
  BY DEF Idle, Handler
<1>2. /\ Idle.step = "idle" /\ Idle.kind = "none" /\ Idle.person = NoValue
      /\ Idle.school = NoValue /\ Idle.secret = NoValue /\ Idle.token = NoValue
  BY DEF Idle
<1>3. Idle.wrote = FALSE /\ Idle.began = 0 /\ Idle.ended = 0
  BY DEF Idle
<1> QED
  BY <1>1, <1>2, <1>3

LEMMA Fields ==
  ASSUME NEW t \in Handler
  PROVE  /\ t.step \in Open \cup {"idle", "done"} /\ t.kind \in Kinds \cup {"none"}
         /\ t.person \in People \cup {NoValue} /\ t.school \in Schools \cup {NoValue}
         /\ t.secret \in Secrets \cup {NoValue} /\ t.token \in Token \cup {NoValue}
         /\ t.began \in Nat /\ t.ended \in Nat
  BY DEF Handler

LEMMA GotoHandler ==
  ASSUME NEW t \in Handler, NEW step \in Open, NEW h, h = [t EXCEPT !.step = step]
  PROVE  /\ h \in Handler /\ h.step = step /\ h.kind = t.kind /\ h.person = t.person
         /\ h.school = t.school /\ h.secret = t.secret /\ h.token = t.token
         /\ h.wrote = t.wrote /\ h.began = t.began /\ h.ended = t.ended
<1>1. h \in Handler
  BY DEF Handler
<1>2. h.step = step /\ h.kind = t.kind /\ h.person = t.person
  BY DEF Handler
<1>3. h.school = t.school /\ h.secret = t.secret /\ h.token = t.token
  BY DEF Handler
<1>4. h.wrote = t.wrote /\ h.began = t.began /\ h.ended = t.ended
  BY DEF Handler
<1> QED
  BY <1>1, <1>2, <1>3, <1>4

LEMMA Facts ==
  ASSUME IInv, NEW r \in Requests
  PROVE  /\ tx \in [Requests -> Handler] /\ tx[r] \in Handler /\ clock \in Nat
         /\ LocalOK(tx[r]) /\ Presents(tx[r]) /\ Burned(tx[r]) /\ Earned(tx[r])
         /\ Checked(tx[r]) /\ Knows(tx[r]) /\ Slip(r, tx[r])
         /\ tx[r].began <= clock /\ tx[r].ended <= clock
         /\ tx[r].began \in Nat /\ tx[r].ended \in Nat
<1>1. tx \in [Requests -> Handler] /\ tx[r] \in Handler /\ clock \in Nat
  BY DEF IInv, TypeOK
<1>2. tx[r].began \in Nat /\ tx[r].ended \in Nat
  BY <1>1, Fields
<1> QED
  BY <1>1, <1>2 DEF IInv

-----------------------------------------------------------------------------
(* One handler changes *)

\* What may change beside a handler: Redis forgets, or takes the code of a send that
\* ends with it; and a user without a password may be created.
Mild(r, h) ==
    /\ UNCHANGED <<role, school, since>>
    /\ password' \in [People -> Secrets \cup {NoValue, "absent"}]
    /\ \A p \in People : \/ password'[p] = password[p]
                         \/ password[p] = "absent" /\ password'[p] = NoValue
    /\ \A p \in People :
          \/ otp'[p] \in {otp[p], NoValue}
          \/ otp'[p] = r /\ h.step = "done" /\ h.kind = "send" /\ h.person = p
    /\ otp' \in [People -> Requests \cup {NoValue}] /\ count' \in [People -> Nat]
    /\ expires' \in [People -> BOOLEAN] /\ dropped' \subseteq People
    /\ clock' \in Nat /\ clock <= clock'
    /\ OnlyCrashLocksOut'

\* What a handler may become.
Harmless(r, h) ==
    /\ tx[r].step # "done" /\ LocalOK(h)
    /\ Presents(h) /\ Earned(h) /\ Checked(h) /\ Knows(h)
    /\ h.kind = "verify" /\ h.step \in {"roles", "done"} =>
          \A p \in People : otp'[p] # h.secret
    /\ \A q \in Requests \ {r} : Admitted(h, tx[q]) /\ Admitted(tx[q], h)
    /\ h.step = "done" => h.kind \notin {"reset", "found"}
    /\ h.began <= clock' /\ h.ended <= clock'

LEMMA OneHandler ==
  ASSUME IInv, NEW r \in Requests, NEW h \in Handler, tx' = [tx EXCEPT ![r] = h],
         Mild(r, h), Harmless(r, h)
  PROVE  IInv'
<1> USE DEF IInv
<1>1. /\ tx'[r] = h /\ \A q \in Requests \ {r} : tx'[q] = tx[q]
      /\ tx' \in [Requests -> Handler] /\ tx[r].step # "done"
  BY Facts DEF Harmless
<1>2. /\ role' = role /\ school' = school /\ since' = since
      /\ \A p \in People : password[p] \in Secrets => password'[p] = password[p]
      /\ \A p \in People : password'[p] \in Secrets => password'[p] = password[p]
  BY ValuesAssumption DEF Mild, Secrets
<1>3. TypeOK'
  <2>1. /\ otp' \in [People -> Requests \cup {NoValue}] /\ count' \in [People -> Nat]
        /\ expires' \in [People -> BOOLEAN] /\ dropped' \subseteq People /\ clock' \in Nat
        /\ password' \in [People -> Secrets \cup {NoValue, "absent"}]
    BY DEF Mild
  <2> QED
    BY <1>1, <1>2, <2>1 DEF TypeOK
<1>4. \A q \in Requests : LocalOK(tx'[q])
  BY <1>1 DEF Harmless
<1>5. \A q \in Requests : LocalOK(tx[q])'
  BY <1>4 DEF LocalOK
<1>6. \A q \in Requests : Presents(tx[q])'
  BY <1>1 DEF Presents, Harmless
<1>7. \A q \in Requests : Burned(tx[q])'
  <2> SUFFICES ASSUME NEW q \in Requests, tx'[q].kind = "verify",
                      tx'[q].step \in {"roles", "done"}, NEW p \in People
               PROVE  otp'[p] # tx'[q].secret
    BY DEF Burned
  <2>1. CASE q = r
    BY <1>1, <2>1 DEF Harmless
  <2>2. CASE q # r
    <3>1. /\ otp[p] # tx[q].secret /\ tx[q].secret \in Requests \ {r, NoValue}
          /\ tx'[q] = tx[q]
      BY <1>1, <2>2, ValuesAssumption DEF Burned, Presents
    <3>2. otp'[p] \in {otp[p], NoValue, r}
      BY DEF Mild
    <3> QED
      BY <3>1, <3>2
  <2> QED
    BY <2>1, <2>2
<1>8. \A q \in Requests : Earned(tx[q])' /\ Checked(tx[q])'
  BY <1>1, <1>2 DEF Earned, Checked, Harmless
<1>9. \A p \in People : password[p] \in Requests => tx'[password[p]] = tx[password[p]]
  BY <1>1 DEF SetByDone
<1>10. ASSUME NEW q \in Requests PROVE Knows(tx[q])'
  <2>1. tx'[q].step \in {"update", "commit"} => tx'[q].person \in People
    BY <1>4 DEF LocalOK, Open
  <2>2. Knows(tx'[q])
    BY <1>1 DEF Harmless
  <2> QED
    BY <1>2, <1>9, <2>1, <2>2 DEF Knows
<1>11. ASSUME NEW q \in Requests PROVE Slip(q, tx[q])'
  <2>1. tx'[q].kind \in {"reset", "found"} => tx'[q].person \in People
    BY <1>4 DEF LocalOK
  <2>2. Slip(q, tx'[q])
    BY <1>1 DEF Harmless, Slip
  <2> QED
    BY <1>2, <1>9, <2>1, <2>2 DEF Slip, Secrets
<1>12. ASSUME NEW q \in Requests PROVE tx'[q].began <= clock' /\ tx'[q].ended <= clock'
  BY <1>1, Facts DEF Harmless, Mild
<1>13. \A p, q \in Requests : p # q => Admitted(tx[p], tx[q])'
  <2>1. \A p, q \in Requests : p # q => Admitted(tx'[p], tx'[q])
    BY <1>1 DEF Harmless
  <2> QED
    BY <2>1 DEF Admitted, Past
<1>14. Stored' /\ SetByDone'
  <2>1. SetByDone'
    BY <1>1, <1>2 DEF SetByDone, Secrets
  <2>2. \A p \in People : \/ otp'[p] \in {otp[p], NoValue}
                          \/ /\ otp'[p] = r /\ tx'[r].step = "done"
                             /\ tx'[r].kind = "send" /\ tx'[r].person = p
    BY <1>1 DEF Mild
  <2>3. Stored'
    BY <1>1, <2>2 DEF Stored
  <2> QED
    BY <2>1, <2>3
<1>15. OnlyCrashLocksOut'
  BY DEF Mild
<1> QED
  BY <1>3, <1>5, <1>6, <1>7, <1>8, <1>10, <1>11, <1>12, <1>13, <1>14, <1>15

\* Nothing but one handler changes.
LEMMA Quietly ==
  ASSUME IInv, NEW r \in Requests, NEW h \in Handler, tx' = [tx EXCEPT ![r] = h],
         UNCHANGED <<tables, redis>>, clock' \in Nat, clock <= clock',
         tx[r].step # "expire", Harmless(r, h)
  PROVE  IInv'
<1>1. \A q \in Requests \ {r} : tx'[q] = tx[q]
  BY Facts
<1>2. OnlyCrashLocksOut'
  BY <1>1 DEF IInv, OnlyCrashLocksOut, redis
<1>3. Mild(r, h)
  BY <1>2 DEF Mild, redis, tables, IInv, TypeOK
<1> QED
  BY <1>3, OneHandler

LEMMA IdleHarmless ==
  ASSUME IInv, NEW r \in Requests, tx[r].step \in Open, clock' \in Nat
  PROVE  Harmless(r, Idle)
<1>1. LocalOK(Idle)
  BY IdleHandler DEF LocalOK, Open
<1>2. Presents(Idle) /\ Earned(Idle) /\ Checked(Idle) /\ Knows(Idle)
  BY IdleHandler DEF Presents, Earned, Checked, Knows
<1>3. \A q \in Requests \ {r} : Admitted(Idle, tx[q]) /\ Admitted(tx[q], Idle)
  BY IdleHandler DEF Admitted, Past
<1>4. Idle.began <= clock' /\ Idle.ended <= clock'
  BY IdleHandler
<1>5. tx[r].step # "done"
  BY DEF Open
<1> QED
  BY <1>1, <1>2, <1>3, <1>4, <1>5, IdleHandler DEF Harmless

LEMMA RollbackStep ==
  ASSUME IInv, NEW r \in Requests, tx[r].step \in Open, tx[r].step # "expire", Rollback(r)
  PROVE  IInv'
<1>1. tx' = [tx EXCEPT ![r] = Idle] /\ UNCHANGED <<tables, redis>> /\ clock' = clock
  BY DEF Rollback, Step
<1>2. clock \in Nat
  BY Facts
<1>3. Idle \in Handler /\ Harmless(r, Idle)
  BY <1>1, <1>2, IdleHandler, IdleHarmless
<1>4. clock' \in Nat /\ clock <= clock'
  BY <1>1, <1>2
<1> QED
  BY <1>1, <1>3, <1>4, Quietly

\* An error or a crash: only between INCR and EXPIRE does it leave something behind.
LEMMA FailStep ==
  ASSUME IInv, NEW r \in Requests, Fail(r)
  PROVE  IInv'
<1>1. /\ tx[r].step \in Open /\ tx' = [tx EXCEPT ![r] = Idle] /\ UNCHANGED tables
      /\ otp' = otp /\ count' = count /\ expires' = expires /\ clock' = clock
      /\ dropped' = IF tx[r].step = "expire" THEN dropped \cup {tx[r].person} ELSE dropped
  BY DEF Fail
<1>2. /\ clock \in Nat /\ tx[r].person \in People
      /\ tx'[r] = Idle /\ \A q \in Requests \ {r} : tx'[q] = tx[q]
  BY <1>1, Facts DEF LocalOK
<1>3. OnlyCrashLocksOut'
  BY <1>1, <1>2 DEF IInv, OnlyCrashLocksOut
<1>4. Mild(r, Idle)
  BY <1>1, <1>2, <1>3 DEF Mild, tables, IInv, TypeOK
<1> QED
  BY <1>1, <1>2, <1>4, IdleHandler, IdleHarmless, OneHandler

-----------------------------------------------------------------------------
(* Requests that begin *)

LEMMA BeginStep ==
  ASSUME IInv, NEW r \in Requests, NEW t \in Handler, Begin(r, t),
         t.step \in Open \ {"expire"}, t.token = NoValue, t.ended = 0,
         t.kind = "verify" => t.step = "school",
         t.kind = "change" => t.step = "prove",
         t.kind = "login" => t.step = "school",
         LocalOK(t), Presents(t)
  PROVE  IInv'
<1> DEFINE h == [t EXCEPT !.began = clock]
<1>1. clock \in Nat
  BY Facts
<1>2. /\ h \in Handler /\ h.step = t.step /\ h.kind = t.kind /\ h.person = t.person
      /\ h.school = t.school /\ h.secret = t.secret /\ h.token = t.token
      /\ h.wrote = t.wrote /\ h.began = clock /\ h.ended = t.ended
  <2>1. h \in Handler
    BY <1>1 DEF Handler
  <2>2. h.step = t.step /\ h.kind = t.kind /\ h.person = t.person
    BY DEF Handler
  <2>3. h.school = t.school /\ h.secret = t.secret /\ h.token = t.token
    BY DEF Handler
  <2>4. h.wrote = t.wrote /\ h.began = clock /\ h.ended = t.ended
    BY DEF Handler
  <2> QED
    BY <2>1, <2>2, <2>3, <2>4
<1>3. /\ tx' = [tx EXCEPT ![r] = h] /\ UNCHANGED <<tables, redis>> /\ clock' = clock
      /\ tx[r].step = "idle"
  BY DEF Begin, Step
<1> HIDE DEF h
<1>4. LocalOK(h)
  BY <1>2 DEF LocalOK
<1>5. Presents(h) /\ Earned(h) /\ Checked(h) /\ Knows(h)
  BY <1>2 DEF Presents, Earned, Checked, Knows, Open
<1>6. \A q \in Requests \ {r} : Admitted(h, tx[q]) /\ Admitted(tx[q], h)
  BY <1>2 DEF Admitted, Past
<1>7. h.began <= clock' /\ h.ended <= clock'
  BY <1>1, <1>2, <1>3
<1>8. Harmless(r, h)
  BY <1>2, <1>3, <1>4, <1>5, <1>6, <1>7 DEF Harmless, Open
<1>9. clock' \in Nat /\ clock <= clock' /\ tx[r].step # "expire"
  BY <1>1, <1>3
<1> QED
  BY <1>2, <1>3, <1>8, <1>9, Quietly

LEMMA SendOtpStep ==
  ASSUME IInv, NEW r \in Requests, NEW p \in People, NEW s \in Schools,
         SendOtp(r, p, s)
  PROVE  IInv'
<1> DEFINE h == [Idle EXCEPT !.kind = "send", !.step = "school", !.person = p,
                               !.school = s]
<1>1. Begin(r, h)
  BY DEF SendOtp
<1>2. p \in People /\ s \in Schools
  OBVIOUS
<1>3. h \in Handler
  BY <1>2, IdleHandler DEF Handler, Open, Kinds
<1>4. h.step = "school" /\ h.kind = "send" /\ h.person = p
  BY IdleHandler DEF Handler
<1>5. h.school = s /\ h.secret = NoValue
  BY IdleHandler DEF Handler
<1>6. h.token = NoValue /\ h.ended = 0
  BY IdleHandler DEF Handler
<1> HIDE DEF h
<1>7. LocalOK(h)
  BY <1>2, <1>4, <1>5, <1>6 DEF LocalOK, Open
<1>8. Presents(h)
  BY <1>2, <1>4, <1>5 DEF Presents
<1>9. "school" \in Open \ {"expire"}
  BY DEF Open
<1> QED
  BY <1>1, <1>3, <1>4, <1>6, <1>7, <1>8, <1>9, BeginStep

LEMMA VerifyOtpStep ==
  ASSUME IInv, NEW r \in Requests, NEW q \in Requests, NEW s \in Schools,
         VerifyOtp(r, q, s)
  PROVE  IInv'
<1> DEFINE h == [Idle EXCEPT !.kind = "verify", !.step = "school", !.person = tx[q].person,
                               !.school = s, !.secret = q]
<1>1. Begin(r, h)
  BY DEF VerifyOtp
<1>2. /\ tx[q].step = "done" /\ tx[q].kind = "send" /\ tx[q].person \in People
      /\ q \in Secrets
  BY Facts DEF VerifyOtp, LocalOK, Secrets
<1>3. h \in Handler
  BY <1>2, IdleHandler DEF Handler, Open, Kinds
<1>4. h.step = "school" /\ h.kind = "verify" /\ h.person = tx[q].person
  BY IdleHandler DEF Handler
<1>5. h.school = s /\ h.secret = q
  BY IdleHandler DEF Handler
<1>6. h.token = NoValue /\ h.ended = 0
  BY IdleHandler DEF Handler
<1> HIDE DEF h
<1>7. LocalOK(h)
  BY <1>2, <1>4, <1>5, <1>6 DEF LocalOK, Open
<1>8. Presents(h)
  BY <1>2, <1>4, <1>5 DEF Presents
<1>9. "school" \in Open \ {"expire"}
  BY DEF Open
<1> QED
  BY <1>1, <1>3, <1>4, <1>6, <1>7, <1>8, <1>9, BeginStep

LEMMA ToldSecrets ==
  ASSUME NEW p \in People, NEW secret \in Told(p)
  PROVE  secret \in Secrets
  BY DEF Told, Secrets

LEMMA LoginPasswordStep ==
  ASSUME IInv, NEW r \in Requests, NEW p \in People, NEW s \in Schools, NEW x \in Told(p),
         LoginPassword(r, p, s, x)
  PROVE  IInv'
<1> DEFINE h == [Idle EXCEPT !.kind = "login", !.step = "school", !.person = p,
                               !.school = s, !.secret = x]
<1>1. Begin(r, h)
  BY DEF LoginPassword
<1>2. p \in People /\ s \in Schools /\ x \in Secrets
  BY ToldSecrets
<1>3. h \in Handler
  BY <1>2, IdleHandler DEF Handler, Open, Kinds
<1>4. h.step = "school" /\ h.kind = "login" /\ h.person = p
  BY IdleHandler DEF Handler
<1>5. h.school = s /\ h.secret = x
  BY IdleHandler DEF Handler
<1>6. h.token = NoValue /\ h.ended = 0
  BY IdleHandler DEF Handler
<1> HIDE DEF h
<1>7. LocalOK(h)
  BY <1>2, <1>4, <1>5, <1>6 DEF LocalOK, Open
<1>8. Presents(h)
  BY <1>2, <1>4, <1>5 DEF Presents
<1>9. "school" \in Open \ {"expire"}
  BY DEF Open
<1> QED
  BY <1>1, <1>3, <1>4, <1>6, <1>7, <1>8, <1>9, BeginStep

LEMMA ChangePasswordStep ==
  ASSUME IInv, NEW r \in Requests, NEW q \in Requests, NEW p \in People, NEW x \in Told(p),
         ChangePassword(r, q, p, x)
  PROVE  IInv'
<1> DEFINE h == [Idle EXCEPT !.kind = "change", !.step = "prove", !.person = p,
                               !.secret = x]
<1>1. Begin(r, h)
  BY DEF ChangePassword
<1>2. p \in People /\ x \in Secrets
  BY ToldSecrets
<1>3. h \in Handler
  BY <1>2, IdleHandler DEF Handler, Open, Kinds
<1>4. h.step = "prove" /\ h.kind = "change" /\ h.person = p
  BY IdleHandler DEF Handler
<1>5. h.school = NoValue /\ h.secret = x
  BY IdleHandler DEF Handler
<1>6. h.token = NoValue /\ h.ended = 0
  BY IdleHandler DEF Handler
<1> HIDE DEF h
<1>7. LocalOK(h)
  BY <1>2, <1>4, <1>5, <1>6 DEF LocalOK, Open
<1>8. Presents(h)
  BY <1>2, <1>4, <1>5 DEF Presents
<1>9. "prove" \in Open \ {"expire"}
  BY DEF Open
<1> QED
  BY <1>1, <1>3, <1>4, <1>6, <1>7, <1>8, <1>9, BeginStep

LEMMA ResetStep ==
  ASSUME IInv, NEW r \in Requests, NEW p \in People,
         Reset(r, p)
  PROVE  IInv'
<1> DEFINE h == [Idle EXCEPT !.kind = "reset", !.step = "update", !.person = p]
<1>1. Begin(r, h)
  BY DEF Reset
<1>2. p \in People
  OBVIOUS
<1>3. h \in Handler
  BY <1>2, IdleHandler DEF Handler, Open, Kinds
<1>4. h.step = "update" /\ h.kind = "reset" /\ h.person = p
  BY IdleHandler DEF Handler
<1>5. h.school = NoValue /\ h.secret = NoValue
  BY IdleHandler DEF Handler
<1>6. h.token = NoValue /\ h.ended = 0
  BY IdleHandler DEF Handler
<1> HIDE DEF h
<1>7. LocalOK(h)
  BY <1>2, <1>4, <1>5, <1>6 DEF LocalOK, Open
<1>8. Presents(h)
  BY <1>2, <1>4, <1>5 DEF Presents
<1>9. "update" \in Open \ {"expire"}
  BY DEF Open
<1> QED
  BY <1>1, <1>3, <1>4, <1>6, <1>7, <1>8, <1>9, BeginStep

LEMMA CreateSchoolStep ==
  ASSUME IInv, NEW r \in Requests, NEW p \in People, NEW s \in Schools,
         CreateSchool(r, p, s)
  PROVE  IInv'
<1> DEFINE h == [Idle EXCEPT !.kind = "found", !.step = "vacant", !.person = p,
                               !.school = s]
<1>1. Begin(r, h)
  BY DEF CreateSchool
<1>2. p \in People /\ s \in Schools
  OBVIOUS
<1>3. h \in Handler
  BY <1>2, IdleHandler DEF Handler, Open, Kinds
<1>4. h.step = "vacant" /\ h.kind = "found" /\ h.person = p
  BY IdleHandler DEF Handler
<1>5. h.school = s /\ h.secret = NoValue
  BY IdleHandler DEF Handler
<1>6. h.token = NoValue /\ h.ended = 0
  BY IdleHandler DEF Handler
<1> HIDE DEF h
<1>7. LocalOK(h)
  BY <1>2, <1>4, <1>5, <1>6 DEF LocalOK, Open
<1>8. Presents(h)
  BY <1>2, <1>4, <1>5 DEF Presents
<1>9. "vacant" \in Open \ {"expire"}
  BY DEF Open
<1> QED
  BY <1>1, <1>3, <1>4, <1>6, <1>7, <1>8, <1>9, BeginStep

-----------------------------------------------------------------------------
(* Answers *)

LEMMA TokenAnswer ==
  ASSUME IInv, NEW r \in Requests, NEW t \in Handler,
         t.kind \in {"send", "login", "refresh", "select"}, Answer(r, t)
  PROVE  \E h \in Handler :
            /\ tx' = [tx EXCEPT ![r] = h] /\ clock' = clock + 1
            /\ h.step = "done" /\ h.kind = t.kind /\ h.token = t.token /\ h.ended = 0
            /\ t.kind = "send" => h.person = t.person
            /\ t.kind = "login" => h.began = t.began
            /\ h.began \in {0, t.began}
<1> DEFINE person == IF t.kind = "send" THEN t.person ELSE NoValue
<1> DEFINE began == IF t.kind = "login" THEN t.began ELSE 0
<1> DEFINE h == [Idle EXCEPT !.step = "done", !.kind = t.kind, !.token = t.token,
                             !.person = person, !.began = began]
<1>1. tx' = [tx EXCEPT ![r] = h] /\ clock' = clock + 1
  BY DEF Answer
<1>2. /\ person \in People \cup {NoValue} /\ began \in Nat /\ began \in {0, t.began}
      /\ t.kind \in Kinds /\ t.token \in Token \cup {NoValue}
  BY Fields DEF Kinds
<1>3. /\ t.kind = "send" => person = t.person
      /\ t.kind = "login" => began = t.began
  OBVIOUS
<1> HIDE DEF person, began
<1>4. h \in Handler
  BY <1>2, IdleHandler DEF Handler
<1>5. h.step = "done" /\ h.kind = t.kind /\ h.token = t.token
  BY IdleHandler DEF Handler
<1>6. h.ended = 0 /\ h.person = person /\ h.began = began
  BY IdleHandler DEF Handler
<1> HIDE DEF h
<1> QED
  BY <1>1, <1>2, <1>3, <1>4, <1>5, <1>6

\* A handler that answers with a token, or a send, is no danger to the others.
LEMMA TokenAnswered ==
  ASSUME IInv, NEW r \in Requests, NEW h \in Handler, tx[r].step # "done",
         h.step = "done", h.kind \in {"send", "login", "refresh", "select"}, h.ended = 0,
         h.kind = "send" => h.person \in People,
         h.began \in {0, tx[r].began}, Earned(h), clock' = clock + 1
  PROVE  Harmless(r, h) /\ clock' \in Nat /\ clock <= clock'
<1>1. clock' \in Nat /\ clock <= clock' /\ h.began <= clock' /\ h.ended <= clock'
  BY Facts
<1>2. LocalOK(h)
  BY DEF LocalOK, Open
<1>3. Presents(h) /\ Checked(h) /\ Knows(h)
  BY DEF Presents, Checked, Knows
<1>4. \A q \in Requests \ {r} : Admitted(h, tx[q]) /\ Admitted(tx[q], h)
  BY DEF Admitted, Past
<1> QED
  BY <1>1, <1>2, <1>3, <1>4 DEF Harmless

LEMMA RefreshTokensStep ==
  ASSUME IInv, NEW r \in Requests, NEW q \in Requests, RefreshTokens(r, q)
  PROVE  IInv'
<1> DEFINE t == [Idle EXCEPT !.kind = "refresh", !.token = tx[q].token]
<1>1. Answer(r, t) /\ tx[q].step = "done" /\ tx[q].token # NoValue /\ tx[r].step = "idle"
      /\ UNCHANGED <<tables, redis>>
  BY DEF RefreshTokens
<1>2. tx[q].token \in Token \cup {NoValue}
  BY Facts, Fields
<1>3. t \in Handler
  BY <1>2, IdleHandler DEF Handler, Kinds
<1>4. t.kind = "refresh" /\ t.token = tx[q].token /\ t.began = 0
  BY IdleHandler DEF Handler
<1> HIDE DEF t
<1>5. PICK h \in Handler :
         /\ tx' = [tx EXCEPT ![r] = h] /\ clock' = clock + 1
         /\ h.step = "done" /\ h.kind = "refresh" /\ h.token = tx[q].token /\ h.ended = 0
         /\ h.began = 0
  BY <1>1, <1>3, <1>4, TokenAnswer
<1>6. Earned(h)
  BY <1>1, <1>5, Facts DEF Earned
<1>7. Harmless(r, h) /\ clock' \in Nat /\ clock <= clock'
  BY <1>1, <1>5, <1>6, TokenAnswered
<1> QED
  BY <1>1, <1>5, <1>7, Quietly

LEMMA SelectRoleStep ==
  ASSUME IInv, NEW r \in Requests, NEW q \in Requests, NEW m \in role, SelectRole(r, q, m)
  PROVE  IInv'
<1> DEFINE k == [person |-> m[1], school |-> m[2], role |-> m[3]]
<1> DEFINE t == [Idle EXCEPT !.kind = "select", !.token = k]
<1>1. Answer(r, t) /\ tx[r].step = "idle" /\ UNCHANGED <<tables, redis>>
  BY DEF SelectRole
<1>2. m \in People \X Schools \X Roles
  BY DEF IInv, TypeOK
<1>3. k \in Token /\ <<k.person, k.school, k.role>> = m
  BY <1>2 DEF Token
<1> HIDE DEF k
<1>4. t \in Handler
  BY <1>3, IdleHandler DEF Handler, Kinds
<1>5. t.kind = "select" /\ t.token = k /\ t.began = 0
  BY IdleHandler DEF Handler
<1> HIDE DEF t
<1>6. PICK h \in Handler :
         /\ tx' = [tx EXCEPT ![r] = h] /\ clock' = clock + 1
         /\ h.step = "done" /\ h.kind = "select" /\ h.token = k /\ h.ended = 0 /\ h.began = 0
  BY <1>1, <1>4, <1>5, TokenAnswer
<1>7. Earned(h)
  BY <1>3, <1>6 DEF Earned
<1>8. Harmless(r, h) /\ clock' \in Nat /\ clock <= clock'
  BY <1>1, <1>6, <1>7, TokenAnswered
<1> QED
  BY <1>1, <1>6, <1>8, Quietly

LEMMA ArriveStep ==
  ASSUME IInv, NEW r \in Requests, Arrive(r)
  PROVE  IInv'
  BY SendOtpStep, VerifyOtpStep, LoginPasswordStep, ChangePasswordStep, ResetStep,
     CreateSchoolStep, RefreshTokensStep, SelectRoleStep DEF Arrive

-----------------------------------------------------------------------------
(* Statements that only read *)

\* A handler goes on to its next statement.
LEMMA GotoStep ==
  ASSUME IInv, NEW r \in Requests, NEW step \in Open, UNCHANGED redis, Goto(r, step),
         tx[r].step \in Open \ {"expire"},
         NEW h, h = [tx[r] EXCEPT !.step = step],
         LocalOK(h), Checked(h), Knows(h), h.kind = "verify" => step # "roles",
         \A q \in Requests \ {r} : Admitted(h, tx[q])
  PROVE  IInv'
<1>1. /\ tx' = [tx EXCEPT ![r] = h] /\ UNCHANGED tables /\ clock' = clock
  BY DEF Goto, Step
<1>2. /\ h \in Handler /\ h.step = step /\ h.kind = tx[r].kind /\ h.person = tx[r].person
      /\ h.school = tx[r].school /\ h.secret = tx[r].secret /\ h.token = tx[r].token
      /\ h.wrote = tx[r].wrote /\ h.began = tx[r].began /\ h.ended = tx[r].ended
  BY Facts, GotoHandler
<1>3. Presents(h)
  BY <1>2, Facts DEF Presents
<1>4. \A q \in Requests \ {r} : Admitted(tx[q], h)
  BY <1>2 DEF Admitted, Open
<1>5. clock' \in Nat /\ clock <= clock' /\ h.began <= clock' /\ h.ended <= clock'
  BY <1>1, <1>2, Facts
<1>6. Earned(h) /\ h.step # "done" /\ tx[r].step # "done" /\ tx[r].step # "expire"
  BY <1>2 DEF Earned, Open
<1>7. Harmless(r, h)
  BY <1>2, <1>3, <1>4, <1>5, <1>6 DEF Harmless
<1> QED
  BY <1>1, <1>2, <1>5, <1>6, <1>7, Quietly

LEMMA FindSchoolStep ==
  ASSUME IInv, NEW r \in Requests, FindSchool(r)
  PROVE  IInv'
<1>1. tx[r].step = "school" /\ tx[r].step \in Open \ {"expire"} /\ UNCHANGED redis
  BY DEF FindSchool, AtStep, Open
<1>2. CASE Rollback(r)
  BY <1>1, <1>2, RollbackStep
<1>3. CASE ~ Rollback(r)
  <2> DEFINE step == CASE tx[r].kind = "send" -> "user"
                       [] tx[r].kind = "verify" -> "get"
                       [] tx[r].kind = "login" -> "read"
  <2>1. Goto(r, step) /\ school[tx[r].school] = "active"
    BY <1>3 DEF FindSchool
  <2>9. /\ tx[r].kind \in {"send", "verify", "login"}
        /\ tx[r].kind = "send" => step = "user"
        /\ tx[r].kind = "verify" => step = "get"
        /\ tx[r].kind = "login" => step = "read"
    BY <1>1, Facts DEF LocalOK
  <2> HIDE DEF step
  <2>2. step \in Open /\ step \in {"user", "get", "read"}
    BY <2>9 DEF Open
  <2> DEFINE h == [tx[r] EXCEPT !.step = step]
  <2>3. h = [tx[r] EXCEPT !.step = step]
    OBVIOUS
  <2> HIDE DEF h
  <2>4. /\ h.step = step /\ h.kind = tx[r].kind /\ h.person = tx[r].person
        /\ h.school = tx[r].school /\ h.secret = tx[r].secret /\ h.token = tx[r].token
        /\ h.wrote = tx[r].wrote /\ h.began = tx[r].began
    BY <2>2, <2>3, Facts, GotoHandler
  <2>5. LocalOK(h)
    BY <1>1, <2>2, <2>4, <2>9, Facts DEF LocalOK, Open
  <2>6. Checked(h)
    BY <2>1, <2>4 DEF Checked
  <2>7. Knows(h)
    BY <2>4, <2>9 DEF Knows
  <2>8. (h.kind = "verify" => step # "roles") /\ \A q \in Requests \ {r} : Admitted(h, tx[q])
    BY <2>4, <2>9 DEF Admitted, Past
  <2> QED
    BY <1>1, <2>1, <2>2, <2>3, <2>5, <2>6, <2>7, <2>8, GotoStep
<1> QED
  BY <1>2, <1>3

LEMMA FindUserStep ==
  ASSUME IInv, NEW r \in Requests, FindUser(r)
  PROVE  IInv'
<1>1. /\ tx[r].step = "user" /\ tx[r].step \in Open \ {"expire"} /\ UNCHANGED redis
      /\ tx[r].kind = "send"
  BY Facts DEF FindUser, AtStep, Open, LocalOK
<1>2. ASSUME NEW step \in {"insert", "count"}, Goto(r, step)
      PROVE  IInv'
  <2>1. Goto(r, step)
    BY <1>2
  <2>2. step \in Open /\ step \in {"insert", "count"}
    BY DEF Open
  <2> DEFINE h == [tx[r] EXCEPT !.step = step]
  <2>3. h = [tx[r] EXCEPT !.step = step]
    OBVIOUS
  <2> HIDE DEF h
  <2>4. /\ h.step = step /\ h.kind = tx[r].kind /\ h.person = tx[r].person
        /\ h.school = tx[r].school /\ h.secret = tx[r].secret /\ h.token = tx[r].token
        /\ h.wrote = tx[r].wrote /\ h.began = tx[r].began
    BY <2>2, <2>3, Facts, GotoHandler
  <2>5. LocalOK(h)
    BY <1>1, <2>2, <2>4, Facts DEF LocalOK, Open
  <2>6. Checked(h)
    BY <1>1, <2>4 DEF Checked
  <2>7. Knows(h)
    BY <1>1, <2>4 DEF Knows
  <2>8. (h.kind = "verify" => step # "roles") /\ \A q \in Requests \ {r} : Admitted(h, tx[q])
    BY <1>1, <2>4 DEF Admitted, Past
  <2> QED
    BY <1>1, <2>1, <2>2, <2>3, <2>5, <2>6, <2>7, <2>8, GotoStep
<1> QED
  BY <1>2 DEF FindUser

\* The code that is there has admitted nobody yet.
LEMMA GetCodeStep ==
  ASSUME IInv, NEW r \in Requests, GetCode(r)
  PROVE  IInv'
<1>1. tx[r].step = "get" /\ tx[r].step \in Open \ {"expire"} /\ UNCHANGED redis
  BY DEF GetCode, AtStep, Open
<1>2. CASE Rollback(r)
  BY <1>1, <1>2, RollbackStep
<1>3. CASE ~ Rollback(r)
  <2>1. Goto(r, "del") /\ otp[tx[r].person] = tx[r].secret
    BY <1>3 DEF GetCode
  <2>2. "del" \in Open
    BY DEF Open
  <2> DEFINE h == [tx[r] EXCEPT !.step = "del"]
  <2>3. h = [tx[r] EXCEPT !.step = "del"]
    OBVIOUS
  <2> HIDE DEF h
  <2>4. /\ h.step = "del" /\ h.kind = tx[r].kind /\ h.person = tx[r].person
        /\ h.school = tx[r].school /\ h.secret = tx[r].secret /\ h.token = tx[r].token
        /\ h.wrote = tx[r].wrote /\ h.began = tx[r].began
    BY <2>2, <2>3, Facts, GotoHandler
  <2>5. LocalOK(h)
    BY <1>1, <2>2, <2>4, Facts DEF LocalOK, Open
  <2>6. Checked(h)
    BY <1>1, <2>4, Facts DEF Checked
  <2>7. Knows(h)
    BY <2>2, <2>4, <1>1, Facts DEF Knows, LocalOK
  <2>8. (h.kind = "verify" => "del" # "roles") /\ \A q \in Requests \ {r} : Admitted(h, tx[q])
    BY <1>1, <2>1, <2>4, Facts DEF Admitted, Burned, Past, LocalOK, Open
  <2> QED
    BY <1>1, <2>1, <2>2, <2>3, <2>5, <2>6, <2>7, <2>8, GotoStep
<1> QED
  BY <1>2, <1>3

LEMMA CheckPasswordStep ==
  ASSUME IInv, NEW r \in Requests, CheckPassword(r)
  PROVE  IInv'
<1>1. tx[r].step = "read" /\ tx[r].step \in Open \ {"expire"} /\ UNCHANGED redis
  BY DEF CheckPassword, AtStep, Open
<1>2. CASE Rollback(r)
  BY <1>1, <1>2, RollbackStep
<1>3. CASE ~ Rollback(r)
  <2>1. Goto(r, "roles")
    BY <1>3 DEF CheckPassword
  <2>2. "roles" \in Open
    BY DEF Open
  <2> DEFINE h == [tx[r] EXCEPT !.step = "roles"]
  <2>3. h = [tx[r] EXCEPT !.step = "roles"]
    OBVIOUS
  <2> HIDE DEF h
  <2>4. /\ h.step = "roles" /\ h.kind = tx[r].kind /\ h.person = tx[r].person
        /\ h.school = tx[r].school /\ h.secret = tx[r].secret /\ h.token = tx[r].token
        /\ h.wrote = tx[r].wrote /\ h.began = tx[r].began
    BY <2>2, <2>3, Facts, GotoHandler
  <2>5. LocalOK(h)
    BY <1>1, <2>2, <2>4, Facts DEF LocalOK, Open
  <2>6. Checked(h)
    BY <1>1, <2>4, Facts DEF Checked
  <2>7. Knows(h)
    BY <1>1, <2>4, Facts DEF Knows, LocalOK
  <2>8. (h.kind = "verify" => "roles" # "roles") /\ \A q \in Requests \ {r} : Admitted(h, tx[q])
    BY <1>1, <2>4, Facts DEF Admitted, Past, LocalOK
  <2> QED
    BY <1>1, <2>1, <2>2, <2>3, <2>5, <2>6, <2>7, <2>8, GotoStep
<1> QED
  BY <1>2, <1>3

LEMMA ProveOldStep ==
  ASSUME IInv, NEW r \in Requests, ProveOld(r)
  PROVE  IInv'
<1>1. tx[r].step = "prove" /\ tx[r].step \in Open \ {"expire"} /\ UNCHANGED redis
  BY DEF ProveOld, AtStep, Open
<1>2. CASE Rollback(r)
  BY <1>1, <1>2, RollbackStep
<1>3. CASE ~ Rollback(r)
  <2>1. Goto(r, "update") /\ Proves(r)
    BY <1>3 DEF ProveOld
  <2>2. "update" \in Open
    BY DEF Open
  <2> DEFINE h == [tx[r] EXCEPT !.step = "update"]
  <2>3. h = [tx[r] EXCEPT !.step = "update"]
    OBVIOUS
  <2> HIDE DEF h
  <2>4. /\ h.step = "update" /\ h.kind = tx[r].kind /\ h.person = tx[r].person
        /\ h.school = tx[r].school /\ h.secret = tx[r].secret /\ h.token = tx[r].token
        /\ h.wrote = tx[r].wrote /\ h.began = tx[r].began
    BY <2>2, <2>3, Facts, GotoHandler
  <2>5. LocalOK(h)
    BY <1>1, <2>2, <2>4, Facts DEF LocalOK, Open
  <2>6. Checked(h)
    BY <1>1, <2>4, Facts DEF Checked
  <2>7. Knows(h)
    BY <1>1, <2>1, <2>4, Facts DEF Knows, LocalOK, Proves
  <2>8. (h.kind = "verify" => "update" # "roles") /\ \A q \in Requests \ {r} : Admitted(h, tx[q])
    BY <1>1, <2>4, Facts DEF Admitted, Past, LocalOK
  <2> QED
    BY <1>1, <2>1, <2>2, <2>3, <2>5, <2>6, <2>7, <2>8, GotoStep
<1> QED
  BY <1>2, <1>3

LEMMA CheckVacantStep ==
  ASSUME IInv, NEW r \in Requests, CheckVacant(r)
  PROVE  IInv'
<1>1. tx[r].step = "vacant" /\ tx[r].step \in Open \ {"expire"} /\ UNCHANGED redis
  BY DEF CheckVacant, AtStep, Open
<1>2. CASE Rollback(r)
  BY <1>1, <1>2, RollbackStep
<1>3. CASE ~ Rollback(r)
  <2>1. Goto(r, "principal")
    BY <1>3 DEF CheckVacant
  <2>2. "principal" \in Open
    BY DEF Open
  <2> DEFINE h == [tx[r] EXCEPT !.step = "principal"]
  <2>3. h = [tx[r] EXCEPT !.step = "principal"]
    OBVIOUS
  <2> HIDE DEF h
  <2>4. /\ h.step = "principal" /\ h.kind = tx[r].kind /\ h.person = tx[r].person
        /\ h.school = tx[r].school /\ h.secret = tx[r].secret /\ h.token = tx[r].token
        /\ h.wrote = tx[r].wrote /\ h.began = tx[r].began
    BY <2>2, <2>3, Facts, GotoHandler
  <2>5. LocalOK(h)
    BY <1>1, <2>2, <2>4, Facts DEF LocalOK, Open
  <2>6. Checked(h)
    BY <1>1, <2>4, Facts DEF Checked
  <2>7. Knows(h)
    BY <1>1, <2>4, Facts DEF Knows, LocalOK
  <2>8. (h.kind = "verify" => "principal" # "roles") /\ \A q \in Requests \ {r} : Admitted(h, tx[q])
    BY <1>1, <2>4, Facts DEF Admitted, Past, LocalOK
  <2> QED
    BY <1>1, <2>1, <2>2, <2>3, <2>5, <2>6, <2>7, <2>8, GotoStep
<1> QED
  BY <1>2, <1>3

-----------------------------------------------------------------------------
(* Statements that write *)

Wrote(t) == [t EXCEPT !.wrote = TRUE, !.step = "commit"]

LEMMA WroteHandler ==
  ASSUME NEW t \in Handler
  PROVE  LET h == Wrote(t) IN
         /\ h \in Handler /\ h.step = "commit" /\ h.kind = t.kind /\ h.person = t.person
         /\ h.school = t.school /\ h.secret = t.secret /\ h.token = t.token
         /\ h.wrote = TRUE /\ h.began = t.began /\ h.ended = t.ended
<1> DEFINE h == Wrote(t)
<1>1. h \in Handler
  BY DEF Handler, Open, Wrote
<1>2. h.step = "commit" /\ h.kind = t.kind /\ h.person = t.person
  BY DEF Handler, Wrote
<1>3. h.school = t.school /\ h.secret = t.secret /\ h.token = t.token
  BY DEF Handler, Wrote
<1>4. h.wrote = TRUE
  BY DEF Handler, Wrote
<1>5. h.began = t.began /\ h.ended = t.ended
  BY DEF Handler, Wrote
<1> QED
  BY <1>1, <1>2, <1>3, <1>4, <1>5

\* The handler's last statement before its commit, whose row it keeps locked.
LEMMA WriteStep ==
  ASSUME IInv, NEW r \in Requests, tx[r].step \in {"update", "principal"}, UNCHANGED redis,
         Step(r, [tx[r] EXCEPT !.wrote = TRUE, !.step = "commit"])
  PROVE  IInv'
<1> DEFINE h == Wrote(tx[r])
<1>1. tx' = [tx EXCEPT ![r] = h] /\ UNCHANGED tables /\ clock' = clock
  BY DEF Step, Wrote
<1> HIDE DEF h
<1>2. /\ h \in Handler /\ h.step = "commit" /\ h.kind = tx[r].kind /\ h.person = tx[r].person
      /\ h.school = tx[r].school /\ h.secret = tx[r].secret /\ h.token = tx[r].token
      /\ h.wrote = TRUE /\ h.began = tx[r].began /\ h.ended = tx[r].ended
  BY Facts, WroteHandler DEF h
<1>3. h.wrote
  BY <1>2
<1>4. tx[r].kind \in {"change", "reset", "found"}
  BY Facts DEF LocalOK
<1>5. LocalOK(h)
  BY <1>3, <1>2, <1>4, Facts DEF LocalOK, Open
<1>6. Knows(h)
  BY <1>2, Facts DEF Knows, LocalOK
<1>7. Presents(h) /\ Earned(h) /\ Checked(h)
  BY <1>2, <1>4 DEF Presents, Earned, Checked
<1>8. \A q \in Requests \ {r} : Admitted(h, tx[q]) /\ Admitted(tx[q], h)
  BY <1>2, <1>4 DEF Admitted, Past
<1>9. /\ clock' \in Nat /\ clock <= clock' /\ h.began <= clock' /\ h.ended <= clock'
      /\ tx[r].step # "expire" /\ tx[r].step # "done"
  BY <1>1, <1>2, Facts
<1>10. Harmless(r, h)
  BY <1>2, <1>4, <1>5, <1>6, <1>7, <1>8, <1>9 DEF Harmless
<1> QED
  BY <1>1, <1>2, <1>9, <1>10, Quietly

LEMMA UpdatePasswordStep ==
  ASSUME IInv, NEW r \in Requests, UpdatePassword(r)
  PROVE  IInv'
  BY WriteStep DEF UpdatePassword, AtStep

LEMMA InsertPrincipalStep ==
  ASSUME IInv, NEW r \in Requests, InsertPrincipal(r)
  PROVE  IInv'
  BY WriteStep, RollbackStep DEF InsertPrincipal, InsertUser, AtStep, Open

\* A counter that has come to one is followed by its time to live.
LEMMA CountSendStep ==
  ASSUME IInv, NEW r \in Requests, CountSend(r)
  PROVE  IInv'
<1> DEFINE p == tx[r].person
<1> DEFINE n == count[p] + 1
<1>1. tx[r].step = "count" /\ tx[r].step \in Open \ {"expire"}
  BY DEF CountSend, AtStep, Open
<1>2. p \in People /\ count \in [People -> Nat] /\ n \in Nat /\ tx[r].kind = "send"
  BY <1>1, Facts DEF LocalOK, IInv, TypeOK
<1>3. /\ count' = [count EXCEPT ![p] = n] /\ otp' = otp /\ expires' = expires
      /\ dropped' = dropped /\ UNCHANGED tables /\ clock' = clock
  BY DEF CountSend, Step, Goto
<1>4. CASE AfterCount(n) = "refuse"
  <2>1. tx' = [tx EXCEPT ![r] = Idle]
    BY <1>4 DEF CountSend, Step
  <2>2. n # 1
    BY <1>4 DEF AfterCount
  <2>3. /\ tx'[r] = Idle /\ \A q \in Requests \ {r} : tx'[q] = tx[q]
    BY <2>1, Facts
  <2>4. OnlyCrashLocksOut'
    BY <1>1, <1>2, <1>3, <2>2, <2>3 DEF IInv, OnlyCrashLocksOut
  <2>5. Mild(r, Idle)
    BY <1>2, <1>3, <2>4, Facts DEF Mild, tables, IInv, TypeOK
  <2>6. Harmless(r, Idle)
    BY <1>1, <1>3, Facts, IdleHarmless
  <2> QED
    BY <2>1, <2>5, <2>6, IdleHandler, OneHandler
<1>5. CASE AfterCount(n) # "refuse"
  <2> DEFINE step == AfterCount(n)
  <2> DEFINE h == [tx[r] EXCEPT !.step = step]
  <2>1. tx' = [tx EXCEPT ![r] = h]
    BY <1>5 DEF CountSend, Step, Goto
  <2>2. step \in {"expire", "store"} /\ (n = 1 => step = "expire") /\ step \in Open
    BY <1>5 DEF AfterCount, Open
  <2>3. h = [tx[r] EXCEPT !.step = step]
    OBVIOUS
  <2> HIDE DEF h, step
  <2>4. /\ h \in Handler /\ h.step = step /\ h.kind = tx[r].kind /\ h.person = tx[r].person
        /\ h.school = tx[r].school /\ h.secret = tx[r].secret /\ h.token = tx[r].token
        /\ h.wrote = tx[r].wrote /\ h.began = tx[r].began /\ h.ended = tx[r].ended
    BY <2>2, <2>3, Facts, GotoHandler
  <2>5. /\ tx'[r] = h /\ \A q \in Requests \ {r} : tx'[q] = tx[q]
    BY <2>1, Facts
  <2>6. OnlyCrashLocksOut'
    BY <1>1, <1>2, <1>3, <2>2, <2>4, <2>5 DEF IInv, OnlyCrashLocksOut
  <2>7. Mild(r, h)
    BY <1>2, <1>3, <2>6, Facts DEF Mild, tables, IInv, TypeOK
  <2>8. LocalOK(h)
    BY <1>1, <2>2, <2>4, Facts DEF LocalOK, Open
  <2>9. Presents(h) /\ Earned(h) /\ Checked(h) /\ Knows(h)
    BY <1>2, <2>2, <2>4 DEF Presents, Earned, Checked, Knows
  <2>10. \A q \in Requests \ {r} : Admitted(h, tx[q]) /\ Admitted(tx[q], h)
    BY <1>2, <2>4 DEF Admitted, Past
  <2>11. h.began <= clock' /\ h.ended <= clock' /\ tx[r].step # "done"
    BY <1>1, <1>3, <2>4, Facts
  <2>12. Harmless(r, h)
    BY <1>2, <2>2, <2>4, <2>8, <2>9, <2>10, <2>11 DEF Harmless
  <2> QED
    BY <2>1, <2>4, <2>7, <2>12, OneHandler
<1> QED
  BY <1>4, <1>5

LEMMA ExpireStep ==
  ASSUME IInv, NEW r \in Requests, Expire(r)
  PROVE  IInv'
<1> DEFINE h == [tx[r] EXCEPT !.step = "store"]
<1>1. tx[r].step = "expire" /\ tx[r].step \in Open /\ "store" \in Open
  BY DEF Expire, AtStep, Open
<1>2. tx[r].person \in People /\ tx[r].kind = "send"
  BY <1>1, Facts DEF LocalOK
<1>3. /\ expires' = [expires EXCEPT ![tx[r].person] = TRUE] /\ otp' = otp /\ count' = count
      /\ dropped' = dropped /\ UNCHANGED tables /\ clock' = clock
      /\ tx' = [tx EXCEPT ![r] = h]
  BY DEF Expire, Step, Goto
<1>4. h = [tx[r] EXCEPT !.step = "store"]
  OBVIOUS
<1> HIDE DEF h
<1>5. /\ h \in Handler /\ h.step = "store" /\ h.kind = tx[r].kind /\ h.person = tx[r].person
      /\ h.school = tx[r].school /\ h.secret = tx[r].secret /\ h.token = tx[r].token
      /\ h.wrote = tx[r].wrote /\ h.began = tx[r].began /\ h.ended = tx[r].ended
  BY <1>1, <1>4, Facts, GotoHandler
<1>6. tx'[r] = h /\ \A q \in Requests \ {r} : tx'[q] = tx[q]
  BY <1>3, Facts
<1>7. expires \in [People -> BOOLEAN]
  BY DEF IInv, TypeOK
<1>8. expires'[tx[r].person] /\ \A p \in People \ {tx[r].person} : expires'[p] = expires[p]
  BY <1>2, <1>3, <1>7
<1>9. OnlyCrashLocksOut'
  BY <1>2, <1>3, <1>6, <1>8 DEF IInv, OnlyCrashLocksOut
<1>10. expires' \in [People -> BOOLEAN]
  BY <1>3, <1>7
<1>11. Mild(r, h)
  BY <1>3, <1>9, <1>10, Facts DEF Mild, tables, IInv, TypeOK
<1>12. LocalOK(h)
  BY <1>1, <1>5, Facts DEF LocalOK, Open
<1>13. Presents(h) /\ Earned(h) /\ Checked(h) /\ Knows(h)
  BY <1>2, <1>5 DEF Presents, Earned, Checked, Knows
<1>14. \A q \in Requests \ {r} : Admitted(h, tx[q]) /\ Admitted(tx[q], h)
  BY <1>2, <1>5 DEF Admitted, Past
<1>15. h.began <= clock' /\ h.ended <= clock' /\ tx[r].step # "done"
  BY <1>1, <1>3, <1>5, Facts
<1>16. Harmless(r, h)
  BY <1>2, <1>5, <1>12, <1>13, <1>14, <1>15 DEF Harmless
<1> QED
  BY <1>3, <1>5, <1>11, <1>16, OneHandler

LEMMA CreateUserStep ==
  ASSUME IInv, NEW r \in Requests, CreateUser(r)
  PROVE  IInv'
<1>1. tx[r].step = "insert" /\ tx[r].step \in Open \ {"expire"} /\ "count" \in Open
  BY DEF CreateUser, AtStep, Open
<1>2. CASE Rollback(r)
  BY <1>1, <1>2, RollbackStep
<1>3. CASE ~ Rollback(r)
  <2> DEFINE h == [tx[r] EXCEPT !.step = "count"]
  <2>1. /\ tx' = [tx EXCEPT ![r] = h] /\ password[tx[r].person] = "absent"
        /\ password' = [password EXCEPT ![tx[r].person] = NoValue]
        /\ UNCHANGED <<role, school, since, redis, clock>>
    BY <1>3, Facts DEF CreateUser
  <2>2. h = [tx[r] EXCEPT !.step = "count"]
    OBVIOUS
  <2> HIDE DEF h
  <2>3. /\ h \in Handler /\ h.step = "count" /\ h.kind = tx[r].kind /\ h.person = tx[r].person
        /\ h.school = tx[r].school /\ h.secret = tx[r].secret /\ h.token = tx[r].token
        /\ h.wrote = tx[r].wrote /\ h.began = tx[r].began /\ h.ended = tx[r].ended
    BY <1>1, <2>2, Facts, GotoHandler
  <2>4. tx[r].kind = "send"
    BY <1>1, Facts DEF LocalOK
  <2>5. \A q \in Requests \ {r} : tx'[q] = tx[q]
    BY <2>1, Facts
  <2>6. OnlyCrashLocksOut'
    BY <1>1, <2>1, <2>5 DEF IInv, OnlyCrashLocksOut, redis
  <2>7. /\ password' \in [People -> Secrets \cup {NoValue, "absent"}]
        /\ \A p \in People : \/ password'[p] = password[p]
                             \/ password[p] = "absent" /\ password'[p] = NoValue
    BY <2>1 DEF IInv, TypeOK
  <2>8. Mild(r, h)
    BY <2>1, <2>6, <2>7, Facts DEF Mild, redis, IInv, TypeOK
  <2>9. LocalOK(h)
    BY <1>1, <2>3, Facts DEF LocalOK, Open
  <2>10. Presents(h) /\ Earned(h) /\ Checked(h) /\ Knows(h)
    BY <2>3, <2>4 DEF Presents, Earned, Checked, Knows
  <2>11. \A q \in Requests \ {r} : Admitted(h, tx[q]) /\ Admitted(tx[q], h)
    BY <2>3, <2>4 DEF Admitted, Past
  <2>12. h.began <= clock' /\ h.ended <= clock' /\ tx[r].step # "done"
    BY <1>1, <2>1, <2>3, Facts
  <2>13. Harmless(r, h)
    BY <2>3, <2>4, <2>9, <2>10, <2>11, <2>12 DEF Harmless
  <2> QED
    BY <2>1, <2>3, <2>8, <2>13, OneHandler
<1> QED
  BY <1>2, <1>3

\* The code that was verified is stored under the phone it was sent to, and nowhere else.
LEMMA DelCodeStep ==
  ASSUME IInv, NEW r \in Requests, DelCode(r)
  PROVE  IInv'
<1> DEFINE h == [tx[r] EXCEPT !.step = "roles"]
<1>1. tx[r].step = "del" /\ tx[r].step \in Open \ {"expire"} /\ "roles" \in Open
  BY DEF DelCode, AtStep, Open
<1>2. /\ tx[r].kind = "verify" /\ tx[r].person \in People /\ tx[r].secret \in Requests
      /\ tx[tx[r].secret].person = tx[r].person
  BY <1>1, Facts DEF LocalOK, Presents
<1>3. /\ tx' = [tx EXCEPT ![r] = h] /\ UNCHANGED tables /\ clock' = clock
      /\ otp' = [otp EXCEPT ![tx[r].person] = NoValue]
      /\ UNCHANGED <<count, expires, dropped>>
  BY DEF DelCode, BurnCode, Goto, Step
<1>4. h = [tx[r] EXCEPT !.step = "roles"]
  OBVIOUS
<1> HIDE DEF h
<1>5. /\ h \in Handler /\ h.step = "roles" /\ h.kind = tx[r].kind /\ h.person = tx[r].person
      /\ h.school = tx[r].school /\ h.secret = tx[r].secret /\ h.token = tx[r].token
      /\ h.wrote = tx[r].wrote /\ h.began = tx[r].began /\ h.ended = tx[r].ended
  BY <1>1, <1>4, Facts, GotoHandler
<1>6. \A q \in Requests \ {r} : tx'[q] = tx[q]
  BY <1>3, Facts
<1>7. OnlyCrashLocksOut'
  BY <1>1, <1>3, <1>6 DEF IInv, OnlyCrashLocksOut
<1>8. /\ otp' \in [People -> Requests \cup {NoValue}]
      /\ \A p \in People : otp'[p] \in {otp[p], NoValue}
      /\ \A p \in People : otp'[p] # h.secret
  BY <1>2, <1>3, <1>5, ValuesAssumption DEF IInv, TypeOK, Stored
<1>9. Mild(r, h)
  BY <1>3, <1>7, <1>8, Facts DEF Mild, tables, IInv, TypeOK
<1>10. LocalOK(h)
  BY <1>1, <1>5, Facts DEF LocalOK, Open
<1>11. Presents(h) /\ Earned(h) /\ Checked(h) /\ Knows(h)
  <2>1. Presents(h)
    <3>1. h.kind = "verify" /\ h.secret = tx[r].secret /\ h.person = tx[r].person
      BY <1>2, <1>5
    <3>2. Presents(tx[r]) /\ tx[r].kind = "verify"
      BY <1>2, Facts
    <3> QED
      BY <3>1, <3>2 DEF Presents
  <2>2. Earned(h) /\ Knows(h)
    BY <1>2, <1>5 DEF Earned, Knows
  <2>3. Checked(tx[r]) /\ tx[r].kind \in {"login", "verify"}
    BY <1>2, Facts
  <2>4. Checked(h)
    BY <1>1, <1>5, <2>3 DEF Checked
  <2> QED
    BY <2>1, <2>2, <2>4
<1>12. ASSUME NEW q \in Requests \ {r} PROVE Admitted(h, tx[q]) /\ Admitted(tx[q], h)
  <2>1. Admitted(tx[r], tx[q])
    BY DEF IInv
  <2>2. Past(h) /\ Past(tx[r]) /\ h.secret = tx[r].secret /\ h.began = tx[r].began
    BY <1>1, <1>2, <1>5 DEF Past
  <2> QED
    BY <1>5, <2>1, <2>2 DEF Admitted
<1>13. h.began <= clock' /\ h.ended <= clock' /\ tx[r].step # "done"
  BY <1>1, <1>3, <1>5, Facts
<1>14. Harmless(r, h)
  BY <1>5, <1>8, <1>10, <1>11, <1>12, <1>13 DEF Harmless
<1> QED
  BY <1>3, <1>5, <1>9, <1>14, OneHandler

LEMMA StoreCodeStep ==
  ASSUME IInv, NEW r \in Requests, StoreCode(r)
  PROVE  IInv'
<1>1. /\ tx[r].step = "store" /\ tx[r].step \in Open \ {"expire"} /\ Answer(r, tx[r])
      /\ UNCHANGED <<tables, count, expires, dropped>>
      /\ otp' = [otp EXCEPT ![tx[r].person] = r]
  BY DEF StoreCode, AtStep, Open
<1>2. tx[r].kind = "send" /\ tx[r].person \in People /\ tx[r].token = NoValue
  BY <1>1, Facts DEF LocalOK
<1>3. PICK h \in Handler :
         /\ tx' = [tx EXCEPT ![r] = h] /\ clock' = clock + 1
         /\ h.step = "done" /\ h.kind = "send" /\ h.token = NoValue /\ h.ended = 0
         /\ h.person = tx[r].person /\ h.began \in {0, tx[r].began}
  BY <1>1, <1>2, Facts, TokenAnswer
<1>4. Harmless(r, h) /\ clock' \in Nat /\ clock <= clock'
  BY <1>1, <1>2, <1>3, TokenAnswered DEF Earned
<1>5. \A q \in Requests \ {r} : tx'[q] = tx[q]
  BY <1>3, Facts
<1>6. OnlyCrashLocksOut'
  BY <1>1, <1>5 DEF IInv, OnlyCrashLocksOut
<1>7. /\ otp' \in [People -> Requests \cup {NoValue}]
      /\ \A p \in People : \/ otp'[p] = otp[p]
                           \/ otp'[p] = r /\ p = tx[r].person
  BY <1>1, <1>2 DEF IInv, TypeOK
<1>8. Mild(r, h)
  BY <1>1, <1>3, <1>4, <1>6, <1>7 DEF Mild, tables, IInv, TypeOK
<1> QED
  BY <1>3, <1>4, <1>8, OneHandler

LEMMA VerifyAnswer ==
  ASSUME IInv, NEW r \in Requests, NEW t \in Handler, t.kind = "verify", Answer(r, t)
  PROVE  \E h \in Handler :
            /\ tx' = [tx EXCEPT ![r] = h] /\ clock' = clock + 1
            /\ h.step = "done" /\ h.kind = "verify" /\ h.token = t.token
            /\ h.ended = clock + 1 /\ h.began = t.began /\ h.secret = t.secret
            /\ h.person = t.person /\ h.school = t.school
<1> DEFINE h == [t EXCEPT !.step = "done", !.ended = clock + 1]
<1>1. tx' = [tx EXCEPT ![r] = h] /\ clock' = clock + 1
  BY DEF Answer
<1>2. clock + 1 \in Nat
  BY Facts
<1>3. h \in Handler
  BY <1>2 DEF Handler
<1>4. h.step = "done" /\ h.kind = "verify" /\ h.token = t.token /\ h.ended = clock + 1
  BY DEF Handler
<1>5. h.began = t.began /\ h.secret = t.secret /\ h.person = t.person /\ h.school = t.school
  BY DEF Handler
<1> HIDE DEF h
<1> QED
  BY <1>1, <1>3, <1>4, <1>5

\* The token is for the role that was found, at a school that was active since.
LEMMA BuildResponseStep ==
  ASSUME IInv, NEW r \in Requests, BuildResponse(r)
  PROVE  IInv'
<1> DEFINE roles == RolesAt(tx[r].person, tx[r].school)
<1> DEFINE k == TokenFor(r, roles)
<1> DEFINE t == [tx[r] EXCEPT !.token = k]
<1>1. /\ tx[r].step = "roles" /\ tx[r].step \in Open \ {"expire"} /\ UNCHANGED <<tables, redis>>
  BY DEF BuildResponse, AtStep, Open
<1>2. tx[r].kind \in {"verify", "login"} /\ tx[r].person \in People /\ tx[r].school \in Schools
  BY <1>1, Facts DEF LocalOK
<1>3. CASE roles = {}
  <2>1. Rollback(r)
    BY <1>1, <1>3 DEF BuildResponse, Rollback, Step
  <2> QED
    BY <1>1, <2>1, RollbackStep
<1>4. CASE roles # {}
  <2>1. Answer(r, t)
    BY <1>4 DEF BuildResponse
  <2>2. /\ k \in Token \cup {NoValue}
        /\ k # NoValue => /\ k.person = tx[r].person /\ k.school = tx[r].school
                          /\ <<k.person, k.school, k.role>> \in role
    <3>1. PICK only : only = CHOOSE x \in roles : TRUE
      OBVIOUS
    <3>2. only \in roles
      BY <1>4, <3>1
    <3>3. <<tx[r].person, tx[r].school, only>> \in role /\ only \in Roles
      BY <3>2 DEF RolesAt, IInv, TypeOK
    <3> HIDE DEF roles
    <3>4. k = NoValue \/ k = [person |-> tx[r].person, school |-> tx[r].school, role |-> only]
      BY <3>1 DEF TokenFor
    <3> QED
      BY <1>2, <3>3, <3>4 DEF Token
  <2> HIDE DEF k
  <2>3. /\ t \in Handler /\ t.kind = tx[r].kind /\ t.token = k /\ t.began = tx[r].began
        /\ t.secret = tx[r].secret /\ t.person = tx[r].person /\ t.school = tx[r].school
    <3>1. t \in Handler
      BY <2>2, Facts DEF Handler
    <3>2. t.kind = tx[r].kind /\ t.token = k /\ t.began = tx[r].began
      BY Facts DEF Handler
    <3>3. t.secret = tx[r].secret /\ t.person = tx[r].person /\ t.school = tx[r].school
      BY Facts DEF Handler
    <3> QED
      BY <3>1, <3>2, <3>3
  <2> HIDE DEF t
  <2>4. k # NoValue /\ school[k.school] = "suspended" => tx[r].began < since[k.school]
    BY <1>1, <1>2, <2>2, Facts DEF Checked
  <2>5. CASE tx[r].kind = "login"
    <3>1. PICK h \in Handler :
             /\ tx' = [tx EXCEPT ![r] = h] /\ clock' = clock + 1
             /\ h.step = "done" /\ h.kind = "login" /\ h.token = k /\ h.ended = 0
             /\ h.began = tx[r].began
      BY <2>1, <2>3, <2>5, TokenAnswer
    <3>2. Earned(h)
      BY <2>2, <2>4, <3>1 DEF Earned
    <3>3. Harmless(r, h) /\ clock' \in Nat /\ clock <= clock'
      BY <1>1, <3>1, <3>2, TokenAnswered
    <3> QED
      BY <1>1, <3>1, <3>3, Quietly
  <2>6. CASE tx[r].kind = "verify"
    <3>1. PICK h \in Handler :
             /\ tx' = [tx EXCEPT ![r] = h] /\ clock' = clock + 1
             /\ h.step = "done" /\ h.kind = "verify" /\ h.token = k
             /\ h.ended = clock + 1 /\ h.began = tx[r].began /\ h.secret = tx[r].secret
             /\ h.person = tx[r].person
      BY <2>1, <2>3, <2>6, VerifyAnswer
    <3>2. Earned(h)
      BY <2>2, <2>4, <3>1 DEF Earned
    <3>3. clock' \in Nat /\ clock <= clock' /\ h.began <= clock' /\ h.ended <= clock'
      BY <3>1, Facts
    <3>4. LocalOK(h) /\ Presents(h)
      BY <2>6, <3>1, Facts DEF LocalOK, Presents, Open
    <3>5. Checked(h) /\ Knows(h)
      BY <3>1 DEF Checked, Knows
    <3>6. \A q \in Requests \ {r} : Admitted(h, tx[q])
      BY <1>1, <2>6, <3>1 DEF IInv, Admitted, Past
    <3>7. \A q \in Requests \ {r} : h.ended > tx[q].began
      BY <3>1, Facts
    <3>8. \A q \in Requests \ {r} : Admitted(tx[q], h)
      BY <3>7 DEF Admitted
    <3>9. \A p \in People : otp'[p] # h.secret
      BY <1>1, <2>6, <3>1, Facts DEF Burned, redis
    <3>10. Harmless(r, h)
      BY <1>1, <3>1, <3>2, <3>3, <3>4, <3>5, <3>6, <3>8, <3>9 DEF Harmless
    <3> QED
      BY <1>1, <3>1, <3>3, <3>10, Quietly
  <2> QED
    BY <1>2, <2>5, <2>6
<1> QED
  BY <1>3, <1>4

-----------------------------------------------------------------------------
(* Steps beside the handlers *)

\* Redis may forget codes, people get roles, and schools a status that is newer than
\* whatever a handler has seen.
LEMMA Bystanders ==
  ASSUME IInv, TypeOK', tx' = tx, password' = password, role \subseteq role',
         \A s \in Schools : school[s] # "none" => school'[s] # "none",
         \A s \in Schools : school'[s] = "suspended" =>
            \/ school[s] = "suspended" /\ since'[s] = since[s]
            \/ since'[s] > clock,
         \A p \in People : otp'[p] \in {otp[p], NoValue},
         clock <= clock', OnlyCrashLocksOut'
  PROVE  IInv'
<1>1. \A r \in Requests : LocalOK(tx[r])' /\ Presents(tx[r])'
  BY DEF IInv, LocalOK, Presents
<1>2. ASSUME NEW r \in Requests PROVE Burned(tx[r])'
  <2>1. tx[r].kind = "verify" => tx[r].secret # NoValue
    BY Facts, ValuesAssumption DEF Presents
  <2> QED
    BY <2>1, Facts DEF Burned
<1>3. ASSUME NEW r \in Requests PROVE Earned(tx[r])'
  <2>1. tx[r].token \in Token \cup {NoValue} /\ tx[r].began <= clock /\ tx[r].began \in Nat
    BY Facts, Fields
  <2>2. tx[r].token # NoValue => tx[r].token.school \in Schools
    BY <2>1 DEF Token
  <2>3. clock \in Nat /\ since' \in [Schools -> Nat]
    BY Facts DEF TypeOK
  <2> QED
    BY <2>1, <2>2, <2>3, Facts DEF Earned
<1>4. ASSUME NEW r \in Requests PROVE Checked(tx[r])'
  <2>1. tx[r].began <= clock /\ tx[r].began \in Nat /\ LocalOK(tx[r]) /\ Checked(tx[r])
    BY Facts
  <2>2. clock \in Nat /\ since' \in [Schools -> Nat]
    BY Facts DEF TypeOK
  <2>3. tx[r].step \in {"get", "del", "read", "roles"} => tx[r].school \in Schools
    BY <2>1 DEF LocalOK
  <2> QED
    BY <2>1, <2>2, <2>3 DEF Checked
<1>5. \A r \in Requests : Knows(tx[r])'
  BY DEF IInv, Knows
<1>6. ASSUME NEW r \in Requests PROVE Slip(r, tx[r])'
  <2>1. Slip(r, tx[r]) /\ (tx[r].kind = "found" => tx[r].school \in Schools)
    BY Facts DEF LocalOK
  <2> QED
    BY <2>1 DEF Slip
<1>7. \A r \in Requests : tx'[r].began <= clock' /\ tx'[r].ended <= clock'
  <2>1. clock \in Nat /\ clock' \in Nat
    BY DEF IInv, TypeOK
  <2> QED
    BY <2>1, Facts
<1>8. \A q, r \in Requests : q # r => Admitted(tx[q], tx[r])'
  BY DEF IInv, Admitted, Past
<1>9. Stored' /\ SetByDone'
  BY DEF IInv, Stored, SetByDone
<1> QED
  BY <1>1, <1>2, <1>3, <1>4, <1>5, <1>6, <1>7, <1>8, <1>9 DEF IInv

LEMMA ExpiryStep ==
  ASSUME IInv, NEW p \in People, CodeExpires(p) \/ CounterExpires(p)
  PROVE  IInv'
<1>1. /\ UNCHANGED <<tables, clock, tx, dropped>>
      /\ \A o \in People : otp'[o] \in {otp[o], NoValue}
      /\ otp' \in [People -> Requests \cup {NoValue}]
      /\ count' \in [People -> Nat] /\ expires' \in [People -> BOOLEAN]
  <2>1. CASE CodeExpires(p)
    BY <2>1 DEF CodeExpires, IInv, TypeOK
  <2>2. CASE CounterExpires(p)
    BY <2>2 DEF CounterExpires, IInv, TypeOK
  <2> QED
    BY <2>1, <2>2
<1>2. OnlyCrashLocksOut'
  <2>1. CASE CodeExpires(p)
    BY <2>1 DEF CodeExpires, IInv, OnlyCrashLocksOut
  <2>2. CASE CounterExpires(p)
    <3>1. /\ count' = [count EXCEPT ![p] = 0] /\ expires' = [expires EXCEPT ![p] = FALSE]
          /\ dropped' = dropped /\ tx' = tx
      BY <2>2 DEF CounterExpires
    <3>2. count'[p] = 0 /\ \A o \in People \ {p} : count'[o] = count[o] /\ expires'[o] = expires[o]
      BY <3>1 DEF IInv, TypeOK
    <3> QED
      BY <3>1, <3>2 DEF IInv, OnlyCrashLocksOut
  <2> QED
    BY <2>1, <2>2
<1>3. TypeOK'
  BY <1>1 DEF tables, IInv, TypeOK
<1>4. clock <= clock'
  BY <1>1, <1>3 DEF TypeOK
<1> QED
  BY <1>1, <1>2, <1>3, <1>4, Bystanders DEF tables

LEMMA SetStatusStep ==
  ASSUME IInv, NEW s \in Schools, NEW status \in {"suspended", "active"}, SetStatus(s, status)
  PROVE  IInv'
<1>1. /\ school[s] \notin {"none", status} /\ school' = [school EXCEPT ![s] = status]
      /\ clock' = clock + 1 /\ since' = [since EXCEPT ![s] = clock + 1]
      /\ UNCHANGED <<password, role, redis, tx>>
  BY DEF SetStatus
<1>2. TypeOK' /\ clock \in Nat
  BY <1>1 DEF redis, IInv, TypeOK
<1>3. OnlyCrashLocksOut'
  BY <1>1 DEF redis, IInv, OnlyCrashLocksOut
<1>4. /\ \A o \in Schools : school[o] # "none" => school'[o] # "none"
      /\ \A o \in Schools : school'[o] = "suspended" =>
            \/ school[o] = "suspended" /\ since'[o] = since[o]
            \/ since'[o] > clock
  BY <1>1, <1>2 DEF IInv, TypeOK
<1>5. clock <= clock' /\ role \subseteq role' /\ \A p \in People : otp'[p] \in {otp[p], NoValue}
  BY <1>1, <1>2 DEF redis
<1> QED
  BY <1>1, <1>2, <1>3, <1>4, <1>5, Bystanders

LEMMA JoinStep ==
  ASSUME IInv, NEW m \in Joining, Join(m)
  PROVE  IInv'
<1>1. role' = role \cup {m} /\ UNCHANGED <<password, school, since, redis, clock, tx>>
  BY DEF Join
<1>2. TypeOK' /\ clock <= clock'
  BY <1>1, EnrolledAssumption DEF redis, IInv, TypeOK
<1>3. OnlyCrashLocksOut'
  BY <1>1 DEF redis, IInv, OnlyCrashLocksOut
<1> QED
  BY <1>1, <1>2, <1>3, Bystanders DEF redis

-----------------------------------------------------------------------------
(* A transaction commits *)

Answered(t) == [t EXCEPT !.step = "done", !.ended = clock + 1, !.wrote = FALSE,
                         !.secret = NoValue, !.began = 0]

LEMMA AnsweredHandler ==
  ASSUME NEW t \in Handler, clock \in Nat
  PROVE  LET h == Answered(t) IN
         /\ h \in Handler /\ h.step = "done" /\ h.kind = t.kind /\ h.person = t.person
         /\ h.school = t.school /\ h.token = t.token /\ h.began = 0 /\ h.ended = clock + 1
<1> DEFINE h == Answered(t)
<1>1. h \in Handler
  <2>1. clock + 1 \in Nat /\ "done" \in Open \cup {"idle", "done"}
    OBVIOUS
  <2> QED
    BY <2>1 DEF Handler, Answered
<1>2. h.step = "done" /\ h.kind = t.kind /\ h.person = t.person
  BY DEF Handler, Answered
<1>3. h.school = t.school /\ h.token = t.token
  BY DEF Handler, Answered
<1>4. h.began = 0 /\ h.ended = clock + 1
  BY DEF Handler, Answered
<1> QED
  BY <1>1, <1>2, <1>3, <1>4

LEMMA CommitFacts ==
  ASSUME IInv, NEW r \in Requests, Commit(r)
  PROVE  /\ tx[r].step = "commit" /\ tx[r].kind \in {"change", "reset", "found"}
         /\ tx[r].person \in People /\ tx[r].token = NoValue
         /\ tx[r].kind = "found" => tx[r].school \in Schools
         /\ tx' = [tx EXCEPT ![r] = Answered(tx[r])] /\ clock' = clock + 1
         /\ password' = [password EXCEPT ![tx[r].person] = r]
         /\ role' = IF tx[r].kind = "found"
                    THEN role \cup {<<tx[r].person, tx[r].school, "admin">>} ELSE role
         /\ school' = IF tx[r].kind = "found" THEN [school EXCEPT ![tx[r].school] = "active"]
                      ELSE school
         /\ UNCHANGED <<since, redis>>
<1>1. tx[r].step = "commit" /\ tx[r].step \in Open
  BY DEF Commit, AtStep, Open
<1>2. /\ tx[r].kind \in {"change", "reset", "found"}
      /\ tx[r].person \in People /\ tx[r].token = NoValue
      /\ tx[r].kind = "found" => tx[r].school \in Schools
  BY <1>1, Facts DEF LocalOK
<1>3. tx[r].wrote
  BY <1>1, Facts DEF LocalOK
<1>4. password' = [password EXCEPT ![tx[r].person] = r]
  BY <1>3 DEF Commit
<1>5. /\ role' = IF tx[r].kind = "found"
                 THEN role \cup {<<tx[r].person, tx[r].school, "admin">>} ELSE role
      /\ school' = IF tx[r].kind = "found" THEN [school EXCEPT ![tx[r].school] = "active"]
                   ELSE school
      /\ UNCHANGED <<since, redis>> /\ Answer(r, tx[r])
  BY DEF Commit
<1>6. tx' = [tx EXCEPT ![r] = Answered(tx[r])] /\ clock' = clock + 1
  <2>1. tx[r].kind # "verify"
    BY <1>2
  <2> QED
    BY <1>2, <1>5, <2>1 DEF Answer, Answered
<1> QED
  BY <1>1, <1>2, <1>4, <1>5, <1>6

\* Whoever has verified the old password, or answered a slip, did so before this commit.
LEMMA CommitStep ==
  ASSUME IInv, NEW r \in Requests, Commit(r)
  PROVE  IInv'
<1> DEFINE h == Answered(tx[r])
<1> DEFINE p == tx[r].person
<1>1. /\ tx[r].step = "commit" /\ tx[r].kind \in {"change", "reset", "found"}
      /\ p \in People /\ tx[r].token = NoValue
      /\ tx[r].kind = "found" => tx[r].school \in Schools
      /\ tx' = [tx EXCEPT ![r] = h] /\ clock' = clock + 1
      /\ password' = [password EXCEPT ![p] = r]
      /\ UNCHANGED <<since, redis>>
  BY CommitFacts
<1>2. /\ role' = IF tx[r].kind = "found"
                 THEN role \cup {<<p, tx[r].school, "admin">>} ELSE role
      /\ school' = IF tx[r].kind = "found" THEN [school EXCEPT ![tx[r].school] = "active"]
                   ELSE school
  BY CommitFacts
<1>3. clock \in Nat
  BY Facts
<1>4. /\ h \in Handler /\ h.step = "done" /\ h.kind = tx[r].kind /\ h.person = p
      /\ h.school = tx[r].school /\ h.token = NoValue /\ h.began = 0 /\ h.ended = clock + 1
  BY <1>1, <1>3, Facts, AnsweredHandler
<1> HIDE DEF h
<1>5. /\ tx'[r] = h /\ \A q \in Requests \ {r} : tx'[q] = tx[q]
      /\ tx' \in [Requests -> Handler]
  BY <1>1, <1>4, Facts
<1>6. /\ password'[p] = r /\ \A o \in People \ {p} : password'[o] = password[o]
      /\ password' \in [People -> Secrets \cup {NoValue, "absent"}]
  BY <1>1 DEF IInv, TypeOK, Secrets
<1>7. /\ role \subseteq role' /\ role' \subseteq People \X Schools \X Roles
      /\ tx[r].kind = "found" => <<p, tx[r].school, "admin">> \in role'
  BY <1>1, <1>2, FoundedAssumption DEF IInv, TypeOK
<1>8. /\ school' \in [Schools -> {"none", "active", "suspended"}]
      /\ tx[r].kind = "found" => school'[tx[r].school] = "active"
      /\ \A s \in Schools : school'[s] \in {school[s], "active"}
  BY <1>1, <1>2 DEF IInv, TypeOK
<1>9. TypeOK'
  <2>1. since' = since /\ otp' = otp /\ count' = count /\ expires' = expires /\ dropped' = dropped
    BY <1>1 DEF redis
  <2> QED
    BY <1>1, <1>3, <1>5, <1>6, <1>7, <1>8, <2>1 DEF IInv, TypeOK
<1>10. \A q \in Requests : LocalOK(tx[q])'
  <2>1. LocalOK(h)
    BY <1>1, <1>4 DEF LocalOK, Open
  <2>2. \A q \in Requests : LocalOK(tx'[q])
    BY <1>5, <2>1 DEF IInv
  <2> QED
    BY <2>2 DEF LocalOK
<1>11. ASSUME NEW q \in Requests PROVE Presents(tx[q])'
  <2>1. tx[q].kind = "verify" => tx'[tx[q].secret] = tx[tx[q].secret]
    BY <1>1, <1>5, Facts DEF Presents
  <2>2. tx'[q].kind = "verify" => tx'[q] = tx[q]
    BY <1>1, <1>4, <1>5
  <2>3. Presents(tx[q])
    BY Facts
  <2> QED
    BY <2>1, <2>2, <2>3 DEF Presents
<1>12. ASSUME NEW q \in Requests PROVE Burned(tx[q])'
  <2>1. tx'[q].kind = "verify" => tx'[q] = tx[q]
    BY <1>1, <1>4, <1>5
  <2> QED
    BY <1>1, <2>1, Facts DEF Burned, redis
<1>13. ASSUME NEW q \in Requests PROVE Earned(tx[q])'
  <2>1. tx[q].token \in Token \cup {NoValue}
    BY Facts, Fields
  <2>2. tx[q].token # NoValue => tx[q].token.school \in Schools
    BY <2>1 DEF Token
  <2>3. CASE q = r
    BY <1>4, <1>5, <2>3 DEF Earned
  <2>4. CASE q # r
    <3>1. tx'[q] = tx[q] /\ Earned(tx[q]) /\ since' = since
      BY <1>1, <1>5, <2>4, Facts
    <3> QED
      BY <1>7, <1>8, <2>2, <3>1 DEF Earned
  <2> QED
    BY <2>3, <2>4
<1>14. ASSUME NEW q \in Requests PROVE Checked(tx[q])'
  <2>1. CASE q = r
    BY <1>4, <1>5, <2>1 DEF Checked
  <2>2. CASE q # r
    <3>1. tx'[q] = tx[q] /\ Checked(tx[q]) /\ LocalOK(tx[q]) /\ since' = since
      BY <1>1, <1>5, <2>2, Facts
    <3>2. tx[q].step \in {"get", "del", "read", "roles"} => tx[q].school \in Schools
      BY <3>1 DEF LocalOK
    <3> QED
      BY <1>8, <3>1, <3>2 DEF Checked
  <2> QED
    BY <2>1, <2>2
<1>15. ASSUME NEW o \in People
       PROVE  \/ password'[o] = password[o] /\ (password[o] \in Requests =>
                                                  tx'[password[o]] = tx[password[o]])
              \/ o = p /\ password'[o] = r
  BY <1>1, <1>5, <1>6 DEF IInv, SetByDone
<1>16. ASSUME NEW q \in Requests PROVE Knows(tx[q])'
  <2>1. CASE q = r
    BY <1>4, <1>5, <2>1 DEF Knows
  <2>2. CASE q # r
    <3>1. /\ tx'[q] = tx[q] /\ Knows(tx[q]) /\ LocalOK(tx[q])
          /\ tx[q].began <= clock /\ tx[q].began \in Nat
      BY <1>5, <2>2, Facts
    <3>2. tx[q].step \in {"update", "commit"} => tx[q].person \in People
      BY <3>1 DEF LocalOK, Open
    <3>3. tx'[r].ended > tx[q].began /\ r \in Secrets
      BY <1>3, <1>4, <1>5, <3>1 DEF Secrets
    <3> QED
      BY <1>15, <3>1, <3>2, <3>3 DEF Knows
  <2> QED
    BY <2>1, <2>2
<1>17. ASSUME NEW q \in Requests PROVE Slip(q, tx[q])'
  <2>1. CASE q = r
    BY <1>1, <1>4, <1>5, <1>6, <1>7, <1>8, <2>1 DEF Slip
  <2>2. CASE q # r
    <3>1. /\ tx'[q] = tx[q] /\ Slip(q, tx[q]) /\ LocalOK(tx[q])
          /\ tx[q].ended <= clock /\ tx[q].ended \in Nat
      BY <1>5, <2>2, Facts
    <3>2. /\ tx[q].kind \in {"reset", "found"} => tx[q].person \in People
          /\ tx[q].kind = "found" => tx[q].school \in Schools
      BY <3>1 DEF LocalOK
    <3>3. tx'[r].ended > tx[q].ended
      BY <1>3, <1>4, <1>5, <3>1
    <3>4. CASE tx[q].step = "done" /\ tx[q].kind \in {"reset", "found"}
      <4>1. \/ password'[tx[q].person] = q
            \/ /\ password'[tx[q].person] \in Requests
               /\ tx'[password'[tx[q].person]].ended > tx[q].ended
        BY <1>15, <3>1, <3>2, <3>3, <3>4 DEF Slip
      <4>2. tx[q].kind = "found" => /\ school'[tx[q].school] # "none"
                                    /\ <<tx[q].person, tx[q].school, "admin">> \in role'
        BY <1>7, <1>8, <3>1, <3>2, <3>4 DEF Slip
      <4> QED
        BY <3>1, <4>1, <4>2 DEF Slip
    <3>5. CASE ~(tx[q].step = "done" /\ tx[q].kind \in {"reset", "found"})
      BY <3>1, <3>5 DEF Slip
    <3> QED
      BY <3>4, <3>5
  <2> QED
    BY <2>1, <2>2
<1>18. ASSUME NEW q \in Requests PROVE tx'[q].began <= clock' /\ tx'[q].ended <= clock'
  <2>1. CASE q = r
    BY <1>1, <1>3, <1>4, <1>5, <2>1
  <2>2. CASE q # r
    BY <1>1, <1>3, <1>5, <2>2, Facts
  <2> QED
    BY <2>1, <2>2
<1>19. \A q, o \in Requests : q # o => Admitted(tx[q], tx[o])'
  <2>1. \A q \in Requests : tx'[q].kind = "verify" => tx'[q] = tx[q]
    BY <1>1, <1>4, <1>5
  <2> QED
    BY <2>1 DEF IInv, Admitted, Past
<1>20. Stored'
  BY <1>1, <1>5 DEF IInv, Stored, redis
<1>21. SetByDone'
  BY <1>4, <1>5, <1>15 DEF IInv, SetByDone
<1>22. OnlyCrashLocksOut'
  BY <1>1, <1>5 DEF IInv, OnlyCrashLocksOut, redis
<1> QED
  BY <1>9, <1>10, <1>11, <1>12, <1>13, <1>14, <1>16, <1>17, <1>18, <1>19, <1>20, <1>21,
     <1>22 DEF IInv

-----------------------------------------------------------------------------
(* The invariant and what follows from it *)

LEMMA InitIInv ==
  ASSUME Init
  PROVE  IInv
<1>1. \A r \in Requests : tx[r] = Idle
  BY DEF Init
<1>2. TypeOK
  <2>1. tx \in [Requests -> Handler]
    BY IdleHandler DEF Init
  <2>2. password \in [People -> Secrets \cup {NoValue, "absent"}]
    BY DEF Init, Secrets
  <2>3. /\ role \subseteq People \X Schools \X Roles
        /\ school \in [Schools -> {"none", "active", "suspended"}]
    BY EnrolledAssumption DEF Init
  <2>4. /\ since \in [Schools -> Nat] /\ otp \in [People -> Requests \cup {NoValue}]
        /\ count \in [People -> Nat] /\ expires \in [People -> BOOLEAN]
        /\ dropped \subseteq People /\ clock \in Nat
    BY DEF Init
  <2> QED
    BY <2>1, <2>2, <2>3, <2>4 DEF TypeOK
<1>3. LocalOK(Idle) /\ Presents(Idle) /\ Burned(Idle)
  BY IdleHandler DEF LocalOK, Presents, Burned, Open
<1>4. Earned(Idle) /\ Checked(Idle) /\ Knows(Idle) /\ \A r \in Requests : Slip(r, Idle)
  BY IdleHandler DEF Earned, Checked, Knows, Slip
<1>5. Idle.began <= clock /\ Idle.ended <= clock
  BY IdleHandler DEF Init
<1>6. Admitted(Idle, Idle)
  BY IdleHandler DEF Admitted, Past
<1>7. Stored /\ OnlyCrashLocksOut
  BY DEF Init, Stored, OnlyCrashLocksOut
<1>8. SetByDone
  BY ValuesAssumption DEF Init, SetByDone, Secrets
<1> QED
  BY <1>1, <1>2, <1>3, <1>4, <1>5, <1>6, <1>7, <1>8 DEF IInv

LEMMA ServeStep ==
  ASSUME IInv, NEW r \in Requests, Serve(r)
  PROVE  IInv'
BY FindSchoolStep, FindUserStep, CreateUserStep, CountSendStep, ExpireStep, StoreCodeStep,
   GetCodeStep, DelCodeStep, CheckPasswordStep, BuildResponseStep, ProveOldStep,
   UpdatePasswordStep, CheckVacantStep, InsertPrincipalStep, CommitStep DEF Serve

LEMMA NextIInv ==
  ASSUME IInv, [Next]_vars
  PROVE  IInv'
<1>1. CASE \E r \in Requests : Arrive(r) \/ Serve(r) \/ Fail(r)
  BY <1>1, ArriveStep, ServeStep, FailStep
<1>2. CASE \E s \in Schools : SetStatus(s, "suspended") \/ SetStatus(s, "active")
  BY <1>2, SetStatusStep
<1>3. CASE \E m \in Joining : Join(m)
  BY <1>3, JoinStep
<1>4. CASE \E p \in People : CodeExpires(p) \/ CounterExpires(p)
  BY <1>4, ExpiryStep
<1>5. CASE UNCHANGED vars
  <2>1. /\ password' = password /\ role' = role /\ school' = school /\ since' = since
        /\ otp' = otp /\ count' = count /\ expires' = expires /\ dropped' = dropped
        /\ clock' = clock /\ tx' = tx
    BY <1>5 DEF vars, tables, redis
  <2>2. TypeOK' /\ OnlyCrashLocksOut'
    BY <2>1 DEF IInv, TypeOK, OnlyCrashLocksOut
  <2>3. clock <= clock'
    BY <2>1, <2>2 DEF TypeOK
  <2> QED
    BY <2>1, <2>2, <2>3, Bystanders
<1> QED
  BY <1>1, <1>2, <1>3, <1>4, <1>5 DEF Next

LEMMA AlwaysIInv == Spec => []IInv
BY InitIInv, NextIInv, PTL DEF Spec

\* Tables, Redis keys and handlers keep to their types.
THEOREM TypesKept == Spec => []TypeOK
<1>1. IInv => TypeOK
  BY DEF IInv
<1> QED
  BY <1>1, AlwaysIInv, PTL

\* No code admits anybody a second time after its first verification was answered:
\* it is stored once and, deleted, never comes back.
THEOREM AdmitsOnce == Spec => []CodeAdmitsOnce
<1>1. IInv => CodeAdmitsOnce
  BY DEF IInv, CodeAdmitsOnce, Done, Admitted, Past
<1> QED
  BY <1>1, AlwaysIInv, PTL

\* Every token is for a role its owner has; none comes of a login that began in a
\* suspension.
THEOREM TokensEarned == Spec => []TokensAreEarned
<1>1. IInv => TokensAreEarned
  BY DEF IInv, TokensAreEarned, Earned
<1> QED
  BY <1>1, AlwaysIInv, PTL

\* A counter of codes never loses its time to live but by a stop between INCR and EXPIRE.
THEOREM LocksOutByCrashOnly == Spec => []OnlyCrashLocksOut
<1>1. IInv => OnlyCrashLocksOut
  BY DEF IInv
<1> QED
  BY <1>1, AlwaysIInv, PTL

\* A slip shows the password of its account until a later request sets another.
THEOREM SlipsHold == Spec => []SlipHolds
<1>1. IInv => SlipHolds
  BY DEF IInv, SlipHolds, Slip, Done
<1> QED
  BY <1>1, AlwaysIInv, PTL

\* Who writes the column of passwords: a user is created, or a transaction commits.
LEMMA PasswordSteps ==
  ASSUME [Next]_vars
  PROVE  \/ password' = password
         \/ \E r \in Requests : CreateUser(r) \/ Commit(r)
<1>1. ASSUME NEW r \in Requests, Arrive(r) PROVE password' = password
  BY <1>1 DEF Arrive, SendOtp, CreateSchool, LoginPassword, Reset, RefreshTokens, SelectRole,
     VerifyOtp, ChangePassword, Begin, Step, tables
<1>2. ASSUME NEW r \in Requests, Fail(r) PROVE password' = password
  BY <1>2 DEF Fail, tables
<1>3. ASSUME NEW r \in Requests, Serve(r)
      PROVE  password' = password \/ CreateUser(r) \/ Commit(r)
  <2>1. FindSchool(r) \/ FindUser(r) \/ CountSend(r) \/ Expire(r) => password' = password
    BY DEF FindSchool, FindUser, CountSend, Expire, Goto, Rollback, Step, tables
  <2>2. StoreCode(r) \/ GetCode(r) \/ DelCode(r) \/ CheckPassword(r) => password' = password
    BY DEF StoreCode, GetCode, DelCode, CheckPassword, Goto, Rollback, Step, tables
  <2>3. BuildResponse(r) \/ ProveOld(r) \/ UpdatePassword(r) => password' = password
    BY DEF BuildResponse, ProveOld, UpdatePassword, Goto, Rollback, Step, tables
  <2>4. CheckVacant(r) \/ InsertPrincipal(r) => password' = password
    BY DEF CheckVacant, InsertPrincipal, InsertUser, Goto, Rollback, Step, tables
  <2> QED
    BY <1>3, <2>1, <2>2, <2>3, <2>4 DEF Serve
<1>4. (\E s \in Schools : SetStatus(s, "suspended") \/ SetStatus(s, "active"))
         => password' = password
  BY DEF SetStatus
<1>5. (\E m \in Joining : Join(m)) => password' = password
  BY DEF Join
<1>6. (\E p \in People : CodeExpires(p) \/ CounterExpires(p)) => password' = password
  BY DEF CodeExpires, CounterExpires, tables
<1>7. UNCHANGED vars => password' = password
  BY DEF vars, tables
<1> QED
  BY <1>1, <1>2, <1>3, <1>4, <1>5, <1>6, <1>7 DEF Next

\* A change of a password replaces the one its caller knew, or one set since it began.
THEOREM ChangesKnowTheOld == Spec => ChangeKnowsOld
<1>1. ASSUME IInv, [Next]_vars, NEW p \in People,
             password'[p] # password[p], password'[p] \in Requests,
             tx'[password'[p]].kind = "change"
      PROVE  \/ tx[password'[p]].secret = password[p]
             \/ /\ password[p] \in Requests
                /\ tx[password[p]].ended > tx[password'[p]].began
  <2>1. PICK r \in Requests : CreateUser(r) \/ Commit(r)
    BY <1>1, PasswordSteps
  <2>2. CASE CreateUser(r)
    <3>1. password' = password \/ password' = [password EXCEPT ![tx[r].person] = NoValue]
      BY <2>2 DEF CreateUser, Rollback, Step, tables
    <3>2. password \in [People -> Secrets \cup {NoValue, "absent"}]
      BY <1>1 DEF IInv, TypeOK
    <3> QED
      BY <1>1, <3>1, <3>2, ValuesAssumption
  <2>3. CASE Commit(r)
    <3>1. /\ tx[r].step = "commit" /\ password' = [password EXCEPT ![tx[r].person] = r]
          /\ tx' = [tx EXCEPT ![r] = Answered(tx[r])]
      BY <1>1, <2>3, CommitFacts
    <3>2. p = tx[r].person /\ password'[p] = r
      BY <1>1, <3>1 DEF IInv, TypeOK
    <3>3. tx'[r].kind = tx[r].kind
      <4>1. tx[r] \in Handler /\ clock \in Nat /\ tx'[r] = Answered(tx[r])
        BY <1>1, <3>1, Facts
      <4> QED
        BY <4>1, AnsweredHandler
    <3>4. Knows(tx[r])
      BY <1>1, Facts
    <3> QED
      BY <1>1, <3>1, <3>2, <3>3, <3>4 DEF Knows
  <2> QED
    BY <2>1, <2>2, <2>3
<1>2. IInv /\ [Next]_vars =>
         [\A p \in People :
            LET was == password[p]
                now == password'[p]
            IN now # was /\ now \in Requests /\ tx'[now].kind = "change"
                  => \/ tx[now].secret = was
                     \/ was \in Requests /\ tx[was].ended > tx[now].began]_vars
  BY <1>1
<1> QED
  BY <1>2, AlwaysIInv, PTL DEF Spec, ChangeKnowsOld

=============================================================================
