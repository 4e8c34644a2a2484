---------------------------- MODULE AuthHttpProofs ----------------------------
(***************************************************************************)
(* Proofs about AuthHttp for any number of requests in flight, users and   *)
(* sessions, and any faults.  HttpInv is inductive.  Its heart is          *)
(* Undelivered: until the answer that sets a session in the jar arrives,   *)
(* nobody can present that session, so nobody has ended or replaced it.    *)
(***************************************************************************)
EXTENDS AuthHttp, TLAPS

LEMMA FreeFacts ==
  /\ Free \in RequestType /\ Free.phase = "free" /\ Free.kind = "session"
  /\ Free.cookie = 0 /\ Free.set = -1 /\ ~Free.passed
BY DEF Free, RequestType, Kind, Status

LEMMA Lengths ==
  ASSUME TypeOK
  PROVE  /\ Len(sessions) \in Nat /\ Created = 1 .. Len(sessions)
         /\ \A n \in Created : sessions[n] \in SessionType /\ sessions[n].parent \in Nat
         /\ \A r \in Request : /\ req[r] \in RequestType /\ req[r].cookie \in Nat
                               /\ req[r].set \in Nat \cup {-1}
<1>1. /\ sessions \in Seq(SessionType) /\ req \in [Request -> RequestType]
      /\ Len(sessions) \in Nat /\ Created = 1 .. Len(sessions)
  BY DEF TypeOK, Created
<1>2. \A n \in Created : sessions[n] \in SessionType
  BY <1>1
<1>3. \A s \in SessionType : s.parent \in Nat
  BY DEF SessionType
<1>4. \A q \in RequestType : q.cookie \in Nat /\ q.set \in Nat \cup {-1}
  BY DEF RequestType
<1> QED
  BY <1>1, <1>2, <1>3, <1>4

\* A request changes, and the sessions and the jar do not.
LEMMA RequestFrame ==
  ASSUME HttpInv, NEW r \in Request, NEW q \in RequestType,
         req' = [req EXCEPT ![r] = q], UNCHANGED <<jar, sessions>>,
         trouble' \in BOOLEAN, trouble => trouble',
         q.cookie \in {0, jar, req[r].cookie},
         q.phase # "answered" \/ q.kind = "session" => q.set = -1,
         q.phase = "sent" => ~q.passed,
         q.kind = "login" => q.user \in User,
         q.phase = "checked" /\ q.kind \in {"renew", "logout"} => q.cookie \in Created,
         q.set \in {-1, 0}, q.set = -1 => req[r].set = -1 \/ trouble',
         q.phase = "answered" /\ q.kind = "logout" /\ q.status = "ok" => Over(q)
  PROVE  HttpInv'
<1>1. /\ TypeOK /\ ParentsOlder /\ JarWillMove /\ LogoutRevokes
      /\ \A s \in Request : Presented(s) /\ Undelivered(s)
  BY DEF HttpInv
<1>2. /\ req'[r] = q /\ \A s \in Request \ {r} : req'[s] = req[s]
      /\ req' \in [Request -> RequestType]
  BY <1>1 DEF TypeOK
<1>3. TypeOK' /\ ParentsOlder'
  BY <1>1, <1>2 DEF TypeOK, ParentsOlder, Created
<1>4. /\ \A t : Live(t)' <=> Live(t)
      /\ \A p \in RequestType : Over(p)' <=> Over(p)
  BY DEF Live, Over, Created
<1>5. JarWillMove'
  <2>1. ASSUME ~trouble', jar # 0, ~Live(jar)
        PROVE  \E s \in Request : req'[s].set # -1
    <3>1. PICK s \in Request : req[s].set # -1
      BY <1>1, <2>1 DEF JarWillMove, TypeOK
    <3>2. CASE s = r
      BY <1>2, <2>1, <3>1, <3>2
    <3>3. CASE s # r
      BY <1>2, <3>1, <3>3
    <3> QED
      BY <3>2, <3>3
  <2> QED
    BY <1>4, <2>1 DEF JarWillMove
<1>6. LogoutRevokes'
  BY <1>1, <1>2 DEF LogoutRevokes, Answered, Over, Created
<1>7. ASSUME NEW s \in Request
      PROVE  Presented(s)' /\ Undelivered(s)'
  <2>1. q.cookie <= Len(sessions) /\ q.set <= Len(sessions)
    BY <1>1, Lengths DEF TypeOK, Presented
  <2>2. Presented(s)'
    <3>1. CASE s = r
      BY <1>2, <2>1, <3>1 DEF Presented, Created
    <3>2. CASE s # r
      BY <1>1, <1>2, <3>2 DEF Presented, Created
    <3> QED
      BY <3>1, <3>2
  <2>3. Undelivered(s)'
    <3>1. CASE s = r
      BY <1>2, <3>1 DEF Undelivered
    <3>2. CASE s # r
      <4>1. Undelivered(s) /\ req'[s].set = req[s].set
        BY <1>1, <1>2, <3>2
      <4> SUFFICES ASSUME req[s].set > 0
                   PROVE  LET t == req[s].set IN
                          /\ jar # t /\ (~trouble' => Live(t))
                          /\ \A p \in Request : req'[p].cookie # t
                                 /\ (p # s => req'[p].set # t)
                          /\ \A n \in Created : sessions[n].parent # t
        BY <1>4, <4>1 DEF Undelivered, Created
      <4>2. /\ jar # req[s].set /\ (~trouble => Live(req[s].set))
            /\ \A p \in Request : req[p].cookie # req[s].set
                 /\ (p # s => req[p].set # req[s].set)
            /\ \A n \in Created : sessions[n].parent # req[s].set
        BY <4>1 DEF Undelivered
      <4>3. \A p \in Request : req'[p].cookie # req[s].set
                 /\ (p # s => req'[p].set # req[s].set)
        BY <1>2, <4>2
      <4> QED
        BY <1>1, <4>2, <4>3 DEF TypeOK
    <3> QED
      BY <3>1, <3>2
  <2> QED
    BY <2>2, <2>3
<1> QED
  BY <1>3, <1>5, <1>6, <1>7 DEF HttpInv

\* What an answer makes of its request.
LEMMA AnswerFacts ==
  ASSUME TypeOK, NEW r \in Request, NEW status \in Status, NEW set \in Nat \cup {-1},
         Answer(r, status, set)
  PROVE  \E q \in RequestType :
           /\ req' = [req EXCEPT ![r] = q]
           /\ q.phase = "answered" /\ q.status = status /\ q.set = set
           /\ q.kind = req[r].kind /\ q.user = req[r].user
           /\ q.cookie = req[r].cookie /\ q.passed = req[r].passed
<1> DEFINE q == [req[r] EXCEPT !.phase = "answered", !.status = status, !.set = set]
<1>1. req \in [Request -> RequestType] /\ req[r] \in RequestType
  BY DEF TypeOK
<1>2. /\ q \in RequestType
      /\ q.phase = "answered" /\ q.status = status /\ q.set = set
      /\ q.kind = req[r].kind /\ q.user = req[r].user
      /\ q.cookie = req[r].cookie /\ q.passed = req[r].passed
  BY <1>1 DEF RequestType
<1>3. req' = [req EXCEPT ![r] = q]
  BY <1>1 DEF Answer
<1> QED
  BY <1>2, <1>3

LEMMA CheckFacts ==
  ASSUME TypeOK, NEW r \in Request, Check(r)
  PROVE  \E q \in RequestType :
           /\ req' = [req EXCEPT ![r] = q]
           /\ q.phase = "checked" /\ q.status = req[r].status /\ q.set = req[r].set
           /\ q.kind = req[r].kind /\ q.user = req[r].user
           /\ q.cookie = req[r].cookie
<1> DEFINE q == [req[r] EXCEPT !.phase = "checked", !.passed = TRUE]
<1>1. req \in [Request -> RequestType] /\ req[r] \in RequestType
  BY DEF TypeOK
<1>2. /\ q \in RequestType
      /\ q.phase = "checked" /\ q.status = req[r].status /\ q.set = req[r].set
      /\ q.kind = req[r].kind /\ q.user = req[r].user
      /\ q.cookie = req[r].cookie
  BY <1>1 DEF RequestType
<1>3. req' = [req EXCEPT ![r] = q]
  BY <1>1 DEF Check
<1> QED
  BY <1>2, <1>3

\* An answer that sets no cookie, or clears it.
LEMMA PlainAnswer ==
  ASSUME HttpInv, NEW r \in Request, NEW status \in Status, NEW set \in {-1, 0},
         Answer(r, status, set), UNCHANGED <<jar, sessions>>,
         trouble' \in BOOLEAN, trouble => trouble',
         req[r].set = -1 \/ trouble',
         set = 0 => req[r].kind = "logout",
         req[r].kind = "logout" /\ status = "ok" => Over(req[r])
  PROVE  HttpInv'
<1>1. TypeOK /\ Presented(r)
  BY DEF HttpInv
<1>2. PICK q \in RequestType :
        /\ req' = [req EXCEPT ![r] = q]
        /\ q.phase = "answered" /\ q.status = status /\ q.set = set
        /\ q.kind = req[r].kind /\ q.user = req[r].user
        /\ q.cookie = req[r].cookie /\ q.passed = req[r].passed
  BY <1>1, AnswerFacts
<1>3. /\ q.kind = "login" => q.user \in User
      /\ q.kind = "session" => q.set = -1
      /\ Over(req[r]) => Over(q)
  BY <1>1, <1>2 DEF Presented, Over
<1> QED
  BY <1>1, <1>2, <1>3, RequestFrame

LEMMA QuietAnswer ==
  ASSUME HttpInv, NEW r \in Request, NEW status \in Status,
         Answer(r, status, -1), UNCHANGED <<jar, sessions>>,
         trouble' \in BOOLEAN, trouble => trouble',
         req[r].set = -1 \/ trouble',
         req[r].kind = "logout" /\ status = "ok" => Over(req[r])
  PROVE  HttpInv'
<1> DEFINE set == -1
<1>1. set \in {-1, 0} /\ set # 0 /\ Answer(r, status, set)
  OBVIOUS
<1> HIDE DEF set
<1> QED
  BY <1>1, PlainAnswer

LEMMA CheckStep ==
  ASSUME HttpInv, NEW r \in Request, req[r].phase = "sent", Check(r),
         req[r].kind = "login" \/ Live(req[r].cookie)
  PROVE  HttpInv'
<1>1. TypeOK /\ Presented(r)
  BY DEF HttpInv
<1>2. PICK q \in RequestType :
        /\ req' = [req EXCEPT ![r] = q]
        /\ q.phase = "checked" /\ q.status = req[r].status /\ q.set = req[r].set
        /\ q.kind = req[r].kind /\ q.user = req[r].user
        /\ q.cookie = req[r].cookie
  BY <1>1, CheckFacts
<1>3. /\ q.kind = "login" => q.user \in User
      /\ q.set = -1 /\ req[r].set = -1
      /\ q.kind \in {"renew", "logout"} => q.cookie \in Created
  BY <1>1, <1>2 DEF Presented, Live
<1>4. UNCHANGED <<jar, sessions, trouble>> /\ trouble \in BOOLEAN
  BY <1>1 DEF Check, TypeOK
<1> QED
  BY <1>1, <1>2, <1>3, <1>4, RequestFrame

LEMMA SendStep ==
  ASSUME HttpInv, NEW r \in Request, NEW kind \in Kind, NEW user \in User \cup {Free.user},
         NEW csrf, Send(r, kind, user, csrf), kind = "login" => user \in User
  PROVE  HttpInv'
<1>1. TypeOK /\ Presented(r)
  BY DEF HttpInv
<1> DEFINE q == [Free EXCEPT !.phase = "sent", !.kind = kind, !.user = user,
                             !.cookie = jar, !.csrf = (csrf = jar)]
<1>2. /\ q \in RequestType /\ q.phase = "sent" /\ q.kind = kind /\ q.user = user
      /\ q.cookie = jar /\ q.set = -1 /\ ~q.passed
  <2>1. jar \in Nat
    BY <1>1, Lengths DEF TypeOK
  <2> QED
    BY <2>1, FreeFacts DEF RequestType
<1>3. req' = [req EXCEPT ![r] = q] /\ UNCHANGED <<jar, sessions, trouble>>
  BY DEF Send
<1>4. req[r].set = -1 /\ trouble \in BOOLEAN
  BY <1>1 DEF Send, Presented, TypeOK
<1> HIDE DEF q
<1> QED
  BY <1>1, <1>2, <1>3, <1>4, RequestFrame

LEMMA AbandonStep ==
  ASSUME HttpInv, NEW r \in Request, Abandon(r)
  PROVE  HttpInv'
<1>1. TypeOK /\ Presented(r)
  BY DEF HttpInv
<1>2. /\ req[r].set = -1 /\ req' = [req EXCEPT ![r] = Free]
      /\ UNCHANGED <<jar, sessions, trouble>> /\ trouble \in BOOLEAN
  BY <1>1 DEF Abandon, Presented, TypeOK
<1> QED
  BY <1>2, FreeFacts, RequestFrame

\* The steps of the handlers that change no session, and what goes wrong.
LEMMA PlainSteps ==
  ASSUME HttpInv, NEW r \in Request,
         \/ Renew(r) \/ Login(r) \/ Logout(r) \/ Session(r)
         \/ ServerError(r) \/ Lose(r)
  PROVE  HttpInv'
<1>1. TypeOK /\ Presented(r) /\ trouble \in BOOLEAN
  BY DEF HttpInv, TypeOK
<1>2. {"ok", "authentication required", "csrf", "refused", "error", "lost"} \subseteq Status
  BY DEF Status
<1>3. ASSUME NEW status \in Status \ {"ok"}, req[r].phase \in {"sent", "checked"},
             Refuse(r, status)
      PROVE  HttpInv'
  BY <1>1, <1>3, QuietAnswer DEF Refuse, Presented
<1>4. CASE Renew(r)
  BY <1>2, <1>3, <1>4, CheckStep DEF Renew, At
<1>5. CASE Login(r)
  BY <1>2, <1>3, <1>5, CheckStep DEF Login, At
<1>6. CASE Logout(r)
  <2>1. CASE ~Live(req[r].cookie) /\ Answer(r, "ok", 0) /\ UNCHANGED <<sessions, jar, trouble>>
    <3>1. req[r].kind = "logout" /\ req[r].set = -1
      BY <1>1, <1>6 DEF Logout, At, Presented
    <3>2. /\ Answer(r, "ok", 0) /\ UNCHANGED <<jar, sessions>> /\ trouble' = trouble
          /\ Over(req[r])
      <4>1. req[r].phase = "sent" /\ ~req[r].passed
        BY <1>1, <1>6 DEF Logout, At, Presented
      <4>2. Over(req[r])
        BY <2>1, <4>1 DEF Over, Live
      <4> QED
        BY <2>1, <4>2
    <3> QED
      BY <1>1, <1>2, <3>1, <3>2, PlainAnswer
  <2> QED
    BY <1>2, <1>3, <1>6, <2>1, CheckStep DEF Logout, At
<1>7. CASE Session(r)
  <2>1. CASE Live(req[r].cookie)
    <3>1. /\ Answer(r, "ok", -1) /\ UNCHANGED <<jar, sessions>> /\ trouble' = trouble
          /\ req[r].kind # "logout" /\ req[r].set = -1
      BY <1>1, <1>7, <2>1 DEF Session, At, Refuse, Presented
    <3> QED
      BY <1>1, <1>2, <3>1, QuietAnswer
  <2> QED
    BY <1>2, <1>3, <1>7, <2>1 DEF Session, At
<1>8. CASE ServerError(r)
  <2> DEFINE set == IF At(r, "logout", "checked") THEN 0 ELSE -1
  <2>1. Answer(r, "error", set) /\ trouble' = TRUE /\ UNCHANGED <<jar, sessions>>
    BY <1>8 DEF ServerError
  <2>2. set \in {-1, 0} /\ (set = 0 => req[r].kind = "logout")
    BY DEF At
  <2> HIDE DEF set
  <2> QED
    BY <1>2, <2>1, <2>2, PlainAnswer
<1>9. CASE Lose(r)
  <2>1. Answer(r, "lost", -1) /\ trouble' = TRUE /\ UNCHANGED <<jar, sessions>>
    BY <1>9 DEF Lose
  <2> QED
    BY <1>2, <2>1, QuietAnswer
<1> QED
  BY <1>4, <1>5, <1>6, <1>7, <1>8, <1>9

\* A session's status changes, and nothing else of it.
LEMMA PutFacts ==
  ASSUME TypeOK, NEW t \in Created, NEW status \in SessionStatus
  PROVE  LET base == Put(t, status) IN
         /\ base \in Seq(SessionType) /\ Len(base) = Len(sessions)
         /\ \A n \in Created : /\ base[n].parent = sessions[n].parent
                               /\ base[n].user = sessions[n].user
                               /\ n # t => base[n] = sessions[n]
         /\ base[t].status = status
<1>1. /\ sessions \in Seq(SessionType) /\ Created = 1 .. Len(sessions)
      /\ sessions[t] \in SessionType
  BY Lengths DEF TypeOK
<1> DEFINE row == [sessions[t] EXCEPT !.status = status]
<1>2. /\ row \in SessionType /\ row.status = status
      /\ row.parent = sessions[t].parent /\ row.user = sessions[t].user
  BY <1>1 DEF SessionType
<1> DEFINE base == Put(t, status)
<1>3. base = [sessions EXCEPT ![t] = row]
  BY DEF Put
<1> HIDE DEF row, base
<1>4. /\ base \in Seq(SessionType) /\ Len(base) = Len(sessions)
      /\ base[t] = row /\ \A n \in Created : n # t => base[n] = sessions[n]
  BY <1>1, <1>2, <1>3
<1> QED
  BY <1>2, <1>4 DEF base

\* A session is not live again as it was created, nor is a revocation undone.
Grows ==
  /\ Len(sessions') >= Len(sessions)
  /\ \A n \in Created :
       /\ sessions'[n].status = "live" => sessions[n].status = "live"
       /\ sessions[n].status = "revoked" => sessions'[n].status = "revoked"

LEMMA OverStays ==
  ASSUME HttpInv, Grows, Len(sessions') \in Nat, NEW r \in Request, Over(req[r]),
         req'[r] = req[r]
  PROVE  Over(req[r])'
<1>1. /\ Len(sessions) \in Nat /\ Created = 1 .. Len(sessions)
      /\ req[r].cookie \in Nat /\ req[r].cookie <= Len(sessions)
  BY Lengths DEF HttpInv, Presented
<1>2. PICK c \in Nat : c = req[r].cookie
  BY <1>1
<1>3. c \in Created' => c \in Created
  BY <1>1, <1>2 DEF Created
<1> QED
  BY <1>2, <1>3 DEF Over, Grows

\* A handler issues a session, ending perhaps the one it was asked with.
LEMMA Issued ==
  ASSUME HttpInv, NEW r \in Request, NEW base \in Seq(SessionType),
         Len(base) = Len(sessions), NEW user \in User,
         NEW parent \in {0, req[r].cookie}, req[r].phase = "checked",
         req[r].kind # "logout", req[r].kind # "session",
         \A n \in Created : /\ base[n].parent = sessions[n].parent
                            /\ base[n].status \in {"revoked", sessions[n].status}
                            /\ n # req[r].cookie => base[n] = sessions[n],
         sessions' = Append(base, New(user, parent)),
         Answer(r, "ok", Len(sessions) + 1), UNCHANGED <<jar, trouble>>
  PROVE  HttpInv'
<1> DEFINE new == Len(sessions) + 1
<1>1. /\ TypeOK /\ ParentsOlder /\ LogoutRevokes
      /\ \A s \in Request : Presented(s) /\ Undelivered(s)
      /\ Len(sessions) \in Nat /\ Created = 1 .. Len(sessions)
  BY Lengths DEF HttpInv
<1>2. /\ New(user, parent) \in SessionType /\ parent \in 0 .. Len(sessions)
      /\ New(user, parent).parent = parent /\ New(user, parent).status = "live"
  <2>1. parent \in 0 .. Len(sessions)
    BY <1>1, Lengths DEF Presented
  <2> QED
    BY <1>1, <2>1 DEF New, SessionType, SessionStatus
<1>3. /\ sessions' \in Seq(SessionType) /\ Len(sessions)' = new
      /\ Created' = 1 .. new
      /\ sessions'[new] = New(user, parent)
      /\ \A n \in Created : sessions'[n] = base[n]
  BY <1>1, <1>2 DEF Created
<1>4. /\ Grows
      /\ \A n \in Nat : n = new => Live(n)'
      /\ \A n \in Created : n # req[r].cookie /\ Live(n) => Live(n)'
  BY <1>1, <1>2, <1>3 DEF Live, Grows
<1>5. "ok" \in Status /\ new \in Nat \cup {-1}
  BY <1>1 DEF Status
<1>6. PICK q \in RequestType :
        /\ req' = [req EXCEPT ![r] = q]
        /\ q.phase = "answered" /\ q.status = "ok" /\ q.set = new
        /\ q.kind = req[r].kind /\ q.user = req[r].user
        /\ q.cookie = req[r].cookie /\ q.passed = req[r].passed
  BY <1>1, <1>5, AnswerFacts
<1>7. /\ req'[r] = q /\ \A s \in Request \ {r} : req'[s] = req[s]
      /\ req' \in [Request -> RequestType]
      /\ \A s \in Request : req'[s].cookie = req[s].cookie
  BY <1>1, <1>6 DEF TypeOK
<1> HIDE DEF new
<1>8. new = Len(sessions) + 1
  BY DEF new
<1>9. TypeOK'
  BY <1>1, <1>3, <1>7, <1>8 DEF TypeOK
<1>10. ParentsOlder'
  BY <1>1, <1>2, <1>3, <1>8 DEF ParentsOlder
<1>11. JarWillMove'
  BY <1>1, <1>6, <1>7, <1>8 DEF JarWillMove
<1>12. LogoutRevokes'
  <2>1. ASSUME NEW s \in Request, s # r, Answered(s, "logout")', req'[s].status = "ok"
        PROVE  Over(req[s])'
    <3>1. req'[s] = req[s] /\ Over(req[s])
      BY <1>1, <1>7, <2>1 DEF LogoutRevokes, Answered
    <3> QED
      BY <1>1, <1>3, <1>4, <1>8, <3>1, OverStays
  <2>2. ~Answered(r, "logout")'
    BY <1>6, <1>7 DEF Answered
  <2> QED
    BY <2>1, <2>2 DEF LogoutRevokes
<1>13. ASSUME NEW s \in Request PROVE Presented(s)'
  <2>1. Presented(s) /\ (s = r /\ req[r].kind = "login" => req[r].user \in User)
    BY <1>1 DEF Presented
  <2>2. req[s].set <= new /\ req[s].cookie <= new
    BY <1>1, <1>8, <2>1, Lengths DEF Presented
  <2>3. CASE s = r
    BY <1>3, <1>6, <1>7, <1>8, <1>1, <2>1, <2>2, <2>3 DEF Presented
  <2>4. CASE s # r
    <3>1. req'[s] = req[s]
      BY <1>7, <2>4
    <3> QED
      BY <1>1, <1>3, <1>8, <2>1, <2>2, <3>1 DEF Presented
  <2> QED
    BY <2>3, <2>4
<1>14. ASSUME NEW s \in Request PROVE Undelivered(s)'
  <2>1. CASE s = r
    <3>1. req'[s].set = new /\ jar' # new /\ jar' = jar
      BY <1>1, <1>6, <1>7, <1>8, <2>1 DEF TypeOK
    <3>2. PICK n \in Nat : n = new
      BY <1>1, <1>8
    <3>3. Live(n)'
      BY <1>4, <3>2
    <3>4. \A p \in Request : req'[p].cookie # new /\ (p # r => req'[p].set # new)
      <4>1. \A p \in Request : req[p].cookie <= Len(sessions) /\ req[p].set <= Len(sessions)
        BY <1>1 DEF Presented
      <4>2. \A p \in Request : req[p].cookie \in Int /\ req[p].set \in Int
        BY <1>1, Lengths
      <4> QED
        BY <1>1, <1>7, <1>8, <4>1, <4>2
    <3>5. \A m \in Created' : sessions'[m].parent # new
      BY <1>1, <1>2, <1>3, <1>8, <1>10 DEF ParentsOlder
    <3> QED
      BY <2>1, <3>1, <3>2, <3>3, <3>4, <3>5 DEF Undelivered
  <2>2. CASE s # r
    <3>1. req'[s] = req[s]
      BY <1>7, <2>2
    <3>2. CASE ~(req[s].set > 0)
      BY <3>1, <3>2 DEF Undelivered
    <3>3. CASE req[s].set > 0
      <4>1. PICK t \in Nat : t = req[s].set
        BY <1>1, <3>3, Lengths
      <4>2. /\ t > 0 /\ jar # t /\ (~trouble => Live(t)) /\ t \in Created /\ t # new
            /\ \A p \in Request : req[p].cookie # t /\ (p # s => req[p].set # t)
            /\ \A n \in Created : sessions[n].parent # t
        BY <1>1, <1>8, <3>3, <4>1 DEF Undelivered, Presented
      <4>3. ~trouble' => Live(t)'
        BY <1>4, <4>2
      <4>4. \A p \in Request : req'[p].cookie # t /\ (p # s => req'[p].set # t)
        BY <1>6, <1>7, <4>2
      <4>5. parent # t
        BY <4>2
      <4>6. \A n \in Created' : sessions'[n].parent # t
        BY <1>1, <1>2, <1>3, <1>8, <4>2, <4>5
      <4> QED
        BY <3>1, <4>1, <4>2, <4>3, <4>4, <4>6 DEF Undelivered
    <3> QED
      BY <3>2, <3>3
  <2> QED
    BY <2>1, <2>2
<1> QED
  BY <1>9, <1>10, <1>11, <1>12, <1>13, <1>14 DEF HttpInv

\* A session ceases to be as it was created, and what requests know of it changes
\* no more than that.
LEMMA Turns ==
  ASSUME HttpInv, NEW t \in Created, NEW status \in SessionStatus \ {"live"},
         sessions' = Put(t, status), sessions[t].status = "revoked" => status = "revoked"
  PROVE  /\ sessions' \in Seq(SessionType) /\ Len(sessions)' = Len(sessions)
         /\ Created' = Created /\ ParentsOlder' /\ Grows
         /\ \A n \in Created : sessions'[n].parent = sessions[n].parent
         /\ \A n : n # t => (Live(n)' <=> Live(n))
         /\ sessions'[t].status = status
<1>1. TypeOK /\ ParentsOlder /\ Len(sessions) \in Nat
  BY Lengths DEF HttpInv
<1>2. /\ sessions' \in Seq(SessionType) /\ Len(sessions') = Len(sessions)
      /\ \A n \in Created : /\ sessions'[n].parent = sessions[n].parent
                            /\ n # t => sessions'[n] = sessions[n]
      /\ sessions'[t].status = status
  <2> DEFINE base == Put(t, status)
  <2>1. /\ base \in Seq(SessionType) /\ Len(base) = Len(sessions)
        /\ \A n \in Created : /\ base[n].parent = sessions[n].parent
                              /\ n # t => base[n] = sessions[n]
        /\ base[t].status = status
    BY <1>1, PutFacts
  <2> QED
    BY <1>1, <2>1
<1> QED
  BY <1>1, <1>2 DEF Live, Created, ParentsOlder, Grows

LEMMA ExecuteLogoutStep ==
  ASSUME HttpInv, NEW r \in Request, ExecuteLogout(r)
  PROVE  HttpInv'
<1>1. /\ TypeOK /\ JarWillMove /\ LogoutRevokes
      /\ \A s \in Request : Presented(s) /\ Undelivered(s)
      /\ req[r].kind = "logout" /\ req[r].phase = "checked"
      /\ UNCHANGED <<jar, trouble>> /\ Answer(r, "ok", 0)
  BY DEF HttpInv, ExecuteLogout, At
<1>2. PICK t \in Created : t = req[r].cookie
  BY <1>1 DEF Presented
<1>3. /\ sessions' \in Seq(SessionType) /\ Len(sessions)' = Len(sessions)
      /\ Created' = Created /\ ParentsOlder'
      /\ \A n \in Created : sessions'[n].parent = sessions[n].parent
      /\ Grows /\ \A n : n # t => (Live(n)' <=> Live(n))
      /\ sessions'[t].status = "revoked"
  <2>1. sessions' = Put(t, "revoked") /\ "revoked" \in SessionStatus \ {"live"}
    BY <1>1, <1>2 DEF ExecuteLogout, Revoke, SessionStatus
  <2> QED
    BY <1>2, <2>1, Turns
<1>4. PICK q \in RequestType :
        /\ req' = [req EXCEPT ![r] = q]
        /\ q.phase = "answered" /\ q.status = "ok" /\ q.set = 0
        /\ q.kind = req[r].kind /\ q.user = req[r].user
        /\ q.cookie = req[r].cookie /\ q.passed = req[r].passed
  <2>1. "ok" \in Status /\ 0 \in Nat \cup {-1}
    BY DEF Status
  <2> QED
    BY <1>1, <2>1, AnswerFacts
<1>5. /\ req'[r] = q /\ \A s \in Request \ {r} : req'[s] = req[s]
      /\ req' \in [Request -> RequestType]
      /\ \A s \in Request : req'[s].cookie = req[s].cookie
  BY <1>1, <1>4 DEF TypeOK
<1>6. TypeOK' /\ JarWillMove'
  BY <1>1, <1>3, <1>4, <1>5 DEF TypeOK, JarWillMove
<1>7. LogoutRevokes'
  <2>1. ASSUME NEW s \in Request \ {r}, Answered(s, "logout")', req'[s].status = "ok"
        PROVE  Over(req[s])'
    <3>1. req'[s] = req[s] /\ Over(req[s])
      BY <1>1, <1>5, <2>1 DEF LogoutRevokes, Answered
    <3> QED
      BY <1>1, <1>3, <3>1, OverStays, Lengths
  <2>2. Over(req[r])'
    BY <1>2, <1>3, <1>4, <1>5 DEF Over
  <2> QED
    BY <2>1, <2>2 DEF LogoutRevokes
<1>8. ASSUME NEW s \in Request PROVE Presented(s)'
  <2>1. CASE s = r
    BY <1>1, <1>3, <1>4, <1>5, <2>1, Lengths DEF Presented
  <2>2. CASE s # r
    BY <1>1, <1>3, <1>5, <2>2 DEF Presented
  <2> QED
    BY <2>1, <2>2
<1>9. ASSUME NEW s \in Request PROVE Undelivered(s)'
  <2>1. CASE s = r
    BY <1>4, <1>5, <2>1 DEF Undelivered
  <2>2. CASE s # r
    <3>1. PICK n \in Nat \cup {-1} : n = req[s].set
      BY <1>1, Lengths
    <3>2. n > 0 => /\ jar # n /\ (~trouble => Live(n)) /\ n # t
                   /\ \A p \in Request : req[p].cookie # n /\ (p # s => req[p].set # n)
                   /\ \A m \in Created : sessions[m].parent # n
      BY <1>1, <1>2, <3>1 DEF Undelivered
    <3>3. \A p \in Request : n > 0 /\ p # s => req'[p].set # n
      BY <1>4, <1>5, <3>2
    <3> QED
      BY <1>1, <1>3, <1>5, <2>2, <3>1, <3>2, <3>3 DEF Undelivered
  <2> QED
    BY <2>1, <2>2
<1> QED
  BY <1>3, <1>6, <1>7, <1>8, <1>9 DEF HttpInv

LEMMA DeadlineStep ==
  ASSUME HttpInv, NEW t \in Created, Lapse(t) \/ Resume(t)
  PROVE  HttpInv'
<1>1. /\ TypeOK /\ LogoutRevokes
      /\ \A s \in Request : Presented(s) /\ Undelivered(s)
      /\ UNCHANGED <<jar, req>> /\ trouble' = TRUE
  BY DEF HttpInv, Lapse, Resume, Turn
<1>2. PICK status \in SessionStatus \ {"live"} : sessions' = Put(t, status)
  BY DEF Lapse, Resume, Turn, SessionStatus
<1>3. sessions[t].status # "revoked"
  BY DEF Lapse, Resume, Live
<1>4. /\ sessions' \in Seq(SessionType) /\ Len(sessions)' = Len(sessions)
      /\ Created' = Created /\ ParentsOlder' /\ Grows
      /\ \A n \in Created : sessions'[n].parent = sessions[n].parent
  BY <1>2, <1>3, Turns
<1>5. TypeOK' /\ JarWillMove'
  BY <1>1, <1>4 DEF TypeOK, JarWillMove
<1>6. LogoutRevokes'
  <2>1. ASSUME NEW s \in Request, Over(req[s])
        PROVE  Over(req[s])'
    BY <1>1, <1>4, <2>1, OverStays, Lengths
  <2> QED
    BY <1>1, <2>1 DEF LogoutRevokes, Answered
<1>7. ASSUME NEW s \in Request PROVE Presented(s)' /\ Undelivered(s)'
  BY <1>1, <1>4 DEF Presented, Undelivered
<1> QED
  BY <1>4, <1>5, <1>6, <1>7 DEF HttpInv

LEMMA ReceiveStep ==
  ASSUME HttpInv, NEW r \in Request, Receive(r)
  PROVE  HttpInv'
<1> DEFINE t == req[r].set
<1>1. /\ TypeOK /\ ParentsOlder /\ JarWillMove /\ LogoutRevokes
      /\ \A s \in Request : Presented(s) /\ Undelivered(s)
      /\ UNCHANGED <<sessions, trouble>> /\ req' = [req EXCEPT ![r] = Free]
      /\ jar' = IF t = -1 THEN jar ELSE t
  BY DEF HttpInv, Receive
<1>2. /\ req'[r] = Free /\ \A s \in Request \ {r} : req'[s] = req[s]
      /\ req' \in [Request -> RequestType]
      /\ t \in Nat \cup {-1} /\ t <= Len(sessions) /\ Len(sessions) \in Nat
  BY <1>1, FreeFacts, Lengths DEF TypeOK, Presented
<1>3. TypeOK'
  BY <1>1, <1>2 DEF TypeOK
<1>4. ParentsOlder' /\ \A n : Live(n)' <=> Live(n)
  BY <1>1 DEF ParentsOlder, Live, Created
<1>5. JarWillMove'
  <2>1. CASE t = -1
    <3>1. \A s \in Request : req[s].set # -1 => req'[s].set # -1
      BY <1>2, <2>1
    <3> QED
      BY <1>1, <1>4, <2>1, <3>1 DEF JarWillMove, Live, Created
  <2>2. CASE t = 0
    BY <1>1, <2>2 DEF JarWillMove
  <2>3. CASE t > 0
    BY <1>1, <2>3 DEF JarWillMove, Undelivered, Live, Created
  <2> QED
    BY <1>2, <2>1, <2>2, <2>3
<1>6. LogoutRevokes'
  <2>1. \A s \in Request : Answered(s, "logout")' => s # r
    BY <1>2, FreeFacts DEF Answered
  <2>2. \A s \in Request \ {r} :
          Answered(s, "logout")' /\ req'[s].status = "ok" => Over(req[s])'
    BY <1>1, <1>2 DEF LogoutRevokes, Answered, Over, Created
  <2> QED
    BY <2>1, <2>2 DEF LogoutRevokes
<1>7. ASSUME NEW s \in Request PROVE Presented(s)' /\ Undelivered(s)'
  <2>1. CASE s = r
    BY <1>2, <1>1, <2>1, FreeFacts DEF Presented, Undelivered
  <2>2. CASE s # r
    <3>1. Presented(s)'
      BY <1>1, <1>2, <2>2 DEF Presented, Created
    <3>2. PICK n \in Nat \cup {-1} : n = req[s].set
      BY <1>1, Lengths
    <3>3. n > 0 => /\ jar # n /\ (~trouble => Live(n)) /\ t # n
                   /\ \A p \in Request : req[p].cookie # n /\ (p # s => req[p].set # n)
                   /\ \A m \in Created : sessions[m].parent # n
      BY <1>1, <2>2, <3>2 DEF Undelivered
    <3>4. n > 0 => \A p \in Request : req'[p].cookie # n /\ (p # s => req'[p].set # n)
      BY <1>2, <3>3, FreeFacts
    <3>5. n > 0 => jar' # n
      BY <1>1, <3>3
    <3> QED
      BY <1>1, <1>2, <1>4, <2>2, <3>1, <3>2, <3>3, <3>4, <3>5 DEF Undelivered, Created
  <2> QED
    BY <2>1, <2>2
<1> QED
  BY <1>3, <1>4, <1>5, <1>6, <1>7 DEF HttpInv

LEMMA ExpireCookieStep ==
  ASSUME HttpInv, ExpireCookie
  PROVE  HttpInv'
<1>1. /\ TypeOK /\ ParentsOlder /\ LogoutRevokes
      /\ \A s \in Request : Presented(s) /\ Undelivered(s)
      /\ UNCHANGED <<sessions, req, trouble>> /\ jar' = 0
  BY DEF HttpInv, ExpireCookie
<1>2. TypeOK' /\ ParentsOlder' /\ JarWillMove'
  BY <1>1, Lengths DEF TypeOK, ParentsOlder, JarWillMove, Created
<1>3. LogoutRevokes'
  BY <1>1 DEF LogoutRevokes, Answered, Over, Created
<1>4. ASSUME NEW s \in Request PROVE Presented(s)' /\ Undelivered(s)'
  BY <1>1 DEF Presented, Undelivered, Live, Created
<1> QED
  BY <1>2, <1>3, <1>4 DEF HttpInv

LEMMA IssueSteps ==
  ASSUME HttpInv, NEW r \in Request, ExecuteRenewal(r) \/ ExecuteLogin(r)
  PROVE  HttpInv'
<1>1. /\ TypeOK /\ Presented(r) /\ sessions \in Seq(SessionType)
      /\ req[r].phase = "checked" /\ trouble \in BOOLEAN /\ req[r].set = -1
  BY DEF HttpInv, ExecuteRenewal, ExecuteLogin, At, TypeOK, Presented
<1>2. ASSUME NEW status \in {"refused", "authentication required"}, Refuse(r, status)
      PROVE  HttpInv'
  BY <1>1, <1>2, QuietAnswer DEF Refuse, Status
<1>3. CASE ExecuteLogin(r)
  <2>1. req[r].kind = "login" /\ req[r].user \in User
    BY <1>1, <1>3 DEF ExecuteLogin, At, Presented
  <2>2. CASE /\ sessions' = Append(sessions, New(req[r].user, 0))
             /\ Answer(r, "ok", Len(sessions) + 1) /\ UNCHANGED <<jar, trouble>>
    BY <1>1, <2>1, <2>2, Issued
  <2> QED
    BY <1>2, <1>3, <2>2 DEF ExecuteLogin
<1>4. CASE ExecuteRenewal(r)
  <2> DEFINE old == req[r].cookie
             base == Put(old, "revoked")
  <2>1. req[r].kind = "renew" /\ old \in Created
    BY <1>1, <1>4 DEF ExecuteRenewal, At, Presented
  <2>2. CASE /\ sessions' = Append(base, New(sessions[old].user, old))
             /\ Answer(r, "ok", Len(sessions) + 1) /\ UNCHANGED <<jar, trouble>>
    <3>1. /\ base \in Seq(SessionType) /\ Len(base) = Len(sessions)
          /\ \A n \in Created : /\ base[n].parent = sessions[n].parent
                                /\ base[n].status \in {"revoked", sessions[n].status}
                                /\ n # old => base[n] = sessions[n]
      BY <1>1, <2>1, PutFacts DEF SessionStatus
    <3>2. sessions[old].user \in User
      BY <1>1, <2>1, Lengths DEF SessionType
    <3> HIDE DEF base
    <3> QED
      BY <1>1, <2>1, <2>2, <3>1, <3>2, Issued
  <2> QED
    BY <1>2, <1>4, <2>2 DEF ExecuteRenewal, Revoke
<1> QED
  BY <1>3, <1>4

----------------------------------------------------------------------------
(* The invariant *)

LEMMA HttpStep == HttpInv /\ [Next]_vars => HttpInv'
<1> SUFFICES ASSUME HttpInv, [Next]_vars PROVE HttpInv'
  OBVIOUS
<1>1. CASE UNCHANGED vars
  BY <1>1 DEF vars, HttpInv, TypeOK, ParentsOlder, JarWillMove, LogoutRevokes,
     Answered, Over, Presented, Undelivered, Live, Created
<1>2. ASSUME NEW r \in Request, NEW u \in User, Send(r, "login", u, 0)
      PROVE  HttpInv'
  BY <1>2, SendStep DEF Kind
<1>3. ASSUME NEW r \in Request, NEW k \in {"renew", "logout"},
             NEW c \in 0 .. Len(sessions), Send(r, k, Free.user, c)
      PROVE  HttpInv'
  <2>1. k \in Kind
    BY DEF Kind
  <2> QED
    BY <1>3, <2>1, SendStep
<1>4. ASSUME NEW r \in Request, Send(r, "session", Free.user, 0)
      PROVE  HttpInv'
  BY <1>4, SendStep DEF Kind
<1>5. ASSUME NEW r \in Request,
             Abandon(r) \/ Handle(r) \/ ServerError(r) \/ Lose(r) \/ Receive(r)
      PROVE  HttpInv'
  BY <1>5, AbandonStep, PlainSteps, IssueSteps, ExecuteLogoutStep, ReceiveStep
  DEF Handle
<1>6. ASSUME NEW t \in Created, Lapse(t) \/ Resume(t)
      PROVE  HttpInv'
  BY <1>6, DeadlineStep
<1>7. CASE ExpireCookie
  BY <1>7, ExpireCookieStep
<1> QED
  BY <1>1, <1>2, <1>3, <1>4, <1>5, <1>6, <1>7 DEF Next

LEMMA HttpInit == Init => HttpInv
<1> SUFFICES ASSUME Init PROVE HttpInv
  OBVIOUS
<1>1. /\ jar = 0 /\ sessions = <<>> /\ trouble = FALSE
      /\ req = [r \in Request |-> Free] /\ \A r \in Request : req[r] = Free
  BY DEF Init
<1>2. Len(sessions) = 0 /\ Created = {} /\ sessions \in Seq(SessionType)
  BY <1>1 DEF Created
<1>3. TypeOK /\ ParentsOlder /\ JarWillMove
  <2>1. req \in [Request -> RequestType]
    BY <1>1, FreeFacts
  <2>2. jar = 0 /\ Len(sessions) = 0
    BY <1>1, <1>2
  <2>3. trouble \in BOOLEAN
    BY <1>1
  <2> QED
    BY <1>2, <2>1, <2>2, <2>3 DEF TypeOK, ParentsOlder, JarWillMove
<1>4. LogoutRevokes
  BY <1>1, FreeFacts DEF LogoutRevokes, Answered
<1>5. ASSUME NEW r \in Request PROVE Presented(r) /\ Undelivered(r)
  <2>1. /\ req[r].cookie = 0 /\ req[r].set = -1 /\ req[r].kind = "session"
        /\ req[r].phase = "free"
    BY <1>1, FreeFacts
  <2> QED
    BY <1>2, <2>1 DEF Presented, Undelivered
<1> QED
  BY <1>3, <1>4, <1>5 DEF HttpInv

\* In every reachable state a session whose answer is still under way is
\* nobody's, and what the jar holds is live or about to be replaced.
THEOREM HttpInvariance == Spec => []HttpInv
<1>1. Init => HttpInv
  BY HttpInit
<1>2. HttpInv /\ [Next]_vars => HttpInv'
  BY HttpStep
<1> QED
  BY <1>1, <1>2, PTL DEF Spec

----------------------------------------------------------------------------
(* What follows *)

\* Every answer in, the browser has the cookie of a live session or none.
THEOREM CookiesUsable == Spec => []CookieIsUsable
<1>1. ASSUME HttpInv, \A r \in Request : req[r].phase = "free", ~trouble
      PROVE  jar = 0 \/ Live(jar)
  <2>1. \A r \in Request : req[r].set = -1
    BY <1>1 DEF HttpInv, Presented
  <2> QED
    BY <1>1, <2>1 DEF HttpInv, JarWillMove
<1>2. HttpInv => CookieIsUsable
  BY <1>1 DEF CookieIsUsable
<1> QED
  BY <1>2, HttpInvariance, PTL

\* A logout that answers ok has revoked the session of its cookie, or did not find
\* it valid, and then only a late touch makes it valid again.
THEOREM LogoutsDone == Spec => []LogoutIsDone
<1>1. ASSUME HttpInv, NEW r \in Request, Answered(r, "logout"), req[r].status = "ok",
             Live(req[r].cookie)
      PROVE  ~req[r].passed /\ sessions[req[r].cookie].status = "resumed"
  BY <1>1 DEF HttpInv, LogoutRevokes, Over, Live
<1>2. HttpInv => LogoutIsDone
  BY <1>1 DEF LogoutIsDone
<1> QED
  BY <1>2, HttpInvariance, PTL

\* Only an answer puts a session into the jar.
LEMMA JarWriters ==
  ASSUME [Next]_vars, jar' # jar, jar' # 0
  PROVE  \E r \in Request : Receive(r) /\ jar' = req[r].set
<1>1. ASSUME NEW r \in Request, Handle(r) PROVE FALSE
  BY <1>1 DEF Handle, Renew, ExecuteRenewal, Login, ExecuteLogin, Logout,
     ExecuteLogout, Session, Refuse, Check
<1>2. ~(\E t \in Created : Lapse(t) \/ Resume(t)) /\ ~ExpireCookie /\ ~UNCHANGED vars
  BY DEF Lapse, Resume, Turn, ExpireCookie, vars
<1>3. \E r \in Request : Receive(r)
  BY <1>1, <1>2 DEF Next, Send, Abandon, ServerError, Lose
<1> QED
  BY <1>3 DEF Receive

\* The jar moves only to a session nobody knew of, none of its ancestors then.
THEOREM JarAdvances == Spec => JarMovesOn
<1>1. HttpInv /\ [Next]_vars =>
        [jar' # 0 => jar' \notin {Parent(jar), Parent(Parent(jar))}]_vars
  <2> SUFFICES ASSUME HttpInv, [Next]_vars, jar' # 0
               PROVE  jar' \notin {Parent(jar), Parent(Parent(jar))}
    OBVIOUS
  <2>1. /\ TypeOK /\ ParentsOlder /\ jar \in 0 .. Len(sessions)
        /\ Len(sessions) \in Nat /\ Created = 1 .. Len(sessions)
        /\ \A n \in Created : sessions[n].parent \in 0 .. Len(sessions)
    <3>1. TypeOK /\ ParentsOlder /\ jar \in 0 .. Len(sessions)
      BY DEF HttpInv, TypeOK
    <3> QED
      BY <3>1, Lengths DEF ParentsOlder
  <2>2. \A n \in 0 .. Len(sessions) :
          /\ Parent(n) \in 0 .. Len(sessions)
          /\ IF n = 0 THEN Parent(n) = 0 ELSE Parent(n) < n
          /\ Parent(n) = 0 \/ \E m \in Created : sessions[m].parent = Parent(n)
    BY <2>1 DEF Parent, ParentsOlder
  <2>3. CASE jar' = jar
    <3>1. Parent(jar) \in 0 .. Len(sessions) /\ Parent(jar) < jar
      BY <2>1, <2>2, <2>3
    <3>2. Parent(Parent(jar)) <= Parent(jar) /\ Parent(Parent(jar)) \in Int
      BY <2>1, <2>2, <3>1
    <3> HIDE DEF Parent
    <3> QED
      BY <2>1, <2>3, <3>1, <3>2
  <2>4. CASE jar' # jar
    <3>1. PICK r \in Request : Receive(r) /\ jar' = req[r].set
      BY <2>4, JarWriters
    <3>2. \A m \in Created : sessions[m].parent # jar'
      BY <2>1, <3>1, Lengths DEF HttpInv, Undelivered
    <3>3. Parent(jar) \in 0 .. Len(sessions) /\ Parent(jar) # jar'
      BY <2>1, <2>2, <3>2
    <3>4. Parent(Parent(jar)) # jar'
      BY <2>1, <2>2, <3>2, <3>3
    <3> QED
      BY <3>3, <3>4
  <2> QED
    BY <2>3, <2>4
<1> QED
  BY <1>1, HttpInvariance, PTL DEF Spec, JarMovesOn

----------------------------------------------------------------------------
(* The contract of sessions *)

LifeOf(row) ==
  [user |-> row.user, parent |-> IF row.parent = 0 THEN None ELSE row.parent,
   state |-> IF row.status = "revoked" THEN "ended" ELSE "open"]

\* The lives of this module's sessions, now and after a step.
LEMMA Lives ==
  /\ Life = [t \in 1 .. MaxSessions |->
               IF t \notin Created THEN None ELSE LifeOf(sessions[t])]
  /\ Life' = [t \in 1 .. MaxSessions |->
                IF t \notin Created' THEN None ELSE LifeOf(sessions'[t])]
BY DEF Life, LifeOf

\* A session there is has a life.
LEMMA Alive ==
  ASSUME TypeOK, ParentsOlder, NEW t \in 1 .. MaxSessions, t \in Created
  PROVE  Life[t] # None /\ Life[t] = LifeOf(sessions[t])
<1>1. /\ sessions[t] \in SessionType /\ sessions[t].parent \in Nat
      /\ sessions[t].parent < t /\ MaxSessions \in Nat /\ Len(sessions) \in Nat
  BY Lengths, HttpAssumption DEF ParentsOlder
<1>2. sessions[t].parent = 0 \/ sessions[t].parent \in 1 .. MaxSessions
  BY <1>1
<1>3. LifeOf(sessions[t]) \in Contract!Session
  BY <1>1, <1>2 DEF LifeOf, Contract!Session, SessionType
<1> QED
  BY <1>3, Lives, LifeAssumption

\* A login issues a session to its user.
LEMMA LoginIssues ==
  ASSUME HttpInv, NEW r \in Request, ExecuteLogin(r), sessions' # sessions
  PROVE  \E t \in 1 .. MaxSessions, u \in User : Contract!Issue(t, u)
<1>1. PICK n \in 1 .. MaxSessions, u \in User :
        /\ n = Len(sessions) + 1 /\ u = req[r].user
        /\ sessions' = Append(sessions, New(u, 0))
        /\ sessions \in Seq(SessionType) /\ Created = 1 .. Len(sessions)
        /\ Len(sessions) \in Nat
  <2>1. TypeOK /\ Presented(r) /\ MaxSessions \in Nat
    BY HttpAssumption DEF HttpInv
  <2>2. req[r].user \in User
    BY <2>1 DEF ExecuteLogin, At, Presented
  <2> QED
    BY <2>1, <2>2, Lengths DEF ExecuteLogin, Refuse, TypeOK
<1>2. /\ Created' = 1 .. n /\ sessions'[n] = New(u, 0)
      /\ \A t \in Created : sessions'[t] = sessions[t]
  <2>1. Len(sessions') = n /\ sessions'[n] = New(u, 0)
        /\ \A t \in 1 .. Len(sessions) : sessions'[t] = sessions[t]
    BY <1>1
  <2> QED
    BY <1>1, <2>1 DEF Created
<1>3. LifeOf(New(u, 0)) = Contract!Fresh(u, None)
  BY DEF LifeOf, New, Contract!Fresh
<1>4. Life[n] = None
  BY <1>1, Lives
<1>5. Life' = [Life EXCEPT ![n] = Contract!Fresh(u, None)]
  <2>1. \A t \in 1 .. MaxSessions : t \in Created' <=> t \in Created \/ t = n
    BY <1>1, <1>2
  <2> HIDE DEF Contract!Fresh
  <2> QED
    BY <1>1, <1>2, <1>3, <2>1, Lives
<1> QED
  BY <1>4, <1>5 DEF Contract!Issue

\* A renewal hands the session of its cookie over to a new one of its user.
LEMMA RenewalHandsOver ==
  ASSUME HttpInv, NEW r \in Request, ExecuteRenewal(r), sessions' # sessions
  PROVE  \E s, t \in 1 .. MaxSessions : Contract!HandOver(s, t)
<1>1. PICK n \in 1 .. MaxSessions, old \in 1 .. MaxSessions :
        /\ n = Len(sessions) + 1 /\ old \in Created /\ Live(old)
        /\ sessions' = Append(Put(old, "revoked"), New(sessions[old].user, old))
        /\ sessions \in Seq(SessionType) /\ Created = 1 .. Len(sessions)
        /\ Len(sessions) \in Nat /\ TypeOK /\ ParentsOlder
  <2>1. TypeOK /\ ParentsOlder /\ MaxSessions \in Nat
    BY HttpAssumption DEF HttpInv
  <2>2. /\ Live(req[r].cookie) /\ Len(sessions) < MaxSessions
        /\ sessions' = Append(Put(req[r].cookie, "revoked"),
                              New(sessions[req[r].cookie].user, req[r].cookie))
    BY DEF ExecuteRenewal, Refuse, Revoke
  <2>3. /\ sessions \in Seq(SessionType) /\ Created = 1 .. Len(sessions)
        /\ Len(sessions) \in Nat
    BY <2>1, Lengths DEF TypeOK
  <2>4. req[r].cookie \in Created /\ req[r].cookie \in 1 .. MaxSessions
    BY <2>1, <2>2, <2>3 DEF Live
  <2>5. Len(sessions) + 1 \in 1 .. MaxSessions
    BY <2>1, <2>2, <2>3
  <2> QED
    BY <2>1, <2>2, <2>3, <2>4, <2>5, Zenon
<1> DEFINE base == Put(old, "revoked")
           u == sessions[old].user
<1>2. /\ base \in Seq(SessionType) /\ Len(base) = Len(sessions)
      /\ \A t \in Created : /\ base[t].parent = sessions[t].parent
                            /\ base[t].user = sessions[t].user
                            /\ t # old => base[t] = sessions[t]
      /\ base[old].status = "revoked"
  BY <1>1, PutFacts DEF SessionStatus
<1> HIDE DEF base
<1>3. /\ Created' = 1 .. n /\ sessions'[n] = New(u, old)
      /\ \A t \in Created : sessions'[t] = base[t]
  <2>1. sessions' = Append(base, New(u, old))
    BY <1>1 DEF base
  <2>2. Len(sessions') = n /\ sessions'[n] = New(u, old)
        /\ \A t \in 1 .. Len(sessions) : sessions'[t] = base[t]
    BY <1>1, <1>2, <2>1
  <2> QED
    BY <1>1, <2>2 DEF Created
<1>4. /\ Life[old] # None /\ Life[old] = LifeOf(sessions[old])
      /\ Life[old].state = "open" /\ Life[old].user = u /\ Life[n] = None
  <2>1. Life[old] # None /\ Life[old] = LifeOf(sessions[old])
    BY <1>1, Alive
  <2>2. Life[n] = None
    BY <1>1, Lives
  <2> QED
    BY <1>1, <2>1, <2>2 DEF Live, LifeOf
<1>5. LifeOf(New(u, old)) = Contract!Fresh(Life[old].user, old)
  BY <1>1, <1>4 DEF LifeOf, New, Contract!Fresh
<1>6. LifeOf(base[old]) = [Life[old] EXCEPT !.state = "ended"]
  BY <1>1, <1>2, <1>4 DEF LifeOf
<1>7. Life' = [Life EXCEPT ![old].state = "ended",
                           ![n] = Contract!Fresh(Life[old].user, old)]
  <2> DEFINE fresh == Contract!Fresh(Life[old].user, old)
             gone == [Life[old] EXCEPT !.state = "ended"]
  <2>1. \A t \in 1 .. MaxSessions : t \in Created' <=> t \in Created \/ t = n
    BY <1>1, <1>3
  <2>2. \A t \in 1 .. MaxSessions :
          Life'[t] = IF t = n THEN fresh ELSE IF t = old THEN gone ELSE Life[t]
    BY <1>1, <1>2, <1>3, <1>5, <1>6, <2>1, Lives
  <2>3. [Life EXCEPT ![old].state = "ended", ![n] = fresh]
          = [t \in 1 .. MaxSessions |->
               IF t = n THEN fresh ELSE IF t = old THEN gone ELSE Life[t]]
    BY <1>1, Lives
  <2> HIDE DEF fresh, gone
  <2>4. Life' = [t \in 1 .. MaxSessions |->
               IF t = n THEN fresh ELSE IF t = old THEN gone ELSE Life[t]]
    BY <2>2, Lives
  <2> QED
    BY <2>3, <2>4 DEF fresh, gone
<1> QED
  BY <1>4, <1>7 DEF Contract!HandOver, Contract!Open

\* A logout ends at most the one session, for good.
LEMMA EndsOne ==
  ASSUME HttpInv, NEW t \in Created, sessions' = Put(t, "revoked")
  PROVE  Life' = Life \/ \E u \in User : Contract!End(u)
<1>1. /\ TypeOK /\ ParentsOlder
      /\ Len(sessions') = Len(sessions) /\ Created' = Created
      /\ \A n \in Created : /\ sessions'[n].parent = sessions[n].parent
                            /\ sessions'[n].user = sessions[n].user
                            /\ n # t => sessions'[n] = sessions[n]
      /\ sessions'[t].status = "revoked"
  <2>1. TypeOK /\ ParentsOlder
    BY DEF HttpInv
  <2> DEFINE base == Put(t, "revoked")
  <2>2. /\ Len(base) = Len(sessions)
        /\ \A n \in Created : /\ base[n].parent = sessions[n].parent
                              /\ base[n].user = sessions[n].user
                              /\ n # t => base[n] = sessions[n]
        /\ base[t].status = "revoked"
    BY <2>1, PutFacts DEF SessionStatus
  <2> QED
    BY <2>1, <2>2 DEF Created
<1>2. CASE t \notin 1 .. MaxSessions
  BY <1>1, <1>2, Lives
<1>3. CASE t \in 1 .. MaxSessions
  <2>1. Life[t] # None /\ Life[t] = LifeOf(sessions[t])
    BY <1>1, <1>3, Alive
  <2>2. LifeOf(sessions'[t]) = [Life[t] EXCEPT !.state = "ended"]
    BY <1>1, <2>1 DEF LifeOf
  <2>3. Life' = [n \in 1 .. MaxSessions |->
                   IF n \in {t} THEN [Life[n] EXCEPT !.state = "ended"] ELSE Life[n]]
    BY <1>1, <1>3, <2>2, Lives
  <2>4. CASE Life[t].state = "open"
    <3>1. sessions[t].user \in User /\ Life[t].user = sessions[t].user
      BY <1>1, <2>1, Lengths DEF SessionType, LifeOf
    <3>2. {t} \in SUBSET {n \in 1 .. MaxSessions :
                            Contract!Open(n) /\ Life[n].user = sessions[t].user}
      BY <1>3, <2>1, <2>4, <3>1 DEF Contract!Open
    <3>3. Contract!End(sessions[t].user)
      BY <2>3, <3>2 DEF Contract!End
    <3> QED
      BY <3>1, <3>3
  <2>5. CASE Life[t].state # "open"
    <3>1. LifeOf(sessions'[t]) = Life[t]
      BY <1>1, <2>1, <2>5 DEF LifeOf
    <3> QED
      BY <1>1, <1>3, <3>1, Lives
  <2> QED
    BY <2>4, <2>5
<1> QED
  BY <1>2, <1>3

\* A deadline, or a touch that comes after one, ends and revives none.
LEMMA DeadlinesEndNone ==
  ASSUME HttpInv, NEW t \in Created, Lapse(t) \/ Resume(t)
  PROVE  Life' = Life
<1>1. PICK status \in SessionStatus \ {"revoked"} : sessions' = Put(t, status)
  BY DEF Lapse, Resume, Turn, SessionStatus
<1>2. sessions[t].status # "revoked"
  BY DEF Lapse, Resume, Live
<1> DEFINE base == Put(t, status)
<1>3. /\ Len(base) = Len(sessions)
      /\ \A n \in Created : /\ base[n].parent = sessions[n].parent
                            /\ base[n].user = sessions[n].user
                            /\ n # t => base[n] = sessions[n]
      /\ base[t].status = status
  BY PutFacts DEF HttpInv
<1> HIDE DEF base
<1>4. sessions' = base /\ Created' = Created
  BY <1>1, <1>3 DEF base, Created
<1>5. \A n \in Created : LifeOf(sessions'[n]) = LifeOf(sessions[n])
  BY <1>2, <1>3, <1>4 DEF LifeOf
<1> QED
  BY <1>4, <1>5, Lives

LEMMA LifeStep ==
  ASSUME HttpInv, [Next]_vars
  PROVE  [Contract!Next]_Life
<1>1. sessions' = sessions => Life' = Life
  BY DEF Life, Created
<1>2. ASSUME NEW r \in Request, Handle(r), sessions' # sessions
      PROVE  [Contract!Next]_Life
  <2>1. ExecuteLogin(r) \/ ExecuteRenewal(r) \/ ExecuteLogout(r)
    BY <1>2 DEF Handle, Renew, Login, Logout, Session, Refuse, Check
  <2>2. CASE ExecuteLogin(r)
    BY <1>2, <2>2, LoginIssues DEF Contract!Next
  <2>3. CASE ExecuteRenewal(r)
    BY <1>2, <2>3, RenewalHandsOver DEF Contract!Next
  <2>4. CASE ExecuteLogout(r)
    <3>1. PICK t \in Created : t = req[r].cookie
      BY <2>4 DEF ExecuteLogout, At, HttpInv, Presented
    <3>2. sessions' = Put(t, "revoked")
      BY <2>4, <3>1 DEF ExecuteLogout, Revoke
    <3> QED
      BY <3>2, EndsOne DEF Contract!Next
  <2> QED
    BY <2>1, <2>2, <2>3, <2>4
<1>3. ASSUME NEW t \in Created, Lapse(t) \/ Resume(t)
      PROVE  [Contract!Next]_Life
  BY <1>3, DeadlinesEndNone
<1>4. CASE sessions' = sessions
  BY <1>1, <1>4
<1>5. CASE sessions' # sessions
  BY <1>2, <1>3, <1>5 DEF Next, Send, Abandon, ServerError, Lose, Receive,
     ExpireCookie, vars
<1> QED
  BY <1>4, <1>5

\* Requests handled and answered in any order, a session is issued once, handed
\* over at most once, to its own user, and never comes back.
THEOREM HttpKeepsContract == Spec => ContractSpec
<1>1. Init => Contract!Init
  <2> SUFFICES ASSUME Init PROVE Contract!Init
    OBVIOUS
  <2>1. Created = {}
    BY DEF Init, Created
  <2>2. Life = [t \in 1 .. MaxSessions |-> None]
    BY <2>1 DEF Life
  <2> QED
    BY <2>2 DEF Contract!Init
<1>2. HttpInv /\ [Next]_vars => [Contract!Next]_Life
  BY LifeStep
<1> QED
  BY <1>1, <1>2, HttpInvariance, PTL DEF Spec, ContractSpec, Contract!Spec

----------------------------------------------------------------------------
(* What a client sees of its requests *)

\* A request on its way keeps what the browser has put into it.
LEMMA Carried ==
  ASSUME HttpInv, NEW r \in Request, Handle(r) \/ ServerError(r) \/ Lose(r)
  PROVE  /\ \A s \in Request \ {r} : req'[s] = req[s]
         /\ req[r].phase # "free" /\ req'[r].phase \in {"checked", "answered"}
         /\ req'[r].kind = req[r].kind /\ req'[r].csrf = req[r].csrf
         /\ req'[r].cookie = req[r].cookie
         /\ req'[r].passed /\ req[r].kind = "logout" => req[r].passed \/ req[r].csrf
         /\ req'[r].phase = "checked" => req'[r].passed
         /\ Len(sessions') >= Len(sessions)
<1>1. /\ TypeOK /\ req \in [Request -> RequestType] /\ Len(sessions) \in Nat
      /\ sessions \in Seq(SessionType)
  BY Lengths DEF HttpInv, TypeOK
<1>2. req[r].phase # "free"
  BY DEF Handle, Renew, ExecuteRenewal, Login, ExecuteLogin, Logout,
     ExecuteLogout, Session, ServerError, Lose, At
<1>3. \/ \E status, set : Answer(r, status, set)
      \/ Check(r) /\ (req[r].kind = "logout" => CsrfVerified(r))
  BY DEF Handle, Renew, ExecuteRenewal, Login, ExecuteLogin, Logout,
     ExecuteLogout, Session, ServerError, Lose, At, Refuse
<1>4. \/ \E status, set : req' = [req EXCEPT ![r] =
              [req[r] EXCEPT !.phase = "answered", !.status = status, !.set = set]]
      \/ req' = [req EXCEPT ![r] = [req[r] EXCEPT !.phase = "checked", !.passed = TRUE]]
           /\ (req[r].kind = "logout" => CsrfVerified(r))
  <2>1. CASE \E status, set : Answer(r, status, set)
    <3>1. PICK status, set : Answer(r, status, set)
      BY <2>1
    <3>2. req' = [req EXCEPT ![r] =
              [req[r] EXCEPT !.phase = "answered", !.status = status, !.set = set]]
      BY <1>1, <3>1 DEF Answer, RequestType
    <3> QED
      BY <3>2
  <2>2. CASE Check(r) /\ (req[r].kind = "logout" => CsrfVerified(r))
    BY <1>1, <2>2 DEF Check, RequestType
  <2> QED
    BY <1>3, <2>1, <2>2
<1>5. req[r] \in RequestType
  BY <1>1
<1>6. Len(sessions') >= Len(sessions)
  <2>1. CASE sessions' = sessions
    BY <1>1, <2>1
  <2>2. CASE ExecuteLogout(r)
    BY <1>1, <2>2 DEF ExecuteLogout, Revoke, Put
  <2>3. CASE \E base, row : base \in Seq(SessionType) /\ Len(base) = Len(sessions)
                            /\ sessions' = Append(base, row)
    <3>1. PICK base, row : base \in Seq(SessionType) /\ Len(base) = Len(sessions)
                            /\ sessions' = Append(base, row)
      BY <2>3
    <3> QED
      BY <1>1, <3>1
  <2>4. ExecuteRenewal(r) => \/ sessions' = sessions
                             \/ \E base, row : base \in Seq(SessionType)
                                  /\ Len(base) = Len(sessions)
                                  /\ sessions' = Append(base, row)
    <3> SUFFICES ASSUME ExecuteRenewal(r), sessions' # sessions
                 PROVE  \E base, row : base \in Seq(SessionType)
                                  /\ Len(base) = Len(sessions)
                                  /\ sessions' = Append(base, row)
      OBVIOUS
    <3>1. /\ req[r].cookie \in Created
          /\ sessions' = Append(Put(req[r].cookie, "revoked"),
               New(sessions[req[r].cookie].user, req[r].cookie))
      BY DEF ExecuteRenewal, Revoke, Refuse, Live
    <3>2. /\ Put(req[r].cookie, "revoked") \in Seq(SessionType)
          /\ Len(Put(req[r].cookie, "revoked")) = Len(sessions)
      BY <1>1, <3>1, PutFacts DEF SessionStatus
    <3> QED
      BY <3>1, <3>2
  <2>5. ExecuteLogin(r) => \/ sessions' = sessions
                           \/ \E base, row : base \in Seq(SessionType)
                                  /\ Len(base) = Len(sessions)
                                  /\ sessions' = Append(base, row)
    BY <1>1 DEF ExecuteLogin, Refuse
  <2> QED
    BY <2>1, <2>2, <2>3, <2>4, <2>5 DEF Handle, Renew, Login, Logout, Session,
       ServerError, Lose, Refuse, Check
<1>7. CASE \E status, set : req' = [req EXCEPT ![r] =
              [req[r] EXCEPT !.phase = "answered", !.status = status, !.set = set]]
  <2>1. PICK status, set : req' = [req EXCEPT ![r] =
              [req[r] EXCEPT !.phase = "answered", !.status = status, !.set = set]]
    BY <1>7
  <2>2. req'[r] = [req[r] EXCEPT !.phase = "answered", !.status = status, !.set = set]
    BY <1>1, <2>1
  <2>3. \A s \in Request \ {r} : req'[s] = req[s]
    BY <1>1, <2>1
  <2> QED
    BY <1>2, <1>5, <1>6, <2>2, <2>3 DEF RequestType
<1>8. CASE req' = [req EXCEPT ![r] = [req[r] EXCEPT !.phase = "checked", !.passed = TRUE]]
           /\ (req[r].kind = "logout" => CsrfVerified(r))
  <2>1. req'[r] = [req[r] EXCEPT !.phase = "checked", !.passed = TRUE]
    BY <1>1, <1>8
  <2>2. \A s \in Request \ {r} : req'[s] = req[s]
    BY <1>1, <1>8
  <2>3. req[r].kind = "logout" => req[r].csrf
    BY <1>8 DEF CsrfVerified
  <2>4. /\ req'[r].phase = "checked" /\ req'[r].kind = req[r].kind
        /\ req'[r].csrf = req[r].csrf /\ req'[r].cookie = req[r].cookie
        /\ req'[r].passed
    BY <1>5, <2>1 DEF RequestType
  <2> QED
    BY <1>2, <1>6, <2>2, <2>3, <2>4, Zenon
<1> QED
  BY <1>4, <1>7, <1>8

\* A handler revokes the session of its own cookie and no other.
LEMMA Revokes ==
  ASSUME HttpInv, NEW r \in Request, Handle(r), NEW n \in Created,
         sessions[n].status # "revoked", sessions'[n].status = "revoked"
  PROVE  /\ n = req[r].cookie /\ req[r].phase = "checked"
         /\ req[r].kind \in {"renew", "logout"}
<1>1. /\ TypeOK /\ Presented(r) /\ sessions \in Seq(SessionType)
      /\ Created = 1 .. Len(sessions) /\ Len(sessions) \in Nat
  BY Lengths DEF HttpInv, TypeOK
<1>2. sessions' # sessions
  OBVIOUS
<1>3. CASE ExecuteLogin(r)
  <2>1. sessions' = Append(sessions, New(req[r].user, 0))
    BY <1>2, <1>3 DEF ExecuteLogin, Refuse
  <2>2. sessions'[n] = sessions[n]
    BY <1>1, <2>1
  <2> QED
    BY <2>2
<1>4. CASE ExecuteLogout(r)
  <2>1. req[r].kind = "logout" /\ req[r].phase = "checked" /\ req[r].cookie \in Created
    BY <1>1, <1>4 DEF ExecuteLogout, At, Presented
  <2>2. sessions' = Put(req[r].cookie, "revoked")
    BY <1>4 DEF ExecuteLogout, Revoke
  <2>3. n # req[r].cookie => sessions'[n] = sessions[n]
    BY <1>1, <2>1, <2>2 DEF Put
  <2> QED
    BY <2>1, <2>3
<1>5. CASE ExecuteRenewal(r)
  <2>1. req[r].kind = "renew" /\ req[r].phase = "checked" /\ req[r].cookie \in Created
    BY <1>1, <1>5 DEF ExecuteRenewal, At, Presented
  <2> DEFINE base == Put(req[r].cookie, "revoked")
  <2>2. sessions' = Append(base, New(sessions[req[r].cookie].user, req[r].cookie))
    BY <1>2, <1>5 DEF ExecuteRenewal, Refuse, Revoke
  <2>3. base \in Seq(SessionType) /\ Len(base) = Len(sessions)
        /\ (n # req[r].cookie => base[n] = sessions[n])
    <3>1. PICK old \in Created : old = req[r].cookie
      BY <2>1
    <3> DEFINE put == Put(old, "revoked")
    <3>2. put \in Seq(SessionType) /\ Len(put) = Len(sessions)
          /\ \A m \in Created : m # old => put[m] = sessions[m]
      BY <1>1, PutFacts DEF SessionStatus
    <3> QED
      BY <3>1, <3>2
  <2> HIDE DEF base
  <2>4. sessions'[n] = base[n]
    BY <1>1, <2>2, <2>3
  <2> QED
    BY <2>1, <2>3, <2>4
<1> QED
  BY <1>2, <1>3, <1>4, <1>5 DEF Handle, Renew, Login, Logout, Session, Refuse, Check

\* A request that is sent, and one that is answered or given up.
LEMMA Sent ==
  ASSUME HttpInv, NEW r \in Request, NEW kind, NEW user, NEW csrf,
         Send(r, kind, user, csrf)
  PROVE  /\ \A s \in Request \ {r} : req'[s] = req[s]
         /\ req'[r].phase = "sent" /\ req'[r].kind = kind /\ req'[r].csrf = (csrf = jar)
         /\ req'[r].cookie = jar /\ ~req'[r].passed
         /\ UNCHANGED sessions
<1>1. req \in [Request -> RequestType]
  BY DEF HttpInv, TypeOK
<1>2. req' = [req EXCEPT ![r] = [Free EXCEPT !.phase = "sent", !.kind = kind,
                !.user = user, !.cookie = jar, !.csrf = (csrf = jar)]]
  BY DEF Send
<1>3. req'[r] = [Free EXCEPT !.phase = "sent", !.kind = kind,
                !.user = user, !.cookie = jar, !.csrf = (csrf = jar)]
  BY <1>1, <1>2
<1> QED
  BY <1>1, <1>2, <1>3 DEF Send, Free

LEMMA Done ==
  ASSUME HttpInv, NEW r \in Request, Receive(r) \/ Abandon(r)
  PROVE  /\ \A s \in Request \ {r} : req'[s] = req[s]
         /\ req'[r].phase = "free" /\ req'[r].kind = "session"
         /\ UNCHANGED sessions
<1>1. req \in [Request -> RequestType] /\ req' = [req EXCEPT ![r] = Free]
  BY DEF HttpInv, TypeOK, Receive, Abandon
<1> QED
  BY <1>1, FreeFacts DEF Receive, Abandon
===============================================================================
