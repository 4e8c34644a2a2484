-------------------------------- MODULE WebProofs --------------------------------
(***************************************************************************)
(* Proofs about WebSession.  The tabs and the API are the browser and the  *)
(* API of AuthHttp, so the invariant of AuthHttpProofs holds of them; what *)
(* is added is how a tab's mutation and its request go together.           *)
(***************************************************************************)
EXTENDS WebSession, TLAPS

Proved == INSTANCE AuthHttpProofs WITH Request <- Tab \X {"get", "post"}

Requests == Tab \X {"get", "post"}

----------------------------------------------------------------------------
(* AuthHttp seen through its own instance and through that of its proofs *)

LEMMA Assumed == Proved!HttpAssumption /\ Proved!LifeAssumption
BY ApiAssumption DEF Http!Contract!Session, Proved!Contract!Session,
   Proved!HttpAssumption, Proved!LifeAssumption

LEMMA SameVars == Http!vars = Proved!vars /\ Http!vars = httpVars
BY DEF Http!vars, Proved!vars, httpVars

LEMMA SameInvariant == Http!HttpInv = Proved!HttpInv
BY DEF Http!HttpInv, Proved!HttpInv, Http!TypeOK, Proved!TypeOK, Http!Presented,
   Proved!Presented, Http!Undelivered, Proved!Undelivered, Http!ParentsOlder,
   Proved!ParentsOlder, Http!JarWillMove, Proved!JarWillMove, Http!LogoutRevokes,
   Proved!LogoutRevokes, Http!Over, Proved!Over, Http!Answered, Proved!Answered, Http!Live, Proved!Live,
   Http!Created, Proved!Created, Http!SessionType, Proved!SessionType,
   Http!SessionStatus, Proved!SessionStatus,
   Http!RequestType, Proved!RequestType, Http!Kind, Proved!Kind, Http!Status,
   Proved!Status, Http!Free, Proved!Free

LEMMA SameInvariantNext == Http!HttpInv' = Proved!HttpInv'
BY DEF Http!HttpInv, Proved!HttpInv, Http!TypeOK, Proved!TypeOK, Http!Presented,
   Proved!Presented, Http!Undelivered, Proved!Undelivered, Http!ParentsOlder,
   Proved!ParentsOlder, Http!JarWillMove, Proved!JarWillMove, Http!LogoutRevokes,
   Proved!LogoutRevokes, Http!Over, Proved!Over, Http!Answered, Proved!Answered, Http!Live, Proved!Live,
   Http!Created, Proved!Created, Http!SessionType, Proved!SessionType,
   Http!SessionStatus, Proved!SessionStatus,
   Http!RequestType, Proved!RequestType, Http!Kind, Proved!Kind, Http!Status,
   Proved!Status, Http!Free, Proved!Free

LEMMA SameInit == Http!Init = Proved!Init
BY DEF Http!Init, Proved!Init, Http!Free, Proved!Free

LEMMA SameSend ==
  ASSUME NEW r, NEW kind, NEW user, NEW csrf
  PROVE  Http!Send(r, kind, user, csrf) = Proved!Send(r, kind, user, csrf)
BY DEF Http!Send, Proved!Send, Http!Free, Proved!Free

LEMMA SameHandle ==
  ASSUME NEW r
  PROVE  /\ Http!Handle(r) = Proved!Handle(r)
         /\ Http!ServerError(r) = Proved!ServerError(r)
         /\ Http!Lose(r) = Proved!Lose(r)
         /\ Http!Receive(r) = Proved!Receive(r)
         /\ Http!Abandon(r) = Proved!Abandon(r)
BY DEF Http!Handle, Proved!Handle, Http!Renew, Proved!Renew, Http!ExecuteRenewal,
   Proved!ExecuteRenewal, Http!Login, Proved!Login, Http!ExecuteLogin,
   Proved!ExecuteLogin, Http!Logout, Proved!Logout, Http!ExecuteLogout,
   Proved!ExecuteLogout, Http!Session, Proved!Session, Http!At, Proved!At,
   Http!Live, Proved!Live, Http!CsrfVerified, Proved!CsrfVerified, Http!Refuse,
   Proved!Refuse, Http!Answer, Proved!Answer, Http!Check, Proved!Check, Http!New,
   Proved!New, Http!Revoke, Proved!Revoke, Http!Put, Proved!Put, Http!Created, Proved!Created,
   Http!Free, Proved!Free, Http!ServerError, Proved!ServerError, Http!Lose,
   Proved!Lose, Http!Receive, Proved!Receive, Http!Abandon, Proved!Abandon

LEMMA SameNext == Http!Next = Proved!Next
BY SameSend, SameHandle DEF Http!Next, Proved!Next, Http!Lapse, Proved!Lapse,
   Http!Resume, Proved!Resume, Http!Turn, Proved!Turn, Http!Put, Proved!Put,
   Http!ExpireCookie, Proved!ExpireCookie, Http!Live, Proved!Live, Http!Created,
   Proved!Created, Http!Free, Proved!Free

\* What AuthHttpProofs shows of a step, of Http's.
LEMMA HttpStarts == Http!Init => Http!HttpInv
BY Assumed, Proved!HttpInit, SameInit, SameInvariant

LEMMA HttpKept == Http!HttpInv /\ [Http!Next]_httpVars => Http!HttpInv'
<1>1. [Http!Next]_httpVars => [Proved!Next]_(Proved!vars)
  BY SameNext DEF Proved!vars, httpVars
<1> QED
  BY <1>1, Assumed, Proved!HttpStep, SameInvariant, SameInvariantNext

LEMMA Carries ==
  ASSUME Http!HttpInv, NEW r \in Requests,
         Http!Handle(r) \/ Http!ServerError(r) \/ Http!Lose(r)
  PROVE  /\ \A s \in Requests \ {r} : req'[s] = req[s]
         /\ req[r].phase # "free" /\ req'[r].phase \in {"checked", "answered"}
         /\ req'[r].kind = req[r].kind /\ req'[r].csrf = req[r].csrf
         /\ req'[r].cookie = req[r].cookie
         /\ req'[r].passed /\ req[r].kind = "logout" => req[r].passed \/ req[r].csrf
         /\ req'[r].phase = "checked" => req'[r].passed
         /\ Len(sessions') >= Len(sessions)
<1>1. /\ Proved!HttpInv
      /\ Proved!Handle(r) \/ Proved!ServerError(r) \/ Proved!Lose(r)
  BY SameHandle, SameInvariant
<1> QED
  BY <1>1, Assumed, Proved!Carried DEF Requests

LEMMA Revokes ==
  ASSUME Http!HttpInv, NEW r \in Requests, Http!Handle(r),
         NEW n \in Http!Created, sessions[n].status # "revoked",
         sessions'[n].status = "revoked"
  PROVE  /\ n = req[r].cookie /\ req[r].phase = "checked"
         /\ req[r].kind \in {"renew", "logout"}
<1>1. Proved!HttpInv /\ Proved!Handle(r) /\ n \in Proved!Created
  BY SameHandle, SameInvariant DEF Http!Created, Proved!Created
<1> QED
  BY <1>1, Assumed, Proved!Revokes DEF Requests

LEMMA Sends ==
  ASSUME Http!HttpInv, NEW r \in Requests, NEW kind, NEW user, NEW csrf,
         Http!Send(r, kind, user, csrf)
  PROVE  /\ \A s \in Requests \ {r} : req'[s] = req[s]
         /\ req'[r].phase = "sent" /\ req'[r].kind = kind
         /\ req'[r].csrf = (csrf = jar) /\ req'[r].cookie = jar /\ ~req'[r].passed
         /\ UNCHANGED sessions
<1>1. Proved!HttpInv /\ Proved!Send(r, kind, user, csrf)
  BY SameSend, SameInvariant
<1> QED
  BY <1>1, Assumed, Proved!Sent DEF Requests

LEMMA Ends ==
  ASSUME Http!HttpInv, NEW r \in Requests, Http!Receive(r) \/ Http!Abandon(r)
  PROVE  /\ \A s \in Requests \ {r} : req'[s] = req[s]
         /\ req'[r].phase = "free" /\ req'[r].kind = "session"
         /\ UNCHANGED sessions
<1>1. Proved!HttpInv /\ (Proved!Receive(r) \/ Proved!Abandon(r))
  BY SameHandle, SameInvariant
<1> QED
  BY <1>1, Assumed, Proved!Done DEF Requests

----------------------------------------------------------------------------
(* The steps of a tab that ask at most for its session *)

\* Nothing but the tab's session request has changed.
Asks(t) ==
  /\ \A s \in Requests \ {Get(t)} : req'[s] = req[s]
  /\ req'[Get(t)].kind = "session"
  /\ sessions' = sessions

\* A tab shows what its requests have told it of, and no mutation begins or ends
\* its request.
Reads ==
  /\ TabTypeOK' /\ clicked' = clicked
  /\ \A t \in Tab : /\ entry'[t] <= Len(sessions) /\ view'[t] <= Len(sessions)
                     /\ \/ mut'[t] = mut[t]
                        \/ /\ mut[t] \notin {"login", "logout"}
                           /\ mut'[t] \notin {"login", "logout"}

LEMMA Lengths ==
  ASSUME WebInv
  PROVE  /\ Len(sessions) \in Nat
         /\ \A r \in Requests : /\ req[r].cookie \in Nat
                                /\ req[r].cookie <= Len(sessions)
         /\ \A t \in Tab : Get(t) \in Requests /\ Post(t) \in Requests
BY DEF WebInv, Http!HttpInv, Http!TypeOK, Http!Presented, Http!RequestType,
   Requests, Get, Post

LEMMA Numbers == ASSUME NEW data \in Data
                 PROVE  data \in Int /\ (data > Anonymous => data \in Nat)
BY DEF Data, Anonymous, Absent, Failed, Pending

LEMMA FetchAsks ==
  ASSUME WebInv, NEW t \in Tab
  PROVE  /\ Fetch(t) => Asks(t) /\ Http!Next
         /\ DropFetch(t) => Asks(t) /\ [Http!Next]_httpVars
         /\ UNCHANGED httpVars => Asks(t) /\ [Http!Next]_httpVars
         /\ Http!Receive(Get(t)) => Asks(t) /\ Http!Next
<1>1. Http!HttpInv /\ Get(t) \in Requests /\ req[Get(t)].kind = "session"
  BY Lengths DEF WebInv, Shows
<1>2. Fetch(t) => Asks(t) /\ Http!Next
  BY <1>1, Sends DEF Fetch, Asks, Http!Next, Requests
<1>3. UNCHANGED httpVars => Asks(t)
  BY <1>1 DEF Asks, httpVars
<1>4. Http!Receive(Get(t)) \/ Http!Abandon(Get(t)) => Asks(t) /\ Http!Next
  BY <1>1, Ends DEF Asks, Http!Next, Requests
<1> QED
  BY <1>2, <1>3, <1>4 DEF DropFetch

LEMMA LossReads ==
  ASSUME WebInv, NEW t \in Tab, LoseSession(t),
         UNCHANGED <<page, view, tries, clicked, events>>, seen' \in [Tab -> Data]
  PROVE  Reads
<1>1. TabTypeOK /\ Len(sessions) \in Nat
      /\ \A u \in Tab : entry[u] <= Len(sessions) /\ view[u] <= Len(sessions)
  BY Lengths DEF WebInv, Shows
<1>2. /\ entry' \in [Tab -> Data] /\ attached' \in [Tab -> BOOLEAN]
      /\ lost' \in [Tab -> BOOLEAN] /\ mut' \in [Tab -> Mutation]
  BY <1>1 DEF LoseSession, TabTypeOK, Data, Mutation
<1>3. \A u \in Tab : /\ entry'[u] <= Len(sessions)
                     /\ \/ mut'[u] = mut[u]
                        \/ /\ mut[u] \notin {"login", "logout"}
                           /\ mut'[u] \notin {"login", "logout"}
  BY <1>1 DEF LoseSession, TabTypeOK, Data, Absent
<1>4. TabTypeOK'
  BY <1>1, <1>2 DEF TabTypeOK
<1>5. clicked' = clicked /\ \A u \in Tab : view'[u] <= Len(sessions)
  BY <1>1
<1> QED
  BY <1>3, <1>4, <1>5, Zenon DEF Reads

LEMMA MountReads ==
  ASSUME WebInv, NEW t \in Tab, NEW p \in {"login", "app"}, Mount(t, p),
         UNCHANGED <<tries, clicked, events>>, lost' \in [Tab -> BOOLEAN],
         \/ mut' = mut
         \/ mut[t] = "arrived" /\ mut' = [mut EXCEPT ![t] = "none"]
  PROVE  Reads
<1>1. TabTypeOK /\ Len(sessions) \in Nat
      /\ \A u \in Tab : entry[u] <= Len(sessions) /\ view[u] <= Len(sessions)
  BY Lengths DEF WebInv, Shows
<1>2. Pending \in Data /\ Absent \in Data /\ Pending <= Len(sessions)
      /\ Absent <= Len(sessions)
  BY <1>1 DEF Data, Absent, Pending
<1>3. /\ page' \in [Tab -> {"login", "app"}] /\ seen' \in [Tab -> Data]
      /\ entry' \in [Tab -> Data] /\ view' \in [Tab -> Data]
      /\ attached' \in [Tab -> BOOLEAN]
  BY <1>1, <1>2 DEF Mount, TabTypeOK
<1>4. \A u \in Tab : entry'[u] <= Len(sessions) /\ view'[u] <= Len(sessions)
  BY <1>1, <1>2 DEF Mount, TabTypeOK
<1>5. /\ mut' \in [Tab -> Mutation]
      /\ \A u \in Tab : \/ mut'[u] = mut[u]
                         \/ /\ mut[u] \notin {"login", "logout"}
                            /\ mut'[u] \notin {"login", "logout"}
  BY <1>1 DEF TabTypeOK, Mutation
<1>6. TabTypeOK'
  BY <1>1, <1>3, <1>5 DEF TabTypeOK
<1>7. clicked' = clicked
  OBVIOUS
<1> QED
  BY <1>4, <1>5, <1>6, <1>7, Zenon DEF Reads

LEMMA SettleReads ==
  ASSUME WebInv, NEW t \in Tab, NEW data \in Data, data <= Len(sessions),
         Settle(t, data), UNCHANGED tries
  PROVE  Reads
<1>1. TabTypeOK /\ Len(sessions) \in Nat
      /\ \A u \in Tab : entry[u] <= Len(sessions) /\ view[u] <= Len(sessions)
  BY Lengths DEF WebInv, Shows
<1> QED
  BY <1>1 DEF Settle, Reads, TabTypeOK, Data, Absent, Failed, Pending, Anonymous,
     Mutation

\* Every step of a tab that submits nothing and awaits no mutation's answer.
Queries(t) ==
  \/ FetchMissing(t) \/ SessionAnswer(t) \/ RunEffect(t)
  \/ AuthenticatedRoute(t) \/ LoginPage(t) \/ Continue(t)
  \/ Refetch(t) \/ \E p \in {"login", "app"} : Reload(t, p)

LEMMA QueryStep ==
  ASSUME WebInv, NEW t \in Tab, Queries(t)
  PROVE  Asks(t) /\ Reads /\ [Http!Next]_httpVars
<1>1. /\ TabTypeOK /\ Len(sessions) \in Nat /\ Http!HttpInv
      /\ \A u \in Tab : entry[u] <= Len(sessions) /\ view[u] <= Len(sessions)
      /\ Get(t) \in Requests
  BY Lengths DEF WebInv, Shows
<1>2. CASE FetchMissing(t)
  BY <1>1, <1>2, FetchAsks, WebAssumption DEF FetchMissing, Reads, TabTypeOK, Data,
     Absent, Pending, Failed
<1>3. CASE Refetch(t)
  BY <1>1, <1>3, FetchAsks, WebAssumption DEF Refetch, Event, Reads, TabTypeOK
<1>4. CASE SessionAnswer(t)
  <2>1. CASE /\ req[Get(t)].status \in {"ok", "authentication required"}
             /\ Http!Receive(Get(t)) /\ Settle(t, Result(Get(t))) /\ UNCHANGED tries
    <3>1. Result(Get(t)) \in Data /\ Result(Get(t)) <= Len(sessions)
      BY <1>1, Lengths DEF Result, Data, Anonymous
    <3> QED
      BY <2>1, <3>1, FetchAsks, SettleReads
  <2>2. CASE /\ tries[t] < Retries /\ Fetch(t)
             /\ tries' = [tries EXCEPT ![t] = @ + 1]
             /\ UNCHANGED <<page, entry, attached, view, seen, lost, mut, clicked, events>>
    <3>1. tries' \in [Tab -> 0 .. Retries]
      BY <1>1, <2>2, WebAssumption DEF TabTypeOK
    <3> QED
      BY <1>1, <2>2, <3>1, FetchAsks DEF Reads, TabTypeOK
  <2>3. CASE Http!Receive(Get(t)) /\ Settle(t, Failed) /\ UNCHANGED tries
    <3>1. Failed \in Data /\ Failed <= Len(sessions)
      BY <1>1 DEF Failed, Data
    <3> QED
      BY <2>3, <3>1, FetchAsks, SettleReads
  <2> QED
    BY <1>4, <2>1, <2>2, <2>3 DEF SessionAnswer
<1>5. CASE RunEffect(t)
  <2>1. seen' \in [Tab -> Data] /\ UNCHANGED <<page, view, tries, clicked, events>>
    BY <1>1, <1>5 DEF RunEffect, TabTypeOK
  <2>2. CASE LoseSession(t)
    BY <2>1, <2>2, FetchAsks, LossReads DEF LoseSession
  <2>3. CASE lost' \in [Tab -> BOOLEAN] /\ UNCHANGED <<httpVars, entry, attached, mut>>
    BY <1>1, <2>1, <2>3, FetchAsks DEF Reads, TabTypeOK
  <2> QED
    BY <1>1, <1>5, <2>2, <2>3 DEF RunEffect, MarkAuthenticated, TabTypeOK
<1>6. CASE AuthenticatedRoute(t) \/ LoginPage(t)
  <2>1. PICK p \in {"login", "app"} : Mount(t, p)
    BY <1>6 DEF AuthenticatedRoute, LoginPage
  <2>2. UNCHANGED <<httpVars, lost, mut, tries, clicked, events>>
    BY <1>6 DEF AuthenticatedRoute, LoginPage
  <2>3. lost' \in [Tab -> BOOLEAN]
    BY <1>1, <2>2 DEF TabTypeOK
  <2> QED
    BY <2>1, <2>2, <2>3, FetchAsks, MountReads
<1>7. CASE Enter(t)
  BY <1>1, <1>7, FetchAsks, WebAssumption DEF Enter, Reads, TabTypeOK, Data,
     Mutation, Absent, Pending, Failed
<1>8. CASE Arrive(t)
  <2>1. lost' \in [Tab -> BOOLEAN]
    BY <1>1, <1>8 DEF Arrive, MarkAuthenticated, TabTypeOK
  <2> QED
    BY <1>8, <2>1, FetchAsks, MountReads DEF Arrive
<1>9. CASE Recover(t)
  <2>1. mut' \in [Tab -> Mutation] /\ tries' \in [Tab -> 0 .. Retries]
    BY <1>1, <1>9, WebAssumption DEF Recover, TabTypeOK, Mutation
  <2>2. /\ entry' \in [Tab -> Data] /\ view' \in [Tab -> Data]
        /\ \A u \in Tab : entry'[u] <= Len(sessions) /\ view'[u] <= Len(sessions)
    <3>1. CASE UNCHANGED <<entry, view>>
      BY <1>1, <3>1 DEF TabTypeOK
    <3>2. CASE /\ entry' = [entry EXCEPT ![t] = IF @ = Absent THEN Pending ELSE @]
               /\ view' = [view EXCEPT ![t] =
                    IF attached[t] /\ entry[t] = Absent THEN Pending ELSE @]
      <4>1. Pending \in Data /\ Pending <= Len(sessions)
        BY <1>1 DEF Pending, Data
      <4> QED
        BY <1>1, <3>2, <4>1 DEF TabTypeOK
    <3> QED
      BY <1>9, <3>1, <3>2 DEF Recover
  <2>3. \A u \in Tab : \/ mut'[u] = mut[u]
                       \/ /\ mut[u] \notin {"login", "logout"}
                          /\ mut'[u] \notin {"login", "logout"}
    BY <1>1, <1>9 DEF Recover, TabTypeOK
  <2>4. UNCHANGED <<page, attached, seen, lost, clicked, events>>
    BY <1>9 DEF Recover
  <2>5. Asks(t) /\ [Http!Next]_httpVars
    BY <1>9, FetchAsks DEF Recover
  <2> QED
    BY <1>1, <2>1, <2>2, <2>3, <2>4, <2>5 DEF Reads, TabTypeOK
<1>10. CASE Leave(t)
  <2>1. seen' \in [Tab -> Data] /\ UNCHANGED <<page, view, tries, clicked, events>>
    BY <1>1, <1>10 DEF Leave, TabTypeOK
  <2>2. CASE LoseSession(t)
    BY <2>1, <2>2, FetchAsks, LossReads DEF LoseSession
  <2>3. CASE /\ mut' = [mut EXCEPT ![t] = "none"]
             /\ UNCHANGED <<httpVars, entry, attached, lost, seen>>
    BY <1>1, <1>10, <2>1, <2>3, FetchAsks DEF Leave, Reads, TabTypeOK, Mutation
  <2> QED
    BY <1>10, <2>2, <2>3 DEF Leave
<1>11. CASE \E p \in {"login", "app"} : Reload(t, p)
  <2>1. PICK p \in {"login", "app"} : Reload(t, p)
    BY <1>11
  <2> QED
    BY <1>1, <2>1, FetchAsks, WebAssumption DEF Reload, Event, Reads, TabTypeOK,
       Data, Absent, Pending, Failed
<1> QED
  BY <1>2, <1>3, <1>4, <1>5, <1>6, <1>7, <1>8, <1>9, <1>10, <1>11
     DEF Queries, Continue

\* Such a step keeps the mutation of every tab with its request.
LEMMA QueryKeeps ==
  ASSUME WebInv, NEW t \in Tab, Queries(t)
  PROVE  WebInv'
<1>1. Asks(t) /\ Reads /\ Http!HttpInv'
  BY QueryStep, HttpKept DEF WebInv
<1>2. ASSUME NEW u \in Tab
      PROVE  Shows(u)' /\ Posts(u)'
  <2>1. Shows(u) /\ Posts(u)
    BY DEF WebInv
  <2>2. Get(u) \in Requests /\ Post(u) \in Requests /\ Post(u) # Get(t)
        /\ (Get(u) = Get(t) \/ Get(u) \in Requests \ {Get(t)})
    BY Lengths DEF Get, Post
  <2>3. req'[Post(u)] = req[Post(u)] /\ req'[Get(u)].kind = "session"
    BY <1>1, <2>1, <2>2 DEF Asks, Shows
  <2>4. Shows(u)'
    BY <1>1, <2>3 DEF Asks, Reads, Shows, Get
  <2>5. /\ mut'[u] = mut[u] \/ (/\ mut[u] \notin {"login", "logout"}
                                /\ mut'[u] \notin {"login", "logout"})
        /\ clicked'[u] = clicked[u]
    BY <1>1 DEF Reads
  <2>6. Posts(u)'
    BY <2>1, <2>3, <2>5 DEF Posts, Post
  <2> QED
    BY <2>4, <2>6
<1> QED
  BY <1>1, <1>2 DEF WebInv, Reads

----------------------------------------------------------------------------
(* A mutation submits its request and receives the answer *)

LEMMA Submits ==
  ASSUME WebInv, NEW t \in Tab, NEW kind \in {"login", "logout"}, NEW user, NEW csrf,
         Http!Send(Post(t), kind, user, csrf), Http!Next,
         mut[t] = "none", mut' = [mut EXCEPT ![t] = kind],
         clicked' \in [Tab -> Nat],
         \A u \in Tab \ {t} : clicked'[u] = clicked[u],
         kind = "logout" => clicked'[t] = csrf,
         Event(1), UNCHANGED <<page, entry, attached, view, seen, lost, tries>>
  PROVE  WebInv'
<1>1. /\ TabTypeOK /\ Http!HttpInv /\ Post(t) \in Requests
      /\ Len(sessions) \in Nat
  BY Lengths DEF WebInv
<1>2. /\ \A s \in Requests \ {Post(t)} : req'[s] = req[s]
      /\ req'[Post(t)].phase = "sent" /\ req'[Post(t)].kind = kind
      /\ req'[Post(t)].csrf = (csrf = jar) /\ req'[Post(t)].cookie = jar
      /\ ~req'[Post(t)].passed /\ sessions' = sessions
  BY <1>1, Sends
<1>3. Http!HttpInv'
  BY <1>1, HttpKept
<1>4. mut' \in [Tab -> Mutation] /\ events' \in 0 .. MaxEvents
  BY <1>1, WebAssumption DEF TabTypeOK, Mutation, Event
<1>5. TabTypeOK'
  BY <1>1, <1>4 DEF TabTypeOK
<1>6. ASSUME NEW u \in Tab
      PROVE  Shows(u)' /\ Posts(u)'
  <2>1. Shows(u) /\ Posts(u)
    BY DEF WebInv
  <2>2. Get(u) \in Requests \ {Post(t)} /\ (u = t \/ Post(u) \in Requests \ {Post(t)})
    BY Lengths DEF Get, Post
  <2>3. Shows(u)'
    BY <1>2, <2>1, <2>2 DEF Shows, Get
  <2>4. CASE u = t
    <3>1. mut'[t] = kind
      BY <1>1 DEF TabTypeOK
    <3> QED
      BY <1>2, <2>3, <2>4, <3>1 DEF Posts, Post
  <2>5. CASE u # t
    <3>1. mut'[u] = mut[u] /\ req'[Post(u)] = req[Post(u)] /\ clicked'[u] = clicked[u]
      BY <1>1, <1>2, <2>2, <2>5 DEF TabTypeOK
    <3> QED
      BY <2>1, <2>3, <3>1 DEF Posts, Post
  <2> QED
    BY <2>4, <2>5
<1> QED
  BY <1>3, <1>5, <1>6 DEF WebInv

LEMMA Answers ==
  ASSUME WebInv, NEW t \in Tab, NEW next \in Mutation \ {"login", "logout"},
         Http!Receive(Post(t)), mut' = [mut EXCEPT ![t] = next],
         UNCHANGED <<page, entry, attached, view, seen, lost, tries, clicked, events>>
  PROVE  WebInv' /\ Http!Next
<1>1. /\ TabTypeOK /\ Http!HttpInv /\ Post(t) \in Requests
      /\ Len(sessions) \in Nat
  BY Lengths DEF WebInv
<1>2. /\ \A s \in Requests \ {Post(t)} : req'[s] = req[s]
      /\ req'[Post(t)].phase = "free" /\ sessions' = sessions
  BY <1>1, Ends
<1>3. Http!Next
  BY <1>1 DEF Http!Next, Requests
<1>4. Http!HttpInv'
  BY <1>1, <1>3, HttpKept
<1>5. TabTypeOK'
  BY <1>1 DEF TabTypeOK
<1>6. ASSUME NEW u \in Tab
      PROVE  Shows(u)' /\ Posts(u)'
  <2>1. Shows(u) /\ Posts(u)
    BY DEF WebInv
  <2>2. Get(u) \in Requests \ {Post(t)} /\ (u = t \/ Post(u) \in Requests \ {Post(t)})
    BY Lengths DEF Get, Post
  <2>3. Shows(u)'
    BY <1>2, <2>1, <2>2 DEF Shows, Get
  <2>4. CASE u = t
    <3>1. mut'[t] = next
      BY <1>1 DEF TabTypeOK
    <3> QED
      BY <1>2, <2>3, <2>4, <3>1 DEF Posts, Post
  <2>5. CASE u # t
    <3>1. mut'[u] = mut[u] /\ req'[Post(u)] = req[Post(u)] /\ clicked'[u] = clicked[u]
      BY <1>1, <1>2, <2>2, <2>5 DEF TabTypeOK
    <3> QED
      BY <2>1, <2>3, <3>1 DEF Posts, Post
  <2> QED
    BY <2>4, <2>5
<1> QED
  BY <1>3, <1>4, <1>5, <1>6 DEF WebInv

----------------------------------------------------------------------------
(* The API and the deadlines *)

LEMMA RequestOf == ASSUME NEW r \in Requests
                   PROVE  \E t \in Tab : r = Get(t) \/ r = Post(t)
BY DEF Requests, Get, Post

LEMMA AnyRequest == ASSUME WebInv PROVE DOMAIN req = Requests
BY DEF WebInv, Http!HttpInv, Http!TypeOK, Requests

LEMMA ApiKeeps ==
  ASSUME WebInv, NEW r \in Requests,
         Http!Handle(r) \/ Http!ServerError(r) \/ Http!Lose(r),
         UNCHANGED tabVars, events' \in 0 .. MaxEvents
  PROVE  WebInv' /\ Http!Next
<1>1. TabTypeOK /\ Http!HttpInv /\ Len(sessions) \in Nat
  BY Lengths DEF WebInv
<1>2. Http!Next
  BY DEF Http!Next, Requests
<1>3. Http!HttpInv'
  BY <1>1, <1>2, HttpKept
<1>4. Len(sessions') \in Nat
  BY <1>3 DEF Http!HttpInv, Http!TypeOK
<1>5. /\ \A s \in Requests \ {r} : req'[s] = req[s]
      /\ req[r].phase # "free" /\ req'[r].phase \in {"checked", "answered"}
      /\ req'[r].kind = req[r].kind /\ req'[r].csrf = req[r].csrf
      /\ req'[r].cookie = req[r].cookie
      /\ req'[r].passed /\ req[r].kind = "logout" => req[r].passed \/ req[r].csrf
      /\ req'[r].phase = "checked" => req'[r].passed
      /\ Len(sessions') >= Len(sessions)
  BY <1>1, Carries
<1>6. TabTypeOK'
  BY <1>1 DEF TabTypeOK, tabVars
<1>7. ASSUME NEW u \in Tab
      PROVE  Shows(u)' /\ Posts(u)'
  <2>1. Shows(u) /\ Posts(u) /\ Get(u) \in Requests /\ Post(u) \in Requests
    BY Lengths DEF WebInv
  <2>2. /\ entry' = entry /\ view' = view /\ mut' = mut /\ clicked' = clicked
        /\ entry[u] \in Int /\ view[u] \in Int
    <3>1. entry[u] \in Data /\ view[u] \in Data
      BY <1>1 DEF TabTypeOK
    <3> QED
      BY <3>1, Numbers DEF tabVars
  <2>3. Shows(u)'
    <3>1. req'[Get(u)].kind = "session"
      BY <1>5, <2>1 DEF Shows
    <3>2. entry'[u] <= Len(sessions') /\ view'[u] <= Len(sessions')
      BY <1>1, <1>4, <1>5, <2>1, <2>2 DEF Shows
    <3> QED
      BY <3>1, <3>2 DEF Shows, Get
  <2>4. CASE Post(u) = r
    <3>1. Posts(u) /\ req[Post(u)].phase # "free" /\ req'[Post(u)].phase # "free"
      BY <1>5, <2>1, <2>4
    <3>2. req'[Post(u)].kind = mut[u] /\ mut[u] \in {"login", "logout"}
      BY <1>5, <2>4, <3>1 DEF Posts
    <3>3. mut[u] = "logout" =>
            /\ req'[Post(u)].csrf \/ req'[Post(u)].passed =>
                 req'[Post(u)].cookie = clicked[u]
            /\ req'[Post(u)].phase = "checked" => req'[Post(u)].passed
      BY <1>5, <2>4, <3>1, <3>2 DEF Posts
    <3>4. mut'[u] = mut[u] /\ clicked'[u] = clicked[u]
      BY <2>2
    <3> QED
      BY <2>3, <3>1, <3>2, <3>3, <3>4 DEF Posts, Post
  <2>5. CASE Post(u) # r
    <3>1. /\ Posts(u) /\ req'[Post(u)] = req[Post(u)]
          /\ mut'[u] = mut[u] /\ clicked'[u] = clicked[u]
      BY <1>5, <2>1, <2>2, <2>5
    <3> QED
      BY <2>3, <3>1 DEF Posts, Post
  <2> QED
    BY <2>3, <2>4, <2>5
<1> QED
  BY <1>2, <1>3, <1>6, <1>7 DEF WebInv

\* Neither a deadline nor a dropped cookie is a request's doing.
LEMMA ClockKeeps ==
  ASSUME WebInv, [Http!Next]_httpVars, req' = req, Len(sessions') = Len(sessions),
         UNCHANGED tabVars, events' \in 0 .. MaxEvents
  PROVE  WebInv'
<1>1. TabTypeOK /\ Http!HttpInv'
  BY HttpKept DEF WebInv
<1>2. TabTypeOK'
  BY <1>1 DEF TabTypeOK, tabVars
<1>3. \A u \in Tab : Shows(u)' /\ Posts(u)'
  BY DEF WebInv, tabVars, Shows, Posts, Get, Post
<1> QED
  BY <1>1, <1>2, <1>3 DEF WebInv

LEMMA DeadlineFacts ==
  ASSUME WebInv, NEW n \in Http!Created, Http!Lapse(n) \/ Http!Resume(n)
  PROVE  /\ Http!Next /\ req' = req /\ Len(sessions') = Len(sessions)
         /\ \A m \in Http!Created :
              sessions'[m].status = "revoked" => sessions[m].status = "revoked"
<1>1. sessions \in Seq(Http!SessionType)
  BY DEF WebInv, Http!HttpInv, Http!TypeOK
<1>2. Http!Next
  BY DEF Http!Next
<1>3. PICK status : status # "revoked" /\ sessions' = Http!Put(n, status) /\ req' = req
  BY DEF Http!Lapse, Http!Resume, Http!Turn
<1> QED
  BY <1>1, <1>2, <1>3 DEF Http!Put, Http!Created, Http!SessionType

----------------------------------------------------------------------------
(* The steps of the application *)

\* What every step is, for the invariant and for the two properties.
LEMMA WebSteps ==
  ASSUME WebInv, [Next]_vars
  PROVE  /\ WebInv' /\ [Http!Next]_httpVars
         /\ \/ sessions' = sessions
            \/ \E r \in Requests : Http!Handle(r)
            \/ \A m \in Http!Created :
                 sessions'[m].status = "revoked" => sessions[m].status = "revoked"
<1> DEFINE Effect ==
      \/ sessions' = sessions
      \/ \E r \in Requests : Http!Handle(r)
      \/ \A m \in Http!Created :
           sessions'[m].status = "revoked" => sessions[m].status = "revoked"
<1> SUFFICES WebInv' /\ [Http!Next]_httpVars /\ Effect
  OBVIOUS
<1>1. TabTypeOK /\ Http!HttpInv /\ DOMAIN req = Requests
  BY AnyRequest DEF WebInv
<1>2. ASSUME NEW t \in Tab, Queries(t)
      PROVE  WebInv' /\ [Http!Next]_httpVars /\ Effect
  BY <1>2, QueryStep, QueryKeeps DEF Asks
<1>3. ASSUME NEW t \in Tab, NEW u \in User, SubmitLogin(t, u)
      PROVE  WebInv' /\ [Http!Next]_httpVars /\ Effect
  <2>1. Http!Next /\ sessions' = sessions
    BY <1>1, <1>3, Lengths, Sends DEF SubmitLogin, Http!Next, Requests
  <2>2. clicked' \in [Tab -> Nat] /\ clicked' = clicked
    BY <1>1, <1>3 DEF SubmitLogin, TabTypeOK
  <2>3. WebInv'
    BY <1>3, <2>1, <2>2, Submits DEF SubmitLogin
  <2> QED
    BY <2>1, <2>3
<1>4. ASSUME NEW t \in Tab, ClickLogout(t)
      PROVE  WebInv' /\ [Http!Next]_httpVars /\ Effect
  <2>1. view[t] \in 0 .. Len(sessions) /\ view[t] \in Nat
    <3>1. view[t] \in Data /\ view[t] > Anonymous /\ view[t] <= Len(sessions)
      BY <1>1, <1>4 DEF ClickLogout, WebInv, Shows, TabTypeOK
    <3> QED
      BY <3>1, Lengths, Numbers
  <2>2. Http!Next /\ sessions' = sessions
    BY <1>1, <1>4, <2>1, Lengths, Sends DEF ClickLogout, Http!Next, Requests
  <2>3. /\ clicked' \in [Tab -> Nat] /\ clicked'[t] = view[t]
        /\ \A u \in Tab \ {t} : clicked'[u] = clicked[u]
    BY <1>1, <1>4, <2>1 DEF ClickLogout, TabTypeOK
  <2>4. WebInv'
    BY <1>4, <2>2, <2>3, Submits DEF ClickLogout
  <2> QED
    BY <2>2, <2>4
<1>5. ASSUME NEW t \in Tab, LoginAnswer(t) \/ LogoutAnswer(t)
      PROVE  WebInv' /\ [Http!Next]_httpVars /\ Effect
  <2>1. \E next \in Mutation \ {"login", "logout"} : mut' = [mut EXCEPT ![t] = next]
    BY <1>5 DEF LoginAnswer, LogoutAnswer, Mutation
  <2>2. /\ Http!Receive(Post(t))
        /\ UNCHANGED <<page, entry, attached, view, seen, lost, tries, clicked, events>>
    BY <1>5 DEF LoginAnswer, LogoutAnswer
  <2>3. sessions' = sessions
    BY <1>1, <2>2, Lengths, Ends
  <2> QED
    BY <2>1, <2>2, <2>3, Answers
<1>6. CASE Api
  <2>1. PICK r \in Requests : Http!Handle(r)
    BY <1>1, <1>6 DEF Api
  <2>2. UNCHANGED tabVars /\ events' \in 0 .. MaxEvents
    BY <1>1, <1>6 DEF Api, TabTypeOK
  <2> QED
    BY <2>1, <2>2, ApiKeeps
<1>7. CASE Fault
  <2>1. UNCHANGED tabVars /\ events' \in 0 .. MaxEvents
    BY <1>1, <1>7, WebAssumption DEF Fault, Event, TabTypeOK
  <2>2. ASSUME NEW r \in Requests, Http!ServerError(r) \/ Http!Lose(r)
        PROVE  WebInv' /\ [Http!Next]_httpVars /\ Effect
    BY <2>1, <2>2, ApiKeeps DEF Http!ServerError, Http!Lose
  <2>3. ASSUME NEW n \in Http!Created, Http!Lapse(n) \/ Http!Resume(n)
        PROVE  WebInv' /\ [Http!Next]_httpVars /\ Effect
    BY <2>1, <2>3, DeadlineFacts, ClockKeeps
  <2> QED
    BY <1>1, <1>7, <2>2, <2>3 DEF Fault
<1>8. CASE ExpireCookie
  <2>1. UNCHANGED tabVars /\ events' \in 0 .. MaxEvents
    BY <1>1, <1>8 DEF ExpireCookie, TabTypeOK
  <2>2. Http!Next /\ req' = req /\ sessions' = sessions
    BY <1>8 DEF ExpireCookie, Http!ExpireCookie, Http!Next
  <2> QED
    BY <2>1, <2>2, ClockKeeps
<1>9. CASE UNCHANGED vars
  <2>1. UNCHANGED tabVars /\ UNCHANGED httpVars /\ events' \in 0 .. MaxEvents
    BY <1>1, <1>9 DEF vars, TabTypeOK
  <2>2. req' = req /\ sessions' = sessions
    BY <2>1 DEF httpVars
  <2> QED
    BY <2>1, <2>2, ClockKeeps
<1> HIDE DEF Effect
<1> QED
  BY <1>2, <1>3, <1>4, <1>5, <1>6, <1>7, <1>8, <1>9 DEF Next, Step, Queries, Rest

LEMMA WebStarts == Init => WebInv
<1> SUFFICES ASSUME Init PROVE WebInv
  OBVIOUS
<1>1. Http!HttpInv
  BY HttpStarts DEF Init
<1>2. sessions = <<>> /\ req = [r \in Requests |-> Http!Free]
  BY DEF Init, Http!Init, Requests
<1>3. TabTypeOK
  BY WebAssumption DEF Init, TabTypeOK, Data, Mutation
<1>4. ASSUME NEW t \in Tab PROVE Shows(t) /\ Posts(t)
  <2>1. Get(t) \in Requests /\ Post(t) \in Requests
    BY DEF Get, Post, Requests
  <2>2. /\ req[Get(t)].kind = "session" /\ req[Post(t)].phase = "free"
        /\ mut[t] = "none" /\ entry[t] = Absent /\ view[t] = Pending
    BY <1>2, <2>1 DEF Init, Http!Free
  <2> QED
    BY <1>2, <2>2 DEF Shows, Posts, Absent, Pending
<1> QED
  BY <1>1, <1>3, <1>4 DEF WebInv

\* In every tab and whatever the API answers, a mutation's request is under way
\* exactly while the mutation awaits it, and no page shows a session that does
\* not exist.
THEOREM WebInvariance == Spec => []WebInv
<1>1. WebInv /\ [Next]_vars => WebInv'
  BY WebSteps
<1> QED
  BY <1>1, WebStarts, PTL DEF Spec

\* After a logout that reports success in a tab, the session that tab was showing
\* is valid only if the logout did not meet it so: it came with another cookie or
\* with none, or past the deadline and before a late touch.
THEOREM LogoutsEndShown == Spec => []LogoutEndsShown
<1>1. ASSUME WebInv, NEW t \in Tab, mut[t] = "logout", req[Post(t)].phase = "answered",
             req[Post(t)].status = "ok", Http!Live(clicked[t])
      PROVE  /\ ~req[Post(t)].passed
             /\ req[Post(t)].cookie = clicked[t] =>
                  sessions[clicked[t]].status = "resumed"
  <2>1. Posts(t) /\ Post(t) \in Requests /\ req[Post(t)].kind = "logout"
    BY <1>1, Lengths DEF WebInv, Posts
  <2>2. Http!Over(req[Post(t)])
    BY <1>1, <2>1 DEF WebInv, Http!HttpInv, Http!LogoutRevokes, Http!Answered, Requests
  <2>3. clicked[t] \in Http!Created
        /\ sessions[clicked[t]].status \in {"live", "resumed"}
    BY <1>1 DEF Http!Live
  <2> QED
    BY <2>1, <2>2, <2>3, <1>1 DEF Posts, Http!Over
<1>2. WebInv => LogoutEndsShown
  BY <1>1 DEF LogoutEndsShown
<1> QED
  BY <1>2, WebInvariance, PTL

\* A logout clicked in one tab, while others log in and out with the cookie they
\* share, ends no session but the one that tab was showing.
THEOREM LogoutsSpareOthers == Spec => LogoutSparesOthers
<1>1. ASSUME WebInv, [Next]_vars, NEW n \in Http!Created,
             sessions[n].status # "revoked", sessions'[n].status = "revoked"
      PROVE  \E t \in Tab : mut[t] = "logout" /\ clicked[t] = n
  <2>1. PICK r \in Requests : Http!Handle(r)
    BY <1>1, WebSteps
  <2>2. /\ n = req[r].cookie /\ req[r].phase = "checked"
        /\ req[r].kind \in {"renew", "logout"}
    BY <1>1, <2>1, Revokes DEF WebInv
  <2>3. PICK t \in Tab : r = Get(t) \/ r = Post(t)
    BY RequestOf
  <2>4. Shows(t) /\ Posts(t)
    BY <1>1 DEF WebInv
  <2> QED
    BY <2>2, <2>3, <2>4 DEF Shows, Posts
<1>2. WebInv /\ [Next]_vars =>
        [\A n \in Http!Created :
           sessions[n].status # "revoked" /\ sessions'[n].status = "revoked" =>
             \E t \in Tab : mut[t] = "logout" /\ clicked[t] = n]_vars
  BY <1>1
<1> QED
  BY <1>2, WebInvariance, PTL DEF Spec, LogoutSparesOthers

----------------------------------------------------------------------------
(* What AuthHttp promises, of the application *)

\* When every tab's answers have arrived and nothing went wrong, the cookie the
\* tabs share is of a live session, or there is none.
THEOREM TabsShareAUsableCookie == Spec => []Http!CookieIsUsable
<1>1. ASSUME Http!HttpInv, \A r \in Requests : req[r].phase = "free", ~trouble
      PROVE  jar = 0 \/ Http!Live(jar)
  <2>1. \A r \in Requests : req[r].set = -1
    BY <1>1 DEF Http!HttpInv, Http!Presented, Requests
  <2> QED
    BY <1>1, <2>1 DEF Http!HttpInv, Http!JarWillMove, Requests
<1>2. WebInv => Http!CookieIsUsable
  BY <1>1 DEF WebInv, Http!CookieIsUsable, Requests
<1> QED
  BY <1>2, WebInvariance, PTL

LEMMA SameContract ==
  /\ Http!Life = Proved!Life /\ Http!Contract!Next = Proved!Contract!Next
  /\ Http!Contract!Init = Proved!Contract!Init
BY DEF Http!Life, Proved!Life, Http!Created, Proved!Created,
   Http!Contract!Next, Proved!Contract!Next, Http!Contract!Issue, Proved!Contract!Issue,
   Http!Contract!HandOver, Proved!Contract!HandOver, Http!Contract!End,
   Proved!Contract!End, Http!Contract!Open, Proved!Contract!Open,
   Http!Contract!Fresh, Proved!Contract!Fresh, Http!Contract!Init, Proved!Contract!Init

LEMMA SameLifeNext == Http!Life' = Proved!Life'
BY DEF Http!Life, Proved!Life, Http!Created, Proved!Created

\* From the clicks of several tabs down to the API, every session is issued once,
\* handed over at most once and to its own user, and never comes back.
THEOREM TabsKeepContract == Spec => Http!ContractSpec
<1>1. Init => Http!Contract!Init
  <2> SUFFICES ASSUME Init PROVE Http!Contract!Init
    OBVIOUS
  <2>1. Http!Created = {}
    BY DEF Init, Http!Init, Http!Created
  <2>2. Http!Life = [t \in 1 .. MaxSessions |-> None]
    BY <2>1 DEF Http!Life
  <2> QED
    BY <2>2 DEF Http!Contract!Init
<1>2. WebInv /\ [Next]_vars => [Http!Contract!Next]_(Http!Life)
  <2> SUFFICES ASSUME WebInv, [Next]_vars PROVE [Http!Contract!Next]_(Http!Life)
    OBVIOUS
  <2>1. Proved!HttpInv /\ [Http!Next]_httpVars
    BY WebSteps, SameInvariant DEF WebInv
  <2>2. [Proved!Next]_(Proved!vars)
    BY <2>1, SameNext DEF Proved!vars, httpVars
  <2>3. [Proved!Contract!Next]_(Proved!Life)
    BY <2>1, <2>2, Assumed, Proved!LifeStep
  <2> QED
    BY <2>3, SameContract, SameLifeNext
<1> QED
  BY <1>1, <1>2, WebInvariance, PTL DEF Spec, Http!ContractSpec, Http!Contract!Spec
===============================================================================
