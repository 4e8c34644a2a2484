------------------------------- MODULE AuthHttp -------------------------------
(***************************************************************************)
(* AuthController and the browser in front of it: requests of one cookie   *)
(* jar, in flight together, handled in steps and answered in any order.    *)
(* Rows and transactions are SessionLifecycle's subject; here a session is *)
(* a status.  Only a revocation ends it: past a deadline it is not valid,  *)
(* and may become so again.  A raw token and the CSRF token derived from   *)
(* it are both the number of their session, 0 none.                        *)
(***************************************************************************)
EXTENDS Integers, Sequences

CONSTANTS
  Request,      \* requests the browser can have in flight
  User,
  None,         \* no session, in SessionContract's terms
  MaxSessions,  \* bound on the sessions of a behaviour
  Faults        \* what can go wrong: "error", "loss", "expiry"

ASSUME HttpAssumption ==
  /\ MaxSessions \in Nat
  /\ Faults \subseteq {"error", "loss", "expiry"}

VARIABLES
  jar,       \* the session cookie the browser holds, 0 for none
  sessions,  \* sessions created so far
  req,       \* requests and their answers
  trouble    \* history: something failed, was lost or ran out

vars == <<jar, sessions, req, trouble>>

Kind == {"login", "renew", "logout", "session"}

\* "refused" is every other 4xx (invalid request, credentials or origin, rate
\* limit), "lost" an answer that never comes.
Status == {"ok", "authentication required", "csrf", "refused", "error", "lost"}

Created == 1 .. Len(sessions)

\* "lapsed" is past a deadline, "resumed" valid again after that.
SessionStatus == {"live", "lapsed", "resumed", "revoked"}

\* The session is valid.
Live(t) == t \in Created /\ sessions[t].status \in {"live", "resumed"}

Put(t, status) == [sessions EXCEPT ![t].status = status]

\* revoked_at is set, whatever else is true of the row.
Revoke(t) == Put(t, "revoked")

\* csrf: the CSRF token sent is that of the cookie sent.  set: the answer's
\* Set-Cookie, a session, 0 to clear, -1 for none.  passed: the checks before the
\* use case found the session valid.
Free ==
  [phase |-> "free", kind |-> "session", user |-> CHOOSE u \in User : TRUE,
   cookie |-> 0, csrf |-> TRUE, status |-> "ok", set |-> -1, passed |-> FALSE]

Init ==
  /\ jar = 0 /\ sessions = <<>> /\ trouble = FALSE
  /\ req = [r \in Request |-> Free]

\* The browser attaches its cookie.  A session request nobody waits for any
\* more may be replaced: its answer would set no cookie.
Send(r, kind, user, csrf) ==
  /\ req[r].phase = "free" \/ req[r].kind = "session"
  /\ req' = [req EXCEPT ![r] = [Free EXCEPT !.phase = "sent", !.kind = kind,
       !.user = user, !.cookie = jar, !.csrf = (csrf = jar)]]
  /\ UNCHANGED <<jar, sessions, trouble>>

Abandon(r) ==
  /\ req[r].phase # "free" /\ req[r].kind = "session"
  /\ req' = [req EXCEPT ![r] = Free]
  /\ UNCHANGED <<jar, sessions, trouble>>

At(r, kind, phase) == req[r].kind = kind /\ req[r].phase = phase

\* The CSRF token is derived from the raw session token.
CsrfVerified(r) == req[r].csrf

Answer(r, status, set) ==
  req' = [req EXCEPT ![r].phase = "answered", ![r].status = status, ![r].set = set]

Refuse(r, status) == Answer(r, status, -1) /\ UNCHANGED <<sessions, jar, trouble>>

Check(r) ==
  /\ req' = [req EXCEPT ![r].phase = "checked", ![r].passed = TRUE]
  /\ UNCHANGED <<sessions, jar, trouble>>

\* renew up to the renewal itself: session, origin, CSRF token, then body,
\* address and local limit.
Renew(r) ==
  /\ At(r, "renew", "sent")
  /\ \/ ~Live(req[r].cookie) /\ Refuse(r, "authentication required")
     \/ Live(req[r].cookie) /\ Refuse(r, "refused")
     \/ Live(req[r].cookie) /\ ~CsrfVerified(r) /\ Refuse(r, "csrf")
     \/ Live(req[r].cookie) /\ CsrfVerified(r) /\ Check(r)

\* parent is not a column: the session a renewal replaced.
New(user, parent) == [user |-> user, parent |-> parent, status |-> "live"]

\* Variant: the session is not looked at again after the password is verified.
ExecuteRenewalUnlocked(r) ==
  LET old == req[r].cookie IN
  /\ At(r, "renew", "checked") /\ Len(sessions) < MaxSessions
  /\ sessions' = Append(Revoke(old), New(sessions[old].user, old))
  /\ Answer(r, "ok", Len(sessions) + 1)
  /\ UNCHANGED <<jar, trouble>>

\* SessionRenewalService.execute and its answer.
ExecuteRenewal(r) ==
  LET old == req[r].cookie IN
  /\ At(r, "renew", "checked")
  /\ \/ Refuse(r, "refused")
     \/ ~Live(old) /\ Refuse(r, "authentication required")
     \/ /\ Live(old) /\ Len(sessions) < MaxSessions
        /\ sessions' = Append(Revoke(old), New(sessions[old].user, old))
        /\ Answer(r, "ok", Len(sessions) + 1)
        /\ UNCHANGED <<jar, trouble>>

\* login up to the use case: body and address, origin, local limit.
Login(r) ==
  /\ At(r, "login", "sent")
  /\ \/ Refuse(r, "refused")
     \/ Check(r)

ExecuteLogin(r) ==
  /\ At(r, "login", "checked")
  /\ \/ Refuse(r, "refused")
     \/ /\ Len(sessions) < MaxSessions
        /\ sessions' = Append(sessions, New(req[r].user, 0))
        /\ Answer(r, "ok", Len(sessions) + 1)
        /\ UNCHANGED <<jar, trouble>>

\* Variant: any CSRF token will do.
LogoutAnyToken(r) ==
  /\ At(r, "logout", "sent")
  /\ \/ Refuse(r, "refused")
     \/ /\ ~Live(req[r].cookie)
        /\ Answer(r, "ok", 0) /\ UNCHANGED <<sessions, jar, trouble>>
     \/ Live(req[r].cookie) /\ Check(r)

\* logout up to the revocation.  Without a valid session the cookie is cleared
\* and no CSRF token asked for.
Logout(r) ==
  /\ At(r, "logout", "sent")
  /\ \/ Refuse(r, "refused")
     \/ /\ ~Live(req[r].cookie)
        /\ Answer(r, "ok", 0) /\ UNCHANGED <<sessions, jar, trouble>>
     \/ Live(req[r].cookie) /\ ~CsrfVerified(r) /\ Refuse(r, "csrf")
     \/ Live(req[r].cookie) /\ CsrfVerified(r) /\ Check(r)

\* Variant: the answer does not clear the cookie.
ExecuteLogoutOnly(r) ==
  /\ At(r, "logout", "checked")
  /\ sessions' = Revoke(req[r].cookie)
  /\ Answer(r, "ok", -1)
  /\ UNCHANGED <<jar, trouble>>

\* Variant: the cookie is cleared and nothing revoked.
ClearOnly(r) ==
  /\ At(r, "logout", "checked")
  /\ Answer(r, "ok", 0)
  /\ UNCHANGED <<sessions, jar, trouble>>

\* revokeByTokenHash asks only that the row is not revoked yet, not that the
\* session is still valid.
ExecuteLogout(r) ==
  /\ At(r, "logout", "checked")
  /\ sessions' = Revoke(req[r].cookie)
  /\ Answer(r, "ok", 0)
  /\ UNCHANGED <<jar, trouble>>

\* Variant: the answer renews the cookie of its request.
SessionKeepAlive(r) ==
  /\ At(r, "session", "sent")
  /\ \/ /\ Live(req[r].cookie)
        /\ Answer(r, "ok", req[r].cookie)
        /\ UNCHANGED <<sessions, jar, trouble>>
     \/ ~Live(req[r].cookie) /\ Refuse(r, "authentication required")

Session(r) ==
  /\ At(r, "session", "sent")
  /\ IF Live(req[r].cookie)
     THEN Refuse(r, "ok") ELSE Refuse(r, "authentication required")

\* A handler throws: the filter replies 500 and keeps the headers set so far,
\* those of a logout that was about to revoke.
ServerError(r) ==
  /\ "error" \in Faults /\ req[r].phase \in {"sent", "checked"}
  /\ Answer(r, "error", IF At(r, "logout", "checked") THEN 0 ELSE -1)
  /\ trouble' = TRUE
  /\ UNCHANGED <<jar, sessions>>

\* The request does not arrive, or its answer.
Lose(r) ==
  /\ "loss" \in Faults
  /\ req[r].phase \in {"sent", "answered"} /\ req[r].status # "lost"
  /\ Answer(r, "lost", -1)
  /\ trouble' = TRUE
  /\ UNCHANGED <<jar, sessions>>

Receive(r) ==
  /\ req[r].phase = "answered"
  /\ jar' = IF req[r].set = -1 THEN jar ELSE req[r].set
  /\ req' = [req EXCEPT ![r] = Free]
  /\ UNCHANGED <<sessions, trouble>>

Turn(t, status) ==
  /\ "expiry" \in Faults
  /\ sessions' = Put(t, status)
  /\ trouble' = TRUE
  /\ UNCHANGED <<jar, req>>

\* The idle or the absolute deadline passes.
Lapse(t) == Live(t) /\ Turn(t, "lapsed")

\* A touch whose instant was read before the idle deadline reaches the row after
\* it: any validation's, of a request here or of another handler.  The model does
\* not tell the deadlines apart, so it also resumes sessions past the absolute
\* one, which no touch moves: it has more behaviours than the code, not fewer.
Resume(t) == sessions[t].status = "lapsed" /\ Turn(t, "resumed")

\* The absolute deadline is the cookie's too.
ExpireCookie ==
  /\ "expiry" \in Faults
  /\ jar \in Created /\ sessions[jar].status \in {"lapsed", "revoked"}
  /\ jar' = 0
  /\ UNCHANGED <<sessions, req, trouble>>

Handle(r) ==
  \/ Renew(r) \/ ExecuteRenewal(r) \/ Login(r) \/ ExecuteLogin(r)
  \/ Logout(r) \/ ExecuteLogout(r) \/ Session(r)

Next ==
  \/ \E r \in Request :
       \/ \E u \in User : Send(r, "login", u, 0)
       \/ \E k \in {"renew", "logout"}, c \in 0 .. Len(sessions) :
            Send(r, k, Free.user, c)
       \/ Send(r, "session", Free.user, 0)
       \/ Abandon(r) \/ Handle(r) \/ ServerError(r) \/ Lose(r) \/ Receive(r)
  \/ \E t \in Created : Lapse(t) \/ Resume(t)
  \/ ExpireCookie

Spec == Init /\ [][Next]_vars

----------------------------------------------------------------------------

\* When every answer has arrived and nothing went wrong, the cookie the browser
\* is left with, whatever the order of the answers, is of a live session.
CookieIsUsable ==
  (\A r \in Request : req[r].phase = "free") /\ ~trouble => jar = 0 \/ Live(jar)

Parent(t) == IF t = 0 THEN 0 ELSE sessions[t].parent

\* The cookie never goes back from a session to the one it replaced, in whatever
\* order answers arrive: a logout, which ends the session of the cookie, leaves
\* alive only what an answer still under way, or lost, would have told of.
JarMovesOn ==
  [][jar' # 0 => jar' \notin {Parent(jar), Parent(Parent(jar))}]_vars

Answered(r, kind) ==
  /\ req[r].phase = "answered" /\ req[r].kind = kind

\* After a logout that reports success the session of its cookie is not valid,
\* whoever else was ending it.  Only one that found it past its idle deadline,
\* so revoked nothing and reported success all the same (auth.controller.ts:258),
\* may see it valid again, once a late touch arrives.
LogoutIsDone ==
  \A r \in Request :
    LET q == req[r] IN
    Answered(r, "logout") /\ q.status = "ok" /\ Live(q.cookie) =>
      ~q.passed /\ sessions[q.cookie].status = "resumed"

\* What SECURITY.md, section 11, says: clearing the cookie is not enough, the
\* revocation is the server's.
LogoutIsServerSide ==
  \A r \in Request :
    Answered(r, "logout") /\ req[r].set = 0 => ~Live(req[r].cookie)

Life ==
  [t \in 1 .. MaxSessions |->
     IF t \notin Created THEN None
     ELSE [user |-> sessions[t].user,
           parent |-> IF sessions[t].parent = 0 THEN None ELSE sessions[t].parent,
           state |-> IF sessions[t].status = "revoked" THEN "ended" ELSE "open"]]

Contract == INSTANCE SessionContract WITH Token <- 1 .. MaxSessions, life <- Life

\* Requests and answers in any order, the handlers do to sessions only what
\* SessionContract promises, as the statements of SessionLifecycle do: only a
\* revocation ends a session, and that for good.
ContractSpec == Contract!Spec

\* NULL is not a life.
ASSUME LifeAssumption == None \notin Contract!Session

----------------------------------------------------------------------------
(* The inductive invariant behind the safety properties *)

SessionType ==
  [user: User, parent: Nat, status: SessionStatus]

RequestType ==
  [phase: {"free", "sent", "checked", "answered"}, kind: Kind,
   user: User \cup {Free.user}, cookie: Nat, csrf: BOOLEAN, status: Status,
   set: Nat \cup {-1}, passed: BOOLEAN]

TypeOK ==
  /\ jar \in 0 .. Len(sessions)
  /\ sessions \in Seq(SessionType)
  /\ req \in [Request -> RequestType]
  /\ trouble \in BOOLEAN

\* A request was sent with a cookie the browser had; only an answer sets one,
\* and none to a session request; a login is some user's.
Presented(r) ==
  LET q == req[r] IN
  /\ q.cookie <= Len(sessions) /\ q.set <= Len(sessions)
  /\ q.phase # "answered" \/ q.kind = "session" => q.set = -1
  /\ q.phase = "sent" => ~q.passed
  /\ q.kind = "login" => q.user \in User
  /\ q.phase = "checked" /\ q.kind \in {"renew", "logout"} => q.cookie \in Created

\* The session that an answer still under way is about to set is nobody's yet:
\* no cookie, no renewal and no other answer knows of it, so nothing revoked it.
Undelivered(r) ==
  LET t == req[r].set IN
  t > 0 =>
    /\ jar # t
    /\ ~trouble => Live(t)
    /\ \A q \in Request : req[q].cookie # t /\ (q # r => req[q].set # t)
    /\ \A n \in Created : sessions[n].parent # t

\* A session replaces an older one.
ParentsOlder == \A n \in Created : sessions[n].parent < n

\* A session that is not valid is in the jar only while an answer that moves the
\* jar on is under way.
JarWillMove ==
  ~trouble /\ jar # 0 => Live(jar) \/ \E r \in Request : req[r].set # -1

\* What a logout that reports success knows of its session: it is not as it was
\* created, and if the checks passed it is revoked.
Over(q) ==
  q.cookie \in Created =>
    /\ sessions[q.cookie].status # "live"
    /\ q.passed => sessions[q.cookie].status = "revoked"

LogoutRevokes ==
  \A r \in Request : Answered(r, "logout") /\ req[r].status = "ok" => Over(req[r])

HttpInv ==
  /\ TypeOK /\ ParentsOlder /\ JarWillMove /\ LogoutRevokes
  /\ \A r \in Request : Presented(r) /\ Undelivered(r)
==============================================================================
