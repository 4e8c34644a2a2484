------------------------------ MODULE WebSession ------------------------------
(***************************************************************************)
(* The web application in the tabs of one browser: the session query of    *)
(* TanStack Query, the session coordinator, the login and logout           *)
(* mutations and the two guarded routes.  The tabs share the cookie jar    *)
(* and the API of AuthHttp and nothing else.  Promises settle in           *)
(* microtasks, so a transition that awaits no answer is one step.          *)
(***************************************************************************)
EXTENDS Integers, Sequences

CONSTANTS
  Tab, User, None, MaxSessions, Faults,
  Retries,    \* failureCount limit of the session query
  MaxEvents   \* bound on clicks and faults, and, each counted twice, reloads and refetches

ASSUME WebAssumption == Retries \in Nat /\ MaxEvents \in Nat

VARIABLES
  jar, sessions, req, trouble,   \* AuthHttp
  page,       \* the route each tab is on
  entry,      \* the session query in the tab's cache
  attached,   \* the page observes that entry, not one removed since
  view,       \* what the page shows of it
  seen,       \* what useSessionQuery's effect last ran for
  lost,       \* sessionLost
  mut,        \* the mutation in progress
  tries,      \* failures of the session request in flight
  clicked,    \* history: the session shown when logout was last clicked
  events

Http == INSTANCE AuthHttp WITH Request <- Tab \X {"get", "post"}

\* What AuthHttp assumes of its constants.
ASSUME ApiAssumption ==
  /\ MaxSessions \in Nat
  /\ Faults \subseteq {"error", "loss", "expiry"}
  /\ None \notin Http!Contract!Session

httpVars == <<jar, sessions, req, trouble>>
tabVars == <<page, entry, attached, view, seen, lost, mut, tries, clicked>>
vars == <<httpVars, tabVars, events>>

\* Query data: a session, as its user and CSRF token, or none.
Anonymous == 0
Pending == -1
Failed == -2
Absent == -3

Get(t) == <<t, "get">>
Post(t) == <<t, "post">>

Free(r) == req[r].phase = "free"

Init ==
  /\ Http!Init
  /\ page \in [Tab -> {"login", "app"}]
  /\ entry = [t \in Tab |-> Absent] /\ attached = [t \in Tab |-> TRUE]
  /\ view = [t \in Tab |-> Pending] /\ seen = [t \in Tab |-> Absent]
  /\ lost = [t \in Tab |-> FALSE] /\ mut = [t \in Tab |-> "none"]
  /\ tries = [t \in Tab |-> 0] /\ clicked = [t \in Tab |-> 0] /\ events = 0

Event(cost) == events + cost <= MaxEvents /\ events' = events + cost

Fetch(t) == Http!Send(Get(t), "session", Http!Free.user, 0)

DropFetch(t) == IF Free(Get(t)) THEN UNCHANGED httpVars ELSE Http!Abandon(Get(t))

\* A page mounts: its observer takes the cached entry, its effect is to run.
Mount(t, p) ==
  /\ page' = [page EXCEPT ![t] = p]
  /\ entry' = [entry EXCEPT ![t] = IF @ = Failed THEN Absent ELSE @]
  /\ view' = [view EXCEPT ![t] = IF entry[t] \in {Failed, Absent} THEN Pending ELSE entry[t]]
  /\ attached' = [attached EXCEPT ![t] = TRUE]
  /\ seen' = [seen EXCEPT ![t] = Absent]

\* confirmSessionLoss: the requests of queries are cancelled, which fails who
\* awaits them, both caches cleared, and the routes told.
LoseSession(t) ==
  /\ DropFetch(t)
  /\ entry' = [entry EXCEPT ![t] = Absent]
  /\ attached' = [attached EXCEPT ![t] = FALSE]
  /\ lost' = [lost EXCEPT ![t] = TRUE]
  /\ mut' = [mut EXCEPT ![t] =
       IF @ \in {"leaving", "fetching", "recover"} THEN "none" ELSE @]

----------------------------------------------------------------------------
(* The session query *)

\* A page without data fetches it.
FetchMissing(t) ==
  /\ attached[t] /\ entry[t] = Absent /\ Free(Get(t))
  /\ Fetch(t)
  /\ entry' = [entry EXCEPT ![t] = Pending]
  /\ view' = [view EXCEPT ![t] = Pending]
  /\ seen' = [seen EXCEPT ![t] = Absent]
  /\ tries' = [tries EXCEPT ![t] = 0]
  /\ UNCHANGED <<page, attached, lost, mut, clicked, events>>

\* The window has the focus again, or the reader clicks "Reintentar".
Refetch(t) ==
  /\ Event(2)
  /\ attached[t] /\ entry[t] \notin {Absent, Pending} /\ Free(Get(t))
  /\ Fetch(t)
  /\ tries' = [tries EXCEPT ![t] = 0]
  /\ UNCHANGED <<page, entry, attached, view, seen, lost, mut, clicked>>

\* getSession's result.
Result(r) == IF req[r].status = "ok" THEN req[r].cookie ELSE Anonymous

Settle(t, data) ==
  /\ entry' = [entry EXCEPT ![t] = data]
  /\ view' = [view EXCEPT ![t] = IF attached[t] THEN data ELSE @]
  /\ mut' = [mut EXCEPT ![t] =
       CASE @ = "fetching" -> IF data > Anonymous THEN "arrived" ELSE "none"
         [] @ = "recover" -> IF data = Anonymous THEN "leaving" ELSE "none"
         [] OTHER -> @]
  /\ UNCHANGED <<page, attached, seen, lost, clicked, events>>

SessionAnswer(t) ==
  LET r == Get(t) IN
  /\ req[r].phase = "answered"
  /\ \/ /\ req[r].status \in {"ok", "authentication required"}
        /\ Http!Receive(r) /\ Settle(t, Result(r)) /\ UNCHANGED tries
     \/ /\ req[r].status \in {"error", "lost"} /\ tries[t] < Retries
        /\ Fetch(t)
        /\ tries' = [tries EXCEPT ![t] = @ + 1]
        /\ UNCHANGED <<page, entry, attached, view, seen, lost, mut, clicked, events>>
     \/ /\ req[r].status \in {"error", "lost"} /\ tries[t] = Retries
        /\ Http!Receive(r) /\ Settle(t, Failed) /\ UNCHANGED tries

\* Variant: markAuthenticated leaves the flag.
MarkNothing(t) == lost' = lost

MarkAuthenticated(t) == lost' = [lost EXCEPT ![t] = FALSE]

\* useSessionQuery's effect.
RunEffect(t) ==
  /\ view[t] >= Anonymous /\ seen[t] # view[t]
  /\ seen' = [seen EXCEPT ![t] = view[t]]
  /\ \/ /\ view[t] > Anonymous
        /\ MarkAuthenticated(t)
        /\ UNCHANGED <<httpVars, entry, attached, mut>>
     \/ /\ view[t] = Anonymous /\ ~lost[t] /\ LoseSession(t)
     \/ /\ view[t] = Anonymous /\ lost[t]
        /\ UNCHANGED <<httpVars, entry, attached, lost, mut>>
  /\ UNCHANGED <<page, view, tries, clicked, events>>

AuthenticatedRoute(t) ==
  /\ page[t] = "app" /\ (lost[t] \/ view[t] = Anonymous)
  /\ Mount(t, "login")
  /\ UNCHANGED <<httpVars, lost, mut, tries, clicked, events>>

LoginPage(t) ==
  /\ page[t] = "login" /\ view[t] > Anonymous
  /\ Mount(t, "app")
  /\ UNCHANGED <<httpVars, lost, mut, tries, clicked, events>>

----------------------------------------------------------------------------
(* The mutations *)

SubmitLogin(t, u) ==
  /\ Event(1)
  /\ page[t] = "login" /\ view[t] = Anonymous /\ mut[t] = "none"
  /\ Http!Send(Post(t), "login", u, 0)
  /\ mut' = [mut EXCEPT ![t] = "login"]
  /\ UNCHANGED <<page, entry, attached, view, seen, lost, tries, clicked>>

LoginAnswer(t) ==
  /\ mut[t] = "login"
  /\ mut' = [mut EXCEPT ![t] = IF req[Post(t)].status = "ok" THEN "entered" ELSE "none"]
  /\ Http!Receive(Post(t))
  /\ UNCHANGED <<page, entry, attached, view, seen, lost, tries, clicked, events>>

\* removeQueries, then fetchQuery: the page keeps the entry it had.
Enter(t) ==
  /\ mut[t] = "entered"
  /\ Fetch(t)
  /\ entry' = [entry EXCEPT ![t] = Pending]
  /\ attached' = [attached EXCEPT ![t] = FALSE]
  /\ tries' = [tries EXCEPT ![t] = 0]
  /\ mut' = [mut EXCEPT ![t] = "fetching"]
  /\ UNCHANGED <<page, view, seen, lost, clicked, events>>

\* onSuccess: markAuthenticated, then navigate.
Arrive(t) ==
  /\ mut[t] = "arrived"
  /\ MarkAuthenticated(t) /\ Mount(t, "app")
  /\ mut' = [mut EXCEPT ![t] = "none"]
  /\ UNCHANGED <<httpVars, tries, clicked, events>>

ClickLogout(t) ==
  /\ Event(1)
  /\ page[t] = "app" /\ view[t] > Anonymous /\ ~lost[t] /\ mut[t] = "none"
  /\ Http!Send(Post(t), "logout", Http!Free.user, view[t])
  /\ clicked' = [clicked EXCEPT ![t] = view[t]]
  /\ mut' = [mut EXCEPT ![t] = "logout"]
  /\ UNCHANGED <<page, entry, attached, view, seen, lost, tries>>

LogoutAnswer(t) ==
  LET s == req[Post(t)].status IN
  /\ mut[t] = "logout"
  /\ mut' = [mut EXCEPT ![t] =
       CASE s \in {"ok", "authentication required"} -> "leaving"
         [] s = "csrf" -> "refresh"
         [] OTHER -> "none"]
  /\ Http!Receive(Post(t))
  /\ UNCHANGED <<page, entry, attached, view, seen, lost, tries, clicked, events>>

\* onError after a CSRF rejection: fetchQuery joins the request in flight or
\* sends one that is not tried again.
Recover(t) ==
  /\ mut[t] = "refresh"
  /\ mut' = [mut EXCEPT ![t] = "recover"]
  /\ \/ /\ ~Free(Get(t))
        /\ UNCHANGED <<httpVars, entry, view, tries>>
     \/ /\ Free(Get(t)) /\ Fetch(t)
        /\ tries' = [tries EXCEPT ![t] = Retries]
        /\ entry' = [entry EXCEPT ![t] = IF @ = Absent THEN Pending ELSE @]
        /\ view' = [view EXCEPT ![t] =
             IF attached[t] /\ entry[t] = Absent THEN Pending ELSE @]
  /\ UNCHANGED <<page, attached, seen, lost, clicked, events>>

\* confirmSessionLoss again, or for the first time.
Leave(t) ==
  /\ mut[t] = "leaving"
  /\ \/ ~lost[t] /\ LoseSession(t)
     \/ /\ lost[t] /\ mut' = [mut EXCEPT ![t] = "none"]
        /\ UNCHANGED <<httpVars, entry, attached, lost>>
  /\ UNCHANGED <<page, view, seen, tries, clicked, events>>

\* The tab loads the application anew.
Reload(t, p) ==
  /\ Event(2)
  /\ mut[t] = "none" /\ DropFetch(t)
  /\ page' = [page EXCEPT ![t] = p]
  /\ entry' = [entry EXCEPT ![t] = Absent]
  /\ attached' = [attached EXCEPT ![t] = TRUE]
  /\ view' = [view EXCEPT ![t] = Pending]
  /\ seen' = [seen EXCEPT ![t] = Absent]
  /\ lost' = [lost EXCEPT ![t] = FALSE]
  /\ UNCHANGED <<mut, tries, clicked>>

----------------------------------------------------------------------------

Api == \E r \in DOMAIN req : Http!Handle(r) /\ UNCHANGED <<tabVars, events>>

Fault ==
  /\ Event(1)
  /\ \/ \E r \in DOMAIN req : Http!ServerError(r) \/ Http!Lose(r)
     \/ \E n \in Http!Created : Http!Lapse(n) \/ Http!Resume(n)
  /\ UNCHANGED tabVars

ExpireCookie == Http!ExpireCookie /\ UNCHANGED <<tabVars, events>>

\* What a mutation does next without waiting for an answer.
Continue(t) == Enter(t) \/ Arrive(t) \/ Recover(t) \/ Leave(t)

Continues(t) == mut[t] \in {"entered", "arrived", "refresh", "leaving"}

\* It is queued as a microtask: nothing of the tab comes before it.
Step(t) ==
  \/ Continue(t)
  \/ /\ ~Continues(t)
     /\ \/ FetchMissing(t) \/ SessionAnswer(t) \/ RunEffect(t)
        \/ AuthenticatedRoute(t) \/ LoginPage(t)
        \/ LoginAnswer(t) \/ LogoutAnswer(t)

\* Every bound used up, every tab at rest.
Rest ==
  /\ events = MaxEvents /\ \A r \in DOMAIN req : Free(r)
  /\ UNCHANGED vars

Next ==
  \/ \E t \in Tab :
       \/ Step(t)
       \/ ~Continues(t) /\ Refetch(t)
       \/ ClickLogout(t)
       \/ \E u \in User : SubmitLogin(t, u)
       \/ \E p \in {"login", "app"} : Reload(t, p)
  \/ Api \/ Fault \/ ExpireCookie \/ Rest

Spec == Init /\ [][Next]_vars

\* The API answers, every tab runs its event loop, and React runs the effects
\* of what it mounts, even of a page that is left at once.
FairSpec ==
  /\ Spec
  /\ WF_vars(Api)
  /\ \A t \in Tab : WF_vars(Step(t)) /\ SF_vars(RunEffect(t))

----------------------------------------------------------------------------

\* A logout that reports success in a tab has ended the session that tab was
\* showing when it was clicked, except when it did not meet that session valid:
\* another tab had replaced or emptied the jar, and the logout went with the cookie
\* it found there, or with none (auth.controller.ts:258); or it was past its
\* deadline, and a late touch made it valid again since.
LogoutEndsShown ==
  \A t \in Tab :
    LET q == req[Post(t)] IN
    /\ mut[t] = "logout" /\ q.phase = "answered" /\ q.status = "ok"
    /\ Http!Live(clicked[t])
    => ~q.passed /\ (q.cookie = clicked[t] => sessions[clicked[t]].status = "resumed")

\* No logout ends a session its tab was not showing when it was clicked, though
\* its cookie be that of another tab's login by then; and nothing else the tabs do
\* ends any.
LogoutSparesOthers ==
  [][\A n \in Http!Created :
       sessions[n].status # "revoked" /\ sessions'[n].status = "revoked" =>
         \E t \in Tab : mut[t] = "logout" /\ clicked[t] = n]_vars

AtRest(t) ==
  /\ mut[t] = "none" /\ Free(Get(t))
  /\ \/ page[t] = "app" /\ view[t] > Anonymous /\ ~lost[t]
     \/ page[t] = "login" /\ view[t] = Anonymous
     \/ view[t] = Failed /\ ~(page[t] = "app" /\ lost[t])

\* Once its reader and the network leave it alone, a tab comes to rest on the
\* application or on the login form: no redirect loops (TESTING.md, "401 limpia
\* cache/redirige sin loop"), no mutation pending for ever.  A run holds it for the
\* events of its bound: the README names a sequence beyond it that leaves a page
\* without its query.
TabsSettle == \A t \in Tab : <>[]AtRest(t)

----------------------------------------------------------------------------
(* The inductive invariant behind the safety properties *)

Data == {Absent, Failed, Pending} \cup Nat

Mutation == {"none", "login", "entered", "fetching", "arrived",
             "logout", "leaving", "refresh", "recover"}

TabTypeOK ==
  /\ page \in [Tab -> {"login", "app"}]
  /\ entry \in [Tab -> Data] /\ view \in [Tab -> Data] /\ seen \in [Tab -> Data]
  /\ attached \in [Tab -> BOOLEAN] /\ lost \in [Tab -> BOOLEAN]
  /\ mut \in [Tab -> Mutation]
  /\ tries \in [Tab -> 0 .. Retries]
  /\ clicked \in [Tab -> Nat]
  /\ events \in 0 .. MaxEvents

\* A page shows no session that does not exist, and its query asks for one.
Shows(t) ==
  /\ entry[t] <= Len(sessions) /\ view[t] <= Len(sessions)
  /\ req[Get(t)].kind = "session"

\* A mutation's request is under way exactly while it is awaited, and a logout's
\* has the CSRF token of the session shown when it was clicked: what passes the
\* checks was sent with that session's cookie.
Posts(t) ==
  LET q == req[Post(t)] IN
  /\ q.phase = "free" <=> mut[t] \notin {"login", "logout"}
  /\ q.phase # "free" => q.kind = mut[t]
  /\ mut[t] = "logout" =>
       /\ q.csrf \/ q.passed => q.cookie = clicked[t]
       /\ q.phase = "checked" => q.passed

WebInv ==
  /\ Http!HttpInv /\ TabTypeOK
  /\ \A t \in Tab : Shows(t) /\ Posts(t)
==============================================================================
