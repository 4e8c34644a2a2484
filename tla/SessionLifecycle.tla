-------------------------- MODULE SessionLifecycle ---------------------------
(***************************************************************************)
(* The life of a session: SessionService, SessionRenewalService and        *)
(* PrismaSessionRepository, run by any number of concurrent requests       *)
(* against the rows of AuthorityStore.  One action is one database         *)
(* statement, or the code between two awaits.  A request that presents a   *)
(* token validates it first and then answers, logs out or renews; logins   *)
(* (once the password is verified) and bulk revocations carry a user.      *)
(***************************************************************************)
EXTENDS AuthorityStore

CONSTANT Kind   \* the kinds of request this instance runs

ASSUME KindAssumption ==
  Kind \subseteq {"session", "logout", "renew", "login", "revokeAll"}

VARIABLES
  pc,    \* pc[p]: the next step of worker p
  ctx    \* ctx[p]: what request p has read and captured so far

lifeVars == <<pc, ctx>>
vars == <<storeVars, lifeVars>>

NoCtx ==
  [kind |-> "session", user |-> None, token |-> None, row |-> None,
   hash |-> None, at |-> 0, fresh |-> None, org |-> None, version |-> None,
   revokeAt |-> 0, attempt |-> 1, snapshot |-> {}, lockout |-> FALSE]

MaxAttempts == 3   \* MAX_SESSION_CREATION_ATTEMPTS

\* The steps of SessionRenewalService.execute, inside its transaction ...
ReplaceSteps ==
  {"lockSession", "lockUser", "lockCredential", "lockMembership",
   "lockOrganization", "write", "commit"}
\* ... and of every transaction that holds or waits for a lock.
TxSteps == ReplaceSteps \cup {"lockLogin", "insertLogin", "revokeRows"}

Labels == TxSteps \cup
  {"idle", "find", "validate", "touch", "logout", "revoke", "identity",
   "credential", "verify", "snapshot", "revokedAll"}

Ctx ==
  [kind: {"session", "logout", "renew", "login", "revokeAll"},
   user: User \cup {None}, token: Token \cup {None},
   row: SessionRow \cup {None}, hash: Nat \cup {None}, at: Nat,
   fresh: Token \cup {None}, org: Org \cup {None},
   version: Nat \cup {None}, revokeAt: Nat, attempt: 1 .. MaxAttempts,
   snapshot: SUBSET Token, lockout: BOOLEAN]

TypeOK ==
  /\ StoreTypeOK
  /\ pc \in [Worker -> Labels]
  /\ ctx \in [Worker -> Ctx]

Init ==
  /\ StoreInit
  /\ pc = [p \in Worker |-> "idle"]
  /\ ctx = [p \in Worker |-> NoCtx]

Proceed(p, label, c) ==
  /\ pc' = [pc EXCEPT ![p] = label]
  /\ ctx' = [ctx EXCEPT ![p] = c]

Goto(p, label) == Proceed(p, label, ctx[p])

\* The request is answered; a transaction it had open ends with it.
Finish(p) == Proceed(p, "idle", NoCtx) /\ Release(p)

----------------------------------------------------------------------------
(* Requests that present a token: validateSession *)

Request(p, kind, t) ==
  /\ pc[p] = "idle" /\ kind \in Kind \cap {"session", "logout", "renew"}
  /\ Proceed(p, "find", [ctx[p] EXCEPT !.kind = kind, !.token = t])
  /\ UNCHANGED storeVars

\* The session row, the first of the two reads of findUnique.
FindForValidation(p) ==
  /\ pc[p] = "find"
  /\ \/ /\ Exists(ctx[p].token)
        /\ Proceed(p, "validate",
             [ctx[p] EXCEPT !.row = sessions[ctx[p].token]])
        /\ UNCHANGED locks
     \/ ~Exists(ctx[p].token) /\ Finish(p)
  /\ UNCHANGED <<now, authorityRows, sessions>>

AfterValidation(kind) ==
  CASE kind = "session" -> "idle" [] kind = "logout" -> "logout"
    [] kind = "renew" -> "identity"

\* What a validated request keeps of what it read: the two identifiers.
Validated(p) ==
  IF ctx[p].kind = "session" THEN NoCtx
  ELSE [NoCtx EXCEPT !.kind = ctx[p].kind, !.token = ctx[p].token,
                     !.user = ctx[p].row.user]

\* The user's status is the second read; the clock is read after both.
ValidateSession(p) ==
  LET row == ctx[p].row IN
  /\ pc[p] = "validate"
  /\ \/ /\ \/ row.revoked # None
           \/ users[row.user] # "Active"
           \/ RowExpired(row, now)
        /\ Finish(p)
     \/ /\ row.revoked = None /\ users[row.user] = "Active"
        /\ ~RowExpired(row, now)
        /\ IF IsTouchDue(now, row.seen)
           THEN Proceed(p, "touch", [ctx[p] EXCEPT !.at = now])
           ELSE Proceed(p, AfterValidation(ctx[p].kind), Validated(p))
        /\ UNCHANGED locks
  /\ UNCHANGED <<now, authorityRows, sessions>>

\* Variants of the WHERE clause: without revoked_at, and without last_seen_at.
TouchableRevoked(t, at) ==
  /\ Exists(t)
  /\ sessions[t].expires > at
  /\ sessions[t].seen + IdleTimeout > at
  /\ sessions[t].seen + TouchInterval <= at
TouchableAnytime(t, at) == Unrevoked(t) /\ sessions[t].expires > at

\* The WHERE clause of the touch, on the row the UPDATE finds.
Touchable(t, at) ==
  /\ Unrevoked(t)
  /\ sessions[t].expires > at
  /\ sessions[t].seen + IdleTimeout > at
  /\ sessions[t].seen + TouchInterval <= at
  /\ sessions[t].seen < at

\* The clock was read before: the UPDATE may run long after ctx[p].at.
TouchLastSeenIfDue(p) ==
  LET t == ctx[p].token IN
  /\ pc[p] = "touch"
  /\ Touchable(t, ctx[p].at) => CanLock(p, SessionLock(t), "X")
  /\ sessions' = IF Touchable(t, ctx[p].at)
                 THEN [sessions EXCEPT ![t].seen = ctx[p].at] ELSE sessions
  /\ Proceed(p, AfterValidation(ctx[p].kind), Validated(p))
  /\ UNCHANGED <<now, authorityRows, locks>>

----------------------------------------------------------------------------
(* Logout: revokeSession *)

RevokeSession(p) ==
  /\ pc[p] = "logout"
  /\ Proceed(p, "revoke", [ctx[p] EXCEPT !.at = now])
  /\ UNCHANGED storeVars

RevokeByTokenHash(p) ==
  LET t == ctx[p].token IN
  /\ pc[p] = "revoke"
  /\ Unrevoked(t) => CanLock(p, SessionLock(t), "X")
  /\ sessions' = IF Unrevoked(t)
                 THEN [sessions EXCEPT ![t].revoked = ctx[p].at] ELSE sessions
  /\ Finish(p)
  /\ UNCHANGED <<now, authorityRows>>

----------------------------------------------------------------------------
(* Renewal: SessionRenewalService.execute and PrismaSessionRepository.replace *)

\* An exhausted rate limit and a user who is not Active both end the request.
FindIdentity(p) ==
  /\ pc[p] = "identity"
  /\ \/ /\ users[ctx[p].user] = "Active"
        /\ Proceed(p, "credential", ctx[p])
        /\ UNCHANGED locks
     \/ Finish(p)
  /\ UNCHANGED <<now, authorityRows, sessions>>

FindCredential(p) ==
  /\ pc[p] = "credential"
  /\ Proceed(p, "verify", [ctx[p] EXCEPT !.hash = credentials[ctx[p].user]])
  /\ UNCHANGED <<now, authorityRows, sessions, locks>>

\* findUnique again, the user and then the credential.
FindPasswordIdentity(p) == FindIdentity(p) \/ FindCredential(p)

\* Argon2 accepts the password or not; then a fresh token, the creation
\* instant, and the transaction begins.
VerifyPassword(p) ==
  /\ pc[p] = "verify"
  /\ \/ \E t \in Token \ {ctx[p].token} :
          /\ Proceed(p, "lockSession",
               [ctx[p] EXCEPT !.fresh = t, !.at = now])
          /\ UNCHANGED locks
     \/ Finish(p)
  /\ UNCHANGED <<now, authorityRows, sessions>>

LockSession(p) ==
  LET t == ctx[p].token IN
  /\ pc[p] = "lockSession"
  /\ CanLock(p, SessionLock(t), "X")
  /\ \/ /\ Unrevoked(t)
        /\ sessions[t].user = ctx[p].user
        /\ ~RowExpired(sessions[t], now)
        /\ Acquire(p, SessionLock(t), "X")
        /\ Proceed(p, "lockUser", [ctx[p] EXCEPT !.row = sessions[t]])
     \/ /\ \/ ~Unrevoked(t)
           \/ sessions[t].user # ctx[p].user
           \/ RowExpired(sessions[t], now)
        /\ Finish(p)
  /\ UNCHANGED <<now, authorityRows, sessions>>

LockUser(p) ==
  LET u == ctx[p].user IN
  /\ pc[p] = "lockUser"
  /\ CanLock(p, UserLock(u), "S")
  /\ \/ /\ users[u] = "Active"
        /\ Acquire(p, UserLock(u), "S")
        /\ Goto(p, "lockCredential")
     \/ users[u] # "Active" /\ Finish(p)
  /\ UNCHANGED <<now, authorityRows, sessions>>

\* Variant: the credential read with its user, FOR UPDATE of both.
LockCredentialAndUser(p) ==
  LET u == ctx[p].user IN
  /\ pc[p] = "lockCredential"
  /\ CanLock(p, CredentialLock(u), "X") /\ CanLock(p, UserLock(u), "X")
  /\ \/ /\ credentials[u] = ctx[p].hash
        /\ Acquire(p, CredentialLock(u), "X")
        /\ Goto(p, IF ctx[p].row.org = None THEN "write" ELSE "lockMembership")
     \/ credentials[u] # ctx[p].hash /\ Finish(p)
  /\ UNCHANGED <<now, authorityRows, sessions>>

LockCredential(p) ==
  LET u == ctx[p].user IN
  /\ pc[p] = "lockCredential"
  /\ CanLock(p, CredentialLock(u), "S")
  /\ \/ /\ credentials[u] = ctx[p].hash
        /\ Acquire(p, CredentialLock(u), "S")
        /\ Goto(p, IF ctx[p].row.org = None THEN "write" ELSE "lockMembership")
     \/ credentials[u] # ctx[p].hash /\ Finish(p)
  /\ UNCHANGED <<now, authorityRows, sessions>>

\* Variant: the version the old session was carrying.
LockMembershipOldVersion(p) ==
  LET u == ctx[p].user
      o == ctx[p].row.org IN
  /\ pc[p] = "lockMembership"
  /\ Acquire(p, MembershipLock(u, o), "S")
  /\ IF memberships[<<u, o>>].status = "Active"
     THEN Proceed(p, "lockOrganization",
            [ctx[p] EXCEPT !.version = ctx[p].row.version])
     ELSE Goto(p, "write")
  /\ UNCHANGED <<now, authorityRows, sessions>>

\* resolveSelected keeps the old session's organization, with the version the
\* membership has now, or nothing at all.
LockMembership(p) ==
  LET u == ctx[p].user
      o == ctx[p].row.org IN
  /\ pc[p] = "lockMembership"
  /\ Acquire(p, MembershipLock(u, o), "S")
  /\ IF memberships[<<u, o>>].status = "Active"
     THEN Proceed(p, "lockOrganization",
            [ctx[p] EXCEPT !.version = memberships[<<u, o>>].version])
     ELSE Goto(p, "write")
  /\ UNCHANGED <<now, authorityRows, sessions>>

\* The status is read in the statement after the lock; no step of this or a
\* compliant transaction can come between that matters.
LockOrganization(p) ==
  LET o == ctx[p].row.org IN
  /\ pc[p] = "lockOrganization"
  /\ Acquire(p, OrganizationLock(o), "S")
  /\ Proceed(p, "write", IF orgs[o] = "Active"
       THEN [ctx[p] EXCEPT !.org = o] ELSE [ctx[p] EXCEPT !.version = None])
  /\ UNCHANGED <<now, authorityRows, sessions>>

\* A replacement that is written but not committed.
Pending(t) == \E q \in Worker : pc[q] = "commit" /\ ctx[q].fresh = t

\* Variant: the deadline is not looked at again after the lock waits.
NeverLapses(p) == FALSE

\* A lock wait may have consumed the old session's remaining lifetime.
Lapsed(p) == RowExpired(ctx[p].row, now)

\* The clock is read again; the INSERT waits on an uncommitted row with the
\* same token and fails on a committed one.
WriteReplacement(p) ==
  /\ pc[p] = "write"
  /\ \/ Lapsed(p) /\ Finish(p)
     \/ /\ ~Lapsed(p)
        /\ ~Pending(ctx[p].fresh)
        /\ \/ Exists(ctx[p].fresh) /\ Finish(p)
           \/ /\ ~Exists(ctx[p].fresh)
              /\ Proceed(p, "commit", [ctx[p] EXCEPT !.revokeAt = now])
              /\ UNCHANGED locks
  /\ UNCHANGED <<now, authorityRows, sessions>>

\* INSERT of the replacement and UPDATE of the old row become visible at once.
CommitReplacement(p) ==
  LET c == ctx[p] IN
  /\ pc[p] = "commit"
  /\ sessions' = [sessions EXCEPT
       ![c.fresh] = NewSession(c.user, c.org, c.version, c.at, c.token),
       ![c.token].revoked = c.revokeAt]
  /\ Finish(p)
  /\ UNCHANGED <<now, authorityRows>>

----------------------------------------------------------------------------
(* Login, after the password is verified: createSession, createForActiveUser *)

CreateSession(p, u) ==
  /\ pc[p] = "idle" /\ "login" \in Kind
  /\ \E t \in Token : Proceed(p, "lockLogin",
       [ctx[p] EXCEPT !.kind = "login", !.user = u, !.at = now, !.fresh = t])
  /\ UNCHANGED storeVars

LockLoginUser(p) ==
  LET u == ctx[p].user IN
  /\ pc[p] = "lockLogin"
  /\ CanLock(p, UserLock(u), "X")
  /\ \/ /\ users[u] = "Active"
        /\ Acquire(p, UserLock(u), "X")
        /\ Goto(p, "insertLogin")
     \/ users[u] # "Active" /\ Finish(p)
  /\ UNCHANGED <<now, authorityRows, sessions>>

\* Variants: one attempt too many, and a retry inside the same transaction.
RetryOnceMore(p) ==
  /\ ctx[p].attempt <= MaxAttempts
  /\ \E t \in Token : Proceed(p, "lockLogin",
       [ctx[p] EXCEPT !.fresh = t, !.attempt = @ + 1])
  /\ Release(p)
RetryInside(p) ==
  /\ ctx[p].attempt < MaxAttempts
  /\ \E t \in Token : Proceed(p, "lockLogin",
       [ctx[p] EXCEPT !.fresh = t, !.attempt = @ + 1])
  /\ UNCHANGED locks

\* A collision rolls the transaction back and retries with another token.
Retry(p) ==
  /\ ctx[p].attempt < MaxAttempts
  /\ \E t \in Token : Proceed(p, "lockLogin",
       [ctx[p] EXCEPT !.fresh = t, !.attempt = @ + 1])
  /\ Release(p)

InsertSession(p) ==
  LET c == ctx[p] IN
  /\ pc[p] = "insertLogin"
  /\ ~Pending(c.fresh)
  /\ \/ /\ ~Exists(c.fresh)
        /\ sessions' = [sessions EXCEPT
             ![c.fresh] = NewSession(c.user, None, None, c.at, None)]
        /\ Finish(p)
     \/ /\ Exists(c.fresh)
        /\ Retry(p) \/ (c.attempt = MaxAttempts /\ Finish(p))
        /\ UNCHANGED sessions
  /\ UNCHANGED <<now, authorityRows>>

----------------------------------------------------------------------------
(* Bulk revocation: revokeAllSessionsForUser, revokeAllForUser *)

RevokeAllSessions(p, u) ==
  /\ pc[p] = "idle" /\ "revokeAll" \in Kind
  /\ Proceed(p, "snapshot",
       [ctx[p] EXCEPT !.kind = "revokeAll", !.user = u, !.at = now])
  /\ UNCHANGED storeVars

\* The rows the UPDATE's snapshot selects.  lockout is not state of the code:
\* it records whether the user was already disabled.
RevokeAllForUser(p) ==
  LET u == ctx[p].user IN
  /\ pc[p] = "snapshot"
  /\ Proceed(p, "revokeRows", [ctx[p] EXCEPT
       !.snapshot = {t \in Token : Unrevoked(t) /\ sessions[t].user = u},
       !.lockout = users[u] # "Active"])
  /\ UNCHANGED storeVars

Locked(p, t) == [res |-> SessionLock(t), mode |-> "X"] \in locks[p]

\* It waits for each row in turn; a row revoked meanwhile is left as it is.
RevokeRow(p) ==
  /\ pc[p] = "revokeRows"
  /\ \E t \in ctx[p].snapshot :
       ~Locked(p, t) /\ Acquire(p, SessionLock(t), "X")
  /\ UNCHANGED <<now, authorityRows, sessions, lifeVars>>

\* ck_sessions__lifecycle refuses the whole UPDATE when a session in the
\* snapshot was created after the instant that was captured before it.
RevocationsRefused(p) ==
  /\ pc[p] = "revokeRows"
  /\ \E t \in ctx[p].snapshot :
       Locked(p, t) /\ Unrevoked(t) /\ sessions[t].created > ctx[p].at
  /\ Finish(p)
  /\ UNCHANGED <<now, authorityRows, sessions>>

\* Variant: rows that are locked are skipped.
CommitUnlockedRevocations(p) ==
  /\ pc[p] = "revokeRows"
  /\ \A t \in ctx[p].snapshot :
       Locked(p, t) \/ ~CanLock(p, SessionLock(t), "X")
  /\ sessions' = [t \in Token |->
       IF t \in ctx[p].snapshot /\ Locked(p, t) /\ Unrevoked(t)
       THEN [sessions[t] EXCEPT !.revoked = ctx[p].at] ELSE sessions[t]]
  /\ Release(p)
  /\ Goto(p, "revokedAll")
  /\ UNCHANGED <<now, authorityRows>>

CommitRevocations(p) ==
  /\ pc[p] = "revokeRows"
  /\ \A t \in ctx[p].snapshot :
       Locked(p, t) /\ (Unrevoked(t) => sessions[t].created <= ctx[p].at)
  /\ sessions' = [t \in Token |->
       IF t \in ctx[p].snapshot /\ Unrevoked(t)
       THEN [sessions[t] EXCEPT !.revoked = ctx[p].at] ELSE sessions[t]]
  /\ Release(p)
  /\ Goto(p, "revokedAll")
  /\ UNCHANGED <<now, authorityRows>>

ReturnFromRevokeAll(p) ==
  /\ pc[p] = "revokedAll"
  /\ Finish(p)
  /\ UNCHANGED <<now, authorityRows, sessions>>

----------------------------------------------------------------------------
(* Selecting a tenant *)

\* What a resolution of PrismaTenantAuthority commits to a session: a first
\* selection, at the version of an Active membership.  TenantAccess models
\* the resolution itself and is checked to do no more than this.
SelectOrganization(t) ==
  LET u == sessions[t].user IN
  /\ Unrevoked(t)
  /\ sessions[t].org = None
  /\ Unlocked(SessionLock(t))
  /\ users[u] = "Active"
  /\ \E o \in Org :
       /\ memberships[<<u, o>>].status = "Active"
       /\ sessions' = [sessions EXCEPT
            ![t].org = o, ![t].version = memberships[<<u, o>>].version]
  /\ UNCHANGED <<now, authorityRows, locks, lifeVars>>

----------------------------------------------------------------------------

\* A transaction can fail at any point: the process or the connection is
\* lost, Prisma's timeout passes, or PostgreSQL picks it as deadlock victim.
Rollback(p) ==
  /\ pc[p] \in TxSteps
  /\ Finish(p)
  /\ UNCHANGED <<now, authorityRows, sessions>>

Start(p) ==
  \/ \E kind \in Kind, t \in Token : Request(p, kind, t)
  \/ \E u \in User : CreateSession(p, u) \/ RevokeAllSessions(p, u)

Validate(p) ==
  FindForValidation(p) \/ ValidateSession(p) \/ TouchLastSeenIfDue(p)

Logout(p) == RevokeSession(p) \/ RevokeByTokenHash(p)

Replace(p) ==
  \/ LockSession(p) \/ LockUser(p) \/ LockCredential(p)
  \/ LockMembership(p) \/ LockOrganization(p)
  \/ WriteReplacement(p) \/ CommitReplacement(p)

Renew(p) == FindPasswordIdentity(p) \/ VerifyPassword(p) \/ Replace(p)

Login(p) == LockLoginUser(p) \/ InsertSession(p)

RevokeAll(p) ==
  \/ RevokeAllForUser(p) \/ RevokeRow(p)
  \/ RevocationsRefused(p) \/ CommitRevocations(p) \/ ReturnFromRevokeAll(p)

Step(p) == Validate(p) \/ Logout(p) \/ Renew(p) \/ Login(p) \/ RevokeAll(p)

Next ==
  \/ \E p \in Worker : Start(p) \/ Step(p) \/ Rollback(p)
  \/ \E t \in Token : SelectOrganization(t)
  \/ Environment /\ UNCHANGED lifeVars

Spec == Init /\ [][Next]_vars

\* Two bulk revocations each hold a row the other is to lock: once their waits
\* meet, PostgreSQL makes one of them fail.
DeadlockVictim(p) ==
  /\ pc[p] = "revokeRows"
  /\ \E q \in Worker \ {p} : pc[q] = "revokeRows" /\
       \E s \in ctx[p].snapshot, t \in ctx[q].snapshot : Locked(q, s) /\ Locked(p, t)
  /\ Rollback(p)

\* PostgreSQL queues lock requests in order, so a request that waits for a
\* lock again and again becomes free is served: strong fairness.
FairSpec ==
  /\ Spec
  /\ \A p \in Worker : SF_vars(Step(p))
  /\ WF_vars(\E p \in Worker : DeadlockVictim(p))

----------------------------------------------------------------------------
(* Properties *)

\* A session is replaced by at most one renewal, and is revoked as soon as its
\* replacement exists: competing renewals, lost transactions and logouts never
\* leave two usable sessions of one login (replace, SECURITY.md, section 38.1).
RenewalIsLinear ==
  \A s, t \in Token :
    /\ Exists(s) /\ Exists(t) /\ sessions[s].parent # None
       /\ sessions[s].parent = sessions[t].parent => s = t
    /\ Exists(s) /\ sessions[s].parent = t =>
         Exists(t) /\ sessions[t].revoked # None

\* A renewed session had not reached its deadline at the instant the
\* transaction recorded as its revocation, however long the locks took.
ReplacedWhileLive ==
  \A t \in Token :
    Exists(t) /\ sessions[t].parent # None =>
      LET old == sessions[sessions[t].parent] IN ~RowExpired(old, old.revoked)

\* The table of the row a step waits for, as a lock rank.
WantedRank(label) ==
  CASE label \in {"touch", "revoke", "lockSession", "revokeRows"} -> 1
    [] label \in {"lockUser", "lockLogin"} -> 2
    [] label = "lockCredential" -> 3
    [] label = "lockMembership" -> 4
    [] label = "lockOrganization" -> 5
    [] OTHER -> 6

\* Every transaction takes its locks in one order, Session, User, credential,
\* Membership, Organization: requests cannot wait for each other in a circle.
\* (A bulk revocation locks several sessions in no particular order.)
LockOrder ==
  \A p \in Worker : pc[p] # "revokeRows" =>
    \A l \in locks[p] : LockRank(l.res[1]) < WantedRank(pc[p])

\* When a bulk revocation returns, every session its statement saw is revoked,
\* those it had to wait for included (revokeAllForUser).
RevokeAllCovers ==
  \A p \in Worker : pc[p] = "revokedAll" =>
    \A t \in ctx[p].snapshot : sessions[t].revoked # None

\* Disabling a user and then revoking all sessions leaves none: a login or a
\* renewal in flight cannot slip a session in behind the revocation.
DisabledUserLockedOut ==
  \A p \in Worker : pc[p] = "revokedAll" /\ ctx[p].lockout =>
    \A t \in Token :
      Exists(t) /\ sessions[t].user = ctx[p].user => sessions[t].revoked # None

\* A revoked session never changes again: no touch, no second revocation, no
\* selection and no renewal rewrites it.
RevocationIsFinal ==
  [][\A t \in Token : Exists(t) /\ sessions[t].revoked # None =>
       sessions'[t] = sessions[t]]_vars

\* last_seen_at moves only forward, by a whole touch interval at least, and
\* only on an unrevoked session and to an instant at which it was live,
\* whatever the order in which concurrent touches arrive.
TouchIsEarned ==
  [][\A t \in Token : Exists(t) /\ sessions'[t].seen # sessions[t].seen =>
       LET row == sessions[t]
           at == sessions'[t].seen IN
       /\ row.revoked = None
       /\ row.seen + TouchInterval <= at
       /\ ~RowExpired(row, at)]_vars

\* A session appears only while its user is Active and, when a renewal makes
\* it, while the password hash the renewal verified is still the current one.
CreatedUnderCurrentCredential ==
  [][\A t \in Token : ~Exists(t) /\ sessions'[t] # None =>
       LET row == sessions'[t] IN
       /\ users[row.user] = "Active"
       /\ row.parent # None => \E p \in Worker :
            /\ pc[p] = "commit" /\ ctx[p].fresh = t
            /\ ctx[p].hash = credentials[row.user]]_vars

\* A session's authorization snapshot is written once, from an Active
\* membership at its version of that moment; a renewal may keep the selection
\* it replaces, for an Active organization, but never picks another one.
SelectionIsCurrent ==
  [][\A t \in Token :
       LET new == sessions'[t] IN
       /\ new # None /\ new.org # None
       /\ Exists(t) =>
            <<new.org, new.version>> # <<sessions[t].org, sessions[t].version>>
       => /\ memberships[<<new.user, new.org>>].status = "Active"
          /\ memberships[<<new.user, new.org>>].version = new.version
          /\ IF Exists(t) THEN sessions[t].org = None
             ELSE /\ new.org = sessions[new.parent].org
                  /\ Compliant => orgs[new.org] = "Active"]_vars

\* Every request ends, whatever locks the others hold.
EveryRequestEnds ==
  \A p \in Worker : pc[p] # "idle" ~> pc[p] = "idle"

\* What the repository's test says of a touch, that it "never revives or
\* extends a terminal session": a session past its deadline stays so.
NeverRevived ==
  [][\A t \in Token : Exists(t) /\ RowExpired(sessions[t], now) =>
       RowExpired(sessions'[t], now')]_vars

----------------------------------------------------------------------------
(* The promise kept *)

\* A session is over when it is revoked.  One past its deadline is not: a touch
\* may still come and set that deadline further off (NeverRevived).
LifeOf(row) ==
  IF row = None THEN None
  ELSE [user |-> row.user, parent |-> row.parent,
        state |-> IF row.revoked = None THEN "open" ELSE "ended"]

Life == [t \in Token |-> LifeOf(sessions[t])]

Contract == INSTANCE SessionContract WITH life <- Life

\* NULL is not a life.
ASSUME LifeAssumption == None \notin Contract!Session

\* Statement by statement and whatever runs beside them, the requests do to
\* sessions only what SessionContract promises: issue, hand over, end for good.
ContractSpec == Contract!Spec

----------------------------------------------------------------------------
(* The inductive invariant behind the safety properties *)

\* Two transactions hold the same lock only when both hold it shared.
LockExclusion ==
  \A p, q \in Worker : p # q =>
    \A l \in locks[p], m \in locks[q] :
      l.res = m.res => l.mode = "S" /\ m.mode = "S"

Holds(p, res, mode) == [res |-> res, mode |-> mode] \in locks[p]

\* What a request at step label has captured in its context c.
CapturedAt(label, c) ==
  /\ label \in {"find", "validate", "touch", "logout", "revoke", "identity",
               "credential", "verify"} \cup ReplaceSteps => c.token \in Token
  /\ label \in {"find", "validate", "touch"} =>
       c.kind \in {"session", "logout", "renew"}
  /\ label \in {"validate", "touch"} => c.row \in SessionRow
  /\ label \in {"logout", "revoke", "identity", "credential", "verify",
               "snapshot", "revokedAll"} \cup TxSteps => c.user \in User
  /\ label \in {"lockLogin", "insertLogin"} \cup ReplaceSteps =>
       c.fresh \in Token
  /\ label \in {"lockMembership", "lockOrganization"} => c.row.org \in Org

Captured(p) == CapturedAt(pc[p], ctx[p])

\* From its lock on, a renewal holds the old session, and the row it read is
\* the row that is there.
HoldsOld(p) ==
  pc[p] \in ReplaceSteps \ {"lockSession"} =>
    /\ Holds(p, SessionLock(ctx[p].token), "X")
    /\ Unrevoked(ctx[p].token)
    /\ ctx[p].row = sessions[ctx[p].token]

\* The user and the credential it found stay as it found them.
HoldsUser(p) ==
  /\ pc[p] \in ReplaceSteps \ {"lockSession", "lockUser"} =>
       Holds(p, UserLock(ctx[p].user), "S") /\ users[ctx[p].user] = "Active"
  /\ pc[p] = "insertLogin" =>
       Holds(p, UserLock(ctx[p].user), "X") /\ users[ctx[p].user] = "Active"

HoldsCredential(p) ==
  pc[p] \in ReplaceSteps \ {"lockSession", "lockUser", "lockCredential"} =>
    /\ Holds(p, CredentialLock(ctx[p].user), "S")
    /\ credentials[ctx[p].user] = ctx[p].hash

\* The token of an uncommitted replacement is nobody else's.
PendingApart ==
  \A p \in Worker : pc[p] = "commit" =>
    /\ ~Exists(ctx[p].fresh)
    /\ \A q \in Worker \ {p} : pc[q] = "commit" => ctx[q].fresh # ctx[p].fresh

IInv ==
  /\ TypeOK
  /\ LockExclusion
  /\ \A p \in Worker :
       Captured(p) /\ HoldsOld(p) /\ HoldsUser(p) /\ HoldsCredential(p)
  /\ PendingApart
  /\ RenewalIsLinear

\* These requests hold locks inside their transactions only.  IInv does not
\* rest on it: a worker that is idle here may hold locks of TenantAccess.
NoLocksOutside == \A p \in Worker : pc[p] \notin TxSteps => locks[p] = {}

\* What a renewal has resolved for its replacement stays so while it holds the
\* membership and, once it keeps the organization, the advisory lock.
SelectionHeld(p) ==
  LET c == ctx[p]
      o == c.row.org IN
  /\ pc[p] = "lockOrganization" => c.version # None
  /\ c.version # None =>
       /\ pc[p] \in {"lockOrganization", "write", "commit"}
       /\ o \in Org
       /\ Holds(p, MembershipLock(c.user, o), "S")
       /\ memberships[<<c.user, o>>].status = "Active"
       /\ memberships[<<c.user, o>>].version = c.version
  /\ c.org # None =>
       /\ pc[p] \in {"write", "commit"}
       /\ c.version # None /\ c.org = o
       /\ Holds(p, OrganizationLock(o), "S")
       /\ Compliant => orgs[o] = "Active"

\* The replacement that is written was written before the old deadline.
WrittenLive(p) ==
  pc[p] = "commit" => ~RowExpired(ctx[p].row, ctx[p].revokeAt)

\* From its lock on, a renewal replaces a session of its own user.
OwnsOld(p) ==
  pc[p] \in ReplaceSteps \ {"lockSession"} =>
    sessions[ctx[p].token].user = ctx[p].user

\* A bulk revocation has selected sessions of its own user only.
OwnsSnapshot(p) ==
  pc[p] = "revokeRows" => \A t \in ctx[p].snapshot :
    Exists(t) /\ sessions[t].user = ctx[p].user

Ownership == \A p \in Worker : OwnsOld(p) /\ OwnsSnapshot(p)

UnrevokedOf(u) == {t \in Token : Unrevoked(t) /\ sessions[t].user = u}

\* A bulk revocation has selected all that a disabled user has left, and no
\* session joins them; once it is through, its selection is revoked.
RevocationCovers(p) ==
  LET c == ctx[p] IN
  /\ pc[p] \in {"revokeRows", "revokedAll"} /\ c.lockout =>
       users[c.user] # "Active" /\ UnrevokedOf(c.user) \subseteq c.snapshot
  /\ pc[p] = "revokedAll" =>
       \A t \in c.snapshot : Exists(t) /\ sessions[t].revoked # None

\* Given IInv, what the renewals and revocations in flight will have done is
\* right too.
OutcomeInv ==
  /\ \A p \in Worker :
       SelectionHeld(p) /\ WrittenLive(p) /\ RevocationCovers(p)
  /\ ReplacedWhileLive
==============================================================================
