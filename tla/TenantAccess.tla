---------------------------- MODULE TenantAccess ------------------------------
(***************************************************************************)
(* Requests that work inside an organization: PrismaTenantAuthority        *)
(* resolves the organization of a session, selecting it when the user has  *)
(* only one, and PrismaTenantPersistenceScope runs an operation under that *)
(* authority.  They share rows and locks with the requests of              *)
(* SessionLifecycle, which run beside them; a worker serves one request at *)
(* a time.  One action is one database statement, a statement that locks   *)
(* several rows is one action for each, and the rows such a statement      *)
(* reads without locking them are read when it starts.                     *)
(***************************************************************************)
EXTENDS SessionLifecycle, AuthorizationPolicy, FiniteSets

CONSTANTS
  Mode,       \* how operations run: "authorized" (runAuthorized), "run" (run)
  Required    \* the permissions that operations require

ASSUME TenantAssumption ==
  /\ Mode \subseteq {"authorized", "run"}
  /\ Required \subseteq Permission
  /\ Role \subseteq MembershipRole

VARIABLES
  step,   \* step[p]: the next step of p's tenant request
  seat,   \* seat[p]: what that request has read so far
  rows    \* rows[o]: the data of organization o, a bit its writers flip

tenantVars == <<step, seat, rows>>
allVars == <<vars, tenantVars>>

\* cand, found: candidate memberships still to lock, and locked;
\* active: organization status the statement saw; pick, pickVersion: the
\* selection that is written but not committed; again: second reading; at: the
\* last look at the deadline; lease: the repositories of the scope may be used;
\* wrote: whether they were, and whether after the authority's last check.
NoSeat ==
  [token |-> None, user |-> None, cand |-> {}, found |-> {}, active |-> FALSE,
   pick |-> None, pickVersion |-> None, again |-> FALSE, org |-> None,
   at |-> 0, mode |-> "run", need |-> "organization.read", lease |-> FALSE,
   wrote |-> "nothing"]

ResolveSteps ==
  {"session", "user", "candidates", "lockCandidates", "select", "selected",
   "lockSelected", "resolved"}
ScopeSteps ==
  {"scopeSession", "scopeUser", "scopeMembership", "scopeOrganization",
   "operate", "recheck", "commitOperation"}

Seat ==
  [token: Token \cup {None}, user: User \cup {None}, cand: SUBSET Org,
   found: SUBSET Org, active: BOOLEAN, pick: Org \cup {None},
   pickVersion: Nat \cup {None}, again: BOOLEAN, org: Org \cup {None},
   at: Nat, mode: {"authorized", "run"}, need: Permission, lease: BOOLEAN,
   wrote: {"nothing", "checked", "unchecked"}]

TenantTypeOK ==
  /\ step \in [Worker -> {"idle"} \cup ResolveSteps \cup ScopeSteps]
  /\ seat \in [Worker -> Seat]
  /\ rows \in [Org -> {0, 1}]
  /\ \A p \in Worker : pc[p] = "idle" \/ step[p] = "idle"
  /\ \A p \in Worker : pc[p] = "idle" /\ step[p] = "idle" => locks[p] = {}

TenantInit ==
  /\ Init
  /\ step = [p \in Worker |-> "idle"]
  /\ seat = [p \in Worker |-> NoSeat]
  /\ rows = [o \in Org |-> 0]

Advance(p, label, s) ==
  /\ step' = [step EXCEPT ![p] = label]
  /\ seat' = [seat EXCEPT ![p] = s]

\* Variant: the connection goes back to the pool with its transaction open.
DenyInTransaction(p) == Advance(p, "idle", NoSeat) /\ UNCHANGED locks

\* The transaction ends without an effect, and the request is answered.
Deny(p) == Advance(p, "idle", NoSeat) /\ Release(p)

\* Everything but the locks and the request's own state stays.
ReadsOnly == UNCHANGED <<now, authorityRows, sessions, lifeVars, rows>>

----------------------------------------------------------------------------
(* PrismaTenantAuthority.resolve *)

\* The HTTP boundary has validated the session at some earlier moment.
ResolveTenant(p, t) ==
  /\ pc[p] = "idle" /\ step[p] = "idle" /\ Exists(t)
  /\ Advance(p, "session",
       [NoSeat EXCEPT !.token = t, !.user = sessions[t].user])
  /\ UNCHANGED <<storeVars, lifeVars, rows>>

\* Variant: the session is locked as validate() locks it.
LoadSessionShared(p) ==
  /\ step[p] = "session"
  /\ Acquire(p, SessionLock(seat[p].token), "S")
  /\ Advance(p, "user", seat[p])
  /\ ReadsOnly

LoadSession(p) ==
  /\ step[p] = "session"
  /\ Acquire(p, SessionLock(seat[p].token), "X")
  /\ Advance(p, "user", seat[p])
  /\ ReadsOnly

\* The transaction sees its own selection.
SelectionSeen(p) ==
  IF seat[p].pick # None THEN seat[p].pick ELSE sessions[seat[p].token].org

\* With its user, the session row is complete; then the clock is read.
LoadUser(p) ==
  LET t == seat[p].token
      u == seat[p].user IN
  /\ step[p] = "user"
  /\ Acquire(p, UserLock(u), "S")
  /\ Advance(p,
       CASE users[u] # "Active" \/ ~Unrevoked(t) \/ RowExpired(sessions[t], now)
              -> "resolved"
         [] OTHER -> IF SelectionSeen(p) = None THEN "candidates" ELSE "selected",
       seat[p])
  /\ ReadsOnly

Candidates(u) ==
  {o \in Org : memberships[<<u, o>>].status = "Active" /\ orgs[o] = "Active"}

\* The snapshot of the statement: both statuses of every membership ...
LoadAuthorizedCandidates(p) ==
  /\ step[p] = "candidates"
  /\ Advance(p, "lockCandidates",
       [seat[p] EXCEPT !.cand = Candidates(seat[p].user), !.found = {}])
  /\ UNCHANGED locks /\ ReadsOnly

\* ... and the rows it locks, each read again, until it has two of them.
LockCandidate(p) ==
  /\ step[p] = "lockCandidates"
  /\ Cardinality(seat[p].found) < 2
  /\ \E o \in seat[p].cand :
       /\ Acquire(p, MembershipLock(seat[p].user, o), "S")
       /\ Advance(p, "lockCandidates",
            [seat[p] EXCEPT !.cand = @ \ {o},
               !.found = IF memberships[<<seat[p].user, o>>].status = "Active"
                         THEN @ \cup {o} ELSE @])
  /\ ReadsOnly

\* Only a sole candidate is selected, and only on the first reading.
ResolveCandidates(p) ==
  /\ step[p] = "lockCandidates"
  /\ seat[p].cand = {} \/ Cardinality(seat[p].found) = 2
  /\ IF Cardinality(seat[p].found) = 1 /\ ~seat[p].again
     THEN Advance(p, "select", [seat[p] EXCEPT !.at = now])
     ELSE Advance(p, "resolved", seat[p])
  /\ UNCHANGED locks /\ ReadsOnly

\* Variant: the UPDATE takes any of the user's Active memberships.
PersistAnySelection(p) ==
  LET t == seat[p].token
      u == seat[p].user IN
  /\ step[p] = "select"
  /\ \E o \in Org :
       /\ memberships[<<u, o>>].status = "Active"
       /\ Advance(p, "user", [seat[p] EXCEPT !.again = TRUE, !.pick = o,
            !.pickVersion = memberships[<<u, o>>].version])
  /\ UNCHANGED locks /\ ReadsOnly

\* One UPDATE looks at everything again; when it no longer holds, it changes
\* nothing and the reading that follows decides.
PersistAutoSelection(p) ==
  LET t == seat[p].token
      u == seat[p].user IN
  /\ step[p] = "select"
  /\ CanLock(p, SessionLock(t), "X")
  /\ \E o \in seat[p].found :
       Advance(p, "user",
         IF /\ sessions[t].org = None /\ Unrevoked(t)
            /\ ~RowExpired(sessions[t], seat[p].at)
            /\ users[u] = "Active"
            /\ Candidates(u) = {o}
         THEN [seat[p] EXCEPT !.again = TRUE, !.pick = o,
                              !.pickVersion = memberships[<<u, o>>].version]
         ELSE [seat[p] EXCEPT !.again = TRUE])
  /\ UNCHANGED locks /\ ReadsOnly

\* The selected membership is locked; its organization is read as the
\* statement starts.
LoadSelected(p) ==
  /\ step[p] = "selected"
  /\ Advance(p, "lockSelected",
       [seat[p] EXCEPT !.active = orgs[SelectionSeen(p)] = "Active"])
  /\ UNCHANGED locks /\ ReadsOnly

LockSelected(p) ==
  LET o == SelectionSeen(p) IN
  /\ step[p] = "lockSelected"
  /\ Acquire(p, MembershipLock(seat[p].user, o), "S")
  /\ Advance(p, "resolved",
       IF seat[p].active /\ memberships[<<seat[p].user, o>>].status = "Active"
       THEN [seat[p] EXCEPT !.org = o] ELSE seat[p])
  /\ ReadsOnly

\* The transaction commits whatever it answers.  A resolved request goes on
\* to an operation of its handler, in a transaction of its own.
CommitResolution(p) ==
  LET t == seat[p].token IN
  /\ step[p] = "resolved"
  /\ sessions' = IF seat[p].pick = None THEN sessions
                 ELSE [sessions EXCEPT ![t].org = seat[p].pick,
                                       ![t].version = seat[p].pickVersion]
  /\ IF seat[p].org = None THEN Advance(p, "idle", NoSeat)
     ELSE \E mode \in Mode, need \in Required :
       Advance(p, "scopeSession",
         [NoSeat EXCEPT !.token = t, !.user = seat[p].user,
            !.org = seat[p].org, !.mode = mode, !.need = need])
  /\ Release(p)
  /\ UNCHANGED <<now, authorityRows, lifeVars, rows>>

----------------------------------------------------------------------------
(* PrismaTenantPersistenceScope.run and runAuthorized *)

ScopeSession(p) ==
  LET t == seat[p].token IN
  /\ step[p] = "scopeSession"
  /\ CanLock(p, SessionLock(t), "X")
  /\ \/ /\ sessions[t].org = seat[p].org
        /\ Unrevoked(t)
        /\ ~RowExpired(sessions[t], now)
        /\ Acquire(p, SessionLock(t), "X")
        /\ Advance(p, "scopeUser", [seat[p] EXCEPT !.at = now])
     \/ /\ \/ sessions[t].org # seat[p].org
           \/ ~Unrevoked(t)
           \/ RowExpired(sessions[t], now)
        /\ Deny(p)
  /\ ReadsOnly

ScopeUser(p) ==
  LET u == seat[p].user IN
  /\ step[p] = "scopeUser"
  /\ CanLock(p, UserLock(u), "S")
  /\ \/ /\ users[u] = "Active"
        /\ Acquire(p, UserLock(u), "S")
        /\ Advance(p, "scopeMembership", seat[p])
     \/ users[u] # "Active" /\ Deny(p)
  /\ ReadsOnly

ScopeMembership(p) ==
  LET u == seat[p].user
      o == seat[p].org IN
  /\ step[p] = "scopeMembership"
  /\ CanLock(p, MembershipLock(u, o), "S")
  /\ \/ /\ memberships[<<u, o>>].status = "Active"
        /\ Acquire(p, MembershipLock(u, o), "S")
        /\ Advance(p, "scopeOrganization", seat[p])
     \/ memberships[<<u, o>>].status # "Active" /\ Deny(p)
  /\ ReadsOnly

\* Variant: the version of the session's snapshot is not compared.
AuthorizedAnyVersion(p) ==
  seat[p].mode = "authorized" =>
    Grants(memberships[<<seat[p].user, seat[p].org>>].role, seat[p].need)

\* What runAuthorized asks beyond run: a current snapshot, and a permission.
Authorized(p) ==
  LET member == memberships[<<seat[p].user, seat[p].org>>] IN
  seat[p].mode = "authorized" =>
    /\ sessions[seat[p].token].version = member.version
    /\ Grants(member.role, seat[p].need)

\* The status is read in the statement after the advisory lock is granted.
ScopeOrganization(p) ==
  LET o == seat[p].org IN
  /\ step[p] = "scopeOrganization"
  /\ CanLock(p, OrganizationLock(o), "S")
  /\ \/ /\ orgs[o] = "Active" /\ Authorized(p)
        /\ Acquire(p, OrganizationLock(o), "S")
        /\ Advance(p, "operate", [seat[p] EXCEPT !.lease = TRUE])
     \/ /\ orgs[o] # "Active" \/ ~Authorized(p)
        /\ Deny(p)
  /\ ReadsOnly

\* Variant: repositories do not ask whether their scope is still open.
LeaseIgnored(p) == step[p] \in {"operate", "recheck", "commitOperation"}

LeaseActive(p) == seat[p].lease

\* A repository call of the callback, or of work it left behind without waiting
\* for it.  One made outside the transaction is PostgreSQL's to refuse.
CallRepository(p) ==
  /\ LeaseActive(p) /\ seat[p].wrote = "nothing"
  /\ Advance(p, step[p], [seat[p] EXCEPT
       !.wrote = IF step[p] = "commitOperation" THEN "unchecked" ELSE "checked"])
  /\ UNCHANGED locks /\ ReadsOnly

\* The callback returns, after as long as it likes.
Operate(p) ==
  /\ step[p] = "operate"
  /\ Advance(p, "recheck", seat[p])
  /\ UNCHANGED locks /\ ReadsOnly

\* run validates everything again, runAuthorized the organization alone: all
\* locks are held, so what can have changed is the clock, for run, and the
\* status of an organization whose change did not wait for the lock.  The step
\* is the arrival of the answer, which closes the lease whatever it says.
Recheck(p) ==
  LET again == seat[p].mode = "run" IN
  /\ step[p] = "recheck"
  /\ \/ /\ orgs[seat[p].org] = "Active"
        /\ again => ~RowExpired(sessions[seat[p].token], now)
        /\ Advance(p, "commitOperation",
             [seat[p] EXCEPT !.lease = FALSE, !.at = IF again THEN now ELSE @])
        /\ UNCHANGED locks
     \/ /\ \/ orgs[seat[p].org] # "Active"
           \/ again /\ RowExpired(sessions[seat[p].token], now)
        /\ Deny(p)
  /\ ReadsOnly

CommitOperation(p) ==
  /\ step[p] = "commitOperation"
  /\ rows' = [rows EXCEPT ![seat[p].org] =
       IF seat[p].wrote = "nothing" THEN @ ELSE 1 - @]
  /\ Deny(p)
  /\ UNCHANGED <<now, authorityRows, sessions, lifeVars>>

\* The callback throws, or the transaction fails, at any point.
TenantRollback(p) ==
  /\ step[p] # "idle"
  /\ Deny(p)
  /\ ReadsOnly

----------------------------------------------------------------------------

Resolve(p) ==
  \/ LoadSession(p) \/ LoadUser(p)
  \/ LoadAuthorizedCandidates(p) \/ LockCandidate(p) \/ ResolveCandidates(p)
  \/ PersistAutoSelection(p) \/ LoadSelected(p) \/ LockSelected(p)
  \/ CommitResolution(p)

Scope(p) ==
  \/ ScopeSession(p) \/ ScopeUser(p) \/ ScopeMembership(p)
  \/ ScopeOrganization(p) \/ CallRepository(p) \/ Operate(p) \/ Recheck(p)
  \/ CommitOperation(p)

TenantStep(p) == Resolve(p) \/ Scope(p)

\* The steps of the other requests and of the operators.
Beside ==
  /\ \/ \E p \in Worker : (step[p] = "idle" /\ Start(p)) \/ Step(p) \/ Rollback(p)
     \/ Environment /\ UNCHANGED lifeVars
  /\ UNCHANGED tenantVars

TenantNext ==
  \/ \E p \in Worker :
       \/ \E t \in Token : ResolveTenant(p, t)
       \/ TenantStep(p) \/ TenantRollback(p)
  \/ Beside

TenantSpec == TenantInit /\ [][TenantNext]_allVars

\* As in FairSpec; a callback that never returned would meet the timeout of
\* Prisma's interactive transactions, so Operate is fair with the others.
TenantFairSpec ==
  /\ TenantSpec
  /\ \A p \in Worker :
       SF_allVars(TenantStep(p) \/ (Step(p) /\ UNCHANGED tenantVars))
  /\ WF_allVars(\E p \in Worker : DeadlockVictim(p) /\ UNCHANGED tenantVars)

----------------------------------------------------------------------------
(* Properties *)

\* An operation commits only while, at that very moment, its user is Active,
\* its session is unrevoked and has that organization selected, the membership
\* is Active, the organization is Active (if its changes honour the advisory
\* lock) and, for runAuthorized, the membership has not changed since the
\* selection and its role of now grants the permission (BACKEND_STANDARDS.md:316).
\* The session's deadline, as it is now, lay ahead when run looked again at the
\* end, or when runAuthorized began.
OperationsAuthorized ==
  [][\A o \in Org : rows'[o] # rows[o] => \E p \in Worker :
       LET s == seat[p]
           member == memberships[<<s.user, o>>] IN
       /\ step[p] = "commitOperation" /\ s.org = o
       /\ users[s.user] = "Active" /\ member.status = "Active"
       /\ Unrevoked(s.token)
       /\ sessions[s.token].user = s.user /\ sessions[s.token].org = o
       /\ ~RowExpired(sessions[s.token], s.at)
       /\ Compliant => orgs[o] = "Active"
       /\ s.mode = "authorized" =>
            /\ member.version = sessions[s.token].version
            /\ Grants(member.role, s.need)]_allVars

\* What is about to be committed was asked for before the last look at the
\* authority had answered: a repository that work left behind still holds writes
\* nothing after it, not even before the COMMIT (TenantRepositoryScopeLease).
WritesAreChecked ==
  \A p \in Worker : step[p] = "commitOperation" => seat[p].wrote # "unchecked"

\* The organization a request works in is the one its session has selected,
\* from the resolution to the end of the operation.
ContextIsSelection ==
  \A p \in Worker : step[p] \in ScopeSteps =>
    seat[p].org # None /\ sessions[seat[p].token].org = seat[p].org

\* The table a tenant step waits for a row of, as a lock rank.
TenantWantedRank(label) ==
  CASE label \in {"session", "scopeSession"} -> 1
    [] label \in {"user", "scopeUser"} -> 2
    [] label \in {"lockCandidates", "lockSelected", "scopeMembership"} -> 4
    [] label = "scopeOrganization" -> 5
    [] OTHER -> 6

\* Tenant transactions take their locks in the same order as the others: a
\* step waits only for rows after those it holds, the rows of one user's
\* memberships aside, or for a row that it holds already.
TenantLockOrder ==
  \A p \in Worker : step[p] # "idle" => \A l \in locks[p] :
    \/ LockRank(l.res[1]) < TenantWantedRank(step[p])
    \/ LockRank(l.res[1]) = 4 /\ TenantWantedRank(step[p]) = 4
    \/ step[p] = "user" /\ seat[p].again
         /\ Holds(p, UserLock(seat[p].user), "S")

\* The locks that the statement a worker is at may have to wait for.
Wanted(p) ==
  LET s == seat[p]
      c == ctx[p]
      All(mode, resources) == {[res |-> r, mode |-> mode] : r \in resources} IN
  CASE step[p] \in {"session", "select", "scopeSession"} ->
         All("X", {SessionLock(s.token)})
    [] step[p] \in {"user", "scopeUser"} -> All("S", {UserLock(s.user)})
    [] step[p] = "lockCandidates" ->
         All("S", {MembershipLock(s.user, o) : o \in s.cand})
    [] step[p] = "lockSelected" ->
         All("S", {MembershipLock(s.user, SelectionSeen(p))})
    [] step[p] = "scopeMembership" -> All("S", {MembershipLock(s.user, s.org)})
    [] step[p] = "scopeOrganization" -> All("S", {OrganizationLock(s.org)})
    [] pc[p] \in {"touch", "revoke", "lockSession"} ->
         All("X", {SessionLock(c.token)})
    [] pc[p] = "revokeRows" -> All("X", {SessionLock(t) : t \in c.snapshot})
    [] pc[p] = "lockUser" -> All("S", {UserLock(c.user)})
    [] pc[p] = "lockLogin" -> All("X", {UserLock(c.user)})
    [] pc[p] = "lockCredential" -> All("S", {CredentialLock(c.user)})
    [] pc[p] = "lockMembership" -> All("S", {MembershipLock(c.user, c.row.org)})
    [] pc[p] = "lockOrganization" -> All("S", {OrganizationLock(c.row.org)})
    [] OTHER -> {}

\* For a row's lock, or an INSERT for the outcome of one with the same token.
WaitsFor(p, q) ==
  /\ p # q
  /\ \/ \E l \in Wanted(p), m \in locks[q] :
          l.res = m.res /\ (l.mode = "X" \/ m.mode = "X")
     \/ pc[p] \in {"write", "insertLogin"} /\ pc[q] = "commit"
          /\ ctx[p].fresh = ctx[q].fresh

\* A deadlock: each of these requests waits for another of them.
Deadlocked(S) == S # {} /\ \A p \in S : \E q \in S : WaitsFor(p, q)

\* Requests of any kinds and any number wait for each other in a circle only
\* where bulk revocations do among themselves, which PostgreSQL has to break up:
\* the one statement that locks rows of one table in no order of the code's.
DeadlocksAreRevocations ==
  \A S \in SUBSET Worker :
    Deadlocked(S) => Deadlocked({p \in S : pc[p] = "revokeRows"})

\* Every tenant request ends, whatever locks the others hold.
EveryTenantRequestEnds ==
  \A p \in Worker : step[p] # "idle" ~> step[p] = "idle"

\* Beside tenant requests, every session lives the life SessionLifecycle
\* describes: a resolution does to it what SelectOrganization allows, an
\* operation nothing at all, and their locks only make the others wait.
Lifecycle == INSTANCE SessionLifecycle WITH
  locks <- [p \in Worker |-> IF step[p] = "idle" THEN locks[p] ELSE {}]

LifecycleSpec == Lifecycle!Spec

----------------------------------------------------------------------------
(* The inductive invariant behind the safety properties *)

\* A tenant request works with a session that is there and its user.
Seated(p) ==
  LET s == seat[p] IN
  step[p] # "idle" =>
    /\ s.token \in Token /\ s.user \in User
    /\ Exists(s.token) /\ sessions[s.token].user = s.user
    /\ step[p] = "session" => ~s.again

\* From its first lock on it holds the session ...
HoldsSession(p) ==
  step[p] \in (ResolveSteps \cup ScopeSteps) \ {"session", "scopeSession"} =>
    Holds(p, SessionLock(seat[p].token), "X")

\* ... and from the second on an Active user of a session not revoked.
HoldsActiveUser(p) ==
  LET s == seat[p] IN
  \/ step[p] \in {"candidates", "lockCandidates", "select", "selected",
                  "lockSelected", "scopeMembership", "scopeOrganization",
                  "operate", "recheck", "commitOperation"}
  \/ step[p] = "user" /\ s.again
  => /\ Holds(p, UserLock(s.user), "S") /\ users[s.user] = "Active"
     /\ Unrevoked(s.token)

\* What a resolution has found or picked is locked; a pick is the first
\* selection of its session, at the version the membership still has.
HoldsFound(p) ==
  LET s == seat[p] IN
  /\ step[p] \in {"lockCandidates", "select"} => \A o \in s.found :
       Holds(p, MembershipLock(s.user, o), "S")
  /\ step[p] \in {"selected", "lockSelected"} => SelectionSeen(p) \in Org

HoldsPick(p) ==
  LET s == seat[p]
      member == memberships[<<s.user, s.pick>>] IN
  s.pick # None =>
    /\ step[p] \in {"user", "selected", "lockSelected", "resolved"}
    /\ step[p] = "user" => s.again
    /\ Holds(p, UserLock(s.user), "S") /\ users[s.user] = "Active"
    /\ Unrevoked(s.token) /\ sessions[s.token].org = None
    /\ Holds(p, MembershipLock(s.user, s.pick), "S")
    /\ member.status = "Active" /\ member.version = s.pickVersion

\* A resolution answers with the organization it commits, and the operation
\* works in the one that is then selected.
Answered(p) ==
  LET s == seat[p] IN
  /\ step[p] \in ResolveSteps /\ s.org # None =>
       step[p] = "resolved" /\ s.org = SelectionSeen(p)
  /\ step[p] \in ScopeSteps =>
       s.org # None /\ sessions[s.token].org = s.org

\* What an operation has checked stays so under the locks it holds.
HoldsAuthority(p) ==
  LET s == seat[p] IN
  /\ step[p] \in ScopeSteps \ {"scopeSession"} =>
       Unrevoked(s.token) /\ ~RowExpired(sessions[s.token], s.at)
  /\ step[p] \in {"scopeOrganization", "operate", "recheck", "commitOperation"} =>
       /\ Holds(p, MembershipLock(s.user, s.org), "S")
       /\ memberships[<<s.user, s.org>>].status = "Active"
  /\ step[p] \in {"operate", "recheck", "commitOperation"} =>
       /\ Holds(p, OrganizationLock(s.org), "S")
       /\ Compliant => orgs[s.org] = "Active"
       /\ Authorized(p)

\* The lease is open while the callback and its last check run.
Leased(p) ==
  /\ seat[p].lease => step[p] \in {"operate", "recheck"}
  /\ seat[p].wrote # "unchecked"

\* The last table a tenant request can hold a row of.
HeldRank(label, again) ==
  CASE label \in {"session", "scopeSession"} -> 0
    [] label = "scopeUser" \/ (label = "user" /\ ~again) -> 1
    [] label = "scopeMembership" -> 2
    [] label \in {"operate", "recheck", "commitOperation"} -> 5
    [] OTHER -> 4

HeldInOrder(p) ==
  step[p] # "idle" => \A l \in locks[p] :
    LockRank(l.res[1]) <= HeldRank(step[p], seat[p].again)

SeatInv(p) ==
  /\ Seated(p) /\ HoldsSession(p) /\ HoldsActiveUser(p)
  /\ HoldsFound(p) /\ HoldsPick(p) /\ Answered(p)
  /\ HoldsAuthority(p) /\ Leased(p) /\ HeldInOrder(p)

\* Only sessions and users are locked for writing, and by a bulk revocation only
\* sessions: what it holds keeps nobody waiting for a user.
WritersLock ==
  \A p \in Worker : \A l \in locks[p] :
    /\ l.mode = "X" => l.res[1] \in {"session", "user"}
    /\ pc[p] = "revokeRows" => l.res[1] = "session"

\* The requests beside hold locks inside their own transactions only.
BesideFree ==
  \A p \in Worker : step[p] = "idle" /\ pc[p] \notin TxSteps => locks[p] = {}

TenantInv ==
  /\ TenantTypeOK /\ BesideFree
  /\ IInv /\ Ownership
  /\ \A p \in Worker : SeatInv(p)
==============================================================================
