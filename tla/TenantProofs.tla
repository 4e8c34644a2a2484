---------------------------- MODULE TenantProofs ------------------------------
(***************************************************************************)
(* Proofs about TenantAccess for any workers, users, organizations, tokens *)
(* and bounds.  TenantInv is inductive.  It contains the invariant of      *)
(* SessionLifecycle, and a step of the requests beside is a step of that   *)
(* module under the very same locks: what is proved of its steps serves    *)
(* here.  What is new is that a tenant request keeps what it has read.     *)
(***************************************************************************)
EXTENDS TenantAccess, SessionContractProofs

----------------------------------------------------------------------------
(* The role model of AuthorizationPolicy *)

\* Managing members never gives more than one has: whoever may give a role to
\* another holds every permission of that role, may manage members, and may
\* manage Owners if the role is Owner (SECURITY.md, section 38, "evitar
\* self-escalation"; RoleTargetEligibilityPolicy and ROLE_PERMISSIONS are two
\* tables that nothing in the code ties to each other).
THEOREM NoEscalation ==
  ASSUME NEW actor, NEW target, Eligible(actor, target)
  PROVE  /\ RolePermissions[target] \subseteq RolePermissions[actor]
         /\ Grants(actor, "memberships.manage")
         /\ target = "Owner" => Grants(actor, "memberships.manage_owner")
<1> USE DEF Eligible, Grants, TargetRoles, RolePermissions, MembershipRole,
            Permission, AdminPermissions, ReadOnlyPermissions
<1>1. /\ actor \in MembershipRole
      /\ target \in TargetRoles[actor]
  OBVIOUS
<1>2. CASE actor = "Owner"
  BY <1>1, <1>2
<1>3. CASE actor = "Admin"
  <2>1. target \in {"Seller", "Viewer"}
    BY <1>1, <1>3
  <2>. QED  BY <1>3, <2>1
<1>4. CASE actor \in {"Seller", "Viewer"}
  BY <1>1, <1>4
<1>. QED  BY <1>1, <1>2, <1>3, <1>4

----------------------------------------------------------------------------
(* The requests beside, as steps of SessionLifecycle *)

\* A worker that takes a step of a request has one.
LEMMA WorkerBusy ==
  ASSUME NEW q \in Worker, Step(q) \/ Rollback(q)
  PROVE  pc[q] # "idle"
<1>1. Validate(q) \/ Logout(q) \/ Rollback(q) => pc[q] # "idle"
  BY DEF Validate, FindForValidation, ValidateSession, TouchLastSeenIfDue,
     Logout, RevokeSession, RevokeByTokenHash, Rollback, TxSteps, ReplaceSteps
<1>2. Renew(q) => pc[q] # "idle"
  BY DEF Renew, FindPasswordIdentity, FindIdentity, FindCredential,
     VerifyPassword, Replace, LockSession,
     LockUser, LockCredential, LockMembership, LockOrganization,
     WriteReplacement, CommitReplacement
<1>3. Login(q) \/ RevokeAll(q) => pc[q] # "idle"
  BY DEF Login, LockLoginUser, InsertSession, RevokeAll, RevokeAllForUser,
     RevokeRow, RevocationsRefused, CommitRevocations, ReturnFromRevokeAll
<1> QED
  BY <1>1, <1>2, <1>3 DEF Step

LEMMA BesideSteps ==
  ASSUME Beside
  PROVE  /\ [Next]_vars /\ UNCHANGED tenantVars
         /\ \/ UNCHANGED <<sessions, locks, lifeVars>>
            \/ /\ UNCHANGED authorityRows
               /\ \E q \in Worker : /\ step[q] = "idle" \/ pc[q] # "idle"
                                    /\ Start(q) \/ Step(q) \/ Rollback(q)
<1>1. CASE Environment /\ UNCHANGED lifeVars
  BY <1>1 DEF Beside, Next, Environment, Tick, DisableUser, ChangePassword,
     ChangeMembership, ChangeOrganization
<1>2. ASSUME NEW q \in Worker, (step[q] = "idle" /\ Start(q)) \/ Step(q) \/ Rollback(q)
      PROVE  /\ UNCHANGED authorityRows /\ Next
             /\ step[q] = "idle" \/ pc[q] # "idle"
  BY <1>2, WorkerBusy, WorkersKeepAuthority DEF Next
<1> QED
  BY <1>1, <1>2 DEF Beside

\* A session row that a worker has locked is written by that worker alone.
LEMMA HeldRowStays ==
  ASSUME IInv, NEW q \in Worker, Start(q) \/ Step(q) \/ Rollback(q),
         NEW p \in Worker \ {q}, NEW t \in Token, Exists(t),
         Holds(p, SessionLock(t), "X")
  PROVE  sessions'[t] = sessions[t]
<1>1. ~CanLock(q, SessionLock(t), "X")
  BY DEF CanLock, Holds
<1>2. /\ sessions \in [Token -> SessionRow \cup {None}]
      /\ \A r, s : SessionLock(r) = SessionLock(s) => r = s
  BY DEF IInv, TypeOK, StoreTypeOK, SessionLock
<1>3. CASE TouchLastSeenIfDue(q)
  BY <1>1, <1>2, <1>3 DEF TouchLastSeenIfDue
<1>4. CASE RevokeByTokenHash(q)
  BY <1>1, <1>2, <1>4 DEF RevokeByTokenHash
<1>5. CASE CommitReplacement(q)
  <2>1. Holds(q, SessionLock(ctx[q].token), "X")
    BY <1>5, WorkerFacts DEF CommitReplacement, HoldsOld, ReplaceSteps
  <2>2. ctx[q].token # t
    BY <2>1 DEF Holds, IInv, LockExclusion
  <2>3. ctx[q].fresh # t
    BY <1>5 DEF CommitReplacement, IInv, PendingApart
  <2> QED
    BY <1>2, <1>5, <2>2, <2>3 DEF CommitReplacement
<1>6. CASE InsertSession(q)
  BY <1>2, <1>6 DEF InsertSession
<1>7. CASE CommitRevocations(q)
  <2>1. t \notin ctx[q].snapshot
    BY <1>7 DEF CommitRevocations, Locked, Holds, IInv, LockExclusion
  <2> QED
    BY <1>2, <1>7, <2>1 DEF CommitRevocations
<1>8. CASE UNCHANGED sessions
  BY <1>8
<1> QED
  BY <1>3, <1>4, <1>5, <1>6, <1>7, <1>8, WorkerWriters

LEMMA LockedUserStays ==
  ASSUME IInv, [Next]_vars, NEW p \in Worker, NEW u \in User,
         Holds(p, UserLock(u), "S")
  PROVE  users'[u] = users[u]
<1>1. CASE Environment
  BY <1>1 DEF Environment, Tick, DisableUser, ChangePassword, ChangeMembership,
     ChangeOrganization, authorityRows, Unlocked, Holds, UserLock,
     IInv, TypeOK, StoreTypeOK
<1>2. CASE UNCHANGED vars \/ \E t \in Token : SelectOrganization(t)
  BY <1>2 DEF vars, storeVars, SelectOrganization, authorityRows
<1> QED
  BY <1>1, <1>2, WorkersKeepAuthority DEF Next, authorityRows

----------------------------------------------------------------------------
(* What a step of others leaves to a tenant request *)

\* No session goes, changes its user or a selection it has; the rows that p
\* has locked stay as they are.
RowsKept(p) ==
  /\ \A t \in Token : Exists(t) =>
       /\ sessions'[t] # None /\ sessions'[t].user = sessions[t].user
       /\ sessions[t].org # None => sessions'[t].org = sessions[t].org
       /\ Holds(p, SessionLock(t), "X") => sessions'[t] = sessions[t]
  /\ \A u \in User : Holds(p, UserLock(u), "S") => users'[u] = users[u]
  /\ \A u \in User, o \in Org : Holds(p, MembershipLock(u, o), "S") =>
       memberships'[<<u, o>>] = memberships[<<u, o>>]
  /\ \A o \in Org : Compliant /\ Holds(p, OrganizationLock(o), "S") =>
       orgs'[o] = orgs[o]

\* The types that the proofs use of one request.
LEMMA SeatFacts ==
  ASSUME TenantTypeOK, NEW p \in Worker
  PROVE  /\ step[p] \in {"idle"} \cup ResolveSteps \cup ScopeSteps
         /\ seat[p] \in Seat
         /\ seat[p].token \in Token \cup {None} /\ seat[p].user \in User \cup {None}
         /\ seat[p].pick \in Org \cup {None} /\ seat[p].org \in Org \cup {None}
         /\ seat[p].found \in SUBSET Org /\ seat[p].at \in Nat
         /\ seat[p].again \in BOOLEAN /\ seat[p].lease \in BOOLEAN
BY DEF TenantTypeOK, Seat

LEMMA SeatStays ==
  ASSUME TenantTypeOK, NEW p \in Worker, SeatInv(p), RowsKept(p),
         step'[p] = step[p], seat'[p] = seat[p], locks'[p] = locks[p]
  PROVE  SeatInv(p)'
<1> DEFINE s == seat[p]
<1>1. \A res, mode : Holds(p, res, mode)' <=> Holds(p, res, mode)
  BY DEF Holds
<1>2. step[p] # "idle" =>
        /\ s.token \in Token /\ s.user \in User /\ Exists(s.token)
        /\ sessions[s.token].user = s.user
  BY DEF SeatInv, Seated
<1>3. step[p] # "idle" =>
        /\ sessions'[s.token] # None /\ sessions'[s.token].user = s.user
        /\ sessions[s.token].org # None =>
             sessions'[s.token].org = sessions[s.token].org
  BY <1>2 DEF RowsKept
<1>4. step[p] \in (ResolveSteps \cup ScopeSteps) \ {"session", "scopeSession"} =>
        sessions'[s.token] = sessions[s.token]
  <2>1. "idle" \notin (ResolveSteps \cup ScopeSteps)
    BY DEF ResolveSteps, ScopeSteps
  <2> QED
    BY <1>2, <2>1 DEF SeatInv, HoldsSession, RowsKept
<1>5. step[p] # "idle" /\ Holds(p, UserLock(s.user), "S") =>
        users'[s.user] = users[s.user]
  BY <1>2 DEF RowsKept
<1>6. \A o \in Org : step[p] # "idle" /\ Holds(p, MembershipLock(s.user, o), "S") =>
        memberships'[<<s.user, o>>] = memberships[<<s.user, o>>]
  BY <1>2 DEF RowsKept
<1>7. Seated(p)' /\ HoldsSession(p)'
  BY <1>1, <1>2, <1>3 DEF SeatInv, Seated, HoldsSession, Exists
<1>8. HoldsActiveUser(p)'
  BY <1>1, <1>4, <1>5
  DEF SeatInv, HoldsActiveUser, Unrevoked, Exists, ResolveSteps, ScopeSteps
<1>9. step[p] \in ResolveSteps \ {"session"} => SelectionSeen(p)' = SelectionSeen(p)
  BY <1>4 DEF SelectionSeen, ResolveSteps
<1>10. HoldsFound(p)'
  BY <1>1, <1>9 DEF SeatInv, HoldsFound, ResolveSteps
<1>11. HoldsPick(p)'
  <2>1. s.pick \in Org \cup {None}
    BY SeatFacts
  <2> QED
    BY <1>1, <1>4, <1>5, <1>6, <2>1
    DEF SeatInv, HoldsPick, Unrevoked, Exists, ResolveSteps
<1>12. Answered(p)'
  BY <1>3, <1>9 DEF SeatInv, Answered, ScopeSteps, ResolveSteps
<1>13. HoldsAuthority(p)'
  <2>1. step[p] \in ScopeSteps => s.org \in Org
    BY SeatFacts DEF SeatInv, Answered
  <2>2. step[p] \in {"operate", "recheck", "commitOperation"} =>
          (Authorized(p)' <=> Authorized(p))
    BY <1>4, <1>6, <2>1
    DEF Authorized, SeatInv, HoldsAuthority, ScopeSteps, ResolveSteps
  <2>3. step[p] \in {"operate", "recheck", "commitOperation"} /\ Compliant =>
          orgs'[s.org] = orgs[s.org]
    BY <2>1 DEF SeatInv, HoldsAuthority, RowsKept, ScopeSteps
  <2> QED
    BY <1>1, <1>4, <1>6, <2>1, <2>2, <2>3
    DEF SeatInv, HoldsAuthority, Unrevoked, Exists, RowExpired, ScopeSteps,
        ResolveSteps
<1>14. Leased(p)' /\ HeldInOrder(p)'
  BY DEF SeatInv, Leased, HeldInOrder
<1> QED
  BY <1>7, <1>8, <1>10, <1>11, <1>12, <1>13, <1>14 DEF SeatInv

\* The requests beside and the operators keep what a tenant request works with.
LEMMA BesideKeeps ==
  ASSUME IInv, Ownership, Beside, NEW p \in Worker, step[p] # "idle", pc[p] = "idle"
  PROVE  RowsKept(p) /\ locks'[p] = locks[p]
<1>1. [Next]_vars
  BY BesideSteps
<1>2. \A t \in Token : Exists(t) =>
        sessions'[t] # None /\ sessions'[t].user = sessions[t].user
  BY <1>1, OwnersStay
<1>3. /\ \A t \in Token : Exists(t) =>
           /\ sessions[t].org # None => sessions'[t].org = sessions[t].org
           /\ Holds(p, SessionLock(t), "X") => sessions'[t] = sessions[t]
      /\ locks'[p] = locks[p]
  <2>1. CASE UNCHANGED <<sessions, locks, lifeVars>>
    BY <2>1
  <2>2. ASSUME NEW q \in Worker, step[q] = "idle" \/ pc[q] # "idle",
               Start(q) \/ Step(q) \/ Rollback(q)
        PROVE  /\ \A t \in Token : Exists(t) =>
                    /\ sessions[t].org # None => sessions'[t].org = sessions[t].org
                    /\ Holds(p, SessionLock(t), "X") => sessions'[t] = sessions[t]
               /\ locks'[p] = locks[p]
    <3>1. p # q
      BY <2>2
    <3>2. locks'[p] = locks[p]
      BY <2>2, <3>1, OneMoves DEF IInv
    <3>3. \A t \in Token : Exists(t) /\ Holds(p, SessionLock(t), "X") =>
            sessions'[t] = sessions[t]
      BY <2>2, <3>1, HeldRowStays
    <3>4. \A t \in Token : Exists(t) /\ sessions[t].org # None =>
            sessions'[t].org = sessions[t].org
      BY <1>1, SelectionMoves
    <3> QED
      BY <3>2, <3>3, <3>4
  <2> QED
    BY <2>1, <2>2, BesideSteps
<1>4. \A u \in User : Holds(p, UserLock(u), "S") => users'[u] = users[u]
  BY <1>1, LockedUserStays
<1>5. /\ \A u \in User, o \in Org : Holds(p, MembershipLock(u, o), "S") =>
           memberships'[<<u, o>>] = memberships[<<u, o>>]
      /\ \A o \in Org : Compliant /\ Holds(p, OrganizationLock(o), "S") =>
           orgs'[o] = orgs[o]
  BY <1>1, LockedAuthorityStays
<1>6. \A t \in Token : Exists(t) =>
        /\ sessions'[t] # None /\ sessions'[t].user = sessions[t].user
        /\ sessions[t].org # None => sessions'[t].org = sessions[t].org
        /\ Holds(p, SessionLock(t), "X") => sessions'[t] = sessions[t]
  BY <1>2, <1>3
<1> QED
  BY <1>3, <1>4, <1>5, <1>6 DEF RowsKept

----------------------------------------------------------------------------
(* What a step of a tenant request leaves to the others *)

LEMMA NoSeatType == NoSeat \in Seat
BY DEF NoSeat, Seat, Permission, AdminPermissions, ReadOnlyPermissions

\* A tenant step that writes no session leaves the requests beside as they are.
LEMMA BesideFrame ==
  ASSUME IInv, Ownership, NEW p \in Worker, pc[p] = "idle",
         UNCHANGED <<now, authorityRows, sessions, lifeVars>>,
         locks' \in [Worker -> SUBSET Lock], LockExclusion',
         \A q \in Worker \ {p} : locks'[q] = locks[q]
  PROVE  IInv' /\ Ownership'
<1>1. /\ pc' = pc /\ ctx' = ctx
      /\ UNCHANGED <<now, users, credentials, memberships, orgs, sessions>>
  BY DEF lifeVars, authorityRows
<1>2. TypeOK' /\ PendingApart' /\ RenewalIsLinear' /\ Ownership'
  BY <1>1 DEF IInv, TypeOK, StoreTypeOK, PendingApart, RenewalIsLinear,
     Ownership, OwnsOld, OwnsSnapshot, Exists
<1>3. ASSUME NEW q \in Worker
      PROVE  (Captured(q) /\ HoldsOld(q) /\ HoldsUser(q) /\ HoldsCredential(q))'
  <2>1. Captured(q) /\ HoldsOld(q) /\ HoldsUser(q) /\ HoldsCredential(q)
    BY DEF IInv
  <2>2. CASE q = p
    <3>1. pc'[q] = "idle" /\ Captured(q)'
      BY <1>1, <2>1, <2>2 DEF Captured
    <3> QED
      BY <3>1 DEF HoldsOld, HoldsUser, HoldsCredential, ReplaceSteps
  <2>3. CASE q # p
    <3>1. locks'[q] = locks[q]
      BY <2>3
    <3> QED
      BY <1>1, <2>1, <3>1 DEF Captured, HoldsOld, HoldsUser, HoldsCredential,
         Holds, Unrevoked, Exists
  <2> QED
    BY <2>2, <2>3
<1> QED
  BY <1>2, <1>3 DEF IInv

\* The request that moves, and what stays where it was.
LEMMA AdvanceFacts ==
  ASSUME TenantTypeOK, NEW p \in Worker, NEW label, NEW s, Advance(p, label, s)
  PROVE  /\ step'[p] = label /\ seat'[p] = s
         /\ \A q \in Worker \ {p} : step'[q] = step[q] /\ seat'[q] = seat[q]
BY DEF TenantTypeOK, Advance

\* Given what a tenant step makes of its own request and of the requests
\* beside, and the rows it keeps to the others, the invariant is kept.
LEMMA SeatFrame ==
  ASSUME TenantInv, NEW p \in Worker, pc[p] = "idle",
         NEW label \in {"idle"} \cup ResolveSteps \cup ScopeSteps,
         NEW s \in Seat, Advance(p, label, s),
         label = "idle" => locks'[p] = {},
         UNCHANGED lifeVars, rows' \in [Org -> {0, 1}], IInv', Ownership',
         \A q \in Worker \ {p} : locks'[q] = locks[q] /\ RowsKept(q),
         SeatInv(p)'
  PROVE  TenantInv'
<1>1. TenantTypeOK /\ BesideFree
  BY DEF TenantInv
<1>2. /\ step'[p] = label /\ seat'[p] = s
      /\ \A q \in Worker \ {p} : step'[q] = step[q] /\ seat'[q] = seat[q]
      /\ pc' = pc
  BY <1>1, AdvanceFacts DEF lifeVars
<1>3. BesideFree'
  <2>1. ASSUME NEW q \in Worker, step'[q] = "idle", pc'[q] \notin TxSteps
        PROVE  locks'[q] = {}
    <3>1. CASE q = p
      BY <1>2, <2>1, <3>1
    <3>2. CASE q # p
      <4>1. locks'[q] = locks[q] /\ step[q] = "idle" /\ pc[q] \notin TxSteps
        BY <1>2, <2>1, <3>2
      <4> QED
        BY <1>1, <4>1 DEF BesideFree
    <3> QED
      BY <3>1, <3>2
  <2> QED
    BY <2>1 DEF BesideFree
<1>4. TenantTypeOK'
  <2>1. step' \in [Worker -> {"idle"} \cup ResolveSteps \cup ScopeSteps]
        /\ seat' \in [Worker -> Seat]
    BY <1>1 DEF Advance, TenantTypeOK
  <2>2. \A q \in Worker : pc'[q] = "idle" \/ step'[q] = "idle"
    BY <1>1, <1>2 DEF TenantTypeOK
  <2>3. "idle" \notin TxSteps
    BY DEF TxSteps, ReplaceSteps
  <2>4. \A q \in Worker : pc'[q] = "idle" /\ step'[q] = "idle" => locks'[q] = {}
    BY <1>3, <2>3 DEF BesideFree
  <2> QED
    BY <2>1, <2>2, <2>4 DEF TenantTypeOK
<1>5. ASSUME NEW q \in Worker \ {p} PROVE SeatInv(q)'
  <2>1. /\ step'[q] = step[q] /\ seat'[q] = seat[q] /\ locks'[q] = locks[q]
        /\ RowsKept(q)
    BY <1>2
  <2>2. SeatInv(q)
    BY DEF TenantInv
  <2> QED
    BY <1>1, <2>1, <2>2, SeatStays
<1> QED
  BY <1>3, <1>4, <1>5 DEF TenantInv

LEMMA OwnFrame ==
  ASSUME TenantInv, NEW p \in Worker, pc[p] = "idle",
         NEW label \in {"idle"} \cup ResolveSteps \cup ScopeSteps,
         NEW s \in Seat, Advance(p, label, s),
         label = "idle" => locks'[p] = {},
         UNCHANGED <<now, authorityRows, sessions, lifeVars>>,
         rows' \in [Org -> {0, 1}],
         locks' \in [Worker -> SUBSET Lock], LockExclusion',
         \A q \in Worker \ {p} : locks'[q] = locks[q],
         SeatInv(p)'
  PROVE  TenantInv'
<1>1. IInv' /\ Ownership'
  BY BesideFrame DEF TenantInv
<1>2. \A q \in Worker : RowsKept(q)
  BY DEF RowsKept, authorityRows, Exists
<1>3. UNCHANGED lifeVars
  OBVIOUS
<1> QED
  BY <1>1, <1>2, <1>3, SeatFrame

\* An empty seat promises nothing.
LEMMA EmptySeat ==
  ASSUME NEW p \in Worker, step'[p] = "idle", seat'[p] = NoSeat
  PROVE  SeatInv(p)'
<1>1. /\ NoSeat.pick = None /\ NoSeat.org = None /\ NoSeat.lease = FALSE
      /\ NoSeat.wrote = "nothing"
  BY DEF NoSeat
<1>2. step'[p] \notin ResolveSteps \cup ScopeSteps
  BY DEF ResolveSteps, ScopeSteps
<1>3. (Seated(p) /\ HoldsSession(p) /\ HoldsActiveUser(p) /\ HoldsFound(p))'
  BY <1>2 DEF Seated, HoldsSession, HoldsActiveUser, HoldsFound
<1>4. (HoldsPick(p) /\ Answered(p) /\ HoldsAuthority(p) /\ Leased(p))'
  BY <1>1, <1>2 DEF HoldsPick, Answered, HoldsAuthority, Leased, ScopeSteps
<1>5. HeldInOrder(p)'
  BY DEF HeldInOrder
<1> QED
  BY <1>3, <1>4, <1>5 DEF SeatInv

\* A request that ends without writing a session or an authority row.
LEMMA DenyStep ==
  ASSUME TenantInv, NEW p \in Worker, step[p] # "idle", Deny(p),
         UNCHANGED <<now, authorityRows, sessions, lifeVars>>,
         rows' \in [Org -> {0, 1}]
  PROVE  TenantInv'
<1>1. TenantTypeOK /\ IInv
  BY DEF TenantInv
<1>2. pc[p] = "idle"
  BY <1>1 DEF TenantTypeOK
<1>3. Advance(p, "idle", NoSeat) /\ Release(p)
  BY DEF Deny
<1>4. /\ locks' \in [Worker -> SUBSET Lock] /\ LockExclusion' /\ locks'[p] = {}
      /\ \A q \in Worker \ {p} : locks'[q] = locks[q]
  BY <1>1, <1>3, ReleaseLocks DEF IInv
<1>5. SeatInv(p)'
  BY <1>1, <1>3, AdvanceFacts, EmptySeat
<1> QED
  BY <1>2, <1>3, <1>4, <1>5, NoSeatType, OwnFrame

\* A tenant step that reads, and perhaps locks a row first.
LEMMA ReadFrame ==
  ASSUME TenantInv, NEW p \in Worker, step[p] # "idle",
         NEW label \in ResolveSteps \cup ScopeSteps, NEW s \in Seat,
         Advance(p, label, s), ReadsOnly,
         \/ UNCHANGED locks
         \/ \E res \in Resource, mode \in {"S", "X"} : Acquire(p, res, mode),
         SeatInv(p)'
  PROVE  TenantInv'
<1>1. TenantTypeOK /\ IInv /\ TypeOK /\ LockExclusion
  BY DEF TenantInv, IInv
<1>2. pc[p] = "idle" /\ label # "idle"
  BY <1>1 DEF TenantTypeOK, ResolveSteps, ScopeSteps
<1>3. UNCHANGED <<now, authorityRows, sessions, lifeVars>> /\ rows' \in [Org -> {0, 1}]
  BY <1>1 DEF ReadsOnly, TenantTypeOK
<1>4. /\ locks' \in [Worker -> SUBSET Lock] /\ LockExclusion'
      /\ \A q \in Worker \ {p} : locks'[q] = locks[q]
  <2>1. CASE UNCHANGED locks
    BY <1>1, <2>1 DEF TypeOK, StoreTypeOK, LockExclusion
  <2>2. CASE \E res \in Resource, mode \in {"S", "X"} : Acquire(p, res, mode)
    BY <1>1, <2>2, TakeLocks DEF Acquire
  <2> QED
    BY <2>1, <2>2
<1> QED
  BY <1>2, <1>3, <1>4, OwnFrame

\* What is known of a request that is under way, and of the rows it reads.
LEMMA SeatedFacts ==
  ASSUME TenantInv, NEW p \in Worker, step[p] # "idle"
  PROVE  LET s == seat[p] IN
         /\ s.token \in Token /\ s.user \in User /\ sessions[s.token] \in SessionRow
         /\ SessionLock(s.token) \in Resource /\ UserLock(s.user) \in Resource
         /\ \A o \in Org : /\ MembershipLock(s.user, o) \in Resource
                           /\ OrganizationLock(o) \in Resource
                           /\ memberships[<<s.user, o>>] \in MembershipRow
         /\ s \in Seat /\ now \in Nat
<1>1. seat[p].token \in Token /\ seat[p].user \in User /\ Exists(seat[p].token)
  BY DEF TenantInv, SeatInv, Seated
<1>2. seat[p] \in Seat
  BY DEF TenantInv, TenantTypeOK
<1>3. StoreTypeOK
  BY DEF TenantInv, IInv, TypeOK
<1> QED
  BY <1>1, <1>2, <1>3 DEF StoreTypeOK, Exists, SessionLock, UserLock,
     MembershipLock, OrganizationLock, Resource

\* A step that only reads leaves the rows, and the locks it has.
LEMMA ReadFacts ==
  ASSUME TenantInv, NEW p \in Worker, ReadsOnly, NEW label, NEW s,
         Advance(p, label, s),
         \/ UNCHANGED locks
         \/ \E res, mode : Acquire(p, res, mode)
  PROVE  /\ UNCHANGED <<now, users, memberships, orgs, sessions>>
         /\ step'[p] = label /\ seat'[p] = s
         /\ \A res, mode : Holds(p, res, mode) => Holds(p, res, mode)'
         /\ \A res, mode : Acquire(p, res, mode) =>
              /\ Holds(p, res, mode)'
              /\ locks'[p] = locks[p] \cup {[res |-> res, mode |-> mode]}
<1>1. TenantTypeOK /\ locks \in [Worker -> SUBSET Lock]
  BY DEF TenantInv, IInv, TypeOK, StoreTypeOK
<1>2. \A res, mode : Acquire(p, res, mode) =>
        locks'[p] = locks[p] \cup {[res |-> res, mode |-> mode]}
  BY <1>1 DEF Acquire, Take
<1> QED
  BY <1>1, <1>2, AdvanceFacts DEF ReadsOnly, authorityRows, Holds

\* The ranks of the locks held are bounded by the step, before and after.
LEMMA HeldClimbs ==
  ASSUME NEW held \in SUBSET Lock, NEW m \in Int, NEW n \in Int, m <= n,
         \A l \in held : LockRank(l.res[1]) <= m,
         NEW res, NEW mode, LockRank(res[1]) <= n
  PROVE  \A l \in held \cup {[res |-> res, mode |-> mode]} : LockRank(l.res[1]) <= n
<1>1. ASSUME NEW l \in held PROVE LockRank(l.res[1]) <= n
  <2>1. LockRank(l.res[1]) \in Int /\ LockRank(l.res[1]) <= m
    BY Ranks
  <2> QED
    BY <2>1
<1> QED
  BY <1>1

\* So they are when the request has taken one more lock, or none.
LEMMA TakesInOrder ==
  ASSUME TenantInv, NEW p \in Worker, step[p] # "idle", NEW res, NEW mode,
         locks'[p] = locks[p] \cup {[res |-> res, mode |-> mode]},
         HeldRank(step[p], seat[p].again) <= HeldRank(step'[p], seat'[p].again),
         LockRank(res[1]) <= HeldRank(step'[p], seat'[p].again)
  PROVE  HeldInOrder(p)'
<1> DEFINE m == HeldRank(step[p], seat[p].again)
           n == HeldRank(step'[p], seat'[p].again)
<1>1. m \in Int /\ n \in Int
  BY DEF HeldRank
<1>2. /\ locks[p] \in SUBSET Lock
      /\ \A l \in locks[p] : LockRank(l.res[1]) <= m
  BY DEF TenantInv, SeatInv, HeldInOrder, IInv, TypeOK, StoreTypeOK
<1>3. m <= n /\ LockRank(res[1]) <= n
  OBVIOUS
<1>4. (\A l \in locks'[p] : LockRank(l.res[1]) <= n) => HeldInOrder(p)'
  BY DEF HeldInOrder
<1> HIDE DEF m, n
<1>5. \A l \in locks[p] \cup {[res |-> res, mode |-> mode]} : LockRank(l.res[1]) <= n
  BY <1>1, <1>2, <1>3, HeldClimbs
<1> QED
  BY <1>4, <1>5

LEMMA StaysInOrder ==
  ASSUME TenantInv, NEW p \in Worker, step[p] # "idle", UNCHANGED locks,
         HeldRank(step[p], seat[p].again) <= HeldRank(step'[p], seat'[p].again)
  PROVE  HeldInOrder(p)'
<1> DEFINE m == HeldRank(step[p], seat[p].again)
           n == HeldRank(step'[p], seat'[p].again)
<1>1. m \in Int /\ n \in Int /\ m <= n
  BY DEF HeldRank
<1>2. \A l \in locks[p] : LockRank(l.res[1]) \in Int /\ LockRank(l.res[1]) <= m
  BY Ranks DEF TenantInv, SeatInv, HeldInOrder, IInv, TypeOK, StoreTypeOK
<1>3. (\A l \in locks[p] : LockRank(l.res[1]) <= n) => HeldInOrder(p)'
  BY DEF HeldInOrder
<1> HIDE DEF m, n
<1> QED
  BY <1>1, <1>2, <1>3

LEMMA LockRanks ==
  /\ \A t : LockRank(SessionLock(t)[1]) = 1
  /\ \A u : LockRank(UserLock(u)[1]) = 2
  /\ \A u, o : LockRank(MembershipLock(u, o)[1]) = 4
  /\ \A o : LockRank(OrganizationLock(o)[1]) = 5
BY DEF LockRank, SessionLock, UserLock, MembershipLock, OrganizationLock

----------------------------------------------------------------------------
(* The steps of a resolution *)

LEMMA LoadSessionStep ==
  ASSUME TenantInv, NEW p \in Worker, LoadSession(p)
  PROVE  TenantInv'
<1> DEFINE s == seat[p]
           res == SessionLock(s.token)
<1>1. /\ step[p] = "session" /\ Acquire(p, res, "X")
      /\ Advance(p, "user", s) /\ ReadsOnly
  BY DEF LoadSession
<1>2. SeatInv(p)
  BY DEF TenantInv
<1>3. s.token \in Token /\ res \in Resource /\ s \in Seat
  BY <1>1, SeatedFacts
<1>4. /\ UNCHANGED <<now, users, memberships, orgs, sessions>>
      /\ step'[p] = "user" /\ seat'[p] = s /\ Holds(p, res, "X")'
      /\ locks'[p] = locks[p] \cup {[res |-> res, mode |-> "X"]}
  BY <1>1, ReadFacts
<1>5. s.pick = None /\ s.org = None /\ ~s.again
  BY <1>1, <1>2 DEF SeatInv, HoldsPick, Answered, Seated, ResolveSteps
<1>6. (Seated(p) /\ HoldsSession(p) /\ HoldsActiveUser(p) /\ HoldsFound(p))'
  BY <1>1, <1>2, <1>4, <1>5
  DEF SeatInv, Seated, HoldsSession, HoldsActiveUser, HoldsFound, Exists
<1>7. (HoldsPick(p) /\ Answered(p) /\ HoldsAuthority(p) /\ Leased(p))'
  BY <1>1, <1>2, <1>4, <1>5
  DEF SeatInv, HoldsPick, Answered, HoldsAuthority, Leased, ScopeSteps
<1>8. HeldInOrder(p)'
  <2>1. HeldRank("session", s.again) = 0 /\ HeldRank("user", s.again) = 1
    BY <1>5 DEF HeldRank
  <2>2. LockRank(res[1]) = 1
    BY LockRanks
  <2>3. /\ HeldRank(step[p], seat[p].again) <= HeldRank(step'[p], seat'[p].again)
        /\ LockRank(res[1]) <= HeldRank(step'[p], seat'[p].again)
    BY <1>1, <1>4, <2>1, <2>2
  <2> HIDE DEF res
  <2> QED
    BY <1>1, <1>4, <2>3, TakesInOrder
<1>9. "user" \in ResolveSteps
  BY DEF ResolveSteps
<1> QED
  BY <1>1, <1>3, <1>6, <1>7, <1>8, <1>9, ReadFrame DEF SeatInv

LEMMA LoadUserStep ==
  ASSUME TenantInv, NEW p \in Worker, LoadUser(p)
  PROVE  TenantInv'
<1> DEFINE s == seat[p]
           t == s.token
           u == s.user
           label == CASE users[u] # "Active" \/ ~Unrevoked(t)
                           \/ RowExpired(sessions[t], now) -> "resolved"
                      [] OTHER -> IF SelectionSeen(p) = None THEN "candidates"
                                  ELSE "selected"
<1>1. /\ step[p] = "user" /\ Acquire(p, UserLock(u), "S")
      /\ Advance(p, label, s) /\ ReadsOnly
  BY DEF LoadUser
<1>2. SeatInv(p)
  BY DEF TenantInv
<1>3. /\ t \in Token /\ u \in User /\ sessions[t] \in SessionRow
      /\ UserLock(u) \in Resource /\ s \in Seat
  BY <1>1, SeatedFacts
<1>4. /\ label \in {"resolved", "candidates", "selected"}
      /\ label # "resolved" => users[u] = "Active" /\ Unrevoked(t)
      /\ label = "candidates" <=> label # "resolved" /\ SelectionSeen(p) = None
  OBVIOUS
<1> HIDE DEF label
<1>5. /\ UNCHANGED <<now, users, memberships, orgs, sessions>>
      /\ step'[p] = label /\ seat'[p] = s
      /\ \A res, mode : Holds(p, res, mode) => Holds(p, res, mode)'
      /\ Holds(p, UserLock(u), "S")'
      /\ locks'[p] = locks[p] \cup {[res |-> UserLock(u), mode |-> "S"]}
  BY <1>1, ReadFacts
<1>6. s.org = None /\ s.pick \in Org \cup {None} /\ s.again \in BOOLEAN
  BY <1>1, <1>2, <1>3 DEF SeatInv, Answered, ResolveSteps, Seat
<1>7. (Seated(p) /\ HoldsSession(p) /\ HoldsActiveUser(p))'
  BY <1>1, <1>2, <1>4, <1>5 DEF SeatInv, Seated, HoldsSession, HoldsActiveUser,
     Exists, Unrevoked, ResolveSteps, ScopeSteps
<1>8. HoldsFound(p)'
  <2>1. SelectionSeen(p)' = SelectionSeen(p)
    BY <1>5 DEF SelectionSeen
  <2>2. SelectionSeen(p) \in Org \cup {None}
    BY <1>3, <1>6 DEF SelectionSeen, SessionRow
  <2> QED
    BY <1>4, <1>5, <2>1, <2>2 DEF HoldsFound
<1>9. HoldsPick(p)'
  <2>1. s.pick # None => label # "candidates"
    BY <1>4 DEF SelectionSeen
  <2> QED
    BY <1>1, <1>2, <1>4, <1>5, <2>1 DEF SeatInv, HoldsPick, Unrevoked, Exists
<1>10. (Answered(p) /\ HoldsAuthority(p) /\ Leased(p))'
  BY <1>1, <1>2, <1>4, <1>5, <1>6
  DEF SeatInv, Answered, HoldsAuthority, Leased, ScopeSteps
<1>11. HeldInOrder(p)'
  <2>1. HeldRank("user", s.again) <= 4 /\ HeldRank(label, s.again) = 4
    BY <1>4, <1>6 DEF HeldRank
  <2>2. LockRank(UserLock(u)[1]) = 2
    BY LockRanks
  <2>3. /\ HeldRank(step[p], seat[p].again) <= HeldRank(step'[p], seat'[p].again)
        /\ LockRank(UserLock(u)[1]) <= HeldRank(step'[p], seat'[p].again)
    BY <1>1, <1>5, <2>1, <2>2
  <2> QED
    BY <1>1, <1>5, <2>3, TakesInOrder
<1>12. label \in ResolveSteps
  BY <1>4 DEF ResolveSteps
<1> QED
  BY <1>1, <1>3, <1>7, <1>8, <1>9, <1>10, <1>11, <1>12, ReadFrame DEF SeatInv

LEMMA LoadAuthorizedCandidatesStep ==
  ASSUME TenantInv, NEW p \in Worker, LoadAuthorizedCandidates(p)
  PROVE  TenantInv'
<1> DEFINE s == seat[p]
           new == [s EXCEPT !.cand = Candidates(s.user), !.found = {}]
<1>1. /\ step[p] = "candidates" /\ Advance(p, "lockCandidates", new)
      /\ UNCHANGED locks /\ ReadsOnly
  BY DEF LoadAuthorizedCandidates
<1>2. SeatInv(p) /\ s \in Seat
  BY <1>1, SeatedFacts DEF TenantInv
<1>3. /\ new \in Seat /\ new.found = {} /\ new.token = s.token /\ new.user = s.user
      /\ new.pick = s.pick /\ new.org = s.org /\ new.again = s.again
      /\ new.lease = s.lease /\ new.wrote = s.wrote
  BY <1>2 DEF Seat, Candidates
<1> HIDE DEF new
<1>4. /\ UNCHANGED <<now, users, memberships, orgs, sessions>>
      /\ step'[p] = "lockCandidates" /\ seat'[p] = new
      /\ \A res, mode : Holds(p, res, mode) => Holds(p, res, mode)'
  BY <1>1, ReadFacts
<1>5. s.org = None /\ s.pick = None
  BY <1>1, <1>2 DEF SeatInv, HoldsPick, Answered, ResolveSteps
<1>6. (Seated(p) /\ HoldsSession(p) /\ HoldsActiveUser(p) /\ HoldsFound(p))'
  BY <1>1, <1>2, <1>3, <1>4 DEF SeatInv, Seated, HoldsSession, HoldsActiveUser,
     HoldsFound, Exists, Unrevoked, ResolveSteps, ScopeSteps
<1>7. (HoldsPick(p) /\ Answered(p) /\ HoldsAuthority(p) /\ Leased(p))'
  BY <1>1, <1>2, <1>3, <1>4, <1>5
  DEF SeatInv, HoldsPick, Answered, HoldsAuthority, Leased, ScopeSteps
<1>8. HeldInOrder(p)'
  <2>1. HeldRank("candidates", s.again) = 4 /\ HeldRank("lockCandidates", s.again) = 4
    BY DEF HeldRank
  <2>2. HeldRank(step[p], seat[p].again) <= HeldRank(step'[p], seat'[p].again)
    BY <1>1, <1>3, <1>4, <2>1
  <2> QED
    BY <1>1, <2>2, StaysInOrder
<1>9. "lockCandidates" \in ResolveSteps
  BY DEF ResolveSteps
<1> QED
  BY <1>1, <1>3, <1>6, <1>7, <1>8, <1>9, ReadFrame DEF SeatInv

LEMMA LockCandidateStep ==
  ASSUME TenantInv, NEW p \in Worker, LockCandidate(p)
  PROVE  TenantInv'
<1> DEFINE s == seat[p]
           member(o) == MembershipLock(s.user, o)
           more(o) == IF memberships[<<s.user, o>>].status = "Active"
                      THEN s.found \cup {o} ELSE s.found
<1>1. step[p] = "lockCandidates" /\ ReadsOnly
  BY DEF LockCandidate
<1>2. PICK o \in s.cand : /\ Acquire(p, member(o), "S")
        /\ Advance(p, "lockCandidates",
             [s EXCEPT !.cand = s.cand \ {o}, !.found = more(o)])
  BY DEF LockCandidate
<1> DEFINE new == [s EXCEPT !.cand = s.cand \ {o}, !.found = more(o)]
<1>3. SeatInv(p) /\ s \in Seat /\ o \in Org /\ member(o) \in Resource
  <2>1. s \in Seat
    BY <1>1, SeatedFacts
  <2>2. o \in Org
    BY <2>1 DEF Seat
  <2> QED
    BY <1>1, <2>1, <2>2, SeatedFacts DEF TenantInv
<1>4. /\ new \in Seat /\ new.found \subseteq s.found \cup {o}
      /\ new.token = s.token /\ new.user = s.user
      /\ new.pick = s.pick /\ new.org = s.org /\ new.again = s.again
      /\ new.lease = s.lease /\ new.wrote = s.wrote
  BY <1>3 DEF Seat
<1>5. Advance(p, "lockCandidates", new) /\ Acquire(p, member(o), "S")
  BY <1>2
<1> HIDE DEF new, member
<1>6. /\ UNCHANGED <<now, users, memberships, orgs, sessions>>
      /\ step'[p] = "lockCandidates" /\ seat'[p] = new
      /\ \A res, mode : Holds(p, res, mode) => Holds(p, res, mode)'
      /\ locks'[p] = locks[p] \cup {[res |-> member(o), mode |-> "S"]}
  BY <1>1, <1>5, ReadFacts
<1>7. s.org = None /\ s.pick = None
  BY <1>1, <1>3 DEF SeatInv, HoldsPick, Answered, ResolveSteps
<1>8. (Seated(p) /\ HoldsSession(p) /\ HoldsActiveUser(p))'
  BY <1>1, <1>3, <1>4, <1>6 DEF SeatInv, Seated, HoldsSession, HoldsActiveUser,
     Exists, Unrevoked, ResolveSteps, ScopeSteps
<1>9. HoldsFound(p)'
  BY <1>1, <1>3, <1>4, <1>6 DEF SeatInv, HoldsFound, Holds, member
<1>10. (HoldsPick(p) /\ Answered(p) /\ HoldsAuthority(p) /\ Leased(p))'
  BY <1>1, <1>3, <1>4, <1>6, <1>7
  DEF SeatInv, HoldsPick, Answered, HoldsAuthority, Leased, ScopeSteps
<1>11. HeldInOrder(p)'
  <2>1. HeldRank("lockCandidates", s.again) = 4 /\ LockRank(member(o)[1]) = 4
    BY LockRanks DEF HeldRank, member
  <2>2. /\ HeldRank(step[p], seat[p].again) <= HeldRank(step'[p], seat'[p].again)
        /\ LockRank(member(o)[1]) <= HeldRank(step'[p], seat'[p].again)
    BY <1>1, <1>4, <1>6, <2>1
  <2> QED
    BY <1>1, <1>6, <2>2, TakesInOrder
<1>12. "lockCandidates" \in ResolveSteps
  BY DEF ResolveSteps
<1> QED
  BY <1>1, <1>3, <1>4, <1>5, <1>8, <1>9, <1>10, <1>11, <1>12, ReadFrame
  DEF SeatInv

LEMMA ResolveCandidatesStep ==
  ASSUME TenantInv, NEW p \in Worker, ResolveCandidates(p)
  PROVE  TenantInv'
<1> DEFINE s == seat[p]
<1>1. step[p] = "lockCandidates" /\ UNCHANGED locks /\ ReadsOnly
  BY DEF ResolveCandidates
<1>2. PICK label \in {"select", "resolved"}, new \in {s, [s EXCEPT !.at = now]} :
        Advance(p, label, new)
  BY DEF ResolveCandidates
<1>3. SeatInv(p) /\ s \in Seat /\ now \in Nat
  BY <1>1, SeatedFacts DEF TenantInv
<1>4. /\ new \in Seat /\ new.found = s.found /\ new.token = s.token
      /\ new.user = s.user
      /\ new.pick = s.pick /\ new.org = s.org /\ new.again = s.again
      /\ new.lease = s.lease /\ new.wrote = s.wrote
  BY <1>3 DEF Seat
<1>5. /\ UNCHANGED <<now, users, memberships, orgs, sessions>>
      /\ step'[p] = label /\ seat'[p] = new
      /\ \A res, mode : Holds(p, res, mode) => Holds(p, res, mode)'
  BY <1>1, <1>2, ReadFacts
<1>6. s.org = None /\ s.pick = None
  BY <1>1, <1>3 DEF SeatInv, HoldsPick, Answered, ResolveSteps
<1>7. (Seated(p) /\ HoldsSession(p) /\ HoldsActiveUser(p) /\ HoldsFound(p))'
  BY <1>1, <1>3, <1>4, <1>5 DEF SeatInv, Seated, HoldsSession, HoldsActiveUser,
     HoldsFound, Exists, Unrevoked, ResolveSteps, ScopeSteps
<1>8. (HoldsPick(p) /\ Answered(p) /\ HoldsAuthority(p) /\ Leased(p))'
  BY <1>1, <1>3, <1>4, <1>5, <1>6
  DEF SeatInv, HoldsPick, Answered, HoldsAuthority, Leased, ScopeSteps
<1>9. HeldInOrder(p)'
  <2>1. HeldRank("lockCandidates", s.again) = 4 /\ HeldRank(label, s.again) = 4
    BY DEF HeldRank
  <2>2. HeldRank(step[p], seat[p].again) <= HeldRank(step'[p], seat'[p].again)
    BY <1>1, <1>4, <1>5, <2>1
  <2> QED
    BY <1>1, <2>2, StaysInOrder
<1>10. label \in ResolveSteps
  BY DEF ResolveSteps
<1> QED
  BY <1>1, <1>2, <1>4, <1>7, <1>8, <1>9, <1>10, ReadFrame DEF SeatInv

\* The UPDATE that selects finds everything as it must be, under locks held.
LEMMA PersistAutoSelectionStep ==
  ASSUME TenantInv, NEW p \in Worker, PersistAutoSelection(p)
  PROVE  TenantInv'
<1> DEFINE s == seat[p]
           t == s.token
           u == s.user
           version(o) == memberships[<<u, o>>].version
           Selects(o) == /\ sessions[t].org = None /\ Unrevoked(t)
                         /\ users[u] = "Active" /\ Candidates(u) = {o}
           picked(o) == [s EXCEPT !.again = TRUE, !.pick = o,
                                  !.pickVersion = version(o)]
           missed == [s EXCEPT !.again = TRUE]
<1>1. step[p] = "select" /\ UNCHANGED locks /\ ReadsOnly
  BY DEF PersistAutoSelection
<1>2. PICK o \in s.found :
        \/ Selects(o) /\ Advance(p, "user", picked(o))
        \/ Advance(p, "user", missed)
  BY DEF PersistAutoSelection
<1>3. /\ SeatInv(p) /\ s \in Seat /\ o \in Org
      /\ memberships[<<u, o>>] \in MembershipRow
  <2>1. s \in Seat
    BY <1>1, SeatedFacts
  <2>2. o \in Org
    BY <2>1 DEF Seat
  <2> QED
    BY <1>1, <2>1, <2>2, SeatedFacts DEF TenantInv
<1>4. s.org = None /\ s.pick = None /\ Holds(p, MembershipLock(u, o), "S")
  BY <1>1, <1>3 DEF SeatInv, HoldsPick, HoldsFound, Answered, ResolveSteps
<1>5. HeldRank("select", s.again) = 4 /\ \A again : again => HeldRank("user", again) = 4
  BY DEF HeldRank
<1>6. "user" \in ResolveSteps
  BY DEF ResolveSteps
<1>7. CASE Selects(o) /\ Advance(p, "user", picked(o))
  <2> DEFINE v == version(o)
             new == [s EXCEPT !.again = TRUE, !.pick = o, !.pickVersion = v]
  <2>1. v \in Nat
    BY <1>3 DEF MembershipRow
  <2>2. Advance(p, "user", new)
    BY <1>7
  <2>3. memberships[<<u, o>>].status = "Active"
    BY <1>3, <1>7 DEF Candidates
  <2> HIDE DEF version
  <2>4. /\ new \in Seat /\ new.token = t /\ new.user = u /\ new.again
        /\ new.pick = o /\ new.pickVersion = v /\ new.org = s.org
        /\ new.lease = s.lease /\ new.wrote = s.wrote
    BY <1>3, <2>1 DEF Seat
  <2> HIDE DEF new
  <2>5. /\ UNCHANGED <<now, users, memberships, orgs, sessions>>
        /\ step'[p] = "user" /\ seat'[p] = new
        /\ \A res, mode : Holds(p, res, mode) => Holds(p, res, mode)'
    BY <1>1, <2>2, ReadFacts
  <2>6. (Seated(p) /\ HoldsSession(p) /\ HoldsActiveUser(p) /\ HoldsFound(p))'
    BY <1>1, <1>3, <2>4, <2>5 DEF SeatInv, Seated, HoldsSession,
       HoldsActiveUser, HoldsFound, Exists, Unrevoked, ResolveSteps, ScopeSteps
  <2>7. HoldsPick(p)'
    <3>1. Holds(p, UserLock(u), "S") /\ users[u] = "Active" /\ Unrevoked(t)
      BY <1>1, <1>3 DEF SeatInv, HoldsActiveUser
    <3>2. sessions[t].org = None
      BY <1>7
    <3>3. /\ Holds(p, UserLock(seat[p].user), "S")'
          /\ Holds(p, MembershipLock(seat[p].user, seat[p].pick), "S")'
      BY <1>1, <1>4, <2>4, <2>5, <3>1 DEF Holds
    <3> QED
      BY <2>3, <2>4, <2>5, <3>1, <3>2, <3>3
      DEF HoldsPick, Unrevoked, Exists, version
  <2>8. (Answered(p) /\ HoldsAuthority(p) /\ Leased(p))'
    BY <1>1, <1>3, <1>4, <2>4, <2>5
    DEF SeatInv, Answered, HoldsAuthority, Leased, ScopeSteps
  <2>9. HeldInOrder(p)'
    <3>1. HeldRank(step[p], seat[p].again) <= HeldRank(step'[p], seat'[p].again)
      BY <1>1, <1>5, <2>4, <2>5
    <3> QED
      BY <1>1, <3>1, StaysInOrder
  <2> QED
    BY <1>1, <1>6, <2>2, <2>4, <2>6, <2>7, <2>8, <2>9, ReadFrame DEF SeatInv
<1>8. CASE Advance(p, "user", missed)
  <2>1. /\ missed \in Seat /\ missed.token = t /\ missed.user = u
        /\ missed.again /\ missed.pick = None /\ missed.org = s.org
        /\ missed.lease = s.lease /\ missed.wrote = s.wrote
    BY <1>3, <1>4 DEF Seat
  <2> HIDE DEF missed
  <2>2. /\ UNCHANGED <<now, users, memberships, orgs, sessions>>
        /\ step'[p] = "user" /\ seat'[p] = missed
        /\ \A res, mode : Holds(p, res, mode) => Holds(p, res, mode)'
    BY <1>1, <1>8, ReadFacts
  <2>3. (Seated(p) /\ HoldsSession(p) /\ HoldsActiveUser(p) /\ HoldsFound(p))'
    BY <1>1, <1>3, <2>1, <2>2 DEF SeatInv, Seated, HoldsSession,
       HoldsActiveUser, HoldsFound, Exists, Unrevoked, ResolveSteps, ScopeSteps
  <2>4. (HoldsPick(p) /\ Answered(p) /\ HoldsAuthority(p) /\ Leased(p))'
    BY <1>1, <1>3, <1>4, <2>1, <2>2
    DEF SeatInv, HoldsPick, Answered, HoldsAuthority, Leased, ScopeSteps
  <2>5. HeldInOrder(p)'
    <3>1. HeldRank(step[p], seat[p].again) <= HeldRank(step'[p], seat'[p].again)
      BY <1>1, <1>5, <2>1, <2>2
    <3> QED
      BY <1>1, <3>1, StaysInOrder
  <2> QED
    BY <1>1, <1>6, <1>8, <2>1, <2>3, <2>4, <2>5, ReadFrame DEF SeatInv
<1> QED
  BY <1>2, <1>7, <1>8

LEMMA LoadSelectedStep ==
  ASSUME TenantInv, NEW p \in Worker, LoadSelected(p)
  PROVE  TenantInv'
<1> DEFINE s == seat[p]
           active == orgs[SelectionSeen(p)] = "Active"
           new == [s EXCEPT !.active = active]
<1>1. /\ step[p] = "selected" /\ Advance(p, "lockSelected", new)
      /\ UNCHANGED locks /\ ReadsOnly
  BY DEF LoadSelected
<1>2. SeatInv(p) /\ s \in Seat
  BY <1>1, SeatedFacts DEF TenantInv
<1>3. active \in BOOLEAN
  OBVIOUS
<1> HIDE DEF active
<1>4. /\ new \in Seat /\ new.token = s.token /\ new.user = s.user
      /\ new.pick = s.pick /\ new.pickVersion = s.pickVersion
      /\ new.org = s.org /\ new.again = s.again
      /\ new.lease = s.lease /\ new.wrote = s.wrote
  BY <1>2, <1>3 DEF Seat
<1> HIDE DEF new
<1>5. /\ UNCHANGED <<now, users, memberships, orgs, sessions>>
      /\ step'[p] = "lockSelected" /\ seat'[p] = new
      /\ \A res, mode : Holds(p, res, mode) => Holds(p, res, mode)'
  BY <1>1, ReadFacts
<1>6. s.org = None
  BY <1>1, <1>2 DEF SeatInv, Answered, ResolveSteps
<1>7. SelectionSeen(p)' = SelectionSeen(p)
  BY <1>4, <1>5 DEF SelectionSeen
<1>8. (Seated(p) /\ HoldsSession(p) /\ HoldsActiveUser(p) /\ HoldsFound(p))'
  BY <1>1, <1>2, <1>4, <1>5, <1>7 DEF SeatInv, Seated, HoldsSession,
     HoldsActiveUser, HoldsFound, Exists, Unrevoked, ResolveSteps, ScopeSteps
<1>9. HoldsPick(p)'
  BY <1>1, <1>2, <1>4, <1>5 DEF SeatInv, HoldsPick, Unrevoked, Exists
<1>10. (Answered(p) /\ HoldsAuthority(p) /\ Leased(p))'
  BY <1>1, <1>2, <1>4, <1>5, <1>6
  DEF SeatInv, Answered, HoldsAuthority, Leased, ScopeSteps
<1>11. HeldInOrder(p)'
  <2>1. HeldRank("selected", s.again) = 4 /\ HeldRank("lockSelected", s.again) = 4
    BY DEF HeldRank
  <2>2. HeldRank(step[p], seat[p].again) <= HeldRank(step'[p], seat'[p].again)
    BY <1>1, <1>4, <1>5, <2>1
  <2> QED
    BY <1>1, <2>2, StaysInOrder
<1>12. "lockSelected" \in ResolveSteps
  BY DEF ResolveSteps
<1> QED
  BY <1>1, <1>4, <1>8, <1>9, <1>10, <1>11, <1>12, ReadFrame DEF SeatInv

LEMMA LockSelectedStep ==
  ASSUME TenantInv, NEW p \in Worker, LockSelected(p)
  PROVE  TenantInv'
<1> DEFINE s == seat[p]
           o == SelectionSeen(p)
           res == MembershipLock(s.user, o)
           bound == [s EXCEPT !.org = o]
<1>1. step[p] = "lockSelected" /\ Acquire(p, res, "S") /\ ReadsOnly
  BY DEF LockSelected
<1>2. PICK new \in {s, bound} : Advance(p, "resolved", new)
  BY DEF LockSelected
<1>3. SeatInv(p) /\ s \in Seat /\ o \in Org /\ s.org = None
  BY <1>1, SeatedFacts
  DEF TenantInv, SeatInv, HoldsFound, Answered, ResolveSteps
<1>4. res \in Resource /\ LockRank(res[1]) = 4
  BY <1>1, <1>3, SeatedFacts, LockRanks
<1> HIDE DEF o
<1>5. /\ new \in Seat /\ new.token = s.token /\ new.user = s.user
      /\ new.pick = s.pick /\ new.pickVersion = s.pickVersion
      /\ new.org \in {None, o} /\ new.again = s.again
      /\ new.lease = s.lease /\ new.wrote = s.wrote
  BY <1>3 DEF Seat
<1> HIDE DEF res
<1>6. /\ UNCHANGED <<now, users, memberships, orgs, sessions>>
      /\ step'[p] = "resolved" /\ seat'[p] = new
      /\ \A r, mode : Holds(p, r, mode) => Holds(p, r, mode)'
      /\ locks'[p] = locks[p] \cup {[res |-> res, mode |-> "S"]}
  BY <1>1, <1>2, ReadFacts
<1>7. SelectionSeen(p)' = o
  BY <1>5, <1>6 DEF SelectionSeen, o
<1>8. (Seated(p) /\ HoldsSession(p) /\ HoldsActiveUser(p) /\ HoldsFound(p))'
  BY <1>1, <1>3, <1>5, <1>6 DEF SeatInv, Seated, HoldsSession,
     HoldsActiveUser, HoldsFound, Exists, Unrevoked, ResolveSteps, ScopeSteps
<1>9. HoldsPick(p)'
  BY <1>1, <1>3, <1>5, <1>6 DEF SeatInv, HoldsPick, Unrevoked, Exists
<1>10. (Answered(p) /\ HoldsAuthority(p) /\ Leased(p))'
  BY <1>1, <1>3, <1>5, <1>6, <1>7
  DEF SeatInv, Answered, HoldsAuthority, Leased, ScopeSteps
<1>11. HeldInOrder(p)'
  <2>1. HeldRank("lockSelected", s.again) = 4 /\ HeldRank("resolved", s.again) = 4
    BY DEF HeldRank
  <2>2. /\ HeldRank(step[p], seat[p].again) <= HeldRank(step'[p], seat'[p].again)
        /\ LockRank(res[1]) <= HeldRank(step'[p], seat'[p].again)
    BY <1>1, <1>4, <1>5, <1>6, <2>1
  <2> QED
    BY <1>1, <1>6, <2>2, TakesInOrder
<1>12. "resolved" \in ResolveSteps
  BY DEF ResolveSteps
<1> QED
  BY <1>1, <1>2, <1>4, <1>5, <1>8, <1>9, <1>10, <1>11, <1>12, ReadFrame DEF SeatInv

LEMMA ResolveTenantStep ==
  ASSUME TenantInv, NEW p \in Worker, NEW t \in Token, ResolveTenant(p, t)
  PROVE  TenantInv'
<1> DEFINE new == [NoSeat EXCEPT !.token = t, !.user = sessions[t].user]
<1>1. /\ pc[p] = "idle" /\ step[p] = "idle" /\ Exists(t)
      /\ Advance(p, "session", new) /\ UNCHANGED <<storeVars, lifeVars, rows>>
  BY DEF ResolveTenant
<1>2. TenantTypeOK /\ TypeOK /\ LockExclusion
  BY DEF TenantInv, IInv
<1>3. sessions[t].user \in User
  <2>1. sessions[t] \in SessionRow
    BY <1>1, <1>2 DEF TypeOK, StoreTypeOK, Exists
  <2> QED
    BY <2>1 DEF SessionRow
<1>4. /\ new \in Seat /\ new.token = t /\ new.user = sessions[t].user
      /\ new.pick = None /\ new.org = None /\ new.again = FALSE
      /\ new.lease = FALSE /\ new.wrote = "nothing"
  BY <1>3, NoSeatType DEF Seat, NoSeat
<1> HIDE DEF new
<1>5. /\ step'[p] = "session" /\ seat'[p] = new /\ sessions' = sessions
      /\ locks' = locks /\ locks[p] = {}
  BY <1>1, <1>2, AdvanceFacts DEF storeVars, TenantTypeOK
<1>6. (Seated(p) /\ HoldsSession(p) /\ HoldsActiveUser(p) /\ HoldsFound(p))'
  BY <1>1, <1>3, <1>4, <1>5
  DEF Seated, HoldsSession, HoldsActiveUser, HoldsFound, Exists
<1>7. (HoldsPick(p) /\ Answered(p) /\ HoldsAuthority(p) /\ Leased(p))'
  BY <1>4, <1>5 DEF HoldsPick, Answered, HoldsAuthority, Leased, ScopeSteps
<1>8. HeldInOrder(p)'
  BY <1>5 DEF HeldInOrder
<1>9. /\ UNCHANGED <<now, authorityRows, sessions, lifeVars>>
      /\ rows' \in [Org -> {0, 1}]
      /\ locks' \in [Worker -> SUBSET Lock] /\ LockExclusion'
  BY <1>1, <1>2
  DEF storeVars, authorityRows, TenantTypeOK, TypeOK, StoreTypeOK, LockExclusion
<1>10. "session" \in ResolveSteps /\ "session" # "idle"
  BY DEF ResolveSteps
<1> QED
  BY <1>1, <1>4, <1>5, <1>6, <1>7, <1>8, <1>9, <1>10, OwnFrame DEF SeatInv

\* What a resolution commits is the selection it answers with.
LEMMA CommitResolutionStep ==
  ASSUME TenantInv, NEW p \in Worker, CommitResolution(p)
  PROVE  TenantInv'
<1> DEFINE s == seat[p]
           t == s.token
<1>1. /\ step[p] = "resolved" /\ Release(p)
      /\ UNCHANGED <<now, authorityRows, lifeVars, rows>>
  BY DEF CommitResolution
<1>2. /\ TenantTypeOK /\ IInv /\ Ownership /\ SeatInv(p)
      /\ t \in Token /\ s.user \in User /\ Exists(t) /\ s \in Seat
      /\ sessions[t] \in SessionRow /\ sessions[t].user = s.user
  BY <1>1, SeatedFacts DEF TenantInv, SeatInv, Seated
<1>3. /\ pc[p] = "idle" /\ rows' \in [Org -> {0, 1}] /\ UNCHANGED lifeVars
  BY <1>1, <1>2 DEF TenantTypeOK
<1>4. /\ locks' \in [Worker -> SUBSET Lock] /\ LockExclusion' /\ locks'[p] = {}
      /\ \A q \in Worker \ {p} : locks'[q] = locks[q]
  BY <1>1, <1>2, ReleaseLocks DEF IInv
<1>5. /\ s.org # None => s.org = SelectionSeen(p)
      /\ Holds(p, SessionLock(t), "X")
  BY <1>1, <1>2 DEF SeatInv, Answered, HoldsSession, ResolveSteps
\* The session, with the selection that is seen ...
<1>6. /\ sessions'[t] # None /\ sessions'[t].user = s.user
      /\ s.org # None => sessions'[t].org = s.org
      /\ IInv' /\ Ownership'
      /\ \A q \in Worker \ {p} : RowsKept(q)
  <2>1. CASE s.pick = None
    <3>1. sessions' = sessions
      BY <2>1 DEF CommitResolution
    <3>2. IInv' /\ Ownership'
      BY <1>1, <1>2, <1>3, <1>4, <3>1, BesideFrame
    <3>3. \A q \in Worker : RowsKept(q)
      BY <1>1, <3>1 DEF RowsKept, authorityRows, Exists
    <3> QED
      BY <1>2, <1>5, <2>1, <3>1, <3>2, <3>3 DEF SelectionSeen, Exists
  <2>2. CASE s.pick # None
    <3> DEFINE o == s.pick
               v == s.pickVersion
               new == [sessions[t] EXCEPT !.org = o, !.version = v]
    <3>1. /\ Unrevoked(t) /\ sessions[t].org = None /\ o \in Org /\ v \in Nat
      <4>1. /\ o \in Org /\ Unrevoked(t) /\ sessions[t].org = None
            /\ memberships[<<s.user, o>>].version = v
        BY <1>2, <2>2 DEF SeatInv, HoldsPick, Seat
      <4>2. memberships[<<s.user, o>>] \in MembershipRow
        BY <1>1, <4>1, SeatedFacts
      <4> QED
        BY <4>1, <4>2 DEF MembershipRow
    <3>2. sessions' = [sessions EXCEPT ![t].org = o, ![t].version = v]
      BY <2>2 DEF CommitResolution
    <3>3. \A q \in Worker \ {p} : ~Holds(q, SessionLock(t), "X")
      BY <1>2, <1>5 DEF IInv, LockExclusion, Holds
    <3>4. IInv'
      <4> DEFINE Mine == {p}
      <4>1. /\ Mine \in SUBSET Worker /\ \A q \in Mine : pc[q] = "idle"
            /\ \A q \in Worker \ Mine : ~Holds(q, SessionLock(t), "X")
            /\ \A q \in Worker \ Mine : locks'[q] = locks[q]
        BY <1>3, <1>4, <3>3
      <4> HIDE DEF Mine, o, v, t
      <4>2. UNCHANGED <<now, authorityRows, lifeVars>>
        BY <1>1
      <4>3. t \in Token /\ o \in Org /\ v \in Nat /\ Unrevoked(t)
        BY <1>2, <3>1
      <4> QED
        BY <1>2, <1>4, <3>2, <4>1, <4>2, <4>3, SelectionFrame
    <3>5. sessions' = [sessions EXCEPT ![t] = new]
      BY <1>2, <3>2 DEF IInv, TypeOK, StoreTypeOK
    <3>6. /\ new \in SessionRow /\ new.user = s.user /\ new.org = o
      BY <1>2, <3>1 DEF SessionRow
    <3> HIDE DEF new
    <3>7. /\ sessions'[t] = new /\ new # None
          /\ \A r \in Token : r # t => sessions'[r] = sessions[r]
      BY <1>2, <3>5, <3>6, NoneAssumption DEF IInv, TypeOK, StoreTypeOK
    <3>8. Ownership'
      <4>1. \A r \in Token : Exists(r) =>
              sessions'[r] # None /\ sessions'[r].user = sessions[r].user
        BY <1>2, <3>6, <3>7 DEF Exists
      <4>2. pc' = pc /\ ctx' = ctx
        BY <1>1 DEF lifeVars
      <4>3. ASSUME NEW q \in Worker PROVE (OwnsOld(q) /\ OwnsSnapshot(q))'
        <5>1. pc[q] \in ReplaceSteps \ {"lockSession"} =>
                ctx[q].token \in Token /\ Exists(ctx[q].token)
          BY <1>2, WorkerFacts DEF HoldsOld, Unrevoked, CapturedAt
        <5>2. ctx[q].snapshot \subseteq Token
          BY <1>2, WorkerFacts DEF Ctx
        <5> QED
          BY <1>2, <4>1, <4>2, <5>1, <5>2
          DEF Ownership, OwnsOld, OwnsSnapshot, Exists
      <4> QED
        BY <4>3 DEF Ownership
    <3>9. ASSUME NEW q \in Worker \ {p} PROVE RowsKept(q)
      <4>1. \A r \in Token : Exists(r) =>
              /\ sessions'[r] # None /\ sessions'[r].user = sessions[r].user
              /\ sessions[r].org # None => sessions'[r].org = sessions[r].org
              /\ Holds(q, SessionLock(r), "X") => sessions'[r] = sessions[r]
        BY <1>2, <3>1, <3>3, <3>6, <3>7 DEF Exists
      <4> QED
        BY <1>1, <4>1 DEF RowsKept, authorityRows
    <3> QED
      BY <1>5, <2>2, <3>4, <3>6, <3>7, <3>8, <3>9 DEF SelectionSeen
  <2> QED
    BY <2>1, <2>2
\* ... is what the operation that follows starts from.
<1>7. CASE s.org = None
  <2>1. Advance(p, "idle", NoSeat)
    BY <1>7 DEF CommitResolution
  <2>2. SeatInv(p)'
    BY <1>2, <2>1, AdvanceFacts, EmptySeat
  <2> QED
    BY <1>3, <1>4, <1>6, <2>1, <2>2, NoSeatType, SeatFrame
<1>8. CASE s.org # None
  <2>1. PICK mode \in Mode, need \in Required : Advance(p, "scopeSession",
          [NoSeat EXCEPT !.token = t, !.user = s.user, !.org = s.org,
                         !.mode = mode, !.need = need])
    BY <1>8 DEF CommitResolution
  <2> DEFINE new == [NoSeat EXCEPT !.token = t, !.user = s.user, !.org = s.org,
                                   !.mode = mode, !.need = need]
  <2>2. mode \in {"authorized", "run"} /\ need \in Permission /\ s.org \in Org
    BY <1>2, <1>8, TenantAssumption DEF Seat
  <2>3. /\ new \in Seat /\ new.token = t /\ new.user = s.user /\ new.org = s.org
        /\ new.pick = None /\ new.lease = FALSE /\ new.wrote = "nothing"
    BY <1>2, <2>2, NoSeatType DEF Seat, NoSeat
  <2>4. Advance(p, "scopeSession", new)
    BY <2>1
  <2> HIDE DEF new
  <2>5. step'[p] = "scopeSession" /\ seat'[p] = new
    BY <1>2, <2>4, AdvanceFacts
  <2>6. (Seated(p) /\ HoldsSession(p) /\ HoldsActiveUser(p) /\ HoldsFound(p))'
    BY <1>2, <1>6, <2>3, <2>5
    DEF Seated, HoldsSession, HoldsActiveUser, HoldsFound, Exists
  <2>7. (HoldsPick(p) /\ Answered(p) /\ HoldsAuthority(p) /\ Leased(p))'
    BY <1>6, <1>8, <2>3, <2>5
    DEF HoldsPick, Answered, HoldsAuthority, Leased, ResolveSteps
  <2>8. HeldInOrder(p)'
    BY <1>4 DEF HeldInOrder
  <2>9. "scopeSession" \in ScopeSteps /\ "scopeSession" # "idle"
    BY DEF ScopeSteps
  <2> QED
    BY <1>3, <1>4, <1>6, <2>3, <2>4, <2>6, <2>7, <2>8, <2>9, SeatFrame DEF SeatInv
<1> QED
  BY <1>7, <1>8

----------------------------------------------------------------------------
(* The steps of an operation *)

LEMMA DenyReads ==
  ASSUME TenantInv, NEW p \in Worker, step[p] # "idle", Deny(p), ReadsOnly
  PROVE  TenantInv'
<1>1. rows' \in [Org -> {0, 1}]
  BY DEF ReadsOnly, TenantInv, TenantTypeOK
<1>2. UNCHANGED <<now, authorityRows, sessions, lifeVars>>
  BY DEF ReadsOnly
<1> QED
  BY <1>1, <1>2, DenyStep

\* What an operation carries from its start to its end.
LEMMA ScopeFacts ==
  ASSUME TenantInv, NEW p \in Worker, step[p] \in ScopeSteps
  PROVE  LET s == seat[p] IN
         /\ SeatInv(p) /\ s \in Seat /\ s.token \in Token /\ s.user \in User
         /\ s.org \in Org /\ s.pick = None /\ now \in Nat
         /\ SessionLock(s.token) \in Resource /\ UserLock(s.user) \in Resource
         /\ MembershipLock(s.user, s.org) \in Resource
         /\ OrganizationLock(s.org) \in Resource
<1>1. step[p] # "idle" /\ step[p] \notin {"user", "selected", "lockSelected", "resolved"}
  BY DEF ScopeSteps
<1>2. SeatInv(p) /\ seat[p] \in Seat /\ seat[p].org # None
  BY <1>1, SeatedFacts DEF TenantInv, SeatInv, Answered
<1>3. seat[p].org \in Org /\ seat[p].pick = None
  BY <1>1, <1>2 DEF Seat, SeatInv, HoldsPick
<1> QED
  BY <1>1, <1>2, <1>3, SeatedFacts

LEMMA ScopeSessionStep ==
  ASSUME TenantInv, NEW p \in Worker, ScopeSession(p)
  PROVE  TenantInv'
<1> DEFINE s == seat[p]
           t == s.token
           res == SessionLock(t)
           new == [s EXCEPT !.at = now]
<1>1. step[p] = "scopeSession" /\ ReadsOnly
  BY DEF ScopeSession
<1>2. CASE Deny(p)
  BY <1>1, <1>2, DenyReads
<1>3. CASE /\ Unrevoked(t) /\ ~RowExpired(sessions[t], now)
           /\ Acquire(p, res, "X") /\ Advance(p, "scopeUser", new)
  <2>1. step[p] \in ScopeSteps /\ "scopeUser" \in ScopeSteps
    BY <1>1 DEF ScopeSteps
  <2>2. /\ SeatInv(p) /\ s \in Seat /\ s.org \in Org /\ s.pick = None
        /\ now \in Nat /\ res \in Resource
    BY <2>1, ScopeFacts
  <2>3. /\ new \in Seat /\ new.token = t /\ new.user = s.user /\ new.at = now
        /\ new.pick = s.pick /\ new.org = s.org /\ new.again = s.again
        /\ new.lease = s.lease /\ new.wrote = s.wrote
    BY <2>2 DEF Seat
  <2> HIDE DEF new
  <2>4. /\ UNCHANGED <<now, users, memberships, orgs, sessions>>
        /\ step'[p] = "scopeUser" /\ seat'[p] = new
        /\ locks'[p] = locks[p] \cup {[res |-> res, mode |-> "X"]}
    BY <1>1, <1>3, ReadFacts
  <2>5. Seated(p)' /\ HoldsSession(p)' /\ HoldsActiveUser(p)' /\ HoldsFound(p)'
    BY <1>1, <2>2, <2>3, <2>4
    DEF SeatInv, Seated, HoldsSession, HoldsActiveUser, HoldsFound, Exists, Holds
  <2>6. HoldsPick(p)' /\ Answered(p)' /\ Leased(p)'
    BY <1>1, <2>1, <2>2, <2>3, <2>4
    DEF SeatInv, HoldsPick, Answered, Leased, ResolveSteps
  <2>7. HoldsAuthority(p)'
    BY <1>3, <2>3, <2>4 DEF HoldsAuthority, Unrevoked, Exists, RowExpired
  <2>8. HeldInOrder(p)'
    <3>1. HeldRank("scopeSession", s.again) = 0 /\ HeldRank("scopeUser", s.again) = 1
          /\ LockRank(res[1]) = 1
      BY LockRanks DEF HeldRank
    <3>2. /\ HeldRank(step[p], seat[p].again) <= HeldRank(step'[p], seat'[p].again)
          /\ LockRank(res[1]) <= HeldRank(step'[p], seat'[p].again)
      BY <1>1, <2>3, <2>4, <3>1
    <3> QED
      BY <1>1, <2>4, <3>2, TakesInOrder
  <2> QED
    BY <1>1, <1>3, <2>1, <2>2, <2>3, <2>5, <2>6, <2>7, <2>8, ReadFrame DEF SeatInv
<1> QED
  BY <1>2, <1>3 DEF ScopeSession

LEMMA ScopeUserStep ==
  ASSUME TenantInv, NEW p \in Worker, ScopeUser(p)
  PROVE  TenantInv'
<1> DEFINE s == seat[p]
           res == UserLock(s.user)
<1>1. step[p] = "scopeUser" /\ ReadsOnly
  BY DEF ScopeUser
<1>2. CASE Deny(p)
  BY <1>1, <1>2, DenyReads
<1>3. CASE /\ users[s.user] = "Active" /\ Acquire(p, res, "S")
           /\ Advance(p, "scopeMembership", s)
  <2>1. step[p] \in ScopeSteps /\ "scopeMembership" \in ScopeSteps
    BY <1>1 DEF ScopeSteps
  <2>2. SeatInv(p) /\ s \in Seat /\ s.pick = None /\ res \in Resource
    BY <2>1, ScopeFacts
  <2>3. /\ UNCHANGED <<now, users, memberships, orgs, sessions>>
        /\ step'[p] = "scopeMembership" /\ seat'[p] = s
        /\ \A r, mode : Holds(p, r, mode) => Holds(p, r, mode)'
        /\ locks'[p] = locks[p] \cup {[res |-> res, mode |-> "S"]}
    BY <1>1, <1>3, ReadFacts
  <2>4. Seated(p)' /\ HoldsSession(p)' /\ HoldsFound(p)'
    BY <1>1, <2>1, <2>2, <2>3
    DEF SeatInv, Seated, HoldsSession, HoldsFound, Exists, Holds
  <2>5. HoldsActiveUser(p)'
    BY <1>1, <1>3, <2>2, <2>3 DEF SeatInv, HoldsActiveUser, HoldsAuthority,
       Unrevoked, Exists, Holds, ScopeSteps
  <2>6. HoldsPick(p)' /\ Answered(p)' /\ Leased(p)'
    BY <1>1, <2>1, <2>2, <2>3
    DEF SeatInv, HoldsPick, Answered, Leased, ResolveSteps
  <2>7. HoldsAuthority(p)'
    BY <1>1, <2>2, <2>3
    DEF SeatInv, HoldsAuthority, Unrevoked, Exists, RowExpired, ScopeSteps
  <2>8. HeldInOrder(p)'
    <3>1. HeldRank("scopeUser", s.again) = 1 /\ HeldRank("scopeMembership", s.again) = 2
          /\ LockRank(res[1]) = 2
      BY LockRanks DEF HeldRank
    <3>2. /\ HeldRank(step[p], seat[p].again) <= HeldRank(step'[p], seat'[p].again)
          /\ LockRank(res[1]) <= HeldRank(step'[p], seat'[p].again)
      BY <1>1, <2>3, <3>1
    <3> QED
      BY <1>1, <2>3, <3>2, TakesInOrder
  <2> QED
    BY <1>1, <1>3, <2>1, <2>2, <2>4, <2>5, <2>6, <2>7, <2>8, ReadFrame DEF SeatInv
<1> QED
  BY <1>2, <1>3 DEF ScopeUser

LEMMA ScopeMembershipStep ==
  ASSUME TenantInv, NEW p \in Worker, ScopeMembership(p)
  PROVE  TenantInv'
<1> DEFINE s == seat[p]
           res == MembershipLock(s.user, s.org)
<1>1. step[p] = "scopeMembership" /\ ReadsOnly
  BY DEF ScopeMembership
<1>2. CASE Deny(p)
  BY <1>1, <1>2, DenyReads
<1>3. CASE /\ memberships[<<s.user, s.org>>].status = "Active"
           /\ Acquire(p, res, "S") /\ Advance(p, "scopeOrganization", s)
  <2>1. step[p] \in ScopeSteps /\ "scopeOrganization" \in ScopeSteps
    BY <1>1 DEF ScopeSteps
  <2>2. SeatInv(p) /\ s \in Seat /\ s.pick = None /\ res \in Resource
    BY <2>1, ScopeFacts
  <2>3. /\ UNCHANGED <<now, users, memberships, orgs, sessions>>
        /\ step'[p] = "scopeOrganization" /\ seat'[p] = s
        /\ \A r, mode : Holds(p, r, mode) => Holds(p, r, mode)'
        /\ locks'[p] = locks[p] \cup {[res |-> res, mode |-> "S"]}
    BY <1>1, <1>3, ReadFacts
  <2>4. Seated(p)' /\ HoldsSession(p)' /\ HoldsActiveUser(p)' /\ HoldsFound(p)'
    BY <1>1, <2>1, <2>2, <2>3 DEF SeatInv, Seated, HoldsSession,
       HoldsActiveUser, HoldsFound, Exists, Unrevoked, Holds
  <2>5. HoldsPick(p)' /\ Answered(p)' /\ Leased(p)'
    BY <1>1, <2>1, <2>2, <2>3
    DEF SeatInv, HoldsPick, Answered, Leased, ResolveSteps
  <2>6. HoldsAuthority(p)'
    BY <1>1, <1>3, <2>2, <2>3
    DEF SeatInv, HoldsAuthority, Unrevoked, Exists, RowExpired, Holds, ScopeSteps
  <2>7. HeldInOrder(p)'
    <3>1. /\ HeldRank("scopeMembership", s.again) = 2 /\ LockRank(res[1]) = 4
          /\ HeldRank("scopeOrganization", s.again) = 4
      BY LockRanks DEF HeldRank
    <3>2. /\ HeldRank(step[p], seat[p].again) <= HeldRank(step'[p], seat'[p].again)
          /\ LockRank(res[1]) <= HeldRank(step'[p], seat'[p].again)
      BY <1>1, <2>3, <3>1
    <3> QED
      BY <1>1, <2>3, <3>2, TakesInOrder
  <2> QED
    BY <1>1, <1>3, <2>1, <2>2, <2>4, <2>5, <2>6, <2>7, ReadFrame DEF SeatInv
<1> QED
  BY <1>2, <1>3 DEF ScopeMembership

LEMMA ScopeOrganizationStep ==
  ASSUME TenantInv, NEW p \in Worker, ScopeOrganization(p)
  PROVE  TenantInv'
<1> DEFINE s == seat[p]
           res == OrganizationLock(s.org)
           new == [s EXCEPT !.lease = TRUE]
<1>1. step[p] = "scopeOrganization" /\ ReadsOnly
  BY DEF ScopeOrganization
<1>2. CASE Deny(p)
  BY <1>1, <1>2, DenyReads
<1>3. CASE /\ orgs[s.org] = "Active" /\ Authorized(p)
           /\ Acquire(p, res, "S") /\ Advance(p, "operate", new)
  <2>1. step[p] \in ScopeSteps /\ "operate" \in ScopeSteps
    BY <1>1 DEF ScopeSteps
  <2>2. SeatInv(p) /\ s \in Seat /\ s.pick = None /\ res \in Resource
    BY <2>1, ScopeFacts
  <2>3. /\ new \in Seat /\ new.token = s.token /\ new.user = s.user
        /\ new.at = s.at /\ new.mode = s.mode /\ new.need = s.need
        /\ new.pick = s.pick /\ new.org = s.org /\ new.again = s.again
        /\ new.wrote = s.wrote
    BY <2>2 DEF Seat
  <2> HIDE DEF new
  <2>4. /\ UNCHANGED <<now, users, memberships, orgs, sessions>>
        /\ step'[p] = "operate" /\ seat'[p] = new
        /\ \A r, mode : Holds(p, r, mode) => Holds(p, r, mode)'
        /\ locks'[p] = locks[p] \cup {[res |-> res, mode |-> "S"]}
    BY <1>1, <1>3, ReadFacts
  <2>5. Seated(p)' /\ HoldsSession(p)' /\ HoldsActiveUser(p)' /\ HoldsFound(p)'
    BY <1>1, <2>1, <2>2, <2>3, <2>4 DEF SeatInv, Seated, HoldsSession,
       HoldsActiveUser, HoldsFound, Exists, Unrevoked, Holds
  <2>6. HoldsPick(p)' /\ Answered(p)' /\ Leased(p)'
    BY <1>1, <2>1, <2>2, <2>3, <2>4
    DEF SeatInv, HoldsPick, Answered, Leased, ResolveSteps
  <2>7. HoldsAuthority(p)'
    <3>1. Authorized(p)'
      BY <1>3, <2>3, <2>4 DEF Authorized
    <3>2. Holds(p, OrganizationLock(seat[p].org), "S")'
      BY <2>3, <2>4 DEF Holds
    <3> QED
      BY <1>1, <1>3, <2>2, <2>3, <2>4, <3>1, <3>2 DEF SeatInv, HoldsAuthority,
         Unrevoked, Exists, RowExpired, Holds, ScopeSteps
  <2>8. HeldInOrder(p)'
    <3>1. /\ HeldRank("scopeOrganization", s.again) = 4 /\ LockRank(res[1]) = 5
          /\ HeldRank("operate", s.again) = 5
      BY LockRanks DEF HeldRank
    <3>2. /\ HeldRank(step[p], seat[p].again) <= HeldRank(step'[p], seat'[p].again)
          /\ LockRank(res[1]) <= HeldRank(step'[p], seat'[p].again)
      BY <1>1, <2>3, <2>4, <3>1
    <3> QED
      BY <1>1, <2>4, <3>2, TakesInOrder
  <2> QED
    BY <1>1, <1>3, <2>1, <2>2, <2>3, <2>5, <2>6, <2>7, <2>8, ReadFrame DEF SeatInv
<1> QED
  BY <1>2, <1>3 DEF ScopeOrganization

\* The callback's own steps: what it works under stays as it is.
LEMMA CallbackStep ==
  ASSUME TenantInv, NEW p \in Worker, CallRepository(p) \/ Operate(p)
  PROVE  TenantInv'
<1> DEFINE s == seat[p]
           wrote == IF step[p] = "commitOperation" THEN "unchecked" ELSE "checked"
           writes == [s EXCEPT !.wrote = wrote]
<1>1. /\ step[p] \in {"operate", "recheck"} /\ UNCHANGED locks /\ ReadsOnly
  <2>1. CASE CallRepository(p)
    BY <2>1 DEF CallRepository, LeaseActive, TenantInv, SeatInv, Leased
  <2>2. CASE Operate(p)
    BY <2>2 DEF Operate
  <2> QED
    BY <2>1, <2>2
<1>2. step[p] \in ScopeSteps /\ step[p] # "idle"
  BY <1>1 DEF ScopeSteps
<1>3. SeatInv(p) /\ s \in Seat /\ s.pick = None
  BY <1>2, ScopeFacts
<1>4. wrote = "checked"
  BY <1>1
<1> HIDE DEF wrote
<1>5. PICK label \in {"operate", "recheck"}, new \in {s, writes} :
        Advance(p, label, new)
  BY <1>1 DEF CallRepository, Operate, wrote
<1>6. /\ new \in Seat /\ new.token = s.token /\ new.user = s.user
      /\ new.at = s.at /\ new.mode = s.mode /\ new.need = s.need
      /\ new.pick = s.pick /\ new.org = s.org /\ new.again = s.again
      /\ new.wrote # "unchecked"
  BY <1>3, <1>4 DEF Seat, SeatInv, Leased
<1> HIDE DEF writes
<1>7. /\ UNCHANGED <<now, users, memberships, orgs, sessions>>
      /\ step'[p] = label /\ seat'[p] = new
      /\ \A r, mode : Holds(p, r, mode) => Holds(p, r, mode)'
  BY <1>1, <1>5, ReadFacts
<1>8. Seated(p)' /\ HoldsSession(p)' /\ HoldsActiveUser(p)' /\ HoldsFound(p)'
  BY <1>1, <1>2, <1>3, <1>6, <1>7 DEF SeatInv, Seated, HoldsSession,
     HoldsActiveUser, HoldsFound, Exists, Unrevoked, Holds, ScopeSteps
<1>9. HoldsPick(p)' /\ Answered(p)' /\ Leased(p)'
  BY <1>1, <1>2, <1>3, <1>6, <1>7
  DEF SeatInv, HoldsPick, Answered, Leased, ResolveSteps
<1>10. HoldsAuthority(p)'
  <2>1. Authorized(p)'
    BY <1>1, <1>3, <1>6, <1>7 DEF Authorized, SeatInv, HoldsAuthority
  <2> QED
    BY <1>1, <1>3, <1>6, <1>7, <2>1 DEF SeatInv, HoldsAuthority,
       Unrevoked, Exists, RowExpired, Holds, ScopeSteps
<1>11. HeldInOrder(p)'
  <2>1. \A l \in {"operate", "recheck"} : HeldRank(l, s.again) = 5
    BY DEF HeldRank
  <2>2. HeldRank(step[p], seat[p].again) <= HeldRank(step'[p], seat'[p].again)
    BY <1>1, <1>6, <1>7, <2>1
  <2> QED
    BY <1>1, <1>2, <2>2, StaysInOrder
<1>12. label \in ScopeSteps
  BY DEF ScopeSteps
<1> QED
  BY <1>1, <1>2, <1>5, <1>6, <1>8, <1>9, <1>10, <1>11, <1>12, ReadFrame DEF SeatInv

LEMMA RecheckStep ==
  ASSUME TenantInv, NEW p \in Worker, Recheck(p)
  PROVE  TenantInv'
<1> DEFINE s == seat[p]
           t == s.token
           rerun == s.mode = "run"
           at == IF rerun THEN now ELSE s.at
           new == [s EXCEPT !.lease = FALSE, !.at = at]
<1>1. step[p] = "recheck" /\ ReadsOnly
  BY DEF Recheck
<1>2. CASE Deny(p)
  BY <1>1, <1>2, DenyReads
<1>3. CASE /\ rerun => ~RowExpired(sessions[t], now)
           /\ Advance(p, "commitOperation", new) /\ UNCHANGED locks
  <2>1. step[p] \in ScopeSteps /\ "commitOperation" \in ScopeSteps
    BY <1>1 DEF ScopeSteps
  <2>2. SeatInv(p) /\ s \in Seat /\ s.pick = None /\ now \in Nat
    BY <2>1, ScopeFacts
  <2>3. at \in Nat /\ ~RowExpired(sessions[t], at)
    BY <1>1, <1>3, <2>2 DEF Seat, SeatInv, HoldsAuthority, ScopeSteps
  <2> HIDE DEF at
  <2>4. /\ new \in Seat /\ new.token = t /\ new.user = s.user
        /\ new.at = at /\ new.mode = s.mode /\ new.need = s.need
        /\ new.pick = s.pick /\ new.org = s.org /\ new.again = s.again
        /\ new.wrote = s.wrote /\ ~new.lease
    BY <2>2, <2>3 DEF Seat
  <2> HIDE DEF new
  <2>5. /\ UNCHANGED <<now, users, memberships, orgs, sessions>>
        /\ step'[p] = "commitOperation" /\ seat'[p] = new
        /\ \A r, mode : Holds(p, r, mode) => Holds(p, r, mode)'
    BY <1>1, <1>3, ReadFacts
  <2>6. Seated(p)' /\ HoldsSession(p)' /\ HoldsActiveUser(p)' /\ HoldsFound(p)'
    BY <1>1, <2>1, <2>2, <2>4, <2>5 DEF SeatInv, Seated, HoldsSession,
       HoldsActiveUser, HoldsFound, Exists, Unrevoked, Holds
  <2>7. HoldsPick(p)' /\ Answered(p)' /\ Leased(p)'
    BY <1>1, <2>1, <2>2, <2>4, <2>5
    DEF SeatInv, HoldsPick, Answered, Leased, ResolveSteps
  <2>8. HoldsAuthority(p)'
    <3>1. Authorized(p)'
      BY <1>1, <2>2, <2>4, <2>5 DEF Authorized, SeatInv, HoldsAuthority
    <3>2. ~RowExpired(sessions[seat[p].token], seat[p].at)'
      BY <2>3, <2>4, <2>5 DEF RowExpired
    <3> QED
      BY <1>1, <2>2, <2>4, <2>5, <3>1, <3>2 DEF SeatInv, HoldsAuthority,
         Unrevoked, Exists, Holds, ScopeSteps
  <2>9. HeldInOrder(p)'
    <3>1. HeldRank("recheck", s.again) = 5 /\ HeldRank("commitOperation", s.again) = 5
      BY DEF HeldRank
    <3>2. HeldRank(step[p], seat[p].again) <= HeldRank(step'[p], seat'[p].again)
      BY <1>1, <2>4, <2>5, <3>1
    <3> QED
      BY <1>1, <1>3, <3>2, StaysInOrder
  <2> QED
    BY <1>1, <1>3, <2>1, <2>4, <2>6, <2>7, <2>8, <2>9, ReadFrame DEF SeatInv
<1> QED
  BY <1>2, <1>3 DEF Recheck

LEMMA CommitOperationStep ==
  ASSUME TenantInv, NEW p \in Worker, CommitOperation(p)
  PROVE  TenantInv'
<1>1. /\ step[p] # "idle" /\ Deny(p)
      /\ UNCHANGED <<now, authorityRows, sessions, lifeVars>>
  BY DEF CommitOperation
<1>2. rows' \in [Org -> {0, 1}]
  <2>1. rows \in [Org -> {0, 1}]
    BY DEF TenantInv, TenantTypeOK
  <2> DEFINE o == seat[p].org
             bit == IF seat[p].wrote = "nothing" THEN rows[o] ELSE 1 - rows[o]
  <2>2. rows' = [rows EXCEPT ![o] = bit]
    BY DEF CommitOperation
  <2>3. o \in Org => bit \in {0, 1}
    BY <2>1
  <2> HIDE DEF bit
  <2> QED
    BY <2>1, <2>2, <2>3
<1> QED
  BY <1>1, <1>2, DenyStep

----------------------------------------------------------------------------
(* The invariant *)

LEMMA BesideStep ==
  ASSUME TenantInv, Beside
  PROVE  TenantInv'
<1>1. TenantTypeOK /\ BesideFree /\ IInv /\ Ownership
  BY DEF TenantInv
<1>2. [Next]_vars /\ step' = step /\ seat' = seat /\ rows' = rows
  BY BesideSteps DEF tenantVars
<1>3. IInv' /\ Ownership'
  BY <1>1, <1>2, NextInvariant, OwnershipStep
<1>4. \A q \in Worker : step[q] # "idle" => pc[q] = "idle"
  BY <1>1 DEF TenantTypeOK
<1>5. ASSUME NEW q \in Worker
      PROVE  /\ step[q] = "idle" => OutsideFree(q)'
             /\ step[q] # "idle" => pc'[q] = "idle"
  <2>1. CASE UNCHANGED <<sessions, locks, lifeVars>>
    BY <1>1, <1>4, <2>1 DEF BesideFree, OutsideFree, lifeVars
  <2>2. ASSUME NEW r \in Worker, step[r] = "idle" \/ pc[r] # "idle",
               Start(r) \/ Step(r) \/ Rollback(r)
        PROVE  /\ step[q] = "idle" => OutsideFree(q)'
               /\ step[q] # "idle" => pc'[q] = "idle"
    <3>1. step[r] = "idle"
      BY <1>4, <2>2
    <3>2. step[q] = "idle" => OutsideFree(q)
      BY <1>1 DEF BesideFree, OutsideFree
    <3>3. CASE q = r
      BY <1>1, <2>2, <3>1, <3>2, <3>3, NothingOutside
    <3>4. CASE q # r
      <4>1. pc'[q] = pc[q] /\ locks'[q] = locks[q]
        BY <1>1, <2>2, <3>4, OneMoves DEF IInv
      <4> QED
        BY <1>4, <3>2, <4>1 DEF OutsideFree
    <3> QED
      BY <3>3, <3>4
  <2> QED
    BY <2>1, <2>2, BesideSteps
<1>6. BesideFree'
  BY <1>2, <1>5 DEF BesideFree, OutsideFree
<1>7. TenantTypeOK'
  <2>1. "idle" \notin TxSteps
    BY DEF TxSteps, ReplaceSteps
  <2> QED
    BY <1>1, <1>2, <1>5, <1>6, <2>1 DEF TenantTypeOK, BesideFree
<1>8. ASSUME NEW q \in Worker PROVE SeatInv(q)'
  <2>1. SeatInv(q)
    BY DEF TenantInv
  <2>2. CASE step[q] # "idle"
    <3>1. RowsKept(q) /\ locks'[q] = locks[q]
      BY <1>1, <1>4, <2>2, BesideKeeps
    <3> QED
      BY <1>1, <1>2, <2>1, <3>1, SeatStays
  <2>3. CASE step[q] = "idle"
    <3>1. step'[q] = "idle" /\ seat'[q] = seat[q]
      BY <1>2, <2>3
    <3>2. (Seated(q) /\ HoldsSession(q) /\ HoldsActiveUser(q) /\ HoldsFound(q))'
      BY <3>1 DEF Seated, HoldsSession, HoldsActiveUser, HoldsFound,
         ResolveSteps, ScopeSteps
    <3>3. (HoldsPick(q) /\ Answered(q) /\ HoldsAuthority(q) /\ Leased(q))'
      BY <2>1, <2>3, <3>1 DEF SeatInv, HoldsPick, Answered, HoldsAuthority,
         Leased, ResolveSteps, ScopeSteps
    <3>4. HeldInOrder(q)'
      BY <3>1 DEF HeldInOrder
    <3> QED
      BY <3>2, <3>3, <3>4 DEF SeatInv
  <2> QED
    BY <2>2, <2>3
<1> QED
  BY <1>3, <1>6, <1>7, <1>8 DEF TenantInv

LEMMA TenantStepInvariant ==
  ASSUME TenantInv, [TenantNext]_allVars
  PROVE  TenantInv'
<1>1. CASE UNCHANGED allVars
  <2>1. UNCHANGED vars /\ UNCHANGED tenantVars
    BY <1>1 DEF allVars
  <2>2. IInv' /\ Ownership'
    BY <2>1, NextInvariant, OwnershipStep DEF TenantInv
  <2>3. /\ UNCHANGED <<now, users, memberships, orgs, sessions, locks, pc, step, seat, rows>>
    BY <2>1 DEF vars, storeVars, lifeVars, tenantVars
  <2>4. TenantTypeOK' /\ BesideFree'
    BY <2>3 DEF TenantInv, TenantTypeOK, BesideFree
  <2>5. ASSUME NEW q \in Worker PROVE SeatInv(q)'
    <3>1. SeatInv(q) /\ RowsKept(q) /\ TenantTypeOK
      BY <2>3 DEF TenantInv, RowsKept, Exists
    <3>2. step'[q] = step[q] /\ seat'[q] = seat[q] /\ locks'[q] = locks[q]
      BY <2>3
    <3> QED
      BY <3>1, <3>2, SeatStays
  <2> QED
    BY <2>2, <2>4, <2>5 DEF TenantInv
<1>2. ASSUME NEW p \in Worker, Resolve(p)
      PROVE  TenantInv'
  BY <1>2, LoadSessionStep, LoadUserStep, LoadAuthorizedCandidatesStep,
     LockCandidateStep, ResolveCandidatesStep, PersistAutoSelectionStep,
     LoadSelectedStep, LockSelectedStep, CommitResolutionStep DEF Resolve
<1>3. ASSUME NEW p \in Worker, Scope(p)
      PROVE  TenantInv'
  BY <1>3, ScopeSessionStep, ScopeUserStep, ScopeMembershipStep,
     ScopeOrganizationStep, CallbackStep, RecheckStep, CommitOperationStep DEF Scope
<1>4. ASSUME NEW p \in Worker, TenantRollback(p)
      PROVE  TenantInv'
  BY <1>4, DenyReads DEF TenantRollback
<1>5. ASSUME NEW p \in Worker, NEW t \in Token, ResolveTenant(p, t)
      PROVE  TenantInv'
  BY <1>5, ResolveTenantStep
<1>6. CASE Beside
  BY <1>6, BesideStep
<1> QED
  BY <1>1, <1>2, <1>3, <1>4, <1>5, <1>6 DEF TenantNext, TenantStep

LEMMA TenantInitInvariant == TenantInit => TenantInv
<1> SUFFICES ASSUME TenantInit PROVE TenantInv
  OBVIOUS
<1>1. /\ Init /\ step = [p \in Worker |-> "idle"]
      /\ seat = [p \in Worker |-> NoSeat] /\ rows = [o \in Org |-> 0]
  BY DEF TenantInit
<1>2. IInv
  BY <1>1, InitInvariant
<1>3. /\ \A p \in Worker : pc[p] = "idle" /\ locks[p] = {}
      /\ Ownership
  BY <1>1 DEF Init, StoreInit, Ownership, OwnsOld, OwnsSnapshot, ReplaceSteps
<1>4. TenantTypeOK /\ BesideFree
  BY <1>1, <1>3, NoSeatType DEF TenantTypeOK, BesideFree
<1>5. ASSUME NEW p \in Worker PROVE SeatInv(p)
  <2>1. step[p] = "idle" /\ seat[p] = NoSeat
    BY <1>1
  <2>2. /\ NoSeat.pick = None /\ NoSeat.org = None /\ NoSeat.lease = FALSE
        /\ NoSeat.wrote = "nothing"
    BY DEF NoSeat
  <2>3. Seated(p) /\ HoldsSession(p) /\ HoldsActiveUser(p) /\ HoldsFound(p)
    BY <2>1 DEF Seated, HoldsSession, HoldsActiveUser, HoldsFound,
       ResolveSteps, ScopeSteps
  <2>4. HoldsPick(p) /\ Answered(p) /\ HoldsAuthority(p) /\ Leased(p)
    BY <2>1, <2>2 DEF HoldsPick, Answered, HoldsAuthority, Leased,
       ResolveSteps, ScopeSteps
  <2>5. HeldInOrder(p)
    BY <2>1 DEF HeldInOrder
  <2> QED
    BY <2>3, <2>4, <2>5 DEF SeatInv
<1> QED
  BY <1>2, <1>3, <1>4, <1>5 DEF TenantInv

\* In every reachable state the requests beside keep their invariant, and a
\* tenant request still has, under its locks, everything it has read.
THEOREM TenantInvariance == TenantSpec => []TenantInv
<1>1. TenantInit => TenantInv
  BY TenantInitInvariant
<1>2. TenantInv /\ [TenantNext]_allVars => TenantInv'
  BY TenantStepInvariant
<1> QED
  BY <1>1, <1>2, PTL DEF TenantSpec

----------------------------------------------------------------------------
(* What follows *)

\* A worker runs a request of one kind at a time, holds nothing when it runs
\* none, and a tenant request's state keeps its type.
THEOREM TenantTypes == TenantSpec => []TenantTypeOK
<1>1. TenantInv => TenantTypeOK
  BY DEF TenantInv
<1> QED
  BY <1>1, TenantInvariance, PTL

\* Tenant requests lock and update session rows too, and a session is replaced
\* at most once all the same.
THEOREM RenewalLinearBeside == TenantSpec => []RenewalIsLinear
<1>1. TenantInv => RenewalIsLinear
  BY DEF TenantInv, IInv
<1> QED
  BY <1>1, TenantInvariance, PTL

\* Nothing is committed that a repository wrote after the last look at the
\* authority: the lease is closed before the answer can commit.
THEOREM WritesChecked == TenantSpec => []WritesAreChecked
<1>1. TenantInv => WritesAreChecked
  BY DEF TenantInv, SeatInv, Leased, WritesAreChecked
<1> QED
  BY <1>1, TenantInvariance, PTL

\* From resolution to commit the organization is the one the session has
\* selected, whatever the other requests select meanwhile.
THEOREM ContextSelected == TenantSpec => []ContextIsSelection
<1>1. TenantInv => ContextIsSelection
  BY DEF TenantInv, SeatInv, Answered, ContextIsSelection
<1> QED
  BY <1>1, TenantInvariance, PTL

\* Tenant transactions lock in the order of all the others: a step waits for
\* rows of later tables than it holds, of its user's memberships, or for its own.
THEOREM TenantLocksOrdered == TenantSpec => []TenantLockOrder
<1>1. ASSUME TenantInv, NEW p \in Worker, step[p] # "idle", NEW l \in locks[p]
      PROVE  \/ LockRank(l.res[1]) < TenantWantedRank(step[p])
             \/ LockRank(l.res[1]) = 4 /\ TenantWantedRank(step[p]) = 4
             \/ step[p] = "user" /\ seat[p].again
                  /\ Holds(p, UserLock(seat[p].user), "S")
  <2> DEFINE rank == LockRank(l.res[1])
             held == HeldRank(step[p], seat[p].again)
  <2>1. rank <= held /\ rank \in 1 .. 5
    BY <1>1, Ranks
    DEF TenantInv, SeatInv, HeldInOrder, IInv, TypeOK, StoreTypeOK
  <2>2. CASE step[p] = "user" /\ seat[p].again
    BY <1>1, <2>2 DEF TenantInv, SeatInv, HoldsActiveUser
  <2>3. CASE ~(step[p] = "user" /\ seat[p].again)
    <3>1. \/ held < TenantWantedRank(step[p])
          \/ held = 4 /\ TenantWantedRank(step[p]) = 4
      <4>1. step[p] \in ResolveSteps \cup ScopeSteps
        BY <1>1 DEF TenantInv, TenantTypeOK
      <4>2. CASE step[p] \in {"session", "scopeSession", "user", "scopeUser"}
        BY <2>3, <4>2 DEF HeldRank, TenantWantedRank
      <4>3. CASE step[p] \in {"lockCandidates", "lockSelected", "scopeMembership",
                              "scopeOrganization"}
        BY <4>3 DEF HeldRank, TenantWantedRank
      <4>4. CASE step[p] \in {"candidates", "select", "selected", "resolved",
                              "operate", "recheck", "commitOperation"}
        BY <4>4 DEF HeldRank, TenantWantedRank
      <4> QED
        BY <4>1, <4>2, <4>3, <4>4 DEF ResolveSteps, ScopeSteps
    <3>2. held \in Int /\ TenantWantedRank(step[p]) \in Int
      BY DEF HeldRank, TenantWantedRank
    <3> HIDE DEF rank, held
    <3>3. rank < TenantWantedRank(step[p]) \/ (rank = 4 /\ TenantWantedRank(step[p]) = 4)
      BY <2>1, <3>1, <3>2
    <3> QED
      BY <3>3 DEF rank
  <2> QED
    BY <2>2, <2>3
<1>2. TenantInv => TenantLockOrder
  BY <1>1 DEF TenantLockOrder
<1> QED
  BY <1>2, TenantInvariance, PTL

\* Only the commit of an operation changes the rows of an organization.
LEMMA RowsWriter ==
  ASSUME TenantInv, [TenantNext]_allVars, NEW o \in Org, rows'[o] # rows[o]
  PROVE  \E p \in Worker : step[p] = "commitOperation" /\ seat[p].org = o
<1>1. rows' # rows
  OBVIOUS
<1>2. ~Beside /\ ~UNCHANGED allVars
  BY <1>1 DEF Beside, tenantVars, allVars
<1>3. ASSUME NEW p \in Worker, Resolve(p) PROVE FALSE
  BY <1>1, <1>3 DEF Resolve, LoadSession, LoadUser, LoadAuthorizedCandidates,
     LockCandidate, ResolveCandidates, PersistAutoSelection, LoadSelected,
     LockSelected, CommitResolution, ReadsOnly
<1>4. ASSUME NEW p \in Worker, NEW t \in Token, ResolveTenant(p, t)
      PROVE  FALSE
  BY <1>1, <1>4 DEF ResolveTenant
<1>5. ASSUME NEW p \in Worker, TenantRollback(p) PROVE FALSE
  BY <1>1, <1>5 DEF TenantRollback, ReadsOnly
<1>6. ASSUME NEW p \in Worker, Scope(p) PROVE CommitOperation(p)
  BY <1>1, <1>6 DEF Scope, ScopeSession, ScopeUser, ScopeMembership,
     ScopeOrganization, CallRepository, Operate, Recheck, ReadsOnly
<1>7. PICK p \in Worker : CommitOperation(p)
  BY <1>2, <1>3, <1>4, <1>5, <1>6 DEF TenantNext, TenantStep
<1>8. rows \in [Org -> {0, 1}]
  BY DEF TenantInv, TenantTypeOK
<1>9. step[p] = "commitOperation" /\ seat[p].org = o
  <2> DEFINE bit == IF seat[p].wrote = "nothing" THEN rows[seat[p].org]
                    ELSE 1 - rows[seat[p].org]
  <2>1. step[p] = "commitOperation" /\ rows' = [rows EXCEPT ![seat[p].org] = bit]
    BY <1>7 DEF CommitOperation
  <2> HIDE DEF bit
  <2> QED
    BY <1>8, <2>1
<1> QED
  BY <1>9

\* An operation commits only under the authority it needs at that very moment:
\* everything that it has checked holds until its locks go.
THEOREM Authorizes == TenantSpec => OperationsAuthorized
<1>1. TenantInv /\ [TenantNext]_allVars =>
        [\A o \in Org : rows'[o] # rows[o] => \E p \in Worker :
           LET s == seat[p]
               member == memberships[<<s.user, o>>] IN
           /\ step[p] = "commitOperation" /\ s.org = o
           /\ users[s.user] = "Active" /\ member.status = "Active"
           /\ Unrevoked(s.token)
           /\ sessions[s.token].user = s.user /\ sessions[s.token].org = o
           /\ ~RowExpired(sessions[s.token], s.at)
           /\ Compliant => orgs[o] = "Active"
           /\ s.mode = "authorized" =>
                /\ member.version = sessions[s.token].version
                /\ Grants(member.role, s.need)]_allVars
  <2> SUFFICES ASSUME TenantInv, [TenantNext]_allVars, NEW o \in Org,
                      rows'[o] # rows[o]
               PROVE  \E p \in Worker :
                        LET s == seat[p]
                            member == memberships[<<s.user, o>>] IN
                        /\ step[p] = "commitOperation" /\ s.org = o
                        /\ users[s.user] = "Active" /\ member.status = "Active"
                        /\ Unrevoked(s.token)
                        /\ sessions[s.token].user = s.user
                        /\ sessions[s.token].org = o
                        /\ ~RowExpired(sessions[s.token], s.at)
                        /\ Compliant => orgs[o] = "Active"
                        /\ s.mode = "authorized" =>
                             /\ member.version = sessions[s.token].version
                             /\ Grants(member.role, s.need)
    OBVIOUS
  <2>1. PICK p \in Worker : step[p] = "commitOperation" /\ seat[p].org = o
    BY RowsWriter
  <2>2. SeatInv(p)
    BY DEF TenantInv
  <2>3. users[seat[p].user] = "Active" /\ Unrevoked(seat[p].token)
    BY <2>1, <2>2 DEF SeatInv, HoldsActiveUser
  <2>4. /\ sessions[seat[p].token].user = seat[p].user
        /\ sessions[seat[p].token].org = o
    BY <2>1, <2>2 DEF SeatInv, Seated, Answered, ScopeSteps
  <2>5. /\ memberships[<<seat[p].user, o>>].status = "Active"
        /\ ~RowExpired(sessions[seat[p].token], seat[p].at)
        /\ Compliant => orgs[o] = "Active"
        /\ Authorized(p)
    BY <2>1, <2>2 DEF SeatInv, HoldsAuthority, ScopeSteps
  <2>6. seat[p].mode = "authorized" =>
          /\ memberships[<<seat[p].user, o>>].version = sessions[seat[p].token].version
          /\ Grants(memberships[<<seat[p].user, o>>].role, seat[p].need)
    BY <2>1, <2>5 DEF Authorized
  <2> QED
    BY <2>1, <2>3, <2>4, <2>5, <2>6
<1> QED
  BY <1>1, TenantInvariance, PTL DEF TenantSpec, OperationsAuthorized

----------------------------------------------------------------------------
(* The requests beside live by SessionLifecycle *)

\* The locks of the requests beside: Lifecycle's lock table.
Low == [p \in Worker |-> IF step[p] = "idle" THEN locks[p] ELSE {}]

\* What the lock operations of a request beside are in that table.
LEMMA LowLocks ==
  ASSUME TenantInv, NEW q \in Worker, step[q] = "idle", UNCHANGED tenantVars
  PROVE  /\ \A res, mode : CanLock(q, res, mode) => Lifecycle!CanLock(q, res, mode)
         /\ \A res, mode : Acquire(q, res, mode) => Lifecycle!Acquire(q, res, mode)
         /\ Release(q) => Lifecycle!Release(q)
         /\ UNCHANGED locks => UNCHANGED Low
         /\ \A res : Unlocked(res) => Lifecycle!Unlocked(res)
         /\ Low[q] = locks[q]
<1>1. /\ locks \in [Worker -> SUBSET Lock] /\ step' = step
      /\ Low[q] = locks[q] /\ \A p \in Worker : Low[p] \subseteq locks[p]
  BY DEF TenantInv, IInv, TypeOK, StoreTypeOK, tenantVars, Low
<1>2. \A res, mode : CanLock(q, res, mode) => Lifecycle!CanLock(q, res, mode)
  BY <1>1 DEF CanLock, Lifecycle!CanLock, Low
<1>3. ASSUME NEW held, locks' = [locks EXCEPT ![q] = held]
      PROVE  Low' = [Low EXCEPT ![q] = held]
  BY <1>1, <1>3 DEF Low
<1>4. \A res, mode : Acquire(q, res, mode) => Lifecycle!Acquire(q, res, mode)
  BY <1>1, <1>2, <1>3
  DEF Acquire, Take, Lifecycle!Acquire, Lifecycle!Take, Low
<1>5. Release(q) => Lifecycle!Release(q)
  BY <1>3 DEF Release, Lifecycle!Release, Low
<1>6. UNCHANGED locks => UNCHANGED Low
  BY <1>1 DEF Low
<1>7. \A res : Unlocked(res) => Lifecycle!Unlocked(res)
  BY <1>1 DEF Unlocked, Lifecycle!Unlocked, Low
<1> QED
  BY <1>1, <1>2, <1>4, <1>5, <1>6, <1>7

\* Everything else that such a request does is the same.
LEMMA LowSteps ==
  ASSUME TenantInv, NEW q \in Worker, step[q] = "idle", UNCHANGED tenantVars
  PROVE  /\ \A label, c : Proceed(q, label, c) => Lifecycle!Proceed(q, label, c)
         /\ Finish(q) => Lifecycle!Finish(q)
         /\ UNCHANGED storeVars => UNCHANGED Lifecycle!storeVars
         /\ \A t : Locked(q, t) <=> Lifecycle!Locked(q, t)
<1>1. \A label, c : Proceed(q, label, c) => Lifecycle!Proceed(q, label, c)
  BY DEF Proceed, Lifecycle!Proceed
<1>2. Finish(q) => Lifecycle!Finish(q)
  BY <1>1, LowLocks DEF Finish, Lifecycle!Finish, NoCtx, Lifecycle!NoCtx
<1>3. UNCHANGED storeVars => UNCHANGED Lifecycle!storeVars
  BY LowLocks DEF storeVars, Lifecycle!storeVars, authorityRows,
     Lifecycle!authorityRows, Low
<1>4. \A t : Locked(q, t) <=> Lifecycle!Locked(q, t)
  BY LowLocks DEF Locked, Lifecycle!Locked, SessionLock, Lifecycle!SessionLock, Low
<1> QED
  BY <1>1, <1>2, <1>3, <1>4

\* What does not look at the locks is the same operator.
LEMMA SameOperators ==
  /\ \A t : Exists(t) <=> Lifecycle!Exists(t)
  /\ \A t : Unrevoked(t) <=> Lifecycle!Unrevoked(t)
  /\ \A t : Pending(t) <=> Lifecycle!Pending(t)
  /\ \A row, at : RowExpired(row, at) <=> Lifecycle!RowExpired(row, at)
  /\ \A t, at : Touchable(t, at) <=> Lifecycle!Touchable(t, at)
  /\ \A at, seen : IsTouchDue(at, seen) <=> Lifecycle!IsTouchDue(at, seen)
  /\ \A q : Validated(q) = Lifecycle!Validated(q)
  /\ \A kind : AfterValidation(kind) = Lifecycle!AfterValidation(kind)
  /\ \A t : SessionLock(t) = Lifecycle!SessionLock(t)
  /\ \A u : UserLock(u) = Lifecycle!UserLock(u)
  /\ \A u : CredentialLock(u) = Lifecycle!CredentialLock(u)
  /\ \A u, o : MembershipLock(u, o) = Lifecycle!MembershipLock(u, o)
  /\ \A o : OrganizationLock(o) = Lifecycle!OrganizationLock(o)
  /\ \A u, o, v, at, t : NewSession(u, o, v, at, t) = Lifecycle!NewSession(u, o, v, at, t)
  /\ authorityRows = Lifecycle!authorityRows /\ lifeVars = Lifecycle!lifeVars
  /\ MaxAttempts = Lifecycle!MaxAttempts /\ TxSteps = Lifecycle!TxSteps
BY DEF Exists, Lifecycle!Exists, Unrevoked, Lifecycle!Unrevoked,
   Pending, Lifecycle!Pending, RowExpired, Lifecycle!RowExpired,
   IsExpired, Lifecycle!IsExpired, EffectiveDeadline, Lifecycle!EffectiveDeadline,
   Touchable, Lifecycle!Touchable, IsTouchDue, Lifecycle!IsTouchDue,
   Validated, Lifecycle!Validated, NoCtx, Lifecycle!NoCtx,
   AfterValidation, Lifecycle!AfterValidation,
   SessionLock, Lifecycle!SessionLock, UserLock, Lifecycle!UserLock,
   CredentialLock, Lifecycle!CredentialLock,
   MembershipLock, Lifecycle!MembershipLock,
   OrganizationLock, Lifecycle!OrganizationLock,
   NewSession, Lifecycle!NewSession, authorityRows, Lifecycle!authorityRows,
   lifeVars, Lifecycle!lifeVars, MaxAttempts, Lifecycle!MaxAttempts,
   TxSteps, Lifecycle!TxSteps, ReplaceSteps, Lifecycle!ReplaceSteps

LEMMA LowValidates ==
  ASSUME TenantInv, NEW q \in Worker, step[q] = "idle", UNCHANGED tenantVars
  PROVE  Start(q) \/ Validate(q) \/ Logout(q)
           => Lifecycle!Start(q) \/ Lifecycle!Validate(q) \/ Lifecycle!Logout(q)
<1>1. Start(q) => Lifecycle!Start(q)
  BY LowSteps DEF Start, Lifecycle!Start, Request, Lifecycle!Request,
     CreateSession, Lifecycle!CreateSession,
     RevokeAllSessions, Lifecycle!RevokeAllSessions
<1>2. FindForValidation(q) => Lifecycle!FindForValidation(q)
  BY LowSteps, LowLocks, SameOperators
  DEF FindForValidation, Lifecycle!FindForValidation, Low, authorityRows, Lifecycle!authorityRows
<1>3. ValidateSession(q) => Lifecycle!ValidateSession(q)
  BY LowSteps, LowLocks, SameOperators
  DEF ValidateSession, Lifecycle!ValidateSession, Low, authorityRows, Lifecycle!authorityRows
<1>4. TouchLastSeenIfDue(q) => Lifecycle!TouchLastSeenIfDue(q)
  BY LowSteps, LowLocks, SameOperators
  DEF TouchLastSeenIfDue, Lifecycle!TouchLastSeenIfDue, Low, authorityRows, Lifecycle!authorityRows
<1>5. Logout(q) => Lifecycle!Logout(q)
  BY LowSteps, LowLocks, SameOperators
  DEF Logout, Lifecycle!Logout, RevokeSession, Lifecycle!RevokeSession,
     RevokeByTokenHash, Lifecycle!RevokeByTokenHash, authorityRows, Lifecycle!authorityRows
<1> QED
  BY <1>1, <1>2, <1>3, <1>4, <1>5 DEF Validate, Lifecycle!Validate

LEMMA LowRenews ==
  ASSUME TenantInv, NEW q \in Worker, step[q] = "idle", UNCHANGED tenantVars
  PROVE  Renew(q) => Lifecycle!Renew(q)
<1>1. FindPasswordIdentity(q) => Lifecycle!FindPasswordIdentity(q)
  BY LowSteps, LowLocks, SameOperators
  DEF FindPasswordIdentity, FindIdentity, FindCredential,
     Lifecycle!FindPasswordIdentity, Lifecycle!FindIdentity,
     Lifecycle!FindCredential, authorityRows, Lifecycle!authorityRows, Low
<1>2. VerifyPassword(q) => Lifecycle!VerifyPassword(q)
  BY LowSteps, LowLocks, SameOperators
  DEF VerifyPassword, Lifecycle!VerifyPassword, authorityRows,
     Lifecycle!authorityRows, Low
<1>3. LockSession(q) => Lifecycle!LockSession(q)
  BY LowSteps, LowLocks, SameOperators
  DEF LockSession, Lifecycle!LockSession, authorityRows,
     Lifecycle!authorityRows, Low
<1>4. LockUser(q) => Lifecycle!LockUser(q)
  BY LowSteps, LowLocks, SameOperators
  DEF LockUser, Lifecycle!LockUser, authorityRows,
     Lifecycle!authorityRows, Low, Goto, Lifecycle!Goto
<1>5. LockCredential(q) => Lifecycle!LockCredential(q)
  BY LowSteps, LowLocks, SameOperators
  DEF LockCredential, Lifecycle!LockCredential, authorityRows,
     Lifecycle!authorityRows, Low, Goto, Lifecycle!Goto
<1>6. LockMembership(q) => Lifecycle!LockMembership(q)
  BY LowSteps, LowLocks, SameOperators
  DEF LockMembership, Lifecycle!LockMembership, authorityRows,
     Lifecycle!authorityRows, Low, Goto, Lifecycle!Goto
<1>7. LockOrganization(q) => Lifecycle!LockOrganization(q)
  BY LowSteps, LowLocks, SameOperators
  DEF LockOrganization, Lifecycle!LockOrganization, authorityRows,
     Lifecycle!authorityRows, Low
<1>8. WriteReplacement(q) => Lifecycle!WriteReplacement(q)
  BY LowSteps, LowLocks, SameOperators
  DEF WriteReplacement, Lifecycle!WriteReplacement, authorityRows,
     Lifecycle!authorityRows, Low, Lapsed, Lifecycle!Lapsed
<1>9. CommitReplacement(q) => Lifecycle!CommitReplacement(q)
  BY LowSteps, LowLocks, SameOperators
  DEF CommitReplacement, Lifecycle!CommitReplacement, authorityRows,
     Lifecycle!authorityRows, Low
<1> QED
  BY <1>1, <1>2, <1>3, <1>4, <1>5, <1>6, <1>7, <1>8, <1>9
  DEF Renew, Lifecycle!Renew, Replace, Lifecycle!Replace

LEMMA LowRevokes ==
  ASSUME TenantInv, NEW q \in Worker, step[q] = "idle", UNCHANGED tenantVars
  PROVE  Login(q) \/ RevokeAll(q) \/ Rollback(q)
           => Lifecycle!Login(q) \/ Lifecycle!RevokeAll(q) \/ Lifecycle!Rollback(q)
<1>1. LockLoginUser(q) => Lifecycle!LockLoginUser(q)
  BY LowSteps, LowLocks, SameOperators
  DEF LockLoginUser, Lifecycle!LockLoginUser, authorityRows,
     Lifecycle!authorityRows, Low, Goto, Lifecycle!Goto
<1>2. InsertSession(q) => Lifecycle!InsertSession(q)
  BY LowSteps, LowLocks, SameOperators
  DEF InsertSession, Lifecycle!InsertSession, authorityRows,
     Lifecycle!authorityRows, Low, Retry, Lifecycle!Retry
<1>3. RevokeAllForUser(q) => Lifecycle!RevokeAllForUser(q)
  BY LowSteps, LowLocks, SameOperators
  DEF RevokeAllForUser, Lifecycle!RevokeAllForUser, authorityRows,
     Lifecycle!authorityRows, Low
<1>4. RevokeRow(q) => Lifecycle!RevokeRow(q)
  BY LowSteps, LowLocks, SameOperators
  DEF RevokeRow, Lifecycle!RevokeRow, authorityRows,
     Lifecycle!authorityRows, Low, lifeVars, Lifecycle!lifeVars
<1>5. RevocationsRefused(q) => Lifecycle!RevocationsRefused(q)
  BY LowSteps, LowLocks, SameOperators
  DEF RevocationsRefused, Lifecycle!RevocationsRefused, authorityRows,
     Lifecycle!authorityRows, Low
<1>6. CommitRevocations(q) => Lifecycle!CommitRevocations(q)
  BY LowSteps, LowLocks, SameOperators
  DEF CommitRevocations, Lifecycle!CommitRevocations, authorityRows,
     Lifecycle!authorityRows, Low, Goto, Lifecycle!Goto
<1>7. ReturnFromRevokeAll(q) => Lifecycle!ReturnFromRevokeAll(q)
  BY LowSteps, LowLocks, SameOperators
  DEF ReturnFromRevokeAll, Lifecycle!ReturnFromRevokeAll, authorityRows,
     Lifecycle!authorityRows, Low
<1>8. Rollback(q) => Lifecycle!Rollback(q)
  BY LowSteps, LowLocks, SameOperators
  DEF Rollback, Lifecycle!Rollback, authorityRows,
     Lifecycle!authorityRows, Low
<1> QED
  BY <1>1, <1>2, <1>3, <1>4, <1>5, <1>6, <1>7, <1>8
  DEF Login, Lifecycle!Login, RevokeAll, Lifecycle!RevokeAll

LEMMA LowBeside ==
  ASSUME TenantInv, Beside
  PROVE  [Lifecycle!Next]_(Lifecycle!vars)
<1>1. UNCHANGED tenantVars
  BY DEF Beside
<1>2. ASSUME NEW q \in Worker, (step[q] = "idle" /\ Start(q)) \/ Step(q) \/ Rollback(q)
      PROVE  Lifecycle!Next
  <2>1. step[q] = "idle"
    BY <1>2, WorkerBusy DEF TenantInv, TenantTypeOK
  <2>2. Lifecycle!Start(q) \/ Lifecycle!Step(q) \/ Lifecycle!Rollback(q)
    BY <1>1, <1>2, <2>1, LowValidates, LowRenews, LowRevokes
    DEF Step, Lifecycle!Step
  <2> QED
    BY <2>2 DEF Lifecycle!Next
<1>3. CASE Environment /\ UNCHANGED lifeVars
  <2>1. Low' = Low /\ \A res : Unlocked(res) => Lifecycle!Unlocked(res)
    <3>1. locks' = locks /\ step' = step
      BY <1>1, <1>3 DEF Environment, Tick, DisableUser, ChangePassword,
         ChangeMembership, ChangeOrganization, tenantVars
    <3> QED
      BY <3>1 DEF Low, Unlocked, Lifecycle!Unlocked
  <2>2. Tick => Lifecycle!Tick
    BY <2>1, SameOperators DEF Tick, Lifecycle!Tick, Low,
       authorityRows, Lifecycle!authorityRows
  <2>3. ASSUME NEW u \in User
        PROVE  /\ DisableUser(u) => Lifecycle!DisableUser(u)
               /\ ChangePassword(u) => Lifecycle!ChangePassword(u)
    BY <2>1, SameOperators DEF DisableUser, Lifecycle!DisableUser,
       ChangePassword, Lifecycle!ChangePassword, Low
  <2>4. ASSUME NEW u \in User, NEW o \in Org
        PROVE  ChangeMembership(u, o) => Lifecycle!ChangeMembership(u, o)
    BY <2>1, SameOperators DEF ChangeMembership, Lifecycle!ChangeMembership,
       Low, Status, Lifecycle!Status
  <2>5. ASSUME NEW o \in Org
        PROVE  ChangeOrganization(o) => Lifecycle!ChangeOrganization(o)
    BY <2>1, SameOperators DEF ChangeOrganization, Lifecycle!ChangeOrganization, Low
  <2>6. Lifecycle!Environment
    BY <1>3, <2>2, <2>3, <2>4, <2>5 DEF Environment, Lifecycle!Environment
  <2> QED
    BY <1>3, <2>6 DEF Lifecycle!Next, lifeVars, Lifecycle!lifeVars
<1> QED
  BY <1>2, <1>3 DEF Beside

\* Lifecycle does not see the locks of a tenant request.
LEMMA LowHides ==
  ASSUME TenantInv, TenantInv', NEW p \in Worker,
         pc[p] = "idle", UNCHANGED lifeVars,
         \A q \in Worker \ {p} : step'[q] = step[q] /\ locks'[q] = locks[q]
  PROVE  UNCHANGED Low /\ Low[p] = {}
<1>1. \A q \in Worker : pc[q] = "idle" /\ step[q] = "idle" => locks[q] = {}
  BY DEF TenantInv, TenantTypeOK
<1>2. \A q \in Worker : pc'[q] = "idle" /\ step'[q] = "idle" => locks'[q] = {}
  BY DEF TenantInv, TenantTypeOK
<1>3. pc'[p] = "idle"
  BY DEF lifeVars
<1> QED
  BY <1>1, <1>2, <1>3 DEF Low

\* Every step of a tenant request is taken from a step of it.
LEMMA StepsTaken ==
  ASSUME NEW p \in Worker, TenantStep(p), TenantInv
  PROVE  step[p] # "idle"
<1>1. CASE Resolve(p)
  BY <1>1 DEF Resolve, LoadSession, LoadUser, LoadAuthorizedCandidates,
     LockCandidate, ResolveCandidates, PersistAutoSelection, LoadSelected,
     LockSelected, CommitResolution
<1>2. CASE Scope(p)
  <2>1. LeaseActive(p) => step[p] # "idle"
    BY DEF LeaseActive, TenantInv, SeatInv, Leased
  <2> QED
    BY <1>2, <2>1 DEF Scope, ScopeSession, ScopeUser, ScopeMembership,
       ScopeOrganization, CallRepository, Operate, Recheck, CommitOperation
<1> QED
  BY <1>1, <1>2 DEF TenantStep

\* A tenant request moves its own step and locks only, and it leaves the rows
\* to the others, the session that its resolution commits aside.
LEMMA OthersStay ==
  ASSUME TenantInv, NEW p \in Worker,
         \/ TenantStep(p) \/ TenantRollback(p)
         \/ \E t \in Token : ResolveTenant(p, t)
  PROVE  /\ pc[p] = "idle" /\ UNCHANGED lifeVars
         /\ \A q \in Worker \ {p} : step'[q] = step[q] /\ locks'[q] = locks[q]
         /\ UNCHANGED <<now, authorityRows>>
         /\ ~CommitResolution(p) => UNCHANGED sessions
<1>1. /\ step \in [Worker -> {"idle"} \cup ResolveSteps \cup ScopeSteps]
      /\ locks \in [Worker -> SUBSET Lock]
      /\ pc[p] = "idle" \/ step[p] = "idle"
  BY DEF TenantInv, TenantTypeOK, IInv, TypeOK, StoreTypeOK
<1>2. /\ UNCHANGED lifeVars /\ UNCHANGED <<now, authorityRows>>
      /\ ~CommitResolution(p) => UNCHANGED sessions
  <2>1. CASE Resolve(p)
    BY <2>1 DEF Resolve, LoadSession, LoadUser, LoadAuthorizedCandidates,
       LockCandidate, ResolveCandidates, PersistAutoSelection, LoadSelected,
       LockSelected, CommitResolution, ReadsOnly
  <2>2. CASE Scope(p)
    BY <2>2 DEF Scope, ScopeSession, ScopeUser, ScopeMembership,
       ScopeOrganization, CallRepository, Operate, Recheck, CommitOperation,
       ReadsOnly
  <2>3. CASE TenantRollback(p)
    BY <2>3 DEF TenantRollback, ReadsOnly
  <2>4. CASE \E t \in Token : ResolveTenant(p, t)
    BY <2>4 DEF ResolveTenant, storeVars, authorityRows
  <2> QED
    BY <2>1, <2>2, <2>3, <2>4 DEF TenantStep
<1>3. pc[p] = "idle"
  <2>1. step[p] # "idle" \/ \E t \in Token : ResolveTenant(p, t)
    <3>1. CASE TenantStep(p)
      BY <3>1, StepsTaken
    <3>2. CASE TenantRollback(p)
      BY <3>2 DEF TenantRollback
    <3> QED
      BY <3>1, <3>2
  <2> QED
    BY <1>1, <2>1 DEF ResolveTenant
<1>4. \E label : step' = [step EXCEPT ![p] = label]
  <2>1. CASE Resolve(p)
    BY <2>1 DEF Resolve, LoadSession, LoadUser, LoadAuthorizedCandidates,
       LockCandidate, ResolveCandidates, PersistAutoSelection, LoadSelected,
       LockSelected, CommitResolution, Advance
  <2>2. CASE Scope(p)
    BY <2>2 DEF Scope, ScopeSession, ScopeUser, ScopeMembership,
       ScopeOrganization, CallRepository, Operate, Recheck, CommitOperation,
       Deny, Advance
  <2> QED
    BY <2>1, <2>2 DEF TenantStep, TenantRollback, ResolveTenant, Deny, Advance
<1>5. \E held : locks' = [locks EXCEPT ![p] = held]
  <2>1. locks' = locks => locks' = [locks EXCEPT ![p] = locks[p]]
    BY <1>1
  <2>2. CASE Resolve(p)
    BY <2>1, <2>2 DEF Resolve, LoadSession, LoadUser, LoadAuthorizedCandidates,
       LockCandidate, ResolveCandidates, PersistAutoSelection, LoadSelected,
       LockSelected, CommitResolution, Acquire, Take, Release
  <2>3. CASE Scope(p)
    BY <2>1, <2>3 DEF Scope, ScopeSession, ScopeUser, ScopeMembership,
       ScopeOrganization, CallRepository, Operate, Recheck, CommitOperation,
       Deny, Acquire, Take, Release
  <2>4. CASE TenantRollback(p) \/ \E t \in Token : ResolveTenant(p, t)
    BY <2>1, <2>4 DEF TenantRollback, ResolveTenant, Deny, Release, storeVars
  <2> QED
    BY <2>2, <2>3, <2>4 DEF TenantStep
<1> QED
  BY <1>1, <1>2, <1>3, <1>4, <1>5

\* What a resolution commits is a selection that SessionLifecycle allows.
LEMMA LowSelects ==
  ASSUME TenantInv, TenantInv', NEW p \in Worker, CommitResolution(p)
  PROVE  UNCHANGED sessions \/ Lifecycle!SelectOrganization(seat[p].token)
<1> DEFINE s == seat[p]
           t == s.token
           u == s.user
           o == s.pick
<1>1. CASE o = None
  BY <1>1 DEF CommitResolution
<1>2. CASE o # None
  <2>1. /\ step[p] = "resolved" /\ SeatInv(p) /\ s \in Seat
        /\ LockExclusion /\ TenantTypeOK
    BY DEF CommitResolution, TenantInv, TenantTypeOK, IInv
  <2>2. /\ t \in Token /\ u \in User /\ o \in Org /\ sessions[t].user = u
        /\ Holds(p, SessionLock(t), "X")
    BY <1>2, <2>1 DEF SeatInv, Seated, HoldsSession, Seat, ResolveSteps
  <2>3. /\ users[u] = "Active" /\ Unrevoked(t) /\ sessions[t].org = None
        /\ memberships[<<u, o>>].status = "Active"
        /\ memberships[<<u, o>>].version = s.pickVersion
    BY <1>2, <2>1 DEF SeatInv, HoldsPick
  <2>4. sessions' = [sessions EXCEPT ![t].org = o,
                       ![t].version = memberships[<<u, o>>].version]
    BY <1>2, <2>3 DEF CommitResolution
  <2>5. /\ pc[p] = "idle" /\ UNCHANGED lifeVars /\ UNCHANGED <<now, authorityRows>>
        /\ UNCHANGED Low /\ Low[p] = {}
    BY OthersStay, LowHides DEF TenantStep, Resolve
  <2>6. Lifecycle!Unlocked(SessionLock(t))
    <3>1. ASSUME NEW q \in Worker, NEW l \in Low[q] PROVE l.res # SessionLock(t)
      <4>1. q # p /\ l \in locks[q]
        BY <2>5, <3>1 DEF Low
      <4> QED
        BY <2>1, <2>2, <4>1 DEF LockExclusion, Holds
    <3> QED
      BY <3>1 DEF Lifecycle!Unlocked, Low
  <2> HIDE DEF t, u, o, s
  <2>7. Lifecycle!SelectOrganization(t)
    BY <2>2, <2>3, <2>4, <2>5, <2>6, SameOperators
    DEF Lifecycle!SelectOrganization, Low, authorityRows,
       Lifecycle!authorityRows, lifeVars, Lifecycle!lifeVars
  <2> QED
    BY <2>7 DEF t, s
<1> QED
  BY <1>1, <1>2

LEMMA LowStep ==
  ASSUME TenantInv, TenantInv', [TenantNext]_allVars
  PROVE  [Lifecycle!Next]_(Lifecycle!vars)
<1>1. ASSUME UNCHANGED <<now, authorityRows, sessions, lifeVars, Low>>
      PROVE  UNCHANGED Lifecycle!vars
  BY <1>1 DEF Lifecycle!vars, Lifecycle!storeVars, authorityRows,
     Lifecycle!lifeVars, lifeVars, Low
<1>2. CASE UNCHANGED allVars
  BY <1>1, <1>2 DEF allVars, vars, storeVars, tenantVars, Low, authorityRows
<1>3. CASE Beside
  BY <1>3, LowBeside
<1>4. ASSUME NEW p \in Worker,
             \/ TenantStep(p) \/ TenantRollback(p)
             \/ \E t \in Token : ResolveTenant(p, t)
      PROVE  [Lifecycle!Next]_(Lifecycle!vars)
  <2>1. UNCHANGED <<now, authorityRows, lifeVars, Low>>
    BY <1>4, OthersStay, LowHides
  <2>2. CASE UNCHANGED sessions
    BY <1>1, <2>1, <2>2
  <2>3. CASE ~UNCHANGED sessions
    <3>1. CommitResolution(p)
      BY <1>4, <2>3, OthersStay
    <3>2. seat[p].token \in Token /\ Lifecycle!SelectOrganization(seat[p].token)
      BY <2>3, <3>1, LowSelects
      DEF CommitResolution, TenantInv, SeatInv, Seated
    <3> QED
      BY <3>2 DEF Lifecycle!Next
  <2> QED
    BY <2>2, <2>3
<1> QED
  BY <1>2, <1>3, <1>4 DEF TenantNext

LEMMA LowInit == TenantInit => Lifecycle!Init
<1> SUFFICES ASSUME TenantInit PROVE Lifecycle!Init
  OBVIOUS
<1>1. Init /\ \A p \in Worker : step[p] = "idle"
  BY DEF TenantInit
<1>2. Low = [p \in Worker |-> {}]
  BY <1>1 DEF Init, StoreInit, Low
<1> QED
  BY <1>1, <1>2, SameOperators
  DEF Init, StoreInit, Lifecycle!Init, Lifecycle!StoreInit, Low, NoCtx,
     Lifecycle!NoCtx, Status, Lifecycle!Status

\* Beside tenant requests sessions live by SessionLifecycle: a resolution only
\* selects what its row and its membership allow, an operation does nothing to
\* them, and locks that tenant requests hold keep no promise from being kept.
THEOREM LivesBeside == TenantSpec => LifecycleSpec
<1>1. TenantInit => Lifecycle!Init
  BY LowInit
<1>2. TenantInv /\ TenantInv' /\ [TenantNext]_allVars
        => [Lifecycle!Next]_(Lifecycle!vars)
  BY LowStep
<1> QED
  BY <1>1, <1>2, TenantInvariance, PTL
  DEF TenantSpec, LifecycleSpec, Lifecycle!Spec

----------------------------------------------------------------------------
(* Waits *)

\* What the steps of the other requests lock, they lock as WritersLock says.
LEMMA WritersBeside ==
  ASSUME IInv, NEW p \in Worker, OutsideFree(p),
         Start(p) \/ Step(p) \/ Rollback(p)
  PROVE  /\ \A l \in locks'[p] \ locks[p] :
              /\ l.mode = "X" => l.res[1] \in {"session", "user"}
              /\ pc'[p] = "revokeRows" => l.res[1] = "session"
         /\ pc'[p] = "revokeRows" => pc[p] = "revokeRows" \/ locks[p] = {}
<1> DEFINE Fine(held) == \A l \in held \ locks[p] :
             /\ l.mode = "X" => l.res[1] \in {"session", "user"}
             /\ pc'[p] = "revokeRows" => l.res[1] = "session"
           Began == pc'[p] = "revokeRows" => pc[p] = "revokeRows" \/ locks[p] = {}
<1>1. \A label, c : Proceed(p, label, c) => pc'[p] = label
  BY DEF Proceed, IInv, TypeOK
<1>2. /\ Finish(p) => locks'[p] = {} /\ pc'[p] = "idle"
      /\ Release(p) => locks'[p] = {}
  BY <1>1 DEF Finish, Release, IInv, TypeOK, StoreTypeOK
<1>3. ASSUME NEW res, NEW mode, Acquire(p, res, mode),
             mode = "X" => res[1] \in {"session", "user"},
             pc'[p] = "revokeRows" => res[1] = "session"
      PROVE  Fine(locks'[p])
  <2>1. locks'[p] = locks[p] \cup {[res |-> res, mode |-> mode]}
    BY <1>3 DEF Acquire, Take, IInv, TypeOK, StoreTypeOK
  <2> QED
    BY <1>3, <2>1
<1>4. /\ UNCHANGED locks => Fine(locks'[p])
      /\ locks'[p] = {} => Fine(locks'[p])
  OBVIOUS
<1>5. /\ \A t : SessionLock(t)[1] = "session"
      /\ \A u : UserLock(u)[1] = "user"
  BY DEF SessionLock, UserLock
<1> SUFFICES Fine(locks'[p]) /\ Began
  OBVIOUS
<1> HIDE DEF Fine
<1>6. CASE Start(p) \/ Logout(p)
  BY <1>1, <1>2, <1>4, <1>6 DEF Start, Request, CreateSession, RevokeAllSessions,
     Logout, RevokeSession, RevokeByTokenHash, storeVars
<1>7. CASE Validate(p)
  <2>1. pc[p] \in {"find", "validate", "touch"}
    BY <1>7 DEF Validate, FindForValidation, ValidateSession, TouchLastSeenIfDue
  <2>2. AfterValidation(ctx[p].kind) # "revokeRows"
    BY <2>1 DEF IInv, Captured, CapturedAt, AfterValidation
  <2> QED
    BY <1>1, <1>2, <1>4, <1>7, <2>2 DEF Validate, FindForValidation,
       ValidateSession, TouchLastSeenIfDue
<1>8. CASE FindPasswordIdentity(p) \/ VerifyPassword(p)
  BY <1>1, <1>2, <1>4, <1>8 DEF FindPasswordIdentity, FindIdentity,
     FindCredential, VerifyPassword
<1>9. CASE LockSession(p) \/ LockUser(p)
  BY <1>1, <1>2, <1>3, <1>4, <1>5, <1>9 DEF LockSession, LockUser, Goto
<1>10. CASE LockCredential(p) \/ LockMembership(p) \/ LockOrganization(p)
  <2>1. CASE LockCredential(p)
    BY <1>1, <1>2, <1>3, <1>4, <2>1 DEF LockCredential, Goto
  <2>2. CASE LockMembership(p)
    BY <1>1, <1>3, <2>2 DEF LockMembership, Goto
  <2>3. CASE LockOrganization(p)
    BY <1>1, <1>3, <2>3 DEF LockOrganization
  <2> QED
    BY <1>10, <2>1, <2>2, <2>3
<1>11. CASE WriteReplacement(p) \/ CommitReplacement(p) \/ Rollback(p)
  BY <1>1, <1>2, <1>4, <1>11 DEF WriteReplacement, CommitReplacement, Rollback
<1>12. CASE Login(p)
  BY <1>1, <1>2, <1>3, <1>4, <1>5, <1>12 DEF Login, LockLoginUser, InsertSession,
     Retry, Goto
<1>13. CASE RevokeAll(p)
  <2>1. CASE RevokeAllForUser(p)
    BY <1>4, <2>1 DEF RevokeAllForUser, OutsideFree, TxSteps, ReplaceSteps, storeVars
  <2>2. CASE RevokeRow(p)
    BY <1>3, <1>5, <2>2 DEF RevokeRow
  <2>3. CASE RevocationsRefused(p) \/ CommitRevocations(p) \/ ReturnFromRevokeAll(p)
    BY <1>2, <1>4, <2>3 DEF RevocationsRefused, CommitRevocations,
       ReturnFromRevokeAll, Goto
  <2> QED
    BY <1>13, <2>1, <2>2, <2>3 DEF RevokeAll
<1> QED
  BY <1>6, <1>8, <1>9, <1>10, <1>11, <1>12, <1>13, <1>7 DEF Step, Renew, Replace

\* A tenant request locks rows for writing among the sessions only.
LEMMA WritersOfTenants ==
  ASSUME TenantInv, NEW p \in Worker,
         \/ TenantStep(p) \/ TenantRollback(p)
         \/ \E t \in Token : ResolveTenant(p, t)
  PROVE  \A l \in locks'[p] \ locks[p] : l.mode = "X" => l.res[1] = "session"
<1> DEFINE Fine == \A l \in locks'[p] \ locks[p] : l.mode = "X" => l.res[1] = "session"
<1>1. ASSUME NEW res, NEW mode, Acquire(p, res, mode),
             mode = "X" => res[1] = "session"
      PROVE  Fine
  <2>1. locks'[p] = locks[p] \cup {[res |-> res, mode |-> mode]}
    BY <1>1 DEF Acquire, Take, TenantInv, IInv, TypeOK, StoreTypeOK
  <2> QED
    BY <1>1, <2>1
<1>2. /\ UNCHANGED locks => Fine
      /\ Deny(p) => Fine
      /\ Release(p) => Fine
  BY DEF Deny, Release, TenantInv, IInv, TypeOK, StoreTypeOK
<1>3. \A t : SessionLock(t)[1] = "session"
  BY DEF SessionLock
<1> SUFFICES Fine
  OBVIOUS
<1> HIDE DEF Fine
<1>4. CASE Resolve(p)
  BY <1>1, <1>2, <1>3, <1>4 DEF Resolve, LoadSession, LoadUser,
     LoadAuthorizedCandidates, LockCandidate, ResolveCandidates,
     PersistAutoSelection, LoadSelected, LockSelected, CommitResolution
<1>5. CASE Scope(p)
  BY <1>1, <1>2, <1>3, <1>5 DEF Scope, ScopeSession, ScopeUser, ScopeMembership,
     ScopeOrganization, CallRepository, Operate, Recheck, CommitOperation
<1>6. CASE TenantRollback(p) \/ \E t \in Token : ResolveTenant(p, t)
  BY <1>2, <1>6 DEF TenantRollback, ResolveTenant, storeVars
<1> QED
  BY <1>4, <1>5, <1>6 DEF TenantStep

\* The locks stay in order, and in the modes they are taken in.
LEMMA WaitsStep ==
  ASSUME TenantInv, TenantInv', LockOrder, WritersLock, [TenantNext]_allVars
  PROVE  LockOrder' /\ WritersLock'
<1>1. IInv
  BY DEF TenantInv
<1>2. CASE UNCHANGED <<pc, locks>>
  BY <1>2 DEF LockOrder, WritersLock
<1>3. ASSUME NEW p \in Worker, step[p] = "idle" \/ pc[p] # "idle",
             Start(p) \/ Step(p) \/ Rollback(p)
      PROVE  LockOrder' /\ WritersLock'
  <2>1. OutsideFree(p)
    BY <1>3 DEF TenantInv, BesideFree, TenantTypeOK, OutsideFree
  <2>2. Ordered(pc'[p], locks'[p])
    BY <1>1, <1>3, <2>1, OrderKept
  <2>3. \A q \in Worker \ {p} : pc'[q] = pc[q] /\ locks'[q] = locks[q]
    BY <1>1, <1>3, OneMoves DEF IInv
  <2>4. \A l \in locks'[p] :
          /\ l.mode = "X" => l.res[1] \in {"session", "user"}
          /\ pc'[p] = "revokeRows" => l.res[1] = "session"
    BY <1>1, <1>3, <2>1, WritersBeside DEF WritersLock
  <2> QED
    BY <2>2, <2>3, <2>4 DEF LockOrder, Ordered, WritersLock
<1>4. ASSUME NEW p \in Worker,
             \/ TenantStep(p) \/ TenantRollback(p)
             \/ \E t \in Token : ResolveTenant(p, t)
      PROVE  LockOrder' /\ WritersLock'
  <2>1. /\ pc[p] = "idle" /\ pc' = pc
        /\ \A q \in Worker \ {p} : locks'[q] = locks[q]
    BY <1>4, OthersStay DEF lifeVars
  <2>2. \A l \in locks'[p] : l.mode = "X" => l.res[1] \in {"session", "user"}
    BY <1>4, WritersOfTenants DEF WritersLock
  <2>3. \A l \in locks'[p] : LockRank(l.res[1]) < WantedRank("idle")
    <3>1. \A l \in locks'[p] : LockRank(l.res[1]) \in 1 .. 5
      BY Ranks DEF TenantInv, IInv, TypeOK, StoreTypeOK
    <3>2. WantedRank("idle") = 6
      BY DEF WantedRank
    <3> QED
      BY <3>1, <3>2
  <2> QED
    BY <2>1, <2>2, <2>3 DEF LockOrder, WritersLock
<1>5. CASE Beside
  BY <1>2, <1>3, <1>5, BesideSteps DEF lifeVars
<1>6. CASE UNCHANGED allVars
  BY <1>2, <1>6 DEF allVars, vars, storeVars, lifeVars
<1> QED
  BY <1>4, <1>5, <1>6 DEF TenantNext

\* The locks of the other requests are taken in order beside tenant requests
\* too, and no statement locks for writing but sessions and users.
LEMMA WaitsHold == TenantSpec => [](LockOrder /\ WritersLock)
<1>1. TenantInit => LockOrder /\ WritersLock
  BY DEF TenantInit, Init, StoreInit, LockOrder, WritersLock
<1>2. TenantInv /\ TenantInv' /\ LockOrder /\ WritersLock /\ [TenantNext]_allVars
        => (LockOrder /\ WritersLock)'
  BY WaitsStep
<1> QED
  BY <1>1, <1>2, TenantInvariance, PTL DEF TenantSpec

\* What a statement wants is a session, of someone who has nothing yet, a user,
\* of someone who has sessions at most, a row that all lock to read, or one that
\* it has locked already.
LEMMA WantedLock ==
  ASSUME TenantInv, LockOrder, NEW p \in Worker, NEW l \in Wanted(p)
  PROVE  \/ /\ l.res[1] = "session"
            /\ pc[p] = "revokeRows" \/ locks[p] = {}
         \/ /\ l.res[1] = "user"
            /\ \A m \in locks[p] : m.res[1] = "session"
         \/ l.res[1] \notin {"session", "user"} /\ l.mode = "S"
         \/ l \in locks[p]
<1> DEFINE s == seat[p]
           c == ctx[p]
           Goal == \/ /\ l.res[1] = "session"
                      /\ pc[p] = "revokeRows" \/ locks[p] = {}
                   \/ /\ l.res[1] = "user"
                      /\ \A m \in locks[p] : m.res[1] = "session"
                   \/ l.res[1] \notin {"session", "user"} /\ l.mode = "S"
                   \/ l \in locks[p]
<1>1. \A m \in locks[p] : LockRank(m.res[1]) \in 1 .. 5
                          /\ (LockRank(m.res[1]) = 1 => m.res[1] = "session")
  <2>1. ASSUME NEW m \in locks[p], LockRank(m.res[1]) = 1 PROVE m.res[1] = "session"
    <3>1. m.res[1] \in {"session", "user", "credential", "membership", "organization"}
      BY DEF TenantInv, IInv, TypeOK, StoreTypeOK, Lock, Resource
    <3> QED
      BY <2>1, <3>1 DEF LockRank
  <2> QED
    BY <2>1, Ranks DEF TenantInv, IInv, TypeOK, StoreTypeOK
<1>2. /\ \A t : SessionLock(t)[1] = "session"
      /\ \A u : UserLock(u)[1] = "user"
      /\ \A u : CredentialLock(u)[1] = "credential"
      /\ \A u, o : MembershipLock(u, o)[1] = "membership"
      /\ \A o : OrganizationLock(o)[1] = "organization"
  BY DEF SessionLock, UserLock, CredentialLock, MembershipLock, OrganizationLock
<1>3. SeatInv(p) /\ (pc[p] = "idle" \/ step[p] = "idle")
  BY DEF TenantInv, TenantTypeOK
<1>4. CASE step[p] \in {"session", "scopeSession"}
  <2>1. HeldRank(step[p], s.again) = 0
    BY <1>4 DEF HeldRank
  <2>2. locks[p] = {}
    BY <1>1, <1>3, <1>4, <2>1 DEF SeatInv, HeldInOrder
  <2>3. l.res = SessionLock(s.token)
    BY <1>3, <1>4 DEF Wanted
  <2> QED
    BY <1>2, <2>2, <2>3
<1>5. CASE step[p] = "select"
  <2>1. l = [res |-> SessionLock(s.token), mode |-> "X"]
    BY <1>3, <1>5 DEF Wanted
  <2> QED
    BY <1>3, <1>5, <2>1 DEF SeatInv, HoldsSession, Holds, ResolveSteps
<1>6. CASE step[p] \in {"user", "scopeUser"}
  <2>1. l = [res |-> UserLock(s.user), mode |-> "S"]
    BY <1>3, <1>6 DEF Wanted
  <2>2. CASE step[p] = "user" /\ s.again
    BY <1>3, <2>1, <2>2 DEF SeatInv, HoldsActiveUser, Holds
  <2>3. CASE ~(step[p] = "user" /\ s.again)
    <3>1. HeldRank(step[p], s.again) = 1
      BY <1>6, <2>3 DEF HeldRank
    <3>2. \A m \in locks[p] : m.res[1] = "session"
      BY <1>1, <1>3, <1>6, <3>1 DEF SeatInv, HeldInOrder
    <3> QED
      BY <1>2, <2>1, <3>2
  <2> QED
    BY <2>2, <2>3
<1>7. CASE step[p] = "lockCandidates"
  <2>1. \E o \in s.cand : l = [res |-> MembershipLock(s.user, o), mode |-> "S"]
    BY <1>3, <1>7 DEF Wanted
  <2> QED
    BY <1>2, <2>1
<1>8. CASE step[p] \in {"lockSelected", "scopeMembership", "scopeOrganization"}
  <2>1. \/ \E o : l = [res |-> MembershipLock(s.user, o), mode |-> "S"]
        \/ \E o : l = [res |-> OrganizationLock(o), mode |-> "S"]
    BY <1>3, <1>8 DEF Wanted
  <2> QED
    BY <1>2, <2>1
<1>9. CASE step[p] \in {"candidates", "selected", "resolved", "operate", "recheck",
                        "commitOperation"}
  BY <1>3, <1>9 DEF Wanted
<1>10. CASE step[p] = "idle"
  <2>1. CASE pc[p] \in {"touch", "revoke", "lockSession"}
    <3>1. WantedRank(pc[p]) = 1 /\ pc[p] # "revokeRows"
      BY <2>1 DEF WantedRank
    <3>2. locks[p] = {}
      BY <1>1, <3>1 DEF LockOrder
    <3>3. l.res = SessionLock(c.token)
      BY <1>10, <2>1 DEF Wanted
    <3> QED
      BY <1>2, <3>2, <3>3
  <2>2. CASE pc[p] = "revokeRows"
    <3>1. \E t : l.res = SessionLock(t)
      BY <1>10, <2>2 DEF Wanted
    <3> QED
      BY <1>2, <2>2, <3>1
  <2>3. CASE pc[p] \in {"lockUser", "lockLogin"}
    <3>1. WantedRank(pc[p]) = 2 /\ pc[p] # "revokeRows"
      BY <2>3 DEF WantedRank
    <3>2. \A m \in locks[p] : m.res[1] = "session"
      BY <1>1, <3>1 DEF LockOrder
    <3>3. l.res = UserLock(c.user)
      BY <1>10, <2>3 DEF Wanted
    <3> QED
      BY <1>2, <3>2, <3>3
  <2>4. CASE pc[p] \in {"lockCredential", "lockMembership", "lockOrganization"}
    <3>1. \/ \E u : l = [res |-> CredentialLock(u), mode |-> "S"]
          \/ \E u, o : l = [res |-> MembershipLock(u, o), mode |-> "S"]
          \/ \E o : l = [res |-> OrganizationLock(o), mode |-> "S"]
      BY <1>10, <2>4 DEF Wanted
    <3> QED
      BY <1>2, <3>1
  <2>5. ~(pc[p] \notin {"touch", "revoke", "lockSession", "revokeRows", "lockUser",
                        "lockLogin", "lockCredential", "lockMembership",
                        "lockOrganization"})
    BY <1>10 DEF Wanted
  <2> QED
    BY <2>1, <2>2, <2>3, <2>4, <2>5
<1>11. step[p] \in {"idle"} \cup ResolveSteps \cup ScopeSteps
  BY DEF TenantInv, TenantTypeOK
<1> QED
  BY <1>4, <1>5, <1>6, <1>7, <1>8, <1>9, <1>10, <1>11 DEF ResolveSteps, ScopeSteps

\* Nobody waits for a reader of a row that is locked to read only, so that one
\* waits for the holder of a session or of a user, or for an INSERT's outcome.
LEMMA Waiters ==
  ASSUME TenantInv, LockOrder, WritersLock,
         NEW p \in Worker, NEW q \in Worker, WaitsFor(p, q)
  PROVE  \/ pc[q] = "commit"
         \/ /\ pc[p] = "revokeRows" \/ locks[p] = {}
            /\ \E m \in locks[q] : m.res[1] = "session"
         \/ /\ \A m \in locks[p] : m.res[1] = "session"
            /\ \E m \in locks[q] : m.res[1] = "user"
<1>1. CASE pc[q] = "commit"
  BY <1>1
<1>2. ASSUME NEW l \in Wanted(p), NEW m \in locks[q],
             l.res = m.res, l.mode = "X" \/ m.mode = "X"
      PROVE  \/ /\ pc[p] = "revokeRows" \/ locks[p] = {}
                /\ \E n \in locks[q] : n.res[1] = "session"
             \/ /\ \A n \in locks[p] : n.res[1] = "session"
                /\ \E n \in locks[q] : n.res[1] = "user"
  <2>1. l \notin locks[p]
    BY <1>2 DEF WaitsFor, TenantInv, IInv, LockExclusion
  <2>2. m.mode = "X" => m.res[1] \in {"session", "user"}
    BY DEF WritersLock
  <2>3. ~(l.res[1] \notin {"session", "user"} /\ l.mode = "S")
    BY <1>2, <2>2
  <2> QED
    BY <1>2, <2>1, <2>3, WantedLock
<1> QED
  BY <1>1, <1>2 DEF WaitsFor

\* However many requests of whatever kinds run at once, only bulk revocations
\* can wait for each other in a circle: all others end up waiting for someone who
\* goes on.
THEOREM NoOtherDeadlock == TenantSpec => []DeadlocksAreRevocations
<1>1. ASSUME TenantInv, LockOrder, WritersLock,
             NEW S \in SUBSET Worker, Deadlocked(S)
      PROVE  Deadlocked({p \in S : pc[p] = "revokeRows"})
  <2>1. \A p \in S : pc[p] # "commit"
    <3>1. ASSUME NEW p \in S, pc[p] = "commit" PROVE Wanted(p) = {}
      <4>1. step[p] = "idle"
        BY <1>1, <3>1 DEF TenantInv, TenantTypeOK
      <4> QED
        BY <3>1, <4>1 DEF Wanted
    <3> QED
      BY <1>1, <3>1 DEF Deadlocked, WaitsFor
  <2>2. \A p \in S : \A m \in locks[p] : m.res[1] = "session"
    BY <1>1, <2>1, Waiters DEF Deadlocked, WritersLock
  <2>3. ASSUME NEW p \in S, NEW q \in S, WaitsFor(p, q)
        PROVE  (pc[p] = "revokeRows" \/ locks[p] = {}) /\ locks[q] # {}
    <3>1. p \in Worker /\ q \in Worker
      BY <1>1
    <3>2. ~\E m \in locks[q] : m.res[1] = "user"
      BY <2>2
    <3> QED
      BY <1>1, <2>1, <2>3, <3>1, <3>2, Waiters
  <2>4. \A p, q \in S : WaitsFor(p, q) => pc[q] = "revokeRows"
    BY <1>1, <2>3 DEF Deadlocked
  <2> QED
    BY <1>1, <2>4 DEF Deadlocked
<1>2. TenantInv /\ LockOrder /\ WritersLock => DeadlocksAreRevocations
  BY <1>1 DEF DeadlocksAreRevocations
<1> QED
  BY <1>2, TenantInvariance, WaitsHold, PTL
==============================================================================
