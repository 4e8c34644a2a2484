--------------------------- MODULE AuthorityStore ----------------------------
(***************************************************************************)
(* The PostgreSQL rows on which a request's authority rests, the row and   *)
(* advisory locks its transactions take, the clock of the API process, and *)
(* the writers outside the code base.                                      *)
(*                                                                         *)
(* A transaction runs READ COMMITTED.  A locking read waits until no other *)
(* transaction holds a conflicting lock and then sees the last committed   *)
(* row, so waiting, locking and reading are one step; between two          *)
(* statements anything may happen.  A session is named by its token: the   *)
(* two identify each other (UNIQUE token_hash) and neither ever changes.   *)
(*                                                                         *)
(* The repository has no code that disables a user, changes a password or  *)
(* edits a membership or an organization; the actions at the end stand for *)
(* the operators (and the tests) that do so with SQL of their own.         *)
(***************************************************************************)
EXTENDS SessionPolicy

CONSTANTS
  Worker,       \* requests the API can have in flight at the same time
  User, Org,
  Token,        \* values the token generator can produce
  Role,         \* membership roles
  None,         \* SQL NULL, or no row
  MaxTime,      \* bound on the clock
  MaxVersion,   \* bound on a membership's authorization_version
  MaxHash,      \* bound on the successive password hashes of a user
  Changes,      \* the rows operators change while requests run
  Compliant,    \* organization changes take the exclusive advisory lock
  Opened        \* tokens of the sessions that logins have opened already

ASSUME StoreAssumption ==
  /\ None \notin User \cup Org \cup Token
  /\ None \notin Nat
  /\ MaxTime \in Nat /\ MaxVersion \in Nat /\ MaxHash \in Nat
  /\ Changes \subseteq {"user", "password", "membership", "organization"}
  /\ Compliant \in BOOLEAN
  /\ Opened \subseteq Token

VARIABLES
  now,          \* the clock
  users,        \* users.status
  credentials,  \* user_password_credentials.password_hash, successive values
  sessions,     \* sessions rows, None where there is none
  memberships,  \* organization_memberships rows
  orgs,         \* organizations.status
  locks         \* the locks each worker's transaction holds

storeVars == <<now, users, credentials, sessions, memberships, orgs, locks>>
authorityRows == <<users, credentials, memberships, orgs>>

Status == {"Active", "Inactive"}

\* parent is not a column: it records which session a renewal replaced.
SessionRow ==
  [user: User, org: Org \cup {None}, version: Nat \cup {None},
   created: Nat, expires: Nat, seen: Nat, revoked: Nat \cup {None},
   parent: Token \cup {None}]

\* NULL is not a row.
ASSUME NoneAssumption == None \notin SessionRow

MembershipRow == [status: Status, role: Role, version: Nat \ {0}]

----------------------------------------------------------------------------
(* Locks: FOR UPDATE is "X", FOR SHARE and the shared advisory lock "S". *)

Resource ==
       ({"session"} \X Token)
  \cup ({"user", "credential"} \X User)
  \cup ({"membership"} \X (User \X Org))
  \cup ({"organization"} \X Org)

Lock == [res: Resource, mode: {"S", "X"}]

CanLock(p, res, mode) ==
  \A q \in Worker \ {p} : \A l \in locks[q] :
    l.res = res => mode = "S" /\ l.mode = "S"

Take(p, res, mode) ==
  /\ CanLock(p, res, mode)
  /\ locks' = [locks EXCEPT ![p] = @ \cup {[res |-> res, mode |-> mode]}]

\* Variants: a read of one table without its locking clause.
TakeUnlessSession(p, res, mode) ==
  IF res[1] = "session" THEN UNCHANGED locks ELSE Take(p, res, mode)
TakeUnlessUser(p, res, mode) ==
  IF res[1] = "user" THEN UNCHANGED locks ELSE Take(p, res, mode)
TakeUnlessCredential(p, res, mode) ==
  IF res[1] = "credential" THEN UNCHANGED locks ELSE Take(p, res, mode)

Acquire(p, res, mode) == Take(p, res, mode)

\* Commit and rollback release everything the transaction holds.
Release(p) == locks' = [locks EXCEPT ![p] = {}]

\* A statement outside the API finds the row free of any lock.
Unlocked(res) == \A q \in Worker : \A l \in locks[q] : l.res # res

SessionLock(t) == <<"session", t>>
UserLock(u) == <<"user", u>>
CredentialLock(u) == <<"credential", u>>
MembershipLock(u, o) == <<"membership", <<u, o>>>>
OrganizationLock(o) == <<"organization", o>>

\* The order in which every transaction of the API takes its locks.
LockRank(kind) ==
  CASE kind = "session" -> 1 [] kind = "user" -> 2 [] kind = "credential" -> 3
    [] kind = "membership" -> 4 [] kind = "organization" -> 5

----------------------------------------------------------------------------
(* Rows *)

Exists(t) == sessions[t] # None

Unrevoked(t) == Exists(t) /\ sessions[t].revoked = None

RowExpired(row, at) == IsExpired(at, row.expires, row.seen)

NewSession(u, org, version, at, parent) ==
  [user |-> u, org |-> org, version |-> version, created |-> at,
   expires |-> at + AbsoluteLifetime, seen |-> at, revoked |-> None,
   parent |-> parent]

StoreTypeOK ==
  /\ now \in Nat
  /\ users \in [User -> Status]
  /\ credentials \in [User -> Nat]
  /\ sessions \in [Token -> SessionRow \cup {None}]
  /\ memberships \in [User \X Org -> MembershipRow]
  /\ orgs \in [Org -> Status]
  /\ locks \in [Worker -> SUBSET Lock]

StoreInit ==
  /\ now = 0
  /\ users = [u \in User |-> "Active"]
  /\ credentials = [u \in User |-> 0]
  /\ \E owner \in [Opened -> User] :
       sessions = [t \in Token |-> IF t \in Opened
         THEN NewSession(owner[t], None, None, 0, None) ELSE None]
  /\ memberships \in
       [User \X Org -> [status: Status, role: Role, version: {1}]]
  /\ orgs = [o \in Org |-> "Active"]
  /\ locks = [p \in Worker |-> {}]

----------------------------------------------------------------------------
(* The environment *)

Tick ==
  /\ now < MaxTime
  /\ now' = now + 1
  /\ UNCHANGED <<authorityRows, sessions, locks>>

DisableUser(u) ==
  /\ "user" \in Changes
  /\ users[u] = "Active"
  /\ Unlocked(UserLock(u))
  /\ users' = [users EXCEPT ![u] = "Inactive"]
  /\ UNCHANGED <<now, credentials, sessions, memberships, orgs, locks>>

ChangePassword(u) ==
  /\ "password" \in Changes
  /\ credentials[u] < MaxHash
  /\ Unlocked(CredentialLock(u))
  /\ credentials' = [credentials EXCEPT ![u] = @ + 1]
  /\ UNCHANGED <<now, users, sessions, memberships, orgs, locks>>

\* Every change of role or status bumps authorization_version with it.
ChangeMembership(u, o) ==
  /\ "membership" \in Changes
  /\ memberships[<<u, o>>].version < MaxVersion
  /\ Unlocked(MembershipLock(u, o))
  /\ \E status \in Status, role \in Role :
       /\ <<status, role>> # <<memberships[<<u, o>>].status, memberships[<<u, o>>].role>>
       /\ memberships' = [memberships EXCEPT ![<<u, o>>] =
            [status |-> status, role |-> role, version |-> @.version + 1]]
  /\ UNCHANGED <<now, users, credentials, sessions, orgs, locks>>

\* A compliant change waits for the advisory lock; the row itself is never
\* locked, the runtime role may only SELECT it.
ChangeOrganization(o) ==
  /\ "organization" \in Changes
  /\ Compliant => Unlocked(OrganizationLock(o))
  /\ orgs' = [orgs EXCEPT ![o] = IF @ = "Active" THEN "Inactive" ELSE "Active"]
  /\ UNCHANGED <<now, users, credentials, sessions, memberships, locks>>

Environment ==
  \/ Tick
  \/ \E u \in User : DisableUser(u) \/ ChangePassword(u)
  \/ \E u \in User, o \in Org : ChangeMembership(u, o)
  \/ \E o \in Org : ChangeOrganization(o)
==============================================================================
