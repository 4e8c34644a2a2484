--------------------------------- MODULE Login --------------------------------
(***************************************************************************)
(* LoginUseCase.execute after the rate limits: the credential is read, the *)
(* password verified outside any transaction, a hash made under an older   *)
(* Argon2 policy replaced by compare-and-swap, and the session created.    *)
(* What creating a session does is SessionLifecycle's subject; here it is  *)
(* one step.  A hash is the password it was made from, the policy it was   *)
(* made under and its salt; no two hashings share a salt.  Beside the      *)
(* logins runs the tool that provisions development users.                 *)
(***************************************************************************)
EXTENDS Integers

CONSTANTS
  Worker,      \* logins and provisionings in flight
  User, Secret,
  None,        \* no row, or no hash
  MaxSalt,     \* bound on the hashings of a behaviour
  Edits        \* what operators do meanwhile

ASSUME LoginAssumption ==
  /\ None \notin User \cup Secret
  /\ MaxSalt \in Nat
  /\ Edits \subseteq {"disable", "password", "revokeAll"}

VARIABLES
  status,       \* users.status, None for an email nobody has
  credentials,  \* user_password_credentials.password_hash, None if missing
  sessions,     \* the users with a session that is not revoked
  salt,         \* the last salt used
  pc, ctx       \* the next step of each login, and what it has read

vars == <<status, credentials, sessions, salt, pc, ctx>>

Policies == {"current", "outdated", "unsupported"}

Hash == [secret: Secret, policy: Policies, salt: Nat]

\* NULL is neither a hash nor a status.
ASSUME HashAssumption == None \notin Hash \cup {"Active", "Disabled"}

\* genuine: history, whether the password has been the user's since the login
\* began.
NoCtx ==
  [user |-> None, secret |-> None, status |-> None, hash |-> None, new |-> None,
   genuine |-> FALSE]

Labels ==
  {"idle", "findUser", "findCredential", "verify", "hash", "swap", "againUser",
   "againCredential", "create", "findExisting", "hashNew", "createUser",
   "createCredential"}

Ctx ==
  [user: User \cup {None}, secret: Secret \cup {None},
   status: {"Active", "Disabled", None}, hash: Hash \cup {None},
   new: Hash \cup {None}, genuine: BOOLEAN]

TypeOK ==
  /\ status \in [User -> {"Active", "Disabled", None}]
  /\ credentials \in [User -> Hash \cup {None}]
  /\ sessions \subseteq User
  /\ salt \in 0 .. MaxSalt
  /\ pc \in [Worker -> Labels]
  /\ ctx \in [Worker -> Ctx]

Init ==
  /\ status \in [User -> {"Active", None}]
  /\ credentials \in [User -> [secret: Secret, policy: Policies, salt: {0}]
                                \cup {None}]
  /\ \A u \in User : status[u] = None => credentials[u] = None
  /\ sessions = {} /\ salt = 0
  /\ pc = [p \in Worker |-> "idle"]
  /\ ctx = [p \in Worker |-> NoCtx]

Proceed(p, label, c) ==
  /\ pc' = [pc EXCEPT ![p] = label]
  /\ ctx' = [ctx EXCEPT ![p] = c]

\* "invalid", whatever the reason.
Reject(p) == Proceed(p, "idle", NoCtx)

IsSecretOf(u, secret) ==
  credentials[u] # None /\ credentials[u].secret = secret

\* The logins in flight with this password for u now hold the user's.
Vouched(u, secret) ==
  [p \in Worker |-> IF ctx[p].user = u /\ ctx[p].secret = secret
     THEN [ctx[p] EXCEPT !.genuine = TRUE] ELSE ctx[p]]

Execute(p, u, secret) ==
  /\ pc[p] = "idle"
  /\ Proceed(p, "findUser", [NoCtx EXCEPT !.user = u, !.secret = secret,
       !.genuine = IsSecretOf(u, secret)])
  /\ UNCHANGED <<status, credentials, sessions, salt>>

\* findPasswordIdentityByNormalizedEmail, the first time and again after a
\* lost swap: the user row, then its credential row.
FindUser(p) ==
  LET u == ctx[p].user IN
  /\ pc[p] \in {"findUser", "againUser"}
  /\ Proceed(p, IF pc[p] = "findUser" THEN "findCredential" ELSE "againCredential",
       [ctx[p] EXCEPT !.status = status[u]])
  /\ UNCHANGED <<status, credentials, sessions, salt>>

FindCredential(p) ==
  /\ pc[p] = "findCredential"
  /\ Proceed(p, "verify", [ctx[p] EXCEPT !.hash =
       IF ctx[p].status = None THEN None ELSE credentials[ctx[p].user]])
  /\ UNCHANGED <<status, credentials, sessions, salt>>

\* Variant: any supported hash of an Active user passes, as when the promise of
\* the verification is tested and not its value.
AuthenticatedUnawaited(c) ==
  c.status = "Active" /\ c.hash # None /\ c.hash.policy # "unsupported"

\* Only an Active user, a supported hash and its own password pass; the dummy
\* hash, verified in place of a missing or unsupported one, never does.
Authenticated(c) ==
  /\ c.status = "Active" /\ c.hash # None
  /\ c.hash.policy # "unsupported"
  /\ c.hash.secret = c.secret

NeedsRehash(hash) == hash.policy # "current"

Authenticate(p) ==
  /\ pc[p] = "verify"
  /\ IF ~Authenticated(ctx[p]) THEN Reject(p)
     ELSE Proceed(p, IF NeedsRehash(ctx[p].hash) THEN "hash" ELSE "create", ctx[p])
  /\ UNCHANGED <<status, credentials, sessions, salt>>

NewHash(secret) == [secret |-> secret, policy |-> "current", salt |-> salt + 1]

HashPassword(p) ==
  /\ pc[p] = "hash" /\ salt < MaxSalt
  /\ salt' = salt + 1
  /\ Proceed(p, "swap", [ctx[p] EXCEPT !.new = NewHash(ctx[p].secret)])
  /\ UNCHANGED <<status, credentials, sessions>>

\* Variant: the UPDATE does not compare the hash.
StillThere(p) == credentials[ctx[p].user] # None

\* The hash that was verified is the one that is stored.
StillExpected(p) == credentials[ctx[p].user] = ctx[p].hash

ReplacePasswordHashIfCurrent(p) ==
  /\ pc[p] = "swap"
  /\ \/ /\ StillExpected(p)
        /\ credentials' = [credentials EXCEPT ![ctx[p].user] = ctx[p].new]
        /\ Proceed(p, "create", ctx[p])
     \/ /\ ~StillExpected(p)
        /\ Proceed(p, "againUser", ctx[p])
        /\ UNCHANGED credentials
  /\ UNCHANGED <<status, sessions, salt>>

\* Variant: after a lost swap any credential of an Active user will do.
AcceptableActive(c, hash) == c.status = "Active" /\ hash # None

\* A lost swap is forgiven if the hash is the expected or the new one.
Acceptable(c, hash) == c.status = "Active" /\ hash \in {c.hash, c.new}

FindCredentialAgain(p) ==
  /\ pc[p] = "againCredential"
  /\ IF Acceptable(ctx[p], credentials[ctx[p].user])
     THEN Proceed(p, "create", ctx[p]) ELSE Reject(p)
  /\ UNCHANGED <<status, credentials, sessions, salt>>

CreateSession(p) ==
  /\ pc[p] = "create"
  /\ sessions' = IF status[ctx[p].user] # "Active" THEN sessions
       ELSE sessions \cup {ctx[p].user}
  /\ Reject(p)
  /\ UNCHANGED <<status, credentials, salt>>

\* A query of one of them fails, or the process that runs them is lost.
Fail(lost) ==
  /\ lost # {} /\ \A p \in lost : pc[p] # "idle"
  /\ pc' = [p \in Worker |-> IF p \in lost THEN "idle" ELSE pc[p]]
  /\ ctx' = [p \in Worker |-> IF p \in lost THEN NoCtx ELSE ctx[p]]
  /\ UNCHANGED <<status, credentials, sessions, salt>>

----------------------------------------------------------------------------
(* provisionDevelopmentUser *)

Provision(p, u, secret) ==
  /\ pc[p] = "idle"
  /\ Proceed(p, "findExisting", [NoCtx EXCEPT !.user = u, !.secret = secret])
  /\ UNCHANGED <<status, credentials, sessions, salt>>

FindExisting(p) ==
  /\ pc[p] = "findExisting"
  /\ IF status[ctx[p].user] # None THEN Reject(p)
     ELSE Proceed(p, "hashNew", ctx[p])
  /\ UNCHANGED <<status, credentials, sessions, salt>>

HashNew(p) ==
  /\ pc[p] = "hashNew" /\ salt < MaxSalt
  /\ salt' = salt + 1
  /\ Proceed(p, "createUser", [ctx[p] EXCEPT !.new = NewHash(ctx[p].secret)])
  /\ UNCHANGED <<status, credentials, sessions>>

\* Variant: the e-mail is not unique.
NeverCreating(u) == FALSE

\* The row of u has an uncommitted writer.
Creating(u) == \E q \in Worker : pc[q] = "createCredential" /\ ctx[q].user = u

\* The INSERT waits for such a writer, and a user of the e-mail is P2002:
\* "already-exists", as if it had been found.
CreateUser(p) ==
  LET u == ctx[p].user IN
  /\ pc[p] = "createUser" /\ ~Creating(u)
  /\ IF status[u] # None THEN Reject(p)
     ELSE Proceed(p, "createCredential", ctx[p])
  /\ UNCHANGED <<status, credentials, sessions, salt>>

\* The second INSERT, and the commit of both.
CreateCredential(p) ==
  LET u == ctx[p].user IN
  /\ pc[p] = "createCredential"
  /\ status' = [status EXCEPT ![u] = "Active"]
  /\ credentials' = [credentials EXCEPT ![u] = ctx[p].new]
  /\ pc' = [pc EXCEPT ![p] = "idle"]
  /\ ctx' = [Vouched(u, ctx[p].secret) EXCEPT ![p] = NoCtx]
  /\ UNCHANGED <<sessions, salt>>

----------------------------------------------------------------------------
(* The operators *)

DisableUser(u) ==
  /\ "disable" \in Edits /\ status[u] = "Active"
  /\ status' = [status EXCEPT ![u] = "Disabled"]
  /\ UNCHANGED <<credentials, sessions, salt, pc, ctx>>

ChangePassword(u, secret) ==
  /\ "password" \in Edits /\ status[u] # None /\ salt < MaxSalt
  /\ credentials' = [credentials EXCEPT ![u] = NewHash(secret)]
  /\ salt' = salt + 1
  /\ ctx' = Vouched(u, secret)
  /\ UNCHANGED <<status, sessions, pc>>

\* revokeAllSessionsForUser
RevokeAll(u) ==
  /\ "revokeAll" \in Edits
  /\ sessions' = sessions \ {u}
  /\ UNCHANGED <<status, credentials, salt, pc, ctx>>

Step(p) ==
  \/ FindUser(p) \/ FindCredential(p) \/ Authenticate(p) \/ HashPassword(p)
  \/ ReplacePasswordHashIfCurrent(p) \/ FindCredentialAgain(p) \/ CreateSession(p)
  \/ FindExisting(p) \/ HashNew(p) \/ CreateUser(p) \/ CreateCredential(p)

Next ==
  \/ \E p \in Worker :
       \/ \E u \in User, secret \in Secret :
            Execute(p, u, secret) \/ Provision(p, u, secret)
       \/ Step(p)
  \/ \E lost \in SUBSET Worker : Fail(lost)
  \/ \E u \in User :
       \/ DisableUser(u) \/ RevokeAll(u)
       \/ \E secret \in Secret : ChangePassword(u, secret)

Spec == Init /\ [][Next]_vars

----------------------------------------------------------------------------

\* A login never undoes a change of password: whatever it writes is a hash of
\* the password that was stored, under the current policy, and only over a
\* hash of another policy (auth-http.spec.ts, "does not overwrite").
RehashKeepsPassword ==
  [][\A p \in Worker, u \in User :
       pc[p] = "swap" /\ pc'[p] # "swap" /\ credentials'[u] # credentials[u] =>
         /\ credentials[u] # None /\ credentials[u].policy = "outdated"
         /\ credentials'[u].secret = credentials[u].secret
         /\ credentials'[u].policy = "current"]_vars

\* A login that replaced the hash, or failed to, goes on only while the stored
\* hash is of the password it was given (login-use-case.spec.ts, "fails closed
\* when the password changes after verification and before CAS").
LostSwapFailsClosed ==
  [][\A p \in Worker :
       pc[p] \in {"swap", "againCredential"} /\ pc'[p] = "create" =>
         /\ credentials'[ctx[p].user] # None
         /\ credentials'[ctx[p].user].secret = ctx[p].secret]_vars

\* A session is created for a password that has been the user's at some moment
\* since the login began: whoever begins with a password that was changed
\* before is turned away, whatever races with the verification.  (That it still
\* is the user's password is not claimed: LoginUseCase does not look again.)
SessionsAreAuthenticated ==
  [][\A p \in Worker : pc[p] = "create" => ctx[p].genuine]_vars

\* Two provisionings of one e-mail create one user, whole: it appears together
\* with the credential of one of them, and no provisioning touches the
\* credential of a user who is there already.
ProvisionedOnce ==
  [][\A u \in User :
       /\ status[u] = None /\ status'[u] # None =>
            \E p \in Worker : ctx[p].user = u /\ ctx[p].new # None
              /\ credentials'[u] = ctx[p].new
       /\ (\E p \in Worker : ctx[p].user = u
              /\ pc[p] = "createCredential" /\ pc'[p] # pc[p]) =>
            credentials[u] \in {None, credentials'[u]}]_vars

----------------------------------------------------------------------------
(* The inductive invariant behind these properties *)

\* A login at step label that carries the user's password has recorded that it
\* does, and none goes past the verification that has not.
RecordedAt(label, c) ==
  /\ label \in {"findUser", "findCredential", "verify"} =>
       (IsSecretOf(c.user, c.secret) => c.genuine)
  /\ label = "verify" /\ c.hash # None => (c.hash.secret = c.secret => c.genuine)
  /\ label \in {"hash", "swap", "againUser", "againCredential", "create"} => c.genuine

\* What it has captured there: the hash it verified and the hash it made are both
\* of the password it was given.
CapturedAt(label, c) ==
  /\ label # "idle" => c.user \in User /\ c.secret \in Secret
  /\ label \in {"hash", "swap", "againUser", "againCredential"} =>
       c.hash # None /\ c.hash.secret = c.secret /\ c.hash.policy = "outdated"
  /\ label \in {"swap", "againUser", "againCredential", "createUser",
                "createCredential"} =>
       c.new # None /\ c.new.secret = c.secret /\ c.new.policy = "current"

\* The user an uncommitted provisioning creates is not there, and nobody else's.
CreatingApart ==
  \A p \in Worker : pc[p] = "createCredential" =>
    /\ status[ctx[p].user] = None
    /\ \A q \in Worker \ {p} :
         pc[q] = "createCredential" => ctx[q].user # ctx[p].user

IInv ==
  /\ TypeOK
  /\ \A p \in Worker : RecordedAt(pc[p], ctx[p]) /\ CapturedAt(pc[p], ctx[p])
  /\ \A u \in User : status[u] = None => credentials[u] = None
  /\ CreatingApart
==============================================================================
