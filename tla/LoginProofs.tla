------------------------------ MODULE LoginProofs -----------------------------
(***************************************************************************)
(* Proofs about Login and LoginProcesses for any number of workers, users  *)
(* and passwords, runs of the tool and losses.  IInv of Login and          *)
(* ProcessIInv of LoginProcesses are inductive; the processes' steps are   *)
(* steps of Login, so what is proved of it holds of them.                  *)
(***************************************************************************)
EXTENDS LoginProcesses, TLAPS

----------------------------------------------------------------------------
(* Frames *)

LEMMA Facts ==
  ASSUME IInv, NEW p \in Worker
  PROVE  /\ pc[p] \in Labels /\ ctx[p] \in Ctx
         /\ RecordedAt(pc[p], ctx[p]) /\ CapturedAt(pc[p], ctx[p])
         /\ status \in [User -> {"Active", "Disabled", None}]
         /\ credentials \in [User -> Hash \cup {None}]
         /\ salt \in Nat
BY LoginAssumption DEF IInv, TypeOK

LEMMA ProceedType ==
  ASSUME IInv, NEW p \in Worker, NEW label \in Labels, NEW c \in Ctx,
         Proceed(p, label, c)
  PROVE  /\ pc' \in [Worker -> Labels] /\ ctx' \in [Worker -> Ctx]
         /\ pc'[p] = label /\ ctx'[p] = c
         /\ \A q \in Worker \ {p} : pc'[q] = pc[q] /\ ctx'[q] = ctx[q]
BY DEF IInv, TypeOK, Proceed

LEMMA NoCtxFacts ==
  /\ NoCtx \in Ctx /\ "idle" \in Labels
  /\ RecordedAt("idle", NoCtx) /\ CapturedAt("idle", NoCtx)
BY DEF NoCtx, Ctx, Labels, RecordedAt, CapturedAt

\* A step of one worker that writes neither a status nor a credential.
LEMMA Frame ==
  ASSUME IInv, NEW p \in Worker, NEW label \in Labels, NEW c \in Ctx,
         Proceed(p, label, c), label # "createCredential",
         UNCHANGED <<status, credentials>>,
         sessions' \subseteq User, salt' \in 0 .. MaxSalt,
         RecordedAt(label, c), CapturedAt(label, c)
  PROVE  IInv'
<1>1. /\ pc' \in [Worker -> Labels] /\ ctx' \in [Worker -> Ctx]
      /\ pc'[p] = label /\ ctx'[p] = c
      /\ \A q \in Worker \ {p} : pc'[q] = pc[q] /\ ctx'[q] = ctx[q]
  BY ProceedType
<1>2. TypeOK'
  BY <1>1 DEF IInv, TypeOK
<1>3. \A q \in Worker : RecordedAt(pc[q], ctx[q])' /\ CapturedAt(pc[q], ctx[q])'
  BY <1>1, Facts DEF RecordedAt, CapturedAt, IsSecretOf
<1>4. CreatingApart'
  BY <1>1 DEF IInv, CreatingApart
<1> QED
  BY <1>2, <1>3, <1>4 DEF IInv

LEMMA RejectFrame ==
  ASSUME IInv, NEW p \in Worker, Reject(p), UNCHANGED <<status, credentials, salt>>,
         sessions' \subseteq User
  PROVE  IInv'
<1>1. "idle" # "createCredential" /\ salt' \in 0 .. MaxSalt
  BY DEF IInv, TypeOK
<1> QED
  BY <1>1, NoCtxFacts, Frame DEF Reject

----------------------------------------------------------------------------
(* Logins *)

LEMMA ExecuteStep ==
  ASSUME IInv, NEW p \in Worker, NEW u \in User, NEW secret \in Secret,
         Execute(p, u, secret)
  PROVE  IInv'
<1> DEFINE c == [NoCtx EXCEPT !.user = u, !.secret = secret,
                              !.genuine = IsSecretOf(u, secret)]
<1>1. /\ c \in Ctx /\ c.user = u /\ c.secret = secret
      /\ IsSecretOf(u, secret) => c.genuine
  <2>1. IsSecretOf(u, secret) \in BOOLEAN
    BY DEF IsSecretOf
  <2> QED
    BY <2>1, NoCtxFacts DEF Ctx
<1> HIDE DEF c
<1>2. RecordedAt("findUser", c) /\ CapturedAt("findUser", c) /\ "findUser" \in Labels
  BY <1>1 DEF RecordedAt, CapturedAt, Labels
<1>3. salt' \in 0 .. MaxSalt /\ sessions' \subseteq User
      /\ UNCHANGED <<status, credentials>> /\ "findUser" # "createCredential"
  BY DEF Execute, IInv, TypeOK
<1>4. Proceed(p, "findUser", c)
  BY DEF Execute, c
<1> QED
  BY <1>1, <1>2, <1>3, <1>4, Frame

\* Most steps only move on, with something read or made.
LEMMA Onward ==
  ASSUME IInv, NEW p \in Worker, NEW label \in Labels, NEW c \in Ctx,
         Proceed(p, label, c), label # "createCredential",
         UNCHANGED <<status, credentials, sessions>>,
         salt' = salt \/ (salt < MaxSalt /\ salt' = salt + 1),
         RecordedAt(label, c), CapturedAt(label, c)
  PROVE  IInv'
<1>1. sessions' \subseteq User /\ salt' \in 0 .. MaxSalt
  BY LoginAssumption DEF IInv, TypeOK
<1> QED
  BY <1>1, Frame

LEMMA FindUserStep ==
  ASSUME IInv, NEW p \in Worker, FindUser(p)
  PROVE  IInv'
<1> DEFINE label == IF pc[p] = "findUser" THEN "findCredential" ELSE "againCredential"
           c == [ctx[p] EXCEPT !.status = status[ctx[p].user]]
<1>1. CapturedAt(pc[p], ctx[p]) /\ RecordedAt(pc[p], ctx[p]) /\ ctx[p] \in Ctx
  BY Facts
<1>2. ctx[p].user \in User /\ pc[p] \in {"findUser", "againUser"}
  BY <1>1 DEF FindUser, CapturedAt
<1>3. /\ c \in Ctx /\ c.user = ctx[p].user /\ c.secret = ctx[p].secret
      /\ c.hash = ctx[p].hash /\ c.new = ctx[p].new
      /\ c.genuine = ctx[p].genuine
  BY <1>1, <1>2, Facts DEF Ctx
<1>4. Proceed(p, label, c) /\ UNCHANGED <<status, credentials, sessions, salt>>
  BY DEF FindUser
<1> HIDE DEF c
<1>5. RecordedAt(label, c) /\ CapturedAt(label, c) /\ label \in Labels
      /\ label # "createCredential"
  BY <1>1, <1>2, <1>3 DEF RecordedAt, CapturedAt, Labels, IsSecretOf
<1> HIDE DEF label
<1> QED
  BY <1>3, <1>4, <1>5, Onward

LEMMA FindCredentialStep ==
  ASSUME IInv, NEW p \in Worker, FindCredential(p)
  PROVE  IInv'
<1> DEFINE hash == IF ctx[p].status = None THEN None ELSE credentials[ctx[p].user]
           c == [ctx[p] EXCEPT !.hash = hash]
<1>1. pc[p] = "findCredential" /\ CapturedAt(pc[p], ctx[p])
      /\ RecordedAt(pc[p], ctx[p]) /\ ctx[p] \in Ctx
  BY Facts DEF FindCredential
<1>2. ctx[p].user \in User /\ ctx[p].secret \in Secret
  BY <1>1 DEF CapturedAt
<1>3. hash \in Hash \cup {None}
  BY <1>2, Facts
<1>4. hash # None /\ hash.secret = ctx[p].secret => ctx[p].genuine
  BY <1>1 DEF RecordedAt, IsSecretOf
<1>5. Proceed(p, "verify", c) /\ UNCHANGED <<status, credentials, sessions, salt>>
  BY DEF FindCredential
<1>6. IsSecretOf(ctx[p].user, ctx[p].secret) => ctx[p].genuine
  BY <1>1 DEF RecordedAt
<1> HIDE DEF hash
<1>7. /\ c \in Ctx /\ c.user = ctx[p].user /\ c.secret = ctx[p].secret
      /\ c.hash = hash /\ c.genuine = ctx[p].genuine
  BY <1>1, <1>3 DEF Ctx
<1> HIDE DEF c
<1>8. RecordedAt("verify", c) /\ CapturedAt("verify", c) /\ "verify" \in Labels
      /\ "verify" # "createCredential"
  BY <1>2, <1>4, <1>6, <1>7 DEF RecordedAt, CapturedAt, Labels
<1> QED
  BY <1>5, <1>7, <1>8, Onward

LEMMA AuthenticateStep ==
  ASSUME IInv, NEW p \in Worker, Authenticate(p)
  PROVE  IInv'
<1> DEFINE c == ctx[p]
           label == IF NeedsRehash(c.hash) THEN "hash" ELSE "create"
<1>1. pc[p] = "verify" /\ UNCHANGED <<status, credentials, sessions, salt>>
      /\ CapturedAt("verify", c) /\ RecordedAt("verify", c) /\ c \in Ctx
  BY Facts DEF Authenticate
<1>2. CASE Reject(p)
  <2>1. sessions' \subseteq User
    BY <1>1 DEF IInv, TypeOK
  <2> QED
    BY <1>1, <1>2, <2>1, RejectFrame
<1>3. CASE Authenticated(c) /\ Proceed(p, label, c)
  <2>1. c.user \in User /\ c.secret \in Secret /\ c.genuine
    BY <1>1, <1>3 DEF CapturedAt, RecordedAt, Authenticated
  <2>2. c.hash \in Hash /\ c.hash.secret = c.secret
        /\ (NeedsRehash(c.hash) => c.hash.policy = "outdated")
    BY <1>1, <1>3 DEF Authenticated, Ctx, Hash, Policies, NeedsRehash
  <2>3. RecordedAt(label, c) /\ CapturedAt(label, c)
        /\ label \in Labels /\ label # "createCredential"
    BY <2>1, <2>2, HashAssumption DEF RecordedAt, CapturedAt, Labels
  <2> HIDE DEF label
  <2> QED
    BY <1>1, <1>3, <2>3, Onward
<1> QED
  BY <1>2, <1>3 DEF Authenticate

LEMMA NewHashFacts ==
  ASSUME IInv, NEW secret \in Secret
  PROVE  /\ NewHash(secret) \in Hash /\ NewHash(secret) # None
         /\ NewHash(secret).secret = secret
         /\ NewHash(secret).policy = "current"
BY HashAssumption, LoginAssumption DEF NewHash, Hash, Policies, IInv, TypeOK

LEMMA HashPasswordStep ==
  ASSUME IInv, NEW p \in Worker, HashPassword(p)
  PROVE  IInv'
<1> DEFINE new == NewHash(ctx[p].secret)
           c == [ctx[p] EXCEPT !.new = new]
<1>1. /\ pc[p] = "hash" /\ Proceed(p, "swap", c)
      /\ salt < MaxSalt /\ salt' = salt + 1
      /\ UNCHANGED <<status, credentials, sessions>>
  BY DEF HashPassword
<1>2. CapturedAt("hash", ctx[p]) /\ RecordedAt("hash", ctx[p]) /\ ctx[p] \in Ctx
  BY <1>1, Facts
<1>3. ctx[p].user \in User /\ ctx[p].secret \in Secret
  BY <1>2 DEF CapturedAt
<1>4. new \in Hash /\ new # None /\ new.secret = ctx[p].secret
      /\ new.policy = "current"
  BY <1>3, NewHashFacts
<1> HIDE DEF new
<1>5. /\ c \in Ctx /\ c.user = ctx[p].user /\ c.secret = ctx[p].secret
      /\ c.hash = ctx[p].hash /\ c.new = new /\ c.genuine = ctx[p].genuine
  BY <1>2, <1>4 DEF Ctx
<1> HIDE DEF c
<1>6. RecordedAt("swap", c) /\ CapturedAt("swap", c) /\ "swap" \in Labels
      /\ "swap" # "createCredential"
  BY <1>2, <1>3, <1>4, <1>5 DEF RecordedAt, CapturedAt, Labels
<1> QED
  BY <1>1, <1>5, <1>6, Onward

LEMMA FindCredentialAgainStep ==
  ASSUME IInv, NEW p \in Worker, FindCredentialAgain(p)
  PROVE  IInv'
<1>1. /\ pc[p] = "againCredential" /\ UNCHANGED <<status, credentials, sessions, salt>>
      /\ Proceed(p, "create", ctx[p]) \/ Reject(p)
  BY DEF FindCredentialAgain
<1>2. CapturedAt("againCredential", ctx[p]) /\ RecordedAt("againCredential", ctx[p])
      /\ ctx[p] \in Ctx /\ sessions \subseteq User
  BY <1>1, Facts DEF IInv, TypeOK
<1>3. RecordedAt("create", ctx[p]) /\ CapturedAt("create", ctx[p])
      /\ "create" \in Labels /\ "create" # "createCredential"
  BY <1>2 DEF RecordedAt, CapturedAt, Labels
<1> QED
  BY <1>1, <1>2, <1>3, Onward, RejectFrame

LEMMA CreateSessionStep ==
  ASSUME IInv, NEW p \in Worker, CreateSession(p)
  PROVE  IInv'
<1>1. ctx[p].user \in User
  BY Facts DEF CreateSession, CapturedAt
<1>2. sessions' \subseteq User
  BY <1>1 DEF CreateSession, IInv, TypeOK
<1> QED
  BY <1>2, RejectFrame DEF CreateSession

\* Writing a hash of the password that was stored changes nobody's secret.
LEMMA SwapStep ==
  ASSUME IInv, NEW p \in Worker, ReplacePasswordHashIfCurrent(p)
  PROVE  IInv'
<1> DEFINE u == ctx[p].user
           c == ctx[p]
<1>1. /\ pc[p] = "swap" /\ UNCHANGED <<status, sessions, salt>>
      /\ CapturedAt("swap", c) /\ RecordedAt("swap", c) /\ c \in Ctx
  BY Facts DEF ReplacePasswordHashIfCurrent
<1>2. /\ u \in User /\ c.secret \in Secret /\ c.genuine
      /\ c.hash # None /\ c.hash.secret = c.secret
      /\ c.new \in Hash /\ c.new # None /\ c.new.secret = c.secret
  BY <1>1 DEF CapturedAt, RecordedAt, Ctx
<1>3. CASE Proceed(p, "againUser", c) /\ UNCHANGED credentials
  <2>1. RecordedAt("againUser", c) /\ CapturedAt("againUser", c)
        /\ "againUser" \in Labels /\ "againUser" # "createCredential"
    BY <1>1 DEF RecordedAt, CapturedAt, Labels
  <2> HIDE DEF c
  <2> QED
    BY <1>1, <1>3, <2>1, Onward
<1>4. CASE /\ credentials[u] = c.hash
           /\ credentials' = [credentials EXCEPT ![u] = c.new]
           /\ Proceed(p, "create", c)
  <2>1. \A v \in User : /\ credentials'[v] \in Hash \cup {None}
                        /\ credentials[v] = None <=> credentials'[v] = None
                        /\ credentials[v] # None =>
                             credentials'[v].secret = credentials[v].secret
    BY <1>2, <1>4, Facts
  <2>2. /\ pc' \in [Worker -> Labels] /\ ctx' \in [Worker -> Ctx]
        /\ pc'[p] = "create" /\ ctx'[p] = c
        /\ \A q \in Worker \ {p} : pc'[q] = pc[q] /\ ctx'[q] = ctx[q]
    BY <1>1, <1>4, ProceedType DEF Labels
  <2>3. TypeOK'
    BY <1>1, <1>2, <1>4, <2>2 DEF IInv, TypeOK
  <2>4. RecordedAt("create", ctx[p])' /\ CapturedAt("create", c)
    BY <1>1, <1>2, <2>2 DEF RecordedAt, CapturedAt
  <2>5. ASSUME NEW q \in Worker \ {p}
        PROVE  RecordedAt(pc[q], ctx[q])'
    <3>1. pc[q] # "idle" => ctx[q].user \in User
      BY Facts DEF CapturedAt
    <3> QED
      BY <2>1, <2>2, <3>1, Facts DEF RecordedAt, IsSecretOf
  <2>6. \A q \in Worker : RecordedAt(pc[q], ctx[q])' /\ CapturedAt(pc[q], ctx[q])'
    BY <1>1, <2>2, <2>4, <2>5, Facts DEF RecordedAt, CapturedAt
  <2>7. CreatingApart' /\ \A v \in User : status'[v] = None => credentials'[v] = None
    BY <1>1, <2>1, <2>2 DEF IInv, CreatingApart
  <2> QED
    BY <2>3, <2>6, <2>7 DEF IInv
<1> QED
  BY <1>3, <1>4 DEF ReplacePasswordHashIfCurrent, StillExpected

LEMMA FailStep ==
  ASSUME IInv, NEW lost \in SUBSET Worker, Fail(lost)
  PROVE  IInv'
<1>1. \A q \in Worker : /\ q \in lost => pc'[q] = "idle" /\ ctx'[q] = NoCtx
                        /\ q \notin lost => pc'[q] = pc[q] /\ ctx'[q] = ctx[q]
  BY DEF Fail
<1>2. pc' \in [Worker -> Labels] /\ ctx' \in [Worker -> Ctx]
  BY NoCtxFacts DEF Fail, IInv, TypeOK
<1>3. TypeOK'
  BY <1>2 DEF Fail, IInv, TypeOK
<1>4. \A q \in Worker : RecordedAt(pc[q], ctx[q])' /\ CapturedAt(pc[q], ctx[q])'
  BY <1>1, Facts, NoCtxFacts DEF RecordedAt, CapturedAt, IsSecretOf, Fail
<1>5. CreatingApart'
  BY <1>1 DEF Fail, IInv, CreatingApart
<1> QED
  BY <1>3, <1>4, <1>5 DEF IInv, Fail

----------------------------------------------------------------------------
(* Provisioning *)

LEMMA ProvisionStep ==
  ASSUME IInv, NEW p \in Worker, NEW u \in User, NEW secret \in Secret,
         Provision(p, u, secret)
  PROVE  IInv'
<1> DEFINE c == [NoCtx EXCEPT !.user = u, !.secret = secret]
<1>1. c \in Ctx /\ c.user = u /\ c.secret = secret
  BY NoCtxFacts DEF Ctx
<1>2. Proceed(p, "findExisting", c) /\ UNCHANGED <<status, credentials, sessions, salt>>
  BY DEF Provision
<1> HIDE DEF c
<1>3. RecordedAt("findExisting", c) /\ CapturedAt("findExisting", c)
      /\ "findExisting" \in Labels /\ "findExisting" # "createCredential"
  BY <1>1 DEF RecordedAt, CapturedAt, Labels
<1> QED
  BY <1>1, <1>2, <1>3, Onward

LEMMA FindExistingStep ==
  ASSUME IInv, NEW p \in Worker, FindExisting(p)
  PROVE  IInv'
<1>1. /\ pc[p] = "findExisting" /\ UNCHANGED <<status, credentials, sessions, salt>>
      /\ Proceed(p, "hashNew", ctx[p]) \/ Reject(p)
  BY DEF FindExisting
<1>2. CapturedAt("findExisting", ctx[p]) /\ ctx[p] \in Ctx /\ sessions \subseteq User
  BY <1>1, Facts DEF IInv, TypeOK
<1>3. RecordedAt("hashNew", ctx[p]) /\ CapturedAt("hashNew", ctx[p])
      /\ "hashNew" \in Labels /\ "hashNew" # "createCredential"
  BY <1>2 DEF RecordedAt, CapturedAt, Labels
<1> QED
  BY <1>1, <1>2, <1>3, Onward, RejectFrame

LEMMA HashNewStep ==
  ASSUME IInv, NEW p \in Worker, HashNew(p)
  PROVE  IInv'
<1> DEFINE new == NewHash(ctx[p].secret)
           c == [ctx[p] EXCEPT !.new = new]
<1>1. /\ pc[p] = "hashNew" /\ Proceed(p, "createUser", c)
      /\ salt < MaxSalt /\ salt' = salt + 1
      /\ UNCHANGED <<status, credentials, sessions>>
  BY DEF HashNew
<1>2. ctx[p].user \in User /\ ctx[p].secret \in Secret /\ ctx[p] \in Ctx
  BY <1>1, Facts DEF CapturedAt
<1>3. new \in Hash /\ new # None /\ new.secret = ctx[p].secret
      /\ new.policy = "current"
  BY <1>2, NewHashFacts
<1> HIDE DEF new
<1>4. c \in Ctx /\ c.user = ctx[p].user /\ c.secret = ctx[p].secret /\ c.new = new
  BY <1>2, <1>3 DEF Ctx
<1> HIDE DEF c
<1>5. RecordedAt("createUser", c) /\ CapturedAt("createUser", c)
      /\ "createUser" \in Labels /\ "createUser" # "createCredential"
  BY <1>2, <1>3, <1>4 DEF RecordedAt, CapturedAt, Labels
<1> QED
  BY <1>1, <1>4, <1>5, Onward

\* The e-mail is free, and no other transaction is about to take it.
LEMMA CreateUserStep ==
  ASSUME IInv, NEW p \in Worker, CreateUser(p)
  PROVE  IInv'
<1> DEFINE u == ctx[p].user
<1>1. /\ pc[p] = "createUser" /\ ~Creating(u)
      /\ UNCHANGED <<status, credentials, sessions, salt>>
  BY DEF CreateUser
<1>2. CASE Reject(p)
  BY <1>1, <1>2, RejectFrame DEF IInv, TypeOK
<1>3. CASE status[u] = None /\ Proceed(p, "createCredential", ctx[p])
  <2>1. /\ pc' \in [Worker -> Labels] /\ ctx' = ctx
        /\ pc'[p] = "createCredential"
        /\ \A q \in Worker \ {p} : pc'[q] = pc[q]
    BY <1>3 DEF Proceed, IInv, TypeOK, Labels
  <2>2. TypeOK'
    BY <1>1, <2>1 DEF IInv, TypeOK
  <2>3. CapturedAt("createUser", ctx[p])
    BY <1>1, Facts
  <2>4. CapturedAt("createCredential", ctx[p])
    BY <2>3 DEF CapturedAt
  <2>5. RecordedAt("createCredential", ctx[p])'
    BY DEF RecordedAt
  <2>6. \A q \in Worker : RecordedAt(pc[q], ctx[q])' /\ CapturedAt(pc[q], ctx[q])'
    BY <1>1, <2>1, <2>4, <2>5, Facts DEF RecordedAt, CapturedAt, IsSecretOf
  <2>7. CreatingApart'
    BY <1>1, <1>3, <2>1 DEF IInv, CreatingApart, Creating
  <2> QED
    BY <1>1, <2>2, <2>6, <2>7 DEF IInv
<1> QED
  BY <1>2, <1>3 DEF CreateUser

----------------------------------------------------------------------------
(* Changes of a credential that vouch for its password *)

\* Whoever writes a new hash records it in the logins in flight.
LEMMA VouchedWrite ==
  ASSUME IInv, NEW u \in User, NEW secret \in Secret, NEW new \in Hash,
         new.secret = secret,
         credentials' = [credentials EXCEPT ![u] = new],
         NEW q \in Worker, pc'[q] = pc[q], ctx'[q] = Vouched(u, secret)[q]
  PROVE  /\ ctx'[q] \in Ctx /\ ctx'[q].user = ctx[q].user
         /\ RecordedAt(pc[q], ctx[q])' /\ CapturedAt(pc[q], ctx[q])'
<1>1. /\ ctx[q] \in Ctx /\ RecordedAt(pc[q], ctx[q]) /\ CapturedAt(pc[q], ctx[q])
      /\ credentials \in [User -> Hash \cup {None}]
  BY Facts
<1>2. ctx'[q] = IF ctx[q].user = u /\ ctx[q].secret = secret
        THEN [ctx[q] EXCEPT !.genuine = TRUE] ELSE ctx[q]
  BY DEF Vouched
<1>3. /\ ctx'[q] \in Ctx
      /\ ctx'[q].user = ctx[q].user /\ ctx'[q].secret = ctx[q].secret
      /\ ctx'[q].hash = ctx[q].hash /\ ctx'[q].new = ctx[q].new
      /\ ctx[q].genuine => ctx'[q].genuine
      /\ ctx[q].user = u /\ ctx[q].secret = secret => ctx'[q].genuine
  BY <1>1, <1>2 DEF Ctx
<1>4. CapturedAt(pc[q], ctx[q])'
  BY <1>1, <1>3 DEF CapturedAt
<1>5. pc[q] # "idle" => (IsSecretOf(ctx[q].user, ctx[q].secret)' =>
        IsSecretOf(ctx[q].user, ctx[q].secret) \/ ctx'[q].genuine)
  BY <1>1, <1>3 DEF IsSecretOf, CapturedAt
<1>6. RecordedAt(pc[q], ctx[q])'
  BY <1>1, <1>3, <1>5 DEF RecordedAt
<1> QED
  BY <1>3, <1>4, <1>6

LEMMA CreateCredentialStep ==
  ASSUME IInv, NEW p \in Worker, CreateCredential(p)
  PROVE  IInv'
<1> DEFINE u == ctx[p].user
           secret == ctx[p].secret
           new == ctx[p].new
<1>1. /\ pc[p] = "createCredential" /\ UNCHANGED <<sessions, salt>>
      /\ status' = [status EXCEPT ![u] = "Active"]
      /\ credentials' = [credentials EXCEPT ![u] = new]
      /\ pc' = [pc EXCEPT ![p] = "idle"]
      /\ ctx' = [Vouched(u, secret) EXCEPT ![p] = NoCtx]
  BY DEF CreateCredential
<1>2. /\ u \in User /\ secret \in Secret /\ new \in Hash /\ new.secret = secret
  BY <1>1, Facts DEF CapturedAt, Ctx
<1>3. /\ pc'[p] = "idle" /\ ctx'[p] = NoCtx
      /\ \A q \in Worker \ {p} : pc'[q] = pc[q] /\ ctx'[q] = Vouched(u, secret)[q]
  BY <1>1 DEF Vouched, IInv, TypeOK
<1> HIDE DEF u, secret, new
<1>4. \A q \in Worker \ {p} : /\ ctx'[q] \in Ctx /\ ctx'[q].user = ctx[q].user
                             /\ RecordedAt(pc[q], ctx[q])' /\ CapturedAt(pc[q], ctx[q])'
  BY <1>1, <1>2, <1>3, VouchedWrite
<1>5. RecordedAt(pc[p], ctx[p])' /\ CapturedAt(pc[p], ctx[p])'
  BY <1>3 DEF RecordedAt, CapturedAt
<1>6. TypeOK'
  <2>1. pc' \in [Worker -> Labels] /\ status' \in [User -> {"Active", "Disabled", None}]
        /\ credentials' \in [User -> Hash \cup {None}]
    BY <1>1, <1>2, NoCtxFacts DEF IInv, TypeOK
  <2>2. ctx' = [q \in Worker |-> ctx'[q]]
    BY <1>1 DEF Vouched
  <2>3. \A q \in Worker : ctx'[q] \in Ctx
    BY <1>3, <1>4, NoCtxFacts
  <2> QED
    BY <1>1, <2>1, <2>2, <2>3 DEF IInv, TypeOK
<1>7. \A v \in User : status'[v] = None => credentials'[v] = None
  BY <1>1, <1>2, HashAssumption, Facts DEF IInv
<1>8. CreatingApart'
  <2>1. \A q \in Worker \ {p} : pc[q] = "createCredential" => ctx[q].user # u
    BY <1>1 DEF IInv, CreatingApart, u
  <2> QED
    BY <1>1, <1>3, <1>4, <2>1, Facts DEF IInv, CreatingApart
<1> QED
  BY <1>4, <1>5, <1>6, <1>7, <1>8 DEF IInv

LEMMA ChangePasswordStep ==
  ASSUME IInv, NEW u \in User, NEW secret \in Secret, ChangePassword(u, secret)
  PROVE  IInv'
<1> DEFINE new == NewHash(secret)
<1>1. /\ status[u] # None /\ salt < MaxSalt /\ salt' = salt + 1
      /\ credentials' = [credentials EXCEPT ![u] = new]
      /\ ctx' = Vouched(u, secret)
      /\ UNCHANGED <<status, sessions, pc>>
  BY DEF ChangePassword
<1>2. new \in Hash /\ new.secret = secret
  BY NewHashFacts
<1> HIDE DEF new
<1>3. \A q \in Worker : /\ ctx'[q] \in Ctx /\ ctx'[q].user = ctx[q].user
                       /\ RecordedAt(pc[q], ctx[q])' /\ CapturedAt(pc[q], ctx[q])'
  BY <1>1, <1>2, VouchedWrite
<1>4. TypeOK'
  <2>1. credentials' \in [User -> Hash \cup {None}] /\ salt' \in 0 .. MaxSalt
    BY <1>1, <1>2, LoginAssumption DEF IInv, TypeOK
  <2>2. ctx' = [q \in Worker |-> ctx'[q]]
    BY <1>1 DEF Vouched
  <2> QED
    BY <1>1, <1>3, <2>1, <2>2 DEF IInv, TypeOK
<1>5. \A v \in User : status'[v] = None => credentials'[v] = None
  BY <1>1, Facts DEF IInv
<1>6. CreatingApart'
  BY <1>1, <1>3 DEF IInv, CreatingApart
<1> QED
  BY <1>3, <1>4, <1>5, <1>6 DEF IInv

\* Disabling and revoking touch nothing a login has captured.
LEMMA OperatorStep ==
  ASSUME IInv, NEW u \in User, DisableUser(u) \/ RevokeAll(u)
  PROVE  IInv'
<1>1. UNCHANGED <<credentials, salt, pc, ctx>> /\ sessions' \subseteq User
  BY DEF DisableUser, RevokeAll, IInv, TypeOK
<1>2. status' \in [User -> {"Active", "Disabled", None}]
      /\ \A v \in User : status'[v] = None <=> status[v] = None
  BY HashAssumption DEF DisableUser, RevokeAll, IInv, TypeOK
<1>3. TypeOK' /\ \A v \in User : status'[v] = None => credentials'[v] = None
  BY <1>1, <1>2 DEF IInv, TypeOK
<1>4. \A q \in Worker : RecordedAt(pc[q], ctx[q])' /\ CapturedAt(pc[q], ctx[q])'
  BY <1>1, Facts DEF RecordedAt, CapturedAt, IsSecretOf
<1>5. CreatingApart'
  BY <1>1, <1>2, Facts DEF IInv, CreatingApart, CapturedAt
<1> QED
  BY <1>3, <1>4, <1>5 DEF IInv

----------------------------------------------------------------------------
(* The invariant *)

LEMMA InitInvariant == Init => IInv
<1> SUFFICES ASSUME Init PROVE IInv
  OBVIOUS
<1>1. \A p \in Worker : pc[p] = "idle" /\ ctx[p] = NoCtx
  BY DEF Init
<1>2. TypeOK
  BY NoCtxFacts, LoginAssumption DEF Init, TypeOK, Hash
<1> QED
  BY <1>1, <1>2, NoCtxFacts DEF Init, IInv, CreatingApart

LEMMA NextInvariant == IInv /\ [Next]_vars => IInv'
<1> SUFFICES ASSUME IInv, [Next]_vars PROVE IInv'
  OBVIOUS
<1>1. CASE UNCHANGED vars
  BY <1>1 DEF vars, IInv, TypeOK, CreatingApart, RecordedAt, CapturedAt, IsSecretOf
<1>2. ASSUME NEW p \in Worker, Step(p)
      PROVE  IInv'
  BY <1>2, FindUserStep, FindCredentialStep, AuthenticateStep, HashPasswordStep,
     SwapStep, FindCredentialAgainStep, CreateSessionStep, FindExistingStep,
     HashNewStep, CreateUserStep, CreateCredentialStep DEF Step
<1> QED
  BY <1>1, <1>2, ExecuteStep, ProvisionStep, FailStep, ChangePasswordStep,
     OperatorStep DEF Next

LEMMA Invariance == Spec => []IInv
BY InitInvariant, NextInvariant, PTL DEF Spec

\* Whatever a process does is a step of the logins and provisionings it runs, or
\* none: what is shown of Login holds of the processes.
THEOREM ProcessesRunLogins == ProcessSpec => Spec
<1>1. ProcessInit => Init
  BY DEF ProcessInit
<1>2. [ProcessNext]_processVars => [Next]_vars
  <2> SUFFICES ASSUME [ProcessNext]_processVars PROVE [Next]_vars
    OBVIOUS
  <2>1. CASE UNCHANGED processVars
    BY <2>1 DEF processVars
  <2>2. ASSUME NEW p \in Process, Start(p) \/ Starting(p) \/ Finally(p)
        PROVE  UNCHANGED vars
    BY <2>2 DEF Start, Starting, Finally
  <2>3. ASSUME NEW p \in Process, Lose(p)
        PROVE  [Next]_vars
    BY <2>3 DEF Lose, InFlight, Next
  <2>4. ASSUME NEW p \in Worker, Serve(p) \/ Provisioning(p)
        PROVE  Next
    BY <2>4 DEF Serve, Provisioning, Next
  <2>5. Operate => Next
    BY DEF Operate, Next
  <2>6. Alter => UNCHANGED vars
    BY DEF Alter
  <2> QED
    BY <2>1, <2>2, <2>3, <2>4, <2>5, <2>6 DEF ProcessNext
<1> QED
  BY <1>1, <1>2, PTL DEF ProcessSpec, Spec

----------------------------------------------------------------------------
(* What the runs check *)

\* A login or a provisioning under way is moved by its own step, or fails.
LEMMA Movers ==
  ASSUME IInv, Next, NEW p \in Worker, pc[p] # "idle", pc'[p] # pc[p]
  PROVE  \/ Step(p)
         \/ pc'[p] = "idle" /\ UNCHANGED <<status, credentials>>
<1>0. pc \in [Worker -> Labels]
  BY DEF IInv, TypeOK
<1>1. ASSUME NEW q \in Worker \ {p}, NEW label, NEW c, Proceed(q, label, c)
      PROVE  pc'[p] = pc[p]
  BY <1>0, <1>1 DEF Proceed
<1>2. ASSUME NEW q \in Worker, Step(q)
      PROVE  Step(p)
  <2> SUFFICES ASSUME q # p PROVE pc'[p] = pc[p]
    BY <1>2
  <2>1. CASE CreateCredential(q)
    BY <1>0, <2>1 DEF CreateCredential
  <2> QED
    BY <1>1, <1>2, <2>1 DEF Step, FindUser, FindCredential, Authenticate, HashPassword,
       ReplacePasswordHashIfCurrent, FindCredentialAgain, CreateSession, FindExisting,
       HashNew, CreateUser, Reject
<1>3. ASSUME NEW q \in Worker, NEW u \in User, NEW secret \in Secret,
             Execute(q, u, secret) \/ Provision(q, u, secret)
      PROVE  pc'[p] = pc[p]
  BY <1>1, <1>3 DEF Execute, Provision
<1>4. ASSUME NEW lost \in SUBSET Worker, Fail(lost)
      PROVE  pc'[p] = "idle" /\ UNCHANGED <<status, credentials>>
  BY <1>4 DEF Fail
<1>5. ASSUME NEW u \in User, DisableUser(u) \/ RevokeAll(u)
      PROVE  pc'[p] = pc[p]
  BY <1>5 DEF DisableUser, RevokeAll
<1>6. ASSUME NEW u \in User, NEW secret \in Secret, ChangePassword(u, secret)
      PROVE  pc'[p] = pc[p]
  BY <1>6 DEF ChangePassword
<1> QED
  BY <1>2, <1>3, <1>4, <1>5, <1>6 DEF Next

LEMMA SwapIsTheStep ==
  ASSUME NEW p \in Worker, Step(p), pc[p] = "swap"
  PROVE  ReplacePasswordHashIfCurrent(p)
BY DEF Step, FindUser, FindCredential, Authenticate, HashPassword, FindCredentialAgain,
   CreateSession, FindExisting, HashNew, CreateUser, CreateCredential

\* Every session is created for a password that was the user's at some moment
\* since its login began, for any number of logins, users and changes.
THEOREM SessionsAuthenticated == ProcessSpec => SessionsAreAuthenticated
<1>1. IInv => \A p \in Worker : pc[p] = "create" => ctx[p].genuine
  BY Facts DEF RecordedAt
<1> QED
  BY <1>1, Invariance, ProcessesRunLogins, PTL DEF SessionsAreAuthenticated

\* No login undoes a change of password, whatever races with its hashing.
THEOREM RehashKeeps == ProcessSpec => RehashKeepsPassword
<1> DEFINE Keeps(p, u) ==
      pc[p] = "swap" /\ pc'[p] # "swap" /\ credentials'[u] # credentials[u] =>
        /\ credentials[u] # None /\ credentials[u].policy = "outdated"
        /\ credentials'[u].secret = credentials[u].secret
        /\ credentials'[u].policy = "current"
<1>1. ASSUME IInv, [Next]_vars, NEW p \in Worker, NEW u \in User
      PROVE  Keeps(p, u)
  <2> SUFFICES ASSUME pc[p] = "swap", pc'[p] # "swap",
                      credentials'[u] # credentials[u]
               PROVE  /\ credentials[u] # None /\ credentials[u].policy = "outdated"
                      /\ credentials'[u].secret = credentials[u].secret
                      /\ credentials'[u].policy = "current"
    OBVIOUS
  <2>1. Next
    BY <1>1 DEF vars
  <2>2. ReplacePasswordHashIfCurrent(p)
    BY <1>1, <2>1, Movers, SwapIsTheStep
  <2>3. /\ credentials[ctx[p].user] = ctx[p].hash
        /\ credentials' = [credentials EXCEPT ![ctx[p].user] = ctx[p].new]
    BY <2>2 DEF ReplacePasswordHashIfCurrent, StillExpected
  <2>4. CapturedAt("swap", ctx[p]) /\ credentials \in [User -> Hash \cup {None}]
    BY <1>1, Facts
  <2>5. u = ctx[p].user /\ credentials'[u] = ctx[p].new
    BY <2>3, <2>4
  <2> QED
    BY <2>3, <2>4, <2>5 DEF CapturedAt
<1>2. IInv /\ [Next]_vars => [\A p \in Worker, u \in User : Keeps(p, u)]_vars
  BY <1>1
<1> QED
  BY <1>2, Invariance, ProcessesRunLogins, PTL DEF Spec, RehashKeepsPassword

\* A login that raced for the hash goes on only while the stored one is of its
\* password.
THEOREM LostSwapCloses == ProcessSpec => LostSwapFailsClosed
<1> DEFINE Closes(p) ==
      pc[p] \in {"swap", "againCredential"} /\ pc'[p] = "create" =>
        /\ credentials'[ctx[p].user] # None
        /\ credentials'[ctx[p].user].secret = ctx[p].secret
<1>1. ASSUME IInv, [Next]_vars, NEW p \in Worker
      PROVE  Closes(p)
  <2> SUFFICES ASSUME pc[p] \in {"swap", "againCredential"}, pc'[p] = "create"
               PROVE  /\ credentials'[ctx[p].user] # None
                      /\ credentials'[ctx[p].user].secret = ctx[p].secret
    OBVIOUS
  <2>1. Step(p)
    BY <1>1, Movers DEF vars
  <2>2. CapturedAt(pc[p], ctx[p]) /\ credentials \in [User -> Hash \cup {None}]
        /\ pc \in [Worker -> Labels]
    BY <1>1, Facts DEF IInv, TypeOK
  <2>3. CASE pc[p] = "swap"
    <3>1. /\ credentials[ctx[p].user] = ctx[p].hash
          /\ credentials' = [credentials EXCEPT ![ctx[p].user] = ctx[p].new]
      BY <2>1, <2>2, <2>3, SwapIsTheStep
         DEF ReplacePasswordHashIfCurrent, StillExpected, Proceed
    <3> QED
      BY <2>2, <2>3, <3>1 DEF CapturedAt
  <2>4. CASE pc[p] = "againCredential"
    <3>1. FindCredentialAgain(p)
      BY <2>1, <2>4 DEF Step, FindUser, FindCredential, Authenticate, HashPassword,
         ReplacePasswordHashIfCurrent, CreateSession, FindExisting, HashNew, CreateUser,
         CreateCredential
    <3>2. credentials[ctx[p].user] \in {ctx[p].hash, ctx[p].new}
          /\ UNCHANGED credentials
      BY <2>2, <3>1 DEF FindCredentialAgain, Acceptable, Reject, Proceed
    <3> QED
      BY <2>2, <2>4, <3>2 DEF CapturedAt
  <2> QED
    BY <2>3, <2>4
<1>2. IInv /\ [Next]_vars => [\A p \in Worker : Closes(p)]_vars
  BY <1>1
<1> QED
  BY <1>2, Invariance, ProcessesRunLogins, PTL DEF Spec, LostSwapFailsClosed

\* However many provisionings of an e-mail run, one creates the user, with its
\* own credential, and none overwrites one.
THEOREM ProvisionsOnce == ProcessSpec => ProvisionedOnce
<1> DEFINE Once(u) ==
      /\ status[u] = None /\ status'[u] # None =>
           \E p \in Worker : ctx[p].user = u /\ ctx[p].new # None
             /\ credentials'[u] = ctx[p].new
      /\ (\E p \in Worker : ctx[p].user = u
             /\ pc[p] = "createCredential" /\ pc'[p] # pc[p]) =>
           credentials[u] \in {None, credentials'[u]}
<1>1. ASSUME IInv, Next, NEW u \in User, status[u] = None, status'[u] # None
      PROVE  \E p \in Worker : ctx[p].user = u /\ ctx[p].new # None
               /\ credentials'[u] = ctx[p].new
  <2>1. PICK p \in Worker : CreateCredential(p)
    BY <1>1, HashAssumption DEF Next, Step, Execute, Provision, FindUser, FindCredential,
       Authenticate, HashPassword, ReplacePasswordHashIfCurrent, FindCredentialAgain,
       CreateSession, FindExisting, HashNew, CreateUser, Fail, DisableUser, RevokeAll,
       ChangePassword, IInv, TypeOK
  <2>2. CapturedAt("createCredential", ctx[p])
    BY <1>1, <2>1, Facts DEF CreateCredential
  <2>3. ctx[p].user = u
    BY <1>1, <2>1 DEF CreateCredential, IInv, TypeOK
  <2>4. credentials'[u] = ctx[p].new
    BY <1>1, <2>1, <2>3 DEF CreateCredential, IInv, TypeOK
  <2> QED
    BY <2>2, <2>3, <2>4 DEF CapturedAt
<1>2. ASSUME IInv, Next, NEW p \in Worker, NEW u \in User, ctx[p].user = u,
             pc[p] = "createCredential", pc'[p] # pc[p]
      PROVE  credentials[u] \in {None, credentials'[u]}
  <2>1. CASE Step(p)
    BY <1>2, <2>1 DEF IInv, CreatingApart
  <2> QED
    BY <1>2, <2>1, Movers
<1>3. IInv /\ [Next]_vars => [\A u \in User : Once(u)]_vars
  BY <1>1, <1>2
<1> QED
  BY <1>3, Invariance, ProcessesRunLogins, PTL DEF Spec, ProvisionedOnce

----------------------------------------------------------------------------
(* The processes *)

\* The state of the clients and processes, without what they run.
ProcessType ==
  /\ phase \in [Process -> Phases]
  /\ step \in [Process -> {"none", "connect", "verify", "release", "disconnect"}]
  /\ pool \in [Process -> BOOLEAN]
  /\ connected \in [Process -> BOOLEAN]
  /\ verified \in [Process -> BOOLEAN]

LEMMA TypeFacts ==
  ASSUME ProcessIInv
  PROVE  ProcessType /\ pc \in [Worker -> Labels]
BY DEF ProcessIInv, ProcessType

\* A step of one process leaves what the others hold.
Apart(p) ==
  \A q \in Process \ {p} :
    /\ phase'[q] = phase[q] /\ step'[q] = step[q] /\ pool'[q] = pool[q]
    /\ connected'[q] = connected[q] /\ verified'[q] = verified[q]

LEMMA OneProcess ==
  ASSUME ProcessIInv, NEW p \in Process, Apart(p), PhaseOf(p)'
  PROVE  \A q \in Process : PhaseOf(q)'
BY DEF ProcessIInv, Apart, PhaseOf

\* A step that starts, opens or closes a client runs no login, and a running
\* process is not at one of them.
LEMMA OutsideStep ==
  ASSUME ProcessIInv, NEW p \in Process, Apart(p), ProcessType', PhaseOf(p)',
         UNCHANGED vars, phase[p] # "running",
         p \in Worker /\ pc[p] # "idle" => phase'[p] = phase[p]
  PROVE  ProcessIInv'
<1>1. pc' = pc
  BY DEF vars
<1>2. ASSUME NEW w \in Worker
      PROVE  RunsInside(w)'
  BY <1>1, ApiAssumption DEF ProcessIInv, RunsInside, Apart, Process
<1> QED
  BY <1>1, <1>2, OneProcess DEF ProcessIInv, ProcessType

LEMMA StartStep ==
  ASSUME ProcessIInv, NEW p \in Process, Start(p)
  PROVE  ProcessIInv'
<1>1. ProcessType' /\ Apart(p)
  BY TypeFacts DEF ProcessType, Apart, Start, Enter, Phases, Client!Connect, Client!At
<1>2. PhaseOf(p)'
  BY TypeFacts DEF ProcessIInv, ProcessType, PhaseOf, Start, Enter, Client!Connect,
     Client!At
<1> QED
  BY <1>1, <1>2, OutsideStep DEF Start

LEMMA StartingStep ==
  ASSUME ProcessIInv, NEW p \in Process, Starting(p)
  PROVE  ProcessIInv'
<1>0. phase[p] = "starting" /\ PhaseOf(p) /\ ProcessType
  BY TypeFacts DEF Starting, ProcessIInv
<1>1. ProcessType' /\ Apart(p) /\ PhaseOf(p)'
  <2>1. CASE Client!Open(p) /\ Enter(p, IF connected'[p] THEN "running" ELSE "starting")
    BY <1>0, <2>1 DEF ProcessType, Apart, Enter, Phases, PhaseOf, Client!Open, Client!At
  <2>2. CASE Client!Verify(p) /\ Enter(p, IF connected'[p] THEN "running" ELSE "starting")
    <3>0. UNCHANGED pool
      BY <2>2 DEF Client!Verify
    <3>1. CASE /\ Client!At(p, "verify", "none")
               /\ connected' = [connected EXCEPT ![p] = TRUE]
               /\ verified' = [verified EXCEPT ![p] = TRUE]
      <4>1. pool[p]
        BY <1>0, <3>1 DEF PhaseOf, Client!At
      <4>2. phase' = [phase EXCEPT ![p] = "running"]
        BY <1>0, <2>2, <3>1 DEF ProcessType, Enter
      <4> QED
        BY <1>0, <3>0, <3>1, <4>1, <4>2 DEF ProcessType, Apart, Phases, PhaseOf, Client!At
    <3>2. CASE Client!At(p, "verify", "release") /\ UNCHANGED <<connected, verified>>
      BY <1>0, <2>2, <3>0, <3>2 DEF ProcessType, Apart, Enter, Phases, PhaseOf, Client!At
    <3> QED
      BY <2>2, <3>1, <3>2 DEF Client!Verify
  <2>3. CASE Client!Release(p) /\ Enter(p, IF p = Api THEN "none" ELSE "finally")
    BY <1>0, <2>3 DEF ProcessType, Apart, Enter, Phases, PhaseOf, Client!Release, Client!At
  <2> QED
    BY <2>1, <2>2, <2>3 DEF Starting, Enter
<1>2. p \in Worker => pc[p] = "idle"
  BY <1>0 DEF ProcessIInv, RunsInside
<1> QED
  BY <1>0, <1>1, <1>2, OutsideStep DEF Starting

LEMMA FinallyStep ==
  ASSUME ProcessIInv, NEW p \in Process, Finally(p)
  PROVE  ProcessIInv'
<1>0. phase[p] = "finally" /\ PhaseOf(p) /\ ProcessType
  BY TypeFacts DEF Finally, ProcessIInv
<1>1. ProcessType' /\ Apart(p) /\ PhaseOf(p)'
  <2>1. CASE Client!Disconnect(p) /\ UNCHANGED phase
    BY <1>0, <2>1 DEF ProcessType, Apart, PhaseOf, Client!Disconnect, Client!At
  <2>2. CASE Client!Close(p) /\ Enter(p, "none")
    BY <1>0, <2>2 DEF ProcessType, Apart, Enter, Phases, PhaseOf, Client!Close, Client!At
  <2>3. CASE ~connected[p] /\ Enter(p, "none") /\ UNCHANGED clientVars
    BY <1>0, <2>3 DEF ProcessType, Apart, Enter, Phases, PhaseOf, clientVars
  <2> QED
    BY <2>1, <2>2, <2>3 DEF Finally
<1>2. p \in Worker => pc[p] = "idle"
  BY <1>0 DEF ProcessIInv, RunsInside
<1> QED
  BY <1>0, <1>1, <1>2, OutsideStep DEF Finally

\* The requests and provisionings in a process are lost with it.
LEMMA LoseStep ==
  ASSUME ProcessIInv, NEW p \in Process, Lose(p)
  PROVE  ProcessIInv'
<1>0. PhaseOf(p) /\ ProcessType /\ pc \in [Worker -> Labels]
  BY TypeFacts DEF ProcessIInv
<1>1. ProcessType' /\ Apart(p) /\ PhaseOf(p)'
  BY <1>0 DEF ProcessType, Apart, Enter, Phases, PhaseOf, Lose, Client!Kill
<1>2. pc' \in [Worker -> Labels]
      /\ \A w \in Worker : pc'[w] # "idle" => pc'[w] = pc[w] /\ w \notin InFlight(p)
  <2>1. CASE InFlight(p) = {}
    BY <1>0, <2>1 DEF Lose, vars
  <2>2. CASE InFlight(p) # {}
    <3>1. InFlight(p) \subseteq Worker
      BY DEF InFlight
    <3> QED
      BY <1>0, <2>2, <3>1 DEF Lose, Fail, Labels
  <2> QED
    BY <2>1, <2>2
<1>3. ASSUME NEW w \in Worker
      PROVE  RunsInside(w)'
  <2> SUFFICES ASSUME pc'[w] # "idle"
               PROVE  phase'[IF phase'[w] = "none" THEN Api ELSE w] = "running"
    BY DEF RunsInside
  <2>1. phase[IF phase[w] = "none" THEN Api ELSE w] = "running"
        /\ (IF phase[w] = "none" THEN Api ELSE w) # p
    BY <1>2 DEF ProcessIInv, RunsInside, InFlight
  <2>2. CASE w = p
    BY <2>1, <2>2 DEF Lose
  <2>3. CASE w # p
    BY <1>1, <2>1, <2>3 DEF Apart, Process
  <2> QED
    BY <2>2, <2>3
<1> QED
  BY <1>1, <1>2, <1>3, OneProcess DEF ProcessIInv, ProcessType

\* A step inside a process that runs leaves every client alone.
LEMMA InsideStep ==
  ASSUME ProcessIInv, IInv', NEW w \in Worker, UNCHANGED clientVars,
         \/ phase[Api] = "running" /\ phase[w] = "none" /\ UNCHANGED phase
         \/ phase[w] = "running"
              /\ Enter(w, IF pc'[w] = "idle" THEN "finally" ELSE "running"),
         \A v \in Worker \ {w} : pc'[v] \in {pc[v], "idle"}
  PROVE  ProcessIInv'
<1>1. pc' \in [Worker -> Labels] /\ ProcessType /\ PhaseOf(w)
      /\ w \in Process /\ w # Api
  BY TypeFacts, ApiAssumption DEF IInv, TypeOK, ProcessIInv, Process
<1>2. ProcessType' /\ Apart(w) /\ PhaseOf(w)'
  BY <1>1 DEF ProcessType, Apart, PhaseOf, Enter, Phases, clientVars
<1>3. ASSUME NEW v \in Worker
      PROVE  RunsInside(v)'
  BY <1>1, <1>2, ApiAssumption DEF ProcessType, ProcessIInv, RunsInside, Apart, Process,
     Enter
<1> QED
  BY <1>1, <1>2, <1>3, OneProcess DEF ProcessIInv, ProcessType

\* A request or a provisioning moves no other.
LEMMA MovesAlone ==
  ASSUME IInv, NEW w \in Worker,
         \/ \E u \in User, secret \in Secret : Execute(w, u, secret) \/ Provision(w, u, secret)
         \/ Step(w)
         \/ Fail({w})
  PROVE  \A v \in Worker \ {w} : pc'[v] \in {pc[v], "idle"}
<1>0. pc \in [Worker -> Labels]
  BY DEF IInv, TypeOK
<1>1. ASSUME NEW label, NEW c, Proceed(w, label, c), NEW v \in Worker \ {w}
      PROVE  pc'[v] = pc[v]
  BY <1>0, <1>1 DEF Proceed
<1>2. ASSUME NEW u \in User, NEW secret \in Secret,
             Execute(w, u, secret) \/ Provision(w, u, secret), NEW v \in Worker \ {w}
      PROVE  pc'[v] = pc[v]
  BY <1>1, <1>2 DEF Execute, Provision
<1>3. ASSUME Step(w), NEW v \in Worker \ {w}
      PROVE  pc'[v] = pc[v]
  <2>1. CASE CreateCredential(w)
    BY <1>0, <2>1 DEF CreateCredential
  <2> QED
    BY <1>1, <1>3, <2>1 DEF Step, FindUser, FindCredential, Authenticate, HashPassword,
       ReplacePasswordHashIfCurrent, FindCredentialAgain, CreateSession, FindExisting,
       HashNew, CreateUser, Reject
<1>4. ASSUME Fail({w}), NEW v \in Worker \ {w}
      PROVE  pc'[v] = pc[v]
  BY <1>4 DEF Fail
<1> QED
  BY <1>2, <1>3, <1>4

LEMMA ServeStep ==
  ASSUME ProcessIInv, IInv, IInv', NEW w \in Worker, Serve(w) \/ Provisioning(w)
  PROVE  ProcessIInv'
<1>1. \A v \in Worker \ {w} : pc'[v] \in {pc[v], "idle"}
  BY MovesAlone DEF Serve, Provisioning
<1>2. UNCHANGED clientVars
  BY DEF Serve, Provisioning
<1>3. \/ phase[Api] = "running" /\ phase[w] = "none" /\ UNCHANGED phase
      \/ phase[w] = "running"
           /\ Enter(w, IF pc'[w] = "idle" THEN "finally" ELSE "running")
  BY DEF Serve, Provisioning
<1> QED
  BY <1>1, <1>2, <1>3, InsideStep

LEMMA OperateStep ==
  ASSUME ProcessIInv, Operate \/ Alter
  PROVE  ProcessIInv'
<1>1. UNCHANGED <<pc, phase, pool, connected, step, verified>>
  BY DEF Operate, Alter, DisableUser, RevokeAll, ChangePassword, clientVars, vars,
     Client!AlterRole
<1> QED
  BY <1>1 DEF ProcessIInv, PhaseOf, RunsInside

LEMMA ProcessInitInvariant == ProcessInit => ProcessIInv
<1> SUFFICES ASSUME ProcessInit PROVE ProcessIInv
  OBVIOUS
<1>1. /\ pool = [p \in Process |-> FALSE] /\ connected = pool /\ verified = pool
      /\ step = [p \in Process |-> "none"] /\ phase = [p \in Process |-> "none"]
      /\ pc = [w \in Worker |-> "idle"]
  BY DEF ProcessInit, Init, Client!ClientInit
<1>2. /\ pc \in [Worker -> Labels] /\ phase \in [Process -> Phases]
      /\ step \in [Process -> {"none", "connect", "verify", "release", "disconnect"}]
      /\ pool \in [Process -> BOOLEAN] /\ connected = pool /\ verified = pool
  BY <1>1 DEF Labels, Phases
<1>3. \A p \in Process : PhaseOf(p)
  BY <1>1 DEF PhaseOf
<1>4. \A w \in Worker : RunsInside(w)
  BY <1>1 DEF RunsInside
<1> QED
  BY <1>2, <1>3, <1>4 DEF ProcessIInv

LEMMA ProcessNextInvariant ==
  ASSUME ProcessIInv, IInv, IInv', [ProcessNext]_processVars
  PROVE  ProcessIInv'
<1>1. CASE UNCHANGED processVars
  BY <1>1 DEF processVars, vars, clientVars, ProcessIInv, PhaseOf, RunsInside
<1>2. CASE ProcessNext
  BY <1>2, StartStep, StartingStep, FinallyStep, LoseStep, ServeStep, OperateStep
     DEF ProcessNext
<1> QED
  BY <1>1, <1>2

LEMMA ProcessInvariance == ProcessSpec => []ProcessIInv
<1>1. ProcessIInv /\ IInv /\ IInv' /\ [ProcessNext]_processVars => ProcessIInv'
  BY ProcessNextInvariant
<1> QED
  BY <1>1, ProcessInitInvariant, Invariance, ProcessesRunLogins, PTL DEF ProcessSpec

\* No login and no provisioning runs on connections whose role was not checked,
\* however starts, failures and losses of the processes interleave.
THEOREM VerifiedFirst == ProcessSpec => []VerifiedBeforeUse
<1>1. ProcessIInv => VerifiedBeforeUse
  BY ApiAssumption DEF ProcessIInv, RunsInside, PhaseOf, VerifiedBeforeUse, Process
<1> QED
  BY <1>1, ProcessInvariance, PTL

\* No process ends with its pool open, whichever of its steps failed.
THEOREM NothingStaysOpen == ProcessSpec => []NothingLeftOpen
<1>1. ProcessIInv => NothingLeftOpen
  BY DEF ProcessIInv, PhaseOf, NothingLeftOpen
<1> QED
  BY <1>1, ProcessInvariance, PTL
===============================================================================
