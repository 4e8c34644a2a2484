------------------------ MODULE SessionContractProofs ------------------------
(***************************************************************************)
(* SessionLifecycle implements SessionContract: every step of the requests *)
(* issues, hands over or ends sessions as the contract says, or leaves all *)
(* lives alone.  IInv does not say whose sessions a transaction writes;    *)
(* Ownership does, and is inductive given IInv.  OutcomeInv is inductive   *)
(* given both: what renewals and bulk revocations leave behind.            *)
(***************************************************************************)
EXTENDS SessionLifecycleProofs

----------------------------------------------------------------------------
(* Rows and lives *)

LEMMA LifeFacts ==
  ASSUME NEW row \in SessionRow
  PROVE  /\ LifeOf(row) = [user |-> row.user, parent |-> row.parent,
              state |-> IF row.revoked = None THEN "open" ELSE "ended"]
         /\ LifeOf(row) \in Contract!Session
         /\ LifeOf(row) # None
<1>1. row # None
  BY NoneAssumption
<1>2. LifeOf(row) = [user |-> row.user, parent |-> row.parent,
                     state |-> IF row.revoked = None THEN "open" ELSE "ended"]
  BY <1>1 DEF LifeOf
<1>3. LifeOf(row) \in Contract!Session
  BY <1>2 DEF SessionRow, Contract!Session
<1> QED
  BY <1>2, <1>3, LifeAssumption

LEMMA NoLife == LifeOf(None) = None
BY DEF LifeOf

\* The rows, and what the contract sees of them, before and after a step.
LEMMA Rows ==
  ASSUME IInv, [Next]_vars
  PROVE  /\ sessions \in [Token -> SessionRow \cup {None}]
         /\ sessions' \in [Token -> SessionRow \cup {None}]
         /\ Life = [t \in Token |-> LifeOf(sessions[t])]
         /\ Life' = [t \in Token |-> LifeOf(sessions'[t])]
<1>1. IInv'
  BY NextInvariant
<1> QED
  BY <1>1 DEF IInv, TypeOK, StoreTypeOK, Life, LifeOf

\* A row that is seen, or bound to a tenant, lives on as it did.
LEMMA SeenLife ==
  ASSUME NEW row \in SessionRow, NEW v \in Nat
  PROVE  LifeOf([row EXCEPT !.seen = v]) = LifeOf(row)
<1> DEFINE new == [row EXCEPT !.seen = v]
<1>1. /\ new \in SessionRow
      /\ new.user = row.user /\ new.parent = row.parent
      /\ new.revoked = row.revoked
  BY DEF SessionRow
<1> HIDE DEF new
<1>2. LifeOf(new) = LifeOf(row)
  BY <1>1, LifeFacts
<1> QED
  BY <1>2 DEF new

LEMMA SelectedLife ==
  ASSUME NEW row \in SessionRow, NEW o \in Org, NEW v \in Nat
  PROVE  LifeOf([row EXCEPT !.org = o, !.version = v]) = LifeOf(row)
<1> DEFINE new == [row EXCEPT !.org = o, !.version = v]
<1>1. /\ new \in SessionRow
      /\ new.user = row.user /\ new.parent = row.parent
      /\ new.revoked = row.revoked
  BY DEF SessionRow
<1> HIDE DEF new
<1>2. LifeOf(new) = LifeOf(row)
  BY <1>1, LifeFacts
<1> QED
  BY <1>2 DEF new

\* A row that is revoked has ended.  (Both edits are named: the provers do not
\* see through them below.)
Revoked(row, at) == [row EXCEPT !.revoked = at]

Ended(life) == [life EXCEPT !.state = "ended"]

LEMMA EndedLife ==
  ASSUME NEW row \in SessionRow, NEW at \in Nat
  PROVE  LifeOf(Revoked(row, at)) = Ended(LifeOf(row))
<1> DEFINE new == Revoked(row, at)
<1>1. /\ new \in SessionRow
      /\ new.user = row.user /\ new.parent = row.parent
      /\ new.revoked # None
  BY StoreAssumption DEF SessionRow, Revoked
<1> HIDE DEF new
<1>2. LifeOf(new) = Ended(LifeOf(row))
  BY <1>1, LifeFacts DEF Ended
<1> QED
  BY <1>2 DEF new

LEMMA NewLife ==
  ASSUME NEW u \in User, NEW org \in Org \cup {None},
         NEW version \in Nat \cup {None}, NEW at \in Nat,
         NEW parent \in Token \cup {None}
  PROVE  LifeOf(NewSession(u, org, version, at, parent))
           = Contract!Fresh(u, parent)
BY NewSessionType, LifeFacts DEF NewSession, Contract!Fresh

----------------------------------------------------------------------------
(* What each writer of session rows does to their lives *)

LEMMA TouchKeeps ==
  ASSUME IInv, [Next]_vars, NEW p \in Worker, TouchLastSeenIfDue(p)
  PROVE  Life' = Life
<1> DEFINE t == ctx[p].token
<1>1. ctx[p].at \in Nat
  BY WorkerFacts DEF Ctx
<1>2. CASE Touchable(t, ctx[p].at)
  <2>1. sessions' = [sessions EXCEPT ![t].seen = ctx[p].at]
    BY <1>2 DEF TouchLastSeenIfDue
  <2>2. t \in Token /\ sessions[t] \in SessionRow
    BY <1>2, Rows, WorkerFacts
    DEF TouchLastSeenIfDue, CapturedAt, Touchable, Unrevoked, Exists
  <2>3. ASSUME NEW s \in Token PROVE LifeOf(sessions'[s]) = LifeOf(sessions[s])
    BY <1>1, <2>1, <2>2, Rows, SeenLife
  <2> QED
    BY <2>3, Rows
<1>3. CASE ~Touchable(t, ctx[p].at)
  BY <1>3, Rows DEF TouchLastSeenIfDue
<1> QED
  BY <1>2, <1>3

LEMMA SelectKeeps ==
  ASSUME IInv, [Next]_vars, NEW t \in Token, SelectOrganization(t)
  PROVE  Life' = Life
<1>1. sessions[t] \in SessionRow
  BY Rows DEF SelectOrganization, Unrevoked, Exists
<1>2. PICK o \in Org : sessions' = [sessions EXCEPT
        ![t].org = o, ![t].version = memberships[<<sessions[t].user, o>>].version]
  BY DEF SelectOrganization
<1> DEFINE v == memberships[<<sessions[t].user, o>>].version
           new == [sessions[t] EXCEPT !.org = o, !.version = v]
<1>3. v \in Nat
  BY <1>1 DEF IInv, TypeOK, StoreTypeOK, MembershipRow, SessionRow
<1>4. sessions' = [sessions EXCEPT ![t] = new]
  BY <1>1, <1>2, Rows
<1> HIDE DEF v
<1>5. LifeOf(new) = LifeOf(sessions[t])
  BY <1>1, <1>3, SelectedLife
<1> HIDE DEF new
<1>6. \A s \in Token : LifeOf(sessions'[s]) = LifeOf(sessions[s])
  BY <1>4, <1>5, Rows
<1> QED
  BY <1>6, Rows

\* Open sessions of one user that are revoked, one or many, have ended.
LEMMA RevokedEnd ==
  ASSUME IInv, [Next]_vars, NEW S \in SUBSET Token, NEW u \in User, NEW at \in Nat,
         \A t \in S : Unrevoked(t) /\ sessions[t].user = u,
         \A t \in Token : sessions'[t] =
           IF t \in S THEN Revoked(sessions[t], at) ELSE sessions[t]
  PROVE  Contract!End(u)
<1>1. ASSUME NEW t \in S
      PROVE  Contract!Open(t) /\ Life[t].user = u
  <2>1. sessions[t] \in SessionRow /\ sessions[t].revoked = None
    BY Rows DEF Unrevoked, Exists
  <2> QED
    BY <2>1, Rows, LifeFacts DEF Contract!Open
<1>2. ASSUME NEW t \in Token
      PROVE  LifeOf(sessions'[t]) = IF t \in S THEN Ended(Life[t]) ELSE Life[t]
  <2>1. t \in S => sessions[t] \in SessionRow
    BY Rows DEF Unrevoked, Exists
  <2> QED
    BY <2>1, Rows, EndedLife
<1>3. Life' = [t \in Token |-> IF t \in S THEN Ended(Life[t]) ELSE Life[t]]
  BY <1>2, Rows
<1>4. S \in SUBSET {t \in Token : Contract!Open(t) /\ Life[t].user = u}
  BY <1>1
<1> QED
  BY <1>3, <1>4 DEF Contract!End, Ended

LEMMA RevokeEnds ==
  ASSUME IInv, [Next]_vars, NEW p \in Worker, RevokeByTokenHash(p)
  PROVE  Life' = Life \/ \E u \in User : Contract!End(u)
<1> DEFINE t == ctx[p].token
<1>1. t \in Token /\ ctx[p].at \in Nat
  BY WorkerFacts DEF RevokeByTokenHash, CapturedAt, Ctx
<1>2. CASE Unrevoked(t)
  <2>1. sessions[t].user \in User
    BY <1>1, <1>2, Rows DEF Unrevoked, Exists, SessionRow
  <2>2. \A s \in Token : sessions'[s] = IF s \in {t}
          THEN Revoked(sessions[s], ctx[p].at) ELSE sessions[s]
    BY <1>1, <1>2, Rows DEF RevokeByTokenHash, Revoked
  <2>3. Contract!End(sessions[t].user)
    BY <1>1, <1>2, <2>1, <2>2, RevokedEnd
  <2> QED
    BY <2>1, <2>3
<1>3. CASE ~Unrevoked(t)
  BY <1>3, Rows DEF RevokeByTokenHash
<1> QED
  BY <1>2, <1>3

LEMMA RevokeAllEnds ==
  ASSUME IInv, Ownership, [Next]_vars, NEW p \in Worker, CommitRevocations(p)
  PROVE  \E u \in User : Contract!End(u)
<1> DEFINE S == {t \in ctx[p].snapshot : Unrevoked(t)}
<1>1. pc[p] = "revokeRows" /\ ctx[p].user \in User /\ ctx[p].at \in Nat
      /\ ctx[p].snapshot \subseteq Token
  BY WorkerFacts DEF CommitRevocations, CapturedAt, Ctx, TxSteps
<1>2. S \in SUBSET Token
      /\ \A t \in S : Unrevoked(t) /\ sessions[t].user = ctx[p].user
  BY <1>1 DEF Ownership, OwnsSnapshot
<1>3. \A t \in Token : sessions'[t] = IF t \in S
        THEN Revoked(sessions[t], ctx[p].at) ELSE sessions[t]
  BY DEF CommitRevocations, Revoked
<1> HIDE DEF S
<1>4. Contract!End(ctx[p].user)
  BY <1>1, <1>2, <1>3, RevokedEnd
<1> QED
  BY <1>1, <1>4

LEMMA InsertIssues ==
  ASSUME IInv, [Next]_vars, NEW p \in Worker, InsertSession(p)
  PROVE  Life' = Life \/ \E t \in Token, u \in User : Contract!Issue(t, u)
<1> DEFINE t == ctx[p].fresh
           u == ctx[p].user
<1>1. t \in Token /\ u \in User /\ ctx[p].at \in Nat
  BY WorkerFacts DEF InsertSession, CapturedAt, Ctx, TxSteps
<1>2. CASE ~Exists(t) /\ sessions' = [sessions EXCEPT
             ![t] = NewSession(u, None, None, ctx[p].at, None)]
  <2>1. Life[t] = None
    BY <1>1, <1>2, Rows, NoLife DEF Exists
  <2>2. LifeOf(sessions'[t]) = Contract!Fresh(u, None)
    <3>1. sessions'[t] = NewSession(u, None, None, ctx[p].at, None)
      BY <1>1, <1>2, Rows
    <3>2. \A at \in Nat : LifeOf(NewSession(u, None, None, at, None))
                            = Contract!Fresh(u, None)
      BY <1>1, NewLife
    <3> QED
      BY <1>1, <3>1, <3>2
  <2>3. Life' = [Life EXCEPT ![t] = Contract!Fresh(u, None)]
    BY <1>1, <1>2, <2>2, Rows
  <2> QED
    BY <1>1, <2>1, <2>3 DEF Contract!Issue
<1>3. CASE UNCHANGED sessions
  BY <1>3, Rows
<1> QED
  BY <1>2, <1>3 DEF InsertSession

LEMMA ReplaceHandsOver ==
  ASSUME IInv, Ownership, [Next]_vars, NEW p \in Worker, CommitReplacement(p)
  PROVE  \E s, t \in Token : Contract!HandOver(s, t)
<1> DEFINE s == ctx[p].token
           t == ctx[p].fresh
           c == ctx[p]
<1>1. /\ pc[p] = "commit" /\ c \in Ctx /\ s \in Token /\ t \in Token
      /\ c.user \in User /\ c.revokeAt \in Nat
      /\ Unrevoked(s) /\ sessions[s].user = c.user /\ ~Exists(t)
  BY WorkerFacts DEF CommitReplacement, CapturedAt, Ctx, TxSteps, ReplaceSteps,
     HoldsOld, Ownership, OwnsOld, IInv, PendingApart
<1>2. s # t /\ sessions[s] \in SessionRow /\ sessions[s].revoked = None
  BY <1>1, Rows DEF Unrevoked, Exists
<1>3. Contract!Open(s) /\ Life[s].user = c.user /\ Life[t] = None
  BY <1>1, <1>2, Rows, LifeFacts, NoLife DEF Contract!Open, Exists
<1>4. LifeOf(sessions'[t]) = Contract!Fresh(Life[s].user, s)
  <2>1. sessions'[t] = NewSession(c.user, c.org, c.version, c.at, s)
    BY <1>1, <1>2, Rows DEF CommitReplacement
  <2>2. /\ c.org \in Org \cup {None} /\ c.version \in Nat \cup {None}
        /\ c.at \in Nat
    BY <1>1 DEF Ctx
  <2>3. LifeOf(NewSession(c.user, c.org, c.version, c.at, s))
          = Contract!Fresh(c.user, s)
    BY <1>1, <2>2, NewLife
  <2> QED
    BY <1>3, <2>1, <2>3
<1>5. LifeOf(sessions'[s]) = Ended(Life[s])
  <2>1. sessions'[s] = Revoked(sessions[s], c.revokeAt)
    BY <1>1, <1>2, Rows DEF CommitReplacement, Revoked
  <2> QED
    BY <1>1, <1>2, <2>1, Rows, EndedLife
<1>6. \A r \in Token \ {s, t} : sessions'[r] = sessions[r]
  BY Rows DEF CommitReplacement
<1>7. Life' = [Life EXCEPT ![s].state = "ended",
                           ![t] = Contract!Fresh(Life[s].user, s)]
  BY <1>1, <1>2, <1>4, <1>5, <1>6, Rows DEF Ended
<1> QED
  BY <1>1, <1>3, <1>7 DEF Contract!HandOver

\* Every step maps to a step of the contract, or to a stutter.
LEMMA StepKeepsContract ==
  ASSUME IInv, Ownership, [Next]_vars
  PROVE  [Contract!Next]_Life
<1>1. CASE Life' = Life
  BY <1>1
<1>2. CASE Life' # Life
  <2>1. ~UNCHANGED sessions
    BY <1>2, Rows
  <2>2. \A p \in Worker : ~TouchLastSeenIfDue(p)
    BY <1>2, TouchKeeps
  <2>3. \A t \in Token : ~SelectOrganization(t)
    BY <1>2, SelectKeeps
  <2>4. PICK p \in Worker : \/ RevokeByTokenHash(p) \/ CommitReplacement(p)
                           \/ InsertSession(p) \/ CommitRevocations(p)
    BY <2>1, <2>2, <2>3, SessionWriters
  <2>5. \/ \E t \in Token, u \in User : Contract!Issue(t, u)
        \/ \E t, r \in Token : Contract!HandOver(t, r)
        \/ \E u \in User : Contract!End(u)
    BY <1>2, <2>4, RevokeEnds, ReplaceHandsOver, InsertIssues, RevokeAllEnds
  <2> QED
    BY <1>2, <2>5 DEF Contract!Next
<1> QED
  BY <1>1, <1>2

----------------------------------------------------------------------------
(* Ownership is inductive *)

\* The contract leaves every session there, with its user and the session it
\* replaced: so do the steps.
LEMMA OwnersStay ==
  ASSUME IInv, Ownership, [Next]_vars, NEW t \in Token, Exists(t)
  PROVE  /\ sessions'[t] # None /\ sessions'[t].user = sessions[t].user
         /\ sessions'[t].parent = sessions[t].parent
<1>1. /\ sessions[t] \in SessionRow
      /\ Life[t] \in Contract!Session /\ Life[t].user = sessions[t].user
      /\ Life[t].parent = sessions[t].parent
  BY Rows, LifeFacts DEF Exists
<1>2. /\ Life'[t] \in Contract!Session
      /\ Life'[t].user = Life[t].user /\ Life'[t].parent = Life[t].parent
  <2>1. CASE Life' = Life
    BY <1>1, <2>1
  <2>2. ASSUME NEW s \in Token, NEW u \in User, Contract!Issue(s, u)
        PROVE  Life'[t] = Life[t]
    BY <1>1, <2>2, Rows, LifeAssumption DEF Contract!Issue
  <2>3. ASSUME NEW s \in Token, NEW r \in Token, Contract!HandOver(s, r)
        PROVE  Life'[t] = Life[t] \/ Life'[t] = Ended(Life[t])
    BY <1>1, <2>3, Rows, LifeAssumption DEF Contract!HandOver, Ended
  <2>4. ASSUME NEW u \in User, Contract!End(u)
        PROVE  Life'[t] = Life[t] \/ Life'[t] = Ended(Life[t])
    BY <2>4 DEF Contract!End, Ended
  <2>5. /\ Ended(Life[t]) \in Contract!Session
        /\ Ended(Life[t]).user = Life[t].user
        /\ Ended(Life[t]).parent = Life[t].parent
    BY <1>1 DEF Contract!Session, Ended
  <2> QED
    BY <1>1, <2>1, <2>2, <2>3, <2>4, <2>5, StepKeepsContract DEF Contract!Next
<1>3. sessions'[t] # None
  BY <1>2, Rows, NoLife, LifeAssumption
<1> QED
  BY <1>1, <1>2, <1>3, Rows, LifeFacts

\* The label of a step is where it leaves its worker.
LEMMA LabelReached ==
  ASSUME IInv, NEW p \in Worker
  PROVE  /\ \A label, c : Proceed(p, label, c) => pc'[p] = label
         /\ \A label : Goto(p, label) => pc'[p] = label
         /\ Finish(p) => pc'[p] = "idle"
BY DEF Proceed, Goto, Finish, IInv, TypeOK

\* The locked part of a renewal, and of a bulk revocation, is entered and left by
\* their own steps only.
LEMMA OwnSteps ==
  ASSUME IInv, NEW p \in Worker, Start(p) \/ Step(p) \/ Rollback(p),
         pc'[p] \in (ReplaceSteps \ {"lockSession"}) \cup {"revokeRows"}
  PROVE  \/ /\ pc'[p] # "revokeRows"
            /\ \/ LockSession(p) \/ LockUser(p) \/ LockCredential(p)
               \/ LockMembership(p) \/ LockOrganization(p) \/ WriteReplacement(p)
         \/ pc'[p] = "revokeRows" /\ (RevokeAllForUser(p) \/ RevokeRow(p))
<1>1. pc'[p] \in {"lockUser", "lockCredential", "lockMembership",
                  "lockOrganization", "write", "commit", "revokeRows"}
  BY DEF ReplaceSteps
<1>2. ~Finish(p)
  BY <1>1, LabelReached
<1>3. ~Start(p)
  BY <1>1, LabelReached DEF Start, Request, CreateSession, RevokeAllSessions
<1>4. ~Validate(p)
  <2>1. \A kind : AfterValidation(kind) # pc'[p] \/ kind \notin
                    {"session", "logout", "renew"}
    BY <1>1 DEF AfterValidation
  <2>2. CapturedAt(pc[p], ctx[p])
    BY WorkerFacts
  <2>3. ~FindForValidation(p)
    BY <1>1, <1>2, LabelReached DEF FindForValidation
  <2>4. ~ValidateSession(p)
    BY <1>1, <1>2, <2>1, <2>2, LabelReached DEF ValidateSession, CapturedAt
  <2>5. ~TouchLastSeenIfDue(p)
    BY <1>1, <2>1, <2>2, LabelReached DEF TouchLastSeenIfDue, CapturedAt
  <2> QED
    BY <2>3, <2>4, <2>5 DEF Validate
<1>5. ~(Logout(p) \/ Rollback(p))
  BY <1>1, <1>2, LabelReached DEF Logout, RevokeSession, RevokeByTokenHash, Rollback
<1>6. ~(FindPasswordIdentity(p) \/ VerifyPassword(p) \/ CommitReplacement(p))
  BY <1>1, <1>2, LabelReached DEF FindPasswordIdentity, FindIdentity,
     FindCredential, VerifyPassword,
     CommitReplacement
<1>7. ~Login(p)
  BY <1>1, <1>2, LabelReached DEF Login, LockLoginUser, InsertSession, Retry
<1>8. RevokeAll(p) => RevokeAllForUser(p) \/ RevokeRow(p)
  BY <1>1, <1>2, LabelReached DEF RevokeAll, RevocationsRefused,
     CommitRevocations, ReturnFromRevokeAll
<1>9. RevokeAllForUser(p) \/ RevokeRow(p) => pc'[p] = "revokeRows"
  BY LabelReached DEF RevokeAllForUser, RevokeRow, lifeVars
<1>10. \/ LockSession(p) \/ LockUser(p) \/ LockCredential(p)
       \/ LockMembership(p) \/ LockOrganization(p) \/ WriteReplacement(p)
       => pc'[p] # "revokeRows"
  <2>1. LockSession(p) \/ LockUser(p) \/ LockCredential(p) => pc'[p] # "revokeRows"
    BY <1>2, LabelReached DEF LockSession, LockUser, LockCredential
  <2>2. LockMembership(p) => pc'[p] # "revokeRows"
    BY LabelReached DEF LockMembership
  <2>3. LockOrganization(p) \/ WriteReplacement(p) => pc'[p] # "revokeRows"
    BY <1>2, LabelReached DEF LockOrganization, WriteReplacement
  <2> QED
    BY <2>1, <2>2, <2>3
<1> QED
  BY <1>3, <1>4, <1>5, <1>6, <1>7, <1>8, <1>9, <1>10 DEF Step, Renew, Replace

\* They keep the session and the user they work for.
LEMMA RenewalStays ==
  ASSUME IInv, NEW p \in Worker, pc'[p] # "idle",
         \/ LockSession(p) \/ LockUser(p) \/ LockCredential(p)
         \/ LockMembership(p) \/ LockOrganization(p) \/ WriteReplacement(p)
  PROVE  /\ ctx'[p].token = ctx[p].token /\ ctx'[p].user = ctx[p].user
         /\ \/ pc[p] \in ReplaceSteps \ {"lockSession"}
            \/ sessions[ctx[p].token].user = ctx[p].user
<1> DEFINE Kept == ctx'[p].token = ctx[p].token /\ ctx'[p].user = ctx[p].user
<1>1. ~Finish(p) /\ ctx[p] \in Ctx
  BY LabelReached, WorkerFacts
<1>2. \A label, c : Proceed(p, label, c) => ctx'[p] = c
  BY DEF Proceed, IInv, TypeOK
<1>3. CASE LockSession(p)
  <2>1. ctx'[p] = [ctx[p] EXCEPT !.row = sessions[ctx[p].token]]
        /\ sessions[ctx[p].token].user = ctx[p].user
    BY <1>1, <1>2, <1>3 DEF LockSession
  <2> QED
    BY <1>1, <2>1 DEF Ctx
<1>4. CASE LockUser(p) \/ LockCredential(p)
  <2>1. ctx'[p] = ctx[p]
    BY <1>1, <1>2, <1>4 DEF LockUser, LockCredential, Goto
  <2> QED
    BY <1>4, <2>1 DEF LockUser, LockCredential, ReplaceSteps
<1>5. CASE LockMembership(p)
  <2>1. pc[p] = "lockMembership" /\ \E v :
          ctx'[p] = ctx[p] \/ ctx'[p] = [ctx[p] EXCEPT !.version = v]
    BY <1>2, <1>5 DEF LockMembership, Goto
  <2> QED
    BY <1>1, <2>1 DEF Ctx, ReplaceSteps
<1>6. CASE LockOrganization(p)
  <2>1. pc[p] = "lockOrganization" /\ \E v :
          ctx'[p] = [ctx[p] EXCEPT !.org = v] \/ ctx'[p] = [ctx[p] EXCEPT !.version = v]
    BY <1>2, <1>6 DEF LockOrganization
  <2> QED
    BY <1>1, <2>1 DEF Ctx, ReplaceSteps
<1>7. CASE WriteReplacement(p)
  <2>1. pc[p] = "write" /\ ctx'[p] = [ctx[p] EXCEPT !.revokeAt = now]
    BY <1>1, <1>2, <1>7 DEF WriteReplacement
  <2> QED
    BY <1>1, <2>1 DEF Ctx, ReplaceSteps
<1> QED
  BY <1>3, <1>4, <1>5, <1>6, <1>7

LEMMA OwnershipStep ==
  ASSUME IInv, Ownership, [Next]_vars
  PROVE  Ownership'
<1>1. ASSUME NEW p \in Worker, pc'[p] = pc[p], ctx'[p] = ctx[p]
      PROVE  OwnsOld(p)' /\ OwnsSnapshot(p)'
  <2>1. pc[p] \in ReplaceSteps \ {"lockSession"} =>
          ctx[p].token \in Token /\ Exists(ctx[p].token)
    BY WorkerFacts DEF HoldsOld, Unrevoked, CapturedAt
  <2>2. ctx[p].snapshot \subseteq Token
    BY WorkerFacts DEF Ctx
  <2> QED
    BY <1>1, <2>1, <2>2, OwnersStay DEF Ownership, OwnsOld, OwnsSnapshot, Exists
<1>2. ASSUME NEW p \in Worker, Start(p) \/ Step(p) \/ Rollback(p)
      PROVE  OwnsOld(p)' /\ OwnsSnapshot(p)'
  <2>1. OwnsOld(p)'
    <3>1. SUFFICES ASSUME pc'[p] \in ReplaceSteps \ {"lockSession"}
                   PROVE  sessions'[ctx'[p].token].user = ctx'[p].user
      BY DEF OwnsOld
    <3>2. pc'[p] # "revokeRows" /\ pc'[p] # "idle"
      BY <3>1 DEF ReplaceSteps
    <3>3. \/ LockSession(p) \/ LockUser(p) \/ LockCredential(p)
          \/ LockMembership(p) \/ LockOrganization(p) \/ WriteReplacement(p)
      BY <1>2, <3>1, <3>2, OwnSteps
    <3>4. UNCHANGED sessions
      BY <3>3 DEF LockSession, LockUser, LockCredential, LockMembership,
         LockOrganization, WriteReplacement
    <3>5. ctx'[p].token = ctx[p].token /\ ctx'[p].user = ctx[p].user
          /\ sessions[ctx[p].token].user = ctx[p].user
      BY <3>2, <3>3, RenewalStays DEF Ownership, OwnsOld
    <3> QED
      BY <3>4, <3>5
  <2>2. OwnsSnapshot(p)'
    <3>1. SUFFICES ASSUME pc'[p] = "revokeRows" PROVE OwnsSnapshot(p)'
      BY DEF OwnsSnapshot
    <3>2. CASE RevokeAllForUser(p)
      <4>1. UNCHANGED sessions
            /\ ctx'[p] = [ctx[p] EXCEPT
                 !.snapshot = {t \in Token : Unrevoked(t) /\ sessions[t].user = ctx[p].user},
                 !.lockout = users[ctx[p].user] # "Active"]
        BY <3>2 DEF RevokeAllForUser, Proceed, storeVars, IInv, TypeOK
      <4>2. ctx'[p].user = ctx[p].user /\ ctx'[p].snapshot =
              {t \in Token : Unrevoked(t) /\ sessions[t].user = ctx[p].user}
        BY <4>1, WorkerFacts DEF Ctx
      <4> QED
        BY <4>1, <4>2 DEF OwnsSnapshot, Unrevoked, Exists
    <3>3. CASE RevokeRow(p)
      BY <1>1, <3>3 DEF RevokeRow, lifeVars
    <3> QED
      BY <1>2, <3>1, <3>2, <3>3, OwnSteps
  <2> QED
    BY <2>1, <2>2
<1>3. CASE UNCHANGED lifeVars
  BY <1>1, <1>3 DEF Ownership, lifeVars
<1>4. ASSUME NEW q \in Worker, Start(q) \/ Step(q) \/ Rollback(q)
      PROVE  Ownership'
  BY <1>1, <1>2, <1>4, OneMoves DEF Ownership, IInv
<1> QED
  BY <1>3, <1>4 DEF Next, vars, SelectOrganization

\* Whatever the requests do at once, the rows of the sessions table tell the
\* story SessionContract tells: issued once, handed over at most once and within
\* one user, never back once ended.
THEOREM ContractKept == Spec => ContractSpec
<1>1. Init => Ownership
  BY DEF Init, Ownership, OwnsOld, OwnsSnapshot, ReplaceSteps
<1>2. Init => Contract!Init
  <2> SUFFICES ASSUME Init PROVE Contract!Init
    OBVIOUS
  <2>1. IInv
    BY InitInvariant
  <2>2. PICK owner \in [Opened -> User] :
          sessions = [t \in Token |-> IF t \in Opened
            THEN NewSession(owner[t], None, None, 0, None) ELSE None]
    BY DEF Init, StoreInit
  <2>3. ASSUME NEW t \in Token
        PROVE  Life[t] \in {Contract!Fresh(u, None) : u \in User} \cup {None}
    <3>1. CASE t \in Opened
      <4>1. \A u \in User : LifeOf(NewSession(u, None, None, 0, None))
                              = Contract!Fresh(u, None)
        BY NewLife
      <4>2. Life[t] = LifeOf(NewSession(owner[t], None, None, 0, None))
        BY <2>2, <3>1 DEF Life
      <4> QED
        BY <3>1, <4>1, <4>2
    <3>2. CASE t \notin Opened
      BY <2>2, <3>2, NoLife DEF Life
    <3> QED
      BY <3>1, <3>2
  <2> QED
    BY <2>3 DEF Contract!Init, Life
<1>3. IInv /\ Ownership /\ [Next]_vars => Ownership'
  BY OwnershipStep
<1>4. IInv /\ Ownership /\ [Next]_vars => [Contract!Next]_Life
  BY StepKeepsContract
<1> QED
  BY <1>1, <1>2, <1>3, <1>4, Invariance, PTL DEF Spec, ContractSpec, Contract!Spec


\* Ownership holds throughout, as IInv does.
LEMMA OwnershipHolds == Spec => []Ownership
<1>1. Init => Ownership
  BY DEF Init, Ownership, OwnsOld, OwnsSnapshot, ReplaceSteps
<1>2. IInv /\ Ownership /\ [Next]_vars => Ownership'
  BY OwnershipStep
<1> QED
  BY <1>1, <1>2, Invariance, PTL DEF Spec

----------------------------------------------------------------------------
(* What a renewal writes was live *)

\* The commit finds the context its WriteReplacement left.
LEMMA CommitEntered ==
  ASSUME IInv, NEW p \in Worker, Start(p) \/ Step(p) \/ Rollback(p),
         pc'[p] = "commit"
  PROVE  /\ ~RowExpired(ctx[p].row, now) /\ UNCHANGED sessions
         /\ ctx'[p] = [ctx[p] EXCEPT !.revokeAt = now]
<1>1. \A label, c : Proceed(p, label, c) => pc'[p] = label /\ ctx'[p] = c
  BY DEF Proceed, IInv, TypeOK
<1>2. ~Finish(p)
  BY <1>1 DEF Finish
<1>3. \/ LockSession(p) \/ LockUser(p) \/ LockCredential(p)
      \/ LockMembership(p) \/ LockOrganization(p) \/ WriteReplacement(p)
  BY OwnSteps DEF ReplaceSteps
<1>4. ~(LockSession(p) \/ LockUser(p) \/ LockCredential(p))
  BY <1>1, <1>2 DEF LockSession, LockUser, LockCredential, Goto
<1>5. ~LockMembership(p) /\ ~LockOrganization(p)
  <2>1. ~LockMembership(p)
    BY LabelReached DEF LockMembership
  <2>2. ~LockOrganization(p)
    BY <1>1 DEF LockOrganization
  <2> QED
    BY <2>1, <2>2
<1>6. WriteReplacement(p)
  BY <1>3, <1>4, <1>5
<1> QED
  BY <1>1, <1>2, <1>6 DEF WriteReplacement, Lapsed

LEMMA WrittenLiveStep ==
  ASSUME IInv, [Next]_vars, NEW p \in Worker, WrittenLive(p)
  PROVE  WrittenLive(p)'
<1>1. CASE pc'[p] = pc[p] /\ ctx'[p] = ctx[p]
  BY <1>1 DEF WrittenLive, RowExpired
<1>2. CASE Start(p) \/ Step(p) \/ Rollback(p)
  <2>1. SUFFICES ASSUME pc'[p] = "commit"
                 PROVE  ~RowExpired(ctx'[p].row, ctx'[p].revokeAt)
    BY DEF WrittenLive, RowExpired
  <2>2. ctx'[p].row = ctx[p].row /\ ctx'[p].revokeAt = now
    BY <1>2, <2>1, CommitEntered, WorkerFacts DEF Ctx
  <2> QED
    BY <1>2, <2>1, <2>2, CommitEntered
<1>3. ASSUME NEW q \in Worker \ {p}, Start(q) \/ Step(q) \/ Rollback(q)
      PROVE  pc'[p] = pc[p] /\ ctx'[p] = ctx[p]
  BY <1>3, OneMoves DEF IInv
<1> QED
  BY <1>1, <1>2, <1>3 DEF Next, vars, lifeVars, SelectOrganization

\* The old session of a renewal: who replaced it, and the row that is left.
LEMMA ReplacedRow ==
  ASSUME IInv, [Next]_vars, NEW p \in Worker, CommitReplacement(p)
  PROVE  /\ ctx[p].token \in Token /\ ctx[p].row \in SessionRow
         /\ sessions'[ctx[p].token] =
              [ctx[p].row EXCEPT !.revoked = ctx[p].revokeAt]
<1>1. /\ pc[p] = "commit" /\ ctx[p].token \in Token /\ ctx[p].fresh \in Token
      /\ Unrevoked(ctx[p].token) /\ ctx[p].row = sessions[ctx[p].token]
      /\ ~Exists(ctx[p].fresh)
  BY WorkerFacts DEF CommitReplacement, CapturedAt, HoldsOld, ReplaceSteps,
     IInv, PendingApart
<1> QED
  BY <1>1, Rows DEF CommitReplacement, Unrevoked, Exists

LEMMA ReplacedStep ==
  ASSUME IInv, Ownership, [Next]_vars, ReplacedWhileLive,
         \A p \in Worker : WrittenLive(p)
  PROVE  ReplacedWhileLive'
<1> SUFFICES ASSUME NEW t \in Token, sessions'[t] # None,
                    sessions'[t].parent # None
             PROVE  ~RowExpired(sessions'[sessions'[t].parent],
                                sessions'[sessions'[t].parent].revoked)
  BY DEF ReplacedWhileLive, Exists, RowExpired
<1>1. CASE Exists(t)
  <2> DEFINE s == sessions[t].parent
  <2>1. sessions'[t].parent = s /\ s \in Token
    BY <1>1, OwnersStay, Rows DEF Exists, SessionRow
  <2>2. Exists(s) /\ sessions[s].revoked # None
    BY <1>1, <2>1 DEF IInv, RenewalIsLinear
  <2>3. sessions'[s] = sessions[s]
    BY <2>1, <2>2, RevokedRowsStay
  <2> QED
    BY <1>1, <2>1, <2>3 DEF ReplacedWhileLive
<1>2. CASE ~Exists(t)
  <2>1. \A u, org, version, at, parent :
          NewSession(u, org, version, at, parent).parent = parent
    BY DEF NewSession
  <2>2. PICK p \in Worker :
          CommitReplacement(p) /\ sessions'[t].parent = ctx[p].token
    BY <1>2, <2>1, NewRow
  <2> DEFINE row == ctx[p].row
             at == ctx[p].revokeAt
             new == [row EXCEPT !.revoked = at]
  <2>3. row \in SessionRow /\ sessions'[ctx[p].token] = new
    BY <2>2, ReplacedRow
  <2>4. ~RowExpired(row, at)
    BY <2>2 DEF WrittenLive, CommitReplacement
  <2>5. new.expires = row.expires /\ new.seen = row.seen /\ new.revoked = at
    BY <2>3 DEF SessionRow
  <2> HIDE DEF new, row, at
  <2> QED
    BY <2>2, <2>3, <2>4, <2>5 DEF RowExpired
<1> QED
  BY <1>1, <1>2

LEMMA LiveHolds ==
  Spec => [](ReplacedWhileLive /\ \A p \in Worker : WrittenLive(p))
<1> DEFINE Live == ReplacedWhileLive /\ \A p \in Worker : WrittenLive(p)
<1>1. Init => Live
  <2> SUFFICES ASSUME Init PROVE Live
    OBVIOUS
  <2>1. PICK owner \in [Opened -> User] :
          sessions = [t \in Token |-> IF t \in Opened
            THEN NewSession(owner[t], None, None, 0, None) ELSE None]
    BY DEF Init, StoreInit
  <2>2. \A t \in Token : Exists(t) => sessions[t].parent = None
    BY <2>1 DEF Exists, NewSession
  <2> QED
    BY <2>2 DEF Init, ReplacedWhileLive, WrittenLive
<1>2. IInv /\ Ownership /\ Live /\ [Next]_vars => Live'
  BY WrittenLiveStep, ReplacedStep
<1> QED
  BY <1>1, <1>2, Invariance, OwnershipHolds, PTL DEF Spec

\* However long a renewal waited for its locks, the session it replaced had not
\* reached its deadline at the instant recorded as its revocation.
THEOREM RenewedWhileLive == Spec => []ReplacedWhileLive
BY LiveHolds, PTL


----------------------------------------------------------------------------
(* What a bulk revocation leaves behind *)

\* Only operators write users, credentials, memberships and organizations.
LEMMA WorkersKeepAuthority ==
  ASSUME NEW p \in Worker, Start(p) \/ Step(p) \/ Rollback(p)
  PROVE  UNCHANGED authorityRows
<1>1. CASE Start(p) \/ Validate(p) \/ Logout(p) \/ Rollback(p)
  BY <1>1 DEF Start, Request, CreateSession, RevokeAllSessions, Validate,
     FindForValidation, ValidateSession, TouchLastSeenIfDue, Logout,
     RevokeSession, RevokeByTokenHash, Rollback, storeVars, authorityRows
<1>2. CASE Renew(p)
  BY <1>2 DEF Renew, Replace, FindPasswordIdentity, FindIdentity,
     FindCredential, VerifyPassword, LockSession,
     LockUser, LockCredential, LockMembership, LockOrganization,
     WriteReplacement, CommitReplacement
<1>3. CASE Login(p) \/ RevokeAll(p)
  BY <1>3 DEF Login, LockLoginUser, InsertSession, RevokeAll, RevokeAllForUser,
     RevokeRow, RevocationsRefused, CommitRevocations, ReturnFromRevokeAll,
     storeVars, authorityRows
<1> QED
  BY <1>1, <1>2, <1>3 DEF Step

\* Nothing enables a user again.
LEMMA DisabledStays ==
  ASSUME IInv, [Next]_vars, NEW u \in User, users[u] # "Active"
  PROVE  users'[u] # "Active"
<1>1. CASE Environment
  BY <1>1 DEF Environment, Tick, DisableUser, ChangePassword, ChangeMembership,
     ChangeOrganization, authorityRows, IInv, TypeOK, StoreTypeOK
<1>2. CASE UNCHANGED vars \/ \E t \in Token : SelectOrganization(t)
  BY <1>2 DEF vars, storeVars, SelectOrganization, authorityRows
<1> QED
  BY <1>1, <1>2, WorkersKeepAuthority DEF Next, authorityRows

\* No session joins those a disabled user has left: logins and renewals in flight
\* find the user's status under a lock.
LEMMA NoneJoins ==
  ASSUME IInv, Ownership, [Next]_vars, NEW u \in User, users[u] # "Active"
  PROVE  UnrevokedOf(u)' \subseteq UnrevokedOf(u)
<1> SUFFICES ASSUME NEW t \in Token, sessions'[t] # None,
                    sessions'[t].revoked = None, sessions'[t].user = u
             PROVE  Exists(t) /\ sessions[t].revoked = None /\ sessions[t].user = u
  BY DEF UnrevokedOf, Unrevoked, Exists
<1>1. Exists(t)
  BY NewRowAuthority
<1> QED
  BY <1>1, OwnersStay, RevokedRowsStay

\* A revocation in flight covers what it covered, whatever the others do.
LEMMA CoverStays ==
  ASSUME IInv, Ownership, [Next]_vars, NEW p \in Worker, RevocationCovers(p),
         pc'[p] = pc[p], ctx'[p] = ctx[p]
  PROVE  RevocationCovers(p)'
<1>1. ASSUME pc[p] \in {"revokeRows", "revokedAll"}
      PROVE  ctx[p].user \in User /\ ctx[p].snapshot \subseteq Token
  BY <1>1, WorkerFacts DEF CapturedAt, TxSteps, Ctx
<1>2. ASSUME pc[p] \in {"revokeRows", "revokedAll"}, ctx[p].lockout
      PROVE  /\ users'[ctx[p].user] # "Active"
             /\ UnrevokedOf(ctx[p].user)' \subseteq ctx[p].snapshot
  BY <1>1, <1>2, DisabledStays, NoneJoins DEF RevocationCovers
<1>3. ASSUME pc[p] = "revokedAll", NEW t \in ctx[p].snapshot
      PROVE  sessions'[t] # None /\ sessions'[t].revoked # None
  BY <1>1, <1>3, RevokedRowsStay DEF RevocationCovers, Exists
<1> QED
  BY <1>2, <1>3 DEF RevocationCovers, Exists

\* The commit revokes whatever of the selection was not revoked before.
LEMMA CommitCovers ==
  ASSUME IInv, Ownership, [Next]_vars, NEW p \in Worker, RevocationCovers(p),
         CommitRevocations(p)
  PROVE  RevocationCovers(p)'
<1>1. pc[p] = "revokeRows" /\ pc'[p] = "revokedAll" /\ ctx'[p] = ctx[p]
  BY LabelReached DEF CommitRevocations, Goto, Proceed, IInv, TypeOK
<1>2. ctx[p].user \in User /\ ctx[p].at \in Nat /\ ctx[p].snapshot \subseteq Token
  BY <1>1, WorkerFacts DEF CapturedAt, TxSteps, Ctx
<1>3. ASSUME NEW t \in ctx[p].snapshot
      PROVE  sessions'[t] # None /\ sessions'[t].revoked # None
  <2>1. t \in Token /\ Exists(t) /\ sessions[t] \in SessionRow
    BY <1>1, <1>2, Rows DEF Ownership, OwnsSnapshot, Exists
  <2>2. sessions'[t] # None
    BY <2>1, OwnersStay
  <2>3. CASE Unrevoked(t)
    <3>1. sessions'[t] = Revoked(sessions[t], ctx[p].at)
      BY <2>1, <2>3 DEF CommitRevocations, Revoked
    <3>2. Revoked(sessions[t], ctx[p].at).revoked = ctx[p].at
      BY <2>1 DEF Revoked, SessionRow
    <3> QED
      BY <1>2, <2>2, <3>1, <3>2, StoreAssumption
  <2>4. CASE ~Unrevoked(t)
    BY <2>1, <2>2, <2>4, RevokedRowsStay DEF Unrevoked
  <2> QED
    BY <2>3, <2>4
<1>4. ASSUME ctx[p].lockout
      PROVE  /\ users'[ctx[p].user] # "Active"
             /\ UnrevokedOf(ctx[p].user)' \subseteq ctx[p].snapshot
  BY <1>1, <1>2, <1>4, DisabledStays, NoneJoins DEF RevocationCovers
<1> QED
  BY <1>1, <1>3, <1>4 DEF RevocationCovers, Exists

\* Its statement selects every unrevoked session the user has.
LEMMA SelectionCovers ==
  ASSUME IInv, NEW p \in Worker, RevokeAllForUser(p)
  PROVE  RevocationCovers(p)'
<1> DEFINE u == ctx[p].user
           out == users[u] # "Active"
<1>1. pc'[p] = "revokeRows" /\ sessions' = sessions /\ users' = users
      /\ ctx'[p] = [ctx[p] EXCEPT !.snapshot = UnrevokedOf(u), !.lockout = out]
  BY DEF RevokeAllForUser, Proceed, storeVars, IInv, TypeOK, UnrevokedOf
<1>2. /\ ctx'[p].user = u /\ ctx'[p].snapshot = UnrevokedOf(u)
      /\ ctx'[p].lockout => out
  BY <1>1, WorkerFacts DEF Ctx
<1>3. UnrevokedOf(ctx[p].user)' = UnrevokedOf(ctx[p].user)
  BY <1>1, <1>2 DEF UnrevokedOf, Unrevoked, Exists
<1> QED
  BY <1>1, <1>2, <1>3 DEF RevocationCovers

\* The steps that lead into a bulk revocation's last two labels.
LEMMA RevocationSteps ==
  ASSUME IInv, NEW p \in Worker, Start(p) \/ Step(p) \/ Rollback(p),
         pc'[p] \in {"revokeRows", "revokedAll"}
  PROVE  RevokeAllForUser(p) \/ RevokeRow(p) \/ CommitRevocations(p)
<1>1. CASE pc'[p] = "revokeRows"
  BY <1>1, OwnSteps
<1>2. CASE pc'[p] = "revokedAll"
  <2>1. ~Finish(p)
    BY <1>2, LabelReached
  <2>2. ~Start(p)
    BY <1>2, LabelReached DEF Start, Request, CreateSession, RevokeAllSessions
  <2>3. ~Validate(p)
    <3>1. \A kind \in {"session", "logout", "renew"} :
            AfterValidation(kind) # "revokedAll"
      BY DEF AfterValidation
    <3>2. pc[p] \in {"validate", "touch"} =>
            ctx[p].kind \in {"session", "logout", "renew"}
      BY WorkerFacts DEF CapturedAt
    <3>3. ~FindForValidation(p) /\ ~ValidateSession(p)
      BY <1>2, <2>1, <3>1, <3>2, LabelReached DEF FindForValidation, ValidateSession
    <3>4. ~TouchLastSeenIfDue(p)
      BY <1>2, <3>1, <3>2, LabelReached DEF TouchLastSeenIfDue
    <3> QED
      BY <3>3, <3>4 DEF Validate
  <2>4. ~(Logout(p) \/ Rollback(p))
    BY <1>2, <2>1, LabelReached DEF Logout, RevokeSession, RevokeByTokenHash,
       Rollback
  <2>5. ~(FindPasswordIdentity(p) \/ VerifyPassword(p))
    BY <1>2, <2>1, LabelReached DEF FindPasswordIdentity, FindIdentity,
       FindCredential, VerifyPassword
  <2>6. ~(LockSession(p) \/ LockUser(p) \/ LockCredential(p))
    BY <1>2, <2>1, LabelReached DEF LockSession, LockUser, LockCredential
  <2>7. ~LockMembership(p)
    BY <1>2, LabelReached DEF LockMembership
  <2>8. ~(LockOrganization(p) \/ WriteReplacement(p) \/ CommitReplacement(p))
    BY <1>2, <2>1, LabelReached DEF LockOrganization, WriteReplacement,
       CommitReplacement
  <2>9. ~Login(p)
    BY <1>2, <2>1, LabelReached DEF Login, LockLoginUser, InsertSession, Retry
  <2>10. ~(RevocationsRefused(p) \/ ReturnFromRevokeAll(p))
    BY <2>1 DEF RevocationsRefused, ReturnFromRevokeAll
  <2> QED
    BY <2>2, <2>3, <2>4, <2>5, <2>6, <2>7, <2>8, <2>9, <2>10
    DEF Step, Renew, Replace, RevokeAll
<1> QED
  BY <1>1, <1>2

LEMMA CoverStep ==
  ASSUME IInv, Ownership, [Next]_vars, NEW p \in Worker, RevocationCovers(p)
  PROVE  RevocationCovers(p)'
<1>1. CASE pc'[p] = pc[p] /\ ctx'[p] = ctx[p]
  BY <1>1, CoverStays
<1>2. CASE Start(p) \/ Step(p) \/ Rollback(p)
  <2>1. CASE pc'[p] \notin {"revokeRows", "revokedAll"}
    BY <2>1 DEF RevocationCovers
  <2>2. CASE RevokeAllForUser(p)
    BY <2>2, SelectionCovers
  <2>3. CASE CommitRevocations(p)
    BY <2>3, CommitCovers
  <2>4. CASE RevokeRow(p)
    BY <1>1, <2>4 DEF RevokeRow, lifeVars
  <2> QED
    BY <1>2, <2>1, <2>2, <2>3, <2>4, RevocationSteps
<1>3. ASSUME NEW q \in Worker \ {p}, Start(q) \/ Step(q) \/ Rollback(q)
      PROVE  pc'[p] = pc[p] /\ ctx'[p] = ctx[p]
  BY <1>3, OneMoves DEF IInv
<1> QED
  BY <1>1, <1>2, <1>3 DEF Next, vars, lifeVars, SelectOrganization

LEMMA CoverHolds == Spec => [](\A p \in Worker : RevocationCovers(p))
<1>1. Init => \A p \in Worker : RevocationCovers(p)
  BY DEF Init, RevocationCovers
<1>2. IInv /\ Ownership /\ (\A p \in Worker : RevocationCovers(p)) /\ [Next]_vars
        => (\A p \in Worker : RevocationCovers(p))'
  BY CoverStep
<1> QED
  BY <1>1, <1>2, Invariance, OwnershipHolds, PTL DEF Spec

\* When a bulk revocation returns, every session its statement saw is revoked,
\* those it had to wait for and those others revoked meanwhile included.
THEOREM RevocationCovered == Spec => []RevokeAllCovers
<1>1. (\A p \in Worker : RevocationCovers(p)) => RevokeAllCovers
  BY DEF RevocationCovers, RevokeAllCovers
<1> QED
  BY <1>1, CoverHolds, PTL

\* Disabling a user and then revoking all sessions leaves none, for any number
\* of logins and renewals in flight.
THEOREM LockedOut == Spec => []DisabledUserLockedOut
<1>1. (\A p \in Worker : RevocationCovers(p)) => DisabledUserLockedOut
  BY DEF RevocationCovers, DisabledUserLockedOut, UnrevokedOf, Unrevoked
<1> QED
  BY <1>1, CoverHolds, PTL


----------------------------------------------------------------------------
(* What a renewal has resolved stays so *)

\* A membership, and under the compliant protocol an organization, that a
\* transaction has locked is not written by anybody.
LEMMA LockedAuthorityStays ==
  ASSUME IInv, [Next]_vars, NEW p \in Worker, NEW o \in Org
  PROVE  /\ \A u \in User : Holds(p, MembershipLock(u, o), "S")
              => memberships'[<<u, o>>] = memberships[<<u, o>>]
         /\ Compliant /\ Holds(p, OrganizationLock(o), "S") => orgs'[o] = orgs[o]
<1>1. CASE Environment
  BY <1>1 DEF Environment, Tick, DisableUser, ChangePassword, ChangeMembership,
     ChangeOrganization, authorityRows, Unlocked, Holds, MembershipLock,
     OrganizationLock, IInv, TypeOK, StoreTypeOK
<1>2. CASE UNCHANGED vars \/ \E t \in Token : SelectOrganization(t)
  BY <1>2 DEF vars, storeVars, SelectOrganization, authorityRows
<1> QED
  BY <1>1, <1>2, WorkersKeepAuthority DEF Next, authorityRows

\* A renewal that keeps its locks keeps what it resolved.
LEMMA HeldStays ==
  ASSUME IInv, [Next]_vars, NEW p \in Worker, SelectionHeld(p),
         pc'[p] \in {pc[p], "commit"},
         pc'[p] = "commit" => pc[p] \in {"write", "commit"},
         NEW at, ctx'[p] \in {ctx[p], [ctx[p] EXCEPT !.revokeAt = at]},
         locks'[p] = locks[p]
  PROVE  SelectionHeld(p)'
<1> DEFINE c == ctx[p]
           o == c.row.org
<1>1. /\ ctx'[p].version = c.version /\ ctx'[p].row = c.row
      /\ ctx'[p].user = c.user /\ ctx'[p].org = c.org
  BY WorkerFacts DEF Ctx
<1>2. c.version # None => c.user \in User /\ o \in Org
  BY WorkerFacts DEF SelectionHeld, CapturedAt, TxSteps, ReplaceSteps
<1>3. /\ pc'[p] = "lockOrganization" => c.version # None
      /\ c.version # None =>
        /\ pc'[p] \in {"lockOrganization", "write", "commit"}
        /\ Holds(p, MembershipLock(c.user, o), "S")'
        /\ memberships'[<<c.user, o>>].status = "Active"
        /\ memberships'[<<c.user, o>>].version = c.version
  BY <1>1, <1>2, LockedAuthorityStays DEF SelectionHeld, Holds, MembershipLock
<1>4. c.org # None =>
        /\ pc'[p] \in {"write", "commit"} /\ c.version # None /\ c.org = o
        /\ Holds(p, OrganizationLock(o), "S")'
        /\ Compliant => orgs'[o] = "Active"
  BY <1>1, <1>2, LockedAuthorityStays DEF SelectionHeld, Holds, OrganizationLock
<1> QED
  BY <1>1, <1>2, <1>3, <1>4 DEF SelectionHeld

\* A context with no selection in it.
Unselected(c) == c.org = None /\ c.version = None

\* Outside the steps that resolve and write it, a step selects nothing.
LEMMA SelectionSteps ==
  ASSUME IInv, NEW p \in Worker, SelectionHeld(p),
         Start(p) \/ Step(p) \/ Rollback(p)
  PROVE  \/ Unselected(ctx'[p])
         \/ LockMembership(p) \/ LockOrganization(p) \/ WriteReplacement(p)
<1> DEFINE c == ctx[p]
<1>1. \A label, d : Proceed(p, label, d) => ctx'[p] = d
  BY DEF Proceed, IInv, TypeOK
<1>2. /\ Finish(p) => Unselected(ctx'[p])
      /\ Unselected(NoCtx) /\ c \in Ctx
  BY <1>1, WorkerFacts DEF Finish, Unselected, NoCtx
<1>3. \A label : Goto(p, label) => ctx'[p] = c
  BY <1>1 DEF Goto
<1>4. CASE pc[p] \notin {"lockOrganization", "write", "commit"}
  <2>1. Unselected(c)
    BY <1>4 DEF SelectionHeld, Unselected
  <2>2. CASE Start(p)
    BY <1>1, <1>2, <2>1, <2>2 DEF Start, Request, CreateSession,
       RevokeAllSessions, Unselected, Ctx
  <2>3. Unselected(Validated(p))
    BY <1>2 DEF Validated, Unselected, NoCtx
  <2>4. CASE Validate(p)
    BY <1>1, <1>2, <2>1, <2>3, <2>4 DEF Validate, FindForValidation,
       ValidateSession, TouchLastSeenIfDue, Unselected, Ctx
  <2>5. CASE Logout(p) \/ Rollback(p)
    BY <1>1, <1>2, <2>1, <2>5 DEF Logout, RevokeSession, RevokeByTokenHash,
       Rollback, Unselected, Ctx
  <2>6. CASE FindPasswordIdentity(p) \/ VerifyPassword(p)
    BY <1>1, <1>2, <2>1, <2>6 DEF FindPasswordIdentity, FindIdentity,
       FindCredential, VerifyPassword,
       Unselected, Ctx
  <2>7. CASE LockSession(p) \/ LockUser(p) \/ LockCredential(p)
    BY <1>1, <1>2, <1>3, <2>1, <2>7 DEF LockSession, LockUser, LockCredential,
       Unselected, Ctx
  <2>8. CASE Login(p)
    <3>1. CASE LockLoginUser(p)
      BY <1>2, <1>3, <2>1, <3>1 DEF LockLoginUser, Unselected
    <3>2. CASE InsertSession(p)
      BY <1>1, <1>2, <2>1, <3>2 DEF InsertSession, Retry, Unselected, Ctx
    <3> QED
      BY <2>8, <3>1, <3>2 DEF Login
  <2>9. CASE RevokeAll(p)
    BY <1>1, <1>2, <1>3, <2>1, <2>9 DEF RevokeAll, RevokeAllForUser, RevokeRow,
       RevocationsRefused, CommitRevocations, ReturnFromRevokeAll, lifeVars,
       Unselected, Ctx
  <2>10. ~CommitReplacement(p)
    BY <1>4 DEF CommitReplacement
  <2> QED
    BY <2>2, <2>4, <2>5, <2>6, <2>7, <2>8, <2>9, <2>10 DEF Step, Renew, Replace
<1>5. CASE pc[p] \in {"lockOrganization", "write", "commit"}
  <2>1. CASE CommitReplacement(p) \/ Rollback(p)
    BY <1>2, <2>1 DEF CommitReplacement, Rollback
  <2>2. ~Start(p) /\ ~Validate(p) /\ ~Logout(p)
    BY <1>5 DEF Start, Request, CreateSession, RevokeAllSessions, Validate,
       FindForValidation, ValidateSession, TouchLastSeenIfDue, Logout,
       RevokeSession, RevokeByTokenHash
  <2>3. /\ ~FindPasswordIdentity(p) /\ ~VerifyPassword(p) /\ ~LockSession(p)
        /\ ~LockUser(p) /\ ~LockCredential(p)
    BY <1>5 DEF FindPasswordIdentity, FindIdentity, FindCredential,
       VerifyPassword, LockSession, LockUser,
       LockCredential
  <2>4. ~Login(p)
    BY <1>5 DEF Login, LockLoginUser, InsertSession
  <2>5. ~RevokeAll(p)
    BY <1>5 DEF RevokeAll, RevokeAllForUser, RevokeRow, RevocationsRefused,
       CommitRevocations, ReturnFromRevokeAll
  <2> QED
    BY <2>1, <2>2, <2>3, <2>4, <2>5 DEF Step, Renew, Replace
<1> QED
  BY <1>4, <1>5

\* The membership is resolved under its lock ...
LEMMA MembershipResolved ==
  ASSUME IInv, NEW p \in Worker, SelectionHeld(p), LockMembership(p)
  PROVE  SelectionHeld(p)'
<1> DEFINE u == ctx[p].user
           o == ctx[p].row.org
           v == memberships[<<u, o>>].version
           c == [ctx[p] EXCEPT !.version = v]
<1>1. /\ pc[p] = "lockMembership" /\ ctx[p] \in Ctx /\ o \in Org /\ u \in User
      /\ Unselected(ctx[p]) /\ Acquire(p, MembershipLock(u, o), "S")
  BY WorkerFacts DEF LockMembership, CapturedAt, TxSteps, ReplaceSteps,
     SelectionHeld, Unselected
<1>2. Holds(p, MembershipLock(u, o), "S")' /\ memberships' = memberships
  <2>1. Holds(p, MembershipLock(ctx[p].user, ctx[p].row.org), "S")'
    <3>1. ctx'[p].user = u /\ ctx'[p].row = ctx[p].row
      BY <1>1 DEF LockMembership, Goto, Proceed, IInv, TypeOK, Ctx
    <3> QED
      BY <1>1, <3>1 DEF Acquire, Take, Holds, MembershipLock, IInv, TypeOK,
         StoreTypeOK
  <2> QED
    BY <2>1 DEF LockMembership, authorityRows
<1>3. v # None
  <2>1. memberships[<<u, o>>] \in MembershipRow
    BY <1>1 DEF IInv, TypeOK, StoreTypeOK
  <2> QED
    BY <2>1, StoreAssumption DEF MembershipRow
<1>4. CASE memberships[<<u, o>>].status = "Active" /\ Proceed(p, "lockOrganization", c)
  <2>1. pc'[p] = "lockOrganization" /\ ctx'[p] = c
    BY <1>4 DEF Proceed, IInv, TypeOK
  <2>2. c.user = u /\ c.row = ctx[p].row /\ c.version = v /\ c.org = None
    BY <1>1 DEF Ctx, Unselected
  <2> HIDE DEF c
  <2> QED
    BY <1>1, <1>2, <1>3, <1>4, <2>1, <2>2 DEF SelectionHeld
<1>5. CASE Goto(p, "write")
  BY <1>1, <1>5 DEF Goto, Proceed, IInv, TypeOK, SelectionHeld, Unselected
<1> QED
  BY <1>4, <1>5 DEF LockMembership

\* ... and the organization under the advisory lock.
LEMMA OrganizationResolved ==
  ASSUME IInv, NEW p \in Worker, SelectionHeld(p), LockOrganization(p)
  PROVE  SelectionHeld(p)'
<1> DEFINE old == ctx[p]
           org == old.row.org
           kept == [old EXCEPT !.org = org]
           dropped == [old EXCEPT !.version = None]
<1>1. /\ pc[p] = "lockOrganization" /\ old \in Ctx /\ org \in Org /\ old.org = None
      /\ memberships' = memberships /\ orgs' = orgs /\ pc'[p] = "write"
      /\ ctx'[p] = IF orgs[org] = "Active" THEN kept ELSE dropped
      /\ Acquire(p, OrganizationLock(org), "S")
  BY WorkerFacts DEF LockOrganization, CapturedAt, SelectionHeld, Proceed,
     authorityRows, IInv, TypeOK
<1>2. locks'[p] = locks[p] \cup {[res |-> OrganizationLock(org), mode |-> "S"]}
  BY <1>1 DEF Acquire, Take, IInv, TypeOK, StoreTypeOK
<1>3. CASE orgs[org] = "Active"
  <2>1. ctx'[p] = kept
    BY <1>1, <1>3
  <2>2. /\ kept.user = old.user /\ kept.row = old.row /\ kept.version = old.version
        /\ kept.org = org
    BY <1>1 DEF Ctx
  <2>3. old.version # None
    BY <1>1 DEF SelectionHeld
  <2> HIDE DEF kept
  <2> QED
    BY <1>1, <1>2, <1>3, <2>1, <2>2, <2>3 DEF SelectionHeld, Holds
<1>4. CASE orgs[org] # "Active"
  <2>1. Unselected(ctx'[p])
    BY <1>1, <1>4 DEF Unselected, Ctx
  <2> QED
    BY <1>1, <2>1 DEF SelectionHeld, Unselected
<1> QED
  BY <1>3, <1>4

LEMMA OrganizationStepEntered ==
  ASSUME IInv, NEW p \in Worker, Start(p) \/ Step(p) \/ Rollback(p),
         pc'[p] = "lockOrganization"
  PROVE  LockMembership(p)
<1>1. ~Finish(p)
  BY LabelReached
<1>2. \/ LockSession(p) \/ LockUser(p) \/ LockCredential(p)
      \/ LockMembership(p) \/ LockOrganization(p) \/ WriteReplacement(p)
  BY OwnSteps DEF ReplaceSteps
<1>3. ~LockSession(p) /\ ~LockUser(p) /\ ~LockCredential(p)
  BY <1>1, LabelReached DEF LockSession, LockUser, LockCredential
<1>4. ~LockOrganization(p) /\ ~WriteReplacement(p)
  BY <1>1, LabelReached DEF LockOrganization, WriteReplacement
<1> QED
  BY <1>2, <1>3, <1>4

LEMMA SelectionHeldStep ==
  ASSUME IInv, [Next]_vars, NEW p \in Worker, SelectionHeld(p)
  PROVE  SelectionHeld(p)'
<1>1. CASE pc'[p] = pc[p] /\ ctx'[p] = ctx[p] /\ locks'[p] = locks[p]
  BY <1>1, HeldStays
<1>2. CASE Start(p) \/ Step(p) \/ Rollback(p)
  <2>1. CASE LockMembership(p)
    BY <2>1, MembershipResolved
  <2>2. CASE LockOrganization(p)
    BY <2>2, OrganizationResolved
  <2>3. CASE Unselected(ctx'[p]) /\ ~LockMembership(p)
    BY <1>2, <2>3, OrganizationStepEntered DEF SelectionHeld, Unselected
  <2>4. CASE WriteReplacement(p) /\ ~Unselected(ctx'[p])
    <3>1. ~Finish(p)
      BY <2>4, NoCtxType DEF Finish, Proceed, IInv, TypeOK, Unselected, NoCtx
    <3>2. /\ pc[p] = "write" /\ pc'[p] = "commit" /\ locks'[p] = locks[p]
          /\ ctx'[p] = [ctx[p] EXCEPT !.revokeAt = now]
      BY <2>4, <3>1 DEF WriteReplacement, Proceed, IInv, TypeOK
    <3> QED
      BY <3>2, HeldStays
  <2> QED
    BY <1>2, <2>1, <2>2, <2>3, <2>4, SelectionSteps
<1>3. ASSUME NEW q \in Worker \ {p}, Start(q) \/ Step(q) \/ Rollback(q)
      PROVE  pc'[p] = pc[p] /\ ctx'[p] = ctx[p] /\ locks'[p] = locks[p]
  BY <1>3, OneMoves DEF IInv
<1>4. Environment => locks' = locks
  BY DEF Environment, Tick, DisableUser, ChangePassword, ChangeMembership,
     ChangeOrganization
<1> QED
  BY <1>1, <1>2, <1>3, <1>4 DEF Next, vars, storeVars, lifeVars, SelectOrganization

LEMMA SelectionsHeld == Spec => [](\A p \in Worker : SelectionHeld(p))
<1>1. Init => \A p \in Worker : SelectionHeld(p)
  BY DEF Init, SelectionHeld, NoCtx
<1>2. IInv /\ (\A p \in Worker : SelectionHeld(p)) /\ [Next]_vars
        => (\A p \in Worker : SelectionHeld(p))'
  BY SelectionHeldStep
<1> QED
  BY <1>1, <1>2, Invariance, PTL DEF Spec

\* The selection of a row that is there changes by a resolution only.
LEMMA SelectionMoves ==
  ASSUME IInv, [Next]_vars, NEW t \in Token, Exists(t),
         <<sessions'[t].org, sessions'[t].version>>
           # <<sessions[t].org, sessions[t].version>>
  PROVE  /\ sessions[t].org = None
         /\ memberships[<<sessions'[t].user, sessions'[t].org>>].status = "Active"
         /\ memberships[<<sessions'[t].user, sessions'[t].org>>].version
              = sessions'[t].version
<1> DEFINE Same == sessions'[t].org = sessions[t].org
                   /\ sessions'[t].version = sessions[t].version
<1>1. sessions[t] \in SessionRow /\ sessions \in [Token -> SessionRow \cup {None}]
  BY Rows DEF Exists
<1>2. \A p \in Worker : TouchLastSeenIfDue(p) => Same
  BY <1>1 DEF TouchLastSeenIfDue, SessionRow
<1>3. \A p \in Worker : RevokeByTokenHash(p) => Same
  BY <1>1 DEF RevokeByTokenHash, SessionRow
<1>4. \A p \in Worker : CommitRevocations(p) => Same
  BY <1>1 DEF CommitRevocations, SessionRow
<1>5. ASSUME NEW p \in Worker, CommitReplacement(p) PROVE Same
  <2>1. t # ctx[p].fresh
    BY <1>5 DEF CommitReplacement, IInv, PendingApart
  <2> QED
    BY <1>1, <1>5, <2>1 DEF CommitReplacement, SessionRow
<1>6. \A p \in Worker : InsertSession(p) => Same
  BY <1>1 DEF InsertSession
<1>7. PICK s \in Token : SelectOrganization(s)
  BY <1>2, <1>3, <1>4, <1>5, <1>6, SessionWriters
<1>8. PICK o \in Org :
        /\ memberships[<<sessions[s].user, o>>].status = "Active"
        /\ sessions' = [sessions EXCEPT
             ![s].org = o, ![s].version = memberships[<<sessions[s].user, o>>].version]
  BY <1>7 DEF SelectOrganization
<1> DEFINE v == memberships[<<sessions[s].user, o>>].version
           new == [sessions[s] EXCEPT !.org = o, !.version = v]
<1>9. sessions[s] \in SessionRow /\ sessions[s].org = None
  BY <1>1, <1>7 DEF SelectOrganization, Unrevoked, Exists
<1>10. sessions' = [sessions EXCEPT ![s] = new]
  BY <1>1, <1>8, <1>9
<1>11. s = t
  BY <1>1, <1>10
<1>12. new.user = sessions[s].user /\ new.org = o /\ new.version = v
  BY <1>9 DEF SessionRow
<1>13. sessions'[t] = new
  BY <1>1, <1>10, <1>11
<1> HIDE DEF new
<1> QED
  BY <1>8, <1>9, <1>11, <1>12, <1>13

\* A session that is born with a selection keeps that of the one it replaces.
LEMMA SelectionKept ==
  ASSUME IInv, [Next]_vars, \A p \in Worker : SelectionHeld(p),
         NEW t \in Token, ~Exists(t), sessions'[t] # None, sessions'[t].org # None
  PROVE  LET new == sessions'[t] IN
         /\ memberships[<<new.user, new.org>>].status = "Active"
         /\ memberships[<<new.user, new.org>>].version = new.version
         /\ new.org = sessions[new.parent].org
         /\ Compliant => orgs[new.org] = "Active"
<1>1. \A u, org, version, at, parent :
        LET new == NewSession(u, org, version, at, parent) IN
        /\ new.user = u /\ new.org = org /\ new.version = version
        /\ new.parent = parent
  BY DEF NewSession
<1>2. PICK p \in Worker :
        /\ CommitReplacement(p)
        /\ sessions'[t].user = ctx[p].user /\ sessions'[t].org = ctx[p].org
        /\ sessions'[t].version = ctx[p].version
        /\ sessions'[t].parent = ctx[p].token
  BY <1>1, NewRow
<1>3. ctx[p].row = sessions[ctx[p].token]
  BY <1>2, WorkerFacts DEF CommitReplacement, HoldsOld, ReplaceSteps
<1>4. SelectionHeld(p)
  OBVIOUS
<1>5. /\ memberships[<<ctx[p].user, ctx[p].org>>].status = "Active"
      /\ memberships[<<ctx[p].user, ctx[p].org>>].version = ctx[p].version
      /\ ctx[p].org = ctx[p].row.org
      /\ Compliant => orgs[ctx[p].org] = "Active"
  BY <1>2, <1>4 DEF SelectionHeld
<1> QED
  BY <1>2, <1>3, <1>5

\* A selection is written from an Active membership at its version of that very
\* step, once; a renewal keeps the selection it replaces or drops it.
THEOREM SelectionsCurrent == Spec => SelectionIsCurrent
<1>1. IInv /\ (\A p \in Worker : SelectionHeld(p)) /\ [Next]_vars =>
        [\A t \in Token :
           LET new == sessions'[t] IN
           /\ new # None /\ new.org # None
           /\ Exists(t) =>
                <<new.org, new.version>> # <<sessions[t].org, sessions[t].version>>
           => /\ memberships[<<new.user, new.org>>].status = "Active"
              /\ memberships[<<new.user, new.org>>].version = new.version
              /\ IF Exists(t) THEN sessions[t].org = None
                 ELSE /\ new.org = sessions[new.parent].org
                      /\ Compliant => orgs[new.org] = "Active"]_vars
  BY SelectionMoves, SelectionKept
<1> QED
  BY <1>1, Invariance, SelectionsHeld, PTL DEF Spec, SelectionIsCurrent

\* All of it together: what renewals and revocations have resolved, written and
\* selected is still so when they commit.
THEOREM Outcomes == Spec => []OutcomeInv
<1>1. /\ ReplacedWhileLive /\ \A p \in Worker : WrittenLive(p)
      /\ \A p \in Worker : RevocationCovers(p)
      /\ \A p \in Worker : SelectionHeld(p)
      => OutcomeInv
  BY DEF OutcomeInv
<1> QED
  BY <1>1, LiveHolds, CoverHolds, SelectionsHeld, PTL
==============================================================================
